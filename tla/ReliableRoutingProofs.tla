------------------------ MODULE ReliableRoutingProofs ------------------------
(***************************************************************************)
(* What the routers keep true whatever the network, the losses and the     *)
(* timers: packets and records are well formed, a packet that looks as if  *)
(* its sender was heard was sent by it, an acknowledgement tells the truth *)
(* and is not followed by a failure, and every phone gets a verdict that   *)
(* the full inbox of its node does not discard.                            *)
(*                                                                         *)
(* The argument speaks of all the packets made so far, of which C keeps    *)
(* what no relay changes (Core).  Each is made once, by the node it comes  *)
(* from; copies of it only differ in what a relay writes.  Each operator   *)
(* of a router keeps its node Good with respect to C.                      *)
(***************************************************************************)
EXTENDS ReliableRouting, SequenceTheorems, FiniteSetTheorems,
        WellFoundedInduction, TLAPS

----------------------------------------------------------------------------
(* The sequences *)

\* By the sets 1..x, the smallest of which is contained in no other
LEMMA MinIsLeast ==
    ASSUME NEW T, T \subseteq Nat, T # {}
    PROVE  Min(T) \in T
  <1> DEFINE F == {1..x : x \in T}
  <1>1. F \subseteq FiniteSubsetsOf(Nat) /\ F # {}
    <2>1. \A x \in T : IsFiniteSet(1..x) /\ 1..x \subseteq Nat
      BY FS_Interval
    <2>2. \A x \in T : 1..x \in FiniteSubsetsOf(Nat)
      BY <2>1 DEF FiniteSubsetsOf
    <2> QED
      BY <2>2
  <1>2. PICK I \in F : \A J \in F : ~ (<<J, I>> \in StrictSubsetOrdering(Nat))
    BY <1>1, WFMin, FS_StrictSubsetOrderingWellFounded
  <1>3. PICK x \in T : I = 1..x
    OBVIOUS
  <1>4. \A y \in T : x <= y
    <2> SUFFICES ASSUME NEW y \in T, ~(x <= y) PROVE FALSE
      OBVIOUS
    <2>1. x \in Nat /\ y \in Nat /\ y < x
      OBVIOUS
    <2>2. 1..y \subseteq 1..x /\ x \in 1..x /\ x \notin 1..y
      BY <2>1
    <2>3. <<1..y, 1..x>> \in StrictSubsetOrdering(Nat)
      BY <2>1, <2>2 DEF StrictSubsetOrdering
    <2> QED
      BY <1>2, <1>3, <2>3
  <1> QED
    BY <1>4 DEF Min

\* What is left after a packet is taken out was there before
LEMMA Removed ==
    ASSUME NEW q \in Seq(Packet), NEW k \in 1..Len(q)
    PROVE  /\ RemoveAt(q, k) \in Seq(Packet)
           /\ \A j \in 1..Len(RemoveAt(q, k)) :
                 \E i \in 1..Len(q) : RemoveAt(q, k)[j] = q[i]
  <1> DEFINE a == SubSeq(q, 1, k - 1)
             b == SubSeq(q, k + 1, Len(q))
  <1>1. /\ a \in Seq(Packet) /\ Len(a) = k - 1
        /\ \A j \in 1..(k - 1) : a[j] = q[j]
    BY SubSeqProperties
  <1>2. /\ b \in Seq(Packet) /\ Len(b) = Len(q) - k
        /\ \A j \in 1..(Len(q) - k) : b[j] = q[k + j]
    BY SubSeqProperties
  <1>3. RemoveAt(q, k) = a \o b
    BY DEF RemoveAt
  <1> HIDE DEF a, b
  <1>4. /\ RemoveAt(q, k) \in Seq(Packet) /\ Len(RemoveAt(q, k)) = Len(q) - 1
        /\ \A j \in 1..(Len(q) - 1) :
              RemoveAt(q, k)[j] = IF j < k THEN q[j] ELSE q[j + 1]
    BY <1>1, <1>2, <1>3, ConcatProperties
  <1> QED
    BY <1>4

LEMMA Appended ==
    ASSUME NEW q \in Seq(Packet), NEW p \in Packet
    PROVE  /\ Append(q, p) \in Seq(Packet) /\ Len(Append(q, p)) = Len(q) + 1
           /\ \A i \in 1..Len(q) : Append(q, p)[i] = q[i]
           /\ Append(q, p)[Len(q) + 1] = p
  BY AppendProperties

LEMMA Dropped ==
    ASSUME NEW q \in Seq(Packet), q # <<>>
    PROVE  /\ Tail(q) \in Seq(Packet) /\ Len(Tail(q)) = Len(q) - 1
           /\ Len(q) \in Nat \ {0}
           /\ \A i \in 1..Len(Tail(q)) : Tail(q)[i] = q[i + 1]
           /\ Head(q) = q[1] /\ Head(q) \in Packet
  BY HeadTailProperties, EmptySeq

----------------------------------------------------------------------------
(* Good nodes *)

\* What no relay changes of a packet
Core(x) == [from |-> x.from, to |-> x.to, id |-> x.id, request |-> x.request,
            error |-> x.error]
Cores == [from: Nodes, to: Nodes \cup {Broadcast}, id: Nat, request: Nat,
          error: BOOLEAN]

\* Hop limits only go down, and only the sender sends with the one it chose.
Aired(x) == /\ x.hopStart = 0 \/ x.hop <= x.hopStart
            /\ IsRepeated(x) => x.relay = x.from

\* What node n may hand to Router::send
Sendable(n, x, C) ==
    /\ x \in Packet /\ Core(x) \in C
    /\ x.to # n /\ x.to # x.from
    /\ x.from # n => x.hopStart = 0 \/ x.hop < x.hopStart

InTheAir(x, C) == x \in Packet /\ Core(x) \in C /\ x.to # x.from /\ Aired(x)

\* Only what a node tells itself comes in as if sent to its sender.
Incoming(n, x, C) ==
    /\ x \in Packet /\ Core(x) \in C /\ Aired(x)
    /\ x.to = x.from => x.from = n /\ ~x.wantAck /\ x.nextHop = None

Histories == UNION {[K -> HistoryRecord] : K \in SUBSET Keys}
Entries   == [packet: Packet, left: Nat]
Pendings  == UNION {[K -> Entries] : K \in SUBSET Keys}

\* H and K hold the keys that n's history and n's retransmissions may have.
Good(n, s, C, H, K) ==
    /\ s \in NodeState /\ Len(s.inbox) <= MaxInbox
    /\ \A i \in 1..Len(s.tx) : InTheAir(s.tx[i], C)
    /\ \A i \in 1..Len(s.inbox) : Incoming(n, s.inbox[i], C)
    /\ \A k \in DOMAIN s.pending :
          /\ k \in K /\ Key(s.pending[k].packet) = k
          /\ Sendable(n, s.pending[k].packet, C)
          /\ s.pending[k].left \in 0..(ReliableRetx - 1)
    /\ DOMAIN s.history \subseteq H

\* t differs from s in neither numbers given out nor packets to handle.
Same(s, t) == t.seq = s.seq /\ t.inbox = s.inbox

LEMMA Constants ==
    /\ HopLimit \in Nat \ {0} /\ MaxInbox \in Nat \ {0}
    /\ ReliableRetx \in Nat \ {0} /\ RelayRetx \in 2..ReliableRetx
    /\ MaxSends \in Nat /\ MaxFaults \in Nat
    /\ None \notin Nodes /\ Broadcast \notin Nodes
  BY NetworkAssumption, RetxAssumption

LEMMA GoodState ==
    ASSUME NEW n, NEW s, NEW C, NEW H, NEW K, Good(n, s, C, H, K)
    PROVE  /\ s.seq \in Nat /\ s.history \in Histories /\ s.pending \in Pendings
           /\ s.tx \in Seq(Packet) /\ s.inbox \in Seq(Packet)
           /\ s.route \in [Nodes -> Nodes \cup {None}] /\ s.draining \in BOOLEAN
           /\ DOMAIN s.history \subseteq Keys /\ DOMAIN s.pending \subseteq Keys
           /\ \A k \in DOMAIN s.history : s.history[k] \in HistoryRecord
           /\ \A k \in DOMAIN s.pending : s.pending[k] \in Entries
  <1>1. /\ s.seq \in Nat /\ s.history \in Histories /\ s.pending \in Pendings
        /\ s.tx \in Seq(Packet) /\ s.inbox \in Seq(Packet)
        /\ s.route \in [Nodes -> Nodes \cup {None}] /\ s.draining \in BOOLEAN
    BY DEF Good, NodeState, Histories, Pendings, Entries
  <1>2. PICK J \in SUBSET Keys : s.history \in [J -> HistoryRecord]
    BY <1>1 DEF Histories
  <1>3. PICK L \in SUBSET Keys : s.pending \in [L -> Entries]
    BY <1>1 DEF Pendings
  <1> QED
    BY <1>1, <1>2, <1>3

\* One component at a time: what a new value of it must satisfy
LEMMA GoodHistory ==
    ASSUME NEW n, NEW s, NEW C, NEW H, NEW K, Good(n, s, C, H, K),
           NEW h \in Histories, DOMAIN h \subseteq H
    PROVE  /\ Good(n, [s EXCEPT !.history = h], C, H, K)
           /\ [s EXCEPT !.history = h].history = h
           /\ [s EXCEPT !.history = h].pending = s.pending
           /\ [s EXCEPT !.history = h].tx = s.tx
           /\ Same(s, [s EXCEPT !.history = h])
  <1>1. s \in NodeState
    BY DEF Good
  <1> DEFINE t == [s EXCEPT !.history = h]
  <1>2. /\ t \in NodeState /\ t.history = h /\ t.pending = s.pending /\ t.tx = s.tx
        /\ t.inbox = s.inbox /\ t.seq = s.seq
    BY <1>1 DEF NodeState, Histories
  <1> HIDE DEF t
  <1> QED
    BY <1>2 DEF Good, Same, t

LEMMA GoodPending ==
    ASSUME NEW n, NEW s, NEW C, NEW H, NEW K, NEW L, Good(n, s, C, H, K),
           NEW h \in Pendings,
           \A k \in DOMAIN h : /\ k \in L /\ Key(h[k].packet) = k
                               /\ Sendable(n, h[k].packet, C)
                               /\ h[k].left \in 0..(ReliableRetx - 1)
    PROVE  /\ Good(n, [s EXCEPT !.pending = h], C, H, L)
           /\ [s EXCEPT !.pending = h].pending = h
           /\ [s EXCEPT !.pending = h].history = s.history
           /\ Same(s, [s EXCEPT !.pending = h])
  <1>1. s \in NodeState
    BY DEF Good
  <1> DEFINE t == [s EXCEPT !.pending = h]
  <1>2. /\ t \in NodeState /\ t.history = s.history /\ t.pending = h
        /\ t.inbox = s.inbox /\ t.seq = s.seq /\ t.tx = s.tx
    BY <1>1 DEF NodeState, Pendings, Entries
  <1> HIDE DEF t
  <1> QED
    BY <1>2 DEF Good, Same, t

LEMMA GoodTx ==
    ASSUME NEW n, NEW s, NEW C, NEW H, NEW K, Good(n, s, C, H, K),
           NEW h \in Seq(Packet), \A i \in 1..Len(h) : InTheAir(h[i], C)
    PROVE  /\ Good(n, [s EXCEPT !.tx = h], C, H, K)
           /\ [s EXCEPT !.tx = h].pending = s.pending
           /\ [s EXCEPT !.tx = h].history = s.history
           /\ Same(s, [s EXCEPT !.tx = h])
  <1>1. s \in NodeState
    BY DEF Good
  <1> DEFINE t == [s EXCEPT !.tx = h]
  <1>2. /\ t \in NodeState /\ t.history = s.history /\ t.pending = s.pending
        /\ t.inbox = s.inbox /\ t.seq = s.seq /\ t.tx = h
    BY <1>1 DEF NodeState
  <1> HIDE DEF t
  <1> QED
    BY <1>2 DEF Good, Same, t

LEMMA GoodInbox ==
    ASSUME NEW n, NEW s, NEW C, NEW H, NEW K, Good(n, s, C, H, K),
           NEW h \in Seq(Packet), Len(h) <= MaxInbox,
           \A i \in 1..Len(h) : Incoming(n, h[i], C)
    PROVE  /\ Good(n, [s EXCEPT !.inbox = h], C, H, K)
           /\ [s EXCEPT !.inbox = h].inbox = h
           /\ [s EXCEPT !.inbox = h].pending = s.pending
           /\ [s EXCEPT !.inbox = h].history = s.history
           /\ [s EXCEPT !.inbox = h].seq = s.seq
  <1>1. s \in NodeState
    BY DEF Good
  <1> DEFINE t == [s EXCEPT !.inbox = h]
  <1>2. /\ t \in NodeState /\ t.history = s.history /\ t.pending = s.pending
        /\ t.inbox = h /\ t.seq = s.seq /\ t.tx = s.tx
    BY <1>1 DEF NodeState
  <1> HIDE DEF t
  <1> QED
    BY <1>2 DEF Good, t

LEMMA GoodRoute ==
    ASSUME NEW n, NEW s, NEW C, NEW H, NEW K, Good(n, s, C, H, K),
           NEW h \in [Nodes -> Nodes \cup {None}]
    PROVE  /\ Good(n, [s EXCEPT !.route = h], C, H, K)
           /\ [s EXCEPT !.route = h].pending = s.pending
           /\ Same(s, [s EXCEPT !.route = h])
  <1>1. s \in NodeState
    BY DEF Good
  <1> DEFINE t == [s EXCEPT !.route = h]
  <1>2. /\ t \in NodeState /\ t.history = s.history /\ t.pending = s.pending
        /\ t.inbox = s.inbox /\ t.seq = s.seq /\ t.tx = s.tx
    BY <1>1 DEF NodeState
  <1> HIDE DEF t
  <1> QED
    BY <1>2 DEF Good, Same, t

----------------------------------------------------------------------------
(* The operators keep their node good *)

LEMMA PacketFields ==
    ASSUME NEW p \in Packet
    PROVE  /\ p.from \in Nodes /\ p.to \in Nodes \cup {Broadcast} /\ p.id \in Nat
           /\ p.request \in Nat /\ p.hopStart \in Nat /\ p.hop \in Nat
           /\ p.relay \in Nodes \cup {None} /\ p.nextHop \in Nodes \cup {None}
           /\ p.wantAck \in BOOLEAN /\ p.text \in BOOLEAN /\ p.error \in BOOLEAN
           /\ Key(p) \in Keys /\ Core(p) \in Cores
  <1>1. /\ p.from \in Nodes /\ p.to \in Nodes \cup {Broadcast} /\ p.id \in Nat
        /\ p.request \in Nat /\ p.hopStart \in Nat /\ p.hop \in Nat
        /\ p.relay \in Nodes \cup {None} /\ p.nextHop \in Nodes \cup {None}
        /\ p.wantAck \in BOOLEAN /\ p.text \in BOOLEAN /\ p.error \in BOOLEAN
    BY DEF Packet
  <1> QED
    BY <1>1 DEF Key, Keys, Core, Cores

LEMMA RecordType ==
    ASSUME NEW n \in Nodes, NEW p \in Packet, NEW r \in HistoryRecord
    PROVE  NewRecord(n, p) \in HistoryRecord /\ Updated(n, r, p) \in HistoryRecord
  <1>1. /\ p.hop \in Nat /\ p.relay \in Nodes \cup {None}
        /\ p.nextHop \in Nodes \cup {None}
    BY PacketFields
  <1>2. /\ r.hop \in Nat /\ r.ourTx \in Nat /\ r.nextHop \in Nodes \cup {None}
        /\ r.relayers \in SUBSET Nodes
    BY DEF HistoryRecord
  <1>3. NewRecord(n, p) \in HistoryRecord
    <2>1. {n} \cap {p.relay} \in SUBSET Nodes
          /\ (IF p.relay = n THEN p.hop ELSE 0) \in Nat
      BY <1>1
    <2> QED
      BY <1>1, <2>1 DEF NewRecord, HistoryRecord
  <1>4. Updated(n, r, p) \in HistoryRecord
    <2> DEFINE R == r.relayers \cup
                    IF p.relay = n \/ HeardUs(n, r, p) THEN {p.relay} \ {None}
                    ELSE {}
    <2>1. /\ (IF r.hop > p.hop THEN r.hop ELSE p.hop) \in Nat
          /\ (IF p.relay = n THEN p.hop ELSE r.ourTx) \in Nat
      BY <1>1, <1>2
    <2>2. R \in SUBSET Nodes
      BY <1>1, <1>2
    <2> QED
      BY <1>2, <2>1, <2>2 DEF Updated, HistoryRecord
  <1> QED
    BY <1>3, <1>4

LEMMA RememberGood ==
    ASSUME NEW n \in Nodes, NEW s, NEW C, NEW H, NEW K, Good(n, s, C, H, K),
           NEW p \in Packet, Key(p) \in H
    PROVE  /\ Good(n, Remember(n, s, p), C, H, K)
           /\ Same(s, Remember(n, s, p))
           /\ Remember(n, s, p).pending = s.pending
           /\ Key(p) \in DOMAIN Remember(n, s, p).history
  <1> DEFINE r == IF Seen(s, p) THEN Updated(n, s.history[Key(p)], p)
                  ELSE NewRecord(n, p)
             h == [k \in DOMAIN s.history \cup {Key(p)} |->
                      IF k = Key(p) THEN r ELSE s.history[k]]
  <1>1. Remember(n, s, p) = [s EXCEPT !.history = h]
    BY DEF Remember
  <1>2. /\ DOMAIN s.history \subseteq Keys /\ DOMAIN s.history \subseteq H
        /\ \A k \in DOMAIN s.history : s.history[k] \in HistoryRecord
    BY GoodState DEF Good
  <1>3. r \in HistoryRecord
    <2>1. CASE Seen(s, p)
      BY <1>2, <2>1, RecordType DEF Seen
    <2>2. CASE ~Seen(s, p)
      <3>1. PICK x \in HistoryRecord : x = [hop |-> 0, ourTx |-> 0, nextHop |-> None,
                                            relayers |-> {}]
        BY DEF HistoryRecord
      <3> QED
        BY <2>2, <3>1, RecordType
    <2> QED
      BY <2>1, <2>2
  <1> HIDE DEF r
  <1>4. h \in Histories /\ DOMAIN h \subseteq H /\ Key(p) \in DOMAIN h
    <2>1. DOMAIN h = DOMAIN s.history \cup {Key(p)} /\ Key(p) \in Keys
      BY PacketFields
    <2>2. h \in [DOMAIN s.history \cup {Key(p)} -> HistoryRecord]
      BY <1>2, <1>3
    <2>3. DOMAIN s.history \cup {Key(p)} \in SUBSET Keys
      BY <1>2, <2>1
    <2> QED
      BY <1>2, <2>1, <2>2, <2>3 DEF Histories
  <1> HIDE DEF h
  <1> QED
    BY <1>1, <1>4, GoodHistory

LEMMA CancelGood ==
    ASSUME NEW n \in Nodes, NEW s, NEW C, NEW H, NEW K, Good(n, s, C, H, K), NEW key
    PROVE  /\ Good(n, Cancel(n, s, key), C, H, K)
           /\ Same(s, Cancel(n, s, key))
           /\ Cancel(n, s, key).pending = s.pending
           /\ DOMAIN Cancel(n, s, key).history = DOMAIN s.history
  <1>1. CASE ~InTx(s, key)
    BY <1>1 DEF Cancel, Same
  <1>2. CASE InTx(s, key)
    <2> DEFINE I == {i \in 1..Len(s.tx) : Key(s.tx[i]) = key}
               j == SelectInSeq(s.tx, LAMBDA q : Key(q) = key)
               rest == RemoveAt(s.tx, j)
               h == [k \in DOMAIN s.history |->
                       IF k = key THEN RemoveRelayer(n, s.history[k])
                       ELSE s.history[k]]
    <2>1. /\ s.tx \in Seq(Packet) /\ Len(s.tx) \in Nat
          /\ DOMAIN s.history \subseteq Keys /\ DOMAIN s.history \subseteq H
          /\ \A k \in DOMAIN s.history : s.history[k] \in HistoryRecord
          /\ s \in NodeState
      <3>1. /\ s.tx \in Seq(Packet) /\ DOMAIN s.history \subseteq Keys
            /\ \A k \in DOMAIN s.history : s.history[k] \in HistoryRecord
        BY GoodState
      <3>2. s \in NodeState /\ DOMAIN s.history \subseteq H
        BY DEF Good
      <3> QED
        BY <3>1, <3>2
    <2>2. I # {} /\ j = Min(I)
      BY <1>2, <2>1 DEF InTx, SelectInSeq
    <2>3. j \in 1..Len(s.tx)
      <3>1. I \subseteq Nat /\ I \subseteq 1..Len(s.tx)
        BY <2>1
      <3> QED
        BY <2>2, <3>1, MinIsLeast
    <2>4. /\ rest \in Seq(Packet) /\ \A i \in 1..Len(rest) : InTheAir(rest[i], C)
      <3>1. \A i \in 1..Len(s.tx) : InTheAir(s.tx[i], C)
        BY DEF Good
      <3> HIDE DEF j
      <3> QED
        BY <2>1, <2>3, <3>1, Removed
    <2>5. h \in Histories /\ DOMAIN h \subseteq H /\ DOMAIN h = DOMAIN s.history
      <3>1. \A k \in DOMAIN s.history :
               RemoveRelayer(n, s.history[k]) \in HistoryRecord
        BY <2>1 DEF HistoryRecord, RemoveRelayer
      <3>2. h \in [DOMAIN s.history -> HistoryRecord] /\ DOMAIN h = DOMAIN s.history
        BY <2>1, <3>1
      <3> QED
        BY <2>1, <3>2 DEF Histories
    <2> HIDE DEF I, j, h, rest
    <2> DEFINE t == [s EXCEPT !.tx = rest]
    <2>6. Cancel(n, s, key) = [t EXCEPT !.history = h]
      <3>1. Cancel(n, s, key) = [s EXCEPT !.tx = rest, !.history = h]
        BY <1>2, <2>2 DEF Cancel, rest, h, j
      <3> QED
        BY <2>1, <3>1 DEF NodeState
    <2>7. Good(n, t, C, H, K) /\ Same(s, t) /\ t.pending = s.pending
      BY <2>4, GoodTx
    <2> HIDE DEF t
    <2>8. /\ Good(n, [t EXCEPT !.history = h], C, H, K)
          /\ Same(t, [t EXCEPT !.history = h])
          /\ [t EXCEPT !.history = h].pending = t.pending
          /\ [t EXCEPT !.history = h].history = h
      BY <2>5, <2>7, GoodHistory
    <2> QED
      BY <2>5, <2>6, <2>7, <2>8 DEF Same
  <1> QED
    BY <1>1, <1>2

LEMMA EnqueueGood ==
    ASSUME NEW n \in Nodes, NEW s, NEW C, NEW H, NEW K, Good(n, s, C, H, K),
           NEW p, Incoming(n, p, C)
    PROVE  /\ Good(n, Enqueue(s, p), C, H, K)
           /\ Enqueue(s, p).inbox =
                 Append(IF Len(s.inbox) < MaxInbox THEN s.inbox ELSE Tail(s.inbox), p)
           /\ Enqueue(s, p).pending = s.pending
           /\ Enqueue(s, p).history = s.history
           /\ Enqueue(s, p).seq = s.seq
  <1> DEFINE q == IF Len(s.inbox) < MaxInbox THEN s.inbox ELSE Tail(s.inbox)
             h == Append(q, p)
  <1>1. Enqueue(s, p) = [s EXCEPT !.inbox = h]
    BY DEF Enqueue
  <1>2. /\ s.inbox \in Seq(Packet) /\ Len(s.inbox) <= MaxInbox
        /\ \A i \in 1..Len(s.inbox) : Incoming(n, s.inbox[i], C)
        /\ p \in Packet /\ MaxInbox \in Nat \ {0} /\ Len(s.inbox) \in Nat
    <2>1. s.inbox \in Seq(Packet)
      BY GoodState
    <2>2. /\ Len(s.inbox) <= MaxInbox
          /\ \A i \in 1..Len(s.inbox) : Incoming(n, s.inbox[i], C)
      BY DEF Good
    <2> QED
      BY <2>1, <2>2, Constants DEF Incoming
  <1>3. /\ q \in Seq(Packet) /\ Len(q) + 1 <= MaxInbox /\ Len(q) \in Nat
        /\ \A i \in 1..Len(q) : Incoming(n, q[i], C)
    <2>1. CASE Len(s.inbox) < MaxInbox
      BY <1>2, <2>1
    <2>2. CASE ~(Len(s.inbox) < MaxInbox)
      <3>1. s.inbox # <<>>
        BY <1>2, <2>2
      <3>2. /\ q \in Seq(Packet) /\ Len(q) = Len(s.inbox) - 1
            /\ \A i \in 1..Len(q) : q[i] = s.inbox[i + 1]
        BY <1>2, <2>2, <3>1, Dropped
      <3>3. \A i \in 1..Len(q) : i + 1 \in 1..Len(s.inbox)
        BY <1>2, <3>2
      <3> QED
        BY <1>2, <3>1, <3>2, <3>3, Dropped
    <2> QED
      BY <2>1, <2>2
  <1> HIDE DEF q
  <1>4. /\ h \in Seq(Packet) /\ Len(h) <= MaxInbox
        /\ \A i \in 1..Len(h) : Incoming(n, h[i], C)
    <2>1. /\ h \in Seq(Packet) /\ Len(h) = Len(q) + 1 /\ h[Len(q) + 1] = p
          /\ \A i \in 1..Len(q) : h[i] = q[i]
      BY <1>2, <1>3, Appended
    <2>2. \A i \in 1..Len(h) : i \in 1..Len(q) \/ i = Len(q) + 1
      BY <1>3, <2>1
    <2> QED
      BY <1>3, <2>1, <2>2
  <1> HIDE DEF h
  <1>5. h = Append(q, p)
    BY DEF h
  <1> DEFINE t == [s EXCEPT !.inbox = h]
  <1>6. /\ Good(n, t, C, H, K) /\ t.inbox = h /\ t.pending = s.pending
        /\ t.history = s.history /\ t.seq = s.seq
    BY <1>4, GoodInbox
  <1>7. Enqueue(s, p) = t
    BY <1>1
  <1> HIDE DEF t
  <1> QED
    BY <1>5, <1>6, <1>7 DEF q

LEMMA TransmitGood ==
    ASSUME NEW n \in Nodes, NEW s, NEW C, NEW H, NEW K, Good(n, s, C, H, K),
           NEW p, Sendable(n, p, C)
    PROVE  /\ Good(n, Transmit(n, s, p), C, H, K)
           /\ Same(s, Transmit(n, s, p))
           /\ Transmit(n, s, p).pending = s.pending
  <1> DEFINE x == [p EXCEPT !.relay = n, !.wantAck = @ /\ p.to # Broadcast,
                            !.hopStart = IF Mine(n, p) THEN p.hop ELSE @]
             h == Append(s.tx, x)
  <1>1. Transmit(n, s, p) = [s EXCEPT !.tx = h]
    BY DEF Transmit
  <1>2. p \in Packet
    BY DEF Sendable
  <1>3. /\ x \in Packet /\ x.from = p.from /\ x.to = p.to /\ x.id = p.id
        /\ x.request = p.request /\ x.error = p.error /\ x.relay = n
        /\ x.hop = p.hop
        /\ x.hopStart = IF Mine(n, p) THEN p.hop ELSE p.hopStart
    BY <1>2 DEF Packet
  <1>4. InTheAir(x, C)
    <2> HIDE DEF x
    <2>1. Core(x) = Core(p)
      BY <1>3 DEF Core
    <2>2. p.hop \in Nat /\ p.hopStart \in Nat
      BY <1>2, PacketFields
    <2>3. Aired(x)
      BY <1>3, <2>2 DEF Aired, IsRepeated, Mine, Sendable
    <2> QED
      BY <1>3, <2>1, <2>3 DEF InTheAir, Sendable
  <1>5. s.tx \in Seq(Packet)
    BY GoodState
  <1>6. \A i \in 1..Len(s.tx) : InTheAir(s.tx[i], C)
    BY DEF Good
  <1> HIDE DEF x
  <1>7. h \in Seq(Packet) /\ \A i \in 1..Len(h) : InTheAir(h[i], C)
    <2>1. /\ h \in Seq(Packet) /\ Len(h) = Len(s.tx) + 1 /\ h[Len(s.tx) + 1] = x
          /\ \A i \in 1..Len(s.tx) : h[i] = s.tx[i]
      BY <1>3, <1>5, Appended
    <2>2. \A i \in 1..Len(h) : i \in 1..Len(s.tx) \/ i = Len(s.tx) + 1
      BY <1>5, <2>1
    <2> QED
      BY <1>4, <1>6, <2>1, <2>2
  <1> HIDE DEF h
  <1> QED
    BY <1>1, <1>7, GoodTx

\* What n sends bears its relay byte from then on.
LEMMA Relayed ==
    ASSUME NEW n \in Nodes, NEW C, NEW p, Sendable(n, p, C)
    PROVE  /\ Sendable(n, [p EXCEPT !.relay = n], C)
           /\ Key([p EXCEPT !.relay = n]) = Key(p)
           /\ [p EXCEPT !.relay = n] \in Packet
           /\ [p EXCEPT !.relay = n].to = p.to
  <1> DEFINE q == [p EXCEPT !.relay = n]
  <1>1. p \in Packet
    BY DEF Sendable
  <1>2. /\ q \in Packet /\ q.from = p.from /\ q.to = p.to /\ q.id = p.id
        /\ q.request = p.request /\ q.error = p.error
        /\ q.hop = p.hop /\ q.hopStart = p.hopStart
    BY <1>1 DEF Packet
  <1> HIDE DEF q
  <1>3. Core(q) = Core(p) /\ Key(q) = Key(p)
    BY <1>2 DEF Core, Key
  <1>4. Sendable(n, q, C)
    BY <1>2, <1>3 DEF Sendable
  <1> QED
    BY <1>2, <1>3, <1>4 DEF q

LEMMA FloodGood ==
    ASSUME NEW n \in Nodes, NEW s, NEW C, NEW H, NEW K, Good(n, s, C, H, K),
           NEW p, Sendable(n, p, C), Key(p) \in H
    PROVE  /\ Good(n, Flood(n, s, p), C, H, K)
           /\ Same(s, Flood(n, s, p))
           /\ Flood(n, s, p).pending = s.pending
  <1> DEFINE q == [p EXCEPT !.relay = n]
             t == Remember(n, s, q)
  <1>1. Flood(n, s, p) = Transmit(n, t, q)
    BY DEF Flood
  <1>2. Sendable(n, q, C) /\ Key(q) \in H /\ q \in Packet
    BY Relayed
  <1> HIDE DEF q
  <1>3. Good(n, t, C, H, K) /\ Same(s, t) /\ t.pending = s.pending
    BY <1>2, RememberGood
  <1> HIDE DEF t
  <1> QED
    BY <1>1, <1>2, <1>3, TransmitGood DEF Same

\* The retransmissions without that of key
Without(pending, key) == [k \in DOMAIN pending \ {key} |-> pending[k]]

LEMMA StopGood ==
    ASSUME NEW n \in Nodes, NEW s, NEW C, NEW H, NEW K, Good(n, s, C, H, K), NEW key
    PROVE  /\ Good(n, StopRetransmission(n, s, key), C, H, K \ {key})
           /\ Good(n, StopRetransmission(n, s, key), C, H, K)
           /\ Same(s, StopRetransmission(n, s, key))
           /\ StopRetransmission(n, s, key).pending = Without(s.pending, key)
           /\ DOMAIN StopRetransmission(n, s, key).history = DOMAIN s.history
  <1>1. CASE key \notin DOMAIN s.pending
    <2>1. StopRetransmission(n, s, key) = s
      BY <1>1 DEF StopRetransmission
    <2>2. Good(n, s, C, H, K \ {key})
      BY <1>1 DEF Good
    <2>3. s.pending = Without(s.pending, key)
      <3>1. PICK L \in SUBSET Keys : s.pending \in [L -> Entries]
        BY GoodState DEF Pendings
      <3> QED
        BY <1>1, <3>1 DEF Without
    <2> QED
      BY <1>1, <2>1, <2>2, <2>3 DEF Same
  <1>2. CASE key \in DOMAIN s.pending
    <2> DEFINE old == s.pending[key]
               t == IF /\ old.left < ReliableRetx - 1
                       /\ Mine(n, old.packet) \/ MayCancel(n)
                    THEN Cancel(n, s, key) ELSE s
               h == [k \in DOMAIN t.pending \ {key} |-> t.pending[k]]
    <2>1. StopRetransmission(n, s, key) = [t EXCEPT !.pending = h]
      BY <1>2 DEF StopRetransmission
    <2>2. /\ Good(n, t, C, H, K) /\ Same(s, t) /\ t.pending = s.pending
          /\ DOMAIN t.history = DOMAIN s.history
      BY CancelGood DEF Same
    <2> HIDE DEF t
    <2>3. /\ DOMAIN s.pending \subseteq Keys
          /\ \A k \in DOMAIN s.pending : s.pending[k] \in Entries
      BY GoodState
    <2>4. /\ DOMAIN h = DOMAIN s.pending \ {key}
          /\ \A k \in DOMAIN h : h[k] = s.pending[k]
      BY <2>2
    <2>5. h \in Pendings
      <3>1. h \in [DOMAIN s.pending \ {key} -> Entries]
        BY <2>2, <2>3
      <3>2. DOMAIN s.pending \ {key} \in SUBSET Keys
        BY <2>3
      <3> QED
        BY <3>1, <3>2 DEF Pendings
    <2>6. h = Without(s.pending, key)
      BY <2>2 DEF Without
    <2>7. \A k \in DOMAIN h : /\ k \in K \ {key} /\ k \in K /\ Key(h[k].packet) = k
                              /\ Sendable(n, h[k].packet, C)
                              /\ h[k].left \in 0..(ReliableRetx - 1)
      BY <2>4 DEF Good
    <2> HIDE DEF h
    <2> DEFINE u == [t EXCEPT !.pending = h]
    <2>8. /\ Good(n, u, C, H, K \ {key}) /\ Good(n, u, C, H, K)
          /\ u.pending = h /\ u.history = t.history /\ Same(t, u)
      BY <2>2, <2>5, <2>7, GoodPending
    <2> HIDE DEF u
    <2>9. StopRetransmission(n, s, key) = u
      BY <2>1 DEF u
    <2> QED
      BY <2>2, <2>6, <2>8, <2>9 DEF Same
  <1> QED
    BY <1>1, <1>2

LEMMA StartGood ==
    ASSUME NEW n \in Nodes, NEW s, NEW C, NEW H, NEW K, Good(n, s, C, H, K),
           NEW p, Sendable(n, p, C), Key(p) \in K,
           NEW tries \in 1..ReliableRetx
    PROVE  /\ Good(n, StartRetransmission(n, s, p, tries), C, H, K)
           /\ Same(s, StartRetransmission(n, s, p, tries))
           /\ DOMAIN StartRetransmission(n, s, p, tries).pending =
                 DOMAIN s.pending \cup {Key(p)}
           /\ StartRetransmission(n, s, p, tries).pending[Key(p)].left = tries - 1
           /\ \A k \in DOMAIN s.pending \ {Key(p)} :
                 StartRetransmission(n, s, p, tries).pending[k] = s.pending[k]
  <1> DEFINE t == StopRetransmission(n, s, Key(p))
             e == [packet |-> p, left |-> tries - 1]
             h == [k \in DOMAIN t.pending \cup {Key(p)} |->
                      IF k = Key(p) THEN e ELSE t.pending[k]]
  <1>1. StartRetransmission(n, s, p, tries) = [t EXCEPT !.pending = h]
    BY DEF StartRetransmission
  <1>2. /\ Good(n, t, C, H, K) /\ Same(s, t)
        /\ DOMAIN t.pending = DOMAIN s.pending \ {Key(p)}
        /\ \A k \in DOMAIN s.pending \ {Key(p)} : t.pending[k] = s.pending[k]
    <2>1. /\ Good(n, t, C, H, K) /\ Same(s, t)
          /\ t.pending = Without(s.pending, Key(p))
      BY StopGood
    <2> HIDE DEF t
    <2> QED
      BY <2>1 DEF Without
  <1> HIDE DEF t
  <1>3. /\ DOMAIN t.pending \subseteq Keys
        /\ \A k \in DOMAIN t.pending : t.pending[k] \in Entries
    BY <1>2, GoodState
  <1>4. /\ DOMAIN h = DOMAIN s.pending \cup {Key(p)}
        /\ h[Key(p)] = e
        /\ \A k \in DOMAIN s.pending \ {Key(p)} : h[k] = t.pending[k]
    BY <1>2
  <1>5. e \in Entries /\ e.packet = p /\ e.left = tries - 1
        /\ tries - 1 \in 0..(ReliableRetx - 1)
    BY Constants DEF Entries, Sendable
  <1> HIDE DEF e
  <1>6. h \in Pendings
    <2>1. Key(p) \in Keys
      BY PacketFields DEF Sendable
    <2>2. h \in [DOMAIN t.pending \cup {Key(p)} -> Entries]
      BY <1>3, <1>5
    <2>3. DOMAIN t.pending \cup {Key(p)} \in SUBSET Keys
      BY <1>3, <2>1
    <2> QED
      BY <2>2, <2>3 DEF Pendings
  <1> HIDE DEF h
  <1>7. \A k \in DOMAIN h : /\ k \in K /\ Key(h[k].packet) = k
                            /\ Sendable(n, h[k].packet, C)
                            /\ h[k].left \in 0..(ReliableRetx - 1)
    <2> SUFFICES ASSUME NEW k \in DOMAIN h
                 PROVE  /\ k \in K /\ Key(h[k].packet) = k
                        /\ Sendable(n, h[k].packet, C)
                        /\ h[k].left \in 0..(ReliableRetx - 1)
      OBVIOUS
    <2>1. CASE k = Key(p)
      BY <1>4, <1>5, <2>1
    <2>2. CASE k # Key(p)
      <3>1. k \in DOMAIN t.pending /\ h[k] = t.pending[k]
        BY <1>2, <1>4, <2>2
      <3> QED
        BY <1>2, <3>1 DEF Good
    <2> QED
      BY <2>1, <2>2
  <1> DEFINE u == [t EXCEPT !.pending = h]
  <1>8. Good(n, u, C, H, K) /\ u.pending = h /\ Same(t, u)
    <2>1. Good(n, t, C, H, K)
      BY <1>2
    <2> QED
      BY <2>1, <1>6, <1>7, GoodPending
  <1> HIDE DEF u
  <1>9. StartRetransmission(n, s, p, tries) = u
    BY <1>1 DEF u
  <1> QED
    BY <1>2, <1>4, <1>5, <1>8, <1>9 DEF Same

\* HopSend starts no retransmission for a packet of ours that wants an
\* acknowledgement: ReliableSend has.
LEMMA HopSendGood ==
    ASSUME NEW n \in Nodes, NEW s, NEW C, NEW H, NEW K, Good(n, s, C, H, K),
           NEW p, Sendable(n, p, C), Key(p) \in H,
           p.from # n \/ ~p.wantAck => Key(p) \in K
    PROVE  /\ Good(n, HopSend(n, s, p), C, H, K)
           /\ Same(s, HopSend(n, s, p))
           /\ DOMAIN s.pending \subseteq DOMAIN HopSend(n, s, p).pending
           /\ \A k \in DOMAIN s.pending :
                 \/ HopSend(n, s, p).pending[k] = s.pending[k]
                 \/ HopSend(n, s, p).pending[k].left = RelayRetx - 1
  <1> DEFINE q == [p EXCEPT !.relay = n]
             t == Remember(n, s, q)
             r == [q EXCEPT !.nextHop = NextHop(n, t, p.to)]
             guarded == /\ ~Mine(n, p) \/ ~p.wantAck
                        /\ r.nextHop # None
                        /\ p.hop > 0 \/ p.wantAck
             u == IF guarded THEN StartRetransmission(n, t, r, RelayRetx) ELSE t
  <1>1. HopSend(n, s, p) = Transmit(n, u, r)
    BY DEF HopSend
  <1>2. Sendable(n, q, C) /\ Key(q) = Key(p) /\ q \in Packet /\ q.to = p.to
    BY Relayed
  <1>3. Good(n, t, C, H, K) /\ Same(s, t) /\ t.pending = s.pending
    BY <1>2, RememberGood
  <1>4. NextHop(n, t, p.to) \in Nodes \cup {None}
    <2>1. t.route \in [Nodes -> Nodes \cup {None}]
      BY <1>3, GoodState
    <2>2. p.to \in Nodes \cup {Broadcast}
      BY PacketFields DEF Sendable
    <2> QED
      BY <2>1, <2>2 DEF NextHop
  <1>5. Sendable(n, r, C) /\ Key(r) = Key(p)
    <2> HIDE DEF q, t
    <2>1. /\ r \in Packet /\ r.from = q.from /\ r.to = q.to /\ r.id = q.id
          /\ r.request = q.request /\ r.error = q.error
          /\ r.hop = q.hop /\ r.hopStart = q.hopStart
      BY <1>2, <1>4 DEF Packet
    <2> HIDE DEF r
    <2>2. Core(r) = Core(q) /\ Key(r) = Key(q)
      BY <2>1 DEF Core, Key
    <2> QED
      BY <1>2, <2>1, <2>2 DEF Sendable
  <1>6. RelayRetx \in 1..ReliableRetx
    BY Constants
  <1> HIDE DEF q, t, r
  <1>7. guarded => Key(r) \in K
    BY <1>5 DEF Mine
  <1> HIDE DEF guarded
  <1>8. /\ Good(n, u, C, H, K) /\ Same(s, u)
        /\ DOMAIN s.pending \subseteq DOMAIN u.pending
        /\ \A k \in DOMAIN s.pending : u.pending[k] = s.pending[k]
                                        \/ u.pending[k].left = RelayRetx - 1
    <2>1. CASE guarded
      <3>1. /\ Good(n, u, C, H, K) /\ Same(t, u)
            /\ DOMAIN u.pending = DOMAIN t.pending \cup {Key(r)}
            /\ u.pending[Key(r)].left = RelayRetx - 1
            /\ \A k \in DOMAIN t.pending \ {Key(r)} : u.pending[k] = t.pending[k]
        BY <1>3, <1>5, <1>6, <1>7, <2>1, StartGood
      <3> QED
        BY <1>3, <3>1 DEF Same
    <2>2. CASE ~guarded
      BY <1>3, <2>2
    <2> QED
      BY <2>1, <2>2
  <1> HIDE DEF u
  <1> QED
    BY <1>1, <1>5, <1>8, TransmitGood DEF Same

LEMMA GoodSeq ==
    ASSUME NEW n, NEW s, NEW C, NEW H, NEW K, Good(n, s, C, H, K), NEW i \in Nat
    PROVE  /\ Good(n, [s EXCEPT !.seq = i], C, H, K)
           /\ [s EXCEPT !.seq = i].seq = i
           /\ [s EXCEPT !.seq = i].inbox = s.inbox
           /\ [s EXCEPT !.seq = i].pending = s.pending
           /\ [s EXCEPT !.seq = i].history = s.history
  <1>1. s \in NodeState
    BY DEF Good
  <1> DEFINE t == [s EXCEPT !.seq = i]
  <1>2. /\ t \in NodeState /\ t.history = s.history /\ t.pending = s.pending
        /\ t.inbox = s.inbox /\ t.seq = i /\ t.tx = s.tx
    BY <1>1 DEF NodeState
  <1> HIDE DEF t
  <1> QED
    BY <1>2 DEF Good, t

\* A node stays good when more packets are made and more keys allowed.
LEMMA GoodMore ==
    ASSUME NEW n, NEW s, NEW C, NEW H, NEW K, Good(n, s, C, H, K),
           NEW D, NEW I, NEW L, C \subseteq D, H \subseteq I,
           DOMAIN s.pending \cap K \subseteq L
    PROVE  Good(n, s, D, I, L)
  <1>1. \A x : InTheAir(x, C) => InTheAir(x, D)
    BY DEF InTheAir
  <1>2. \A x : Incoming(n, x, C) => Incoming(n, x, D)
    BY DEF Incoming
  <1>3. \A x : Sendable(n, x, C) => Sendable(n, x, D)
    BY DEF Sendable
  <1> QED
    BY <1>1, <1>2, <1>3 DEF Good

\* A packet n makes up itself
LEMMA ReliableSendGood ==
    ASSUME NEW n \in Nodes, NEW s, NEW C, NEW H, NEW K, Good(n, s, C, H, K),
           NEW p, Sendable(n, p, C), p.from = n, Key(p) \in H, Key(p) \in K
    PROVE  /\ Good(n, ReliableSend(n, s, p), C, H, K)
           /\ Same(s, ReliableSend(n, s, p))
  <1> DEFINE q == IF p.wantAck /\ p.hop = 0 THEN [p EXCEPT !.hop = HopLimit] ELSE p
             t == IF p.wantAck THEN StartRetransmission(n, s, q, ReliableRetx) ELSE s
  <1>0. Key(p) \in H /\ Key(p) \in K /\ p \in Packet
    BY DEF Sendable
  <1>1. Sendable(n, q, C) /\ Key(q) \in H /\ Key(q) \in K
    <2>1. CASE p.wantAck /\ p.hop = 0
      <3>1. /\ q \in Packet /\ q.from = p.from /\ q.to = p.to /\ q.id = p.id
            /\ q.request = p.request /\ q.error = p.error /\ q.hopStart = p.hopStart
        BY <1>0, <2>1, Constants DEF Packet
      <3>2. q.from # n => q.hopStart = 0 \/ q.hop < q.hopStart
        BY <3>1
      <3> HIDE DEF q
      <3>3. Core(q) = Core(p) /\ Key(q) = Key(p)
        BY <3>1 DEF Core, Key
      <3> QED
        BY <1>0, <3>1, <3>2, <3>3 DEF Sendable
    <2>2. CASE ~(p.wantAck /\ p.hop = 0)
      BY <1>0, <2>2
    <2> QED
      BY <2>1, <2>2
  <1>2. q.to = p.to
    BY <1>0 DEF Packet
  <1>3. ReliableSend(n, s, p) = IF p.to = Broadcast THEN Flood(n, t, q)
                                ELSE HopSend(n, t, q)
    BY DEF ReliableSend
  <1> HIDE DEF q
  <1>4. Good(n, t, C, H, K) /\ Same(s, t)
    <2>1. ReliableRetx \in 1..ReliableRetx
      BY Constants
    <2> QED
      BY <1>1, <2>1, StartGood DEF Same
  <1> HIDE DEF t
  <1>5. Good(n, Flood(n, t, q), C, H, K) /\ Same(t, Flood(n, t, q))
    BY <1>1, <1>4, FloodGood
  <1>6. Good(n, HopSend(n, t, q), C, H, K) /\ Same(t, HopSend(n, t, q))
    BY <1>1, <1>4, HopSendGood
  <1> QED
    BY <1>3, <1>4, <1>5, <1>6 DEF Same

\* The packet a node makes up for an answer
NextCore(n, s, to, request, error) ==
    [from |-> n, to |-> to, id |-> s.seq + 1, request |-> request,
     error |-> error]
NextKey(n, s) == <<n, s.seq + 1>>

\* Hops that an answer may start with
LEMMA HopsAreNumbers ==
    ASSUME NEW p \in Packet
    PROVE  ResponseHops(p) \in Nat
  <1>1. p.hopStart \in Nat /\ p.hop \in Nat /\ HopLimit \in Nat
    BY PacketFields, Constants
  <1> DEFINE used == IF p.hopStart < p.hop THEN HopLimit ELSE p.hopStart - p.hop
  <1>2. used \in Nat
    BY <1>1
  <1>3. \/ ResponseHops(p) = HopLimit
        \/ ResponseHops(p) = used
        \/ ResponseHops(p) = used + 2
    BY DEF ResponseHops
  <1> HIDE DEF used
  <1> QED
    BY <1>1, <1>2, <1>3

\* Its outcome: the inbox is the same, or n has told itself x.
SendsOrTells(n, s, t, to, x) ==
    /\ t.seq = s.seq + 1
    /\ to # n => t.inbox = s.inbox
    /\ to = n => t.inbox = Enqueue(s, x).inbox /\ t.pending = s.pending
                                               /\ t.history = s.history

LEMMA SendAckNakGood ==
    ASSUME NEW n \in Nodes, NEW s, NEW C, NEW H, NEW K, Good(n, s, C, H, K),
           NEW to \in Nodes, NEW request \in Nat, NEW hops \in Nat,
           NEW wantAck \in BOOLEAN, NEW error \in BOOLEAN, to = n => ~wantAck,
           NextCore(n, s, to, request, error) \in C,
           NextKey(n, s) \in H, NextKey(n, s) \in K
    PROVE  /\ Good(n, SendAckNak(n, s, to, request, hops, wantAck, error), C, H, K)
           /\ \E x \in Packet :
                 /\ x.error = error /\ x.request = request
                 /\ SendsOrTells(n, s,
                        SendAckNak(n, s, to, request, hops, wantAck, error), to, x)
  <1> DEFINE p == [from |-> n, to |-> to, id |-> s.seq + 1, request |-> request,
                   hopStart |-> 0, hop |-> hops, relay |-> None, nextHop |-> None,
                   wantAck |-> wantAck, text |-> FALSE, error |-> error]
             t == [s EXCEPT !.seq = s.seq + 1]
             u == SendAckNak(n, s, to, request, hops, wantAck, error)
  <1>1. s.seq \in Nat /\ s.seq + 1 \in Nat
    <2>1. s.seq \in Nat
      BY GoodState
    <2> QED
      BY <2>1
  <1>2. /\ Good(n, t, C, H, K) /\ t.seq = s.seq + 1 /\ t.inbox = s.inbox
        /\ t.pending = s.pending /\ t.history = s.history
    BY <1>1, GoodSeq
  <1>3. /\ p \in Packet /\ p.from = n /\ p.to = to /\ p.id = s.seq + 1
        /\ p.request = request /\ p.error = error /\ p.hopStart = 0
        /\ p.nextHop = None /\ p.wantAck = wantAck /\ p.relay = None
    BY <1>1 DEF Packet
  <1>4. u = IF to = n THEN Enqueue(t, p) ELSE ReliableSend(n, t, p)
    BY DEF SendAckNak
  <1>5. Core(p) \in C /\ Key(p) = NextKey(n, s)
    BY DEF Core, NextCore, Key, NextKey
  <1>6. Enqueue(t, p).inbox = Enqueue(s, p).inbox
    <2>1. s \in NodeState
      BY DEF Good
    <2> HIDE DEF p
    <2>2. t \in NodeState
      BY <1>2 DEF Good
    <2> HIDE DEF t
    <2> QED
      BY <1>2, <2>1, <2>2 DEF Enqueue, NodeState
  <1> HIDE DEF p, t, u
  <1>7. CASE to = n
    <2>1. Incoming(n, p, C)
      BY <1>3, <1>5, <1>7 DEF Incoming, Aired, IsRepeated
    <2>2. /\ Good(n, Enqueue(t, p), C, H, K)
          /\ Enqueue(t, p).pending = t.pending
          /\ Enqueue(t, p).history = t.history
          /\ Enqueue(t, p).seq = t.seq
      BY <1>2, <2>1, EnqueueGood
    <2>3. SendsOrTells(n, s, u, to, p)
      BY <1>2, <1>4, <1>6, <1>7, <2>2 DEF SendsOrTells
    <2> QED
      BY <1>3, <1>4, <1>7, <2>2, <2>3 DEF u
  <1>8. CASE to # n
    <2>1. Sendable(n, p, C)
      BY <1>3, <1>5, <1>8 DEF Sendable
    <2>2. Good(n, ReliableSend(n, t, p), C, H, K) /\ Same(t, ReliableSend(n, t, p))
      BY <1>2, <1>3, <1>5, <2>1, ReliableSendGood
    <2>3. SendsOrTells(n, s, u, to, p)
      BY <1>2, <1>4, <1>8, <2>2 DEF SendsOrTells, Same
    <2> QED
      BY <1>3, <1>4, <1>8, <2>2, <2>3 DEF u
  <1> QED
    BY <1>7, <1>8

----------------------------------------------------------------------------
(* A packet comes in *)

\* A packet that n handles, and what must be allowed for it
Received(n, p, C, H, K) ==
    Incoming(n, p, C) /\ Key(p) \in H /\ (p.from # n => Key(p) \in K)

\* t is as good as s, and with the packets to handle that s has
Kept(n, s, t, C, H, K) == Good(n, t, C, H, K) /\ Same(s, t)

\* n has made up a packet with the core c on the way.
Grown(n, s, t, c, C, H, K) ==
    /\ t.seq = s.seq + 1
    /\ Good(n, t, C \cup {c}, H \cup {NextKey(n, s)}, K)

LEMMA ReceivedMore ==
    ASSUME NEW n, NEW p, NEW C, NEW H, NEW K, Received(n, p, C, H, K),
           NEW D, NEW I, C \subseteq D, H \subseteq I
    PROVE  Received(n, p, D, I, K)
  BY DEF Received, Incoming

LEMMA RebroadcastGood ==
    ASSUME NEW n \in Nodes, NEW s, NEW C, NEW H, NEW K, Good(n, s, C, H, K),
           NEW p, Received(n, p, C, H, K)
    PROVE  /\ Kept(n, s, Rebroadcast(n, s, p), C, H, K)
           /\ p.to = n => Rebroadcast(n, s, p) = s
  <1> DEFINE q == Decremented(n, p)
  <1>1. CASE ~Relayable(n, p)
    <2>1. Rebroadcast(n, s, p) = s
      BY <1>1 DEF Rebroadcast
    <2> QED
      BY <2>1 DEF Kept, Same
  <1>2. CASE Relayable(n, p)
    <2>1. /\ p \in Packet /\ Core(p) \in C /\ Aired(p)
          /\ p.to # n /\ p.from # n /\ p.to # p.from
          /\ Key(p) \in H /\ Key(p) \in K
      BY <1>2 DEF Received, Incoming, Relayable, Mine
    <2>2. p.hop \in Nat /\ p.hop > 0 /\ p.hopStart \in Nat
      BY <1>2, <2>1, PacketFields DEF Relayable
    <2>3. /\ q \in Packet /\ q.from = p.from /\ q.to = p.to /\ q.id = p.id
          /\ q.request = p.request /\ q.error = p.error
          /\ q.hopStart = p.hopStart
          /\ q.hop = p.hop - 1 \/ (q.hop = p.hop /\ ~IsRepeated(p))
      <3>1. q \in {p, [p EXCEPT !.hop = p.hop - 1]}
            /\ (IsRepeated(p) => q = [p EXCEPT !.hop = p.hop - 1])
        BY DEF Decremented
      <3> QED
        BY <2>1, <2>2, <3>1 DEF Packet
    <2>4. q.hopStart = 0 \/ q.hop < q.hopStart
      BY <2>1, <2>2, <2>3 DEF Aired, IsRepeated
    <2>5. Rebroadcast(n, s, p) = IF p.nextHop = None THEN Flood(n, s, q)
                                 ELSE HopSend(n, s, q)
      BY <1>2 DEF Rebroadcast
    <2> HIDE DEF q
    <2>6. Core(q) = Core(p) /\ Key(q) = Key(p)
      BY <2>3 DEF Core, Key
    <2>7. Sendable(n, q, C) /\ Key(q) \in H /\ Key(q) \in K
      <3>1. Sendable(n, q, C)
        BY <2>1, <2>3, <2>4, <2>6 DEF Sendable
      <3> QED
        BY <2>1, <2>6, <3>1
    <2>8. Good(n, Flood(n, s, q), C, H, K) /\ Same(s, Flood(n, s, q))
      BY <2>7, FloodGood
    <2>9. Good(n, HopSend(n, s, q), C, H, K) /\ Same(s, HopSend(n, s, q))
      BY <2>7, HopSendGood
    <2> QED
      BY <2>1, <2>5, <2>8, <2>9 DEF Kept
  <1> QED
    BY <1>1, <1>2

LEMMA CancelDupeGood ==
    ASSUME NEW n \in Nodes, NEW s, NEW C, NEW H, NEW K, Good(n, s, C, H, K), NEW p
    PROVE  Kept(n, s, CancelDupe(n, s, p), C, H, K)
  <1>1. Good(n, Cancel(n, s, Key(p)), C, H, K) /\ Same(s, Cancel(n, s, Key(p)))
    BY CancelGood
  <1>2. Same(s, s)
    BY DEF Same
  <1> QED
    BY <1>1, <1>2 DEF CancelDupe, Kept

LEMMA DuplicateGood ==
    ASSUME NEW n \in Nodes, NEW s, NEW C, NEW H, NEW K, Good(n, s, C, H, K),
           NEW p, Received(n, p, C, H, K)
    PROVE  Kept(n, s, Duplicate(n, s, p), C, H, K)
  <1>1. Kept(n, s, CancelDupe(n, s, p), C, H, K)
    BY CancelDupeGood
  <1>2. Kept(n, s, Rebroadcast(n, s, p), C, H, K)
    BY RebroadcastGood
  <1>3. Kept(n, s, s, C, H, K)
    BY DEF Kept, Same
  <1> QED
    BY <1>1, <1>2, <1>3 DEF Duplicate

\* What n answers to a packet for it
Reply(n, s, p, hops, wantAck) ==
    SendAckNak(n, s, p.from, p.id, hops, wantAck, FALSE)
ReplyCore(n, s, p) == NextCore(n, s, p.from, p.id, FALSE)

\* n may have answered the packet p of another node.
Answered(n, s, t, p, C, H, K) ==
    \/ Kept(n, s, t, C, H, K)
    \/ /\ p.from # n /\ p.to = n /\ t.inbox = s.inbox
       /\ Grown(n, s, t, ReplyCore(n, s, p), C, H, K)

LEMMA AnswerSent ==
    ASSUME NEW n \in Nodes, NEW s, NEW C, NEW H, NEW K, Good(n, s, C, H, K),
           NEW p, Received(n, p, C, H, K), NextKey(n, s) \in K,
           p.from # n, NEW hops \in Nat, NEW wantAck \in BOOLEAN
    PROVE  /\ Grown(n, s, Reply(n, s, p, hops, wantAck),
                    ReplyCore(n, s, p), C, H, K)
           /\ Reply(n, s, p, hops, wantAck).inbox = s.inbox
  <1> DEFINE c == ReplyCore(n, s, p)
             D == C \cup {c}
             I == H \cup {NextKey(n, s)}
             t == Reply(n, s, p, hops, wantAck)
  <1>1. p.from \in Nodes /\ p.id \in Nat
    BY PacketFields DEF Received, Incoming
  <1>2. /\ NextCore(n, s, p.from, p.id, FALSE) \in D
        /\ NextKey(n, s) \in I
        /\ C \subseteq D /\ H \subseteq I
    BY DEF ReplyCore
  <1> HIDE DEF D, I
  <1>3. Good(n, s, D, I, K)
    BY <1>2, GoodMore
  <1>4. /\ Good(n, t, D, I, K)
        /\ \E x \in Packet : SendsOrTells(n, s, t, p.from, x)
    <2>1. PICK to \in Nodes : to = p.from
      BY <1>1
    <2>2. PICK error \in BOOLEAN : error = FALSE
      OBVIOUS
    <2>3. PICK id \in Nat : id = p.id
      BY <1>1
    <2>4. /\ NextCore(n, s, to, id, error) \in D
          /\ to = n => ~wantAck
          /\ NextKey(n, s) \in I
      BY <1>2, <2>1, <2>2, <2>3
    <2>5. /\ Good(n, SendAckNak(n, s, to, id, hops, wantAck, error), D, I, K)
          /\ \E x \in Packet :
                /\ x.error = error /\ x.request = id
                /\ SendsOrTells(n, s,
                     SendAckNak(n, s, to, id, hops, wantAck, error), to, x)
      BY <1>3, <2>4, SendAckNakGood
    <2> QED
      BY <2>1, <2>2, <2>3, <2>5 DEF Reply
  <1> HIDE DEF t
  <1>5. t.seq = s.seq + 1 /\ t.inbox = s.inbox
    BY <1>4 DEF SendsOrTells
  <1>6. Grown(n, s, t, c, C, H, K)
    BY <1>4, <1>5 DEF Grown, D, I
  <1> QED
    BY <1>5, <1>6 DEF t

LEMMA AnswerGood ==
    ASSUME NEW n \in Nodes, NEW s, NEW C, NEW H, NEW K, Good(n, s, C, H, K),
           NEW p, Received(n, p, C, H, K), NextKey(n, s) \in K
    PROVE  Answered(n, s, Answer(n, s, p), p, C, H, K)
  <1> DEFINE A(hops, w) == Reply(n, s, p, hops, w)
  <1>1. ResponseHops(p) \in Nat
    BY HopsAreNumbers DEF Received, Incoming
  <1>2. CASE Answer(n, s, p) = s
    BY <1>2 DEF Answered, Kept, Same
  <1>3. CASE Answer(n, s, p) # s
    <2>1. PICK hops \in Nat, w \in BOOLEAN : Answer(n, s, p) = A(hops, w)
      <3>1. \/ Answer(n, s, p) = A(ResponseHops(p), TRUE)
            \/ Answer(n, s, p) = A(ResponseHops(p), FALSE)
            \/ Answer(n, s, p) = A(0, FALSE)
        BY <1>3 DEF Answer, Reply
      <3> QED
        BY <1>1, <3>1
    <2>2. p.from # n
      <3> SUFFICES ASSUME p.from = n PROVE FALSE
        OBVIOUS
      <3>1. p.to = n /\ (p.wantAck \/ p.nextHop = n)
        BY <1>3 DEF Answer
      <3>2. ~p.wantAck /\ p.nextHop = None
        BY <3>1 DEF Received, Incoming
      <3> QED
        BY <3>1, <3>2, Constants
    <2>3. /\ Grown(n, s, Reply(n, s, p, hops, w),
                   ReplyCore(n, s, p), C, H, K)
          /\ Reply(n, s, p, hops, w).inbox = s.inbox
      BY <2>2, AnswerSent
    <2>4. p.to = n
      BY <1>3 DEF Answer
    <2> QED
      BY <2>1, <2>2, <2>3, <2>4 DEF Answered
  <1> QED
    BY <1>2, <1>3

\* What follows an answer, and what comes before it, may only keep its node.
LEMMA AnsweredOn ==
    ASSUME NEW n, NEW s, NEW t, NEW u, NEW p, NEW C, NEW H, NEW K,
           Answered(n, s, t, p, C, H, K),
           \A D, I : C \subseteq D /\ H \subseteq I /\ Good(n, t, D, I, K)
                        => Kept(n, t, u, D, I, K)
    PROVE  Answered(n, s, u, p, C, H, K)
  <1>1. CASE Kept(n, s, t, C, H, K)
    BY <1>1 DEF Answered, Kept, Same
  <1>2. CASE /\ p.from # n /\ p.to = n /\ t.inbox = s.inbox
             /\ Grown(n, s, t, ReplyCore(n, s, p), C, H, K)
    <2> DEFINE D == C \cup {ReplyCore(n, s, p)}
               I == H \cup {NextKey(n, s)}
    <2>1. C \subseteq D /\ H \subseteq I /\ Good(n, t, D, I, K)
      BY <1>2 DEF Grown
    <2> HIDE DEF D, I
    <2>2. Good(n, u, D, I, K) /\ u.inbox = t.inbox /\ u.seq = t.seq
      BY <2>1 DEF Kept, Same
    <2>3. Grown(n, s, u, ReplyCore(n, s, p), C, H, K)
      BY <1>2, <2>2 DEF Grown, D, I
    <2> QED
      BY <1>2, <2>2, <2>3 DEF Answered
  <1> QED
    BY <1>1, <1>2 DEF Answered

LEMMA KeptThenAnswered ==
    ASSUME NEW n, NEW s, NEW t, NEW u, NEW p, NEW C, NEW H, NEW K,
           Same(s, t), Answered(n, t, u, p, C, H, K)
    PROVE  Answered(n, s, u, p, C, H, K)
  <1>1. t.seq = s.seq /\ t.inbox = s.inbox
    BY DEF Same
  <1>2. ReplyCore(n, s, p) = ReplyCore(n, t, p) /\ NextKey(n, s) = NextKey(n, t)
    BY <1>1 DEF ReplyCore, NextCore, NextKey
  <1>3. CASE Kept(n, t, u, C, H, K)
    BY <1>1, <1>3 DEF Answered, Kept, Same
  <1>4. CASE /\ p.from # n /\ p.to = n /\ u.inbox = t.inbox
             /\ Grown(n, t, u, ReplyCore(n, t, p), C, H, K)
    BY <1>1, <1>2, <1>4 DEF Answered, Grown
  <1> QED
    BY <1>3, <1>4 DEF Answered

LEMMA DuplicateDMGood ==
    ASSUME NEW n \in Nodes, NEW s, NEW C, NEW H, NEW K, Good(n, s, C, H, K),
           NEW p, Received(n, p, C, H, K), NextKey(n, s) \in K, NEW r
    PROVE  Answered(n, s, DuplicateDM(n, s, r, p), p, C, H, K)
  <1> DEFINE t == StopRetransmission(n, s, Key(p))
             u == DuplicateDM(n, s, r, p)
  <1>1. Good(n, t, C, H, K) /\ Same(s, t)
    BY StopGood
  <1>2. \/ u = t \/ u = Rebroadcast(n, t, p) \/ u = CancelDupe(n, t, p)
        \/ p.to = n /\ p.wantAck /\ u = Reply(n, t, p, 0, FALSE)
    BY DEF DuplicateDM, Reply
  <1> HIDE DEF t, u
  <1>3. Kept(n, t, t, C, H, K)
    BY <1>1 DEF Kept, Same
  <1>4. Kept(n, t, Rebroadcast(n, t, p), C, H, K)
    BY <1>1, RebroadcastGood
  <1>5. Kept(n, t, CancelDupe(n, t, p), C, H, K)
    BY <1>1, CancelDupeGood
  <1>6. ASSUME p.to = n, p.wantAck
        PROVE  Answered(n, t, Reply(n, t, p, 0, FALSE), p, C, H, K)
    <2>1. p.from # n
      BY <1>6 DEF Received, Incoming
    <2>2. NextKey(n, t) \in K
      BY <1>1 DEF Same, NextKey
    <2>3. PICK hops \in Nat, w \in BOOLEAN : hops = 0 /\ w = FALSE
      OBVIOUS
    <2>4. /\ Grown(n, t, Reply(n, t, p, hops, w), ReplyCore(n, t, p), C, H, K)
          /\ Reply(n, t, p, hops, w).inbox = t.inbox
      BY <1>1, <2>1, <2>2, AnswerSent
    <2> QED
      BY <1>6, <2>1, <2>3, <2>4 DEF Answered
  <1>7. Answered(n, t, u, p, C, H, K)
    BY <1>2, <1>3, <1>4, <1>5, <1>6 DEF Answered
  <1>8. Answered(n, s, u, p, C, H, K)
    BY <1>1, <1>7, KeptThenAnswered
  <1> QED
    BY <1>8 DEF u

LEMMA FilterGood ==
    ASSUME NEW n \in Nodes, NEW s, NEW C, NEW H, NEW K, Good(n, s, C, H, K),
           NEW p, Received(n, p, C, H, K), NextKey(n, s) \in K, NEW r
    PROVE  Answered(n, s, Filter(n, s, r, p), p, C, H, K)
  <1> DEFINE up == IsUpgrade([s EXCEPT !.history[Key(p)] = r], p)
             t  == [s EXCEPT !.tx = RemoveAt(s.tx, Worse(s, p))]
  <1>1. Filter(n, s, r, p) = IF up THEN Rebroadcast(n, t, p)
                             ELSE IF p.to = Broadcast THEN Duplicate(n, s, p)
                             ELSE DuplicateDM(n, s, r, p)
    BY DEF Filter
  <1>2. ASSUME up PROVE Answered(n, s, Rebroadcast(n, t, p), p, C, H, K)
    <2> DEFINE I == {i \in 1..Len(s.tx) : Key(s.tx[i]) = Key(p) /\ s.tx[i].hop < p.hop}
    <2>1. s \in NodeState /\ s.tx \in Seq(Packet)
      BY GoodState DEF Good
    <2>2. Worse(s, p) # 0
      <3> DEFINE v == [s EXCEPT !.history[Key(p)] = r]
      <3>1. v.tx = s.tx
        BY <2>1 DEF NodeState
      <3>2. Worse(v, p) # 0
        BY <1>2 DEF IsUpgrade
      <3> QED
        BY <3>1, <3>2 DEF Worse
    <2>3. Worse(s, p) = IF I # {} THEN Min(I) ELSE 0
      BY DEF Worse, SelectInSeq
    <2>4. Worse(s, p) \in 1..Len(s.tx)
      <3>1. I \subseteq Nat /\ I # {} /\ I \subseteq 1..Len(s.tx)
        BY <2>1, <2>2, <2>3
      <3>2. Min(I) \in I
        BY <3>1, MinIsLeast
      <3> QED
        BY <2>3, <3>1, <3>2
    <2> HIDE DEF I
    <2>5. \A i \in 1..Len(s.tx) : InTheAir(s.tx[i], C)
      BY DEF Good
    <2> DEFINE rest == RemoveAt(s.tx, Worse(s, p))
    <2>6. rest \in Seq(Packet) /\ \A i \in 1..Len(rest) : InTheAir(rest[i], C)
      <3>1. PICK k \in 1..Len(s.tx) : k = Worse(s, p)
        BY <2>4
      <3>2. /\ RemoveAt(s.tx, k) \in Seq(Packet)
            /\ \A j \in 1..Len(RemoveAt(s.tx, k)) :
                  \E i \in 1..Len(s.tx) : RemoveAt(s.tx, k)[j] = s.tx[i]
        BY <2>1, Removed
      <3> QED
        BY <2>5, <3>1, <3>2
    <2> HIDE DEF rest
    <2>7. Good(n, [s EXCEPT !.tx = rest], C, H, K) /\ Same(s, [s EXCEPT !.tx = rest])
      BY <2>6, GoodTx
    <2>8. Good(n, t, C, H, K) /\ Same(s, t)
      BY <2>7 DEF rest
    <2> HIDE DEF t
    <2>9. Kept(n, t, Rebroadcast(n, t, p), C, H, K)
      BY <2>8, RebroadcastGood
    <2> QED
      BY <2>8, <2>9 DEF Answered, Kept, Same
  <1>3. Answered(n, s, Duplicate(n, s, p), p, C, H, K)
    BY DuplicateGood DEF Answered
  <1>4. Answered(n, s, DuplicateDM(n, s, r, p), p, C, H, K)
    BY DuplicateDMGood
  <1> HIDE DEF up, t
  <1> QED
    BY <1>1, <1>2, <1>3, <1>4

LEMMA AcknowledgedGood ==
    ASSUME NEW n \in Nodes, NEW s, NEW C, NEW H, NEW K, Good(n, s, C, H, K), NEW p
    PROVE  /\ Kept(n, s, Acknowledged(n, s, p), C, H, K)
           /\ p.to = n /\ p.request # 0 =>
                 <<n, p.request>> \notin DOMAIN Acknowledged(n, s, p).pending
  <1>1. CASE p.to = n /\ p.request # 0
    <2> DEFINE t == StopRetransmission(n, s, <<n, p.request>>)
    <2>1. /\ Good(n, t, C, H, K) /\ Same(s, t)
          /\ t.pending = Without(s.pending, <<n, p.request>>)
      BY StopGood
    <2>2. Acknowledged(n, s, p) = t
      BY <1>1 DEF Acknowledged
    <2> HIDE DEF t
    <2>3. <<n, p.request>> \notin DOMAIN t.pending
      BY <2>1 DEF Without
    <2> QED
      BY <2>1, <2>2, <2>3 DEF Kept
  <1>2. CASE ~(p.to = n /\ p.request # 0)
    BY <1>2 DEF Acknowledged, Kept, Same
  <1> QED
    BY <1>1, <1>2

LEMMA LearnedGood ==
    ASSUME NEW n \in Nodes, NEW s, NEW C, NEW H, NEW K, Good(n, s, C, H, K),
           NEW p \in Packet
    PROVE  /\ Kept(n, s, Learned(n, s, p), C, H, K)
           /\ Learned(n, s, p).pending = s.pending
  <1> DEFINE h == [s.route EXCEPT ![p.from] = p.relay]
  <1>1. h \in [Nodes -> Nodes \cup {None}]
    <2>1. /\ s.route \in [Nodes -> Nodes \cup {None}]
          /\ p.relay \in Nodes \cup {None}
      BY GoodState, PacketFields
    <2> QED
      BY <2>1
  <1>2. Learned(n, s, p) = s \/ Learned(n, s, p) = [s EXCEPT !.route = h]
    BY DEF Learned
  <1> HIDE DEF h
  <1>3. /\ Good(n, [s EXCEPT !.route = h], C, H, K)
        /\ [s EXCEPT !.route = h].pending = s.pending
        /\ Same(s, [s EXCEPT !.route = h])
    BY <1>1, GoodRoute
  <1> QED
    BY <1>2, <1>3 DEF Kept, Same

LEMMA OverheardGood ==
    ASSUME NEW n \in Nodes, NEW s, NEW C, NEW H, NEW K, Good(n, s, C, H, K), NEW p
    PROVE  /\ Kept(n, s, Overheard(n, s, p), C, H, K)
           /\ p.to = n => Overheard(n, s, p) = s
  <1> DEFINE k == <<p.to, p.request>>
             t == Cancel(n, s, k)
             u == StopRetransmission(n, t, k)
  <1>1. Overheard(n, s, p) = s \/ (p.to # n /\ Overheard(n, s, p) = u)
    BY DEF Overheard
  <1> HIDE DEF k
  <1>2. Good(n, t, C, H, K) /\ Same(s, t)
    BY CancelGood
  <1> HIDE DEF t
  <1>3. Good(n, u, C, H, K) /\ Same(t, u)
    BY <1>2, StopGood
  <1> HIDE DEF u
  <1>4. Kept(n, s, u, C, H, K) /\ Kept(n, s, s, C, H, K)
    BY <1>2, <1>3 DEF Kept, Same
  <1>5. p.to = n => Overheard(n, s, p) = s
    BY DEF Overheard
  <1> QED
    BY <1>1, <1>4, <1>5

LEMMA SniffGood ==
    ASSUME NEW n \in Nodes, NEW s, NEW C, NEW H, NEW K, Good(n, s, C, H, K),
           NEW p, Received(n, p, C, H, K), NextKey(n, s) \in K
    PROVE  /\ Answered(n, s, Sniff(n, s, p), p, C, H, K)
           /\ p.to = n /\ p.request # 0 =>
                 <<n, p.request>> \notin DOMAIN Sniff(n, s, p).pending
  <1> DEFINE a == Answer(n, s, p)
             t == Acknowledged(n, a, p)
             u == IF p.to = Broadcast THEN t ELSE Learned(n, t, p)
             v == Overheard(n, u, p)
             w == Rebroadcast(n, v, p)
  <1>1. Sniff(n, s, p) = w
    BY DEF Sniff
  <1>2. Answered(n, s, a, p, C, H, K)
    BY AnswerGood
  <1>3. p \in Packet
    BY DEF Received, Incoming
  <1>4. \A D, I : C \subseteq D /\ H \subseteq I /\ Good(n, a, D, I, K) =>
           /\ Kept(n, a, t, D, I, K)
           /\ p.to = n /\ p.request # 0 => <<n, p.request>> \notin DOMAIN t.pending
    <2> HIDE DEF a
    <2> QED
      BY AcknowledgedGood
  <1> HIDE DEF a, t
  <1>5. Answered(n, s, t, p, C, H, K)
    BY <1>2, <1>4, AnsweredOn
  <1>6. \A D, I : C \subseteq D /\ H \subseteq I /\ Good(n, t, D, I, K) =>
           Kept(n, t, u, D, I, K) /\ u.pending = t.pending
    <2>1. ASSUME NEW D, NEW I, Good(n, t, D, I, K)
          PROVE  Kept(n, t, Learned(n, t, p), D, I, K)
                 /\ Learned(n, t, p).pending = t.pending
      BY <1>3, <2>1, LearnedGood
    <2> QED
      BY <2>1 DEF Kept, Same
  <1> HIDE DEF u
  <1>7. Answered(n, s, u, p, C, H, K)
    BY <1>5, <1>6, AnsweredOn
  <1>8. \A D, I : C \subseteq D /\ H \subseteq I /\ Good(n, u, D, I, K) =>
           Kept(n, u, v, D, I, K) /\ (p.to = n => v = u)
    BY OverheardGood
  <1> HIDE DEF v
  <1>9. Answered(n, s, v, p, C, H, K)
    BY <1>7, <1>8, AnsweredOn
  <1>10. \A D, I : C \subseteq D /\ H \subseteq I /\ Good(n, v, D, I, K) =>
            Kept(n, v, w, D, I, K) /\ (p.to = n => w = v)
    <2> SUFFICES ASSUME NEW D, NEW I, C \subseteq D, H \subseteq I, Good(n, v, D, I, K)
                 PROVE  Kept(n, v, w, D, I, K) /\ (p.to = n => w = v)
      OBVIOUS
    <2>1. Received(n, p, D, I, K)
      BY ReceivedMore
    <2> QED
      BY <2>1, RebroadcastGood
  <1> HIDE DEF w
  <1>11. Answered(n, s, w, p, C, H, K)
    BY <1>9, <1>10, AnsweredOn
  <1>12. \A x : Answered(n, s, x, p, C, H, K) =>
            \E D, I : C \subseteq D /\ H \subseteq I /\ Good(n, x, D, I, K)
    <2> SUFFICES ASSUME NEW x, Answered(n, s, x, p, C, H, K)
                 PROVE  \E D, I : C \subseteq D /\ H \subseteq I /\ Good(n, x, D, I, K)
      OBVIOUS
    <2>1. CASE Good(n, x, C, H, K)
      BY <2>1
    <2>2. CASE Good(n, x, C \cup {ReplyCore(n, s, p)}, H \cup {NextKey(n, s)}, K)
      BY <2>2
    <2> QED
      BY <2>1, <2>2 DEF Answered, Kept, Grown
  <1>13. ASSUME p.to = n, p.request # 0
         PROVE  <<n, p.request>> \notin DOMAIN w.pending
    <2>1. <<n, p.request>> \notin DOMAIN t.pending
      BY <1>2, <1>4, <1>12, <1>13
    <2>2. u.pending = t.pending
      BY <1>5, <1>6, <1>12
    <2>3. v = u
      BY <1>7, <1>8, <1>12, <1>13
    <2>4. w = v
      BY <1>9, <1>10, <1>12, <1>13
    <2> QED
      BY <2>1, <2>2, <2>3, <2>4
  <1> QED
    BY <1>1, <1>11, <1>13

\* n has told itself something that is not a failure.
ToldItself(s, t) == \E x \in Packet : ~x.error /\ t.inbox = Enqueue(s, x).inbox

LEMMA ImplicitAckGood ==
    ASSUME NEW n \in Nodes, NEW s, NEW C, NEW H, NEW K, Good(n, s, C, H, K),
           NEW p, Received(n, p, C, H, K), NextKey(n, s) \in K
    PROVE  /\ \/ ImplicitAck(n, s, p) = s
              \/ /\ p.from = n /\ ToldItself(s, ImplicitAck(n, s, p))
                 /\ Grown(n, s, ImplicitAck(n, s, p), ReplyCore(n, s, p), C, H, K)
           /\ DOMAIN ImplicitAck(n, s, p).history = DOMAIN s.history
  <1> DEFINE b == Mine(n, p) /\ Key(p) \in DOMAIN s.pending
             t == SendAckNak(n, s, n, p.id, 0, FALSE, FALSE)
             u == StopRetransmission(n, t, Key(p))
             D == C \cup {ReplyCore(n, s, p)}
             I == H \cup {NextKey(n, s)}
  <1>1. ImplicitAck(n, s, p) = IF b THEN u ELSE s
    BY DEF ImplicitAck
  <1>2. CASE ~b
    BY <1>1, <1>2
  <1>3. CASE b
    <2>1. p.from = n /\ p.id \in Nat
      BY <1>3, PacketFields DEF Mine, Received, Incoming
    <2>2. ReplyCore(n, s, p) \in D /\ NextKey(n, s) \in I /\ C \subseteq D /\ H \subseteq I
      OBVIOUS
    <2> HIDE DEF D, I
    <2>3. Good(n, s, D, I, K)
      BY <2>2, GoodMore
    <2>4. /\ Good(n, t, D, I, K)
          /\ \E x \in Packet : ~x.error /\ SendsOrTells(n, s, t, n, x)
      <3>1. PICK id \in Nat, hops \in Nat, w \in BOOLEAN, to \in Nodes :
               id = p.id /\ hops = 0 /\ w = FALSE /\ to = n
        BY <2>1
      <3>2. NextCore(n, s, to, id, w) \in D /\ (to = n => ~w)
        BY <2>1, <2>2, <3>1 DEF ReplyCore
      <3>3. /\ Good(n, SendAckNak(n, s, to, id, hops, w, w), D, I, K)
            /\ \E x \in Packet :
                  /\ x.error = w /\ x.request = id
                  /\ SendsOrTells(n, s, SendAckNak(n, s, to, id, hops, w, w), to, x)
        BY <2>2, <2>3, <3>2, SendAckNakGood
      <3> QED
        BY <3>1, <3>3
    <2> HIDE DEF t
    <2>5. /\ t.seq = s.seq + 1 /\ t.history = s.history
          /\ \E x \in Packet : ~x.error /\ t.inbox = Enqueue(s, x).inbox
      BY <2>4 DEF SendsOrTells
    <2>6. /\ Good(n, u, D, I, K) /\ Same(t, u)
          /\ DOMAIN u.history = DOMAIN t.history
      BY <2>4, StopGood
    <2> HIDE DEF u
    <2>7. Grown(n, s, u, ReplyCore(n, s, p), C, H, K)
      BY <2>5, <2>6 DEF Grown, Same, D, I
    <2>8. ToldItself(s, u)
      BY <2>5, <2>6 DEF ToldItself, Same
    <2> QED
      BY <1>1, <1>3, <2>1, <2>5, <2>6, <2>7, <2>8
  <1> QED
    BY <1>2, <1>3

\* The ids n has not given out yet may be used.
Unused(n, s, K) == \A i \in Nat : i > s.seq => <<n, i>> \in K

LEMMA HandledGood ==
    ASSUME NEW n \in Nodes, NEW s, NEW C, NEW H, NEW K, Good(n, s, C, H, K),
           NEW p, Received(n, p, C, H, K), Unused(n, s, K)
    PROVE  /\ \/ Kept(n, s, Handled(n, s, p), C, H, K)
              \/ /\ Grown(n, s, Handled(n, s, p), ReplyCore(n, s, p), C, H, K)
                 /\ \/ p.to = n /\ Handled(n, s, p).inbox = s.inbox
                    \/ p.from = n /\ ToldItself(s, Handled(n, s, p))
           /\ ~Seen(s, p) /\ p.to = n /\ p.request # 0 =>
                 <<n, p.request>> \notin DOMAIN Handled(n, s, p).pending
  <1> DEFINE t == ImplicitAck(n, s, p)
             r == Remember(n, t, p)
             u == Filter(n, r, t.history[Key(p)], p)
             v == Sniff(n, r, p)
             w == Handled(n, s, p)
  <1>1. w = IF Seen(t, p) THEN u ELSE v
    BY DEF Handled
  <1>2. \A i \in {s.seq, s.seq + 1} : <<n, i + 1>> \in K
    <2>1. s.seq \in Nat
      BY GoodState
    <2> QED
      BY <2>1 DEF Unused
  <1>3. NextKey(n, s) \in K
    BY <1>2 DEF NextKey
  <1>4. /\ \/ t = s
           \/ /\ p.from = n /\ ToldItself(s, t)
              /\ Grown(n, s, t, ReplyCore(n, s, p), C, H, K)
        /\ DOMAIN t.history = DOMAIN s.history
    BY <1>3, ImplicitAckGood
  <1> HIDE DEF t
  <1>5. Seen(t, p) <=> Seen(s, p)
    BY <1>4 DEF Seen
  <1> HIDE DEF w
  <1>6. ASSUME NEW D, NEW I, C \subseteq D, H \subseteq I, Good(n, t, D, I, K),
               NextKey(n, t) \in K
        PROVE  /\ Answered(n, t, w, p, D, I, K)
               /\ ~Seen(s, p) /\ p.to = n /\ p.request # 0 =>
                     <<n, p.request>> \notin DOMAIN w.pending
    <2>1. Received(n, p, D, I, K)
      BY <1>6, ReceivedMore
    <2>2. p \in Packet /\ Key(p) \in I
      BY <2>1 DEF Received, Incoming
    <2>3. Good(n, r, D, I, K) /\ Same(t, r)
      BY <1>6, <2>2, RememberGood
    <2> HIDE DEF r
    <2>4. NextKey(n, r) \in K
      BY <1>6, <2>3 DEF Same, NextKey
    <2>5. Answered(n, r, u, p, D, I, K)
      BY <2>1, <2>3, <2>4, FilterGood
    <2>6. /\ Answered(n, r, v, p, D, I, K)
          /\ p.to = n /\ p.request # 0 => <<n, p.request>> \notin DOMAIN v.pending
      BY <2>1, <2>3, <2>4, SniffGood
    <2> HIDE DEF u, v
    <2>7. Answered(n, t, u, p, D, I, K) /\ Answered(n, t, v, p, D, I, K)
      BY <2>3, <2>5, <2>6, KeptThenAnswered
    <2> QED
      BY <1>1, <1>5, <2>6, <2>7
  <1>7. CASE t = s
    <2>1. /\ Answered(n, s, w, p, C, H, K)
          /\ ~Seen(s, p) /\ p.to = n /\ p.request # 0 =>
                <<n, p.request>> \notin DOMAIN w.pending
      BY <1>3, <1>6, <1>7
    <2> QED
      BY <2>1 DEF Answered, w
  <1>8. CASE /\ p.from = n /\ ToldItself(s, t)
             /\ Grown(n, s, t, ReplyCore(n, s, p), C, H, K)
    <2> DEFINE D == C \cup {ReplyCore(n, s, p)}
               I == H \cup {NextKey(n, s)}
    <2>1. Good(n, t, D, I, K) /\ t.seq = s.seq + 1 /\ C \subseteq D /\ H \subseteq I
      BY <1>8 DEF Grown
    <2>2. NextKey(n, t) \in K
      BY <1>2, <2>1 DEF NextKey
    <2> HIDE DEF D, I
    <2>3. /\ Answered(n, t, w, p, D, I, K)
          /\ ~Seen(s, p) /\ p.to = n /\ p.request # 0 =>
                <<n, p.request>> \notin DOMAIN w.pending
      BY <1>6, <2>1, <2>2
    <2>4. Good(n, w, D, I, K) /\ w.seq = t.seq /\ w.inbox = t.inbox
      BY <1>8, <2>3 DEF Answered, Kept, Same
    <2>5. Grown(n, s, w, ReplyCore(n, s, p), C, H, K)
      BY <2>1, <2>4 DEF Grown, D, I
    <2>6. ToldItself(s, w)
      BY <1>8, <2>4 DEF ToldItself
    <2> QED
      BY <1>8, <2>3, <2>5, <2>6 DEF w
  <1> QED
    BY <1>4, <1>7, <1>8

----------------------------------------------------------------------------
(* A timer runs out *)

LEMMA RepeatGood ==
    ASSUME NEW n \in Nodes, NEW s, NEW C, NEW H, NEW K, Good(n, s, C, H, K),
           NEW key \in DOMAIN s.pending, key \in H, s.pending[key].left # 0
    PROVE  /\ Kept(n, s, Repeat(n, s, key), C, H, K)
           /\ DOMAIN s.pending \subseteq DOMAIN Repeat(n, s, key).pending
           /\ Repeat(n, s, key).pending[key].left # 0
  <1> DEFINE p == s.pending[key].packet
             e == [s.pending[key] EXCEPT !.packet = [p EXCEPT !.nextHop = None]]
             route == [s.route EXCEPT ![p.to] = None]
             pend  == [s.pending EXCEPT ![key] = e]
             t0 == [s EXCEPT !.route = route]
             t == [t0 EXCEPT !.pending = pend]
             q == [p EXCEPT !.nextHop = None]
  <1>1. /\ Sendable(n, p, C) /\ Key(p) = key /\ key \in K
        /\ s.pending[key].left \in 0..(ReliableRetx - 1)
        /\ s \in NodeState
    BY DEF Good
  <1>2. /\ s.pending[key] \in Entries /\ s.pending \in Pendings
        /\ s.route \in [Nodes -> Nodes \cup {None}]
        /\ DOMAIN s.pending \subseteq Keys
        /\ \A k \in DOMAIN s.pending : s.pending[k] \in Entries
    BY GoodState
  <1>3. p \in Packet /\ p.to \in Nodes \cup {Broadcast}
    BY <1>1, PacketFields DEF Sendable
  <1>4. /\ q \in Packet /\ q.from = p.from /\ q.to = p.to /\ q.id = p.id
        /\ q.request = p.request /\ q.error = p.error
        /\ q.hop = p.hop /\ q.hopStart = p.hopStart
    BY <1>3 DEF Packet
  <1> HIDE DEF q
  <1>5. Core(q) = Core(p) /\ Key(q) = key
    BY <1>1, <1>4 DEF Core, Key
  <1>6. Sendable(n, q, C)
    BY <1>1, <1>4, <1>5 DEF Sendable
  <1>7. e \in Entries /\ e.packet = q /\ e.left = s.pending[key].left
    <2>1. q \in Packet /\ s.pending[key] \in [packet: Packet, left: Nat]
      BY <1>2, <1>4 DEF Entries
    <2>2. e = [s.pending[key] EXCEPT !.packet = q]
      BY DEF q
    <2> QED
      BY <2>1, <2>2 DEF Entries
  <1>8. route \in [Nodes -> Nodes \cup {None}]
    BY <1>2
  <1>9. Repeat(n, s, key) =
           IF p.to = Broadcast THEN Flood(n, s, p)
           ELSE IF s.pending[key].left = 1 THEN Flood(n, t, q)
           ELSE HopSend(n, s, p)
    <2>1. [s EXCEPT !.route = route, !.pending = pend] = t
      BY <1>1 DEF NodeState
    <2>2. Repeat(n, s, key) =
             IF p.to = Broadcast THEN Flood(n, s, p)
             ELSE IF s.pending[key].left = 1
             THEN Flood(n, [s EXCEPT !.route = route, !.pending = pend], q)
             ELSE HopSend(n, s, p)
      BY DEF Repeat, q
    <2> QED
      BY <2>1, <2>2
  <1> HIDE DEF e, route
  <1>10. /\ pend \in Pendings /\ DOMAIN pend = DOMAIN s.pending /\ pend[key] = e
         /\ \A k \in DOMAIN s.pending : k # key => pend[k] = s.pending[k]
    <2>1. pend \in [DOMAIN s.pending -> Entries] /\ DOMAIN s.pending \in SUBSET Keys
      BY <1>2, <1>7
    <2> QED
      BY <1>2, <2>1 DEF Pendings
  <1> HIDE DEF pend
  <1>11. Good(n, t0, C, H, K) /\ Same(s, t0)
    BY <1>8, GoodRoute
  <1> HIDE DEF t0
  <1>12. \A k \in DOMAIN pend : /\ k \in K /\ Key(pend[k].packet) = k
                                /\ Sendable(n, pend[k].packet, C)
                                /\ pend[k].left \in 0..(ReliableRetx - 1)
    <2> SUFFICES ASSUME NEW k \in DOMAIN pend
                 PROVE  /\ k \in K /\ Key(pend[k].packet) = k
                        /\ Sendable(n, pend[k].packet, C)
                        /\ pend[k].left \in 0..(ReliableRetx - 1)
      OBVIOUS
    <2>1. CASE k = key
      BY <1>1, <1>5, <1>6, <1>7, <1>10, <2>1
    <2>2. CASE k # key
      <3>1. k \in DOMAIN s.pending /\ pend[k] = s.pending[k]
        BY <1>10, <2>2
      <3> QED
        BY <3>1 DEF Good
    <2> QED
      BY <2>1, <2>2
  <1>13. Good(n, t, C, H, K) /\ t.pending = pend /\ Same(t0, t)
    <2>1. Good(n, t0, C, H, K)
      BY <1>11
    <2> QED
      BY <1>10, <1>12, <2>1, GoodPending
  <1> HIDE DEF t, p
  <1>14. /\ Good(n, Flood(n, t, q), C, H, K) /\ Same(t, Flood(n, t, q))
         /\ Flood(n, t, q).pending = t.pending
    BY <1>5, <1>6, <1>13, FloodGood
  <1>15. /\ Good(n, Flood(n, s, p), C, H, K) /\ Same(s, Flood(n, s, p))
         /\ Flood(n, s, p).pending = s.pending
    BY <1>1, FloodGood
  <1>16. /\ Good(n, HopSend(n, s, p), C, H, K) /\ Same(s, HopSend(n, s, p))
         /\ DOMAIN s.pending \subseteq DOMAIN HopSend(n, s, p).pending
         /\ \A k \in DOMAIN s.pending :
               \/ HopSend(n, s, p).pending[k] = s.pending[k]
               \/ HopSend(n, s, p).pending[k].left = RelayRetx - 1
    BY <1>1, HopSendGood
  <1>17. RelayRetx - 1 # 0
    BY Constants
  <1>18. CASE Repeat(n, s, key) = Flood(n, s, p)
    BY <1>15, <1>18 DEF Kept
  <1>19. CASE Repeat(n, s, key) = Flood(n, t, q)
    <2>1. Kept(n, s, Flood(n, t, q), C, H, K)
      BY <1>11, <1>13, <1>14 DEF Kept, Same
    <2>2. DOMAIN pend = DOMAIN s.pending /\ pend[key].left # 0
      BY <1>7, <1>10
    <2> QED
      BY <1>13, <1>14, <1>19, <2>1, <2>2
  <1>20. CASE Repeat(n, s, key) = HopSend(n, s, p)
    <2> DEFINE h == HopSend(n, s, p)
    <2>1. DOMAIN s.pending \subseteq DOMAIN h.pending /\ h.pending[key].left # 0
      BY <1>16, <1>17
    <2> QED
      BY <1>16, <1>20, <2>1 DEF Kept
  <1> QED
    BY <1>9, <1>18, <1>19, <1>20

LEMMA RetryGood ==
    ASSUME NEW n \in Nodes, NEW s, NEW C, NEW H, NEW K, Good(n, s, C, H, K),
           NEW key \in DOMAIN s.pending, key \in H, s.pending[key].left # 0
    PROVE  /\ Kept(n, s, Retry(n, s, key), C, H, K)
           /\ DOMAIN s.pending \subseteq DOMAIN Retry(n, s, key).pending
  <1> DEFINE t == Repeat(n, s, key)
             e == [t.pending[key] EXCEPT !.left = t.pending[key].left - 1]
             h == [t.pending EXCEPT ![key] = e]
             u == [t EXCEPT !.pending = h]
  <1>1. /\ Kept(n, s, t, C, H, K) /\ DOMAIN s.pending \subseteq DOMAIN t.pending
        /\ key \in DOMAIN t.pending /\ t.pending[key].left # 0
    BY RepeatGood
  <1>2. Retry(n, s, key) = u
    BY DEF Retry
  <1> HIDE DEF t
  <1>3. Good(n, t, C, H, K) /\ Same(s, t)
    BY <1>1 DEF Kept
  <1>4. /\ t.pending[key] \in Entries /\ t.pending \in Pendings
        /\ DOMAIN t.pending \subseteq Keys
        /\ \A k \in DOMAIN t.pending : t.pending[k] \in Entries
    BY <1>1, <1>3, GoodState
  <1>5. \A k \in DOMAIN t.pending : /\ k \in K /\ Key(t.pending[k].packet) = k
                                    /\ Sendable(n, t.pending[k].packet, C)
                                    /\ t.pending[k].left \in 0..(ReliableRetx - 1)
    BY <1>3 DEF Good
  <1>6. /\ e \in Entries /\ e.packet = t.pending[key].packet
        /\ e.left \in 0..(ReliableRetx - 1)
    <2>1. /\ t.pending[key] \in [packet: Packet, left: Nat]
          /\ t.pending[key].left \in 0..(ReliableRetx - 1)
      BY <1>1, <1>4, <1>5 DEF Entries
    <2>2. /\ t.pending[key].left - 1 \in Nat
          /\ t.pending[key].left - 1 \in 0..(ReliableRetx - 1)
      BY <1>1, <2>1, Constants
    <2> QED
      BY <2>1, <2>2 DEF Entries
  <1> HIDE DEF e
  <1>7. /\ h \in Pendings /\ DOMAIN h = DOMAIN t.pending /\ h[key] = e
        /\ \A k \in DOMAIN t.pending : k # key => h[k] = t.pending[k]
    <2>1. h \in [DOMAIN t.pending -> Entries] /\ DOMAIN t.pending \in SUBSET Keys
      BY <1>4, <1>6
    <2> QED
      BY <1>1, <1>4, <2>1 DEF Pendings
  <1> HIDE DEF h
  <1>8. \A k \in DOMAIN h : /\ k \in K /\ Key(h[k].packet) = k
                            /\ Sendable(n, h[k].packet, C)
                            /\ h[k].left \in 0..(ReliableRetx - 1)
    BY <1>1, <1>5, <1>6, <1>7
  <1>9. Good(n, u, C, H, K) /\ Same(t, u) /\ u.pending = h
    <2>1. Good(n, t, C, H, K)
      BY <1>3
    <2> QED
      BY <1>7, <1>8, <2>1, GoodPending
  <1> HIDE DEF u
  <1> QED
    BY <1>1, <1>2, <1>3, <1>7, <1>9 DEF Kept, Same

\* The failure of the packet with the given id
FailureCore(n, s, id) == NextCore(n, s, n, id, TRUE)

LEMMA GiveUpGood ==
    ASSUME NEW n \in Nodes, NEW s, NEW C, NEW H, NEW K, Good(n, s, C, H, K),
           NEW key \in DOMAIN s.pending, Unused(n, s, K)
    PROVE  \/ Kept(n, s, GiveUp(n, s, key), C, H, K)
           \/ \E id \in Nat :
                 /\ key = <<n, id>>
                 /\ Grown(n, s, GiveUp(n, s, key), FailureCore(n, s, id), C, H, K)
                 /\ \E x \in Packet :
                       /\ x.error /\ x.request = id
                       /\ GiveUp(n, s, key).inbox = Enqueue(s, x).inbox
  <1> DEFINE p == s.pending[key].packet
             id == p.id
             t == SendAckNak(n, s, n, id, 0, FALSE, TRUE)
             D == C \cup {FailureCore(n, s, id)}
             I == H \cup {NextKey(n, s)}
             v == IF Mine(n, p) THEN t ELSE s
             u == StopRetransmission(n, v, key)
  <1>1. GiveUp(n, s, key) = u
    BY DEF GiveUp
  <1>2. p \in Packet /\ Key(p) = key
    BY DEF Good, Sendable
  <1>3. CASE ~Mine(n, p)
    <2>1. u = StopRetransmission(n, s, key)
      BY <1>3
    <2>2. /\ Good(n, StopRetransmission(n, s, key), C, H, K)
          /\ Same(s, StopRetransmission(n, s, key))
      BY StopGood
    <2> QED
      BY <1>1, <2>1, <2>2 DEF Kept
  <1>4. CASE Mine(n, p)
    <2>1. id \in Nat /\ key = <<n, id>> /\ u = StopRetransmission(n, t, key)
      BY <1>2, <1>4, PacketFields DEF Mine, Key
    <2> HIDE DEF id
    <2>2. /\ FailureCore(n, s, id) \in D /\ NextKey(n, s) \in I
          /\ C \subseteq D /\ H \subseteq I
      OBVIOUS
    <2> HIDE DEF D, I
    <2>3. NextKey(n, s) \in K
      <3>1. s.seq \in Nat
        BY GoodState
      <3> QED
        BY <3>1 DEF Unused, NextKey
    <2>4. Good(n, s, D, I, K)
      BY <2>2, GoodMore
    <2>5. /\ Good(n, t, D, I, K)
          /\ \E x \in Packet : x.error /\ x.request = id /\ SendsOrTells(n, s, t, n, x)
      <3>1. PICK hops \in Nat, w \in BOOLEAN, f \in BOOLEAN, to \in Nodes :
               hops = 0 /\ w = FALSE /\ f = TRUE /\ to = n
        OBVIOUS
      <3>2. NextCore(n, s, to, id, f) \in D /\ (to = n => ~w)
        BY <2>2, <3>1 DEF FailureCore
      <3>3. /\ Good(n, SendAckNak(n, s, to, id, hops, w, f), D, I, K)
            /\ \E x \in Packet :
                  /\ x.error = f /\ x.request = id
                  /\ SendsOrTells(n, s, SendAckNak(n, s, to, id, hops, w, f), to, x)
        BY <2>1, <2>2, <2>3, <2>4, <3>2, SendAckNakGood
      <3> QED
        BY <3>1, <3>3
    <2> HIDE DEF t
    <2>6. /\ t.seq = s.seq + 1
          /\ \E x \in Packet :
                x.error /\ x.request = id /\ t.inbox = Enqueue(s, x).inbox
      BY <2>5 DEF SendsOrTells
    <2> HIDE DEF u
    <2>7. Good(n, u, D, I, K) /\ Same(t, u)
      BY <2>1, <2>5, StopGood
    <2>8. Grown(n, s, u, FailureCore(n, s, id), C, H, K)
      BY <2>6, <2>7 DEF Grown, Same, D, I
    <2>9. \E x \in Packet :
             x.error /\ x.request = id /\ u.inbox = Enqueue(s, x).inbox
      BY <2>6, <2>7 DEF Same
    <2> QED
      BY <1>1, <2>1, <2>8, <2>9 DEF u
  <1> QED
    BY <1>3, <1>4

LEMMA GoodDraining ==
    ASSUME NEW n, NEW s, NEW C, NEW H, NEW K, Good(n, s, C, H, K), NEW b \in BOOLEAN
    PROVE  /\ Good(n, [s EXCEPT !.draining = b], C, H, K)
           /\ Same(s, [s EXCEPT !.draining = b])
           /\ [s EXCEPT !.draining = b].pending = s.pending
  <1>1. s \in NodeState
    BY DEF Good
  <1> DEFINE t == [s EXCEPT !.draining = b]
  <1>2. /\ t \in NodeState /\ t.history = s.history /\ t.pending = s.pending
        /\ t.inbox = s.inbox /\ t.seq = s.seq /\ t.tx = s.tx
    BY <1>1 DEF NodeState
  <1> HIDE DEF t
  <1> QED
    BY <1>2 DEF Good, Same, t

----------------------------------------------------------------------------
(* The invariant *)

KeyOf(c) == <<c.from, c.id>>

\* What n's history may hold when its modules have handled the packets in g:
\* of the packets sent to n by others, only those.
HistoryKeys(n, C, g) ==
    {KeyOf(c) : c \in {d \in C : d.to = n /\ d.from # n => KeyOf(d) \in g}}

\* What n may repeat when its phone was told v: no packet of its own of which
\* it knows that it arrived.
PendingKeys(n, v) ==
    {k \in Keys : k[1] = n => <<k[2], "ack">> \notin v /\ <<k[2], "implicit">> \notin v}

\* C holds the packets made so far, N and G are node and got: an id is given
\* once, a failure is for the sender itself, and an acknowledgement is made
\* only by a node whose modules have handled the packet.
Made(C, N, G) ==
    /\ C \subseteq Cores
    /\ \A c, d \in C : KeyOf(c) = KeyOf(d) => c = d
    /\ \A c \in C : /\ c.id <= N[c.from].seq
                    /\ c.error => c.to = c.from
                    /\ c.request # 0 /\ ~c.error /\ c.to # c.from =>
                          <<c.to, c.request>> \in G[c.from]

\* The phone of n is told of packets it has sent.
Noted(s, S, T) == S \subseteq 1..s.seq /\ \A v \in T : v[1] \in S

NodeSound(n, C, s, S, g, T) ==
    /\ Good(n, s, C, HistoryKeys(n, C, g), PendingKeys(n, T))
    /\ Noted(s, S, T)

Sound(C, N, S, G, T) ==
    /\ Made(C, N, G)
    /\ \A n \in Nodes : NodeSound(n, C, N[n], S[n], G[n], T[n])

Typed == /\ node \in [Nodes -> NodeState]
         /\ sent \in [Nodes -> SUBSET Nat]
         /\ got  \in [Nodes -> SUBSET Keys]
         /\ told \in [Nodes -> SUBSET (Nat \X {"ack", "nak", "implicit"})]

\* AckIsTrue, with G and T for got and told
Truthful(G, T) ==
    \A n \in Nodes : \A id \in Nat :
        <<id, "ack">> \in T[n] => \E m \in Nodes \ {n} : <<n, id>> \in G[m]

IInv == Typed /\ Truthful(got, told) /\ \E C : Sound(C, node, sent, got, told)

LEMMA HistoryMore ==
    ASSUME NEW n, NEW C, NEW g, NEW D, NEW h, C \subseteq D, g \subseteq h
    PROVE  HistoryKeys(n, C, g) \subseteq HistoryKeys(n, D, h)
  BY DEF HistoryKeys

\* the key of a packet that n made up itself
LEMMA HistoryNew ==
    ASSUME NEW n, NEW s, NEW C, NEW g, NEW c, c.from = n, c.id = s.seq + 1
    PROVE  HistoryKeys(n, C, g) \cup {NextKey(n, s)}
              \subseteq HistoryKeys(n, C \cup {c}, g)
  <1>1. HistoryKeys(n, C, g) \subseteq HistoryKeys(n, C \cup {c}, g)
    BY HistoryMore
  <1>2. KeyOf(c) \in HistoryKeys(n, C \cup {c}, g)
    BY DEF HistoryKeys
  <1>3. KeyOf(c) = NextKey(n, s)
    BY DEF KeyOf, NextKey
  <1> QED
    BY <1>1, <1>2, <1>3

LEMMA UnusedIds ==
    ASSUME NEW n \in Nodes, NEW s, s.seq \in Nat, NEW S, NEW T, Noted(s, S, T)
    PROVE  Unused(n, s, PendingKeys(n, T))
  <1> SUFFICES ASSUME NEW i \in Nat, i > s.seq
               PROVE  <<n, i>> \in PendingKeys(n, T)
    BY DEF Unused
  <1>1. i \notin S
    BY DEF Noted
  <1>2. \A v : <<i, v>> \notin T
    BY <1>1 DEF Noted
  <1> QED
    BY <1>2 DEF PendingKeys, Keys

LEMMA Seqs ==
    ASSUME NEW C, NEW N, NEW S, NEW G, NEW T, Sound(C, N, S, G, T), NEW n \in Nodes
    PROVE  /\ Good(n, N[n], C, HistoryKeys(n, C, G[n]), PendingKeys(n, T[n]))
           /\ N[n].seq \in Nat
  <1>1. Good(n, N[n], C, HistoryKeys(n, C, G[n]), PendingKeys(n, T[n]))
    BY DEF Sound, NodeSound
  <1> QED
    BY <1>1, GoodState

\* A node that does nothing stays sound when others make packets.
LEMMA NodeSoundMore ==
    ASSUME NEW n, NEW C, NEW D, NEW s, NEW S, NEW g, NEW T,
           NodeSound(n, C, s, S, g, T), C \subseteq D
    PROVE  NodeSound(n, D, s, S, g, T)
  <1> DEFINE H == HistoryKeys(n, C, g)
             I == HistoryKeys(n, D, g)
             K == PendingKeys(n, T)
  <1>1. Good(n, s, C, H, K)
    BY DEF NodeSound
  <1>2. H \subseteq I
    BY HistoryMore
  <1> HIDE DEF H, I, K
  <1>3. Good(n, s, D, I, K)
    BY <1>1, <1>2, GoodMore
  <1> QED
    BY <1>3 DEF NodeSound, I, K

\* Only n's values differ.
OnlyOf(n, N, S, G, T, M, R, F, U) ==
    \A m \in Nodes : m # n => /\ M[m] = N[m] /\ R[m] = S[m]
                              /\ F[m] = G[m] /\ U[m] = T[m]

\* c is the core of a packet n may make up when its record is s.
MayMake(c, n, s, g) ==
    /\ c \in Cores /\ c.from = n /\ c.id = s.seq + 1
    /\ c.error => c.to = n
    /\ c.request # 0 /\ ~c.error /\ c.to # n => <<c.to, c.request>> \in g

\* A step of n in which it makes no packet
LEMMA StaySound ==
    ASSUME NEW C, NEW N, NEW S, NEW G, NEW T, Sound(C, N, S, G, T),
           NEW n \in Nodes, NEW M, NEW R, NEW F, NEW U,
           OnlyOf(n, N, S, G, T, M, R, F, U),
           M[n].seq = N[n].seq, G[n] \subseteq F[n],
           NodeSound(n, C, M[n], R[n], F[n], U[n])
    PROVE  Sound(C, M, R, F, U)
  <1>1. \A m \in Nodes : M[m].seq = N[m].seq /\ G[m] \subseteq F[m]
    BY DEF OnlyOf
  <1>2. Made(C, N, G)
    BY DEF Sound
  <1>3. Made(C, M, F)
    <2>1. \A c \in C : c.from \in Nodes
      BY <1>2 DEF Made, Cores
    <2> QED
      BY <1>1, <1>2, <2>1 DEF Made
  <1>4. \A m \in Nodes : NodeSound(m, C, M[m], R[m], F[m], U[m])
    BY DEF Sound, OnlyOf
  <1> QED
    BY <1>3, <1>4 DEF Sound

\* A step of n in which it makes the packet with the core c
LEMMA GrowSound ==
    ASSUME NEW C, NEW N, NEW S, NEW G, NEW T, Sound(C, N, S, G, T),
           NEW n \in Nodes, NEW M, NEW R, NEW F, NEW U,
           OnlyOf(n, N, S, G, T, M, R, F, U),
           NEW c, MayMake(c, n, N[n], F[n]),
           M[n].seq = N[n].seq + 1, G[n] \subseteq F[n],
           NEW E, E = C \cup {c}, NodeSound(n, E, M[n], R[n], F[n], U[n])
    PROVE  Sound(E, M, R, F, U)
  <1>0. /\ c \in Cores /\ c.from = n /\ c.id = N[n].seq + 1
        /\ c.error => c.to = n
        /\ c.request # 0 /\ ~c.error /\ c.to # n => <<c.to, c.request>> \in F[n]
    BY DEF MayMake
  <1>1. \A m \in Nodes : N[m].seq \in Nat
    BY Seqs
  <1>2. \A m \in Nodes : /\ N[m].seq \in Nat /\ M[m].seq \in Nat
                         /\ N[m].seq <= M[m].seq /\ G[m] \subseteq F[m]
    BY <1>1 DEF OnlyOf
  <1>3. Made(C, N, G)
    BY DEF Sound
  <1>4. \A d \in C : d.from \in Nodes /\ d.id \in Nat /\ d \in Cores
    BY <1>3 DEF Made, Cores
  <1>5. \A d \in C : KeyOf(d) # KeyOf(c)
    <2> SUFFICES ASSUME NEW d \in C, KeyOf(d) = KeyOf(c) PROVE FALSE
      OBVIOUS
    <2>1. d.from = n /\ d.id = N[n].seq + 1
      BY <1>0 DEF KeyOf
    <2>2. d.id <= N[n].seq
      BY <1>3, <2>1 DEF Made
    <2> QED
      BY <1>1, <2>1, <2>2
  <1>6. Made(E, M, F)
    <2>1. C \cup {c} \subseteq Cores
      BY <1>0, <1>4
    <2>2. \A d, e \in C \cup {c} : KeyOf(d) = KeyOf(e) => d = e
      BY <1>3, <1>5 DEF Made
    <2>3. \A d \in C : /\ d.id <= M[d.from].seq
                       /\ d.error => d.to = d.from
                       /\ d.request # 0 /\ ~d.error /\ d.to # d.from =>
                             <<d.to, d.request>> \in F[d.from]
      <3>1. ASSUME NEW d \in C PROVE d.id <= M[d.from].seq
        <4>1. d.id <= N[d.from].seq /\ d.from \in Nodes /\ d.id \in Nat
          BY <1>3, <1>4 DEF Made
        <4>2. /\ N[d.from].seq \in Nat /\ M[d.from].seq \in Nat
              /\ N[d.from].seq <= M[d.from].seq
          BY <1>2, <4>1
        <4> QED
          BY <4>1, <4>2
      <3> QED
        BY <1>2, <1>3, <1>4, <3>1 DEF Made
    <2>4. c.id <= M[c.from].seq
      BY <1>0, <1>1
    <2> QED
      BY <1>0, <2>1, <2>2, <2>3, <2>4 DEF Made
  <1>7. \A m \in Nodes : NodeSound(m, E, M[m], R[m], F[m], U[m])
    <2> SUFFICES ASSUME NEW m \in Nodes, m # n
                 PROVE  NodeSound(m, E, M[m], R[m], F[m], U[m])
      OBVIOUS
    <2>1. NodeSound(m, C, N[m], S[m], G[m], T[m])
      BY DEF Sound
    <2>2. NodeSound(m, E, N[m], S[m], G[m], T[m])
      BY <2>1, NodeSoundMore
    <2> QED
      BY <2>2 DEF OnlyOf
  <1> QED
    BY <1>6, <1>7 DEF Sound

----------------------------------------------------------------------------
(* The invariant holds at first, and each step keeps it *)

LEMMA LearntType ==
    ASSUME NEW n \in Nodes, NEW all
    PROVE  Learnt(n, all) \in [Nodes -> Nodes \cup {None}]
  <1> SUFFICES ASSUME NEW d \in Nodes, all /\ KnownHops(n, d) # {None}
               PROVE  (CHOOSE m \in KnownHops(n, d) : m # None) \in Nodes \cup {None}
    BY DEF Learnt
  <1>1. KnownHops(n, d) \subseteq Nodes \cup {None} /\ None \in KnownHops(n, d)
    BY DEF KnownHops, Neighbours
  <1> HIDE DEF KnownHops
  <1>2. \E m \in KnownHops(n, d) : m # None
    BY <1>1
  <1>3. (CHOOSE m \in KnownHops(n, d) : m # None) \in KnownHops(n, d)
    BY <1>2
  <1> QED
    BY <1>1, <1>3

LEMMA EmptyIsAFunction == \A S : <<>> \in [{} -> S]
  <1> SUFFICES ASSUME NEW S PROVE <<>> \in [{} -> S]
    OBVIOUS
  <1>1. <<>> \in Seq(S) /\ Len(<<>>) = 0
    BY EmptySeq
  <1>2. <<>> \in [1..0 -> S]
    BY <1>1, LenProperties
  <1> QED
    BY <1>2

LEMMA InitInv == Init => IInv
  <1> SUFFICES ASSUME Init PROVE IInv
    OBVIOUS
  <1>1. PICK S \in SUBSET Nodes :
           node = [n \in Nodes |-> Fresh(n, Learnt(n, n \in S))]
    BY DEF Init
  <1>2. \A n \in Nodes : sent[n] = {} /\ got[n] = {} /\ told[n] = {}
    BY DEF Init
  <1>3. ASSUME NEW n \in Nodes
        PROVE  /\ node[n] \in NodeState /\ node[n].seq = 0
               /\ node[n].tx = <<>> /\ node[n].inbox = <<>>
               /\ DOMAIN node[n].history = {} /\ DOMAIN node[n].pending = {}
    <2>1. PICK route \in [Nodes -> Nodes \cup {None}] : node[n] = Fresh(n, route)
      BY <1>1, LearntType
    <2>2. PICK empty \in [{} -> HistoryRecord] : empty = <<>>
      BY EmptyIsAFunction
    <2>3. PICK none \in [{} -> [packet: Packet, left: Nat]] : none = <<>>
      BY EmptyIsAFunction
    <2>4. /\ empty \in UNION {[K -> HistoryRecord] : K \in SUBSET Keys}
          /\ none \in UNION {[K -> [packet: Packet, left: Nat]] : K \in SUBSET Keys}
      BY <2>2, <2>3
    <2>5. /\ node[n].seq = 0 /\ node[n].history = empty /\ node[n].pending = none
          /\ node[n].tx = <<>> /\ node[n].inbox = <<>>
          /\ node[n].route = route /\ node[n].draining = FALSE
          /\ node[n] = [seq |-> 0, history |-> empty, pending |-> none, tx |-> <<>>,
                        inbox |-> <<>>, route |-> route, draining |-> FALSE]
      BY <2>1, <2>2, <2>3 DEF Fresh
    <2>6. PICK q \in Seq(Packet) : q = <<>>
      BY EmptySeq
    <2>7. PICK no \in BOOLEAN : no = FALSE
      OBVIOUS
    <2>8. [seq |-> 0, history |-> empty, pending |-> none, tx |-> q,
           inbox |-> q, route |-> route, draining |-> no] \in NodeState
      BY ONLY <2>4 DEF NodeState
    <2>9. node[n] \in NodeState
      BY <2>5, <2>6, <2>7, <2>8
    <2> QED
      BY <2>2, <2>3, <2>5, <2>9
  <1>4. \A n \in Nodes : NodeSound(n, {}, node[n], sent[n], got[n], told[n])
    <2> SUFFICES ASSUME NEW n \in Nodes
                 PROVE  NodeSound(n, {}, node[n], sent[n], got[n], told[n])
      OBVIOUS
    <2>1. Len(node[n].inbox) = 0 /\ Len(node[n].tx) = 0
      BY <1>3
    <2>2. Good(n, node[n], {}, HistoryKeys(n, {}, got[n]), PendingKeys(n, told[n]))
      BY <1>3, <2>1, Constants DEF Good
    <2> QED
      BY <1>2, <2>2 DEF NodeSound, Noted
  <1>5. Made({}, node, got)
    BY DEF Made
  <1>6. Typed
    <2>1. node \in [Nodes -> NodeState]
      BY <1>1, <1>3
    <2> QED
      BY <2>1 DEF Init, Typed
  <1>7. Truthful(got, told)
    BY <1>2 DEF Truthful
  <1> QED
    BY <1>4, <1>5, <1>6, <1>7 DEF IInv, Sound

LEMMA SubmitStep ==
    ASSUME IInv, NEW n \in Nodes, NEW to \in Dests,
           NEW text \in Texts(to), Submit(n, to, text)
    PROVE  IInv' /\ \A m \in Nodes : node'[m].inbox = node[m].inbox
  <1> DEFINE s == node[n]
             p == [from |-> n, to |-> to, id |-> s.seq + 1, request |-> 0,
                   hopStart |-> 0, hop |-> HopLimit, relay |-> None,
                   nextHop |-> None, wantAck |-> TRUE, text |-> text,
                   error |-> FALSE]
             t == [s EXCEPT !.seq = s.seq + 1]
             u == ReliableSend(n, t, p)
             c == Core(p)
  <1>1. PICK C : Sound(C, node, sent, got, told)
    BY DEF IInv
  <1>2. Typed /\ Truthful(got, told)
    BY DEF IInv
  <1>3. /\ to # n /\ got' = got /\ told' = told
        /\ node' = [node EXCEPT ![n] = u]
        /\ sent' = [sent EXCEPT ![n] = sent[n] \cup {s.seq + 1}]
    BY DEF Submit
  <1>4. to \in Nodes \cup {Broadcast} /\ text \in BOOLEAN
    BY NetworkAssumption DEF Texts
  <1> DEFINE H == HistoryKeys(n, C, got[n])
             K == PendingKeys(n, told[n])
             D == C \cup {c}
             I == HistoryKeys(n, D, got[n])
  <1>5. Good(n, s, C, H, K) /\ s.seq \in Nat /\ Noted(s, sent[n], told[n])
    <2>1. NodeSound(n, C, node[n], sent[n], got[n], told[n])
      BY <1>1 DEF Sound
    <2> QED
      BY <1>1, <2>1, Seqs DEF NodeSound
  <1>6. /\ p \in Packet /\ p.from = n /\ p.to = to /\ p.id = s.seq + 1
        /\ p.request = 0 /\ p.error = FALSE
    BY <1>4, <1>5, Constants DEF Packet
  <1>7. /\ c \in Cores /\ c.from = n /\ c.to = to /\ c.id = s.seq + 1
        /\ c.request = 0 /\ c.error = FALSE
    <2> HIDE DEF p
    <2>1. c \in Cores
      BY <1>6, PacketFields
    <2> QED
      BY <1>6, <2>1 DEF Core
  <1>8. Key(p) = NextKey(n, s) /\ Key(p) \in K
    <2>1. Unused(n, s, K)
      BY <1>5, UnusedIds
    <2> QED
      BY <1>5, <1>6, <2>1 DEF Unused, Key, NextKey
  <1> HIDE DEF p
  <1>9. Core(p) \in D
    OBVIOUS
  <1> HIDE DEF c
  <1>10. H \cup {NextKey(n, s)} \subseteq I
    BY <1>7, HistoryNew
  <1> HIDE DEF H, K, I
  <1>11. Good(n, t, D, I, K) /\ t.seq = s.seq + 1 /\ t.inbox = s.inbox
    <2>1. PICK i \in Nat : i = s.seq + 1
      BY <1>5
    <2>2. /\ Good(n, [s EXCEPT !.seq = i], C, H, K) /\ [s EXCEPT !.seq = i].seq = i
          /\ [s EXCEPT !.seq = i].inbox = s.inbox
      BY <1>5, GoodSeq
    <2>3. Good(n, t, C, H, K) /\ t.seq = s.seq + 1 /\ t.inbox = s.inbox
      BY <2>1, <2>2
    <2>4. C \subseteq D /\ H \subseteq I
      BY <1>10
    <2> HIDE DEF t, D
    <2>5. Good(n, t, D, I, K)
      BY <2>3, <2>4, GoodMore
    <2> QED
      BY <2>3, <2>5
  <1>12. Sendable(n, p, D)
    BY <1>3, <1>6, <1>9 DEF Sendable
  <1> HIDE DEF t, D
  <1>13. Good(n, u, D, I, K) /\ Same(t, u)
    <2>1. Key(p) \in I
      BY <1>8, <1>10
    <2> QED
      BY <1>6, <1>8, <1>11, <1>12, <2>1, ReliableSendGood
  <1> HIDE DEF u
  <1>14. node'[n] = u /\ sent'[n] = sent[n] \cup {s.seq + 1}
         /\ \A m \in Nodes \ {n} : node'[m] = node[m] /\ sent'[m] = sent[m]
    BY <1>2, <1>3 DEF Typed
  <1>15. u.seq = s.seq + 1
    BY <1>11, <1>13 DEF Same
  <1>16. Noted(u, sent'[n], told[n])
    BY <1>5, <1>14, <1>15 DEF Noted
  <1>17. NodeSound(n, C \cup {c}, node'[n], sent'[n], got'[n], told'[n])
    BY <1>3, <1>13, <1>14, <1>16 DEF NodeSound, D, I, K
  <1>18. Sound(C \cup {c}, node', sent', got', told')
    <2>1. OnlyOf(n, node, sent, got, told, node', sent', got', told')
      BY <1>3, <1>14 DEF OnlyOf
    <2>2. node'[n].seq = node[n].seq + 1 /\ got[n] \subseteq got'[n]
      BY <1>3, <1>14, <1>15
    <2>3. MayMake(c, n, node[n], got'[n])
      BY <1>7 DEF MayMake
    <2> QED
      BY <1>1, <1>17, <2>1, <2>2, <2>3, GrowSound
  <1>19. Typed'
    <2>1. u \in NodeState
      BY <1>13 DEF Good
    <2>2. node' \in [Nodes -> NodeState] /\ sent' \in [Nodes -> SUBSET Nat]
      BY <1>2, <1>3, <1>5, <2>1 DEF Typed
    <2> QED
      BY <1>2, <1>3, <2>2 DEF Typed
  <1>20. Truthful(got', told')
    BY <1>2, <1>3
  <1>21. \A m \in Nodes : node'[m].inbox = node[m].inbox
    BY <1>11, <1>13, <1>14 DEF Same
  <1> QED
    BY <1>18, <1>19, <1>20, <1>21 DEF IInv

\* The handler of a packet, seen from the node: s0 is its record with the
\* packet taken from the inbox, g and v what its modules and its phone have
\* got afterwards.
Outcome(n, s0, w, p, C, g, v, S) ==
    LET c == ReplyCore(n, s0, p)
    IN  /\ w \in NodeState
        /\ \/ /\ w.seq = s0.seq /\ w.inbox = s0.inbox
              /\ NodeSound(n, C, w, S, g, v)
           \/ /\ w.seq = s0.seq + 1
              /\ w.inbox = s0.inbox \/ ToldItself(s0, w)
              /\ MayMake(c, n, s0, g)
              /\ NodeSound(n, C \cup {c}, w, S, g, v)

LEMMA Taken ==
    ASSUME NEW C, Sound(C, node, sent, got, told), NEW n \in Nodes,
           node[n].inbox # <<>>, NEW H, NEW K, Good(n, node[n], C, H, K)
    PROVE  LET s == node[n]
               t == [s EXCEPT !.inbox = Tail(s.inbox)]
           IN  /\ Good(n, t, C, H, K) /\ Incoming(n, Head(s.inbox), C)
               /\ t.seq = s.seq /\ t.inbox = Tail(s.inbox)
               /\ t.history = s.history
  <1> DEFINE s == node[n]
             q == s.inbox
  <1>1. q \in Seq(Packet) /\ q # <<>>
    BY GoodState
  <1>2. Len(q) <= MaxInbox /\ \A i \in 1..Len(q) : Incoming(n, q[i], C)
    BY DEF Good
  <1> HIDE DEF q
  <1>3. /\ Tail(q) \in Seq(Packet) /\ Len(Tail(q)) = Len(q) - 1
        /\ Len(q) \in Nat \ {0}
        /\ \A i \in 1..Len(Tail(q)) : Tail(q)[i] = q[i + 1]
        /\ Head(q) = q[1] /\ Head(q) \in Packet
    BY <1>1, Dropped
  <1>4. Len(Tail(q)) <= MaxInbox
    BY <1>2, <1>3, Constants
  <1>5. \A i \in 1..Len(Tail(q)) : Incoming(n, Tail(q)[i], C)
    <2>1. \A i \in 1..Len(Tail(q)) : i + 1 \in 1..Len(q)
      BY <1>3
    <2> QED
      BY <1>2, <1>3, <2>1
  <1>6. Incoming(n, Head(q), C)
    BY <1>2, <1>3
  <1> DEFINE h == Tail(q)
  <1>7. h \in Seq(Packet) /\ Len(h) <= MaxInbox
        /\ \A i \in 1..Len(h) : Incoming(n, h[i], C)
    BY <1>3, <1>4, <1>5
  <1> HIDE DEF h
  <1>8. /\ Good(n, [s EXCEPT !.inbox = h], C, H, K)
        /\ [s EXCEPT !.inbox = h].inbox = h
        /\ [s EXCEPT !.inbox = h].history = s.history
        /\ [s EXCEPT !.inbox = h].seq = s.seq
    BY <1>7, GoodInbox
  <1> QED
    BY <1>6, <1>8 DEF h, q

LEMMA HandleOutcome ==
    ASSUME NEW C, Sound(C, node, sent, got, told), Typed,
           NEW n \in Nodes, Handle(n)
    PROVE  LET s == node[n]
               p == Head(s.inbox)
               t == [s EXCEPT !.inbox = Tail(s.inbox)]
           IN  /\ \E w : /\ node' = [node EXCEPT ![n] = w]
                         /\ Outcome(n, t, w, p, C, got'[n], told'[n], sent[n])
               /\ Incoming(n, p, C)
               /\ t.seq = s.seq /\ t.inbox = Tail(s.inbox)
  <1> DEFINE s == node[n]
             p == Head(s.inbox)
             t == [s EXCEPT !.inbox = Tail(s.inbox)]
             w == Handled(n, t, p)
             b == w.inbox # <<>>
             x == [w EXCEPT !.draining = b]
             g == got'[n]
             v == told'[n]
             c == ReplyCore(n, t, p)
             H == HistoryKeys(n, C, got[n])
             I == HistoryKeys(n, C, g)
             K == PendingKeys(n, told[n])
             L == PendingKeys(n, v)
  <1>1. Good(n, s, C, H, K) /\ s.seq \in Nat /\ Noted(s, sent[n], told[n])
    <2>1. NodeSound(n, C, node[n], sent[n], got[n], told[n])
      BY DEF Sound
    <2> QED
      BY <2>1, Seqs DEF NodeSound
  <1>2. /\ s.inbox # <<>> /\ node' = [node EXCEPT ![n] = x]
    BY DEF Handle
  <1>3. /\ g = got[n] \cup (IF ~Seen(s, p) /\ p.to \in {n, Broadcast}
                            THEN {Key(p)} ELSE {})
        /\ v = told[n] \cup (IF ~Seen(s, p) /\ p.to = n /\ p.request \in sent[n]
                             THEN {<<p.request, Verdict(n, p)>>} ELSE {})
    BY DEF Handle, Typed
  <1>4. /\ Good(n, t, C, H, K) /\ Incoming(n, p, C)
        /\ t.seq = s.seq /\ t.inbox = Tail(s.inbox) /\ t.history = s.history
    BY <1>1, <1>2, Taken
  <1>5. H \subseteq I
    <2>1. got[n] \subseteq g
      BY <1>3
    <2> HIDE DEF g
    <2> QED
      BY <2>1, HistoryMore
  <1>6. p \in Packet /\ Core(p) \in C /\ KeyOf(Core(p)) = Key(p) /\ Key(p) \in Keys
    BY <1>4, PacketFields DEF Incoming, KeyOf, Core, Key
  <1>7. Key(p) \in I
    <2>1. CASE Seen(s, p)
      BY <1>1, <1>5, <2>1 DEF Good, Seen
    <2>2. CASE ~Seen(s, p)
      <3>1. Core(p).to = n /\ Core(p).from # n => Key(p) \in g
        BY <1>3, <2>2 DEF Core
      <3> HIDE DEF g
      <3> QED
        BY <1>6, <3>1 DEF HistoryKeys
    <2> QED
      BY <2>1, <2>2
  <1>8. p.from # n => Key(p) \in K
    BY <1>6 DEF PendingKeys, Key
  <1>9. Unused(n, t, K)
    <2>1. Noted(t, sent[n], told[n]) /\ t.seq \in Nat
      BY <1>1, <1>4 DEF Noted
    <2> HIDE DEF t
    <2> QED
      BY <2>1, UnusedIds
  <1> HIDE DEF s, p, t, H, I, K, L
  <1>10. Good(n, t, C, I, K) /\ Received(n, p, C, I, K)
    <2>1. Good(n, t, C, I, K)
      BY <1>4, <1>5, GoodMore
    <2> QED
      BY <1>4, <1>7, <1>8, <2>1 DEF Received
  <1>11. /\ \/ Kept(n, t, w, C, I, K)
            \/ /\ Grown(n, t, w, c, C, I, K)
               /\ \/ p.to = n /\ w.inbox = t.inbox
                  \/ p.from = n /\ ToldItself(t, w)
         /\ ~Seen(t, p) /\ p.to = n /\ p.request # 0 =>
               <<n, p.request>> \notin DOMAIN w.pending
    BY <1>9, <1>10, HandledGood
  <1> HIDE DEF w, c
  <1>12. DOMAIN w.pending \cap K \subseteq L
    <2> SUFFICES ASSUME NEW k \in DOMAIN w.pending, k \in K PROVE k \in L
      OBVIOUS
    <2>1. CASE v = told[n]
      BY <2>1 DEF K, L
    <2>2. CASE v # told[n]
      <3>1. /\ ~Seen(t, p) /\ p.to = n /\ p.request \in sent[n]
            /\ v = told[n] \cup {<<p.request, Verdict(n, p)>>}
        BY <1>3, <1>4, <2>2 DEF Seen
      <3>2. p.request # 0
        BY <1>1, <3>1 DEF Noted
      <3>3. k # <<n, p.request>>
        BY <1>11, <3>1, <3>2
      <3> HIDE DEF v
      <3>4. k \in Keys /\ k = <<k[1], k[2]>>
        BY DEF K, PendingKeys, Keys
      <3> QED
        BY <3>1, <3>3, <3>4 DEF K, L, PendingKeys
    <2> QED
      BY <2>1, <2>2
  <1>13. ASSUME NEW D, NEW J, Good(n, w, D, J, K)
         PROVE  Good(n, x, D, J, L) /\ Same(w, x) /\ x \in NodeState
    <2>1. Good(n, w, D, J, L)
      BY <1>12, <1>13, GoodMore
    <2>2. b \in BOOLEAN
      OBVIOUS
    <2> HIDE DEF b
    <2>3. Good(n, x, D, J, L) /\ Same(w, x)
      BY <2>1, <2>2, GoodDraining
    <2> QED
      BY <2>3 DEF Good
  <1> HIDE DEF x
  <1>14. ASSUME x.seq >= s.seq, x.seq \in Nat
         PROVE  Noted(x, sent[n], v)
    <2>1. sent[n] \subseteq 1..x.seq
      BY <1>1, <1>14 DEF Noted
    <2>2. \A y \in v : y[1] \in sent[n]
      BY <1>1, <1>3 DEF Noted
    <2> QED
      BY <2>1, <2>2 DEF Noted
  <1> HIDE DEF g, v
  <1>15. CASE Kept(n, t, w, C, I, K)
    <2>1. Good(n, w, C, I, K) /\ w.seq = t.seq /\ w.inbox = t.inbox
      BY <1>15 DEF Kept, Same
    <2>2. /\ Good(n, x, C, I, L) /\ x.seq = t.seq /\ x.inbox = t.inbox
          /\ x \in NodeState
      BY <1>13, <2>1 DEF Same
    <2>3. NodeSound(n, C, x, sent[n], g, v)
      <3>1. Noted(x, sent[n], v)
        BY <1>1, <1>4, <1>14, <2>2
      <3> QED
        BY <2>2, <3>1 DEF NodeSound, I, L
    <2>4. Outcome(n, t, x, p, C, g, v, sent[n])
      BY <2>2, <2>3 DEF Outcome
    <2> QED
      BY <1>2, <1>4, <2>4 DEF s, p, t, g, v
  <1>16. CASE /\ Grown(n, t, w, c, C, I, K)
              /\ \/ p.to = n /\ w.inbox = t.inbox
                 \/ p.from = n /\ ToldItself(t, w)
    <2> DEFINE D == C \cup {c}
               J == I \cup {NextKey(n, t)}
               M == HistoryKeys(n, D, g)
    <2>1. Good(n, w, D, J, K) /\ w.seq = t.seq + 1
      BY <1>16 DEF Grown
    <2> HIDE DEF D, J
    <2>2. /\ Good(n, x, D, J, L) /\ x.seq = t.seq + 1 /\ x.inbox = w.inbox
          /\ x \in NodeState
      BY <1>13, <2>1 DEF Same
    <2>3. /\ c.from = n /\ c.to = p.from /\ c.id = t.seq + 1 /\ c.request = p.id
          /\ ~c.error /\ c \in Cores
      <3>1. p.from \in Nodes /\ p.id \in Nat
        BY <1>6, PacketFields
      <3> QED
        BY <1>1, <1>4, <3>1 DEF c, ReplyCore, NextCore, Cores
    <2>4. J \subseteq M
      BY <2>3, HistoryNew DEF J, D, I
    <2>5. Good(n, x, D, M, L)
      <3>1. DOMAIN x.pending \cap L \subseteq L /\ D \subseteq D
        OBVIOUS
      <3> HIDE DEF M
      <3> QED
        BY <2>2, <2>4, <3>1, GoodMore
    <2>6. NodeSound(n, D, x, sent[n], g, v)
      <3>1. Noted(x, sent[n], v)
        BY <1>1, <1>4, <1>14, <2>2
      <3> QED
        BY <2>5, <3>1 DEF NodeSound, L
    <2>7. p.to = n /\ p.from # n => Key(p) \in g
      <3>1. PICK d \in C : KeyOf(d) = Key(p) /\ (d.to = n /\ d.from # n => Key(p) \in g)
        BY <1>7 DEF I, HistoryKeys
      <3>2. d = Core(p)
        BY <1>6, <3>1 DEF Sound, Made
      <3> QED
        BY <3>1, <3>2 DEF Core
    <2>8. MayMake(c, n, t, g)
      BY <1>16, <2>3, <2>7 DEF MayMake, Key
    <2>9. x.inbox = t.inbox \/ ToldItself(t, x)
      BY <1>16, <2>2 DEF ToldItself
    <2>10. Outcome(n, t, x, p, C, g, v, sent[n])
      BY <2>2, <2>6, <2>8, <2>9 DEF Outcome, D, c
    <2> QED
      BY <1>2, <1>4, <2>10 DEF s, p, t, g, v
  <1> QED
    BY <1>11, <1>15, <1>16

LEMMA HandleStep ==
    ASSUME IInv, NEW n \in Nodes, Handle(n)
    PROVE  IInv'
  <1> DEFINE s == node[n]
             p == Head(s.inbox)
             t == [s EXCEPT !.inbox = Tail(s.inbox)]
             c == ReplyCore(n, t, p)
  <1>1. PICK C : Sound(C, node, sent, got, told)
    BY DEF IInv
  <1>2. Typed /\ Truthful(got, told)
    BY DEF IInv
  <1>3. /\ \E w : /\ node' = [node EXCEPT ![n] = w]
                  /\ Outcome(n, t, w, p, C, got'[n], told'[n], sent[n])
        /\ Incoming(n, p, C)
        /\ t.seq = s.seq
    BY <1>1, <1>2, HandleOutcome
  <1>4. PICK w : /\ node' = [node EXCEPT ![n] = w]
                 /\ Outcome(n, t, w, p, C, got'[n], told'[n], sent[n])
    BY <1>3
  <1>5. /\ sent' = sent
        /\ got' = IF ~Seen(s, p) /\ p.to \in {n, Broadcast}
                  THEN [got EXCEPT ![n] = got[n] \cup {Key(p)}] ELSE got
        /\ told' = IF ~Seen(s, p) /\ p.to = n /\ p.request \in sent[n]
                   THEN [told EXCEPT ![n] = told[n] \cup
                                               {<<p.request, Verdict(n, p)>>}]
                   ELSE told
    BY DEF Handle
  <1>6. /\ p \in Packet /\ Core(p) \in C /\ Key(p) \in Keys /\ p.request \in Nat
        /\ p.to = p.from => p.from = n
    BY <1>3, PacketFields DEF Incoming
  <1> HIDE DEF s, p, t, c
  <1>7. /\ OnlyOf(n, node, sent, got, told, node', sent', got', told')
        /\ node'[n] = w /\ \A m \in Nodes : got[m] \subseteq got'[m]
    BY <1>2, <1>4, <1>5 DEF Typed, OnlyOf
  <1>8. \E D : Sound(D, node', sent', got', told')
    <2>1. CASE w.seq = t.seq /\ NodeSound(n, C, w, sent[n], got'[n], told'[n])
      <3>1. /\ node'[n].seq = node[n].seq /\ got[n] \subseteq got'[n]
            /\ NodeSound(n, C, node'[n], sent'[n], got'[n], told'[n])
        BY <1>3, <1>5, <1>7, <2>1 DEF s
      <3>2. Sound(C, node', sent', got', told')
        BY <1>1, <1>7, <3>1, StaySound
      <3> QED
        BY <3>2
    <2>2. CASE /\ w.seq = t.seq + 1 /\ MayMake(c, n, t, got'[n])
               /\ NodeSound(n, C \cup {c}, w, sent[n], got'[n], told'[n])
      <3>1. /\ node'[n].seq = node[n].seq + 1 /\ got[n] \subseteq got'[n]
            /\ NodeSound(n, C \cup {c}, node'[n], sent'[n], got'[n], told'[n])
        BY <1>3, <1>5, <1>7, <2>2 DEF s
      <3>2. MayMake(c, n, node[n], got'[n])
        BY <1>3, <2>2 DEF MayMake, s
      <3>3. PICK D : D = C \cup {c}
        OBVIOUS
      <3>4. NodeSound(n, D, node'[n], sent'[n], got'[n], told'[n])
        BY <3>1, <3>3
      <3>5. Sound(D, node', sent', got', told')
        BY <1>1, <1>7, <3>1, <3>2, <3>3, <3>4, GrowSound
      <3> QED
        BY <3>5
    <2> QED
      BY <1>4, <2>1, <2>2 DEF Outcome, c
  <1>9. Typed'
    <2>1. w \in NodeState
      BY <1>4 DEF Outcome
    <2>2. node' \in [Nodes -> NodeState]
      BY <1>2, <1>4, <2>1 DEF Typed
    <2>3. got' \in [Nodes -> SUBSET Keys]
      BY <1>2, <1>5, <1>6 DEF Typed
    <2>4. told' \in [Nodes -> SUBSET (Nat \X {"ack", "nak", "implicit"})]
      <3>1. Verdict(n, p) \in {"ack", "nak", "implicit"}
        BY DEF Verdict
      <3>2. PICK y \in Nat \X {"ack", "nak", "implicit"} : y = <<p.request, Verdict(n, p)>>
        BY <1>6, <3>1
      <3> QED
        BY <1>2, <1>5, <3>2 DEF Typed
    <2> QED
      BY <1>2, <1>5, <2>2, <2>3, <2>4 DEF Typed
  <1>10. Truthful(got', told')
    <2> SUFFICES ASSUME NEW m \in Nodes, NEW id \in Nat, <<id, "ack">> \in told'[m]
                 PROVE  \E d \in Nodes \ {m} : <<m, id>> \in got'[d]
      BY DEF Truthful
    <2>1. CASE <<id, "ack">> \in told[m]
      BY <1>2, <1>7, <2>1 DEF Truthful
    <2>2. CASE <<id, "ack">> \notin told[m]
      <3>1. /\ m = n /\ p.to = n /\ p.request \in sent[n] /\ p.request = id
            /\ Verdict(n, p) = "ack"
        BY <1>2, <1>5, <2>2 DEF Typed
      <3>2. ~p.error /\ p.from # n
        BY <3>1 DEF Verdict, Mine
      <3>3. p.request # 0
        BY <1>1, <3>1 DEF Sound, NodeSound, Noted
      <3>4. <<p.to, p.request>> \in got[p.from]
        <4>1. \E e \in C : /\ e.from = p.from /\ e.to = p.to
                           /\ e.request = p.request /\ e.error = p.error
          BY <1>6 DEF Core
        <4> QED
          BY <1>1, <3>1, <3>2, <3>3, <4>1 DEF Sound, Made
      <3>5. p.from \in Nodes \ {n}
        BY <1>6, <3>2, PacketFields
      <3> QED
        BY <1>7, <3>1, <3>4, <3>5
    <2> QED
      BY <2>1, <2>2
  <1> QED
    BY <1>8, <1>9, <1>10 DEF IInv

LEMMA RetransmitOutcome ==
    ASSUME NEW C, Sound(C, node, sent, got, told), Typed,
           NEW n \in Nodes, NEW key \in DOMAIN node[n].pending, Retransmit(n, key)
    PROVE  \E w : /\ node' = [node EXCEPT ![n] = w]
                  /\ \/ Kept(n, node[n], w, C, HistoryKeys(n, C, got[n]),
                             PendingKeys(n, told[n]))
                     \/ \E id \in Nat :
                           /\ key = <<n, id>>
                           /\ Grown(n, node[n], w, FailureCore(n, node[n], id), C,
                                    HistoryKeys(n, C, got[n]),
                                    PendingKeys(n, told[n]))
                           /\ \E x \in Packet :
                                 /\ x.error /\ x.request = id
                                 /\ w.inbox = Enqueue(node[n], x).inbox
  <1> DEFINE s == node[n]
             H == HistoryKeys(n, C, got[n])
             K == PendingKeys(n, told[n])
             w == IF s.pending[key].left = 0 THEN GiveUp(n, s, key)
                  ELSE Retry(n, s, key)
  <1>1. Good(n, s, C, H, K) /\ s.seq \in Nat /\ Noted(s, sent[n], told[n])
    <2>1. NodeSound(n, C, node[n], sent[n], got[n], told[n])
      BY DEF Sound
    <2> QED
      BY <2>1, Seqs DEF NodeSound
  <1>2. node' = [node EXCEPT ![n] = w]
    BY DEF Retransmit
  <1>3. key \in H
    <2>1. /\ Core(s.pending[key].packet) \in C /\ s.pending[key].packet.to # n
          /\ Key(s.pending[key].packet) = key
      BY <1>1 DEF Good, Sendable
    <2>2. PICK c \in C : c.to # n /\ KeyOf(c) = key
      BY <2>1 DEF Core, Key, KeyOf
    <2> QED
      BY <2>2 DEF HistoryKeys
  <1>4. Unused(n, s, K)
    BY <1>1, UnusedIds
  <1> HIDE DEF H, K
  <1>5. CASE s.pending[key].left = 0
    <2>1. \/ Kept(n, s, GiveUp(n, s, key), C, H, K)
          \/ \E id \in Nat :
                /\ key = <<n, id>>
                /\ Grown(n, s, GiveUp(n, s, key), FailureCore(n, s, id), C, H, K)
                /\ \E x \in Packet :
                      /\ x.error /\ x.request = id
                      /\ GiveUp(n, s, key).inbox = Enqueue(s, x).inbox
      BY <1>1, <1>4, GiveUpGood
    <2> QED
      BY <1>2, <1>5, <2>1 DEF H, K
  <1>6. CASE s.pending[key].left # 0
    <2>1. Kept(n, s, Retry(n, s, key), C, H, K)
      BY <1>1, <1>3, <1>6, RetryGood
    <2> QED
      BY <1>2, <1>6, <2>1 DEF H, K
  <1> QED
    BY <1>5, <1>6

LEMMA RetransmitStep ==
    ASSUME IInv, NEW n \in Nodes, NEW key \in DOMAIN node[n].pending,
           Retransmit(n, key)
    PROVE  IInv'
  <1>1. PICK C : Sound(C, node, sent, got, told)
    BY DEF IInv
  <1>2. Typed /\ Truthful(got, told)
    BY DEF IInv
  <1> DEFINE s == node[n]
             H == HistoryKeys(n, C, got[n])
             K == PendingKeys(n, told[n])
  <1>3. PICK w : /\ node' = [node EXCEPT ![n] = w]
                 /\ \/ Kept(n, s, w, C, H, K)
                    \/ \E id \in Nat : Grown(n, s, w, FailureCore(n, s, id), C, H, K)
    BY <1>1, <1>2, RetransmitOutcome
  <1>4. sent' = sent /\ got' = got /\ told' = told
    BY DEF Retransmit
  <1>5. /\ OnlyOf(n, node, sent, got, told, node', sent', got', told')
        /\ node'[n] = w /\ got[n] \subseteq got'[n]
    BY <1>2, <1>3, <1>4 DEF Typed, OnlyOf
  <1>6. s.seq \in Nat /\ Noted(s, sent[n], told[n])
    BY <1>1, Seqs DEF Sound, NodeSound
  <1>7. CASE Kept(n, s, w, C, H, K)
    <2>1. Good(n, w, C, H, K) /\ w.seq = s.seq
      BY <1>7 DEF Kept, Same
    <2>2. NodeSound(n, C, node'[n], sent'[n], got'[n], told'[n])
      BY <1>4, <1>5, <1>6, <2>1 DEF NodeSound, Noted
    <2>3. Sound(C, node', sent', got', told')
      BY <1>1, <1>5, <2>1, <2>2, StaySound
    <2> QED
      BY <2>1, <2>3, <1>2, <1>3, <1>4 DEF IInv, Typed, Good
  <1>8. CASE \E id \in Nat : Grown(n, s, w, FailureCore(n, s, id), C, H, K)
    <2>1. PICK id \in Nat : Grown(n, s, w, FailureCore(n, s, id), C, H, K)
      BY <1>8
    <2> DEFINE c == FailureCore(n, s, id)
               D == C \cup {c}
               I == HistoryKeys(n, D, got[n])
               J == H \cup {NextKey(n, s)}
    <2>2. w.seq = s.seq + 1 /\ Good(n, w, D, J, K)
      BY <2>1 DEF Grown
    <2>3. MayMake(c, n, node[n], got'[n]) /\ c.from = n /\ c.id = s.seq + 1
      <3>1. c = [from |-> n, to |-> n, id |-> s.seq + 1, request |-> id, error |-> TRUE]
        BY DEF FailureCore, NextCore
      <3>2. c \in Cores
        BY <1>6, <3>1 DEF Cores
      <3> HIDE DEF c
      <3> QED
        BY <3>1, <3>2 DEF MayMake
    <2> HIDE DEF c
    <2>4. J \subseteq I
      BY <2>3, HistoryNew
    <2> HIDE DEF D, I, J
    <2>5. Good(n, w, D, I, K)
      <3>1. DOMAIN w.pending \cap K \subseteq K /\ D \subseteq D
        OBVIOUS
      <3> HIDE DEF K
      <3> QED
        BY <2>2, <2>4, <3>1, GoodMore
    <2>6. NodeSound(n, D, node'[n], sent'[n], got'[n], told'[n])
      <3>1. Noted(w, sent[n], told[n])
        BY <1>6, <2>2 DEF Noted
      <3> QED
        BY <1>4, <1>5, <2>5, <3>1 DEF NodeSound, I
    <2>7. Sound(D, node', sent', got', told')
      <3>1. node'[n].seq = node[n].seq + 1 /\ D = C \cup {c}
        BY <1>5, <2>2 DEF D
      <3> QED
        BY <1>1, <1>5, <2>3, <2>6, <3>1, GrowSound
    <2> QED
      BY <2>5, <2>7, <1>2, <1>3, <1>4 DEF IInv, Typed, Good
  <1> QED
    BY <1>3, <1>7, <1>8

LEMMA OnAirStep ==
    ASSUME IInv, NEW n \in Nodes, NEW i \in DOMAIN node[n].tx,
           NEW heard \in SUBSET Neighbours(n), OnAir(n, i, heard)
    PROVE  IInv'
  <1>1. PICK C : Sound(C, node, sent, got, told)
    BY DEF IInv
  <1>2. Typed /\ Truthful(got, told)
    BY DEF IInv
  <1> DEFINE x == node[n].tx[i]
             H(m) == HistoryKeys(m, C, got[m])
             K(m) == PendingKeys(m, told[m])
             sentOne == [node[n] EXCEPT !.tx = RemoveAt(node[n].tx, i)]
  <1>3. /\ sent' = sent /\ got' = got /\ told' = told
        /\ node' = [m \in Nodes |-> IF m = n THEN sentOne
                                    ELSE IF m \in heard THEN Enqueue(node[m], x)
                                    ELSE node[m]]
    BY DEF OnAir
  <1>4. \A m \in Nodes : /\ Good(m, node[m], C, H(m), K(m)) /\ node[m].seq \in Nat
                         /\ Noted(node[m], sent[m], told[m])
    BY <1>1, Seqs DEF Sound, NodeSound
  <1>5. node[n].tx \in Seq(Packet) /\ i \in 1..Len(node[n].tx)
    BY <1>2 DEF Typed, NodeState
  <1>6. InTheAir(x, C)
    <2>1. Good(n, node[n], C, H(n), K(n))
      BY <1>4
    <2> QED
      BY <1>5, <2>1 DEF Good
  <1>7. Good(n, sentOne, C, H(n), K(n)) /\ sentOne.seq = node[n].seq
    <2> DEFINE q == node[n].tx
               rest == RemoveAt(q, i)
    <2>1. Good(n, node[n], C, H(n), K(n))
      BY <1>4
    <2>2. \A j \in 1..Len(q) : InTheAir(q[j], C)
      BY <2>1 DEF Good
    <2> HIDE DEF q
    <2>3. q \in Seq(Packet) /\ i \in 1..Len(q)
      BY <1>5 DEF q
    <2>4. /\ rest \in Seq(Packet)
          /\ \A j \in 1..Len(rest) : \E k \in 1..Len(q) : rest[j] = q[k]
      BY <2>3, Removed
    <2>5. \A j \in 1..Len(rest) : InTheAir(rest[j], C)
      BY <2>2, <2>4
    <2> HIDE DEF rest
    <2>6. PICK h : h = H(n)
      OBVIOUS
    <2>7. PICK k : k = K(n)
      OBVIOUS
    <2>8. Good(n, node[n], C, h, k)
      BY <2>1, <2>6, <2>7
    <2>9. /\ Good(n, [node[n] EXCEPT !.tx = rest], C, h, k)
          /\ Same(node[n], [node[n] EXCEPT !.tx = rest])
      BY <2>4, <2>5, <2>8, GoodTx
    <2> QED
      BY <2>6, <2>7, <2>9 DEF Same, rest, q
  <1>8. ASSUME NEW m \in Nodes
        PROVE  Good(m, Enqueue(node[m], x), C, H(m), K(m))
               /\ Enqueue(node[m], x).seq = node[m].seq
    <2>1. Incoming(m, x, C)
      BY <1>6 DEF InTheAir, Incoming
    <2> HIDE DEF x
    <2>2. PICK h : h = H(m)
      OBVIOUS
    <2>3. PICK k : k = K(m)
      OBVIOUS
    <2>4. Good(m, node[m], C, h, k)
      BY <1>4, <2>2, <2>3
    <2>5. Good(m, Enqueue(node[m], x), C, h, k)
          /\ Enqueue(node[m], x).seq = node[m].seq
      BY <2>1, <2>4, EnqueueGood
    <2> QED
      BY <2>2, <2>3, <2>5
  <1> HIDE DEF x, sentOne
  <1>9. ASSUME NEW m \in Nodes
        PROVE  Good(m, node'[m], C, H(m), K(m)) /\ node'[m].seq = node[m].seq
    <2>1. CASE m = n
      BY <1>3, <1>7, <2>1
    <2>2. CASE m # n /\ m \in heard
      BY <1>3, <1>8, <2>2
    <2>3. CASE m # n /\ m \notin heard
      BY <1>3, <1>4, <2>3
    <2> QED
      BY <2>1, <2>2, <2>3
  <1> HIDE DEF H, K
  <1>10. \A m \in Nodes : NodeSound(m, C, node'[m], sent'[m], got'[m], told'[m])
    <2> SUFFICES ASSUME NEW m \in Nodes
                 PROVE  NodeSound(m, C, node'[m], sent[m], got[m], told[m])
      BY <1>3
    <2>1. Noted(node'[m], sent[m], told[m])
      BY <1>4, <1>9 DEF Noted
    <2> QED
      BY <1>9, <2>1 DEF NodeSound, H, K
  <1>11. Made(C, node', got')
    <2>1. Made(C, node, got)
      BY <1>1 DEF Sound
    <2>2. \A c \in C : c.from \in Nodes
      BY <2>1 DEF Made, Cores
    <2> QED
      BY <1>3, <1>9, <2>1, <2>2 DEF Made
  <1>12. Typed'
    <2>1. \A m \in Nodes : node'[m] \in NodeState
      BY <1>9 DEF Good
    <2>2. node' \in [Nodes -> NodeState]
      BY <1>3, <2>1
    <2> QED
      BY <1>2, <1>3, <2>2 DEF Typed
  <1>13. Truthful(got', told')
    BY <1>2, <1>3
  <1> QED
    BY <1>10, <1>11, <1>12, <1>13 DEF IInv, Sound

LEMMA NextInv == IInv /\ [Next]_vars => IInv'
  <1> SUFFICES ASSUME IInv, [Next]_vars PROVE IInv'
    OBVIOUS
  <1>1. ASSUME NEW n \in Nodes, NEW to \in Dests, NEW text \in Texts(to),
               Submit(n, to, text)
        PROVE  IInv'
    BY <1>1, SubmitStep
  <1>2. ASSUME NEW n \in Nodes, Handle(n) PROVE IInv'
    BY <1>2, HandleStep
  <1>3. ASSUME NEW n \in Nodes, NEW key \in DOMAIN node[n].pending,
               Retransmit(n, key)
        PROVE  IInv'
    BY <1>3, RetransmitStep
  <1>4. ASSUME NEW n \in Nodes, NEW i \in DOMAIN node[n].tx,
               NEW heard \in SUBSET Neighbours(n), OnAir(n, i, heard)
        PROVE  IInv'
    BY <1>4, OnAirStep
  <1>5. CASE UNCHANGED vars
    <2>1. node' = node /\ sent' = sent /\ got' = got /\ told' = told
      BY <1>5 DEF vars
    <2>2. Typed' /\ Truthful(got', told')
      BY <2>1 DEF IInv, Typed
    <2>3. \E C : Sound(C, node', sent', got', told')
      BY <2>1 DEF IInv
    <2> QED
      BY <2>2, <2>3 DEF IInv
  <1> QED
    BY <1>1, <1>2, <1>3, <1>4, <1>5 DEF Next, Work, Rest

LEMMA Invariance == Spec => []IInv
  <1>1. IInv /\ [Next]_vars => IInv'
    BY NextInv
  <1> QED
    BY InitInv, <1>1, PTL DEF Spec

----------------------------------------------------------------------------

\* TypeOK: packets, records and retransmissions are well formed at every node,
\* no inbox outgrows MAX_RX_FROMRADIO and no count of tries runs below zero.
THEOREM Typing == Spec => []TypeOK
  <1>1. IInv => TypeOK
    <2> SUFFICES ASSUME IInv, NEW n \in Nodes
                 PROVE  LET s == node[n]
                        IN  /\ DOMAIN s = DOMAIN Fresh(n, s.route)
                            /\ Len(s.inbox) <= MaxInbox
                            /\ \A i \in DOMAIN s.tx : s.tx[i] \in Packet
                            /\ \A i \in DOMAIN s.inbox : s.inbox[i] \in Packet
                            /\ \A k \in DOMAIN s.history : s.history[k] \in HistoryRecord
                            /\ \A k \in DOMAIN s.pending :
                                  /\ s.pending[k].packet \in Packet
                                  /\ s.pending[k].left \in 0..(ReliableRetx - 1)
                            /\ s.route \in [Nodes -> Nodes \cup {None}]
      BY DEF TypeOK
    <2> DEFINE s == node[n]
    <2>1. PICK C : Sound(C, node, sent, got, told)
      BY DEF IInv
    <2>2. PICK H, K : Good(n, s, C, H, K)
      BY <2>1, Seqs
    <2>3. s \in NodeState
      BY <2>2 DEF Good
    <2> HIDE DEF s
    <2>4. DOMAIN s = DOMAIN Fresh(n, s.route)
      BY <2>3 DEF NodeState, Fresh
    <2>5. /\ s.tx \in Seq(Packet) /\ s.inbox \in Seq(Packet)
          /\ s.route \in [Nodes -> Nodes \cup {None}]
          /\ \A k \in DOMAIN s.history : s.history[k] \in HistoryRecord
      BY <2>2, GoodState
    <2>6. /\ \A i \in DOMAIN s.tx : s.tx[i] \in Packet
          /\ \A i \in DOMAIN s.inbox : s.inbox[i] \in Packet
      BY <2>5
    <2>7. /\ Len(s.inbox) <= MaxInbox
          /\ \A k \in DOMAIN s.pending : /\ s.pending[k].packet \in Packet
                                         /\ s.pending[k].left \in 0..(ReliableRetx - 1)
      BY <2>2 DEF Good, Sendable
    <2> QED
      BY <2>4, <2>5, <2>6, <2>7 DEF s
  <1> QED
    BY Invariance, <1>1, PTL

\* HeardDirectly: ReliableRouter answers a packet with zero hops, and
\* NextHopRouter learns from it, when hop_start = hop_limit; such a packet
\* comes from its sender itself, whatever copies of it are on the air.
THEOREM DirectIsDirect == Spec => []HeardDirectly
  <1>1. IInv => HeardDirectly
    <2> SUFFICES ASSUME IInv, NEW n \in Nodes, NEW i \in DOMAIN node[n].inbox,
                        IsRepeated(node[n].inbox[i])
                 PROVE  node[n].inbox[i].relay = node[n].inbox[i].from
      BY DEF HeardDirectly
    <2>1. PICK C : Sound(C, node, sent, got, told)
      BY DEF IInv
    <2>2. PICK H, K : Good(n, node[n], C, H, K)
      BY <2>1, Seqs
    <2>3. node[n].inbox \in Seq(Packet)
      BY <2>2, GoodState
    <2>4. i \in 1..Len(node[n].inbox)
      BY <2>3
    <2>5. Incoming(n, node[n].inbox[i], C)
      BY <2>2, <2>4 DEF Good
    <2> QED
      BY <2>5 DEF Incoming, Aired
  <1> QED
    BY Invariance, <1>1, PTL

\* AckIsTrue: sniffReceived acknowledges only what the modules have got, and
\* an acknowledgement is told only to the phone of the packet's sender.
THEOREM AcksAreTrue == Spec => []AckIsTrue
  <1>1. IInv => AckIsTrue
    <2>1. ASSUME IInv, NEW n \in Nodes, NEW id \in sent[n], <<id, "ack">> \in told[n]
          PROVE  \E m \in Nodes \ {n} : <<n, id>> \in got[m]
      <3>1. id \in Nat
        BY <2>1 DEF IInv, Typed
      <3> QED
        BY <2>1, <3>1 DEF IInv, Truthful
    <2> QED
      BY <2>1 DEF AckIsTrue
  <1> QED
    BY Invariance, <1>1, PTL

----------------------------------------------------------------------------
(* Failures in an inbox *)

NaksIn(q, id) == {i \in DOMAIN q : q[i].error /\ q[i].request = id}

LEMMA NaksAreFinite ==
    ASSUME NEW q \in Seq(Packet), NEW id
    PROVE  IsFiniteSet(NaksIn(q, id)) /\ Cardinality(NaksIn(q, id)) \in Nat
  <1>1. IsFiniteSet(1..Len(q))
    <2>1. Len(q) \in Nat
      OBVIOUS
    <2> QED
      BY <2>1, FS_Interval
  <1>2. NaksIn(q, id) \subseteq 1..Len(q)
    BY DEF NaksIn
  <1>3. IsFiniteSet(NaksIn(q, id))
    BY <1>1, <1>2, FS_Subset
  <1> QED
    BY <1>3, FS_CardinalityType

\* The next packet is taken.
LEMMA NaksTail ==
    ASSUME NEW q \in Seq(Packet), q # <<>>, NEW id
    PROVE  Cardinality(NaksIn(Tail(q), id)) <= Cardinality(NaksIn(q, id))
  <1>1. /\ Tail(q) \in Seq(Packet) /\ Len(Tail(q)) = Len(q) - 1
        /\ Len(q) \in Nat \ {0}
        /\ \A i \in 1..Len(Tail(q)) : Tail(q)[i] = q[i + 1]
    BY Dropped
  <1> DEFINE S == NaksIn(Tail(q), id)
             T == NaksIn(q, id)
             f == [i \in S |-> i + 1]
  <1>2. \A i \in S : i \in 1..Len(Tail(q)) /\ i \in Nat
    BY <1>1 DEF NaksIn
  <1>3. \A i \in S : i + 1 \in T
    <2> SUFFICES ASSUME NEW i \in S PROVE i + 1 \in T
      OBVIOUS
    <2>1. Tail(q)[i].error /\ Tail(q)[i].request = id
      BY DEF NaksIn
    <2>2. Tail(q)[i] = q[i + 1] /\ i + 1 \in 1..Len(q)
      BY <1>1, <1>2
    <2>3. DOMAIN q = 1..Len(q)
      OBVIOUS
    <2> QED
      BY <2>1, <2>2, <2>3 DEF NaksIn
  <1>4. IsFiniteSet(T)
    BY NaksAreFinite
  <1> HIDE DEF S, T
  <1>5. f \in Injection(S, T)
    <2>1. f \in [S -> T]
      BY <1>3
    <2>2. \A a, b \in S : f[a] = f[b] => a = b
      BY <1>2
    <2> HIDE DEF f
    <2> QED
      BY <2>1, <2>2 DEF Injection, IsInjective
  <1>6. Cardinality(S) <= Cardinality(T)
    BY <1>4, <1>5, FS_Injection
  <1> QED
    BY <1>6 DEF S, T

\* A packet that is no failure of id comes in.
LEMMA NaksEnqueue ==
    ASSUME NEW s \in NodeState, NEW p \in Packet, NEW id,
           ~(p.error /\ p.request = id)
    PROVE  Cardinality(NaksIn(Enqueue(s, p).inbox, id)) <=
              Cardinality(NaksIn(s.inbox, id))
  <1> DEFINE q == s.inbox
             r == IF Len(q) < MaxInbox THEN q ELSE Tail(q)
             h == Append(r, p)
  <1>1. Enqueue(s, p).inbox = h
    BY DEF Enqueue, NodeState
  <1>2. q \in Seq(Packet)
    BY DEF NodeState
  <1> HIDE DEF q
  <1>3. /\ r \in Seq(Packet)
        /\ Cardinality(NaksIn(r, id)) <= Cardinality(NaksIn(q, id))
    <2>1. CASE Len(q) < MaxInbox
      <3>1. Cardinality(NaksIn(q, id)) \in Nat
        BY <1>2, NaksAreFinite
      <3> QED
        BY <1>2, <2>1, <3>1
    <2>2. CASE ~(Len(q) < MaxInbox)
      <3>1. q # <<>>
        BY <1>2, <2>2, Constants
      <3>2. Tail(q) \in Seq(Packet)
        BY <1>2, <3>1, Dropped
      <3>3. Cardinality(NaksIn(Tail(q), id)) <= Cardinality(NaksIn(q, id))
        BY <1>2, <3>1, NaksTail
      <3> QED
        BY <2>2, <3>2, <3>3
    <2> QED
      BY <2>1, <2>2
  <1> HIDE DEF r
  <1>4. NaksIn(h, id) = NaksIn(r, id)
    <2>1. /\ h \in Seq(Packet) /\ Len(h) = Len(r) + 1 /\ h[Len(r) + 1] = p
          /\ \A i \in 1..Len(r) : h[i] = r[i]
      BY <1>3, Appended
    <2>2. DOMAIN r = 1..Len(r) /\ Len(r) \in Nat
      BY <1>3
    <2> HIDE DEF h
    <2>3. DOMAIN h = 1..Len(r) \cup {Len(r) + 1}
      BY <2>1, <2>2
    <2> QED
      BY <2>1, <2>2, <2>3 DEF NaksIn
  <1> HIDE DEF h
  <1> QED
    BY <1>1, <1>3, <1>4 DEF q

\* No step of any node adds a failure of a packet that has arrived.
NoMoreNaks(m, id) ==
    Cardinality(NaksFor(node'[m], id)) <= Cardinality(NaksFor(node[m], id))

Arrived(m, id) == <<id, "ack">> \in told[m] \/ <<id, "implicit">> \in told[m]

LEMMA SameInbox ==
    ASSUME IInv, NEW m \in Nodes, NEW id, node'[m].inbox = node[m].inbox
    PROVE  NoMoreNaks(m, id)
  <1>1. node[m].inbox \in Seq(Packet)
    BY DEF IInv, Typed, NodeState
  <1>2. Cardinality(NaksIn(node[m].inbox, id)) \in Nat
    BY <1>1, NaksAreFinite
  <1>3. NaksFor(node'[m], id) = NaksFor(node[m], id)
        /\ NaksFor(node[m], id) = NaksIn(node[m].inbox, id)
    BY DEF NaksFor, NaksIn
  <1> QED
    BY <1>2, <1>3 DEF NoMoreNaks

LEMMA OtherInbox ==
    ASSUME IInv, NEW m \in Nodes, NEW id, NEW x \in Packet,
           node'[m].inbox = Enqueue(node[m], x).inbox, ~(x.error /\ x.request = id)
    PROVE  NoMoreNaks(m, id)
  <1>1. node[m] \in NodeState
    BY DEF IInv, Typed
  <1>2. Cardinality(NaksIn(Enqueue(node[m], x).inbox, id)) <=
           Cardinality(NaksIn(node[m].inbox, id))
    BY <1>1, NaksEnqueue
  <1>3. /\ NaksFor(node'[m], id) = NaksIn(Enqueue(node[m], x).inbox, id)
        /\ NaksFor(node[m], id) = NaksIn(node[m].inbox, id)
    BY DEF NaksFor, NaksIn
  <1> QED
    BY <1>2, <1>3 DEF NoMoreNaks

LEMMA HandleNaks ==
    ASSUME IInv, NEW n \in Nodes, Handle(n),
           NEW m \in Nodes, NEW id
    PROVE  NoMoreNaks(m, id)
  <1> DEFINE s == node[n]
             p == Head(s.inbox)
             t == [s EXCEPT !.inbox = Tail(s.inbox)]
  <1>1. PICK C : Sound(C, node, sent, got, told)
    BY DEF IInv
  <1>2. Typed
    BY DEF IInv
  <1>3. /\ \E w : /\ node' = [node EXCEPT ![n] = w]
                  /\ Outcome(n, t, w, p, C, got'[n], told'[n], sent[n])
        /\ t.inbox = Tail(s.inbox)
    BY <1>1, <1>2, HandleOutcome
  <1>4. PICK w : /\ node' = [node EXCEPT ![n] = w]
                 /\ w.inbox = t.inbox \/ ToldItself(t, w)
    BY <1>3 DEF Outcome
  <1>5. s \in NodeState /\ s.inbox \in Seq(Packet) /\ s.inbox # <<>>
    BY <1>2 DEF Typed, NodeState, Handle
  <1>6. Tail(s.inbox) \in Seq(Packet)
    BY <1>5, Dropped
  <1>7. t \in NodeState
    BY <1>5, <1>6 DEF NodeState
  <1>8. Cardinality(NaksIn(t.inbox, id)) <= Cardinality(NaksIn(s.inbox, id))
    BY <1>3, <1>5, NaksTail
  <1>9. /\ Cardinality(NaksIn(s.inbox, id)) \in Nat
        /\ Cardinality(NaksIn(t.inbox, id)) \in Nat
    BY <1>3, <1>5, <1>6, NaksAreFinite
  <1>10. CASE m # n
    <2>1. node'[m] = node[m]
      BY <1>2, <1>4, <1>10 DEF Typed
    <2> QED
      BY <2>1, SameInbox
  <1>11. CASE m = n
    <2>1. node'[n] = w
      BY <1>2, <1>4 DEF Typed
    <2>2. Cardinality(NaksIn(w.inbox, id)) <= Cardinality(NaksIn(t.inbox, id))
      <3> HIDE DEF t
      <3>1. CASE w.inbox = t.inbox
        BY <1>9, <3>1
      <3>2. CASE ToldItself(t, w)
        <4>1. PICK x \in Packet : ~x.error /\ w.inbox = Enqueue(t, x).inbox
          BY <3>2 DEF ToldItself
        <4>2. w.inbox = Enqueue(t, x).inbox /\ ~(x.error /\ x.request = id)
          BY <4>1
        <4>3. Cardinality(NaksIn(Enqueue(t, x).inbox, id)) <=
                 Cardinality(NaksIn(t.inbox, id))
          BY <1>7, <4>2, NaksEnqueue
        <4> QED
          BY <4>2, <4>3
      <3> QED
        BY <1>4, <3>1, <3>2
    <2>3. IsFiniteSet(NaksIn(w.inbox, id)) /\ Cardinality(NaksIn(w.inbox, id)) \in Nat
      <3>1. w \in NodeState
        <4>1. PICK v : /\ node' = [node EXCEPT ![n] = v]
                       /\ Outcome(n, t, v, p, C, got'[n], told'[n], sent[n])
          BY <1>3
        <4>2. node'[n] = v
          BY <1>2, <4>1 DEF Typed
        <4> QED
          BY <2>1, <4>1, <4>2 DEF Outcome
      <3>2. w.inbox \in Seq(Packet)
        BY <3>1 DEF NodeState
      <3> QED
        BY <3>2, NaksAreFinite
    <2>4. /\ NaksFor(node'[m], id) = NaksIn(w.inbox, id)
          /\ NaksFor(node[m], id) = NaksIn(s.inbox, id)
      BY <1>11, <2>1 DEF NaksFor, NaksIn
    <2> HIDE DEF s, t
    <2>5. Cardinality(NaksIn(w.inbox, id)) <= Cardinality(NaksIn(s.inbox, id))
      BY <1>8, <1>9, <2>2, <2>3
    <2> QED
      BY <2>4, <2>5 DEF NoMoreNaks
  <1> QED
    BY <1>10, <1>11

LEMMA RetransmitNaks ==
    ASSUME IInv, NEW n \in Nodes, NEW key \in DOMAIN node[n].pending,
           Retransmit(n, key), NEW m \in Nodes, NEW id, Arrived(m, id)
    PROVE  NoMoreNaks(m, id)
  <1>1. PICK C : Sound(C, node, sent, got, told)
    BY DEF IInv
  <1>2. Typed
    BY DEF IInv
  <1> DEFINE s == node[n]
             H == HistoryKeys(n, C, got[n])
             K == PendingKeys(n, told[n])
  <1>3. PICK w : /\ node' = [node EXCEPT ![n] = w]
                 /\ \/ Kept(n, s, w, C, H, K)
                    \/ \E i \in Nat :
                          /\ key = <<n, i>>
                          /\ Grown(n, s, w, FailureCore(n, s, i), C, H, K)
                          /\ \E x \in Packet :
                                /\ x.error /\ x.request = i
                                /\ w.inbox = Enqueue(s, x).inbox
    BY <1>1, <1>2, RetransmitOutcome
  <1>4. /\ node'[n] = w
        /\ m # n => node'[m] = node[m]
    BY <1>2, <1>3 DEF Typed
  <1>5. CASE m # n
    BY <1>4, <1>5, SameInbox
  <1>6. CASE m = n /\ Kept(n, s, w, C, H, K)
    <2>1. node'[m].inbox = node[m].inbox
      BY <1>4, <1>6 DEF Kept, Same
    <2> QED
      BY <2>1, SameInbox
  <1>7. CASE m = n /\ \E i \in Nat : /\ key = <<n, i>>
                                     /\ \E x \in Packet :
                                           /\ x.error /\ x.request = i
                                           /\ w.inbox = Enqueue(s, x).inbox
    <2>1. PICK i \in Nat, x \in Packet : /\ key = <<n, i>> /\ x.request = i
                                         /\ w.inbox = Enqueue(s, x).inbox
      BY <1>7
    <2>2. Good(n, s, C, H, K)
      BY <1>1, Seqs
    <2>3. key \in K
      BY <2>2 DEF Good
    <2>4. i # id
      BY <1>7, <2>1, <2>3 DEF K, PendingKeys, Arrived
    <2>5. /\ node'[m].inbox = Enqueue(node[m], x).inbox
          /\ ~(x.error /\ x.request = id)
      BY <1>4, <1>7, <2>1, <2>4
    <2> QED
      BY <2>5, OtherInbox
  <1> QED
    BY <1>3, <1>5, <1>6, <1>7

LEMMA OnAirNaks ==
    ASSUME IInv, NEW n \in Nodes, NEW i \in DOMAIN node[n].tx,
           NEW heard \in SUBSET Neighbours(n), OnAir(n, i, heard),
           NEW m \in Nodes, NEW id
    PROVE  NoMoreNaks(m, id)
  <1>1. PICK C : Sound(C, node, sent, got, told)
    BY DEF IInv
  <1>2. node[n] \in NodeState /\ node[n].tx \in Seq(Packet)
    BY DEF IInv, Typed, NodeState
  <1> DEFINE x == node[n].tx[i]
  <1>3. InTheAir(x, C)
    <2>1. PICK H, K : Good(n, node[n], C, H, K)
      BY <1>1, Seqs
    <2>2. i \in 1..Len(node[n].tx)
      BY <1>2
    <2> QED
      BY <2>1, <2>2 DEF Good
  <1>4. x \in Packet /\ ~x.error
    <2>1. x \in Packet /\ Core(x) \in C /\ x.to # x.from
      BY <1>3 DEF InTheAir
    <2>2. PICK c \in C : c.error = x.error /\ c.to = x.to /\ c.from = x.from
      BY <2>1 DEF Core
    <2> QED
      BY <1>1, <2>1, <2>2 DEF Sound, Made
  <1>5. node'[m] = IF m = n THEN [node[n] EXCEPT !.tx = RemoveAt(node[n].tx, i)]
                   ELSE IF m \in heard THEN Enqueue(node[m], x) ELSE node[m]
    BY DEF OnAir
  <1>6. CASE m = n \/ m \notin heard
    <2>1. node'[m].inbox = node[m].inbox
      BY <1>2, <1>5, <1>6 DEF NodeState
    <2> QED
      BY <2>1, SameInbox
  <1>7. CASE m # n /\ m \in heard
    <2>1. node'[m].inbox = Enqueue(node[m], x).inbox /\ ~(x.error /\ x.request = id)
      BY <1>4, <1>5, <1>7
    <2> HIDE DEF x
    <2> QED
      BY <1>4, <2>1, OtherInbox
  <1> QED
    BY <1>6, <1>7

\* NoNakOnceAcked: an acknowledgement stops the retransmissions, and with them
\* the timer that would report MAX_RETRANSMIT.
THEOREM AckIsFinal == Spec => NoNakOnceAcked
  <1> DEFINE Step == \A n \in Nodes : \A id \in sent[n] :
                        (\E v \in {"ack", "implicit"} : <<id, v>> \in told[n])
                           => Cardinality(NaksFor(node'[n], id)) <=
                                 Cardinality(NaksFor(node[n], id))
  <1>1. IInv /\ [Next]_vars => [Step]_vars
    <2> SUFFICES ASSUME IInv, Next, NEW m \in Nodes, NEW id \in sent[m], Arrived(m, id)
                 PROVE  NoMoreNaks(m, id)
      BY DEF Arrived, NoMoreNaks
    <2>1. ASSUME NEW n \in Nodes, NEW to \in Dests, NEW text \in Texts(to),
                 Submit(n, to, text)
          PROVE  NoMoreNaks(m, id)
      <3>1. \A k \in Nodes : node'[k].inbox = node[k].inbox
        BY <2>1, SubmitStep
      <3> QED
        BY <3>1, SameInbox
    <2>2. ASSUME NEW n \in Nodes, Handle(n) PROVE NoMoreNaks(m, id)
      BY <2>2, HandleNaks
    <2>3. ASSUME NEW n \in Nodes, NEW key \in DOMAIN node[n].pending,
                 Retransmit(n, key)
          PROVE  NoMoreNaks(m, id)
      BY <2>3, RetransmitNaks
    <2>4. ASSUME NEW n \in Nodes, NEW i \in DOMAIN node[n].tx,
                 NEW heard \in SUBSET Neighbours(n), OnAir(n, i, heard)
          PROVE  NoMoreNaks(m, id)
      BY <2>4, OnAirNaks
    <2>5. CASE UNCHANGED vars
      BY <2>5, SameInbox DEF vars
    <2> QED
      BY <2>1, <2>2, <2>3, <2>4, <2>5 DEF Next, Work, Rest
  <1>2. NoNakOnceAcked <=> [][Step]_vars
    BY DEF NoNakOnceAcked
  <1> HIDE DEF Step
  <1> QED
    BY Invariance, <1>1, <1>2, PTL DEF Spec

----------------------------------------------------------------------------
(* What becomes of the packets a node has sent itself *)

\* What n repeats in s, it still repeats in t, but for the packet k.
StillBut(s, t, k) == DOMAIN s.pending \ {k} \subseteq DOMAIN t.pending
Still(s, t) == DOMAIN s.pending \subseteq DOMAIN t.pending

LEMMA RebroadcastStill ==
    ASSUME NEW n \in Nodes, NEW s, NEW C, NEW H, NEW K, Good(n, s, C, H, K),
           NEW p, Received(n, p, C, H, K)
    PROVE  Still(s, Rebroadcast(n, s, p))
  <1> DEFINE q == Decremented(n, p)
  <1>1. CASE ~Relayable(n, p)
    BY <1>1 DEF Rebroadcast, Still
  <1>2. CASE Relayable(n, p)
    <2>1. /\ p \in Packet /\ Core(p) \in C /\ Aired(p)
          /\ p.to # n /\ p.from # n /\ p.to # p.from
          /\ Key(p) \in H /\ Key(p) \in K
      BY <1>2 DEF Received, Incoming, Relayable, Mine
    <2>2. p.hop \in Nat /\ p.hop > 0 /\ p.hopStart \in Nat
      BY <1>2, <2>1, PacketFields DEF Relayable
    <2>3. /\ q \in Packet /\ q.from = p.from /\ q.to = p.to /\ q.id = p.id
          /\ q.request = p.request /\ q.error = p.error
          /\ q.hopStart = p.hopStart
          /\ q.hop = p.hop - 1 \/ (q.hop = p.hop /\ ~IsRepeated(p))
      <3>1. q \in {p, [p EXCEPT !.hop = p.hop - 1]}
            /\ (IsRepeated(p) => q = [p EXCEPT !.hop = p.hop - 1])
        BY DEF Decremented
      <3> QED
        BY <2>1, <2>2, <3>1 DEF Packet
    <2>4. q.hopStart = 0 \/ q.hop < q.hopStart
      BY <2>1, <2>2, <2>3 DEF Aired, IsRepeated
    <2>5. Rebroadcast(n, s, p) = IF p.nextHop = None THEN Flood(n, s, q)
                                 ELSE HopSend(n, s, q)
      BY <1>2 DEF Rebroadcast
    <2> HIDE DEF q
    <2>6. Core(q) = Core(p) /\ Key(q) = Key(p)
      BY <2>3 DEF Core, Key
    <2>7. Sendable(n, q, C) /\ Key(q) \in H /\ Key(q) \in K
      <3>1. Sendable(n, q, C)
        BY <2>1, <2>3, <2>4, <2>6 DEF Sendable
      <3> QED
        BY <2>1, <2>6, <3>1
    <2>8. Flood(n, s, q).pending = s.pending
      BY <2>7, FloodGood
    <2>9. DOMAIN s.pending \subseteq DOMAIN HopSend(n, s, q).pending
      BY <2>7, HopSendGood
    <2> QED
      BY <2>5, <2>8, <2>9 DEF Still
  <1> QED
    BY <1>1, <1>2

\* A packet of our own that wants an acknowledgement is repeated.
LEMMA ReliableSendStill ==
    ASSUME NEW n \in Nodes, NEW s, NEW C, NEW H, NEW K, Good(n, s, C, H, K),
           NEW p, Sendable(n, p, C), p.from = n, Key(p) \in H, Key(p) \in K
    PROVE  /\ Still(s, ReliableSend(n, s, p))
           /\ p.wantAck => Key(p) \in DOMAIN ReliableSend(n, s, p).pending
  <1> DEFINE q == IF p.wantAck /\ p.hop = 0 THEN [p EXCEPT !.hop = HopLimit] ELSE p
             t == IF p.wantAck THEN StartRetransmission(n, s, q, ReliableRetx) ELSE s
  <1>0. Key(p) \in H /\ Key(p) \in K /\ p \in Packet
    BY DEF Sendable
  <1>1. Sendable(n, q, C) /\ Key(q) = Key(p)
    <2>1. CASE p.wantAck /\ p.hop = 0
      <3>1. /\ q \in Packet /\ q.from = p.from /\ q.to = p.to /\ q.id = p.id
            /\ q.request = p.request /\ q.error = p.error /\ q.hopStart = p.hopStart
        BY <1>0, <2>1, Constants DEF Packet
      <3>2. q.from # n => q.hopStart = 0 \/ q.hop < q.hopStart
        BY <3>1
      <3> HIDE DEF q
      <3>3. Core(q) = Core(p) /\ Key(q) = Key(p)
        BY <3>1 DEF Core, Key
      <3> QED
        BY <3>1, <3>2, <3>3 DEF Sendable
    <2>2. CASE ~(p.wantAck /\ p.hop = 0)
      BY <2>2
    <2> QED
      BY <2>1, <2>2
  <1>2. ReliableSend(n, s, p) = IF p.to = Broadcast THEN Flood(n, t, q)
                                ELSE HopSend(n, t, q)
    BY DEF ReliableSend
  <1> HIDE DEF q
  <1>3. /\ Good(n, t, C, H, K) /\ DOMAIN s.pending \subseteq DOMAIN t.pending
        /\ p.wantAck => Key(p) \in DOMAIN t.pending
    <2>1. ReliableRetx \in 1..ReliableRetx
      BY Constants
    <2>2. /\ Good(n, StartRetransmission(n, s, q, ReliableRetx), C, H, K)
          /\ DOMAIN StartRetransmission(n, s, q, ReliableRetx).pending =
                DOMAIN s.pending \cup {Key(q)}
      BY <1>0, <1>1, <2>1, StartGood
    <2> QED
      BY <1>1, <2>2
  <1> HIDE DEF t
  <1>4. Flood(n, t, q).pending = t.pending
    BY <1>0, <1>1, <1>3, FloodGood
  <1>5. DOMAIN t.pending \subseteq DOMAIN HopSend(n, t, q).pending
    BY <1>0, <1>1, <1>3, HopSendGood
  <1> QED
    BY <1>2, <1>3, <1>4, <1>5 DEF Still

\* x is a verdict that n hands to itself as if it had been received.
Echo(n, x) == x.from = n /\ x.to = n

\* n has handed itself the verdict on its packet id.
Hands(n, s, t, id) ==
    \E x \in Packet : /\ Echo(n, x) /\ x.id = s.seq + 1 /\ x.request = id
                      /\ t.inbox = Enqueue(s, x).inbox

LEMMA SendAckNakStill ==
    ASSUME NEW n \in Nodes, NEW s, NEW C, NEW H, NEW K, Good(n, s, C, H, K),
           NEW to \in Nodes, NEW request \in Nat, NEW hops \in Nat,
           NEW wantAck \in BOOLEAN, NEW error \in BOOLEAN, to = n => ~wantAck,
           NextCore(n, s, to, request, error) \in C,
           NextKey(n, s) \in H, NextKey(n, s) \in K
    PROVE  LET u == SendAckNak(n, s, to, request, hops, wantAck, error)
           IN  /\ Still(s, u)
               /\ to = n => Hands(n, s, u, request) /\ u.history = s.history
  <1> DEFINE p == [from |-> n, to |-> to, id |-> s.seq + 1, request |-> request,
                   hopStart |-> 0, hop |-> hops, relay |-> None, nextHop |-> None,
                   wantAck |-> wantAck, text |-> FALSE, error |-> error]
             t == [s EXCEPT !.seq = s.seq + 1]
             u == SendAckNak(n, s, to, request, hops, wantAck, error)
  <1>1. s.seq \in Nat /\ s.seq + 1 \in Nat
    <2>1. s.seq \in Nat
      BY GoodState
    <2> QED
      BY <2>1
  <1>2. /\ Good(n, t, C, H, K) /\ t.inbox = s.inbox
        /\ t.pending = s.pending /\ t.history = s.history
    BY <1>1, GoodSeq
  <1>3. /\ p \in Packet /\ p.from = n /\ p.to = to /\ p.id = s.seq + 1
        /\ p.request = request /\ p.error = error /\ p.hopStart = 0
        /\ p.nextHop = None /\ p.wantAck = wantAck /\ p.relay = None
    BY <1>1 DEF Packet
  <1>4. u = IF to = n THEN Enqueue(t, p) ELSE ReliableSend(n, t, p)
    BY DEF SendAckNak
  <1>5. Core(p) \in C /\ Key(p) = NextKey(n, s)
    BY DEF Core, NextCore, Key, NextKey
  <1>6. Enqueue(t, p).inbox = Enqueue(s, p).inbox
    <2>1. s \in NodeState
      BY DEF Good
    <2> HIDE DEF p
    <2>2. t \in NodeState
      BY <1>2 DEF Good
    <2> HIDE DEF t
    <2> QED
      BY <1>2, <2>1, <2>2 DEF Enqueue, NodeState
  <1> HIDE DEF p, t, u
  <1>7. CASE to = n
    <2>1. Incoming(n, p, C)
      BY <1>3, <1>5, <1>7 DEF Incoming, Aired, IsRepeated
    <2>2. /\ Enqueue(t, p).pending = t.pending
          /\ Enqueue(t, p).history = t.history
      BY <1>2, <2>1, EnqueueGood
    <2>3. Still(s, u)
      BY <1>2, <1>4, <1>7, <2>2 DEF Still
    <2>4. Hands(n, s, u, request) /\ u.history = s.history
      BY <1>2, <1>3, <1>4, <1>6, <1>7, <2>2 DEF Hands, Echo
    <2> QED
      BY <2>3, <2>4 DEF u
  <1>8. CASE to # n
    <2>1. Sendable(n, p, C)
      BY <1>3, <1>5, <1>8 DEF Sendable
    <2>2. Still(t, ReliableSend(n, t, p))
      BY <1>2, <1>3, <1>5, <2>1, ReliableSendStill
    <2>3. Still(s, u)
      BY <1>2, <1>4, <1>8, <2>2 DEF Still
    <2> QED
      BY <1>8, <2>3 DEF u
  <1> QED
    BY <1>7, <1>8


LEMMA ReplyStill ==
    ASSUME NEW n \in Nodes, NEW s, NEW C, NEW H, NEW K, Good(n, s, C, H, K),
           NEW p, Received(n, p, C, H, K), NextKey(n, s) \in K,
           p.from # n, NEW hops \in Nat, NEW wantAck \in BOOLEAN
    PROVE  Still(s, Reply(n, s, p, hops, wantAck))
  <1> DEFINE D == C \cup {ReplyCore(n, s, p)}
             I == H \cup {NextKey(n, s)}
  <1>1. PICK to \in Nodes, id \in Nat, error \in BOOLEAN :
           to = p.from /\ id = p.id /\ error = FALSE
    <2>1. p.from \in Nodes /\ p.id \in Nat
      BY PacketFields DEF Received, Incoming
    <2> QED
      BY <2>1
  <1>2. /\ NextCore(n, s, to, id, error) \in D /\ NextKey(n, s) \in I
        /\ C \subseteq D /\ H \subseteq I /\ (to = n => ~wantAck)
    BY <1>1 DEF ReplyCore
  <1> HIDE DEF D, I
  <1>3. Good(n, s, D, I, K)
    BY <1>2, GoodMore
  <1>4. Still(s, SendAckNak(n, s, to, id, hops, wantAck, error))
    BY <1>2, <1>3, SendAckNakStill
  <1> QED
    BY <1>1, <1>4 DEF Reply

LEMMA CancelDupeStill ==
    ASSUME NEW n \in Nodes, NEW s, NEW C, NEW H, NEW K, Good(n, s, C, H, K), NEW p
    PROVE  Still(s, CancelDupe(n, s, p))
  <1>1. Cancel(n, s, Key(p)).pending = s.pending
    BY CancelGood
  <1> QED
    BY <1>1 DEF CancelDupe, Still

\* A copy of a packet ends only the retransmission of that packet.
LEMMA FilterStill ==
    ASSUME NEW n \in Nodes, NEW s, NEW C, NEW H, NEW K, Good(n, s, C, H, K),
           NEW p, Received(n, p, C, H, K), NextKey(n, s) \in K, NEW r
    PROVE  StillBut(s, Filter(n, s, r, p), Key(p))
  <1> DEFINE t == [s EXCEPT !.tx = RemoveAt(s.tx, Worse(s, p))]
             u == StopRetransmission(n, s, Key(p))
             up == IsUpgrade([s EXCEPT !.history[Key(p)] = r], p)
  <1>1. Filter(n, s, r, p) = IF up THEN Rebroadcast(n, t, p)
                             ELSE IF p.to = Broadcast THEN Duplicate(n, s, p)
                             ELSE DuplicateDM(n, s, r, p)
    BY DEF Filter
  <1>2. ASSUME up PROVE Still(s, Rebroadcast(n, t, p))
    <2> DEFINE I == {i \in 1..Len(s.tx) : Key(s.tx[i]) = Key(p) /\ s.tx[i].hop < p.hop}
    <2>1. s \in NodeState /\ s.tx \in Seq(Packet)
      BY GoodState DEF Good
    <2>2. Worse(s, p) # 0
      <3> DEFINE v == [s EXCEPT !.history[Key(p)] = r]
      <3>1. v.tx = s.tx
        BY <2>1 DEF NodeState
      <3>2. Worse(v, p) # 0
        BY <1>2 DEF IsUpgrade
      <3> QED
        BY <3>1, <3>2 DEF Worse
    <2>3. Worse(s, p) = IF I # {} THEN Min(I) ELSE 0
      BY DEF Worse, SelectInSeq
    <2>4. Worse(s, p) \in 1..Len(s.tx)
      <3>1. I \subseteq Nat /\ I # {} /\ I \subseteq 1..Len(s.tx)
        BY <2>1, <2>2, <2>3
      <3>2. Min(I) \in I
        BY <3>1, MinIsLeast
      <3> QED
        BY <2>3, <3>1, <3>2
    <2> HIDE DEF I
    <2>5. \A i \in 1..Len(s.tx) : InTheAir(s.tx[i], C)
      BY DEF Good
    <2> DEFINE rest == RemoveAt(s.tx, Worse(s, p))
    <2>6. rest \in Seq(Packet) /\ \A i \in 1..Len(rest) : InTheAir(rest[i], C)
      <3>1. PICK k \in 1..Len(s.tx) : k = Worse(s, p)
        BY <2>4
      <3>2. /\ RemoveAt(s.tx, k) \in Seq(Packet)
            /\ \A j \in 1..Len(RemoveAt(s.tx, k)) :
                  \E i \in 1..Len(s.tx) : RemoveAt(s.tx, k)[j] = s.tx[i]
        BY <2>1, Removed
      <3> QED
        BY <2>5, <3>1, <3>2
    <2> HIDE DEF rest
    <2>7. /\ Good(n, [s EXCEPT !.tx = rest], C, H, K)
          /\ [s EXCEPT !.tx = rest].pending = s.pending
      BY <2>6, GoodTx
    <2>8. Good(n, t, C, H, K) /\ t.pending = s.pending
      BY <2>7 DEF rest
    <2> HIDE DEF t
    <2>9. Still(t, Rebroadcast(n, t, p))
      BY <2>8, RebroadcastStill
    <2> QED
      BY <2>8, <2>9 DEF Still
  <1>3. Still(s, Duplicate(n, s, p))
    BY RebroadcastStill, CancelDupeStill DEF Duplicate, Still
  <1>4. StillBut(s, DuplicateDM(n, s, r, p), Key(p))
    <2>1. /\ Good(n, u, C, H, K) /\ Same(s, u)
          /\ u.pending = Without(s.pending, Key(p))
      BY StopGood
    <2>2. \/ DuplicateDM(n, s, r, p) = u
          \/ DuplicateDM(n, s, r, p) = Rebroadcast(n, u, p)
          \/ DuplicateDM(n, s, r, p) = CancelDupe(n, u, p)
          \/ /\ p.to = n /\ p.wantAck
             /\ DuplicateDM(n, s, r, p) = Reply(n, u, p, 0, FALSE)
      BY DEF DuplicateDM, Reply
    <2> HIDE DEF u
    <2>3. DOMAIN u.pending = DOMAIN s.pending \ {Key(p)}
      BY <2>1 DEF Without
    <2>4. Still(u, u) /\ Still(u, Rebroadcast(n, u, p)) /\ Still(u, CancelDupe(n, u, p))
      BY <2>1, RebroadcastStill, CancelDupeStill DEF Still
    <2>5. ASSUME p.to = n, p.wantAck PROVE Still(u, Reply(n, u, p, 0, FALSE))
      <3>1. p.from # n
        BY <2>5 DEF Received, Incoming
      <3>2. NextKey(n, u) \in K
        BY <2>1 DEF Same, NextKey
      <3>3. PICK hops \in Nat, w \in BOOLEAN : hops = 0 /\ w = FALSE
        OBVIOUS
      <3>4. Still(u, Reply(n, u, p, hops, w))
        BY <2>1, <3>1, <3>2, ReplyStill
      <3> QED
        BY <3>3, <3>4
    <2>6. Still(u, DuplicateDM(n, s, r, p))
      BY <2>2, <2>4, <2>5
    <2> QED
      BY <2>3, <2>6 DEF Still, StillBut
  <1> HIDE DEF up, t, u
  <1>5. \A v : Still(s, v) => StillBut(s, v, Key(p))
    BY DEF Still, StillBut
  <1> QED
    BY <1>1, <1>2, <1>3, <1>4, <1>5

LEMMA AnswerStill ==
    ASSUME NEW n \in Nodes, NEW s, NEW C, NEW H, NEW K, Good(n, s, C, H, K),
           NEW p, Received(n, p, C, H, K), NextKey(n, s) \in K
    PROVE  Still(s, Answer(n, s, p))
  <1>1. ResponseHops(p) \in Nat
    BY HopsAreNumbers DEF Received, Incoming
  <1>2. CASE Answer(n, s, p) = s
    BY <1>2 DEF Still
  <1>3. CASE Answer(n, s, p) # s
    <2>1. PICK hops \in Nat, w \in BOOLEAN : Answer(n, s, p) = Reply(n, s, p, hops, w)
      <3>1. \/ Answer(n, s, p) = Reply(n, s, p, ResponseHops(p), TRUE)
            \/ Answer(n, s, p) = Reply(n, s, p, ResponseHops(p), FALSE)
            \/ Answer(n, s, p) = Reply(n, s, p, 0, FALSE)
        BY <1>3 DEF Answer, Reply
      <3> QED
        BY <1>1, <3>1
    <2>2. p.from # n
      <3> SUFFICES ASSUME p.from = n PROVE FALSE
        OBVIOUS
      <3>1. p.to = n /\ (p.wantAck \/ p.nextHop = n)
        BY <1>3 DEF Answer
      <3>2. ~p.wantAck /\ p.nextHop = None
        BY <3>1 DEF Received, Incoming
      <3> QED
        BY <3>1, <3>2, Constants
    <2>3. Still(s, Reply(n, s, p, hops, w))
      BY <2>2, ReplyStill
    <2> QED
      BY <2>1, <2>3
  <1> QED
    BY <1>2, <1>3

\* Of its own packets, n stops to repeat only the one that p answers.
LEMMA SniffStill ==
    ASSUME NEW n \in Nodes, NEW s, NEW C, NEW H, NEW K, Good(n, s, C, H, K),
           NEW p, Received(n, p, C, H, K), NextKey(n, s) \in K,
           NEW k \in DOMAIN s.pending, k[1] = n,
           ~(p.to = n /\ p.request # 0 /\ k = <<n, p.request>>)
    PROVE  k \in DOMAIN Sniff(n, s, p).pending
  <1> DEFINE a == Answer(n, s, p)
             t == Acknowledged(n, a, p)
             u == IF p.to = Broadcast THEN t ELSE Learned(n, t, p)
             v == Overheard(n, u, p)
             w == Rebroadcast(n, v, p)
  <1>1. Sniff(n, s, p) = w
    BY DEF Sniff
  <1>2. p \in Packet
    BY DEF Received, Incoming
  <1>3. k \in DOMAIN a.pending
    BY AnswerStill DEF Still
  <1>4. PICK D, I : C \subseteq D /\ H \subseteq I /\ Good(n, a, D, I, K)
    <2>1. Answered(n, s, a, p, C, H, K)
      BY AnswerGood
    <2> HIDE DEF a
    <2>2. CASE Good(n, a, C, H, K)
      BY <2>2
    <2>3. CASE Good(n, a, C \cup {ReplyCore(n, s, p)}, H \cup {NextKey(n, s)}, K)
      BY <2>3
    <2> QED
      BY <2>1, <2>2, <2>3 DEF Answered, Kept, Grown
  <1> HIDE DEF a
  <1>5. Good(n, t, D, I, K) /\ k \in DOMAIN t.pending
    <2>1. Good(n, t, D, I, K)
      BY <1>4, AcknowledgedGood DEF Kept
    <2>2. StopRetransmission(n, a, <<n, p.request>>).pending =
             Without(a.pending, <<n, p.request>>)
      <3>1. PICK key : key = <<n, p.request>>
        OBVIOUS
      <3>2. Good(n, a, D, I, K)
        BY <1>4
      <3>3. StopRetransmission(n, a, key).pending = Without(a.pending, key)
        BY <3>2, StopGood
      <3> QED
        BY <3>1, <3>3
    <2>3. k \in DOMAIN t.pending
      <3>1. CASE p.to = n /\ p.request # 0
        <4>1. k # <<n, p.request>>
          BY <3>1
        <4>2. t = StopRetransmission(n, a, <<n, p.request>>)
          BY <3>1 DEF Acknowledged
        <4> HIDE DEF t
        <4> QED
          BY <1>3, <2>2, <4>1, <4>2 DEF Without
      <3>2. CASE ~(p.to = n /\ p.request # 0)
        BY <1>3, <3>2 DEF Acknowledged
      <3> QED
        BY <3>1, <3>2
    <2> QED
      BY <2>1, <2>3
  <1> HIDE DEF t
  <1>6. Good(n, u, D, I, K) /\ u.pending = t.pending
    BY <1>2, <1>5, LearnedGood DEF Kept
  <1> HIDE DEF u
  <1>7. Good(n, v, D, I, K) /\ k \in DOMAIN v.pending
    <2> DEFINE key == <<p.to, p.request>>
               c == Cancel(n, u, key)
    <2>1. Good(n, v, D, I, K)
      BY <1>6, OverheardGood DEF Kept
    <2>2. v = u \/ (p.to # n /\ v = StopRetransmission(n, c, key))
      BY DEF Overheard
    <2>3. Good(n, c, D, I, K) /\ c.pending = u.pending
      BY <1>6, CancelGood
    <2> HIDE DEF c, v
    <2>4. StopRetransmission(n, c, key).pending = Without(c.pending, key)
      BY <2>3, StopGood
    <2>5. p.to # n => k # key
      OBVIOUS
    <2> HIDE DEF key
    <2>6. k \in DOMAIN v.pending
      BY <1>5, <1>6, <2>2, <2>3, <2>4, <2>5 DEF Without
    <2> QED
      BY <2>1, <2>6
  <1> HIDE DEF v
  <1>8. Received(n, p, D, I, K)
    BY <1>4, ReceivedMore
  <1>9. Still(v, w)
    BY <1>7, <1>8, RebroadcastStill
  <1> QED
    BY <1>1, <1>7, <1>9 DEF Still


\* n has handed itself the verdict on id, and repeats the packet no more.
Closed(n, s, t, id, C, H, K) ==
    /\ Hands(n, s, t, id) /\ StillBut(s, t, <<n, id>>)
    /\ <<n, id>> \notin DOMAIN t.pending
    /\ DOMAIN t.history = DOMAIN s.history /\ t.seq = s.seq + 1
    /\ \E D : C \subseteq D /\ Good(n, t, D, H, K)

LEMMA ToldAndStopped ==
    ASSUME NEW n \in Nodes, NEW s, NEW C, NEW H, NEW K, Good(n, s, C, H, K),
           NEW id \in Nat, NEW error \in BOOLEAN, NextKey(n, s) \in K
    PROVE  Closed(n, s, StopRetransmission(n,
                     SendAckNak(n, s, n, id, 0, FALSE, error), <<n, id>>), id, C, H, K)
  <1> DEFINE c == NextCore(n, s, n, id, error)
             D == C \cup {c}
             I == H \cup {NextKey(n, s)}
             u == SendAckNak(n, s, n, id, 0, FALSE, error)
             key == <<n, id>>
             t == StopRetransmission(n, u, key)
  <1>1. c \in D /\ NextKey(n, s) \in I /\ C \subseteq D /\ H \subseteq I
    OBVIOUS
  <1> HIDE DEF D, I
  <1>2. Good(n, s, D, I, K)
    BY <1>1, GoodMore
  <1>3. /\ Good(n, u, D, I, K) /\ u.seq = s.seq + 1
        /\ Still(s, u) /\ Hands(n, s, u, id) /\ u.history = s.history
    <2>1. PICK hops \in Nat, w \in BOOLEAN, to \in Nodes :
             hops = 0 /\ w = FALSE /\ to = n
      OBVIOUS
    <2>2. NextCore(n, s, to, id, error) \in D /\ (to = n => ~w)
      BY <1>1, <2>1
    <2>3. /\ Good(n, SendAckNak(n, s, to, id, hops, w, error), D, I, K)
          /\ \E x \in Packet :
                SendsOrTells(n, s, SendAckNak(n, s, to, id, hops, w, error), to, x)
      BY <1>1, <1>2, <2>2, SendAckNakGood
    <2>4. /\ Still(s, SendAckNak(n, s, to, id, hops, w, error))
          /\ to = n => /\ Hands(n, s, SendAckNak(n, s, to, id, hops, w, error), id)
                       /\ SendAckNak(n, s, to, id, hops, w, error).history = s.history
      BY <1>1, <1>2, <2>2, SendAckNakStill
    <2> QED
      BY <2>1, <2>3, <2>4 DEF SendsOrTells
  <1> HIDE DEF u, key
  <1>4. /\ Good(n, t, D, I, K) /\ Same(u, t)
        /\ t.pending = Without(u.pending, key)
        /\ DOMAIN t.history = DOMAIN u.history
    BY <1>3, StopGood
  <1> HIDE DEF t
  <1>5. DOMAIN s.history \subseteq H
    BY DEF Good
  <1>6. Good(n, t, D, H, K)
    BY <1>3, <1>4, <1>5 DEF Good
  <1>7. StillBut(s, t, key) /\ key \notin DOMAIN t.pending
    BY <1>3, <1>4 DEF Still, StillBut, Without
  <1>8. Hands(n, s, t, id) /\ t.seq = s.seq + 1
    BY <1>3, <1>4 DEF Hands, Same
  <1> QED
    BY <1>1, <1>3, <1>4, <1>6, <1>7, <1>8 DEF t, u, key, Closed

\* What n repeats of its own and neither got an answer to nor was told of
LEMMA HandledStill ==
    ASSUME NEW n \in Nodes, NEW s, NEW C, NEW H, NEW K, Good(n, s, C, H, K),
           NEW p, Received(n, p, C, H, K), Unused(n, s, K)
    PROVE  LET w == Handled(n, s, p)
               Stopped(k) == ~Seen(s, p) /\ p.to = n /\ p.request # 0
                                         /\ k = <<n, p.request>>
           IN  \/ /\ w.inbox = s.inbox
                  /\ \A k \in DOMAIN s.pending :
                        k[1] = n => k \in DOMAIN w.pending \/ Stopped(k)
               \/ /\ Hands(n, s, w, p.id) /\ p.from = n /\ DOMAIN w.history \subseteq H
                  /\ \A k \in DOMAIN s.pending :
                        k[1] = n => \/ k \in DOMAIN w.pending \/ Stopped(k)
                                    \/ k = <<n, p.id>>
  <1> DEFINE t == ImplicitAck(n, s, p)
             r == Remember(n, t, p)
             u == Filter(n, r, t.history[Key(p)], p)
             v == Sniff(n, r, p)
             w == Handled(n, s, p)
             Stopped(k) == ~Seen(s, p) /\ p.to = n /\ p.request # 0
                                       /\ k = <<n, p.request>>
  <1>1. w = IF Seen(t, p) THEN u ELSE v
    BY DEF Handled
  <1>2. \A i \in {s.seq, s.seq + 1} : <<n, i + 1>> \in K
    <2>1. s.seq \in Nat
      BY GoodState
    <2> QED
      BY <2>1 DEF Unused
  <1>3. NextKey(n, s) \in K
    BY <1>2 DEF NextKey
  <1>4. p.from \in Nodes /\ p.id \in Nat /\ Key(p) = <<p.from, p.id>> /\ p \in Packet
        /\ Key(p) \in H
    BY PacketFields DEF Received, Incoming, Key
  <1>5. \/ t = s /\ (p.from = n => Key(p) \notin DOMAIN s.pending)
        \/ /\ p.from = n /\ Hands(n, s, t, p.id) /\ StillBut(s, t, Key(p))
           /\ Key(p) \notin DOMAIN t.pending
           /\ DOMAIN t.history = DOMAIN s.history /\ t.seq = s.seq + 1
           /\ \E D : C \subseteq D /\ Good(n, t, D, H, K)
    <2>1. CASE p.from = n /\ Key(p) \in DOMAIN s.pending
      <3>1. PICK id \in Nat, error \in BOOLEAN : id = p.id /\ error = FALSE
        BY <1>4
      <3>2. t = StopRetransmission(n,
                   SendAckNak(n, s, n, id, 0, FALSE, error), <<n, id>>)
        BY <1>4, <2>1, <3>1 DEF ImplicitAck, Mine
      <3>3. Closed(n, s, StopRetransmission(n,
                SendAckNak(n, s, n, id, 0, FALSE, error), <<n, id>>), id, C, H, K)
        BY <1>3, ToldAndStopped
      <3>4. Closed(n, s, t, id, C, H, K)
        BY <3>2, <3>3
      <3> HIDE DEF t
      <3> QED
        BY <1>4, <2>1, <3>1, <3>4 DEF Closed
    <2>2. CASE ~(p.from = n /\ Key(p) \in DOMAIN s.pending)
      BY <2>2 DEF ImplicitAck, Mine
    <2> QED
      BY <2>1, <2>2
  <1>6. /\ (p.from = n => Key(p) \notin DOMAIN t.pending)
        /\ (Seen(t, p) <=> Seen(s, p)) /\ NextKey(n, t) \in K
        /\ \E D : C \subseteq D /\ Good(n, t, D, H, K)
    <2>1. NextKey(n, t) \in K
      <3>1. t.seq \in {s.seq, s.seq + 1}
        BY <1>5
      <3> QED
        BY <1>2, <3>1 DEF NextKey
    <2> HIDE DEF t
    <2> QED
      BY <1>5, <2>1 DEF Seen
  <1> HIDE DEF t
  <1>7. PICK D : C \subseteq D /\ Good(n, t, D, H, K)
    BY <1>6
  <1>8. Received(n, p, D, H, K)
    BY <1>7, ReceivedMore
  <1>9. Good(n, r, D, H, K) /\ Same(t, r) /\ r.pending = t.pending
    BY <1>4, <1>7, RememberGood
  <1> HIDE DEF r
  <1>10. NextKey(n, r) \in K
    BY <1>6, <1>9 DEF Same, NextKey
  <1>11. \A k \in DOMAIN t.pending : k[1] = n => k \in DOMAIN w.pending \/ Stopped(k)
    <2> SUFFICES ASSUME NEW k \in DOMAIN t.pending, k[1] = n, ~Stopped(k)
                 PROVE  k \in DOMAIN w.pending
      OBVIOUS
    <2>1. k \in DOMAIN r.pending
      BY <1>9
    <2>2. CASE Seen(t, p)
      <3>1. k # Key(p)
        <4>1. CASE p.from = n
          BY <1>6, <4>1
        <4>2. CASE p.from # n
          BY <1>4, <4>2
        <4> QED
          BY <4>1, <4>2
      <3>2. StillBut(r, u, Key(p))
        BY <1>8, <1>9, <1>10, FilterStill
      <3> QED
        BY <1>1, <2>1, <2>2, <3>1, <3>2 DEF StillBut
    <2>3. CASE ~Seen(t, p)
      <3>1. ~(p.to = n /\ p.request # 0 /\ k = <<n, p.request>>)
        BY <1>6, <2>3
      <3>2. k \in DOMAIN v.pending
        BY <1>8, <1>9, <1>10, <2>1, <3>1, SniffStill
      <3> QED
        BY <1>1, <2>3, <3>2
    <2> QED
      BY <2>2, <2>3
  <1>12. Answered(n, r, w, p, D, H, K)
    BY <1>1, <1>8, <1>9, <1>10, FilterGood, SniffGood
  <1> HIDE DEF w
  <1>13. CASE t = s
    <2>1. \/ w.inbox = s.inbox
          \/ Kept(n, r, w, D, H, K)
      BY <1>9, <1>12, <1>13 DEF Answered, Same
    <2>2. w.inbox = s.inbox
      BY <1>9, <1>13, <2>1 DEF Kept, Same
    <2> QED
      BY <1>11, <1>13, <2>2 DEF w
  <1>14. CASE p.from = n /\ Hands(n, s, t, p.id) /\ StillBut(s, t, Key(p))
    <2>1. Kept(n, r, w, D, H, K)
      BY <1>12, <1>14 DEF Answered
    <2>2. w.inbox = t.inbox /\ DOMAIN w.history \subseteq H
      BY <1>9, <2>1 DEF Kept, Same, Good
    <2>3. Hands(n, s, w, p.id)
      BY <1>14, <2>2 DEF Hands
    <2>4. \A k \in DOMAIN s.pending :
             k[1] = n => k \in DOMAIN w.pending \/ Stopped(k) \/ k = <<n, p.id>>
      BY <1>4, <1>11, <1>14 DEF StillBut
    <2> QED
      BY <1>14, <2>2, <2>3, <2>4 DEF w
  <1> QED
    BY <1>5, <1>13, <1>14


\* A verdict in the inbox q of n is new to n, whose history has the keys h.
Unheard(n, q, h) ==
    \A i \in 1..Len(q) : Echo(n, q[i]) =>
        /\ Key(q[i]) \notin h
        /\ \A j \in 1..Len(q) : Key(q[j]) = Key(q[i]) => j = i

\* The verdict on the packet id waits in the inbox q of n.
Waits(n, q, id) == \E i \in 1..Len(q) : Echo(n, q[i]) /\ q[i].request = id

LEMMA UnheardTail ==
    ASSUME NEW n, NEW q \in Seq(Packet), q # <<>>, NEW h, Unheard(n, q, h)
    PROVE  /\ Unheard(n, Tail(q), h \cup {Key(Head(q))})
           /\ Echo(n, Head(q)) => Key(Head(q)) \notin h
           /\ \A id : Waits(n, q, id) =>
                 Waits(n, Tail(q), id) \/ (Echo(n, Head(q)) /\ Head(q).request = id)
  <1>1. /\ Tail(q) \in Seq(Packet) /\ Len(Tail(q)) = Len(q) - 1
        /\ Len(q) \in Nat \ {0} /\ Head(q) = q[1]
        /\ \A i \in 1..Len(Tail(q)) : Tail(q)[i] = q[i + 1]
    BY Dropped
  <1> DEFINE t == Tail(q)
  <1>2. \A i \in 1..Len(t) : i + 1 \in 1..Len(q) /\ i + 1 # 1
    BY <1>1
  <1>3. 1 \in 1..Len(q)
    BY <1>1
  <1>4. Unheard(n, t, h \cup {Key(Head(q))})
    <2> SUFFICES ASSUME NEW i \in 1..Len(t), Echo(n, t[i])
                 PROVE  /\ Key(t[i]) \notin h \cup {Key(Head(q))}
                        /\ \A j \in 1..Len(t) : Key(t[j]) = Key(t[i]) => j = i
      BY DEF Unheard
    <2>1. t[i] = q[i + 1] /\ i + 1 \in 1..Len(q) /\ i + 1 # 1
      BY <1>1, <1>2
    <2>2. /\ Key(q[i + 1]) \notin h
          /\ \A j \in 1..Len(q) : Key(q[j]) = Key(q[i + 1]) => j = i + 1
      BY <2>1 DEF Unheard
    <2>3. Key(q[1]) # Key(q[i + 1])
      BY <1>3, <2>1, <2>2
    <2>4. ASSUME NEW j \in 1..Len(t), Key(t[j]) = Key(t[i]) PROVE j = i
      <3>1. t[j] = q[j + 1] /\ j + 1 \in 1..Len(q)
        BY <1>1, <1>2
      <3>2. j + 1 = i + 1
        BY <2>1, <2>2, <2>4, <3>1
      <3> QED
        BY <1>1, <3>2
    <2> QED
      BY <1>1, <2>1, <2>2, <2>3, <2>4
  <1>5. ASSUME Echo(n, Head(q)) PROVE Key(Head(q)) \notin h
    BY <1>1, <1>3, <1>5 DEF Unheard
  <1>6. ASSUME NEW id, Waits(n, q, id)
        PROVE  Waits(n, t, id) \/ (Echo(n, Head(q)) /\ Head(q).request = id)
    <2>1. PICK i \in 1..Len(q) : Echo(n, q[i]) /\ q[i].request = id
      BY <1>6 DEF Waits
    <2>2. CASE i = 1
      BY <1>1, <2>1, <2>2
    <2>3. CASE i # 1
      <3>1. i - 1 \in 1..Len(t) /\ (i - 1) + 1 = i
        BY <1>1, <2>3
      <3>2. t[i - 1] = q[i]
        BY <1>1, <3>1
      <3> HIDE DEF t
      <3> QED
        BY <2>1, <3>1, <3>2 DEF Waits
    <2> QED
      BY <2>2, <2>3
  <1> QED
    BY <1>4, <1>5, <1>6

\* A history with more keys, none of them of a verdict that waits
LEMMA UnheardMore ==
    ASSUME NEW n, NEW q, NEW h, Unheard(n, q, h), NEW g,
           \A i \in 1..Len(q) : Echo(n, q[i]) /\ Key(q[i]) \in g => Key(q[i]) \in h
    PROVE  Unheard(n, q, g)
  BY DEF Unheard

LEMMA UnheardAppend ==
    ASSUME NEW n, NEW q \in Seq(Packet), NEW h, Unheard(n, q, h), NEW x \in Packet,
           Echo(n, x) => Key(x) \notin h,
           \A i \in 1..Len(q) : Key(q[i]) = Key(x) => ~Echo(n, q[i]) /\ ~Echo(n, x)
    PROVE  /\ Unheard(n, Append(q, x), h)
           /\ \A id : Waits(n, q, id) \/ (Echo(n, x) /\ x.request = id) =>
                 Waits(n, Append(q, x), id)
  <1> DEFINE a == Append(q, x)
  <1>1. /\ Len(a) = Len(q) + 1 /\ a[Len(q) + 1] = x /\ Len(q) \in Nat
        /\ \A i \in 1..Len(q) : a[i] = q[i]
    BY Appended
  <1> HIDE DEF a
  <1>2. \A i \in 1..Len(a) : i \in 1..Len(q) \/ i = Len(q) + 1
    BY <1>1
  <1>3. Unheard(n, a, h)
    <2> SUFFICES ASSUME NEW i \in 1..Len(a), Echo(n, a[i])
                 PROVE  /\ Key(a[i]) \notin h
                        /\ \A j \in 1..Len(a) : Key(a[j]) = Key(a[i]) => j = i
      BY DEF Unheard
    <2>1. CASE i \in 1..Len(q)
      <3>1. /\ Echo(n, q[i]) /\ Key(q[i]) \notin h /\ a[i] = q[i]
            /\ \A j \in 1..Len(q) : Key(q[j]) = Key(q[i]) => j = i
        BY <1>1, <2>1 DEF Unheard
      <3> QED
        BY <1>1, <1>2, <2>1, <3>1
    <2>2. CASE i = Len(q) + 1
      BY <1>1, <1>2, <2>2
    <2> QED
      BY <1>2, <2>1, <2>2
  <1>4. ASSUME NEW id, Waits(n, q, id) \/ (Echo(n, x) /\ x.request = id)
        PROVE  Waits(n, a, id)
    <2>1. CASE Waits(n, q, id)
      <3>1. PICK i \in 1..Len(q) : Echo(n, q[i]) /\ q[i].request = id
        BY <2>1 DEF Waits
      <3>2. i \in 1..Len(a) /\ a[i] = q[i]
        BY <1>1
      <3> QED
        BY <3>1, <3>2 DEF Waits
    <2>2. CASE Echo(n, x) /\ x.request = id
      <3>1. Len(q) + 1 \in 1..Len(a)
        BY <1>1
      <3> QED
        BY <1>1, <2>2, <3>1 DEF Waits
    <2> QED
      BY <1>4, <2>1, <2>2
  <1> QED
    BY <1>3, <1>4 DEF a

\* The next packet that comes in discards the verdict n should have been told.
Spills(n) == Len(node[n].inbox) = MaxInbox /\ Echo(n, Head(node[n].inbox))

LEMMA EnqueueWaits ==
    ASSUME NEW n, NEW s \in NodeState, NEW x \in Packet,
           NEW h, Unheard(n, s.inbox, h), Echo(n, x) => Key(x) \notin h,
           Len(s.inbox) <= MaxInbox,
           \A i \in 1..Len(s.inbox) :
              Key(s.inbox[i]) = Key(x) => ~Echo(n, s.inbox[i]) /\ ~Echo(n, x)
    PROVE  /\ Unheard(n, Enqueue(s, x).inbox, h)
           /\ \A id : Waits(n, s.inbox, id) =>
                 \/ Waits(n, Enqueue(s, x).inbox, id)
                 \/ Len(s.inbox) = MaxInbox /\ Echo(n, Head(s.inbox))
           /\ \A id : Echo(n, x) /\ x.request = id => Waits(n, Enqueue(s, x).inbox, id)
           /\ Enqueue(s, x) \in NodeState
           /\ Enqueue(s, x).pending = s.pending /\ Enqueue(s, x).history = s.history
  <1> DEFINE q == s.inbox
             r == IF Len(q) < MaxInbox THEN q ELSE Tail(q)
             a == Append(r, x)
  <1>1. q \in Seq(Packet)
    BY DEF NodeState
  <1>2. Enqueue(s, x) = [s EXCEPT !.inbox = a]
    BY DEF Enqueue
  <1>3. Len(q) \in Nat /\ MaxInbox \in Nat \ {0} /\ Len(q) <= MaxInbox
    BY <1>1, Constants
  <1> HIDE DEF q
  <1>4. /\ r \in Seq(Packet) /\ Unheard(n, r, h)
        /\ \A i \in 1..Len(r) : Key(r[i]) = Key(x) => ~Echo(n, r[i]) /\ ~Echo(n, x)
        /\ \A id : Waits(n, q, id) =>
              Waits(n, r, id) \/ (Len(q) = MaxInbox /\ Echo(n, Head(q)))
    <2>1. CASE Len(q) < MaxInbox
      BY <1>1, <2>1 DEF q
    <2>2. CASE ~(Len(q) < MaxInbox)
      <3>1. Len(q) = MaxInbox /\ q # <<>> /\ r = Tail(q)
        BY <1>1, <1>3, <2>2
      <3>2. /\ Tail(q) \in Seq(Packet) /\ Len(Tail(q)) = Len(q) - 1
            /\ \A i \in 1..Len(Tail(q)) : Tail(q)[i] = q[i + 1]
        BY <1>1, <3>1, Dropped
      <3>3. /\ Unheard(n, Tail(q), h \cup {Key(Head(q))})
            /\ \A id : Waits(n, q, id) =>
                 Waits(n, Tail(q), id) \/ (Echo(n, Head(q)) /\ Head(q).request = id)
        BY <1>1, <3>1, UnheardTail DEF q
      <3>4. Unheard(n, Tail(q), h)
        BY <3>3 DEF Unheard
      <3>5. \A i \in 1..Len(Tail(q)) : i + 1 \in 1..Len(q)
        BY <1>3, <3>2
      <3>6. \A i \in 1..Len(Tail(q)) :
               Key(Tail(q)[i]) = Key(x) => ~Echo(n, Tail(q)[i]) /\ ~Echo(n, x)
        BY <3>2, <3>5 DEF q
      <3> QED
        BY <3>1, <3>2, <3>3, <3>4, <3>6
    <2> QED
      BY <2>1, <2>2
  <1> HIDE DEF r
  <1>5. /\ Unheard(n, a, h)
        /\ \A id : Waits(n, r, id) \/ (Echo(n, x) /\ x.request = id) => Waits(n, a, id)
    BY <1>4, UnheardAppend
  <1>6. a \in Seq(Packet)
    BY <1>4, Appended
  <1> HIDE DEF a
  <1>7. /\ Enqueue(s, x).inbox = a /\ Enqueue(s, x) \in NodeState
        /\ Enqueue(s, x).pending = s.pending /\ Enqueue(s, x).history = s.history
    BY <1>2, <1>6 DEF NodeState
  <1> QED
    BY <1>4, <1>5, <1>7 DEF q


\* n still owes its phone a verdict on id, or has told it: T is what it told.
Awaited(n, s, id, T) ==
    \/ \E v \in T : v[1] = id
    \/ <<n, id>> \in DOMAIN s.pending
    \/ Waits(n, s.inbox, id)

VerdictDue(n, s, S, T) ==
    /\ Unheard(n, s.inbox, DOMAIN s.history)
    /\ S # {} => n \in Senders
    /\ \A id \in S : Awaited(n, s, id, T)

VerdictInv == \A n \in Nodes : VerdictDue(n, node[n], sent[n], told[n])

\* No packet is discarded that would have told a sender what became of its own.
VerdictsStay ==
    \A n \in Senders : Spills(n) => Handle(n) \/ node'[n].inbox = node[n].inbox

\* What is in C has an id given out, and a key tells who it is for.
LEMMA CoreOfKey ==
    ASSUME NEW C, Sound(C, node, sent, got, told), NEW n \in Nodes
    PROVE  /\ \A c, d \in C : KeyOf(c) = KeyOf(d) => c = d
           /\ \A c \in C : KeyOf(c) # NextKey(n, node[n])
           /\ \A c, d \in C : KeyOf(c) = KeyOf(d) => c.to = d.to /\ c.from = d.from
  <1>1. Made(C, node, got) /\ node[n].seq \in Nat
    BY Seqs DEF Sound
  <1>2. ASSUME NEW c \in C, KeyOf(c) = NextKey(n, node[n]) PROVE FALSE
    <2>1. c.from = n /\ c.id = node[n].seq + 1
      BY <1>2 DEF KeyOf, NextKey
    <2>2. c.id <= node[c.from].seq
      BY <1>1 DEF Made
    <2> QED
      BY <1>1, <2>1, <2>2
  <1> QED
    BY <1>1, <1>2 DEF Made

LEMMA CoreFields ==
    ASSUME NEW x
    PROVE  /\ KeyOf(Core(x)) = Key(x) /\ Core(x).to = x.to /\ Core(x).from = x.from
  BY DEF KeyOf, Core, Key

LEMMA Here ==
    ASSUME NEW C, Sound(C, node, sent, got, told), NEW n \in Nodes, NEW X
    PROVE  /\ Good(n, node[n], C, DOMAIN node[n].history \cup X,
                   PendingKeys(n, told[n]))
           /\ Noted(node[n], sent[n], told[n]) /\ node[n].seq \in Nat
           /\ NextKey(n, node[n]) \notin DOMAIN node[n].history
           /\ node[n] \in NodeState /\ node[n].inbox \in Seq(Packet)
           /\ Len(node[n].inbox) <= MaxInbox
           /\ \A i \in 1..Len(node[n].inbox) :
                 /\ Incoming(n, node[n].inbox[i], C)
                 /\ Key(node[n].inbox[i]) # NextKey(n, node[n])
  <1> DEFINE K == PendingKeys(n, told[n])
             H == HistoryKeys(n, C, got[n])
  <1>1. Good(n, node[n], C, H, K) /\ Noted(node[n], sent[n], told[n])
    BY DEF Sound, NodeSound
  <1>2. node[n].seq \in Nat /\ node[n].inbox \in Seq(Packet)
    BY <1>1, GoodState
  <1>3. Good(n, node[n], C, DOMAIN node[n].history \cup X, K)
    BY <1>1 DEF Good
  <1>4. \A c \in C : KeyOf(c) # NextKey(n, node[n])
    BY CoreOfKey
  <1>5. DOMAIN node[n].history \subseteq H
    BY <1>1 DEF Good
  <1>6. NextKey(n, node[n]) \notin H
    BY <1>4 DEF HistoryKeys
  <1>7. \A i \in 1..Len(node[n].inbox) : Incoming(n, node[n].inbox[i], C)
    BY <1>1 DEF Good
  <1>8. \A i \in 1..Len(node[n].inbox) : Key(node[n].inbox[i]) # NextKey(n, node[n])
    BY <1>4, <1>7, CoreFields DEF Incoming
  <1> QED
    BY <1>1, <1>2, <1>3, <1>5, <1>6, <1>7, <1>8 DEF Good

\* A node whose inbox stays as it is
LEMMA SameInboxDue ==
    ASSUME NEW n, NEW s, NEW t, NEW S, NEW R, NEW T, NEW U,
           VerdictDue(n, s, S, T), t.inbox = s.inbox, T \subseteq U, S = R,
           Unheard(n, t.inbox, DOMAIN t.history),
           \A id \in R : <<n, id>> \in DOMAIN s.pending =>
                 Awaited(n, t, id, U)
    PROVE  VerdictDue(n, t, R, U)
  <1>1. \A id \in R : Awaited(n, t, id, U)
    BY DEF VerdictDue, Awaited
  <1> QED
    BY <1>1 DEF VerdictDue

LEMMA SubmitDue ==
    ASSUME IInv, VerdictInv, NEW n \in Nodes, NEW to \in Dests,
           NEW text \in Texts(to), Submit(n, to, text)
    PROVE  VerdictInv'
  <1> DEFINE s == node[n]
             p == [from |-> n, to |-> to, id |-> s.seq + 1, request |-> 0,
                   hopStart |-> 0, hop |-> HopLimit, relay |-> None,
                   nextHop |-> None, wantAck |-> TRUE, text |-> text,
                   error |-> FALSE]
             t == [s EXCEPT !.seq = s.seq + 1]
             u == ReliableSend(n, t, p)
  <1>1. PICK C : Sound(C, node, sent, got, told)
    BY DEF IInv
  <1>2. Typed
    BY DEF IInv
  <1>3. /\ n \in Senders /\ to # n /\ told' = told
        /\ node' = [node EXCEPT ![n] = u]
        /\ sent' = [sent EXCEPT ![n] = sent[n] \cup {s.seq + 1}]
    BY DEF Submit
  <1>4. to \in Nodes \cup {Broadcast} /\ text \in BOOLEAN
    BY NetworkAssumption DEF Texts
  <1> DEFINE H == DOMAIN s.history \cup {NextKey(n, s)}
             K == PendingKeys(n, told[n])
             D == C \cup {Core(p)}
  <1>5. /\ Good(n, s, C, H, K) /\ Noted(s, sent[n], told[n]) /\ s.seq \in Nat
        /\ \A i \in 1..Len(s.inbox) : Key(s.inbox[i]) # NextKey(n, s)
    BY <1>1, Here
  <1>6. /\ p \in Packet /\ p.from = n /\ p.to = to /\ p.id = s.seq + 1
        /\ p.request = 0 /\ p.error = FALSE /\ p.wantAck = TRUE
    BY <1>4, <1>5, Constants DEF Packet
  <1> HIDE DEF p
  <1>7. Key(p) = NextKey(n, s) /\ Key(p) \in K /\ Key(p) \in H
    <2>1. Unused(n, s, K)
      BY <1>5, UnusedIds
    <2> QED
      BY <1>5, <1>6, <2>1 DEF Unused, Key, NextKey
  <1>8. C \subseteq D /\ Core(p) \in D
    OBVIOUS
  <1> HIDE DEF D, H, K
  <1>9. /\ Good(n, t, D, H, K) /\ t.pending = s.pending /\ t.inbox = s.inbox
    <2>1. Good(n, s, D, H, K)
      BY <1>5, <1>8, GoodMore
    <2>2. PICK i \in Nat : i = s.seq + 1
      BY <1>5
    <2>3. /\ Good(n, [s EXCEPT !.seq = i], D, H, K)
          /\ [s EXCEPT !.seq = i].pending = s.pending
          /\ [s EXCEPT !.seq = i].inbox = s.inbox
      BY <2>1, GoodSeq
    <2> QED
      BY <2>2, <2>3
  <1>10. Sendable(n, p, D)
    BY <1>3, <1>6, <1>8 DEF Sendable
  <1> HIDE DEF t
  <1>11. /\ Good(n, u, D, H, K) /\ Same(t, u) /\ Still(t, u)
         /\ Key(p) \in DOMAIN u.pending
    BY <1>6, <1>7, <1>9, <1>10, ReliableSendGood, ReliableSendStill
  <1> HIDE DEF u
  <1>12. /\ node'[n] = u /\ sent'[n] = sent[n] \cup {s.seq + 1}
         /\ \A m \in Nodes \ {n} : node'[m] = node[m] /\ sent'[m] = sent[m]
    BY <1>2, <1>3 DEF Typed
  <1>13. VerdictDue(n, s, sent[n], told[n])
    BY DEF VerdictInv
  <1>14. Unheard(n, u.inbox, DOMAIN u.history)
    <2>1. u.inbox = s.inbox /\ DOMAIN u.history \subseteq H
      BY <1>9, <1>11 DEF Same, Good
    <2>2. \A i \in 1..Len(s.inbox) : Key(s.inbox[i]) \in DOMAIN u.history
                                      => Key(s.inbox[i]) \in DOMAIN s.history
      BY <1>5, <2>1 DEF H
    <2> HIDE DEF s
    <2> QED
      BY <1>13, <2>1, <2>2, UnheardMore DEF VerdictDue
  <1>15. \A id \in sent'[n] : Awaited(n, u, id, told[n])
    <2> SUFFICES ASSUME NEW id \in sent'[n] PROVE Awaited(n, u, id, told[n])
      OBVIOUS
    <2>1. CASE id = s.seq + 1
      <3>1. <<n, id>> \in DOMAIN u.pending
        BY <1>7, <1>11, <2>1 DEF NextKey
      <3> QED
        BY <3>1 DEF Awaited
    <2>2. CASE id \in sent[n]
      <3>1. Awaited(n, s, id, told[n])
        BY <1>13, <2>2 DEF VerdictDue
      <3>2. u.inbox = s.inbox /\ DOMAIN s.pending \subseteq DOMAIN u.pending
        BY <1>9, <1>11 DEF Same, Still
      <3> QED
        BY <3>1, <3>2 DEF Awaited
    <2> QED
      BY <1>12, <2>1, <2>2
  <1>16. VerdictDue(n, node'[n], sent'[n], told'[n])
    BY <1>3, <1>12, <1>14, <1>15 DEF VerdictDue
  <1> QED
    BY <1>3, <1>12, <1>16 DEF VerdictInv

LEMMA HandleDue ==
    ASSUME IInv, VerdictInv, NEW n \in Nodes, Handle(n)
    PROVE  VerdictInv'
  <1> DEFINE s == node[n]
             q == s.inbox
             p == Head(s.inbox)
             t == [s EXCEPT !.inbox = Tail(s.inbox)]
             w == Handled(n, t, p)
             b == w.inbox # <<>>
             x == [w EXCEPT !.draining = b]
             H == DOMAIN s.history \cup {Key(p)}
             K == PendingKeys(n, told[n])
  <1>1. PICK C : Sound(C, node, sent, got, told)
    BY DEF IInv
  <1>2. Typed
    BY DEF IInv
  <1>3. /\ q # <<>> /\ node' = [node EXCEPT ![n] = x] /\ sent' = sent
        /\ told' = IF ~Seen(s, p) /\ p.to = n /\ p.request \in sent[n]
                   THEN [told EXCEPT ![n] = told[n] \cup
                                               {<<p.request, Verdict(n, p)>>}]
                   ELSE told
    BY DEF Handle
  <1>4. /\ \A m \in Nodes : told[m] \subseteq told'[m]
        /\ ~Seen(s, p) /\ p.to = n /\ p.request \in sent[n] =>
              \E v \in told'[n] : v[1] = p.request
        /\ \A m \in Nodes : m # n => node'[m] = node[m] /\ told'[m] = told[m]
        /\ node'[n] = x
    <2> DEFINE fresh == ~Seen(s, p) /\ p.to = n /\ p.request \in sent[n]
               y == <<p.request, Verdict(n, p)>>
    <2>1. /\ node' = [node EXCEPT ![n] = x]
          /\ told' = IF fresh THEN [told EXCEPT ![n] = told[n] \cup {y}] ELSE told
      BY <1>3
    <2>2. y[1] = p.request
      OBVIOUS
    <2> HIDE DEF fresh, x, y
    <2>3. \A m \in Nodes : m # n => node'[m] = node[m] /\ told'[m] = told[m]
      BY <1>2, <2>1 DEF Typed
    <2>4. node'[n] = x /\ told[n] \subseteq told'[n] /\ (fresh => y \in told'[n])
      BY <1>2, <2>1 DEF Typed
    <2> QED
      BY <2>2, <2>3, <2>4 DEF fresh
  <1>5. /\ Good(n, s, C, H, K) /\ Noted(s, sent[n], told[n]) /\ s.seq \in Nat
        /\ s \in NodeState /\ q \in Seq(Packet) /\ Len(q) <= MaxInbox
        /\ NextKey(n, s) \notin DOMAIN s.history
        /\ \A i \in 1..Len(q) : Key(q[i]) # NextKey(n, s)
    BY <1>1, Here
  <1>6. /\ Good(n, t, C, H, K) /\ Incoming(n, p, C)
        /\ t.seq = s.seq /\ t.inbox = Tail(q) /\ t.history = s.history
        /\ t.pending = s.pending
    <2>1. t.pending = s.pending
      BY <1>5 DEF NodeState
    <2> QED
      BY <1>1, <1>3, <1>5, <2>1, Taken
  <1>7. /\ Tail(q) \in Seq(Packet) /\ Len(Tail(q)) = Len(q) - 1
        /\ Len(q) \in Nat \ {0} /\ p = q[1]
        /\ \A i \in 1..Len(Tail(q)) : Tail(q)[i] = q[i + 1]
    BY <1>3, <1>5, Dropped
  <1>8. VerdictDue(n, s, sent[n], told[n])
    BY DEF VerdictInv
  <1>9. /\ Unheard(n, Tail(q), H)
        /\ Echo(n, p) => ~Seen(s, p)
        /\ \A id : Waits(n, q, id) =>
              Waits(n, Tail(q), id) \/ (Echo(n, p) /\ p.request = id)
    <2>1. PICK h : h = DOMAIN s.history
      OBVIOUS
    <2>2. Unheard(n, q, h) /\ q \in Seq(Packet) /\ q # <<>>
      BY <1>3, <1>5, <1>8, <2>1 DEF VerdictDue
    <2>3. /\ Unheard(n, Tail(q), h \cup {Key(Head(q))})
          /\ Echo(n, Head(q)) => Key(Head(q)) \notin h
          /\ \A id : Waits(n, q, id) =>
                Waits(n, Tail(q), id) \/ (Echo(n, Head(q)) /\ Head(q).request = id)
      BY <2>2, UnheardTail
    <2> QED
      BY <2>1, <2>3 DEF Seen
  <1>10. NextKey(n, t) = NextKey(n, s) /\ NextKey(n, s) \notin H
    <2>1. 1 \in 1..Len(q)
      BY <1>7
    <2> QED
      BY <1>5, <1>6, <1>7, <2>1 DEF NextKey
  <1>11. \A i \in 1..Len(Tail(q)) : Key(Tail(q)[i]) # NextKey(n, s)
    <2>1. \A i \in 1..Len(Tail(q)) : i + 1 \in 1..Len(q)
      BY <1>7
    <2> QED
      BY <1>5, <1>7, <2>1
  <1>12. Received(n, p, C, H, K)
    <2>1. p \in Packet /\ Key(p) \in Keys /\ Key(p)[1] = p.from
      BY <1>6, PacketFields DEF Incoming, Key
    <2> QED
      BY <1>6, <2>1 DEF Received, PendingKeys
  <1>13. Unused(n, t, K)
    <2>1. Noted(t, sent[n], told[n]) /\ t.seq \in Nat
      BY <1>5, <1>6 DEF Noted
    <2> HIDE DEF t
    <2> QED
      BY <2>1, UnusedIds
  <1> DEFINE Stopped(k) == ~Seen(t, p) /\ p.to = n /\ p.request # 0
                                       /\ k = <<n, p.request>>
             Plain == /\ w.inbox = t.inbox
                      /\ \A k \in DOMAIN t.pending :
                            k[1] = n => k \in DOMAIN w.pending \/ Stopped(k)
             Told == /\ Hands(n, t, w, p.id) /\ DOMAIN w.history \subseteq H
                     /\ \A k \in DOMAIN t.pending :
                           k[1] = n => \/ k \in DOMAIN w.pending \/ Stopped(k)
                                       \/ k = <<n, p.id>>
  <1> HIDE DEF s, p, q, t, H, K
  <1>14. Plain \/ Told
    BY <1>6, <1>12, <1>13, HandledStill
  <1>15. w \in NodeState /\ DOMAIN w.history \subseteq H \cup {NextKey(n, s)}
    <2>1. \/ Kept(n, t, w, C, H, K)
          \/ Grown(n, t, w, ReplyCore(n, t, p), C, H, K)
      BY <1>6, <1>12, <1>13, HandledGood
    <2> HIDE DEF w
    <2> QED
      BY <1>10, <2>1 DEF Kept, Grown, Good
  <1> HIDE DEF w
  <1>16. x.pending = w.pending /\ x.history = w.history /\ x.inbox = w.inbox
    BY <1>15 DEF NodeState
  <1> HIDE DEF x
  <1>17. ASSUME NEW id \in sent[n], Stopped(<<n, id>>) PROVE \E v \in told'[n] : v[1] = id
    BY <1>4, <1>6, <1>17 DEF Seen
  <1>18. ASSUME NEW id \in sent[n], Awaited(n, s, id, told[n]),
                ~\E v \in told'[n] : v[1] = id
         PROVE  (<<n, id>> \in DOMAIN t.pending /\ ~Stopped(<<n, id>>))
                   \/ Waits(n, Tail(q), id)
    <2>1. CASE \E v \in told[n] : v[1] = id
      BY <1>4, <1>18, <2>1
    <2>2. CASE <<n, id>> \in DOMAIN s.pending
      BY <1>6, <1>17, <1>18, <2>2
    <2>3. CASE Waits(n, q, id)
      BY <1>4, <1>9, <1>18, <2>3 DEF Echo
    <2> QED
      BY <1>18, <2>1, <2>2, <2>3 DEF Awaited, q
  <1>19. \A id \in sent[n] : Awaited(n, s, id, told[n])
    BY <1>8 DEF VerdictDue
  <1>20. CASE Plain
    <2>1. Unheard(n, w.inbox, DOMAIN w.history)
      <3>1. \A i \in 1..Len(Tail(q)) :
               Echo(n, Tail(q)[i]) /\ Key(Tail(q)[i]) \in DOMAIN w.history
                  => Key(Tail(q)[i]) \in H
        BY <1>11, <1>15
      <3>2. Unheard(n, Tail(q), DOMAIN w.history)
        BY <1>9, <3>1, UnheardMore
      <3> QED
        BY <1>6, <1>20, <3>2
    <2>2. \A id \in sent[n] : Awaited(n, x, id, told'[n])
      <3> SUFFICES ASSUME NEW id \in sent[n], ~\E v \in told'[n] : v[1] = id
                   PROVE  Awaited(n, x, id, told'[n])
        BY DEF Awaited
      <3>1. (<<n, id>> \in DOMAIN t.pending /\ ~Stopped(<<n, id>>))
               \/ Waits(n, Tail(q), id)
        BY <1>18, <1>19
      <3>2. <<n, id>> \in DOMAIN w.pending \/ Waits(n, w.inbox, id)
        BY <1>6, <1>20, <3>1
      <3> QED
        BY <1>16, <3>2 DEF Awaited
    <2>3. VerdictDue(n, node'[n], sent'[n], told'[n])
      BY <1>3, <1>4, <1>8, <1>16, <2>1, <2>2 DEF VerdictDue
    <2> QED
      BY <1>3, <1>4, <2>3 DEF VerdictInv
  <1>21. CASE Told
    <2>1. PICK y \in Packet : /\ Echo(n, y) /\ y.id = t.seq + 1 /\ y.request = p.id
                              /\ w.inbox = Enqueue(t, y).inbox
      BY <1>21 DEF Hands
    <2>2. Key(y) = NextKey(n, s)
      BY <1>6, <2>1 DEF Key, NextKey, Echo
    <2>3. t \in NodeState /\ Len(t.inbox) < MaxInbox /\ Unheard(n, t.inbox, H)
      BY <1>5, <1>6, <1>7, <1>9, Constants DEF Good
    <2>4. /\ Unheard(n, w.inbox, H)
          /\ \A id : Waits(n, t.inbox, id) => Waits(n, w.inbox, id)
          /\ Waits(n, w.inbox, p.id)
      <3>1. Key(y) \notin H
        BY <1>10, <2>2
      <3>2. \A i \in 1..Len(t.inbox) : Key(t.inbox[i]) # Key(y)
        BY <1>6, <1>11, <2>2
      <3>3. Len(t.inbox) <= MaxInbox /\ Len(t.inbox) # MaxInbox
        <4>1. t.inbox \in Seq(Packet)
          BY <1>6, <1>7
        <4> QED
          BY <2>3, <4>1, Constants
      <3>4. /\ Unheard(n, Enqueue(t, y).inbox, H)
            /\ \A id : Waits(n, t.inbox, id) => Waits(n, Enqueue(t, y).inbox, id)
            /\ \A id : Echo(n, y) /\ y.request = id =>
                  Waits(n, Enqueue(t, y).inbox, id)
        BY <2>3, <3>1, <3>2, <3>3, EnqueueWaits
      <3> QED
        BY <2>1, <3>4
    <2>5. Unheard(n, w.inbox, DOMAIN w.history)
      BY <1>21, <2>4 DEF Unheard
    <2>6. \A id \in sent[n] : Awaited(n, x, id, told'[n])
      <3> SUFFICES ASSUME NEW id \in sent[n], ~\E v \in told'[n] : v[1] = id
                   PROVE  Awaited(n, x, id, told'[n])
        BY DEF Awaited
      <3>1. (<<n, id>> \in DOMAIN t.pending /\ ~Stopped(<<n, id>>))
               \/ Waits(n, Tail(q), id)
        BY <1>18, <1>19
      <3>2. <<n, id>> \in DOMAIN w.pending \/ Waits(n, w.inbox, id)
        BY <1>6, <1>21, <2>4, <3>1
      <3> QED
        BY <1>16, <3>2 DEF Awaited
    <2>7. VerdictDue(n, node'[n], sent'[n], told'[n])
      BY <1>3, <1>4, <1>8, <1>16, <2>5, <2>6 DEF VerdictDue
    <2> QED
      BY <1>3, <1>4, <2>7 DEF VerdictInv
  <1> QED
    BY <1>14, <1>20, <1>21


LEMMA RetransmitDue ==
    ASSUME IInv, VerdictInv, NEW n \in Nodes, NEW key \in DOMAIN node[n].pending,
           Retransmit(n, key),
           n \in Senders /\ Spills(n) => node'[n].inbox = node[n].inbox
    PROVE  VerdictInv'
  <1> DEFINE s == node[n]
             pk == s.pending[key].packet
             w == IF s.pending[key].left = 0 THEN GiveUp(n, s, key)
                  ELSE Retry(n, s, key)
             H == DOMAIN s.history
             K == PendingKeys(n, told[n])
  <1>1. PICK C : Sound(C, node, sent, got, told)
    BY DEF IInv
  <1>2. Typed
    BY DEF IInv
  <1>3. /\ node' = [node EXCEPT ![n] = w] /\ sent' = sent /\ told' = told
    BY DEF Retransmit
  <1>4. node'[n] = w /\ \A m \in Nodes \ {n} : node'[m] = node[m]
    BY <1>2, <1>3 DEF Typed
  <1>5. /\ Good(n, s, C, H \cup {key}, K) /\ Good(n, s, C, H \cup {}, K)
        /\ Noted(s, sent[n], told[n]) /\ s.seq \in Nat
        /\ NextKey(n, s) \notin H
        /\ s \in NodeState /\ s.inbox \in Seq(Packet) /\ Len(s.inbox) <= MaxInbox
        /\ \A i \in 1..Len(s.inbox) : /\ Incoming(n, s.inbox[i], C)
                                      /\ Key(s.inbox[i]) # NextKey(n, s)
    BY <1>1, Here
  <1>6. Good(n, s, C, H, K)
    <2>1. H \cup {} = H
      OBVIOUS
    <2> QED
      BY <1>5, <2>1
  <1>7. VerdictDue(n, s, sent[n], told[n])
    BY DEF VerdictInv
  <1>8. Sendable(n, pk, C) /\ Key(pk) = key
    BY <1>6 DEF Good
  <1>9. pk \in Packet /\ Core(pk) \in C /\ pk.to # n /\ pk.id \in Nat
        /\ pk.from \in Nodes /\ key = <<pk.from, pk.id>>
    BY <1>8, PacketFields DEF Sendable, Key
  <1>10. Unused(n, s, K)
    BY <1>5, UnusedIds
  <1>11. NextKey(n, s) \in K
    BY <1>5, <1>10 DEF Unused, NextKey
  <1>12. \A i \in 1..Len(s.inbox) : Echo(n, s.inbox[i]) => Key(s.inbox[i]) # key
    <2> SUFFICES ASSUME NEW i \in 1..Len(s.inbox), Echo(n, s.inbox[i]),
                        Key(s.inbox[i]) = key
                 PROVE  FALSE
      OBVIOUS
    <2>1. Core(s.inbox[i]) \in C
      BY <1>5 DEF Incoming
    <2>2. s.inbox[i].to = pk.to
      BY <1>1, <1>8, <1>9, <2>1, CoreOfKey, CoreFields
    <2> QED
      BY <1>9, <2>2 DEF Echo
  <1> HIDE DEF s, pk
  <1>13. CASE s.pending[key].left # 0
    <2>1. /\ Kept(n, s, w, C, H \cup {key}, K) /\ Still(s, w)
      <3>1. key \in DOMAIN s.pending /\ key \in H \cup {key}
        BY DEF s
      <3> HIDE DEF H, K
      <3>2. /\ Kept(n, s, Retry(n, s, key), C, H \cup {key}, K)
            /\ DOMAIN s.pending \subseteq DOMAIN Retry(n, s, key).pending
        BY <1>5, <1>13, <3>1, RetryGood
      <3> QED
        BY <1>13, <3>2 DEF Still
    <2> HIDE DEF w
    <2>2. w.inbox = s.inbox /\ DOMAIN w.history \subseteq H \cup {key}
          /\ DOMAIN s.pending \subseteq DOMAIN w.pending
      BY <2>1 DEF Kept, Same, Good, Still
    <2>3. Unheard(n, w.inbox, DOMAIN w.history)
      <3>1. Unheard(n, s.inbox, H)
        BY <1>7 DEF VerdictDue
      <3>2. Unheard(n, s.inbox, DOMAIN w.history)
        BY <1>12, <2>2, <3>1, UnheardMore
      <3> QED
        BY <2>2, <3>2
    <2>4. VerdictDue(n, w, sent[n], told[n])
      BY <1>7, <2>2, <2>3 DEF VerdictDue, Awaited
    <2> QED
      BY <1>3, <1>4, <2>4 DEF VerdictInv
  <1>14. CASE s.pending[key].left = 0 /\ ~Mine(n, pk)
    <2>1. w = StopRetransmission(n, s, key)
      BY <1>14 DEF GiveUp, pk
    <2>2. /\ Same(s, StopRetransmission(n, s, key))
          /\ StopRetransmission(n, s, key).pending = Without(s.pending, key)
          /\ DOMAIN StopRetransmission(n, s, key).history = DOMAIN s.history
      <3> HIDE DEF H, K
      <3> QED
        BY <1>6, StopGood
    <2> HIDE DEF w
    <2>3. /\ w.inbox = s.inbox /\ DOMAIN w.history = DOMAIN s.history
          /\ DOMAIN s.pending \ {key} \subseteq DOMAIN w.pending
      BY <2>1, <2>2 DEF Same, Without
    <2>4. \A id : <<n, id>> # key
      BY <1>9, <1>14 DEF Mine
    <2>5. VerdictDue(n, w, sent[n], told[n])
      BY <1>7, <2>3, <2>4 DEF VerdictDue, Awaited
    <2> QED
      BY <1>3, <1>4, <2>5 DEF VerdictInv
  <1>15. CASE s.pending[key].left = 0 /\ Mine(n, pk)
    <2>1. PICK id \in Nat, error \in BOOLEAN : id = pk.id /\ error = TRUE
      BY <1>9
    <2>2. key = <<n, id>>
      BY <1>9, <1>15, <2>1 DEF Mine
    <2>3. w = StopRetransmission(n,
                 SendAckNak(n, s, n, id, 0, FALSE, error), <<n, id>>)
      BY <1>15, <2>1, <2>2 DEF GiveUp, pk
    <2>4. Closed(n, s, w, id, C, H, K)
      <3>1. Closed(n, s, StopRetransmission(n,
                SendAckNak(n, s, n, id, 0, FALSE, error), <<n, id>>), id, C, H, K)
        <4> HIDE DEF H, K
        <4> QED
          BY <1>6, <1>11, ToldAndStopped
      <3> QED
        BY <2>3, <3>1
    <2> HIDE DEF w
    <2>5. PICK y \in Packet : /\ Echo(n, y) /\ y.id = s.seq + 1 /\ y.request = id
                              /\ w.inbox = Enqueue(s, y).inbox
      BY <2>4 DEF Closed, Hands
    <2>6. Key(y) = NextKey(n, s)
      BY <2>5 DEF Key, NextKey, Echo
    <2>7. /\ Unheard(n, w.inbox, H)
          /\ \A i : Waits(n, s.inbox, i) => Waits(n, w.inbox, i) \/ Spills(n)
          /\ Waits(n, w.inbox, id)
      <3>1. Unheard(n, s.inbox, H) /\ Key(y) \notin H
        BY <1>5, <1>7, <2>6 DEF VerdictDue
      <3>2. \A i \in 1..Len(s.inbox) : Key(s.inbox[i]) # Key(y)
        BY <1>5, <2>6
      <3>3. s \in NodeState /\ Len(s.inbox) <= MaxInbox
        BY <1>5
      <3> HIDE DEF H
      <3>4. /\ Unheard(n, Enqueue(s, y).inbox, H)
            /\ \A i : Waits(n, s.inbox, i) =>
                  \/ Waits(n, Enqueue(s, y).inbox, i)
                  \/ Len(s.inbox) = MaxInbox /\ Echo(n, Head(s.inbox))
            /\ \A i : Echo(n, y) /\ y.request = i => Waits(n, Enqueue(s, y).inbox, i)
        BY <3>1, <3>2, <3>3, EnqueueWaits
      <3> QED
        BY <2>5, <3>4 DEF Spills, s
    <2>8. DOMAIN w.history = H /\ DOMAIN s.pending \ {key} \subseteq DOMAIN w.pending
      BY <2>2, <2>4 DEF Closed, StillBut
    <2>9. \A i \in sent[n] : Awaited(n, w, i, told[n])
      <3> SUFFICES ASSUME NEW i \in sent[n] PROVE Awaited(n, w, i, told[n])
        OBVIOUS
      <3>1. Awaited(n, s, i, told[n]) /\ n \in Senders
        BY <1>7 DEF VerdictDue
      <3>2. CASE \E v \in told[n] : v[1] = i
        BY <3>2 DEF Awaited
      <3>3. CASE <<n, i>> \in DOMAIN s.pending
        <4>1. <<n, i>> = key => i = id
          BY <2>2
        <4> QED
          BY <2>7, <2>8, <3>3, <4>1 DEF Awaited
      <3>4. CASE Waits(n, s.inbox, i)
        <4>1. Spills(n) => w.inbox = s.inbox
          BY <1>4, <3>1 DEF s
        <4> QED
          BY <2>7, <3>4, <4>1 DEF Awaited
      <3> QED
        BY <3>1, <3>2, <3>3, <3>4 DEF Awaited
    <2>10. VerdictDue(n, w, sent[n], told[n])
      BY <1>7, <2>7, <2>8, <2>9 DEF VerdictDue
    <2> QED
      BY <1>3, <1>4, <2>10 DEF VerdictInv
  <1> QED
    BY <1>13, <1>14, <1>15

LEMMA OnAirDue ==
    ASSUME IInv, VerdictInv, NEW n \in Nodes, NEW i \in DOMAIN node[n].tx,
           NEW heard \in SUBSET Neighbours(n), OnAir(n, i, heard),
           \A m \in Senders : Spills(m) => node'[m].inbox = node[m].inbox
    PROVE  VerdictInv'
  <1> DEFINE x == node[n].tx[i]
  <1>1. PICK C : Sound(C, node, sent, got, told)
    BY DEF IInv
  <1>2. Typed
    BY DEF IInv
  <1>3. node[n] \in NodeState /\ node[n].tx \in Seq(Packet)
    BY <1>2 DEF Typed, NodeState
  <1>4. InTheAir(x, C)
    <2>1. PICK H, K : Good(n, node[n], C, H, K)
      BY <1>1, Seqs
    <2>2. i \in 1..Len(node[n].tx)
      BY <1>3
    <2> QED
      BY <2>1, <2>2 DEF Good
  <1>5. x \in Packet /\ Core(x) \in C /\ x.to # x.from
    BY <1>4 DEF InTheAir
  <1>6. /\ sent' = sent /\ told' = told
        /\ \A m \in Nodes :
              node'[m] = IF m = n THEN [node[n] EXCEPT !.tx = RemoveAt(node[n].tx, i)]
                         ELSE IF m \in heard THEN Enqueue(node[m], x) ELSE node[m]
    BY DEF OnAir
  <1> HIDE DEF x
  <1> SUFFICES ASSUME NEW m \in Nodes
               PROVE  VerdictDue(m, node'[m], sent[m], told[m])
    BY <1>6 DEF VerdictInv
  <1>7. VerdictDue(m, node[m], sent[m], told[m])
    BY DEF VerdictInv
  <1>8. CASE m = n
    <2>1. /\ node'[m].inbox = node[m].inbox /\ node'[m].history = node[m].history
          /\ node'[m].pending = node[m].pending
      BY <1>3, <1>6, <1>8 DEF NodeState
    <2> QED
      BY <1>7, <2>1 DEF VerdictDue, Awaited
  <1>9. CASE m # n /\ m \notin heard
    BY <1>6, <1>7, <1>9
  <1>10. CASE m # n /\ m \in heard
    <2> DEFINE s == node[m]
    <2>1. /\ s \in NodeState /\ Len(s.inbox) <= MaxInbox
          /\ \A j \in 1..Len(s.inbox) : Incoming(m, s.inbox[j], C)
      BY <1>1, Here
    <2>2. ~Echo(m, x)
      BY <1>5 DEF Echo
    <2>3. \A j \in 1..Len(s.inbox) : Key(s.inbox[j]) = Key(x) => ~Echo(m, s.inbox[j])
      <3> SUFFICES ASSUME NEW j \in 1..Len(s.inbox), Key(s.inbox[j]) = Key(x),
                          Echo(m, s.inbox[j])
                   PROVE  FALSE
        OBVIOUS
      <3>1. Core(s.inbox[j]) \in C
        BY <2>1 DEF Incoming
      <3>2. s.inbox[j].to = x.to /\ s.inbox[j].from = x.from
        BY <1>1, <1>5, <3>1, CoreOfKey, CoreFields
      <3> QED
        BY <1>5, <3>2 DEF Echo
    <2> HIDE DEF s
    <2>4. Unheard(m, s.inbox, DOMAIN s.history)
      BY <1>7 DEF VerdictDue, s
    <2>5. /\ Unheard(m, Enqueue(s, x).inbox, DOMAIN s.history)
          /\ \A id : Waits(m, s.inbox, id) =>
                \/ Waits(m, Enqueue(s, x).inbox, id)
                \/ Len(s.inbox) = MaxInbox /\ Echo(m, Head(s.inbox))
          /\ Enqueue(s, x).pending = s.pending /\ Enqueue(s, x).history = s.history
      BY <1>5, <2>1, <2>2, <2>3, <2>4, EnqueueWaits
    <2>6. node'[m] = Enqueue(s, x)
      BY <1>6, <1>10 DEF s
    <2>7. \A id \in sent[m] : Awaited(m, node'[m], id, told[m])
      <3> SUFFICES ASSUME NEW id \in sent[m] PROVE Awaited(m, node'[m], id, told[m])
        OBVIOUS
      <3>1. Awaited(m, s, id, told[m]) /\ m \in Senders
        BY <1>7 DEF VerdictDue, s
      <3>2. Spills(m) => node'[m].inbox = s.inbox
        BY <3>1 DEF s
      <3>3. Waits(m, s.inbox, id) => Waits(m, node'[m].inbox, id)
        BY <2>5, <2>6, <3>2 DEF Spills, s
      <3> QED
        BY <2>5, <2>6, <3>1, <3>3 DEF Awaited
    <2>8. Unheard(m, node'[m].inbox, DOMAIN node'[m].history)
      BY <2>5, <2>6
    <2> QED
      BY <1>7, <2>7, <2>8 DEF VerdictDue
  <1> QED
    BY <1>8, <1>9, <1>10

\* VerdictReached: ReliableRouter answers each packet of its phone with an
\* implicit acknowledgement, MAX_RETRANSMIT, or what the other end says, and
\* drops no retransmission without one.  It hands its own verdicts to itself
\* through the queue for received packets, so that a phone goes without a
\* verdict only if enqueueReceivedMessage discards one to make room.
THEOREM VerdictsReached == Spec /\ [][VerdictsStay]_vars => []VerdictReached
  <1>1. Init => VerdictInv
    <2> SUFFICES ASSUME Init, NEW n \in Nodes
                 PROVE  VerdictDue(n, node[n], sent[n], told[n])
      BY DEF VerdictInv
    <2>1. sent[n] = {} /\ node[n].inbox = <<>>
      BY DEF Init, Fresh
    <2>2. Len(node[n].inbox) = 0
      BY <2>1
    <2> QED
      BY <2>1, <2>2 DEF VerdictDue, Unheard
  <1>2. IInv /\ VerdictInv /\ [Next]_vars /\ [VerdictsStay]_vars => VerdictInv'
    <2> SUFFICES ASSUME IInv, VerdictInv, [Next]_vars, [VerdictsStay]_vars
                 PROVE  VerdictInv'
      OBVIOUS
    <2>1. CASE UNCHANGED vars
      BY <2>1 DEF vars, VerdictInv, VerdictDue, Awaited
    <2>2. CASE \E n \in Nodes : Handle(n)
      BY <2>2, HandleDue
    <2>3. CASE ~UNCHANGED vars /\ ~\E n \in Nodes : Handle(n)
      <3>1. \A m \in Senders : Spills(m) => node'[m].inbox = node[m].inbox
        <4>1. Senders \subseteq Nodes
          BY NetworkAssumption
        <4> QED
          BY <2>3, <4>1 DEF VerdictsStay
      <3>2. ASSUME NEW n \in Nodes, NEW to \in Dests, NEW text \in Texts(to),
                   Submit(n, to, text)
            PROVE  VerdictInv'
        BY <3>2, SubmitDue
      <3>3. ASSUME NEW n \in Nodes, NEW key \in DOMAIN node[n].pending,
                   Retransmit(n, key)
            PROVE  VerdictInv'
        BY <3>1, <3>3, RetransmitDue
      <3>4. ASSUME NEW n \in Nodes, NEW i \in DOMAIN node[n].tx,
                   NEW heard \in SUBSET Neighbours(n), OnAir(n, i, heard)
            PROVE  VerdictInv'
        BY <3>1, <3>4, OnAirDue
      <3> QED
        BY <2>3, <3>2, <3>3, <3>4 DEF Next, Work, Rest
    <2> QED
      BY <2>1, <2>2, <2>3
  <1>3. VerdictInv => VerdictReached
    <2> SUFFICES ASSUME VerdictInv, Quiet, NEW n \in Nodes, NEW id \in sent[n]
                 PROVE  \E v \in told[n] : v[1] = id
      BY DEF VerdictReached
    <2>1. node[n].inbox = <<>> /\ DOMAIN node[n].pending = {}
      BY DEF Quiet
    <2>2. Awaited(n, node[n], id, told[n])
      BY DEF VerdictInv, VerdictDue
    <2> QED
      BY <2>1, <2>2 DEF Awaited, Waits
  <1>4. Spec /\ [][VerdictsStay]_vars => []VerdictInv
    BY <1>1, <1>2, Invariance, PTL DEF Spec
  <1> QED
    BY <1>3, <1>4, PTL

=============================================================================
