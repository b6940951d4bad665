------------------------ MODULE PacketHistoryProofs ------------------------
(***************************************************************************)
(* Theorems about PacketHistory, for every capacity, clock width and set   *)
(* of nodes: the table stays well formed, find() is unambiguous, and a     *)
(* record's highest hop limit and next hop survive every update.           *)
(*                                                                         *)
(* NoDuplicateEntries is not inductive alone: insert() stops at the first  *)
(* free slot, so a record behind a free slot would be stored twice.  The   *)
(* invariant that excludes it is that the array fills from the front.      *)
(***************************************************************************)
EXTENDS PacketHistory, TLAPS

\* No free slot lies before a used one: insert() never leaves a hole.
FillsFromTheFront ==
    \A i, j \in Slots : i < j /\ IsFree(i) => IsFree(j)

\* Before millis() starts again, a record's time is the time it was stored.
Dated ==
    /\ now \in 1 .. Wrap - 1
    /\ \A i \in Slots : ~IsFree(i) => /\ recentPackets[i].rx = storedAt[i]
                                      /\ storedAt[i] \in 1 .. now

\* What wasSeenRecently() stores as the time; 0 marks a free record.
Stamp == IF Millis = 0 THEN 1 ELSE Millis

Inv == TypeOK /\ NoDuplicateEntries /\ FillsFromTheFront

-----------------------------------------------------------------------------
\* A zeroed record is not the record of any packet.
LEMMA FreeIsNoRecord == \A r \in Records : r # Free
  BY HistoryAssumption DEF Records, Free

\* What Remember stores is a record of p, whatever was known of it.
LEMMA FreshType ==
  ASSUME NEW p \in Packets, now \in Nat
  PROVE  /\ Fresh(p) \in Records
         /\ Fresh(p).sender = p.from /\ Fresh(p).id = p.id
         /\ Fresh(p).rx = Stamp
<1>1. (IF Millis = 0 THEN 1 ELSE Millis) \in Clock
  BY HistoryAssumption DEF Millis, Clock
<1>2. NoRelayers \in [Index -> Nodes]
  BY DEF NoRelayers, Nodes
<1>3. [NoRelayers EXCEPT ![0] = Us] \in [Index -> Nodes]
  BY <1>2 DEF Nodes
<1>4. /\ p.from \in Senders /\ p.id \in Ids /\ p.nextHop \in Nodes
      /\ p.hop \in Hops /\ 0 \in Hops
  BY HistoryAssumption DEF Packets, Hops
<1>. QED
  BY <1>1, <1>2, <1>3, <1>4 DEF Fresh, Records, Stamp

LEMMA MergedType ==
  ASSUME NEW p \in Packets, NEW r \in Records, now \in Nat
  PROVE  /\ Merged(p, r) \in Records
         /\ Merged(p, r).sender = p.from /\ Merged(p, r).id = p.id
         /\ Merged(p, r).rx = Stamp
         /\ Merged(p, r).highest >= r.highest
         /\ Merged(p, r).nextHop = r.nextHop
<1>1. (IF Millis = 0 THEN 1 ELSE Millis) \in Clock
  BY HistoryAssumption DEF Millis, Clock
<1>2. \A s \in {0, 1} : MergeRelayers(p.relay, s, r.relayedBy) \in [Index -> Nodes]
  <2>1. \A s \in {0, 1}, k \in Index : k < s \/ k - s \in Index
    BY HistoryAssumption DEF Index
  <2>2. p.relay \in Nodes /\ r.relayedBy \in [Index -> Nodes] /\ NoNode \in Nodes
    BY DEF Packets, Records, Nodes
  <2>. QED
    BY <2>1, <2>2 DEF MergeRelayers
<1>3. /\ p.from \in Senders /\ p.id \in Ids /\ r.nextHop \in Nodes
      /\ p.hop \in Hops /\ r.highest \in Hops /\ r.ourTx \in Hops
  BY DEF Packets, Records
<1>4. (IF r.highest > p.hop THEN r.highest ELSE p.hop) \in Hops
      /\ (IF r.highest > p.hop THEN r.highest ELSE p.hop) >= r.highest
  BY <1>3, HistoryAssumption DEF Hops
<1>5. (IF p.relay = Us \/ HeardUsDirectly(p, r) THEN 1 ELSE 0) \in {0, 1}
  OBVIOUS
<1>. QED
  BY <1>1, <1>2, <1>3, <1>4, <1>5 DEF Merged, Records, Stamp

\* With unique entries, Record() is the record of the slot that matches.
LEMMA RecordIsUnique ==
  ASSUME TypeOK, NoDuplicateEntries, NEW i \in Slots,
         NEW s, NEW id, Matches(i, s, id)
  PROVE  Found(s, id) = {i} /\ Record(s, id) = recentPackets[i]
<1>1. \A j \in Slots : Matches(j, s, id) => j = i
  BY DEF NoDuplicateEntries, Matches
<1>2. Found(s, id) = {i}
  BY <1>1 DEF Found
<1>. QED
  BY <1>2 DEF Record

\* insert() writes at most one slot, and one that is the record's own, the
\* first free one with no record of it behind, or an old one of a full table.
LEMMA TargetIsSafe ==
  ASSUME Inv, NEW r \in Records, NEW t \in Target(r)
  PROVE  /\ t \in Slots /\ Target(r) = {t}
         /\ \A j \in Slots : Matches(j, r.sender, r.id) => j = t
         /\ \A j \in Slots : j < t => ~IsFree(j)
<1>. DEFINE Stops == {i \in Slots : StopsAt(i, r)}
<1>1. CASE Stops # {}
  <2>1. Target(r) = {i \in Stops : \A j \in Stops : i <= j}
    BY <1>1 DEF Target
  <2>2. t \in Stops /\ \A j \in Stops : t <= j
    BY <2>1
  <2>3. t \in Slots /\ \A j \in Slots : j < t => ~StopsAt(j, r)
    BY <2>2 DEF Slots
  <2>4. Target(r) = {t}
    <3>1. \A u \in Target(r) : u \in Slots /\ u <= t /\ t <= u
      BY <2>1, <2>2
    <3>2. \A u \in Target(r) : u = t
      BY <3>1, <2>3 DEF Slots
    <3>. QED
      BY <3>2
  <2>5. \A j \in Slots : Matches(j, r.sender, r.id) => j = t
    <3> TAKE j \in Slots
    <3> HAVE Matches(j, r.sender, r.id)
    <3>1. ~(j < t)
      BY <2>3 DEF StopsAt
    <3>2. CASE IsFree(t)
      <4>1. ~(t < j)
        BY <3>2, <2>3 DEF Inv, FillsFromTheFront, Matches
      <4>. QED
        BY <4>1, <3>1, <2>3 DEF Slots
    <3>3. CASE ~IsFree(t)
      <4>1. Matches(t, r.sender, r.id)
        BY <3>3, <2>2 DEF StopsAt
      <4>. QED
        BY <4>1, <2>3 DEF Inv, NoDuplicateEntries, Matches
    <3>. QED
      BY <3>2, <3>3
  <2>. QED
    BY <2>3, <2>4, <2>5 DEF StopsAt
<1>2. CASE Stops = {}
  <2>1. Target(r) = {i \in Slots : /\ Age(i) > 0
                                   /\ \A j \in Slots : \/ Age(j) < Age(i)
                                                       \/ Age(j) = Age(i) /\ i <= j}
    BY <1>2 DEF Target
  <2>2. \A j \in Slots : ~StopsAt(j, r)
    BY <1>2
  <2>3. \A j \in Slots : Age(j) \in Nat
    <3> TAKE j \in Slots
    <3>1. recentPackets[j] \in Records
      BY <2>2 DEF Inv, TypeOK, StopsAt, IsFree
    <3>2. recentPackets[j].rx \in Nat /\ Millis \in Nat
      BY <3>1, HistoryAssumption DEF Records, Clock, Millis, Inv, TypeOK
    <3>. QED
      BY <3>2, HistoryAssumption DEF Age
  <2>4. Target(r) = {t}
    <3>1. \A u \in Target(r) : u = t
      <4> TAKE u \in Target(r)
      <4>1. u \in Slots /\ t \in Slots
        BY <2>1
      <4>2. (Age(u) < Age(t) \/ (Age(u) = Age(t) /\ t <= u))
            /\ (Age(t) < Age(u) \/ (Age(t) = Age(u) /\ u <= t))
        BY <2>1, <4>1
      <4>. QED
        BY <4>1, <4>2, <2>3 DEF Slots
    <3>. QED
      BY <3>1
  <2>. QED
    BY <2>1, <2>2, <2>4 DEF StopsAt
<1>. QED
  BY <1>1, <1>2

-----------------------------------------------------------------------------
\* Storing a record of p's packet: the invariant, and what becomes of the
\* record that was there.
LEMMA InsertPreserves ==
  ASSUME Inv, NEW r \in Records, Insert(r)
  PROVE  /\ recentPackets' \in [Slots -> Records \cup {Free}]
         /\ storedAt' \in [Slots -> Nat]
         /\ NoDuplicateEntries' /\ FillsFromTheFront'
<1>1. recentPackets' \in [Slots -> Records \cup {Free}] /\ storedAt' \in [Slots -> Nat]
  BY DEF Insert, Inv, TypeOK
<1>2. ASSUME NEW t \in Target(r)
      PROVE  NoDuplicateEntries' /\ FillsFromTheFront'
  <2>1. /\ t \in Slots /\ Target(r) = {t}
        /\ \A j \in Slots : Matches(j, r.sender, r.id) => j = t
        /\ \A j \in Slots : j < t => ~IsFree(j)
    BY TargetIsSafe
  <2>2. \A i \in Slots : recentPackets'[i] = IF i = t THEN r ELSE recentPackets[i]
    BY <2>1 DEF Insert
  <2>3. r # Free
    BY FreeIsNoRecord
  <2>4. NoDuplicateEntries'
    BY <2>1, <2>2 DEF NoDuplicateEntries, Matches, IsFree, Inv
  <2>5. FillsFromTheFront'
    BY <2>1, <2>2, <2>3 DEF FillsFromTheFront, IsFree, Inv, Slots
  <2>. QED
    BY <2>4, <2>5
<1>3. CASE Target(r) = {}
  <2>1. \A i \in Slots : recentPackets'[i] = recentPackets[i]
    BY <1>3 DEF Insert
  <2>. QED
    BY <1>1, <2>1 DEF NoDuplicateEntries, FillsFromTheFront, IsFree, Inv
<1>. QED
  BY <1>1, <1>2, <1>3

\* Both branches of wasSeenRecently() store a record of p.
LEMMA RememberStores ==
  ASSUME Inv, NEW p \in Packets, Remember(p)
  PROVE  \E r \in Records : /\ Insert(r) /\ r.sender = p.from /\ r.id = p.id
                           /\ r.rx = Stamp
                           /\ \A i \in Slots : Matches(i, p.from, p.id) =>
                                 /\ r.highest >= recentPackets[i].highest
                                 /\ r.nextHop = recentPackets[i].nextHop
<1>0. now \in Nat
  BY DEF Inv, TypeOK
<1>1. CASE Found(p.from, p.id) = {}
  <2>1. Insert(Fresh(p))
    BY <1>1 DEF Remember
  <2>2. \A i \in Slots : ~Matches(i, p.from, p.id)
    BY <1>1 DEF Found
  <2>. QED
    BY <1>0, <2>1, <2>2, FreshType
<1>2. CASE Found(p.from, p.id) # {}
  <2>1. PICK i \in Slots : Matches(i, p.from, p.id)
    BY <1>2 DEF Found
  <2>2. /\ Record(p.from, p.id) = recentPackets[i]
        /\ \A j \in Slots : Matches(j, p.from, p.id) => j = i
    <3>1. Found(p.from, p.id) = {i} /\ Record(p.from, p.id) = recentPackets[i]
      BY <2>1, RecordIsUnique DEF Inv
    <3>. QED
      BY <3>1 DEF Found
  <2>3. recentPackets[i] \in Records
    BY <2>1 DEF Matches, IsFree, Inv, TypeOK
  <2>4. Insert(Merged(p, recentPackets[i]))
    BY <1>2, <2>2 DEF Remember
  <2>5. /\ Merged(p, recentPackets[i]) \in Records
        /\ Merged(p, recentPackets[i]).sender = p.from
        /\ Merged(p, recentPackets[i]).id = p.id
        /\ Merged(p, recentPackets[i]).rx = Stamp
        /\ Merged(p, recentPackets[i]).highest >= recentPackets[i].highest
        /\ Merged(p, recentPackets[i]).nextHop = recentPackets[i].nextHop
    BY <1>0, <2>3, MergedType
  <2>. QED
    BY <2>2, <2>4, <2>5
<1>. QED
  BY <1>1, <1>2

\* What is known of a packet does not get worse when it is stored again.
LEMMA InsertKeepsHighest ==
  ASSUME Inv, NEW r \in Records, Insert(r), NEW i \in Slots, ~IsFree(i),
         \A j \in Slots : Matches(j, r.sender, r.id) =>
            /\ r.highest >= recentPackets[j].highest
            /\ r.nextHop = recentPackets[j].nextHop,
         Matches(i, recentPackets'[i].sender, recentPackets'[i].id)
  PROVE  /\ recentPackets'[i].highest >= recentPackets[i].highest
         /\ recentPackets'[i].nextHop = recentPackets[i].nextHop
<1>1. recentPackets'[i] = IF i \in Target(r) THEN r ELSE recentPackets[i]
  BY DEF Insert
<1>2. recentPackets[i].highest \in Nat
  BY HistoryAssumption DEF Inv, TypeOK, IsFree, Records, Hops
<1>3. CASE i \in Target(r)
  BY <1>1, <1>3
<1>4. CASE i \notin Target(r)
  BY <1>1, <1>2, <1>4
<1>. QED
  BY <1>3, <1>4

\* removeRelayer() only touches the relayers of one record.
LEMMA RemoveRelayerKeeps ==
  ASSUME Inv, NEW s \in Senders, NEW id \in Ids, RemoveRelayer(s, id)
  PROVE  /\ recentPackets' \in [Slots -> Records \cup {Free}]
         /\ \A i \in Slots : /\ IsFree(i)' <=> IsFree(i)
                             /\ ~IsFree(i) =>
                                  /\ recentPackets'[i].sender = recentPackets[i].sender
                                  /\ recentPackets'[i].id = recentPackets[i].id
                                  /\ recentPackets'[i].rx = recentPackets[i].rx
                                  /\ recentPackets'[i].highest = recentPackets[i].highest
                                  /\ recentPackets'[i].nextHop = recentPackets[i].nextHop
<1>1. PICK i \in Found(s, id), closed \in [Index -> Nodes] :
         recentPackets' = [recentPackets EXCEPT ![i].relayedBy = closed]
  <2>1. PICK i \in Found(s, id) :
          LET old == recentPackets[i].relayedBy
              Kept(k) == {j \in Index : old[j] # Us
                           /\ Cardinality({h \in 0 .. j - 1 : old[h] # Us}) = k}
              closed == [k \in Index |-> IF Kept(k) = {} THEN NoNode
                                         ELSE old[CHOOSE j \in Kept(k) : TRUE]]
          IN  recentPackets' = [recentPackets EXCEPT ![i].relayedBy = closed]
    BY DEF RemoveRelayer
  <2>. DEFINE old == recentPackets[i].relayedBy
              Kept(k) == {j \in Index : old[j] # Us
                           /\ Cardinality({h \in 0 .. j - 1 : old[h] # Us}) = k}
              closed == [k \in Index |-> IF Kept(k) = {} THEN NoNode
                                         ELSE old[CHOOSE j \in Kept(k) : TRUE]]
  <2>2. old \in [Index -> Nodes] /\ NoNode \in Nodes
    BY DEF Found, Matches, IsFree, Inv, TypeOK, Records, Nodes
  <2>3. \A k \in Index : Kept(k) # {} => (CHOOSE j \in Kept(k) : TRUE) \in Index
    OBVIOUS
  <2>4. closed \in [Index -> Nodes]
    <3>. HIDE DEF Kept, old
    <3>. QED
      BY <2>2, <2>3
  <2>. QED
    BY <2>1, <2>4
<1>2. i \in Slots /\ recentPackets[i] \in Records
  BY DEF Found, Matches, IsFree, Inv, TypeOK
<1>3. /\ [recentPackets[i] EXCEPT !.relayedBy = closed] \in Records
      /\ \A j \in Slots : recentPackets'[j] =
            IF j = i THEN [recentPackets[i] EXCEPT !.relayedBy = closed]
            ELSE recentPackets[j]
  BY <1>1, <1>2 DEF Records, Inv, TypeOK
<1>4. recentPackets' \in [Slots -> Records \cup {Free}]
  BY <1>1, <1>2, <1>3 DEF Inv, TypeOK
<1>. QED
  BY <1>2, <1>3, <1>4, FreeIsNoRecord DEF IsFree, Records

-----------------------------------------------------------------------------
LEMMA InitInv == Init => Inv
<1>. SUFFICES ASSUME Init PROVE Inv
  OBVIOUS
<1>1. TypeOK
  BY HistoryAssumption DEF Init, TypeOK, Verdicts, Unseen
<1>2. NoDuplicateEntries /\ FillsFromTheFront
  BY DEF Init, NoDuplicateEntries, FillsFromTheFront, IsFree
<1>. QED
  BY <1>1, <1>2 DEF Inv

LEMMA RememberInv ==
  ASSUME Inv, NEW p \in Packets, Remember(p), now' = now, verdict' \in Verdicts
  PROVE  Inv'
<1>1. PICK r \in Records : Insert(r)
  BY RememberStores
<1>. QED
  BY <1>1, InsertPreserves DEF Inv, TypeOK

LEMMA NextInv == Inv /\ [Next]_vars => Inv'
<1>. SUFFICES ASSUME Inv, [Next]_vars PROVE Inv'
  OBVIOUS
<1>1. ASSUME NEW p \in Packets, Hear(p) PROVE Inv'
  <2>1. verdict' \in Verdicts
    BY <1>1 DEF Hear, Verdicts, Unseen, IsUpgraded, IsFallback
  <2>. QED
    BY <1>1, <2>1, RememberInv DEF Hear
<1>2. ASSUME NEW p \in Packets, Send(p) PROVE Inv'
  BY <1>2, RememberInv DEF Send, Inv, TypeOK
<1>3. ASSUME NEW s \in Senders, NEW id \in Ids, RemoveRelayer(s, id) PROVE Inv'
  <2>1. /\ recentPackets' \in [Slots -> Records \cup {Free}]
        /\ \A i \in Slots : /\ IsFree(i)' <=> IsFree(i)
                            /\ ~IsFree(i) =>
                                 /\ recentPackets'[i].sender = recentPackets[i].sender
                                 /\ recentPackets'[i].id = recentPackets[i].id
    BY <1>3, RemoveRelayerKeeps
  <2>2. NoDuplicateEntries' /\ FillsFromTheFront'
    BY <2>1 DEF Inv, NoDuplicateEntries, FillsFromTheFront
  <2>3. TypeOK'
    BY <1>3, <2>1 DEF RemoveRelayer, Inv, TypeOK
  <2>. QED
    BY <2>2, <2>3 DEF Inv
<1>4. CASE Tick
  BY <1>4 DEF Tick, Inv, TypeOK, NoDuplicateEntries, FillsFromTheFront, IsFree
<1>5. CASE UNCHANGED vars
  BY <1>5 DEF vars, Inv, TypeOK, NoDuplicateEntries, FillsFromTheFront, IsFree
<1>. QED
  BY <1>1, <1>2, <1>3, <1>4, <1>5 DEF Next

\* Every reachable table is well formed, find() has at most one match, and
\* the array has no hole.
THEOREM InvHolds == Spec => []Inv
  BY InitInv, NextInv, PTL DEF Spec

\* PacketRecords are well formed in every reachable state.
THEOREM TypeCorrect == Spec => []TypeOK
<1>1. Inv => TypeOK
  BY DEF Inv
<1>. QED
  BY <1>1, InvHolds, PTL

\* No (sender, id) is stored twice, so find() returning the first match is
\* find() returning the record.
THEOREM EntriesUnique == Spec => []NoDuplicateEntries
<1>1. Inv => NoDuplicateEntries
  BY DEF Inv
<1>. QED
  BY <1>1, InvHolds, PTL

\* The highest hop limit seen never goes down and the requested next hop
\* never changes while a packet stays in the table.
THEOREM HighestKept == Spec => HighestIsKept
<1>. DEFINE Keeps ==
       \A i \in Slots :
         ~IsFree(i) /\ Matches(i, recentPackets'[i].sender, recentPackets'[i].id)
           => recentPackets'[i].highest >= recentPackets[i].highest
              /\ recentPackets'[i].nextHop = recentPackets[i].nextHop
<1>1. Inv /\ [Next]_vars => [Keeps]_vars
  <2>. SUFFICES ASSUME Inv, Next, NEW i \in Slots, ~IsFree(i),
                       Matches(i, recentPackets'[i].sender, recentPackets'[i].id)
                PROVE  /\ recentPackets'[i].highest >= recentPackets[i].highest
                       /\ recentPackets'[i].nextHop = recentPackets[i].nextHop
    OBVIOUS
  <2>0. recentPackets[i].highest \in Nat
    BY HistoryAssumption DEF Inv, TypeOK, IsFree, Records, Hops
  <2>1. ASSUME NEW p \in Packets, Remember(p)
        PROVE  /\ recentPackets'[i].highest >= recentPackets[i].highest
               /\ recentPackets'[i].nextHop = recentPackets[i].nextHop
    BY <2>1, RememberStores, InsertKeepsHighest
  <2>2. CASE \E p \in Packets : Hear(p) \/ Send(p)
    BY <2>1, <2>2 DEF Hear, Send
  <2>3. CASE \E s \in Senders, id \in Ids : RemoveRelayer(s, id)
    BY <2>0, <2>3, RemoveRelayerKeeps
  <2>4. CASE Tick
    BY <2>0, <2>4 DEF Tick
  <2>. QED
    BY <2>2, <2>3, <2>4 DEF Next
<1>. QED
  BY <1>1, InvHolds, PTL DEF Spec, HighestIsKept

-----------------------------------------------------------------------------
(* The age of records.                                                     *)

LEMMA SmallModulo ==
  ASSUME NEW x \in Nat, NEW w \in Nat, x < w
  PROVE  x % w = x
OBVIOUS

\* As long as millis() has not started again, ages are true.
LEMMA AgeIsTrue ==
  ASSUME Inv, Dated
  PROVE  /\ Millis = now /\ Millis # 0
         /\ \A i \in Slots : ~IsFree(i) => Age(i) = now - storedAt[i]
<1>1. now \in Nat /\ Wrap \in Nat /\ now < Wrap /\ now # 0
  BY HistoryAssumption DEF Dated
<1>2. Millis = now
  BY <1>1, SmallModulo DEF Millis
<1>3. ASSUME NEW i \in Slots, ~IsFree(i) PROVE Age(i) = now - storedAt[i]
  <2>1. recentPackets[i].rx = storedAt[i] /\ storedAt[i] \in 1 .. now
    BY <1>3 DEF Dated
  <2>2. now - storedAt[i] \in Nat /\ now - storedAt[i] < Wrap
    BY <1>1, <2>1
  <2>3. (now - storedAt[i]) % Wrap = now - storedAt[i]
    BY <1>1, <2>2, SmallModulo
  <2>. QED
    BY <1>2, <2>1, <2>3 DEF Age
<1>. QED
  BY <1>1, <1>2, <1>3

LEMMA NextDated ==
  ASSUME Inv, Dated, [Next]_vars, MaxTime < Wrap
  PROVE  Dated'
<1>1. ASSUME NEW p \in Packets, Remember(p), now' = now PROVE Dated'
  <2>1. PICK r \in Records : Insert(r) /\ r.rx = Stamp
    BY <1>1, RememberStores
  <2>2. r.rx = now
    BY <2>1, AgeIsTrue DEF Stamp
  <2>3. \A i \in Slots :
           /\ recentPackets'[i] = IF i \in Target(r) THEN r ELSE recentPackets[i]
           /\ storedAt'[i] = IF i \in Target(r) THEN now ELSE storedAt[i]
    BY <2>1 DEF Insert
  <2>4. now \in 1 .. now
    BY DEF Dated
  <2>. QED
    BY <1>1, <2>2, <2>3, <2>4 DEF Dated, IsFree
<1>2. ASSUME NEW s \in Senders, NEW id \in Ids, RemoveRelayer(s, id) PROVE Dated'
  <2>1. \A i \in Slots :
           /\ IsFree(i)' <=> IsFree(i)
           /\ ~IsFree(i) => recentPackets'[i].rx = recentPackets[i].rx
    BY <1>2, RemoveRelayerKeeps
  <2>. QED
    BY <1>2, <2>1 DEF RemoveRelayer, Dated
<1>3. CASE Tick
  <2>1. now' \in 1 .. Wrap - 1 /\ \A x : x \in 1 .. now => x \in 1 .. now'
    BY <1>3, HistoryAssumption DEF Tick, Dated
  <2>. QED
    BY <1>3, <2>1 DEF Tick, Dated, IsFree
<1>4. CASE UNCHANGED vars
  BY <1>4 DEF vars, Dated, IsFree
<1>. QED
  BY <1>1, <1>2, <1>3, <1>4 DEF Next, Hear, Send

\* From the first millisecond of uptime until millis() starts again, a record
\* gives way to another packet only when no record was written before it: the
\* slot insert() picks, by ages computed from the clock, is the oldest.
THEOREM OldestEvicted ==
  ASSUME Start \in 1 .. Wrap - 1, MaxTime < Wrap
  PROVE  Spec => OldestIsEvicted
<1>. DEFINE Evicted(i) == ~IsFree(i) /\ ~Matches(i, recentPackets'[i].sender,
                                                  recentPackets'[i].id)
            Oldest == \A i \in Slots :
                        Evicted(i) => \A j \in Slots : storedAt[i] <= storedAt[j]
<1>1. Init => Dated
  BY DEF Init, Dated, IsFree
<1>2. Inv /\ Dated /\ [Next]_vars => Dated'
  BY NextDated
<1>3. Inv /\ Dated /\ [Next]_vars => [Oldest]_vars
  <2>. SUFFICES ASSUME Inv, Dated, Next, NEW i \in Slots, Evicted(i),
                       NEW j \in Slots
                PROVE  storedAt[i] <= storedAt[j]
    OBVIOUS
  <2>1. ASSUME NEW p \in Packets, Remember(p)
        PROVE  storedAt[i] <= storedAt[j]
    <3>1. PICK r \in Records : Insert(r)
      BY <2>1, RememberStores
    <3>2. i \in Target(r) /\ recentPackets'[i] = r
      BY <3>1 DEF Insert, Matches
    <3>3. ~StopsAt(i, r)
      BY <3>2 DEF StopsAt
    <3>4. {k \in Slots : StopsAt(k, r)} = {}
      BY <3>2, <3>3 DEF Target
    <3>5. /\ \A k \in Slots : ~IsFree(k)
          /\ Age(j) < Age(i) \/ Age(j) = Age(i)
      BY <3>2, <3>4 DEF Target, StopsAt
    <3>6. /\ Age(i) = now - storedAt[i] /\ Age(j) = now - storedAt[j]
          /\ now \in Nat /\ storedAt[i] \in Nat /\ storedAt[j] \in Nat
      BY <3>5, AgeIsTrue DEF Inv, TypeOK
    <3>. QED
      BY <3>5, <3>6
  <2>2. CASE \E p \in Packets : Hear(p) \/ Send(p)
    BY <2>1, <2>2 DEF Hear, Send
  <2>3. CASE \E s \in Senders, id \in Ids : RemoveRelayer(s, id)
    BY <2>3, RemoveRelayerKeeps DEF Matches, IsFree
  <2>4. CASE Tick
    BY <2>4 DEF Tick, Matches
  <2>. QED
    BY <2>2, <2>3, <2>4 DEF Next
<1>. QED
  BY <1>1, <1>2, <1>3, InvHolds, PTL DEF Spec, OldestIsEvicted

=============================================================================
