------------------------- MODULE MeshChannelProofs -------------------------
(***************************************************************************)
(* Lemmas about MeshChannel: whatever the channel does, it carries only    *)
(* packets that were sent, and never more than its depth.                  *)
(***************************************************************************)
EXTENDS MeshChannel, SequenceTheorems, TLAPS

\* queueSend() adds at most the packet it was given.
LEMMA EnqueueType ==
    ASSUME NEW S, NEW ch \in Seq(S), NEW m \in S
    PROVE  Enqueue(ch, m) \in Seq(S)
BY DEF Enqueue

\* Handing over or losing a packet leaves only packets that were there.
LEMMA RemoveAtType ==
    ASSUME NEW S, NEW ch \in Seq(S), NEW i \in DOMAIN ch
    PROVE  RemoveAt(ch, i) \in Seq(S)
<1>1. Len(ch) \in Nat /\ i \in 1 .. Len(ch)
    BY LenProperties
<1>2. \A j \in 1 .. Len(ch) : ch[j] \in S
    BY ElementOfSeq
<1>3. SubSeq(ch, 1, i - 1) \in Seq(S)
    <2>1. \A j \in 1 .. i - 1 : ch[j] \in S
        BY <1>1, <1>2
    <2> QED BY <1>1, <2>1, SubSeqProperties
<1>4. SubSeq(ch, i + 1, Len(ch)) \in Seq(S)
    <2>1. \A j \in i + 1 .. Len(ch) : ch[j] \in S
        BY <1>1, <1>2
    <2> QED BY <1>1, <2>1, SubSeqProperties
<1> QED BY <1>3, <1>4, ConcatProperties DEF RemoveAt

\* dropPendingSends() keeps a prefix.
LEMMA DropType ==
    ASSUME NEW S, NEW ch \in Seq(S), NEW kept \in DropPendingSends(ch)
    PROVE  kept \in Seq(S)
<1>1. Len(ch) \in Nat /\ \A j \in 1 .. Len(ch) : ch[j] \in S
    BY LenProperties, ElementOfSeq
<1>2. PICK k \in 0 .. Len(ch) : kept = SubSeq(ch, 1, k)
    BY DEF DropPendingSends
<1>3. \A j \in 1 .. k : ch[j] \in S
    BY <1>1, <1>2
<1> QED BY <1>1, <1>2, <1>3, SubSeqProperties

\* The packet a node is handed is one that was sent to it.
LEMMA DeliverableType ==
    ASSUME NEW S, NEW ch \in Seq(S), NEW i \in Deliverable(ch)
    PROVE  i \in DOMAIN ch /\ ch[i] \in S /\ RemoveAt(ch, i) \in Seq(S)
<1>1. i \in DOMAIN ch
    BY DEF Deliverable
<1>2. ch[i] \in S
    BY <1>1, LenProperties, ElementOfSeq
<1> QED BY <1>1, <1>2, RemoveAtType

\* Loss, likewise.
LEMMA LossType ==
    ASSUME NEW S, NEW ch \in Seq(S), NEW rest \in Losses(ch)
    PROVE  rest \in Seq(S)
BY RemoveAtType DEF Losses

\* The queue never holds more than its depth.
LEMMA EnqueueLen ==
    ASSUME NEW S, NEW ch \in Seq(S), NEW m \in S, Len(ch) <= QueueDepth
    PROVE  Len(Enqueue(ch, m)) <= QueueDepth
BY ChannelAssumption, LenProperties DEF Enqueue

LEMMA RemoveAtLen ==
    ASSUME NEW S, NEW ch \in Seq(S), NEW i \in DOMAIN ch
    PROVE  Len(RemoveAt(ch, i)) = Len(ch) - 1
<1>1. Len(ch) \in Nat /\ i \in 1 .. Len(ch) /\ \A j \in 1 .. Len(ch) : ch[j] \in S
    BY LenProperties, ElementOfSeq
<1>2. SubSeq(ch, 1, i - 1) \in Seq(S) /\ Len(SubSeq(ch, 1, i - 1)) = i - 1
    BY <1>1, SubSeqProperties
<1>3. SubSeq(ch, i + 1, Len(ch)) \in Seq(S)
         /\ Len(SubSeq(ch, i + 1, Len(ch))) = Len(ch) - i
    BY <1>1, SubSeqProperties
<1>4. Len(RemoveAt(ch, i))
         = Len(SubSeq(ch, 1, i - 1)) + Len(SubSeq(ch, i + 1, Len(ch)))
    BY <1>2, <1>3, ConcatProperties DEF RemoveAt
<1>5. (i - 1) + (Len(ch) - i) = Len(ch) - 1
    BY <1>1
<1> QED BY <1>2, <1>3, <1>4, <1>5

-----------------------------------------------------------------------------
(* Order.  A chain of R is a channel in which a packet is R-related to     *)
(* every packet behind it; a direct link hands over the head of the chain, *)
(* so whatever arrives later is related to it.                             *)

Chain(ch, R) == \A i, j \in DOMAIN ch : i < j => <<ch[i], ch[j]>> \in R

\* A channel ranges over every set that holds its packets.
LEMMA SeqInto ==
    ASSUME NEW S, NEW T, NEW ch \in Seq(S), \A j \in 1 .. Len(ch) : ch[j] \in T
    PROVE  ch \in Seq(T)
<1>1. Len(ch) \in Nat /\ ch \in [1 .. Len(ch) -> S]
    BY LenProperties
<1>2. ch \in [1 .. Len(ch) -> T]
    BY <1>1
<1> QED BY <1>1, <1>2, SeqDef

LEMMA SeqBoth ==
    ASSUME NEW S, NEW T, NEW ch \in Seq(S), ch \in Seq(T)
    PROVE  ch \in Seq(S \cap T)
<1>1. \A j \in 1 .. Len(ch) : ch[j] \in S \cap T
    BY ElementOfSeq
<1> QED BY <1>1, SeqInto

LEMMA RemoveAtElement ==
    ASSUME NEW S, NEW ch \in Seq(S), NEW i \in DOMAIN ch
    PROVE  /\ DOMAIN RemoveAt(ch, i) = 1 .. Len(ch) - 1
           /\ \A j \in 1 .. Len(ch) - 1 :
                RemoveAt(ch, i)[j] = IF j < i THEN ch[j] ELSE ch[j + 1]
<1>1. Len(ch) \in Nat /\ i \in 1 .. Len(ch) /\ \A j \in 1 .. Len(ch) : ch[j] \in S
    BY LenProperties, ElementOfSeq
<1> DEFINE front == SubSeq(ch, 1, i - 1)
           back  == SubSeq(ch, i + 1, Len(ch))
<1>2. /\ front \in Seq(S) /\ Len(front) = i - 1
      /\ \A j \in 1 .. i - 1 : front[j] = ch[j]
    BY <1>1, SubSeqProperties
<1>3. /\ back \in Seq(S) /\ Len(back) = Len(ch) - i
      /\ \A j \in 1 .. Len(ch) - i : back[j] = ch[i + j]
    BY <1>1, SubSeqProperties
<1> HIDE DEF front, back
<1>4. RemoveAt(ch, i) = front \o back
    BY DEF RemoveAt, front, back
<1>5. /\ front \o back \in Seq(S)
      /\ Len(front \o back) = Len(ch) - 1
      /\ \A j \in 1 .. Len(ch) - 1 :
           (front \o back)[j] = IF j <= i - 1 THEN front[j] ELSE back[j - (i - 1)]
    <2>1. /\ front \o back \in Seq(S)
          /\ Len(front \o back) = Len(front) + Len(back)
          /\ \A j \in 1 .. Len(front) + Len(back) :
               (front \o back)[j] = IF j <= Len(front) THEN front[j]
                                                      ELSE back[j - Len(front)]
        BY <1>2, <1>3, ConcatProperties
    <2>2. Len(front) + Len(back) = Len(ch) - 1
        BY <1>1, <1>2, <1>3
    <2> QED BY <1>2, <2>1, <2>2
<1>6. \A j \in 1 .. Len(ch) - 1 :
        (front \o back)[j] = IF j < i THEN ch[j] ELSE ch[j + 1]
    <2> TAKE j \in 1 .. Len(ch) - 1
    <2>1. CASE j < i
        BY <1>1, <1>2, <1>5, <2>1
    <2>2. CASE ~(j < i)
        <3>1. j - (i - 1) \in 1 .. Len(ch) - i /\ i + (j - (i - 1)) = j + 1
            BY <1>1, <2>2
        <3>2. back[j - (i - 1)] = ch[j + 1]
            BY <1>3, <3>1
        <3>3. ~(j <= i - 1)
            BY <1>1, <2>2
        <3> QED BY <1>5, <2>2, <3>2, <3>3
    <2> QED BY <2>1, <2>2
<1>7. DOMAIN (front \o back) = 1 .. Len(ch) - 1
    BY <1>5, LenProperties
<1> QED BY <1>4, <1>6, <1>7

LEMMA ChainRemove ==
    ASSUME NEW S, NEW ch \in Seq(S), NEW R, Chain(ch, R), NEW i \in DOMAIN ch
    PROVE  Chain(RemoveAt(ch, i), R)
<1> DEFINE rest == RemoveAt(ch, i)
<1>1. Len(ch) \in Nat /\ DOMAIN ch = 1 .. Len(ch) /\ i \in 1 .. Len(ch)
    BY LenProperties
<1>2. /\ DOMAIN rest = 1 .. Len(ch) - 1
      /\ \A j \in 1 .. Len(ch) - 1 : rest[j] = IF j < i THEN ch[j] ELSE ch[j + 1]
    BY RemoveAtElement
<1> HIDE DEF rest
<1>3. ASSUME NEW j \in DOMAIN rest, NEW k \in DOMAIN rest, j < k
      PROVE  <<rest[j], rest[k]>> \in R
    <2>1. PICK a \in DOMAIN ch : rest[j] = ch[a] /\ a \in {j, j + 1} /\ (a = j + 1 => j >= i)
        BY <1>1, <1>2
    <2>2. PICK b \in DOMAIN ch : rest[k] = ch[b] /\ b \in {k, k + 1} /\ (b = k => k < i)
        BY <1>1, <1>2
    <2>3. a < b
        BY <1>1, <1>2, <1>3, <2>1, <2>2
    <2> QED BY <2>1, <2>2, <2>3 DEF Chain
<1> QED BY <1>3 DEF Chain, rest

LEMMA ChainLoss ==
    ASSUME NEW S, NEW ch \in Seq(S), NEW R, Chain(ch, R), NEW rest \in Losses(ch)
    PROVE  Chain(rest, R)
BY ChainRemove DEF Losses

\* The packets behind the head are those that may follow it.
LEMMA ChainHead ==
    ASSUME NEW S, NEW ch \in Seq(S), NEW R, Chain(ch, R), 1 \in DOMAIN ch
    PROVE  RemoveAt(ch, 1) \in Seq({q \in S : <<ch[1], q>> \in R})
<1> DEFINE rest == RemoveAt(ch, 1)
<1>1. Len(ch) \in Nat /\ DOMAIN ch = 1 .. Len(ch)
    BY LenProperties
<1>2. /\ DOMAIN rest = 1 .. Len(ch) - 1
      /\ \A j \in 1 .. Len(ch) - 1 : rest[j] = IF j < 1 THEN ch[j] ELSE ch[j + 1]
    BY RemoveAtElement
<1>3. rest \in Seq(S)
    BY RemoveAtType
<1> HIDE DEF rest
<1>4. Len(rest) = Len(ch) - 1
    BY RemoveAtLen DEF rest
<1>5. ASSUME NEW j \in 1 .. Len(rest)
      PROVE  rest[j] \in {q \in S : <<ch[1], q>> \in R}
    <2>1. j + 1 \in DOMAIN ch /\ 1 < j + 1 /\ rest[j] = ch[j + 1]
        BY <1>1, <1>2, <1>4
    <2>2. rest[j] \in S
        BY <1>3, ElementOfSeq
    <2> QED BY <2>1, <2>2 DEF Chain
<1>6. rest \in Seq({q \in S : <<ch[1], q>> \in R})
    BY <1>3, <1>5, SeqInto
<1> QED BY <1>6 DEF rest

LEMMA ChainEnqueue ==
    ASSUME NEW S, NEW ch \in Seq(S), NEW R, Chain(ch, R), NEW m,
           ch \in Seq({q \in S : <<q, m>> \in R})
    PROVE  Chain(Enqueue(ch, m), R)
<1>1. Len(ch) \in Nat /\ DOMAIN ch = 1 .. Len(ch)
    BY LenProperties
<1>2. \A j \in 1 .. Len(ch) : <<ch[j], m>> \in R
    BY ElementOfSeq
<1>3. CASE Len(ch) < QueueDepth
    <2> DEFINE new == Append(ch, m)
    <2>1. /\ DOMAIN new = 1 .. Len(ch) + 1
          /\ \A j \in 1 .. Len(ch) : new[j] = ch[j]
          /\ new[Len(ch) + 1] = m
        BY <1>1
    <2> HIDE DEF new
    <2>2. ASSUME NEW j \in DOMAIN new, NEW k \in DOMAIN new, j < k
          PROVE  <<new[j], new[k]>> \in R
        <3>1. j \in 1 .. Len(ch) /\ new[j] = ch[j]
            BY <1>1, <2>1, <2>2
        <3>2. CASE k = Len(ch) + 1
            BY <1>2, <2>1, <3>1, <3>2
        <3>3. CASE k # Len(ch) + 1
            <4>1. k \in 1 .. Len(ch) /\ new[k] = ch[k]
                BY <1>1, <2>1, <3>3
            <4> QED BY <1>1, <2>2, <3>1, <4>1 DEF Chain
        <3> QED BY <3>2, <3>3
    <2>3. Enqueue(ch, m) = new
        BY <1>3 DEF Enqueue, new
    <2> QED BY <2>2, <2>3 DEF Chain
<1>4. CASE ~(Len(ch) < QueueDepth)
    BY <1>4 DEF Enqueue
<1> QED BY <1>3, <1>4

LEMMA ChainDrop ==
    ASSUME NEW S, NEW ch \in Seq(S), NEW R, Chain(ch, R),
           NEW kept \in DropPendingSends(ch)
    PROVE  Chain(kept, R)
<1>1. Len(ch) \in Nat /\ DOMAIN ch = 1 .. Len(ch)
      /\ \A j \in 1 .. Len(ch) : ch[j] \in S
    BY LenProperties, ElementOfSeq
<1>2. PICK k \in 0 .. Len(ch) : kept = SubSeq(ch, 1, k)
    BY DEF DropPendingSends
<1>3. /\ kept \in Seq(S) /\ Len(kept) = k
      /\ \A j \in 1 .. k : kept[j] = ch[j]
    BY <1>1, <1>2, SubSeqProperties
<1>4. DOMAIN kept = 1 .. k
    BY <1>3, LenProperties
<1> QED BY <1>1, <1>3, <1>4 DEF Chain

=============================================================================
