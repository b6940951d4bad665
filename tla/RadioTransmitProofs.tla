------------------------- MODULE RadioTransmitProofs -------------------------
(***************************************************************************)
(* The radio's transmit path, for any packets, any length of the queue and *)
(* any depth to which the handlers nest.                                   *)
(*                                                                         *)
(* What makes the proofs go through is the shape of the main loop's stack: *)
(* setStandby() waits for the handler it calls in one place only ("halt"), *)
(* what starts the receiver or scans the channel comes directly below it,  *)
(* and while a scan waits nothing can start a second attempt to send.      *)
(***************************************************************************)
EXTENDS RadioTransmit, SequenceTheorems, FiniteSetTheorems,
        WellFoundedInduction, TLAPS

----------------------------------------------------------------------------
(* The operators on sequences the queue is built from *)

\* By the sets 1..x, the smallest of which is contained in no other
LEMMA MinIsLeast ==
    ASSUME NEW T, T \subseteq Nat, T # {}
    PROVE  Min(T) \in T /\ \A y \in T : Min(T) <= y
  <1> DEFINE F == {1..x : x \in T}
  <1>1. F \subseteq FiniteSubsetsOf(Nat) /\ F # {}
    <2>1. \A x \in T : IsFiniteSet(1..x) /\ 1..x \subseteq Nat
      BY FS_Interval
    <2>2. \A x \in T : 1..x \in FiniteSubsetsOf(Nat)
      BY <2>1 DEF FiniteSubsetsOf
    <2> QED
      BY <2>2
  <1>2. PICK I \in F : \A J \in F : ~ (<<J, I>> \in StrictSubsetOrdering(Nat))
    BY <1>1, WFMin, FS_StrictSubsetOrderingWellFounded
  <1>3. PICK x \in T : I = 1..x
    OBVIOUS
  <1>4. \A y \in T : x <= y
    <2> SUFFICES ASSUME NEW y \in T, ~(x <= y) PROVE FALSE
      OBVIOUS
    <2>1. x \in Nat /\ y \in Nat /\ y < x
      OBVIOUS
    <2>2. 1..y \subseteq 1..x /\ x \in 1..x /\ x \notin 1..y
      BY <2>1
    <2>3. <<1..y, 1..x>> \in StrictSubsetOrdering(Nat)
      BY <2>1, <2>2 DEF StrictSubsetOrdering
    <2> QED
      BY <1>2, <1>3, <2>3
  <1> QED
    BY <1>4 DEF Min

LEMMA MaxIsGreatest ==
    ASSUME NEW n \in Nat, NEW T, T \subseteq 1..n, T # {}
    PROVE  Max(T) \in T /\ \A y \in T : y <= Max(T)
  <1> DEFINE U == {n - t : t \in T}
  <1>1. U \subseteq Nat /\ U # {}
    <2>1. \A t \in T : n - t \in Nat
      OBVIOUS
    <2> QED
      BY <2>1
  <1>2. Min(U) \in U /\ \A u \in U : Min(U) <= u
    BY <1>1, MinIsLeast
  <1>3. PICK x \in T : Min(U) = n - x
    BY <1>2
  <1>4. \A y \in T : y <= x
    <2> TAKE y \in T
    <2>1. n - x <= n - y
      BY <1>2, <1>3
    <2> QED
      BY <2>1
  <1>5. \E z \in T : \A y \in T : z >= y
    BY <1>4
  <1> QED
    BY <1>5 DEF Max

LEMMA Removed ==
    ASSUME NEW q \in Seq(Packet), NEW k \in 1..Len(q)
    PROVE  /\ RemoveAt(q, k) \in Seq(Packet)
           /\ Len(RemoveAt(q, k)) = Len(q) - 1
           /\ \A j \in 1..(Len(q) - 1) :
                 RemoveAt(q, k)[j] = IF j < k THEN q[j] ELSE q[j + 1]
  <1> DEFINE a == SubSeq(q, 1, k - 1)
             b == SubSeq(q, k + 1, Len(q))
  <1>1. /\ a \in Seq(Packet) /\ Len(a) = k - 1
        /\ \A j \in 1..(k - 1) : a[j] = q[j]
    BY SubSeqProperties
  <1>2. /\ b \in Seq(Packet) /\ Len(b) = Len(q) - k
        /\ \A j \in 1..(Len(q) - k) : b[j] = q[k + j]
    BY SubSeqProperties
  <1>3. RemoveAt(q, k) = a \o b
    BY DEF RemoveAt
  <1> HIDE DEF a, b
  <1> QED
    BY <1>1, <1>2, <1>3, ConcatProperties

LEMMA Inserts ==
    ASSUME NEW q \in Seq(Packet), NEW p \in Packet, NEW k \in 1..Len(q)
    PROVE  /\ InsertAt(q, k, p) \in Seq(Packet)
           /\ Len(InsertAt(q, k, p)) = Len(q) + 1
           /\ \A j \in 1..(Len(q) + 1) :
                 InsertAt(q, k, p)[j] = IF j < k THEN q[j]
                                        ELSE IF j = k THEN p ELSE q[j - 1]
  <1> DEFINE a == SubSeq(q, 1, k - 1)
             b == SubSeq(q, k, Len(q))
             m == a \o <<p>>
  <1>1. /\ a \in Seq(Packet) /\ Len(a) = k - 1
        /\ \A j \in 1..(k - 1) : a[j] = q[j]
    BY SubSeqProperties
  <1>2. /\ b \in Seq(Packet) /\ Len(b) = Len(q) - k + 1
        /\ \A j \in 1..(Len(q) - k + 1) : b[j] = q[k + j - 1]
    BY SubSeqProperties
  <1>3. InsertAt(q, k, p) = m \o b
    BY DEF InsertAt
  <1>4. <<p>> \in Seq(Packet) /\ Len(<<p>>) = 1 /\ <<p>>[1] = p
    OBVIOUS
  <1> HIDE DEF a, b
  <1>5. /\ m \in Seq(Packet) /\ Len(m) = k
        /\ \A j \in 1..k : m[j] = IF j < k THEN a[j] ELSE p
    BY <1>1, <1>4, ConcatProperties
  <1> HIDE DEF m
  <1>6. /\ m \o b \in Seq(Packet) /\ Len(m \o b) = Len(m) + Len(b)
        /\ \A j \in 1..(Len(m) + Len(b)) :
              (m \o b)[j] = IF j <= Len(m) THEN m[j] ELSE b[j - Len(m)]
    BY <1>2, <1>5, ConcatProperties
  <1>7. Len(q) \in Nat /\ Len(m) = k /\ Len(m) + Len(b) = Len(q) + 1
    BY <1>2, <1>5
  <1> SUFFICES ASSUME NEW j \in 1..(Len(q) + 1)
               PROVE  (m \o b)[j] = IF j < k THEN q[j]
                                    ELSE IF j = k THEN p ELSE q[j - 1]
    BY <1>3, <1>6, <1>7
  <1>8. j \in Nat /\ k \in Nat /\ j >= 1 /\ j <= Len(m) + Len(b)
    BY <1>7
  <1>9. CASE j <= k
    <2>1. (m \o b)[j] = m[j] /\ m[j] = IF j < k THEN a[j] ELSE p
      BY <1>5, <1>6, <1>7, <1>8, <1>9
    <2>2. j < k => a[j] = q[j]
      BY <1>1, <1>8
    <2> QED
      BY <1>8, <1>9, <2>1, <2>2
  <1>10. CASE j > k
    <2>1. (m \o b)[j] = b[j - k] /\ j - k \in 1..(Len(q) - k + 1)
      BY <1>6, <1>7, <1>8, <1>10
    <2> QED
      BY <1>2, <1>8, <1>10, <2>1
  <1> QED
    BY <1>8, <1>9, <1>10

----------------------------------------------------------------------------
(* The queue keeps its order *)

Sorted(q) == \A i, j \in 1..Len(q) : i < j => ~Before(q[j], q[i])

LEMMA BeforeIsOrder ==
    ASSUME NEW p \in Packet, NEW q \in Packet, NEW r \in Packet
    PROVE  /\ Before(p, q) => ~Before(q, p)
           /\ Before(p, q) /\ Before(q, r) => Before(p, r)
  <1>1. /\ p.priority \in Nat /\ q.priority \in Nat /\ r.priority \in Nat
        /\ p.late \in BOOLEAN /\ q.late \in BOOLEAN /\ r.late \in BOOLEAN
        /\ p.ours \in BOOLEAN /\ q.ours \in BOOLEAN /\ r.ours \in BOOLEAN
    BY DEF Packet
  <1> QED
    BY <1>1 DEF Before

\* The place std::upper_bound finds, and what stands before and behind it
LEMMA InsertedAt ==
    ASSUME NEW q \in Seq(Packet), NEW p \in Packet
    PROVE  /\ Inserted(q, p) \in Seq(Packet)
           /\ Len(Inserted(q, p)) = Len(q) + 1
           /\ \E m \in 1..(Len(q) + 1) :
                 /\ \A j \in 1..(Len(q) + 1) :
                       Inserted(q, p)[j] = IF j < m THEN q[j]
                                           ELSE IF j = m THEN p ELSE q[j - 1]
                 /\ \A j \in 1..(m - 1) : ~Before(p, q[j])
                 /\ m <= Len(q) => Before(p, q[m])
  <1> DEFINE I == {k \in 1..Len(q) : Before(p, q[k])}
             i == SelectInSeq(q, LAMBDA x : Before(p, x))
  <1>0. Len(q) \in Nat
    OBVIOUS
  <1>1. i = IF I # {} THEN Min(I) ELSE 0
    BY DEF SelectInSeq
  <1>2. Inserted(q, p) = IF i = 0 THEN Append(q, p) ELSE InsertAt(q, i, p)
    BY DEF Inserted
  <1> DEFINE r == Inserted(q, p)
             At(m) == \A j \in 1..(Len(q) + 1) :
                         r[j] = IF j < m THEN q[j]
                                ELSE IF j = m THEN p ELSE q[j - 1]
             Between(m) == /\ \A j \in 1..(m - 1) : ~Before(p, q[j])
                           /\ m <= Len(q) => Before(p, q[m])
  <1>3. CASE I = {}
    <2>1. r = Append(q, p)
      BY <1>1, <1>2, <1>3
    <2>2. r \in Seq(Packet) /\ Len(r) = Len(q) + 1
      BY <2>1, AppendProperties
    <2> HIDE DEF r
    <2>3. Len(q) + 1 \in 1..(Len(q) + 1)
      BY <1>0
    <2>4. At(Len(q) + 1)
      BY <1>0, <2>1, AppendProperties
    <2>5. Between(Len(q) + 1)
      BY <1>0, <1>3
    <2> HIDE DEF At, Between
    <2>6. \E m \in 1..(Len(q) + 1) : At(m) /\ Between(m)
      BY <2>3, <2>4, <2>5
    <2> QED
      BY <2>2, <2>6 DEF r, At, Between
  <1>4. CASE I # {}
    <2>1. Min(I) \in I /\ \A y \in I : Min(I) <= y
      <3>1. I \subseteq Nat
        BY <1>0
      <3> QED
        BY <1>4, <3>1, MinIsLeast
    <2>2. i = Min(I)
      BY <1>1, <1>4
    <2> HIDE DEF i
    <2>3. i \in 1..Len(q) /\ Before(p, q[i]) /\ r = InsertAt(q, i, p)
      BY <1>0, <1>2, <2>1, <2>2
    <2>4. \A j \in 1..(i - 1) : ~Before(p, q[j])
      BY <1>0, <2>1, <2>2, <2>3
    <2>5. r \in Seq(Packet) /\ Len(r) = Len(q) + 1 /\ At(i)
      <3>1. PICK k \in 1..Len(q) : r = InsertAt(q, k, p) /\ k = i
        BY <2>3
      <3> HIDE DEF r
      <3>2. r \in Seq(Packet) /\ Len(r) = Len(q) + 1 /\ At(k)
        BY <3>1, Inserts
      <3> QED
        BY <3>1, <3>2
    <2> HIDE DEF r
    <2>6. i \in 1..(Len(q) + 1) /\ Between(i)
      BY <1>0, <2>3, <2>4
    <2> HIDE DEF At, Between
    <2>7. \E m \in 1..(Len(q) + 1) : At(m) /\ Between(m)
      BY <2>5, <2>6
    <2> QED
      BY <2>5, <2>7 DEF r, At, Between
  <1> QED
    BY <1>3, <1>4

LEMMA InsertSorted ==
    ASSUME NEW q \in Seq(Packet), NEW p \in Packet, Sorted(q)
    PROVE  Sorted(Inserted(q, p))
  <1> DEFINE r == Inserted(q, p)
  <1>1. PICK m \in 1..(Len(q) + 1) :
              /\ Len(r) = Len(q) + 1
              /\ \A j \in 1..(Len(q) + 1) :
                    r[j] = IF j < m THEN q[j] ELSE IF j = m THEN p ELSE q[j - 1]
              /\ \A j \in 1..(m - 1) : ~Before(p, q[j])
              /\ m <= Len(q) => Before(p, q[m])
    BY InsertedAt
  <1>2. Len(q) \in Nat /\ \A j \in 1..Len(q) : q[j] \in Packet
    OBVIOUS
  <1>3. \A j \in m..Len(q) : ~Before(q[j], p)
    <2> TAKE j \in m..Len(q)
    <2>1. Before(p, q[m]) /\ q[m] \in Packet /\ q[j] \in Packet
      BY <1>1, <1>2
    <2>2. j = m \/ ~Before(q[j], q[m])
      BY <1>2 DEF Sorted
    <2> QED
      BY <2>1, <2>2, BeforeIsOrder
  <1> HIDE DEF r
  <1>4. SUFFICES ASSUME NEW i \in 1..(Len(q) + 1), NEW j \in 1..(Len(q) + 1), i < j
                 PROVE  ~Before(r[j], r[i])
    BY <1>1 DEF Sorted, r
  <1>5. CASE j < m
    BY <1>1, <1>2, <1>4, <1>5 DEF Sorted
  <1>6. CASE i > m
    <2>1. r[i] = q[i - 1] /\ r[j] = q[j - 1]
          /\ i - 1 \in 1..Len(q) /\ j - 1 \in 1..Len(q) /\ i - 1 < j - 1
      BY <1>1, <1>2, <1>4, <1>6
    <2> QED
      BY <2>1 DEF Sorted
  <1>7. CASE i < m /\ j > m
    <2>1. r[i] = q[i] /\ r[j] = q[j - 1]
          /\ i \in 1..Len(q) /\ j - 1 \in 1..Len(q) /\ i < j - 1 + 1
      BY <1>1, <1>2, <1>4, <1>7
    <2>2. i < j - 1
      BY <1>2, <1>7
    <2> QED
      BY <2>1, <2>2 DEF Sorted
  <1>8. CASE i < m /\ j = m
    <2>1. r[i] = q[i] /\ r[j] = p /\ i \in 1..(m - 1) /\ i \in 1..Len(q)
      BY <1>1, <1>2, <1>4, <1>8
    <2> QED
      BY <1>1, <2>1
  <1>9. CASE i = m
    <2>1. r[i] = p /\ r[j] = q[j - 1] /\ j - 1 \in m..Len(q) /\ j - 1 \in 1..Len(q)
      BY <1>1, <1>2, <1>4, <1>9
    <2> QED
      BY <1>3, <2>1
  <1> QED
    BY <1>2, <1>4, <1>5, <1>6, <1>7, <1>8, <1>9

LEMMA RemoveSorted ==
    ASSUME NEW q \in Seq(Packet), NEW k \in 1..Len(q), Sorted(q)
    PROVE  Sorted(RemoveAt(q, k))
  <1> DEFINE r == RemoveAt(q, k)
  <1>0. Len(q) \in Nat
    OBVIOUS
  <1>1. /\ Len(r) = Len(q) - 1
        /\ \A j \in 1..(Len(q) - 1) : r[j] = IF j < k THEN q[j] ELSE q[j + 1]
    BY Removed
  <1> HIDE DEF r
  <1>2. \A j \in 1..(Len(q) - 1) :
           \E i \in 1..Len(q) : r[j] = q[i] /\ i = IF j < k THEN j ELSE j + 1
    BY <1>0, <1>1
  <1> SUFFICES ASSUME NEW i \in 1..Len(r), NEW j \in 1..Len(r), i < j
               PROVE  ~Before(r[j], r[i])
    BY DEF Sorted, r
  <1>3. PICK a \in 1..Len(q) : r[i] = q[a] /\ a = IF i < k THEN i ELSE i + 1
    BY <1>1, <1>2
  <1>4. PICK b \in 1..Len(q) : r[j] = q[b] /\ b = IF j < k THEN j ELSE j + 1
    BY <1>1, <1>2
  <1>5. a < b
    BY <1>0, <1>1, <1>3, <1>4
  <1> QED
    BY <1>3, <1>4, <1>5 DEF Sorted

LEMMA CopiesCount ==
    ASSUME NEW q \in Seq(Packet), NEW x
    PROVE  /\ IsFiniteSet({i \in DOMAIN q : q[i] = x})
           /\ Copies(q, x) \in Nat
  <1> DEFINE S == {i \in DOMAIN q : q[i] = x}
  <1>1. DOMAIN q = 1..Len(q) /\ Len(q) \in Int
    OBVIOUS
  <1>2. IsFiniteSet(1..Len(q)) /\ S \in SUBSET (1..Len(q))
    BY <1>1, FS_Interval
  <1>3. Copies(q, x) = Cardinality(S)
    BY DEF Copies
  <1> HIDE DEF S
  <1>4. IsFiniteSet(S)
    BY <1>2, FS_Subset
  <1>5. Cardinality(S) \in Nat
    BY <1>4, FS_CardinalityType
  <1> QED
    BY <1>3, <1>4, <1>5 DEF S

\* Copies are counted by their places: when every place of x in q has one of its
\* own in r, r holds at least as many copies
LEMMA NoFewer ==
    ASSUME NEW q \in Seq(Packet), NEW r \in Seq(Packet), NEW x,
           NEW f \in [DOMAIN q -> Nat],
           \A i \in DOMAIN q : q[i] = x => f[i] \in DOMAIN r /\ r[f[i]] = x,
           \A i, j \in DOMAIN q : q[i] = x /\ q[j] = x /\ f[i] = f[j] => i = j
    PROVE  ~(Copies(r, x) < Copies(q, x))
  <1> DEFINE S == {i \in DOMAIN q : q[i] = x}
             T == {i \in DOMAIN r : r[i] = x}
             g == [i \in S |-> f[i]]
  <1>1. \A i \in S : f[i] \in T
    OBVIOUS
  <1>2. \A i, j \in S : f[i] = f[j] => i = j
    OBVIOUS
  <1>3. IsFiniteSet(S) /\ IsFiniteSet(T)
    BY CopiesCount
  <1>4. Copies(q, x) = Cardinality(S) /\ Copies(r, x) = Cardinality(T)
    BY DEF Copies
  <1> HIDE DEF S, T
  <1>5. g \in Injection(S, T)
    BY <1>1, <1>2 DEF Injection, IsInjective
  <1>6. Cardinality(S) <= Cardinality(T)
    BY <1>3, <1>5, FS_Injection
  <1>7. Cardinality(S) \in Nat /\ Cardinality(T) \in Nat
    BY <1>3, FS_CardinalityType
  <1> QED
    BY <1>4, <1>6, <1>7

\* What was in the queue still is after a packet was put in ...
LEMMA InsertKeeps ==
    ASSUME NEW q \in Seq(Packet), NEW p \in Packet, NEW x
    PROVE  ~(Copies(Inserted(q, p), x) < Copies(q, x))
  <1> DEFINE r == Inserted(q, p)
  <1>1. PICK m \in 1..(Len(q) + 1) :
              /\ r \in Seq(Packet) /\ Len(r) = Len(q) + 1
              /\ \A j \in 1..(Len(q) + 1) :
                    r[j] = IF j < m THEN q[j] ELSE IF j = m THEN p ELSE q[j - 1]
    BY InsertedAt
  <1> HIDE DEF r
  <1> DEFINE f == [i \in DOMAIN q |-> IF i < m THEN i ELSE i + 1]
  <1>2. DOMAIN q = 1..Len(q) /\ DOMAIN r = 1..(Len(q) + 1) /\ Len(q) \in Nat
    BY <1>1
  <1>3. f \in [DOMAIN q -> Nat]
    BY <1>2
  <1>4. ASSUME NEW i \in DOMAIN q
        PROVE  f[i] \in DOMAIN r /\ r[f[i]] = q[i]
    <2>1. CASE i < m
      BY <1>1, <1>2, <2>1
    <2>2. CASE i >= m
      <3>1. f[i] = i + 1 /\ i + 1 \in DOMAIN r /\ i + 1 > m /\ (i + 1) - 1 = i
        BY <1>2, <2>2
      <3> HIDE DEF f
      <3> QED
        BY <1>1, <1>2, <3>1
    <2> QED
      BY <1>2, <2>1, <2>2
  <1>5. \A i, j \in DOMAIN q : f[i] = f[j] => i = j
    BY <1>2
  <1> HIDE DEF f
  <1>6. ~(Copies(r, x) < Copies(q, x))
    BY <1>1, <1>3, <1>4, <1>5, NoFewer
  <1> QED
    BY <1>6 DEF r

\* ... and, but for the packet itself, after one was taken out
LEMMA RemoveKeeps ==
    ASSUME NEW q \in Seq(Packet), NEW k \in 1..Len(q), NEW x, q[k] # x
    PROVE  ~(Copies(RemoveAt(q, k), x) < Copies(q, x))
  <1> DEFINE r == RemoveAt(q, k)
  <1>1. /\ r \in Seq(Packet) /\ Len(r) = Len(q) - 1
        /\ \A j \in 1..(Len(q) - 1) : r[j] = IF j < k THEN q[j] ELSE q[j + 1]
    BY Removed
  <1> HIDE DEF r
  <1> DEFINE f == [i \in DOMAIN q |-> IF i <= k THEN i ELSE i - 1]
  <1>2. DOMAIN q = 1..Len(q) /\ DOMAIN r = 1..(Len(q) - 1) /\ Len(q) \in Nat
    BY <1>1
  <1>3. f \in [DOMAIN q -> Nat]
    BY <1>2
  <1>4. ASSUME NEW i \in DOMAIN q, q[i] = x
        PROVE  f[i] \in DOMAIN r /\ r[f[i]] = x
    <2>1. CASE i < k
      BY <1>1, <1>2, <1>4, <2>1
    <2>2. CASE i > k
      <3>1. f[i] = i - 1 /\ i - 1 \in DOMAIN r /\ ~(i - 1 < k) /\ (i - 1) + 1 = i
        BY <1>2, <2>2
      <3> HIDE DEF f
      <3> QED
        BY <1>1, <1>2, <1>4, <3>1
    <2> QED
      BY <1>2, <1>4, <2>1, <2>2
  <1>5. \A i, j \in DOMAIN q : q[i] = x /\ q[j] = x /\ f[i] = f[j] => i = j
    BY <1>2
  <1> HIDE DEF f
  <1>6. ~(Copies(r, x) < Copies(q, x))
    BY <1>1, <1>3, <1>4, <1>5, NoFewer
  <1> QED
    BY <1>6 DEF r

\* The packet that is given up is the last one outside the late window
LEMMA VictimIsLast ==
    ASSUME NEW q \in Seq(Packet), Victim(q) # 0
    PROVE  /\ Victim(q) \in 1..Len(q) /\ ~q[Victim(q)].late
           /\ \A k \in 1..Len(q) : ~q[k].late => k <= Victim(q)
  <1> DEFINE I == {k \in 1..Len(q) : ~q[k].late}
  <1>1. Victim(q) = IF I # {} THEN Max(I) ELSE 0
    BY DEF Victim, SelectLastInSeq
  <1>2. Max(I) \in I /\ \A y \in I : y <= Max(I)
    <2>1. Len(q) \in Nat /\ I \subseteq 1..Len(q) /\ I # {}
      BY <1>1
    <2> QED
      BY <2>1, MaxIsGreatest
  <1> QED
    BY <1>1, <1>2

LEMMA EnqueuedWell ==
    ASSUME NEW q \in Seq(Packet), NEW p \in Packet, Sorted(q),
           Len(q) <= MaxLen, Accepts(q, p)
    PROVE  /\ Enqueued(q, p) \in Seq(Packet) /\ Sorted(Enqueued(q, p))
           /\ Len(Enqueued(q, p)) <= MaxLen
  <1>1. Len(q) \in Nat /\ MaxLen \in Nat
    BY PacketsAssumption
  <1>2. CASE Len(q) < MaxLen
    BY <1>1, <1>2, InsertedAt, InsertSorted DEF Enqueued
  <1>3. CASE ~(Len(q) < MaxLen)
    <2>1. Victim(q) # 0
      BY <1>3 DEF Accepts, Replaceable
    <2>2. PICK k \in 1..Len(q) : k = Victim(q)
      BY <2>1, VictimIsLast
    <2>3. /\ RemoveAt(q, k) \in Seq(Packet) /\ Len(RemoveAt(q, k)) = Len(q) - 1
          /\ Sorted(RemoveAt(q, k))
      BY Removed, RemoveSorted
    <2>4. Enqueued(q, p) = Inserted(RemoveAt(q, k), p)
      BY <1>3, <2>2 DEF Enqueued
    <2> QED
      BY <1>1, <2>3, <2>4, InsertedAt, InsertSorted
  <1> QED
    BY <1>2, <1>3

QueueInv == queue \in Seq(Packet) /\ Len(queue) <= MaxLen /\ Sorted(queue)

\* Taking a packet out anywhere
LEMMA RemovedWell ==
    ASSUME QueueInv, NEW k \in 1..Len(queue), queue' = RemoveAt(queue, k)
    PROVE  QueueInv'
  <1>1. Len(queue) \in Nat /\ MaxLen \in Nat
    BY PacketsAssumption DEF QueueInv
  <1> QED
    BY <1>1, Removed, RemoveSorted DEF QueueInv

LEMMA TakenWell ==
    ASSUME QueueInv, queue # <<>>, queue' = Tail(queue)
    PROVE  QueueInv'
  <1>1. /\ Len(queue) \in Nat \ {0} /\ MaxLen \in Nat
        /\ queue' \in Seq(Packet) /\ Len(queue') = Len(queue) - 1
        /\ \A i \in 1..Len(queue') : queue'[i] = queue[i + 1]
    BY PacketsAssumption, HeadTailProperties DEF QueueInv
  <1>2. Sorted(queue')
    <2> SUFFICES ASSUME NEW i \in 1..Len(queue'), NEW j \in 1..Len(queue'), i < j
                 PROVE  ~Before(queue'[j], queue'[i])
      BY DEF Sorted
    <2>1. /\ i + 1 \in 1..Len(queue) /\ j + 1 \in 1..Len(queue) /\ i + 1 < j + 1
          /\ queue'[i] = queue[i + 1] /\ queue'[j] = queue[j + 1]
      BY <1>1
    <2> QED
      BY <2>1 DEF QueueInv, Sorted
  <1> QED
    BY <1>1, <1>2 DEF QueueInv

LEMMA SendWell ==
    ASSUME QueueInv, NEW p \in Packets, Send(p)
    PROVE  QueueInv'
  <1>1. p \in Packet /\ MaxLen \in Nat \ {0}
    BY PacketsAssumption
  <1>2. Accepts(queue, p) /\ queue' = Enqueued(queue, p)
    BY DEF Send
  <1> QED
    BY <1>1, <1>2, EnqueuedWell DEF QueueInv

\* Callers who search the queue take out, or move, the packet they find
LEMMA FirstOf ==
    ASSUME QueueInv, NEW I \in SUBSET (1..Len(queue)), I # {}
    PROVE  Min(I) \in I
  <1>1. Len(queue) \in Nat
    BY DEF QueueInv
  <1>2. I \subseteq Nat
    BY <1>1
  <1> QED
    BY <1>2, MinIsLeast

LEMMA CallersWell ==
    ASSUME QueueInv, NEW id, NEW hop,
           Cancel(id) \/ ClampToLate(id) \/ RemovePending(id, hop)
    PROVE  QueueInv' /\ queue # <<>> /\ stack = <<>> /\ UNCHANGED stack
  <1> DEFINE Same  == {k \in 1..Len(queue) : queue[k].id = id}
             Worse == {k \in 1..Len(queue) : queue[k].id = id /\ queue[k].hop < hop}
             Early == {k \in 1..Len(queue) : queue[k].id = id /\ ~queue[k].late}
  <1>0. stack = <<>> /\ UNCHANGED stack
    BY DEF Cancel, ClampToLate, RemovePending, InMainLoop
  <1>1. CASE Cancel(id)
    <2>1. Same # {}
      BY <1>1 DEF Cancel, Queued, QueueInv
    <2>2. queue' = RemoveAt(queue, Min(Same))
      BY <1>1, <2>1 DEF Cancel, RemoveFirstMatch, SelectInSeq
    <2>3. PICK k \in 1..Len(queue) : queue' = RemoveAt(queue, k)
      BY <2>1, <2>2, FirstOf
    <2> QED
      BY <1>0, <2>3, RemovedWell
  <1>2. CASE RemovePending(id, hop)
    <2>1. Worse # {} /\ queue' = RemoveAt(queue, Min(Worse))
      BY <1>2 DEF RemovePending, RemoveFirstMatch, SelectInSeq
    <2>2. PICK k \in 1..Len(queue) : queue' = RemoveAt(queue, k)
      BY <2>1, FirstOf
    <2> QED
      BY <1>0, <2>2, RemovedWell
  <1>3. CASE ClampToLate(id)
    <2>1. Early # {} /\ queue' = Enqueued(RemoveAt(queue, Min(Early)),
                                          [queue[Min(Early)] EXCEPT !.late = TRUE])
      BY <1>3 DEF ClampToLate, SelectInSeq
    <2>2. PICK i \in 1..Len(queue) : i = Min(Early)
      BY <2>1, FirstOf
    <2> DEFINE p == [queue[i] EXCEPT !.late = TRUE]
               q == RemoveAt(queue, i)
    <2>3. p \in Packet
      <3>1. queue[i] \in Packet
        BY DEF QueueInv
      <3> QED
        BY <3>1 DEF Packet
    <2>4. q \in Seq(Packet) /\ Len(q) = Len(queue) - 1 /\ Sorted(q)
      BY Removed, RemoveSorted DEF QueueInv
    <2>5. queue' = Enqueued(q, p)
      BY <2>1, <2>2
    <2>6. Len(q) < MaxLen /\ Len(q) <= MaxLen /\ Len(queue) \in Nat
      BY <2>4, PacketsAssumption DEF QueueInv
    <2> HIDE DEF p, q
    <2>7. QueueInv'
      BY <2>3, <2>4, <2>5, <2>6, EnqueuedWell DEF QueueInv, Accepts
    <2> QED
      BY <1>0, <2>6, <2>7 DEF QueueInv
  <1> QED
    BY <1>1, <1>2, <1>3

----------------------------------------------------------------------------
(* The shape of the stack *)

\* What can wait below the statement on top
Waiting == {"halt", "rxOn", "setDelay", "scan", "listen", "off"}
Attempt == {"delayed", "scan", "send"}

\* startReceive() at the end of a reconfiguration is the last thing to do; a
\* scan and the start of the receiver come directly below the standby they
\* wait for; above a waiting scan there is no second attempt to send.
Shape(s) ==
    \A i \in 2..Len(s) :
        /\ s[i] \in Waiting
        /\ s[i] = "listen" => i = Len(s)
        /\ s[i] \in {"scan", "rxOn"} =>
              s[i - 1] = "halt" \/ (i = 2 /\ s[1] = "standby")
        /\ s[i] = "scan" => \A j \in 1..(i - 1) : s[j] \notin Attempt

ScanWaits(s) == \E i \in 2..Len(s) : s[i] = "scan"

\* What puts the chip in standby is followed by what looks at the queue again
Stops == {"halt", "standby", "listen"}
Looks == {"setDelay", "scan"}
Resumes(s) == \A i \in 1..Len(s) :
                 s[i] \in Stops => \E j \in (i + 1)..Len(s) : s[j] \in Looks

LEMMA PopElements ==
    ASSUME NEW s \in Seq(Statements), s # <<>>, NEW t, t = <<>> \o Tail(s)
    PROVE  /\ t \in Seq(Statements) /\ Len(s) \in Nat \ {0} /\ Len(t) = Len(s) - 1
           /\ \A i \in 1..Len(t) : t[i] = s[i + 1]
  BY HeadTailProperties, ConcatEmptySeq, EmptySeq

LEMMA PopShape ==
    ASSUME NEW s \in Seq(Statements), s # <<>>, Shape(s), s[1] # "standby",
           NEW t \in Seq(Statements), Len(t) = Len(s) - 1,
           \A i \in 1..Len(t) : t[i] = s[i + 1]
    PROVE  /\ Shape(t)
           /\ t # <<>> => /\ t[1] \in Waiting
                          /\ t[1] \in {"scan", "rxOn"} => s[1] = "halt"
                          /\ t[1] = "listen" => ~ScanWaits(t)
           /\ \A i \in 2..Len(s) : \E j \in 1..Len(t) : t[j] = s[i]
           /\ Resumes(s) => Resumes(t)
  <1>1. Len(s) \in Nat \ {0} /\ Len(t) \in Nat /\ Len(t) = Len(s) - 1
        /\ \A i \in 1..Len(t) : t[i] = s[i + 1]
    BY EmptySeq
  <1>2. \A i \in 1..Len(t) : i + 1 \in 2..Len(s)
    BY <1>1
  <1>3. Shape(t)
    <2> SUFFICES ASSUME NEW i \in 2..Len(t)
                 PROVE  /\ t[i] \in Waiting
                        /\ t[i] = "listen" => i = Len(t)
                        /\ t[i] \in {"scan", "rxOn"} => t[i - 1] = "halt"
                        /\ t[i] = "scan" => \A j \in 1..(i - 1) : t[j] \notin Attempt
      BY DEF Shape
    <2>1. /\ i + 1 \in 2..Len(s) /\ t[i] = s[i + 1] /\ t[i - 1] = s[(i + 1) - 1]
          /\ i + 1 # 2 /\ (i + 1 = Len(s) => i = Len(t))
      <3>1. i \in 1..Len(t) /\ i - 1 \in 1..Len(t) /\ i \in Nat
            /\ (i - 1) + 1 = (i + 1) - 1
        BY <1>1
      <3>2. t[i] = s[i + 1] /\ t[i - 1] = s[(i + 1) - 1]
        BY <1>1, <3>1
      <3>3. i + 1 \in 2..Len(s) /\ i + 1 # 2 /\ (i + 1 = Len(s) => i = Len(t))
        <4>1. Len(s) \in Nat /\ Len(t) = Len(s) - 1 /\ i \in Nat /\ 2 <= i /\ i <= Len(t)
          BY <1>1
        <4> QED
          BY <4>1
      <3> QED
        BY <3>2, <3>3
    <2>2. \A j \in 1..(i - 1) : j + 1 \in 1..((i + 1) - 1) /\ t[j] = s[j + 1]
      BY <1>1
    <2>3. t[i] = "scan" => \A j \in 1..(i - 1) : t[j] \notin Attempt
      BY <2>1, <2>2 DEF Shape
    <2>4. /\ t[i] \in Waiting
          /\ t[i] = "listen" => i = Len(t)
          /\ t[i] \in {"scan", "rxOn"} => t[i - 1] = "halt"
      BY <2>1 DEF Shape
    <2> QED
      BY <2>3, <2>4
  <1>4. ASSUME t # <<>>
        PROVE  /\ t[1] \in Waiting
               /\ t[1] \in {"scan", "rxOn"} => s[1] = "halt"
               /\ t[1] = "listen" => ~ScanWaits(t)
    <2>1. t[1] = s[2] /\ 2 \in 2..Len(s) /\ 1 \in 1..Len(t) /\ 2 - 1 = 1
      BY <1>1, <1>4
    <2>2. t[1] = "listen" => Len(t) = 1
      BY <1>1, <2>1 DEF Shape
    <2>3. t[1] = "listen" => ~ScanWaits(t)
      BY <2>2 DEF ScanWaits
    <2>4. t[1] \in Waiting /\ (t[1] \in {"scan", "rxOn"} => s[1] = "halt")
      BY <2>1 DEF Shape
    <2> QED
      BY <2>3, <2>4
  <1>5. \A i \in 2..Len(s) : \E j \in 1..Len(t) : t[j] = s[i]
    <2> TAKE i \in 2..Len(s)
    <2>1. i - 1 \in 1..Len(t) /\ t[i - 1] = s[i]
      BY <1>1
    <2> QED
      BY <2>1
  <1>6. ASSUME Resumes(s) PROVE Resumes(t)
    <2> SUFFICES ASSUME NEW i \in 1..Len(t), t[i] \in Stops
                 PROVE  \E j \in (i + 1)..Len(t) : t[j] \in Looks
      BY DEF Resumes
    <2>1. PICK j \in (i + 2)..Len(s) : s[j] \in Looks
      <3>1. i + 1 \in 1..Len(s) /\ s[i + 1] \in Stops
        BY <1>1
      <3>2. (i + 1) + 1 = i + 2
        OBVIOUS
      <3> QED
        BY <1>6, <3>1, <3>2 DEF Resumes
    <2>2. j - 1 \in (i + 1)..Len(t) /\ t[j - 1] = s[j]
      BY <1>1
    <2> QED
      BY <2>1, <2>2
  <1> QED
    BY <1>3, <1>4, <1>5, <1>6

LEMMA Pop ==
    ASSUME NEW s \in Seq(Statements), s # <<>>, Shape(s), s[1] # "standby",
           NEW t, t = <<>> \o Tail(s)
    PROVE  /\ t \in Seq(Statements) /\ Shape(t)
           /\ Len(t) = Len(s) - 1 /\ \A i \in 1..Len(t) : t[i] = s[i + 1]
           /\ t # <<>> => /\ t[1] \in Waiting
                          /\ t[1] \in {"scan", "rxOn"} => s[1] = "halt"
                          /\ t[1] = "listen" => ~ScanWaits(t)
           /\ \A i \in 2..Len(s) : \E j \in 1..Len(t) : t[j] = s[i]
           /\ Resumes(s) => Resumes(t)
  <1>1. /\ t \in Seq(Statements) /\ Len(t) = Len(s) - 1
        /\ \A i \in 1..Len(t) : t[i] = s[i + 1]
    BY PopElements
  <1>2. PICK u \in Seq(Statements) : u = t
    BY <1>1
  <1> QED
    BY <1>1, <1>2, PopShape

LEMMA Swap ==
    ASSUME NEW s \in Seq(Statements), s # <<>>, Shape(s),
           s[1] \notin {"halt", "standby"}, NEW a \in Statements,
           ScanWaits(s) => a \notin Attempt, NEW t, t = <<a>> \o Tail(s)
    PROVE  /\ t \in Seq(Statements) /\ Shape(t) /\ t # <<>> /\ t[1] = a
           /\ Len(t) = Len(s) /\ \A i \in 2..Len(s) : t[i] = s[i]
           /\ Resumes(s) /\ a \notin Stops => Resumes(t)
  <1>1. Tail(s) \in Seq(Statements) /\ Len(s) \in Nat \ {0}
        /\ Len(Tail(s)) = Len(s) - 1
        /\ \A i \in 1..(Len(s) - 1) : Tail(s)[i] = s[i + 1]
    BY HeadTailProperties, EmptySeq
  <1>2. <<a>> \in Seq(Statements) /\ Len(<<a>>) = 1 /\ <<a>>[1] = a
    OBVIOUS
  <1>3. /\ t \in Seq(Statements) /\ Len(t) = Len(s) /\ t[1] = a
        /\ \A i \in 2..Len(s) : t[i] = s[i]
    <2>1. /\ t \in Seq(Statements) /\ Len(t) = 1 + (Len(s) - 1)
          /\ \A i \in 1..(1 + (Len(s) - 1)) :
                t[i] = IF i <= 1 THEN <<a>>[i] ELSE Tail(s)[i - 1]
      BY <1>1, <1>2, ConcatProperties
    <2> QED
      BY <1>1, <1>2, <2>1
  <1>4. Shape(t)
    <2> SUFFICES ASSUME NEW i \in 2..Len(s)
                 PROVE  /\ t[i] \in Waiting
                        /\ t[i] = "listen" => i = Len(t)
                        /\ t[i] \in {"scan", "rxOn"} => t[i - 1] = "halt"
                        /\ t[i] = "scan" => \A j \in 1..(i - 1) : t[j] \notin Attempt
      BY <1>3 DEF Shape
    <2>1. t[i] = s[i]
      BY <1>3
    <2>2. t[i] \in {"scan", "rxOn"} => i # 2 /\ s[i - 1] = "halt"
      BY <2>1 DEF Shape
    <2>3. i # 2 => t[i - 1] = s[i - 1]
      BY <1>1, <1>3
    <2>4. t[i] = "scan" => \A j \in 1..(i - 1) : t[j] \notin Attempt
      <3> SUFFICES ASSUME t[i] = "scan", NEW j \in 1..(i - 1)
                   PROVE  t[j] \notin Attempt
        OBVIOUS
      <3>1. j = 1 \/ (j \in 2..Len(s) /\ t[j] = s[j])
        BY <1>1, <1>3
      <3> QED
        BY <1>3, <2>1, <3>1 DEF Shape, ScanWaits
    <2> QED
      BY <1>3, <2>1, <2>2, <2>3, <2>4 DEF Shape
  <1>5. ASSUME Resumes(s), a \notin Stops PROVE Resumes(t)
    <2> SUFFICES ASSUME NEW i \in 1..Len(s), t[i] \in Stops
                 PROVE  \E j \in (i + 1)..Len(s) : t[j] \in Looks
      BY <1>3 DEF Resumes
    <2>1. i \in 2..Len(s) /\ s[i] \in Stops
      BY <1>1, <1>3, <1>5
    <2>2. PICK j \in (i + 1)..Len(s) : s[j] \in Looks
      BY <1>5, <2>1 DEF Resumes
    <2> QED
      BY <1>1, <1>3, <2>1, <2>2
  <1> QED
    BY <1>1, <1>3, <1>4, <1>5

LEMMA PushElements ==
    ASSUME NEW s \in Seq(Statements), s # <<>>, NEW a \in Statements,
           NEW b \in Statements, NEW t, t = <<a, b>> \o Tail(s)
    PROVE  /\ t \in Seq(Statements) /\ Len(t) = Len(s) + 1 /\ t[1] = a /\ t[2] = b
           /\ \A i \in 3..(Len(s) + 1) : t[i] = s[i - 1]
           /\ \A i \in 2..Len(s) : t[i + 1] = s[i] /\ i + 1 \in 1..Len(t)
  <1>1. Tail(s) \in Seq(Statements) /\ Len(s) \in Nat \ {0}
        /\ Len(Tail(s)) = Len(s) - 1
        /\ \A i \in 1..(Len(s) - 1) : Tail(s)[i] = s[i + 1]
    BY HeadTailProperties, EmptySeq
  <1>2. <<a, b>> \in Seq(Statements) /\ Len(<<a, b>>) = 2
        /\ <<a, b>>[1] = a /\ <<a, b>>[2] = b
    OBVIOUS
  <1>3. /\ t \in Seq(Statements) /\ Len(t) = Len(s) + 1 /\ t[1] = a /\ t[2] = b
        /\ \A i \in 3..(Len(s) + 1) : t[i] = s[i - 1]
    <2>1. /\ t \in Seq(Statements) /\ Len(t) = 2 + (Len(s) - 1)
          /\ \A i \in 1..(2 + (Len(s) - 1)) :
                t[i] = IF i <= 2 THEN <<a, b>>[i] ELSE Tail(s)[i - 2]
      BY <1>1, <1>2, ConcatProperties
    <2>2. \A i \in 3..(Len(s) + 1) : i - 2 \in 1..(Len(s) - 1) /\ (i - 2) + 1 = i - 1
      BY <1>1
    <2> QED
      BY <1>1, <1>2, <2>1, <2>2
  <1>4. \A i \in 2..Len(s) : t[i + 1] = s[i] /\ i + 1 \in 1..Len(t)
    <2> TAKE i \in 2..Len(s)
    <2>1. i + 1 \in 3..(Len(s) + 1) /\ (i + 1) - 1 = i
      BY <1>1
    <2> QED
      BY <1>3, <2>1
  <1> QED
    BY <1>3, <1>4

LEMMA PushShape ==
    ASSUME NEW s \in Seq(Statements), s # <<>>, Shape(s), s[1] # "halt",
           NEW a \in Statements, NEW b \in Statements, b \in Waiting,
           b # "listen", b \in {"scan", "rxOn"} => a = "standby",
           s[1] = "standby" => b = "halt",
           a \notin Attempt, ScanWaits(s) => b # "scan",
           NEW t \in Seq(Statements), Len(t) = Len(s) + 1, t[1] = a, t[2] = b,
           \A i \in 3..(Len(s) + 1) : t[i] = s[i - 1],
           \A i \in 2..Len(s) : t[i + 1] = s[i] /\ i + 1 \in 1..Len(t)
    PROVE  /\ Shape(t)
           /\ /\ Resumes(s)
              /\ a \in Stops => b \in Looks \/ (s[1] \in Stops /\ s[1] # "standby")
              /\ b \in Stops => s[1] \in Stops
              => Resumes(t)
  <1>1. Len(s) \in Nat \ {0}
    BY EmptySeq
  <1>3. /\ t \in Seq(Statements) /\ Len(t) = Len(s) + 1 /\ t[1] = a /\ t[2] = b
        /\ \A i \in 3..(Len(s) + 1) : t[i] = s[i - 1]
    OBVIOUS
  <1>4. \A i \in 2..Len(s) : t[i + 1] = s[i] /\ i + 1 \in 1..Len(t)
    OBVIOUS
  <1>5. Shape(t)
    <2> SUFFICES ASSUME NEW i \in 2..(Len(s) + 1)
                 PROVE  /\ t[i] \in Waiting
                        /\ t[i] = "listen" => i = Len(t)
                        /\ t[i] \in {"scan", "rxOn"} =>
                              t[i - 1] = "halt" \/ (i = 2 /\ t[1] = "standby")
                        /\ t[i] = "scan" => \A j \in 1..(i - 1) : t[j] \notin Attempt
      BY <1>3 DEF Shape
    <2>1. CASE i = 2
      BY <1>3, <2>1
    <2>2. CASE i # 2
      <3>1. i - 1 \in 2..Len(s) /\ t[i] = s[i - 1] /\ i \in 3..(Len(s) + 1)
            /\ (i - 1 = Len(s) => i = Len(t))
        BY <1>1, <1>3, <2>2
      <3>2. t[i] \in {"scan", "rxOn"} => t[i - 1] = "halt"
        <4>1. CASE i = 3
          <5>1. t[i] \in {"scan", "rxOn"} => s[1] = "standby"
            BY <3>1, <4>1 DEF Shape
          <5> QED
            BY <1>3, <4>1, <5>1
        <4>2. CASE i # 3
          <5>1. t[i - 1] = s[(i - 1) - 1] /\ i - 1 # 2
            BY <1>1, <1>3, <3>1, <4>2
          <5> QED
            BY <3>1, <5>1 DEF Shape
        <4> QED
          BY <4>1, <4>2
      <3>3. t[i] = "scan" => \A j \in 1..(i - 1) : t[j] \notin Attempt
        <4> SUFFICES ASSUME t[i] = "scan", NEW j \in 1..(i - 1)
                     PROVE  t[j] \notin Attempt
          OBVIOUS
        <4>1. b # "scan"
          BY <3>1 DEF ScanWaits
        <4>2. CASE j \in 1..2
          BY <1>3, <4>1, <4>2 DEF Waiting, Attempt
        <4>3. CASE j \notin 1..2
          <5>1. j \in 3..(Len(s) + 1) /\ t[j] = s[j - 1] /\ j - 1 \in 1..((i - 1) - 1)
            BY <1>1, <1>3, <3>1, <4>3
          <5> QED
            BY <3>1, <5>1 DEF Shape
        <4> QED
          BY <4>2, <4>3
      <3> QED
        BY <3>1, <3>2, <3>3 DEF Shape
    <2> QED
      BY <2>1, <2>2
  <1>6. ASSUME Resumes(s),
               a \in Stops => b \in Looks \/ (s[1] \in Stops /\ s[1] # "standby"),
               b \in Stops => s[1] \in Stops
        PROVE  Resumes(t)
    <2> SUFFICES ASSUME NEW i \in 1..(Len(s) + 1), t[i] \in Stops
                 PROVE  \E j \in (i + 1)..(Len(s) + 1) : t[j] \in Looks
      BY <1>3 DEF Resumes
    <2>1. ASSUME NEW k \in 1..Len(s), s[k] \in Stops, i <= k + 1
          PROVE  \E j \in (i + 1)..(Len(s) + 1) : t[j] \in Looks
      <3>1. PICK j \in (k + 1)..Len(s) : s[j] \in Looks
        BY <1>6, <2>1 DEF Resumes
      <3>2. j \in 2..Len(s) /\ t[j + 1] = s[j] /\ j + 1 \in (i + 1)..(Len(s) + 1)
        BY <1>1, <1>4, <2>1, <3>1
      <3> QED
        BY <3>1, <3>2
    <2>2. CASE i = 1
      <3>1. CASE b \in Looks
        BY <1>1, <1>3, <2>2, <3>1
      <3>2. CASE s[1] \in Stops
        BY <1>1, <2>1, <2>2, <3>2
      <3> QED
        BY <1>3, <1>6, <2>2, <3>1, <3>2
    <2>3. CASE i = 2
      BY <1>1, <1>3, <1>6, <2>1, <2>3
    <2>4. CASE i \notin 1..2
      <3>1. i - 1 \in 1..Len(s) /\ i <= (i - 1) + 1 /\ t[i] = s[i - 1]
        BY <1>1, <1>3, <2>4
      <3> QED
        BY <2>1, <3>1
    <2> QED
      BY <2>2, <2>3, <2>4
  <1> QED
    BY <1>5, <1>6

\* What the statements do to the stack, without positions
WorkItems == {"setDelay", "arm", "delayed", "scan", "send", "tx", "rx"}
HasWork(s) == \E i \in 1..Len(s) : s[i] \in WorkItems
HoldsPacket(s) == \E i \in 1..Len(s) : s[i] \in {"scan", "send"}
StackInv == stack \in Seq(Statements) /\ Shape(stack)

LEMMA OnTop ==
    ASSUME StackInv, NEW x
    PROVE  /\ Top(x) <=> stack # <<>> /\ stack[1] = x
           /\ stack # <<>> => /\ 1 \in 1..Len(stack) /\ Len(stack) \in Nat
                              /\ stack[1] \in Attempt => ~ScanWaits(stack)
  <1>1. stack # <<>> => Head(stack) = stack[1] /\ 1 \in 1..Len(stack) /\ Len(stack) \in Nat
    BY EmptySeq DEF StackInv
  <1>2. stack # <<>> /\ stack[1] \in Attempt => ~ScanWaits(stack)
    <2> SUFFICES ASSUME stack # <<>>, NEW i \in 2..Len(stack), stack[i] = "scan"
                 PROVE  stack[1] \notin Attempt
      BY DEF ScanWaits
    <2>1. 1 \in 1..(i - 1)
      OBVIOUS
    <2> QED
      BY <2>1 DEF StackInv, Shape
  <1> QED
    BY <1>1, <1>2 DEF Top

LEMMA Popped ==
    ASSUME StackInv, stack # <<>>, stack[1] # "standby", Then(<<>>)
    PROVE  /\ StackInv'
           /\ stack' # <<>> => /\ stack'[1] \in Waiting
                               /\ stack'[1] \in {"scan", "rxOn"} => stack[1] = "halt"
                               /\ stack'[1] = "listen" => ~ScanWaits(stack')
           /\ HasWork(stack) /\ stack[1] \notin WorkItems => HasWork(stack')
           /\ HoldsPacket(stack') => HoldsPacket(stack) /\ stack[1] \notin Attempt
           /\ Resumes(stack) => Resumes(stack')
           /\ Resumes(stack) /\ stack[1] = "halt" => HasWork(stack')
  <1>a. PICK s \in Seq(Statements) : s = stack
    BY DEF StackInv
  <1>0. s \in Seq(Statements) /\ s = stack /\ s # <<>> /\ Shape(s) /\ s[1] # "standby"
    BY <1>a DEF StackInv
  <1>t. PICK t : t = stack' /\ t = <<>> \o Tail(s)
    BY <1>0 DEF Then
  <1>1. /\ t \in Seq(Statements) /\ Shape(t)
        /\ Len(t) = Len(s) - 1 /\ \A i \in 1..Len(t) : t[i] = s[i + 1]
        /\ t # <<>> => /\ t[1] \in Waiting
                       /\ t[1] \in {"scan", "rxOn"} => s[1] = "halt"
                       /\ t[1] = "listen" => ~ScanWaits(t)
        /\ \A i \in 2..Len(s) : \E j \in 1..Len(t) : t[j] = s[i]
        /\ Resumes(s) => Resumes(t)
    BY ONLY <1>a, <1>0, <1>t, Pop
  <1>2. Len(s) \in Nat /\ 1 \in 1..Len(s)
    BY <1>0, EmptySeq
  <1>3. HasWork(s) /\ s[1] \notin WorkItems => HasWork(t)
    <2> SUFFICES ASSUME NEW i \in 1..Len(s), s[i] \in WorkItems, i # 1
                 PROVE  HasWork(t)
      BY DEF HasWork
    <2>1. i \in 2..Len(s)
      BY <1>2
    <2> QED
      BY <1>1, <2>1 DEF HasWork
  <1>4. HoldsPacket(t) => HoldsPacket(s) /\ s[1] \notin Attempt
    <2> SUFFICES ASSUME NEW i \in 1..Len(t), t[i] \in {"scan", "send"}
                 PROVE  HoldsPacket(s) /\ s[1] \notin Attempt
      BY DEF HoldsPacket
    <2>1. /\ i + 1 \in 1..Len(s) /\ i + 1 \in 2..Len(s) /\ t[i] = s[i + 1]
          /\ 1 \in 1..((i + 1) - 1)
      BY <1>1, <1>2
    <2>2. s[i + 1] = "scan"
      BY <1>0, <2>1 DEF Shape, Waiting
    <2>3. s[1] \notin Attempt
      BY <1>0, <2>1, <2>2 DEF Shape
    <2> QED
      BY <2>1, <2>3 DEF HoldsPacket
  <1>5. Resumes(s) /\ s[1] = "halt" => HasWork(t)
    <2> SUFFICES ASSUME Resumes(s), s[1] = "halt" PROVE HasWork(t)
      OBVIOUS
    <2>1. PICK j \in 2..Len(s) : s[j] \in Looks
      <3>1. s[1] \in Stops /\ 1 + 1 = 2
        BY DEF Stops
      <3> QED
        BY <1>2, <3>1 DEF Resumes
    <2> QED
      BY <1>1, <2>1 DEF HasWork, Looks, WorkItems
  <1> QED
    BY <1>0, <1>t, <1>1, <1>3, <1>4, <1>5 DEF StackInv

LEMMA Swapped ==
    ASSUME StackInv, stack # <<>>, stack[1] \notin {"halt", "standby"},
           NEW a \in Statements, ScanWaits(stack) => a \notin Attempt, Then(<<a>>)
    PROVE  /\ StackInv' /\ stack' # <<>> /\ stack'[1] = a
           /\ ScanWaits(stack') <=> ScanWaits(stack)
           /\ a \in WorkItems \/ (HasWork(stack) /\ stack[1] \notin WorkItems)
                 => HasWork(stack')
           /\ HoldsPacket(stack') => \/ a \in {"scan", "send"}
                                     \/ HoldsPacket(stack) /\ stack[1] \notin Attempt
           /\ Resumes(stack) /\ a \notin Stops => Resumes(stack')
  <1>a. PICK s \in Seq(Statements) : s = stack
    BY DEF StackInv
  <1>0. /\ s = stack /\ s # <<>> /\ Shape(s) /\ s[1] \notin {"halt", "standby"}
        /\ ScanWaits(s) => a \notin Attempt
        /\ s \in Seq(Statements) /\ a \in Statements
    BY <1>a DEF StackInv
  <1>t. PICK t : t = stack' /\ t = <<a>> \o Tail(s)
    BY <1>0 DEF Then
  <1>1. /\ t \in Seq(Statements) /\ Shape(t) /\ t # <<>> /\ t[1] = a
        /\ Len(t) = Len(s) /\ \A i \in 2..Len(s) : t[i] = s[i]
        /\ Resumes(s) /\ a \notin Stops => Resumes(t)
    BY ONLY <1>a, <1>0, <1>t, Swap
  <1>2. Len(s) \in Nat /\ 1 \in 1..Len(s)
    BY <1>0, EmptySeq
  <1>3. \A i \in 1..Len(s) : i = 1 \/ i \in 2..Len(s)
    BY <1>2
  <1>4. ScanWaits(t) <=> ScanWaits(s)
    BY <1>1 DEF ScanWaits
  <1>5. HasWork(s) /\ s[1] \notin WorkItems => HasWork(t)
    BY <1>1, <1>3 DEF HasWork
  <1>6. a \in WorkItems => HasWork(t)
    BY <1>1, <1>2 DEF HasWork
  <1>7. HoldsPacket(t) => \/ a \in {"scan", "send"}
                          \/ HoldsPacket(s) /\ s[1] \notin Attempt
    <2> SUFFICES ASSUME NEW i \in 2..Len(s), s[i] \in {"scan", "send"}
                 PROVE  HoldsPacket(s) /\ s[1] \notin Attempt
      BY <1>1, <1>3 DEF HoldsPacket
    <2>1. i \in 1..Len(s) /\ 1 \in 1..(i - 1)
      BY <1>2
    <2>2. s[i] = "scan"
      BY <1>0 DEF Shape, Waiting
    <2>3. s[1] \notin Attempt
      BY <1>0, <2>1, <2>2 DEF Shape
    <2> QED
      BY <2>1, <2>3 DEF HoldsPacket
  <1> QED
    BY <1>0, <1>t, <1>1, <1>4, <1>5, <1>6, <1>7 DEF StackInv

LEMMA Pushed ==
    ASSUME StackInv, stack # <<>>, stack[1] # "halt",
           NEW a \in Statements, NEW b \in Statements, b \in Waiting,
           b # "listen", b \in {"scan", "rxOn"} => a = "standby",
           stack[1] = "standby" => b = "halt",
           a \notin Attempt, ScanWaits(stack) => b # "scan", Then(<<a, b>>)
    PROVE  /\ StackInv' /\ stack' # <<>> /\ stack'[1] = a
           /\ ScanWaits(stack') => b = "scan" \/ ScanWaits(stack)
           /\ b \in WorkItems \/ (HasWork(stack) /\ stack[1] \notin WorkItems)
                 => HasWork(stack')
           /\ HoldsPacket(stack') => b = "scan" \/ HoldsPacket(stack)
           /\ /\ Resumes(stack)
              /\ a \in Stops => b \in Looks \/ (stack[1] \in Stops /\ stack[1] # "standby")
              /\ b \in Stops => stack[1] \in Stops
              => Resumes(stack')
  <1>a. PICK s \in Seq(Statements) : s = stack
    BY DEF StackInv
  <1>0. /\ s = stack /\ s # <<>> /\ Shape(s) /\ s[1] # "halt"
        /\ s[1] = "standby" => b = "halt"
        /\ ScanWaits(s) => b # "scan"
        /\ s \in Seq(Statements) /\ a \in Statements /\ b \in Statements /\ b \in Waiting
        /\ b # "listen" /\ (b \in {"scan", "rxOn"} => a = "standby") /\ a \notin Attempt
    BY <1>a DEF StackInv
  <1>t. PICK t : t = stack' /\ t = <<a, b>> \o Tail(s)
    BY <1>0 DEF Then
  <1>1. /\ t \in Seq(Statements)
        /\ Len(t) = Len(s) + 1 /\ t[1] = a /\ t[2] = b
        /\ \A i \in 3..(Len(s) + 1) : t[i] = s[i - 1]
        /\ \A i \in 2..Len(s) : t[i + 1] = s[i] /\ i + 1 \in 1..Len(t)
    BY ONLY <1>a, <1>0, <1>t, PushElements
  <1>b. PICK u \in Seq(Statements) : u = t
    BY <1>1
  <1>c. /\ Shape(t)
        /\ /\ Resumes(s)
           /\ a \in Stops => b \in Looks \/ (s[1] \in Stops /\ s[1] # "standby")
           /\ b \in Stops => s[1] \in Stops
           => Resumes(t)
    BY ONLY <1>a, <1>0, <1>1, <1>b, PushShape
  <1>2. Len(s) \in Nat /\ 1 \in 1..Len(s)
    BY <1>0, EmptySeq
  <1>3. /\ t # <<>> /\ 2 \in 1..Len(t)
        /\ \A i \in 1..Len(t) : i = 1 \/ i = 2
                                \/ (i \in 3..(Len(s) + 1) /\ i - 1 \in 2..Len(s))
        /\ \A i \in 2..Len(s) : i \in 1..Len(s)
    BY <1>1, <1>2
  <1>4. ScanWaits(t) => b = "scan" \/ ScanWaits(s)
    <2> SUFFICES ASSUME NEW i \in 2..Len(t), t[i] = "scan"
                 PROVE  b = "scan" \/ ScanWaits(s)
      BY DEF ScanWaits
    <2>1. i = 2 \/ (t[i] = s[i - 1] /\ i - 1 \in 2..Len(s))
      BY <1>1, <1>2
    <2> QED
      BY <1>1, <2>1 DEF ScanWaits
  <1>5. HasWork(s) /\ s[1] \notin WorkItems => HasWork(t)
    <2> SUFFICES ASSUME NEW i \in 1..Len(s), s[i] \in WorkItems, i # 1
                 PROVE  HasWork(t)
      BY DEF HasWork
    <2>1. i \in 2..Len(s)
      BY <1>2
    <2> QED
      BY <1>1, <2>1 DEF HasWork
  <1>6. b \in WorkItems => HasWork(t)
    BY <1>1, <1>3 DEF HasWork
  <1>7. HoldsPacket(t) => b = "scan" \/ HoldsPacket(s)
    <2> SUFFICES ASSUME NEW i \in 1..Len(t), t[i] \in {"scan", "send"}
                 PROVE  b = "scan" \/ HoldsPacket(s)
      BY DEF HoldsPacket
    <2>1. CASE i \in {1, 2}
      BY <1>1, <2>1 DEF Attempt, Waiting
    <2>2. CASE i \notin {1, 2}
      BY <1>1, <1>3, <2>2 DEF HoldsPacket
    <2> QED
      BY <2>1, <2>2
  <1> QED
    BY <1>0, <1>t, <1>1, <1>c, <1>3, <1>4, <1>5, <1>6, <1>7 DEF StackInv

LEMMA Started ==
    ASSUME NEW a \in Statements, stack' = <<a>>
    PROVE  /\ StackInv' /\ stack' # <<>> /\ stack'[1] = a /\ ~ScanWaits(stack')
           /\ a \in WorkItems => HasWork(stack')
           /\ HoldsPacket(stack') => a \in {"scan", "send"}
           /\ a \notin Stops => Resumes(stack')
  <1>1. PICK t : t = stack' /\ t = <<a>>
    OBVIOUS
  <1>2. t \in Seq(Statements) /\ t # <<>> /\ Len(t) = 1 /\ t[1] = a
    BY <1>1
  <1>3. (\A i \in 1..Len(t) : i = 1) /\ 1 \in 1..Len(t) /\ 2..Len(t) = {}
    BY <1>2
  <1> QED
    BY <1>1, <1>2, <1>3
       DEF StackInv, Shape, ScanWaits, HasWork, HoldsPacket, Resumes

LEMMA StartedInStandby ==
    ASSUME NEW b \in {"listen", "off"}, stack' = <<"standby", b>>
    PROVE  /\ StackInv' /\ stack' # <<>> /\ stack'[1] = "standby"
           /\ ~ScanWaits(stack') /\ ~HoldsPacket(stack')
  <1>1. PICK t : t = stack' /\ t = <<"standby", b>>
    OBVIOUS
  <1>2. /\ t \in Seq(Statements) /\ t # <<>> /\ Len(t) = 2
        /\ t[1] = "standby" /\ t[2] = b
    BY <1>1 DEF Statements
  <1>3. /\ \A i \in 1..Len(t) : i \in {1, 2}
        /\ \A i \in 2..Len(t) : i = 2
    BY <1>2
  <1> QED
    BY <1>1, <1>2, <1>3 DEF StackInv, Shape, ScanWaits, HoldsPacket, Waiting

----------------------------------------------------------------------------
(* The inductive invariant *)

At(x) == stack # <<>> /\ stack[1] = x

Typed ==
    /\ sending \in Packet \cup {Idle}
    /\ notification \in Interrupts \cup {"none", "DELAY"}
    /\ taken \in Interrupts \cup {"none", "DELAY"}
    /\ chip \in {"standby", "rx", "tx"}
    /\ irq \in {"none", "rx", "tx"}
    /\ enabled \in BOOLEAN /\ isReceiving \in BOOLEAN
    /\ txEnabled \in BOOLEAN /\ lost \in BOOLEAN /\ outage \in BOOLEAN
    /\ arrivals \in 0..MaxArrivals

\* While a packet waits for its scan, no delay can fire inside the standby:
\* the one that led to the scan has been read, and only setDelay arms another.
Nesting == {"check", "clear", "standby", "listen", "tx", "rx", "delayed"}
Quiet == stack # <<>> /\ stack[1] \in Nesting
         /\ (ScanWaits(stack) \/ stack[1] = "delayed")
            => notification # "DELAY" /\ taken # "DELAY"

\* Whoever is about to scan or to send has a packet to send and the radio for
\* itself.
Free == /\ HoldsPacket(stack) => queue # <<>>
        /\ stack # <<>> /\ stack[1] \in {"scan", "send", "rxOn"}
              => sending = Idle /\ chip = "standby"

\* The radio at work has its handler attached.
Attached == /\ chip = "tx" => irq = "tx"
            /\ chip = "rx" => irq = "rx" /\ sending = Idle

\* What is remembered will be read; only an interrupt changes it after that.
Noted == /\ notification # "none" => enabled \/ At("check") \/ At("clear")
         /\ At("clear") => notification \in Interrupts \cup {taken}

\* A transmission's end is ahead, remembered, or being handled.
Watched == sending # Idle /\ ~lost =>
               \/ chip = "tx" \/ notification = "ISR_TX"
               \/ At("clear") /\ taken = "ISR_TX"
               \/ At("tx")

\* Something will make the worker look at the queue again.
Woken == queue # <<>> /\ ~outage /\ ~lost =>
             \/ sending # Idle \/ notification # "none"
             \/ At("clear") /\ taken # "none"
             \/ HasWork(stack)

Resumed == queue # <<>> /\ ~outage => Resumes(stack)

IInv == /\ Typed /\ QueueInv /\ StackInv
        /\ Quiet /\ Free /\ Attached /\ Noted /\ Watched /\ Woken /\ Resumed

----------------------------------------------------------------------------
(* Every step keeps it *)

LEMMA UnchangedQueue ==
    ASSUME QueueInv, UNCHANGED queue PROVE QueueInv'
  BY DEF QueueInv

LEMMA RunWell == ASSUME IInv, Run PROVE IInv'
  <1>1. /\ StackInv' /\ stack' # <<>> /\ stack'[1] = "check" /\ ~ScanWaits(stack')
        /\ ~HoldsPacket(stack') /\ Resumes(stack')
    BY Started DEF Run, Statements, Stops
  <1>2. stack = <<>> /\ ~HasWork(stack)
    BY DEF Run, InMainLoop, HasWork
  <1>3. QueueInv'
    BY UnchangedQueue DEF IInv, Run
  <1>4. Typed'
    BY <1>1, <1>2, <1>3
       DEF IInv, Run, radio, Typed, Interrupts
  <1>5. Quiet' /\ Free'
    BY <1>1, <1>2, <1>3
       DEF IInv, Run, radio, Typed, Interrupts, Quiet, Nesting, Waiting, Free
  <1>6. Attached' /\ Noted'
    BY <1>1, <1>2, <1>3
       DEF IInv, Run, radio, Typed, Interrupts, Free, Attached, At, Noted
  <1>7. Watched'
    BY <1>1, <1>2, <1>3
       DEF IInv, Run, radio, Typed, Interrupts, Attached, At, Noted, Watched
  <1>8. Woken' /\ Resumed'
    BY <1>1, <1>2, <1>3
       DEF IInv, Run, radio, Typed, Interrupts, Free, At, Noted, Watched, Woken, Resumed
  <1> QED
    BY <1>1, <1>2, <1>3, <1>4, <1>5, <1>6, <1>7, <1>8 DEF IInv

LEMMA CheckWell == ASSUME IInv, Check PROVE IInv'
  <1>1. stack # <<>> /\ stack[1] = "check"
    BY OnTop DEF IInv, Check
  <1>2. /\ StackInv' /\ stack' # <<>> /\ stack'[1] = "clear"
        /\ ScanWaits(stack') <=> ScanWaits(stack)
        /\ HasWork(stack) => HasWork(stack')
        /\ HoldsPacket(stack') => HoldsPacket(stack)
        /\ Resumes(stack) => Resumes(stack')
    BY <1>1, Swapped DEF IInv, Check, Statements, Attempt, Stops, WorkItems
  <1>3. QueueInv'
    BY UnchangedQueue DEF IInv, Check
  <1>4. Typed'
    BY <1>1, <1>2, <1>3
       DEF IInv, Check, radio, ghost, Typed, Interrupts
  <1>5. Quiet' /\ Free'
    BY <1>1, <1>2, <1>3
       DEF IInv, Check, radio, ghost, Typed, Interrupts, Quiet, Nesting, Waiting, Free
  <1>6. Attached' /\ Noted'
    BY <1>1, <1>2, <1>3
       DEF IInv, Check, radio, ghost, Typed, Interrupts, Free, Attached, At, Noted
  <1>7. Watched'
    BY <1>1, <1>2, <1>3
       DEF IInv, Check, radio, ghost, Typed, Interrupts, Attached, At, Noted, Watched
  <1>8. Woken' /\ Resumed'
    BY <1>1, <1>2, <1>3
       DEF IInv, Check, radio, ghost, Typed, Interrupts, Free, At, Noted, Watched, Woken, Resumed
  <1> QED
    BY <1>1, <1>2, <1>3, <1>4, <1>5, <1>6, <1>7, <1>8 DEF IInv

LEMMA ClearWell == ASSUME IInv, Clear PROVE IInv'
  <1>1. stack # <<>> /\ stack[1] = "clear"
    BY OnTop DEF IInv, Clear
  <1>2. CASE taken = "none"
    <2>1. Then(<<>>)
      BY <1>2 DEF Clear, Handler
    <2>2. /\ StackInv'
          /\ stack' # <<>> => /\ stack'[1] \in Waiting
                              /\ stack'[1] \notin {"scan", "rxOn"}
                              /\ stack'[1] = "listen" => ~ScanWaits(stack')
          /\ HasWork(stack) => HasWork(stack')
          /\ HoldsPacket(stack') => HoldsPacket(stack)
          /\ Resumes(stack) => Resumes(stack')
      BY <1>1, <2>1, Popped DEF IInv, WorkItems
    <2>3. QueueInv'
      BY UnchangedQueue DEF IInv, Clear
    <2>4. Typed'
      BY <1>1, <1>2, <2>2, <2>3
         DEF IInv, Clear, radio, Typed, Interrupts
    <2>5. Quiet' /\ Free'
      BY <1>1, <1>2, <2>2, <2>3
         DEF IInv, Clear, radio, Typed, Interrupts, Quiet, Nesting, Waiting, Free
    <2>6. Attached' /\ Noted'
      BY <1>1, <1>2, <2>2, <2>3
         DEF IInv, Clear, radio, Typed, Interrupts, Free, Attached, At, Noted
    <2>7. Watched'
      BY <1>1, <1>2, <2>2, <2>3
         DEF IInv, Clear, radio, Typed, Interrupts, Attached, At, Noted, Watched
    <2>8. Woken' /\ Resumed'
      BY <1>1, <1>2, <2>2, <2>3
         DEF IInv, Clear, radio, Typed, Interrupts, Free, At, Noted, Watched, Woken, Resumed
    <2> QED
      BY <1>1, <1>2, <2>2, <2>3, <2>4, <2>5, <2>6, <2>7, <2>8 DEF IInv
  <1>3. CASE taken # "none"
    <2>1. PICK a \in {"tx", "rx", "delayed"} :
               /\ Then(<<a>>)
               /\ a = "tx" <=> taken = "ISR_TX"
               /\ a = "rx" <=> taken = "ISR_RX"
               /\ a = "delayed" <=> taken = "DELAY"
      BY <1>3 DEF IInv, Typed, Interrupts, Clear, Handler
    <2>2. ScanWaits(stack) => a \notin Attempt
      BY <1>1, <2>1 DEF IInv, Quiet, Nesting, Attempt
    <2>3. /\ StackInv' /\ stack' # <<>> /\ stack'[1] = a
          /\ ScanWaits(stack') <=> ScanWaits(stack)
          /\ HasWork(stack')
          /\ HoldsPacket(stack') => HoldsPacket(stack)
          /\ Resumes(stack) => Resumes(stack')
      BY <1>1, <2>1, <2>2, Swapped DEF IInv, Statements, Stops, WorkItems
    <2>4. QueueInv'
      BY UnchangedQueue DEF IInv, Clear
    <2>5. Typed'
      BY <1>1, <1>3, <2>1, <2>3, <2>4
         DEF IInv, Clear, radio, Typed, Interrupts
    <2>6. Quiet' /\ Free'
      BY <1>1, <1>3, <2>1, <2>3, <2>4
         DEF IInv, Clear, radio, Typed, Interrupts, Quiet, Nesting, Waiting, Free
    <2>7. Attached' /\ Noted'
      BY <1>1, <1>3, <2>1, <2>3, <2>4
         DEF IInv, Clear, radio, Typed, Interrupts, Free, Attached, At, Noted
    <2>8. Watched'
      BY <1>1, <1>3, <2>1, <2>3, <2>4
         DEF IInv, Clear, radio, Typed, Interrupts, Attached, At, Noted, Watched
    <2>9. Woken' /\ Resumed'
      BY <1>1, <1>3, <2>1, <2>3, <2>4
         DEF IInv, Clear, radio, Typed, Interrupts, Free, At, Noted, Watched, Woken, Resumed
    <2> QED
      BY <1>1, <1>3, <2>1, <2>3, <2>4, <2>5, <2>6, <2>7, <2>8, <2>9 DEF IInv
  <1> QED
    BY <1>2, <1>3

LEMMA NothingQueuedWell ==
    ASSUME IInv, NothingQueued PROVE IInv'
  <1>1. stack # <<>> /\ stack[1] = "delayed"
    BY OnTop DEF IInv, NothingQueued
  <1>2. /\ StackInv'
        /\ stack' # <<>> => /\ stack'[1] \in Waiting
                            /\ stack'[1] \in {"scan", "rxOn"} =>
                                   stack[1] = "halt"
                            /\ stack'[1] = "listen" => ~ScanWaits(stack')
        /\ HoldsPacket(stack') => HoldsPacket(stack)
        /\ Resumes(stack) => Resumes(stack')
    BY <1>1, Popped DEF IInv, NothingQueued, WorkItems, Attempt
  <1>3. QueueInv'
    BY UnchangedQueue DEF IInv, NothingQueued
  <1>4. Typed'
    BY <1>1, <1>2, <1>3
       DEF IInv, radio, wake, NothingQueued, Typed, Interrupts
  <1>5. Quiet' /\ Free'
    BY <1>1, <1>2, <1>3
       DEF IInv, radio, wake, NothingQueued, Typed, Interrupts, Quiet, Nesting,
           Waiting, Free
  <1>6. Attached' /\ Noted'
    BY <1>1, <1>2, <1>3
       DEF IInv, radio, wake, NothingQueued, Typed, Interrupts, Waiting, Free,
           Attached, At, Noted
  <1>7. Watched'
    BY <1>1, <1>2, <1>3
       DEF IInv, radio, wake, NothingQueued, Typed, Interrupts, Free, Attached,
           At, Noted, Watched
  <1>8. Woken' /\ Resumed'
    BY <1>1, <1>2, <1>3
       DEF IInv, radio, wake, NothingQueued, Typed, Interrupts, Free, At,
           Noted, Watched, Woken, Resumed
  <1> QED
    BY <1>1, <1>2, <1>3, <1>4, <1>5, <1>6, <1>7, <1>8 DEF IInv

LEMMA SendRefusedWell ==
    ASSUME IInv, SendRefused PROVE IInv'
  <1>1. stack # <<>> /\ stack[1] = "send"
    BY OnTop DEF IInv, SendRefused
  <1>2. /\ StackInv'
        /\ stack' # <<>> => /\ stack'[1] \in Waiting
                            /\ stack'[1] \in {"scan", "rxOn"} =>
                                   stack[1] = "halt"
                            /\ stack'[1] = "listen" => ~ScanWaits(stack')
        /\ ~HoldsPacket(stack')
        /\ Resumes(stack) => Resumes(stack')
    BY <1>1, Popped DEF IInv, SendRefused, WorkItems, Attempt
  <1>3. QueueInv' /\ queue # <<>> /\ queue' = Tail(queue)
        /\ (queue' # <<>> => queue # <<>>)
    <2>1. HoldsPacket(stack)
      BY <1>1, OnTop DEF IInv, HoldsPacket
    <2>2. queue # <<>>
      BY <2>1 DEF IInv, Free
    <2> QED
      BY <2>2, TakenWell DEF IInv, SendRefused
  <1>4. Typed'
    BY <1>1, <1>2, <1>3, PacketsAssumption
       DEF IInv, radio, SendRefused, Typed, Interrupts
  <1>5. Quiet' /\ Free'
    BY <1>1, <1>2, <1>3
       DEF IInv, radio, SendRefused, Typed, Interrupts, Quiet, Nesting,
           Waiting, Free
  <1>6. Attached' /\ Noted'
    BY <1>1, <1>2, <1>3
       DEF IInv, radio, SendRefused, Typed, Interrupts, Waiting, Free,
           Attached, At, Noted
  <1>7. Watched'
    BY <1>1, <1>2, <1>3
       DEF IInv, radio, SendRefused, Typed, Interrupts, Free, Attached, At,
           Noted, Watched
  <1>8. Woken' /\ Resumed'
    BY <1>1, <1>2, <1>3
       DEF IInv, radio, SendRefused, Typed, Interrupts, Free, At, Noted,
           Watched, Woken, Resumed
  <1> QED
    BY <1>1, <1>2, <1>3, <1>4, <1>5, <1>6, <1>7, <1>8 DEF IInv

LEMMA SendStartedWell ==
    ASSUME IInv, SendStarted PROVE IInv'
  <1>1. stack # <<>> /\ stack[1] = "send"
    BY OnTop DEF IInv, SendStarted
  <1>2. /\ StackInv'
        /\ stack' # <<>> => /\ stack'[1] \in Waiting
                            /\ stack'[1] \in {"scan", "rxOn"} =>
                                   stack[1] = "halt"
                            /\ stack'[1] = "listen" => ~ScanWaits(stack')
        /\ ~HoldsPacket(stack')
        /\ Resumes(stack) => Resumes(stack')
    BY <1>1, Popped DEF IInv, SendStarted, WorkItems, Attempt
  <1>3. QueueInv' /\ queue # <<>> /\ queue' = Tail(queue)
        /\ (queue' # <<>> => queue # <<>>)
    <2>1. HoldsPacket(stack)
      BY <1>1, OnTop DEF IInv, HoldsPacket
    <2>2. queue # <<>>
      BY <2>1 DEF IInv, Free
    <2> QED
      BY <2>2, TakenWell DEF IInv, SendStarted
  <1>4. sending' \in Packet /\ sending' # Idle
    <2>1. Head(queue) \in Packet
      BY <1>3, HeadTailProperties DEF IInv, QueueInv
    <2> QED
      BY <2>1, PacketsAssumption DEF SendStarted
  <1>5. Typed'
    BY <1>1, <1>2, <1>3, <1>4, PacketsAssumption
       DEF IInv, wake, SendStarted, Typed, Interrupts
  <1>6. Quiet' /\ Free'
    BY <1>1, <1>2, <1>3, <1>4
       DEF IInv, wake, SendStarted, Typed, Interrupts, Quiet, Nesting, Waiting,
           Free
  <1>7. Attached' /\ Noted'
    BY <1>1, <1>2, <1>3, <1>4
       DEF IInv, wake, SendStarted, Typed, Interrupts, Waiting, Free, Attached,
           At, Noted
  <1>8. Watched'
    BY <1>1, <1>2, <1>3, <1>4
       DEF IInv, wake, SendStarted, Typed, Interrupts, Free, Attached, At,
           Noted, Watched
  <1>9. Woken' /\ Resumed'
    BY <1>1, <1>2, <1>3, <1>4
       DEF IInv, wake, SendStarted, Typed, Interrupts, Free, At, Noted,
           Watched, Woken, Resumed
  <1> QED
    BY <1>1, <1>2, <1>3, <1>4, <1>5, <1>6, <1>7, <1>8, <1>9 DEF IInv

LEMMA HaltWell ==
    ASSUME IInv, Halt PROVE IInv'
  <1>1. stack # <<>> /\ stack[1] = "halt"
    BY OnTop DEF IInv, Halt
  <1>2. /\ StackInv'
        /\ stack' # <<>> => /\ stack'[1] \in Waiting
                            /\ stack'[1] \in {"scan", "rxOn"} =>
                                   stack[1] = "halt"
                            /\ stack'[1] = "listen" => ~ScanWaits(stack')
        /\ HoldsPacket(stack') => HoldsPacket(stack)
        /\ Resumes(stack) => HasWork(stack')
        /\ Resumes(stack) => Resumes(stack')
    BY <1>1, Popped DEF IInv, Halt, WorkItems, Attempt
  <1>3. QueueInv'
    BY UnchangedQueue DEF IInv, Halt
  <1>4. Typed'
    BY <1>1, <1>2, <1>3
       DEF IInv, wake, Halt, Typed, Interrupts
  <1>5. Quiet' /\ Free'
    BY <1>1, <1>2, <1>3
       DEF IInv, wake, Halt, Typed, Interrupts, Quiet, Nesting, Waiting, Free
  <1>6. Attached' /\ Noted'
    BY <1>1, <1>2, <1>3
       DEF IInv, wake, Halt, Typed, Interrupts, Waiting, Free, Attached, At,
           Noted
  <1>7. Watched'
    BY <1>1, <1>2, <1>3
       DEF IInv, wake, Halt, Typed, Interrupts, Free, Attached, At, Noted,
           Watched
  <1>8. Woken' /\ Resumed'
    BY <1>1, <1>2, <1>3
       DEF IInv, wake, Halt, Typed, Interrupts, Free, At, Noted, Watched,
           Woken, Resumed
  <1> QED
    BY <1>1, <1>2, <1>3, <1>4, <1>5, <1>6, <1>7, <1>8 DEF IInv

LEMMA ReceiverOnWell ==
    ASSUME IInv, ReceiverOn PROVE IInv'
  <1>1. stack # <<>> /\ stack[1] = "rxOn"
    BY OnTop DEF IInv, ReceiverOn
  <1>2. /\ StackInv'
        /\ stack' # <<>> => /\ stack'[1] \in Waiting
                            /\ stack'[1] \in {"scan", "rxOn"} =>
                                   stack[1] = "halt"
                            /\ stack'[1] = "listen" => ~ScanWaits(stack')
        /\ HasWork(stack) => HasWork(stack')
        /\ HoldsPacket(stack') => HoldsPacket(stack)
        /\ Resumes(stack) => Resumes(stack')
    BY <1>1, Popped DEF IInv, ReceiverOn, WorkItems, Attempt
  <1>3. QueueInv'
    BY UnchangedQueue DEF IInv, ReceiverOn
  <1>4. Typed'
    BY <1>1, <1>2, <1>3
       DEF IInv, wake, ReceiverOn, Typed, Interrupts
  <1>5. Quiet' /\ Free'
    BY <1>1, <1>2, <1>3
       DEF IInv, wake, ReceiverOn, Typed, Interrupts, Quiet, Nesting, Waiting,
           Free
  <1>6. Attached' /\ Noted'
    BY <1>1, <1>2, <1>3
       DEF IInv, wake, ReceiverOn, Typed, Interrupts, Waiting, Free, Attached,
           At, Noted
  <1>7. Watched'
    BY <1>1, <1>2, <1>3
       DEF IInv, wake, ReceiverOn, Typed, Interrupts, Free, Attached, At,
           Noted, Watched
  <1>8. Woken' /\ Resumed'
    BY <1>1, <1>2, <1>3
       DEF IInv, wake, ReceiverOn, Typed, Interrupts, Free, At, Noted, Watched,
           Woken, Resumed
  <1> QED
    BY <1>1, <1>2, <1>3, <1>4, <1>5, <1>6, <1>7, <1>8 DEF IInv

LEMMA ArmWell ==
    ASSUME IInv, Arm PROVE IInv'
  <1>1. stack # <<>> /\ stack[1] = "arm"
    BY OnTop DEF IInv, Arm
  <1>2. /\ StackInv'
        /\ stack' # <<>> => /\ stack'[1] \in Waiting
                            /\ stack'[1] \in {"scan", "rxOn"} =>
                                   stack[1] = "halt"
                            /\ stack'[1] = "listen" => ~ScanWaits(stack')
        /\ HoldsPacket(stack') => HoldsPacket(stack)
        /\ Resumes(stack) => Resumes(stack')
    BY <1>1, Popped DEF IInv, Arm, WorkItems, Attempt
  <1>3. QueueInv'
    BY UnchangedQueue DEF IInv, Arm
  <1>4. Typed'
    BY <1>1, <1>2, <1>3
       DEF IInv, radio, Arm, Typed, Interrupts
  <1>5. Quiet' /\ Free'
    BY <1>1, <1>2, <1>3
       DEF IInv, radio, Arm, Typed, Interrupts, Quiet, Nesting, Waiting, Free
  <1>6. Attached' /\ Noted'
    BY <1>1, <1>2, <1>3
       DEF IInv, radio, Arm, Typed, Interrupts, Waiting, Free, Attached, At,
           Noted
  <1>7. Watched'
    BY <1>1, <1>2, <1>3
       DEF IInv, radio, Arm, Typed, Interrupts, Free, Attached, At, Noted,
           Watched
  <1>8. Woken' /\ Resumed'
    BY <1>1, <1>2, <1>3
       DEF IInv, radio, Arm, Typed, Interrupts, Free, At, Noted, Watched,
           Woken, Resumed
  <1> QED
    BY <1>1, <1>2, <1>3, <1>4, <1>5, <1>6, <1>7, <1>8 DEF IInv

LEMMA StillLateWell ==
    ASSUME IInv, StillLate PROVE IInv'
  <1>1. stack # <<>> /\ stack[1] = "delayed"
    BY OnTop DEF IInv, StillLate
  <1>2. QueueInv'
    BY UnchangedQueue DEF IInv, StillLate
  <1>3. CASE Then(<<"arm">>)
    <2>1. /\ StackInv' /\ stack' # <<>> /\ stack'[1] = "arm"
          /\ HasWork(stack')
          /\ HoldsPacket(stack') => HoldsPacket(stack)
          /\ Resumes(stack) => Resumes(stack')
      BY <1>1, <1>3, Swapped DEF IInv, Statements, Attempt, Stops, WorkItems
    <2>2. Typed'
      BY <1>1, <1>2, <2>1
         DEF IInv, StillLate, radio, wake, Typed, Interrupts
    <2>3. Quiet' /\ Free'
      BY <1>1, <1>2, <2>1
         DEF IInv, StillLate, radio, wake, Typed, Interrupts, Quiet, Nesting,
             Waiting, Free
    <2>4. Attached' /\ Noted'
      BY <1>1, <1>2, <2>1
         DEF IInv, StillLate, radio, wake, Typed, Interrupts, Waiting, Free,
             Attached, At, Noted
    <2>5. Watched'
      BY <1>1, <1>2, <2>1
         DEF IInv, StillLate, radio, wake, Typed, Interrupts, Free, Attached,
             At, Noted, Watched
    <2>6. Woken' /\ Resumed'
      BY <1>1, <1>2, <2>1
         DEF IInv, StillLate, radio, wake, Typed, Interrupts, Free, At, Noted,
             Watched, Woken, Resumed
    <2> QED
      BY <1>1, <1>2, <2>1, <2>2, <2>3, <2>4, <2>5, <2>6 DEF IInv
  <1>4. CASE Then(<<>>) /\ (queue = <<>> \/ notification # "none")
    <2>1. /\ StackInv'
          /\ stack' # <<>> => /\ stack'[1] \in Waiting
                              /\ stack'[1] \notin {"scan", "rxOn"}
                              /\ stack'[1] = "listen" => ~ScanWaits(stack')
          /\ HoldsPacket(stack') => HoldsPacket(stack)
          /\ Resumes(stack) => Resumes(stack')
      BY <1>1, <1>4, Popped DEF IInv
    <2>2. Typed'
      BY <1>1, <1>2, <1>4, <2>1
         DEF IInv, StillLate, radio, wake, Typed, Interrupts
    <2>3. Quiet' /\ Free'
      BY <1>1, <1>2, <1>4, <2>1
         DEF IInv, StillLate, radio, wake, Typed, Interrupts, Quiet, Nesting,
             Waiting, Free
    <2>4. Attached' /\ Noted'
      BY <1>1, <1>2, <1>4, <2>1
         DEF IInv, StillLate, radio, wake, Typed, Interrupts, Waiting, Free,
             Attached, At, Noted
    <2>5. Watched'
      BY <1>1, <1>2, <1>4, <2>1
         DEF IInv, StillLate, radio, wake, Typed, Interrupts, Free, Attached,
             At, Noted, Watched
    <2>6. Woken' /\ Resumed'
      BY <1>1, <1>2, <1>4, <2>1
         DEF IInv, StillLate, radio, wake, Typed, Interrupts, Free, At, Noted,
             Watched, Woken, Resumed
    <2> QED
      BY <1>1, <1>2, <1>4, <2>1, <2>2, <2>3, <2>4, <2>5, <2>6 DEF IInv
  <1> QED
    BY <1>3, <1>4 DEF StillLate

LEMMA SetTransmitDelayWell ==
    ASSUME IInv, SetTransmitDelay PROVE IInv'
  <1>1. stack # <<>> /\ stack[1] = "setDelay"
    BY OnTop DEF IInv, SetTransmitDelay
  <1>2. QueueInv'
    BY UnchangedQueue DEF IInv, SetTransmitDelay
  <1>3. CASE Then(<<"arm">>)
    <2>1. /\ StackInv' /\ stack' # <<>> /\ stack'[1] = "arm"
          /\ HasWork(stack')
          /\ HoldsPacket(stack') => HoldsPacket(stack)
          /\ Resumes(stack) => Resumes(stack')
      BY <1>1, <1>3, Swapped DEF IInv, Statements, Attempt, Stops, WorkItems
    <2>2. Typed'
      BY <1>1, <1>2, <2>1
         DEF IInv, SetTransmitDelay, radio, wake, Typed, Interrupts
    <2>3. Quiet' /\ Free'
      BY <1>1, <1>2, <2>1
         DEF IInv, SetTransmitDelay, radio, wake, Typed, Interrupts, Quiet,
             Nesting, Waiting, Free
    <2>4. Attached' /\ Noted'
      BY <1>1, <1>2, <2>1
         DEF IInv, SetTransmitDelay, radio, wake, Typed, Interrupts, Waiting,
             Free, Attached, At, Noted
    <2>5. Watched'
      BY <1>1, <1>2, <2>1
         DEF IInv, SetTransmitDelay, radio, wake, Typed, Interrupts, Free,
             Attached, At, Noted, Watched
    <2>6. Woken' /\ Resumed'
      BY <1>1, <1>2, <2>1
         DEF IInv, SetTransmitDelay, radio, wake, Typed, Interrupts, Free, At,
             Noted, Watched, Woken, Resumed
    <2> QED
      BY <1>1, <1>2, <2>1, <2>2, <2>3, <2>4, <2>5, <2>6 DEF IInv
  <1>4. CASE Then(<<>>) /\ (queue = <<>> \/ notification # "none")
    <2>1. /\ StackInv'
          /\ stack' # <<>> => /\ stack'[1] \in Waiting
                              /\ stack'[1] \notin {"scan", "rxOn"}
                              /\ stack'[1] = "listen" => ~ScanWaits(stack')
          /\ HoldsPacket(stack') => HoldsPacket(stack)
          /\ Resumes(stack) => Resumes(stack')
      BY <1>1, <1>4, Popped DEF IInv
    <2>2. Typed'
      BY <1>1, <1>2, <1>4, <2>1
         DEF IInv, SetTransmitDelay, radio, wake, Typed, Interrupts
    <2>3. Quiet' /\ Free'
      BY <1>1, <1>2, <1>4, <2>1
         DEF IInv, SetTransmitDelay, radio, wake, Typed, Interrupts, Quiet,
             Nesting, Waiting, Free
    <2>4. Attached' /\ Noted'
      BY <1>1, <1>2, <1>4, <2>1
         DEF IInv, SetTransmitDelay, radio, wake, Typed, Interrupts, Waiting,
             Free, Attached, At, Noted
    <2>5. Watched'
      BY <1>1, <1>2, <1>4, <2>1
         DEF IInv, SetTransmitDelay, radio, wake, Typed, Interrupts, Free,
             Attached, At, Noted, Watched
    <2>6. Woken' /\ Resumed'
      BY <1>1, <1>2, <1>4, <2>1
         DEF IInv, SetTransmitDelay, radio, wake, Typed, Interrupts, Free, At,
             Noted, Watched, Woken, Resumed
    <2> QED
      BY <1>1, <1>2, <1>4, <2>1, <2>2, <2>3, <2>4, <2>5, <2>6 DEF IInv
  <1> QED
    BY <1>3, <1>4 DEF SetTransmitDelay

LEMMA BusyWell ==
    ASSUME IInv, Busy PROVE IInv'
  <1>1. stack # <<>> /\ stack[1] = "delayed" /\ ~ScanWaits(stack)
    BY OnTop DEF IInv, Busy, Attempt
  <1>2. /\ StackInv' /\ stack' # <<>> /\ stack'[1] = "setDelay"
        /\ ~ScanWaits(stack')
        /\ HasWork(stack')
        /\ HoldsPacket(stack') => HoldsPacket(stack)
        /\ Resumes(stack) => Resumes(stack')
    BY <1>1, Swapped
       DEF IInv, Busy, Statements, Attempt, Stops, WorkItems
  <1>3. QueueInv'
    BY UnchangedQueue DEF IInv, Busy
  <1>4. Typed'
    BY <1>1, <1>2, <1>3
       DEF IInv, radio, wake, Busy, Typed, Interrupts
  <1>5. Quiet' /\ Free'
    BY <1>1, <1>2, <1>3
       DEF IInv, radio, wake, Busy, Typed, Interrupts, Quiet, Nesting, Waiting,
           Free
  <1>6. Attached' /\ Noted'
    BY <1>1, <1>2, <1>3
       DEF IInv, radio, wake, Busy, Typed, Interrupts, Waiting, Free, Attached,
           At, Noted
  <1>7. Watched'
    BY <1>1, <1>2, <1>3
       DEF IInv, radio, wake, Busy, Typed, Interrupts, Free, Attached, At,
           Noted, Watched
  <1>8. Woken' /\ Resumed'
    BY <1>1, <1>2, <1>3
       DEF IInv, radio, wake, Busy, Typed, Interrupts, Free, At, Noted,
           Watched, Woken, Resumed
  <1> QED
    BY <1>1, <1>2, <1>3, <1>4, <1>5, <1>6, <1>7, <1>8 DEF IInv

LEMMA ChannelFreeWell ==
    ASSUME IInv, ChannelFree PROVE IInv'
  <1>1. stack # <<>> /\ stack[1] = "scan" /\ ~ScanWaits(stack)
        /\ HoldsPacket(stack)
    BY OnTop DEF IInv, ChannelFree, Attempt, HoldsPacket
  <1>2. /\ StackInv' /\ stack' # <<>> /\ stack'[1] = "send"
        /\ ~ScanWaits(stack')
        /\ HasWork(stack')
        /\ Resumes(stack) => Resumes(stack')
    BY <1>1, Swapped
       DEF IInv, ChannelFree, Statements, Attempt, Stops, WorkItems
  <1>3. QueueInv'
    BY UnchangedQueue DEF IInv, ChannelFree
  <1>4. Typed'
    BY <1>1, <1>2, <1>3
       DEF IInv, ChannelFree, radio, wake, Typed, Interrupts
  <1>5. Quiet' /\ Free'
    BY <1>1, <1>2, <1>3
       DEF IInv, ChannelFree, radio, wake, Typed, Interrupts, Quiet, Nesting,
           Waiting, Free
  <1>6. Attached' /\ Noted'
    BY <1>1, <1>2, <1>3
       DEF IInv, ChannelFree, radio, wake, Typed, Interrupts, Waiting, Free,
           Attached, At, Noted
  <1>7. Watched'
    BY <1>1, <1>2, <1>3
       DEF IInv, ChannelFree, radio, wake, Typed, Interrupts, Free, Attached,
           At, Noted, Watched
  <1>8. Woken' /\ Resumed'
    BY <1>1, <1>2, <1>3
       DEF IInv, ChannelFree, radio, wake, Typed, Interrupts, Free, At, Noted,
           Watched, Woken, Resumed
  <1> QED
    BY <1>1, <1>2, <1>3, <1>4, <1>5, <1>6, <1>7, <1>8 DEF IInv

LEMMA SendFailedWell ==
    ASSUME IInv, SendFailed PROVE IInv'
  <1>1. stack # <<>> /\ stack[1] = "send" /\ ~ScanWaits(stack)
    BY OnTop DEF IInv, SendFailed, Attempt
  <1>2. /\ StackInv' /\ stack' # <<>> /\ stack'[1] = "listen"
        /\ ~ScanWaits(stack')
        /\ ~HoldsPacket(stack')
    BY <1>1, Swapped
       DEF IInv, SendFailed, Statements, Attempt, Stops, WorkItems
  <1>3. QueueInv' /\ queue # <<>> /\ queue' = Tail(queue)
        /\ (queue' # <<>> => queue # <<>>)
    <2>1. HoldsPacket(stack)
      BY <1>1, OnTop DEF IInv, HoldsPacket
    <2>2. queue # <<>>
      BY <2>1 DEF IInv, Free
    <2> QED
      BY <2>2, TakenWell DEF IInv, SendFailed
  <1>4. Typed'
    BY <1>1, <1>2, <1>3, PacketsAssumption
       DEF IInv, radio, SendFailed, Typed, Interrupts
  <1>5. Quiet' /\ Free'
    BY <1>1, <1>2, <1>3
       DEF IInv, radio, SendFailed, Typed, Interrupts, Quiet, Nesting, Waiting,
           Free
  <1>6. Attached' /\ Noted'
    BY <1>1, <1>2, <1>3
       DEF IInv, radio, SendFailed, Typed, Interrupts, Waiting, Free, Attached,
           At, Noted
  <1>7. Watched'
    BY <1>1, <1>2, <1>3
       DEF IInv, radio, SendFailed, Typed, Interrupts, Free, Attached, At,
           Noted, Watched
  <1>8. Woken' /\ Resumed'
    BY <1>1, <1>2, <1>3
       DEF IInv, radio, SendFailed, Typed, Interrupts, Free, At, Noted,
           Watched, Woken, Resumed
  <1> QED
    BY <1>1, <1>2, <1>3, <1>4, <1>5, <1>6, <1>7, <1>8 DEF IInv

LEMMA HandleTransmitInterruptWell ==
    ASSUME IInv, HandleTransmitInterrupt PROVE IInv'
  <1>1. stack # <<>> /\ stack[1] = "tx"
        /\ (stack[1] \in Attempt => ~ScanWaits(stack))
    BY OnTop DEF IInv, HandleTransmitInterrupt
  <1>2. /\ StackInv' /\ stack' # <<>> /\ stack'[1] = "listen"
        /\ ScanWaits(stack') => ScanWaits(stack)
        /\ HasWork(stack')
        /\ HoldsPacket(stack') => HoldsPacket(stack)
        /\ Resumes(stack) => Resumes(stack')
    BY <1>1, Pushed
       DEF IInv, HandleTransmitInterrupt, Statements, Waiting, Attempt, Stops,
           Looks, WorkItems
  <1>3. QueueInv'
    BY UnchangedQueue DEF IInv, HandleTransmitInterrupt
  <1>4. Typed'
    BY <1>1, <1>2, <1>3
       DEF IInv, wake, HandleTransmitInterrupt, Attempt, Typed, Interrupts
  <1>5. Quiet' /\ Free'
    BY <1>1, <1>2, <1>3
       DEF IInv, wake, HandleTransmitInterrupt, Attempt, Typed, Interrupts,
           Quiet, Nesting, Waiting, Free
  <1>6. Attached' /\ Noted'
    BY <1>1, <1>2, <1>3
       DEF IInv, wake, HandleTransmitInterrupt, Attempt, Typed, Interrupts,
           Waiting, Free, Attached, At, Noted
  <1>7. Watched'
    BY <1>1, <1>2, <1>3
       DEF IInv, wake, HandleTransmitInterrupt, Attempt, Typed, Interrupts,
           Free, Attached, At, Noted, Watched
  <1>8. Woken' /\ Resumed'
    BY <1>1, <1>2, <1>3
       DEF IInv, wake, HandleTransmitInterrupt, Attempt, Typed, Interrupts,
           Free, At, Noted, Watched, Woken, Resumed
  <1> QED
    BY <1>1, <1>2, <1>3, <1>4, <1>5, <1>6, <1>7, <1>8 DEF IInv

LEMMA HandleReceiveInterruptWell ==
    ASSUME IInv, HandleReceiveInterrupt PROVE IInv'
  <1>1. stack # <<>> /\ stack[1] = "rx"
        /\ (stack[1] \in Attempt => ~ScanWaits(stack))
    BY OnTop DEF IInv, HandleReceiveInterrupt
  <1>2. /\ StackInv' /\ stack' # <<>> /\ stack'[1] = "listen"
        /\ ScanWaits(stack') => ScanWaits(stack)
        /\ HasWork(stack')
        /\ HoldsPacket(stack') => HoldsPacket(stack)
        /\ Resumes(stack) => Resumes(stack')
    BY <1>1, Pushed
       DEF IInv, HandleReceiveInterrupt, Statements, Waiting, Attempt, Stops,
           Looks, WorkItems
  <1>3. QueueInv'
    BY UnchangedQueue DEF IInv, HandleReceiveInterrupt
  <1>4. Typed'
    BY <1>1, <1>2, <1>3
       DEF IInv, wake, HandleReceiveInterrupt, Attempt, Typed, Interrupts
  <1>5. Quiet' /\ Free'
    BY <1>1, <1>2, <1>3
       DEF IInv, wake, HandleReceiveInterrupt, Attempt, Typed, Interrupts,
           Quiet, Nesting, Waiting, Free
  <1>6. Attached' /\ Noted'
    BY <1>1, <1>2, <1>3
       DEF IInv, wake, HandleReceiveInterrupt, Attempt, Typed, Interrupts,
           Waiting, Free, Attached, At, Noted
  <1>7. Watched'
    BY <1>1, <1>2, <1>3
       DEF IInv, wake, HandleReceiveInterrupt, Attempt, Typed, Interrupts,
           Free, Attached, At, Noted, Watched
  <1>8. Woken' /\ Resumed'
    BY <1>1, <1>2, <1>3
       DEF IInv, wake, HandleReceiveInterrupt, Attempt, Typed, Interrupts,
           Free, At, Noted, Watched, Woken, Resumed
  <1> QED
    BY <1>1, <1>2, <1>3, <1>4, <1>5, <1>6, <1>7, <1>8 DEF IInv

LEMMA TryToSendWell ==
    ASSUME IInv, TryToSend PROVE IInv'
  <1>1. stack # <<>> /\ stack[1] = "delayed"
        /\ (stack[1] \in Attempt => ~ScanWaits(stack))
    BY OnTop DEF IInv, TryToSend
  <1>2. /\ StackInv' /\ stack' # <<>> /\ stack'[1] = "standby"
        /\ HasWork(stack')
        /\ Resumes(stack) => Resumes(stack')
    BY <1>1, Pushed
       DEF IInv, TryToSend, Statements, Waiting, Attempt, Stops,
           Looks, WorkItems
  <1>3. QueueInv'
    BY UnchangedQueue DEF IInv, TryToSend
  <1>4. Typed'
    BY <1>1, <1>2, <1>3
       DEF IInv, radio, wake, TryToSend, Attempt, Typed, Interrupts
  <1>5. Quiet' /\ Free'
    BY <1>1, <1>2, <1>3
       DEF IInv, radio, wake, TryToSend, Attempt, Typed, Interrupts, Quiet,
           Nesting, Waiting, Free
  <1>6. Attached' /\ Noted'
    BY <1>1, <1>2, <1>3
       DEF IInv, radio, wake, TryToSend, Attempt, Typed, Interrupts, Waiting,
           Free, Attached, At, Noted
  <1>7. Watched'
    BY <1>1, <1>2, <1>3
       DEF IInv, radio, wake, TryToSend, Attempt, Typed, Interrupts, Free,
           Attached, At, Noted, Watched
  <1>8. Woken' /\ Resumed'
    BY <1>1, <1>2, <1>3
       DEF IInv, radio, wake, TryToSend, Attempt, Typed, Interrupts, Free, At,
           Noted, Watched, Woken, Resumed
  <1> QED
    BY <1>1, <1>2, <1>3, <1>4, <1>5, <1>6, <1>7, <1>8 DEF IInv

LEMMA ChannelActiveWell ==
    ASSUME IInv, ChannelActive PROVE IInv'
  <1>1. stack # <<>> /\ stack[1] = "scan"
        /\ (stack[1] \in Attempt => ~ScanWaits(stack))
    BY OnTop DEF IInv, ChannelActive
  <1>2. /\ StackInv' /\ stack' # <<>> /\ stack'[1] = "listen"
        /\ ScanWaits(stack') => ScanWaits(stack)
        /\ HasWork(stack')
        /\ HoldsPacket(stack') => HoldsPacket(stack)
        /\ Resumes(stack) => Resumes(stack')
    BY <1>1, Pushed
       DEF IInv, ChannelActive, Statements, Waiting, Attempt, Stops,
           Looks, WorkItems
  <1>3. QueueInv'
    BY UnchangedQueue DEF IInv, ChannelActive
  <1>4. Typed'
    BY <1>1, <1>2, <1>3
       DEF IInv, radio, wake, ChannelActive, Attempt, Typed, Interrupts
  <1>5. Quiet' /\ Free'
    BY <1>1, <1>2, <1>3
       DEF IInv, radio, wake, ChannelActive, Attempt, Typed, Interrupts, Quiet,
           Nesting, Waiting, Free
  <1>6. Attached' /\ Noted'
    BY <1>1, <1>2, <1>3
       DEF IInv, radio, wake, ChannelActive, Attempt, Typed, Interrupts,
           Waiting, Free, Attached, At, Noted
  <1>7. Watched'
    BY <1>1, <1>2, <1>3
       DEF IInv, radio, wake, ChannelActive, Attempt, Typed, Interrupts, Free,
           Attached, At, Noted, Watched
  <1>8. Woken' /\ Resumed'
    BY <1>1, <1>2, <1>3
       DEF IInv, radio, wake, ChannelActive, Attempt, Typed, Interrupts, Free,
           At, Noted, Watched, Woken, Resumed
  <1> QED
    BY <1>1, <1>2, <1>3, <1>4, <1>5, <1>6, <1>7, <1>8 DEF IInv

LEMMA StandbyWell ==
    ASSUME IInv, Standby PROVE IInv'
  <1>1. stack # <<>> /\ stack[1] = "standby"
        /\ (stack[1] \in Attempt => ~ScanWaits(stack))
    BY OnTop DEF IInv, Standby
  <1>2. /\ StackInv' /\ stack' # <<>> /\ stack'[1] = "check"
        /\ ScanWaits(stack') => ScanWaits(stack)
        /\ HasWork(stack) => HasWork(stack')
        /\ HoldsPacket(stack') => HoldsPacket(stack)
        /\ Resumes(stack) => Resumes(stack')
    BY <1>1, Pushed
       DEF IInv, Standby, Statements, Waiting, Attempt, Stops,
           Looks, WorkItems
  <1>3. QueueInv'
    BY UnchangedQueue DEF IInv, Standby
  <1>4. Typed'
    BY <1>1, <1>2, <1>3
       DEF IInv, radio, wake, Standby, Attempt, Typed, Interrupts
  <1>5. Quiet' /\ Free'
    BY <1>1, <1>2, <1>3
       DEF IInv, radio, wake, Standby, Attempt, Typed, Interrupts, Quiet,
           Nesting, Waiting, Free
  <1>6. Attached' /\ Noted'
    BY <1>1, <1>2, <1>3
       DEF IInv, radio, wake, Standby, Attempt, Typed, Interrupts, Waiting,
           Free, Attached, At, Noted
  <1>7. Watched'
    BY <1>1, <1>2, <1>3
       DEF IInv, radio, wake, Standby, Attempt, Typed, Interrupts, Free,
           Attached, At, Noted, Watched
  <1>8. Woken' /\ Resumed'
    BY <1>1, <1>2, <1>3
       DEF IInv, radio, wake, Standby, Attempt, Typed, Interrupts, Free, At,
           Noted, Watched, Woken, Resumed
  <1> QED
    BY <1>1, <1>2, <1>3, <1>4, <1>5, <1>6, <1>7, <1>8 DEF IInv

LEMMA ListenWell ==
    ASSUME IInv, Listen PROVE IInv'
  <1>1. stack # <<>> /\ stack[1] = "listen"
        /\ (stack[1] \in Attempt => ~ScanWaits(stack))
    BY OnTop DEF IInv, Listen
  <1>2. /\ StackInv' /\ stack' # <<>> /\ stack'[1] = "standby"
        /\ ScanWaits(stack') => ScanWaits(stack)
        /\ HasWork(stack) => HasWork(stack')
        /\ HoldsPacket(stack') => HoldsPacket(stack)
        /\ Resumes(stack) => Resumes(stack')
    BY <1>1, Pushed
       DEF IInv, Listen, Statements, Waiting, Attempt, Stops,
           Looks, WorkItems
  <1>3. QueueInv'
    BY UnchangedQueue DEF IInv, Listen
  <1>4. Typed'
    BY <1>1, <1>2, <1>3
       DEF IInv, radio, wake, Listen, Attempt, Typed, Interrupts
  <1>5. Quiet' /\ Free'
    BY <1>1, <1>2, <1>3
       DEF IInv, radio, wake, Listen, Attempt, Typed, Interrupts, Quiet,
           Nesting, Waiting, Free
  <1>6. Attached' /\ Noted'
    BY <1>1, <1>2, <1>3
       DEF IInv, radio, wake, Listen, Attempt, Typed, Interrupts, Waiting,
           Free, Attached, At, Noted
  <1>7. Watched'
    BY <1>1, <1>2, <1>3
       DEF IInv, radio, wake, Listen, Attempt, Typed, Interrupts, Free,
           Attached, At, Noted, Watched
  <1>8. Woken' /\ Resumed'
    BY <1>1, <1>2, <1>3
       DEF IInv, radio, wake, Listen, Attempt, Typed, Interrupts, Free, At,
           Noted, Watched, Woken, Resumed
  <1> QED
    BY <1>1, <1>2, <1>3, <1>4, <1>5, <1>6, <1>7, <1>8 DEF IInv

LEMMA TxDoneWell ==
    ASSUME IInv, TxDone PROVE IInv'
  <1>1. stack' = stack /\ StackInv'
    BY DEF IInv, StackInv, TxDone, Interrupt
  <1>2. QueueInv'
    BY UnchangedQueue DEF IInv, TxDone, Interrupt
  <1>3. arrivals' \in 0..MaxArrivals
    BY PacketsAssumption DEF IInv, Typed, TxDone
  <1>4. Typed'
    BY <1>1, <1>2, <1>3
       DEF IInv, TxDone, Interrupt, ghost, Typed, Interrupts
  <1>5. Quiet' /\ Free'
    BY <1>1, <1>2, <1>3
       DEF IInv, TxDone, Interrupt, ghost, Typed, Interrupts, Quiet, Nesting,
           Waiting, Free
  <1>6. Attached' /\ Noted'
    BY <1>1, <1>2, <1>3
       DEF IInv, TxDone, Interrupt, ghost, Typed, Interrupts, Waiting, Free,
           Attached, At, Noted
  <1>7. Watched'
    BY <1>1, <1>2, <1>3
       DEF IInv, TxDone, Interrupt, ghost, Typed, Interrupts, Free, Attached,
           At, Noted, Watched
  <1>8. Woken' /\ Resumed'
    BY <1>1, <1>2, <1>3
       DEF IInv, TxDone, Interrupt, ghost, Typed, Interrupts, Free, At, Noted,
           Watched, Woken, Resumed
  <1> QED
    BY <1>1, <1>2, <1>3, <1>4, <1>5, <1>6, <1>7, <1>8 DEF IInv

LEMMA RxDoneWell ==
    ASSUME IInv, RxDone PROVE IInv'
  <1>1. stack' = stack /\ StackInv'
    BY DEF IInv, StackInv, RxDone, Interrupt
  <1>2. QueueInv'
    BY UnchangedQueue DEF IInv, RxDone, Interrupt
  <1>3. arrivals' \in 0..MaxArrivals
    BY PacketsAssumption DEF IInv, Typed, RxDone
  <1>4. Typed'
    BY <1>1, <1>2, <1>3
       DEF IInv, RxDone, Interrupt, ghost, Typed, Interrupts
  <1>5. Quiet' /\ Free'
    BY <1>1, <1>2, <1>3
       DEF IInv, RxDone, Interrupt, ghost, Typed, Interrupts, Quiet, Nesting,
           Waiting, Free
  <1>6. Attached' /\ Noted'
    BY <1>1, <1>2, <1>3
       DEF IInv, RxDone, Interrupt, ghost, Typed, Interrupts, Waiting, Free,
           Attached, At, Noted
  <1>7. Watched'
    BY <1>1, <1>2, <1>3
       DEF IInv, RxDone, Interrupt, ghost, Typed, Interrupts, Free, Attached,
           At, Noted, Watched
  <1>8. Woken' /\ Resumed'
    BY <1>1, <1>2, <1>3
       DEF IInv, RxDone, Interrupt, ghost, Typed, Interrupts, Free, At, Noted,
           Watched, Woken, Resumed
  <1> QED
    BY <1>1, <1>2, <1>3, <1>4, <1>5, <1>6, <1>7, <1>8 DEF IInv

LEMMA SendKeeps == ASSUME IInv, NEW p \in Packets, Send(p) PROVE IInv'
  <1>1. /\ StackInv' /\ stack' # <<>> /\ stack'[1] = "setDelay"
        /\ HasWork(stack') /\ ~HoldsPacket(stack') /\ Resumes(stack')
    BY Started DEF Send, Statements, Stops, WorkItems
  <1>2. QueueInv'
    BY SendWell DEF IInv
  <1>3. arrivals' \in 0..MaxArrivals
    BY PacketsAssumption DEF IInv, Typed, Send
  <1>4. Typed'
    BY <1>1, <1>2, <1>3
       DEF IInv, Send, InMainLoop, radio, wake, Typed, Interrupts
  <1>5. Quiet' /\ Free'
    BY <1>1, <1>2, <1>3
       DEF IInv, Send, InMainLoop, radio, wake, Typed, Interrupts, Quiet,
           Nesting, Waiting, Free
  <1>6. Attached' /\ Noted'
    BY <1>1, <1>2, <1>3
       DEF IInv, Send, InMainLoop, radio, wake, Typed, Interrupts, Waiting,
           Free, Attached, At, Noted
  <1>7. Watched'
    BY <1>1, <1>2, <1>3
       DEF IInv, Send, InMainLoop, radio, wake, Typed, Interrupts, Free,
           Attached, At, Noted, Watched
  <1>8. Woken' /\ Resumed'
    BY <1>1, <1>2, <1>3
       DEF IInv, Send, InMainLoop, radio, wake, Typed, Interrupts, Free, At,
           Noted, Watched, Woken, Resumed
  <1> QED
    BY <1>1, <1>2, <1>3, <1>4, <1>5, <1>6, <1>7, <1>8 DEF IInv

LEMMA CallersKeep ==
    ASSUME IInv, NEW id, NEW hop,
           Cancel(id) \/ ClampToLate(id) \/ RemovePending(id, hop)
    PROVE  IInv'
  <1>1. QueueInv' /\ queue # <<>> /\ stack = <<>> /\ stack' = stack
    BY CallersWell DEF IInv
  <1>2. UNCHANGED <<arrivals, radio, wake, txEnabled>>
    BY DEF Cancel, ClampToLate, RemovePending
  <1>3. StackInv' /\ ~HoldsPacket(stack)
    BY <1>1 DEF IInv, StackInv, HoldsPacket
  <1>4. Typed'
    BY <1>1, <1>2, <1>3
       DEF IInv, radio, wake, Typed, Interrupts
  <1>5. Quiet' /\ Free'
    BY <1>1, <1>2, <1>3
       DEF IInv, radio, wake, Typed, Interrupts, Quiet, Nesting, Waiting, Free
  <1>6. Attached' /\ Noted'
    BY <1>1, <1>2, <1>3
       DEF IInv, radio, wake, Typed, Interrupts, Waiting, Free, Attached, At,
           Noted
  <1>7. Watched'
    BY <1>1, <1>2, <1>3
       DEF IInv, radio, wake, Typed, Interrupts, Free, Attached, At, Noted,
           Watched
  <1>8. Woken' /\ Resumed'
    BY <1>1, <1>2, <1>3
       DEF IInv, radio, wake, Typed, Interrupts, Free, At, Noted, Watched,
           Woken, Resumed
  <1> QED
    BY <1>1, <1>2, <1>3, <1>4, <1>5, <1>6, <1>7, <1>8 DEF IInv

LEMMA ReconfigureKeeps ==
    ASSUME IInv, NEW enable \in BOOLEAN, Reconfigure(enable) PROVE IInv'
  <1>1. /\ StackInv' /\ stack' # <<>> /\ stack'[1] = "standby"
        /\ ~ScanWaits(stack') /\ ~HoldsPacket(stack')
    BY StartedInStandby DEF Reconfigure
  <1>2. QueueInv' /\ stack = <<>>
    BY UnchangedQueue DEF IInv, Reconfigure, InMainLoop
  <1>3. Typed'
    BY <1>1, <1>2
       DEF IInv, Reconfigure, radio, Typed, Interrupts
  <1>4. Quiet' /\ Free'
    BY <1>1, <1>2
       DEF IInv, Reconfigure, radio, Typed, Interrupts, Quiet, Nesting,
           Waiting, Free
  <1>5. Attached' /\ Noted'
    BY <1>1, <1>2
       DEF IInv, Reconfigure, radio, Typed, Interrupts, Waiting, Free,
           Attached, At, Noted
  <1>6. Watched'
    BY <1>1, <1>2
       DEF IInv, Reconfigure, radio, Typed, Interrupts, Free, Attached, At,
           Noted, Watched
  <1>7. Woken' /\ Resumed'
    BY <1>1, <1>2
       DEF IInv, Reconfigure, radio, Typed, Interrupts, Free, At, Noted,
           Watched, Woken, Resumed
  <1> QED
    BY <1>1, <1>2, <1>3, <1>4, <1>5, <1>6, <1>7 DEF IInv

LEMMA DeepSleepWell ==
    ASSUME IInv, DeepSleep PROVE IInv'
  <1>1. /\ StackInv' /\ stack' # <<>> /\ stack'[1] = "standby"
        /\ ~ScanWaits(stack') /\ ~HoldsPacket(stack')
    BY StartedInStandby DEF DeepSleep
  <1>2. QueueInv' /\ stack = <<>>
    BY UnchangedQueue DEF IInv, DeepSleep, InMainLoop
  <1>3. Typed'
    BY <1>1, <1>2
       DEF IInv, DeepSleep, radio, wake, Typed, Interrupts
  <1>4. Quiet' /\ Free'
    BY <1>1, <1>2
       DEF IInv, DeepSleep, radio, wake, Typed, Interrupts, Quiet, Nesting,
           Waiting, Free
  <1>5. Attached' /\ Noted'
    BY <1>1, <1>2
       DEF IInv, DeepSleep, radio, wake, Typed, Interrupts, Waiting, Free,
           Attached, At, Noted
  <1>6. Watched'
    BY <1>1, <1>2
       DEF IInv, DeepSleep, radio, wake, Typed, Interrupts, Free, Attached, At,
           Noted, Watched
  <1>7. Woken' /\ Resumed'
    BY <1>1, <1>2
       DEF IInv, DeepSleep, radio, wake, Typed, Interrupts, Free, At, Noted,
           Watched, Woken, Resumed
  <1> QED
    BY <1>1, <1>2, <1>3, <1>4, <1>5, <1>6, <1>7 DEF IInv

LEMMA EmptyWell ==
    ASSUME NEW q, NEW s, q = <<>>, s = <<>>
    PROVE  /\ q \in Seq(Packet) /\ Len(q) <= MaxLen /\ Sorted(q)
           /\ s \in Seq(Statements) /\ Shape(s) /\ ~HoldsPacket(s)
  <1>1. q \in Seq(Packet) /\ s \in Seq(Statements) /\ Len(q) = 0 /\ Len(s) = 0
    OBVIOUS
  <1>2. 1..Len(q) = {} /\ 1..Len(s) = {} /\ 2..Len(s) = {}
    BY <1>1
  <1>3. Sorted(q) /\ Shape(s) /\ ~HoldsPacket(s)
    BY <1>2 DEF Sorted, Shape, HoldsPacket
  <1> QED
    BY <1>1, <1>3, PacketsAssumption

LEMMA InitWell == Init => IInv
  <1> SUFFICES ASSUME Init PROVE IInv
    OBVIOUS
  <1>1. QueueInv /\ StackInv
    BY EmptyWell DEF Init, QueueInv, StackInv
  <1>2. ~HoldsPacket(stack)
    BY EmptyWell DEF Init
  <1>3. Typed
    <2>1. arrivals \in 0..MaxArrivals
      BY PacketsAssumption DEF Init
    <2> QED
      BY <2>1 DEF Init, Typed, Interrupts
  <1>4. Quiet /\ Free /\ Attached /\ Noted /\ Watched /\ Woken /\ Resumed
    BY <1>2 DEF Init, Quiet, Free, Attached, At, Noted, Watched, Woken, Resumed
  <1> QED
    BY <1>1, <1>3, <1>4 DEF IInv

LEMMA BootWell == ASSUME IInv, Boot PROVE IInv'
  <1>1. QueueInv' /\ StackInv' /\ ~HoldsPacket(stack')
    BY EmptyWell DEF Boot, QueueInv, StackInv
  <1>2. txEnabled' \in BOOLEAN /\ arrivals' \in 0..MaxArrivals
    BY PacketsAssumption DEF IInv, Typed, Boot
  <1> QED
    BY <1>1, <1>2
       DEF IInv, Boot, Typed, Interrupts, Quiet, Free, Attached, At, Noted,
           Watched, Woken, Resumed

LEMMA StepWell == IInv /\ [Next]_vars => IInv'
  <1> SUFFICES ASSUME IInv, [Next]_vars PROVE IInv'
    OBVIOUS
  <1>1. CASE Worker
    <2>1. CASE WakeUp \/ RebootWhenStuck
      BY <2>1, BootWell DEF WakeUp, RebootWhenStuck
    <2>2. CASE ~(WakeUp \/ RebootWhenStuck)
      BY <1>1, <2>2, RunWell, CheckWell, ClearWell, HandleTransmitInterruptWell,
         HandleReceiveInterruptWell, NothingQueuedWell, BusyWell, StillLateWell,
         TryToSendWell, ChannelActiveWell, ChannelFreeWell, SendRefusedWell,
         SendStartedWell, SendFailedWell, StandbyWell, HaltWell, ListenWell,
         ReceiverOnWell, SetTransmitDelayWell, ArmWell
         DEF Worker
    <2> QED
      BY <2>1, <2>2
  <1>2. CASE TxDone
    BY <1>2, TxDoneWell
  <1>3. CASE RxDone
    BY <1>3, RxDoneWell
  <1>4. ASSUME NEW p \in Packets, Send(p) \/ Cancel(p.id) \/ ClampToLate(p.id)
        PROVE  IInv'
    BY <1>4, SendKeeps, CallersKeep
  <1>5. ASSUME NEW p \in Packets, NEW hop \in HopLimits, RemovePending(p.id, hop)
        PROVE  IInv'
    BY <1>5, CallersKeep
  <1>6. CASE \E enable \in BOOLEAN : Reconfigure(enable)
    BY <1>6, ReconfigureKeeps
  <1>7. CASE DeepSleep
    BY <1>7, DeepSleepWell
  <1>8. CASE SleepGivesUp
    BY <1>8, BootWell DEF SleepGivesUp
  <1>9. CASE UNCHANGED vars
    <2>1. QueueInv' /\ UNCHANGED <<radio, wake, txEnabled, stack, arrivals>>
      BY <1>9, UnchangedQueue DEF IInv, vars, radio, wake
    <2>2. StackInv' /\ stack' = stack /\ queue' = queue
      BY <1>9, <2>1 DEF IInv, StackInv, vars
    <2>3. Typed'
      BY <2>1, <2>2
         DEF IInv, radio, wake, Typed, Interrupts
    <2>4. Quiet' /\ Free'
      BY <2>1, <2>2
         DEF IInv, radio, wake, Typed, Interrupts, Quiet, Nesting, Waiting,
             Free
    <2>5. Attached' /\ Noted'
      BY <2>1, <2>2
         DEF IInv, radio, wake, Typed, Interrupts, Waiting, Free, Attached, At,
             Noted
    <2>6. Watched'
      BY <2>1, <2>2
         DEF IInv, radio, wake, Typed, Interrupts, Free, Attached, At, Noted,
             Watched
    <2>7. Woken' /\ Resumed'
      BY <2>1, <2>2
         DEF IInv, radio, wake, Typed, Interrupts, Free, At, Noted, Watched,
             Woken, Resumed
    <2> QED
      BY <2>1, <2>2, <2>3, <2>4, <2>5, <2>6, <2>7 DEF IInv
  <1> QED
    BY <1>1, <1>2, <1>3, <1>4, <1>5, <1>6, <1>7, <1>8, <1>9 DEF Next

LEMMA Invariance == Spec => []IInv
  BY InitWell, StepWell, PTL DEF Spec

----------------------------------------------------------------------------
(* What follows *)

\* Every variable has its type: in particular the queue never holds more than
\* MAX_TX_QUEUE packets, whatever enqueue() and the late window do to it.
THEOREM Typing == Spec => []TypeOK
  <1>1. IInv => TypeOK
    BY DEF IInv, Typed, QueueInv, StackInv, TypeOK
  <1> QED
    BY <1>1, Invariance, PTL

\* The queue keeps CompareMeshPacketFunc's order, also among copies of a packet,
\* when packets are inserted, evicted, cancelled, replaced and moved to the late
\* window.
THEOREM Order == Spec => []QueueInOrder
  <1>1. IInv => QueueInOrder
    BY DEF IInv, QueueInv, Sorted, QueueInOrder
  <1> QED
    BY <1>1, Invariance, PTL

\* startSend() always has a packet to send, a transmitter that holds none and a
\* radio in standby: beginSending()'s assertion cannot fail.
THEOREM FreeToSend == Spec => []TransmitterFree
  <1>1. IInv => TransmitterFree
    <2> SUFFICES ASSUME IInv, Top("send") PROVE TransmitterFree
      BY DEF TransmitterFree
    <2>1. stack # <<>> /\ stack[1] = "send" /\ HoldsPacket(stack)
      BY OnTop DEF IInv, HoldsPacket
    <2> QED
      BY <2>1 DEF IInv, Free, TransmitterFree
  <1> QED
    BY <1>1, Invariance, PTL

\* Between two calls a packet being sent has the radio at work with its handler
\* attached, or its interrupt remembered with the worker due, unless
\* checkNotification() has wiped an interrupt.
THEOREM SendIsWatched == Spec => []TransmitterIsWatched
  <1>1. IInv => TransmitterIsWatched
    BY DEF IInv, Watched, Attached, Noted, At, InMainLoop, TransmitterIsWatched
  <1> QED
    BY <1>1, Invariance, PTL

\* Packets are left queued with no wake-up due only after a reconfiguration, a
\* refused or failed send, or a wiped interrupt: every other path through
\* onNotify() ends in setTransmitDelay() or in a notification to come.
THEOREM NoOtherStall == Spec => []StallsOnlyInOutage
  <1>1. IInv => StallsOnlyInOutage
    <2> SUFFICES ASSUME IInv, Stalled, ~outage, ~lost PROVE FALSE
      BY DEF IInv, Typed, StallsOnlyInOutage
    <2>1. stack = <<>> /\ queue # <<>> /\ sending = Idle
          /\ ~(enabled /\ notification # "none")
      BY DEF Stalled, InMainLoop
    <2>2. ~HasWork(stack)
      BY <2>1 DEF HasWork
    <2> QED
      BY <2>1, <2>2 DEF IInv, Woken, Noted, At
  <1> QED
    BY <1>1, Invariance, PTL

\* A packet that takes a full queue's place has a strictly higher priority than
\* the one replaceLowerPriorityPacket() gives up, which is the least urgent
\* outside the late window.
THEOREM Eviction == Spec => EvictsLeastUrgent
  <1> DEFINE Evicts(p) ==
        \A i \in DOMAIN queue :
            Copies(queue', queue[i]) < Copies(queue, queue[i]) =>
                /\ p.priority > queue[i].priority
                /\ ~queue[i].late
                /\ \A k \in DOMAIN queue :
                       queue[k].late \/ queue[k].priority >= queue[i].priority
  <1>1. ASSUME IInv, NEW p \in Packets, Send(p) PROVE Evicts(p)
    <2> SUFFICES ASSUME NEW i \in 1..Len(queue),
                        Copies(queue', queue[i]) < Copies(queue, queue[i])
                 PROVE  /\ p.priority > queue[i].priority
                        /\ ~queue[i].late
                        /\ \A k \in 1..Len(queue) :
                              queue[k].late \/ queue[k].priority >= queue[i].priority
      <3>1. queue \in Seq(Packet) /\ queue' \in Seq(Packet)
        BY <1>1, SendWell DEF IInv, QueueInv
      <3> QED
        BY <3>1
    <2> DEFINE v == Victim(queue)
    <2>1. /\ queue \in Seq(Packet) /\ Sorted(queue) /\ p \in Packet
          /\ Accepts(queue, p) /\ queue' = Enqueued(queue, p)
      BY <1>1, PacketsAssumption DEF IInv, QueueInv, Send
    <2>2. Len(queue) >= MaxLen /\ Replaceable(queue, p)
          /\ queue' = Inserted(RemoveAt(queue, v), p)
      <3>1. ~(Len(queue) < MaxLen)
        <4> SUFFICES ASSUME Len(queue) < MaxLen PROVE FALSE
          OBVIOUS
        <4>1. queue' = Inserted(queue, p)
          BY <2>1 DEF Enqueued
        <4> QED
          BY <2>1, <4>1, InsertKeeps
      <3> QED
        BY <2>1, <3>1, PacketsAssumption DEF Enqueued, Accepts
    <2>3. /\ v \in 1..Len(queue) /\ ~queue[v].late
          /\ \A k \in 1..Len(queue) : ~queue[k].late => k <= v
          /\ queue[v].priority < p.priority
      BY <2>1, <2>2, VictimIsLast DEF Replaceable
    <2>4. queue[i] = queue[v]
      <3> SUFFICES ASSUME queue[v] # queue[i] PROVE FALSE
        OBVIOUS
      <3> DEFINE r == RemoveAt(queue, v)
      <3>1. r \in Seq(Packet) /\ queue' = Inserted(r, p)
        BY <2>1, <2>2, <2>3, Removed
      <3>2. ~(Copies(r, queue[i]) < Copies(queue, queue[i]))
        BY <2>1, <2>3, RemoveKeeps
      <3> HIDE DEF r, v
      <3>3. ~(Copies(queue', queue[i]) < Copies(r, queue[i]))
        BY <2>1, <3>1, InsertKeeps
      <3>4. /\ Copies(queue, queue[i]) \in Nat /\ Copies(r, queue[i]) \in Nat
            /\ Copies(queue', queue[i]) \in Nat
        <4>1. queue' \in Seq(Packet)
          BY <2>1, <3>1, InsertedAt
        <4> QED
          BY <2>1, <3>1, <4>1, CopiesCount
      <3> QED
        BY <3>2, <3>3, <3>4
    <2>5. ASSUME NEW k \in 1..Len(queue), ~queue[k].late
          PROVE  queue[k].priority >= queue[v].priority
      <3>1. queue[k] \in Packet /\ queue[v] \in Packet /\ k <= v
        BY <2>1, <2>3, <2>5
      <3>2. CASE k = v
        BY <3>1, <3>2 DEF Packet
      <3>3. CASE k < v
        <4>1. ~Before(queue[v], queue[k])
          BY <2>1, <2>3, <3>3 DEF Sorted
        <4> QED
          BY <2>3, <2>5, <3>1, <4>1 DEF Before, Packet
      <3> QED
        BY <2>3, <3>1, <3>2, <3>3
    <2>6. p.priority > queue[v].priority
      <3>1. p \in Packet /\ queue[v] \in Packet
        BY <2>1, <2>3
      <3> QED
        BY <2>3, <3>1 DEF Packet
    <2> HIDE DEF v
    <2> QED
      BY <2>3, <2>4, <2>5, <2>6
  <1>2. IInv /\ [Next]_vars => [\A p \in Packets : Send(p) => Evicts(p)]_vars
    BY <1>1
  <1> QED
    BY <1>2, Invariance, PTL DEF Spec, EvictsLeastUrgent
=============================================================================
