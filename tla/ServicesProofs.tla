--------------------------- MODULE ServicesProofs ---------------------------
(* Theorems about the rate limits, what operators decide, the members of a    *)
(* group, and the switching of characters, for any instance, and what follows *)
(* for the instances of MCServices.                                           *)
EXTENDS Personas, MCServices, FunctionTheorems, FiniteSetTheorems, SequenceTheorems, WellFoundedInduction, TLAPS

-----------------------------------------------------------------------------
(* Steps, one after the other *)

LEMMA LeastOf == ASSUME NEW N \in SUBSET Nat, N # {} PROVE \E n \in N : \A m \in N : n <= m
  <1>1. PICK n \in N : \A m \in N : ~(<<m, n>> \in OpToRel(<, Nat))
    BY NatLessThanWellFounded, WFMin
  <1>2. \A m \in N : ~(m < n)
    BY <1>1 DEF OpToRel
  <1>3. \A m \in N : m \in Nat
    OBVIOUS
  <1>4. QED BY <1>2, <1>3

LEMMA UpTo ==
  ASSUME NEW N \in Nat, NEW H, 0 \in H, \A n \in 1..N : n - 1 \in H => n \in H
  PROVE  \A n \in 0..N : n \in H
  <1> DEFINE Bad == {n \in 0..N : n \notin H}
  <1>1. SUFFICES ASSUME Bad # {} PROVE FALSE
    OBVIOUS
  <1>2. PICK n \in Bad : \A m \in Bad : n <= m
    <2>1. Bad \in SUBSET Nat
      OBVIOUS
    <2> HIDE DEF Bad
    <2>2. QED BY <1>1, <2>1, LeastOf
  <1>3. n \in 1..N /\ n - 1 \in 0..N
    BY <1>2
  <1>4. n - 1 \notin Bad
    BY <1>2, <1>3
  <1>5. QED BY <1>2, <1>3, <1>4

\* From base, one of F for each of 1..N.
After(f, N, base, F) == f = [n \in 0..N |-> IF n = 0 THEN base ELSE F[n][f[n - 1]]]

\* There is a function that is defined step by step.
LEMMA StepsDefine ==
  ASSUME NEW G, NEW N \in Nat, NEW base \in G, NEW F \in [1..N -> [G -> G]]
  PROVE  \E f \in [0..N -> G] : After(f, N, base, F)
  <1> DEFINE H == {k \in 0..N : \E f \in [0..k -> G] :
                     f[0] = base /\ \A n \in 1..k : f[n] = F[n][f[n - 1]]}
  <1>1. 0 \in H
    <2> DEFINE f == [n \in 0..0 |-> base]
    <2>1. f \in [0..0 -> G] /\ f[0] = base /\ \A n \in 1..0 : f[n] = F[n][f[n - 1]]
      OBVIOUS
    <2> HIDE DEF f
    <2>2. QED BY <2>1
  <1>2. ASSUME NEW k \in 1..N, k - 1 \in H PROVE k \in H
    <2>1. PICK f \in [0..(k - 1) -> G] : f[0] = base /\ \A n \in 1..(k - 1) : f[n] = F[n][f[n - 1]]
      BY <1>2
    <2> DEFINE g == [n \in 0..k |-> IF n = k THEN F[k][f[k - 1]] ELSE f[n]]
    <2>2. f[k - 1] \in G /\ F[k] \in [G -> G]
      BY <1>2
    <2>3. F[k][f[k - 1]] \in G
      BY <2>2
    <2>4. g \in [0..k -> G]
      BY <2>3
    <2>5. g[0] = base /\ \A n \in 1..k : g[n] = F[n][g[n - 1]]
      BY <2>1
    <2>6. k \in 0..N
      OBVIOUS
    <2> HIDE DEF g
    <2>7. QED BY <2>4, <2>5, <2>6
  <1>3. N \in H
    <2> HIDE DEF H
    <2>1. \A n \in 0..N : n \in H
      BY <1>1, <1>2, UpTo
    <2>2. QED BY <2>1
  <1>4. PICK f \in [0..N -> G] : f[0] = base /\ \A n \in 1..N : f[n] = F[n][f[n - 1]]
    BY <1>3
  <1>5. \A n \in 0..N : f[n] = IF n = 0 THEN base ELSE F[n][f[n - 1]]
    BY <1>4
  <1>6. QED BY <1>4, <1>5 DEF After

-----------------------------------------------------------------------------
(* Queues in which nothing is twice *)

In(queue) == {queue[i] : i \in DOMAIN queue}
Once(queue) == \A i, j \in DOMAIN queue : queue[i] = queue[j] => i = j

Skip(s, n) == SubSeq(s, 1, n - 1) \o SubSeq(s, n + 1, Len(s))
From(s, n) == SubSeq(s, n, Len(s))

\* One of a queue taken out leaves the others.
LEMMA SkipIs ==
  ASSUME NEW K, NEW s \in Seq(K), Once(s), NEW n \in 1..Len(s)
  PROVE  /\ Skip(s, n) \in Seq(K) /\ Once(Skip(s, n))
         /\ In(Skip(s, n)) = In(s) \ {s[n]} /\ Len(Skip(s, n)) = Len(s) - 1
  <1>0. s \in Seq(K) /\ Once(s) /\ n \in 1..Len(s)
    OBVIOUS
  <1> DEFINE t == Skip(s, n)
             a == SubSeq(s, 1, n - 1)
             b == SubSeq(s, n + 1, Len(s))
             At(i) == IF i < n THEN i ELSE i + 1
  <1>1. Len(s) \in Nat /\ DOMAIN s = 1..Len(s) /\ n \in Int /\ n - 1 \in Int /\ n + 1 \in Int /\ Len(s) \in Int /\ 1 \in Int
    BY LenProperties
  <1>2. \A i \in 1..Len(s) : s[i] \in K
    BY ElementOfSeq
  <1>3. a \in Seq(K) /\ Len(a) = n - 1 /\ \A i \in 1..(n - 1) : a[i] = s[i]
    <2>1. \A i \in 1..(n - 1) : s[i] \in K
      BY <1>1, <1>2
    <2>2. a \in Seq(K) /\ Len(a) = (IF 1 <= n - 1 THEN (n - 1) - 1 + 1 ELSE 0)
          /\ \A i \in 1..((n - 1) - 1 + 1) : a[i] = s[1 + i - 1]
      BY <1>1, <2>1, SubSeqProperties
    <2>3. \A i \in 1..(n - 1) : i \in 1..((n - 1) - 1 + 1) /\ 1 + i - 1 = i
      BY <1>1
    <2>4. QED BY <1>1, <2>2, <2>3
  <1>4. b \in Seq(K) /\ Len(b) = Len(s) - n /\ \A i \in 1..(Len(s) - n) : b[i] = s[n + i]
    <2>1. \A i \in (n + 1)..Len(s) : s[i] \in K
      BY <1>1, <1>2
    <2>2. b \in Seq(K) /\ Len(b) = (IF n + 1 <= Len(s) THEN Len(s) - (n + 1) + 1 ELSE 0)
          /\ \A i \in 1..(Len(s) - (n + 1) + 1) : b[i] = s[(n + 1) + i - 1]
      BY <1>1, <2>1, SubSeqProperties
    <2>3. \A i \in 1..(Len(s) - n) : i \in 1..(Len(s) - (n + 1) + 1) /\ (n + 1) + i - 1 = n + i
      BY <1>1
    <2> DEFINE l == Len(s)
    <2>4. (IF n + 1 <= l THEN l - (n + 1) + 1 ELSE 0) = l - n
      <3>1. l \in Nat /\ n \in 1..l
        BY <1>1
      <3> HIDE DEF l
      <3>2. QED BY <3>1
    <2>5. Len(b) = Len(s) - n
      BY <2>2, <2>4
    <2> HIDE DEF b
    <2>6. QED BY <2>2, <2>3, <2>5
  <1>5. t = a \o b
    BY DEF Skip
  <1> HIDE DEF a, b, t
  <1>6. t \in Seq(K) /\ Len(t) = Len(a) + Len(b)
        /\ \A i \in 1..(Len(a) + Len(b)) : t[i] = IF i <= Len(a) THEN a[i] ELSE b[i - Len(a)]
    BY <1>3, <1>4, <1>5, ConcatProperties
  <1>7. /\ Len(t) = Len(s) - 1 /\ DOMAIN t = 1..(Len(s) - 1)
        /\ \A i \in 1..(Len(s) - 1) : t[i] = s[At(i)] /\ At(i) \in 1..Len(s) /\ At(i) # n
    <2>1. Len(t) = Len(s) - 1
      BY <1>1, <1>3, <1>4, <1>6
    <2>2. DOMAIN t = 1..(Len(s) - 1)
      BY <1>6, <2>1, LenProperties
    <2>3. ASSUME NEW i \in 1..(Len(s) - 1) PROVE t[i] = s[At(i)] /\ At(i) \in 1..Len(s) /\ At(i) # n
      <3>1. t[i] = IF i <= n - 1 THEN a[i] ELSE b[i - (n - 1)]
        <4>1. i \in 1..(Len(a) + Len(b)) /\ Len(a) = n - 1
          BY <1>1, <1>3, <1>4
        <4>2. QED BY <1>6, <4>1
      <3>2. CASE i < n
        <4>1. i <= n - 1 /\ i \in 1..(n - 1)
          BY <1>1, <3>2
        <4>2. QED BY <1>1, <1>3, <3>1, <3>2, <4>1
      <3>3. CASE ~(i < n)
        <4>1. ~(i <= n - 1) /\ i - (n - 1) \in 1..(Len(s) - n) /\ n + (i - (n - 1)) = i + 1
          BY <1>1, <3>3
        <4>2. b[i - (n - 1)] = s[n + (i - (n - 1))]
          BY <1>4, <4>1
        <4>3. QED BY <1>1, <3>1, <3>3, <4>1, <4>2
      <3>4. QED BY <3>2, <3>3
    <2>4. QED BY <2>1, <2>2, <2>3
  <1>8. Once(t)
    <2>1. \A i, j \in 1..(Len(s) - 1) : At(i) = At(j) => i = j
      BY <1>1
    <2> HIDE DEF At
    <2>2. QED BY <1>1, <1>7, <2>1 DEF Once
  <1>9. In(t) = In(s) \ {s[n]}
    <2>1. ASSUME NEW x \in In(t) PROVE x \in In(s) \ {s[n]}
      <3>1. PICK i \in 1..(Len(s) - 1) : t[i] = x
        BY <1>7 DEF In
      <3> HIDE DEF At
      <3>2. x = s[At(i)] /\ At(i) \in DOMAIN s /\ At(i) # n /\ n \in DOMAIN s
        BY <1>1, <1>7, <3>1
      <3>3. QED BY <3>2 DEF In, Once
    <2>2. ASSUME NEW x \in In(s), x # s[n] PROVE x \in In(t)
      <3>1. PICK j \in 1..Len(s) : s[j] = x
        BY <1>1 DEF In
      <3>2. PICK i \in 1..(Len(s) - 1) : At(i) = j
        <4>1. CASE j < n
          BY <1>1, <4>1
        <4>2. CASE j > n
          <5>1. j - 1 \in 1..(Len(s) - 1) /\ At(j - 1) = j
            BY <1>1, <4>2
          <5>2. QED BY <5>1
        <4>3. QED BY <1>1, <2>2, <3>1, <4>1, <4>2
      <3> HIDE DEF At
      <3>3. t[i] = x
        BY <1>7, <3>1, <3>2
      <3>4. QED BY <1>7, <3>3 DEF In
    <2>3. QED BY <2>1, <2>2
  <1>10. QED BY <1>6, <1>7, <1>8, <1>9 DEF t

\* What follows the first m of a queue.
LEMMA LastIs ==
  ASSUME NEW K, NEW s \in Seq(K), Once(s), NEW m \in 0..Len(s)
  PROVE  /\ From(s, m + 1) \in Seq(K) /\ Once(From(s, m + 1))
         /\ In(From(s, m + 1)) \subseteq In(s) /\ Len(From(s, m + 1)) = Len(s) - m
  <1> DEFINE t == From(s, m + 1)
  <1>1. Len(s) \in Nat /\ DOMAIN s = 1..Len(s) /\ m + 1 \in Int /\ Len(s) \in Int
    BY LenProperties
  <1>2. \A i \in (m + 1)..Len(s) : s[i] \in K
    BY <1>1, ElementOfSeq
  <1>3. t \in Seq(K) /\ Len(t) = (IF m + 1 <= Len(s) THEN Len(s) - (m + 1) + 1 ELSE 0)
        /\ \A i \in 1..(Len(s) - (m + 1) + 1) : t[i] = s[m + 1 + i - 1]
    BY <1>1, <1>2, SubSeqProperties DEF From
  <1> HIDE DEF t
  <1>4. Len(t) = Len(s) - m
    <2> DEFINE l == Len(s)
    <2>1. (IF m + 1 <= l THEN l - (m + 1) + 1 ELSE 0) = l - m
      <3>1. l \in Nat /\ m \in 0..l
        BY <1>1
      <3> HIDE DEF l
      <3>2. QED BY <3>1
    <2>2. QED BY <1>3, <2>1
  <1>5. DOMAIN t = 1..(Len(s) - m)
    BY <1>3, <1>4, LenProperties
  <1>6. \A i \in 1..(Len(s) - m) : m + i \in DOMAIN s /\ t[i] = s[m + i]
    <2>1. \A i \in 1..(Len(s) - m) : i \in 1..(Len(s) - (m + 1) + 1) /\ m + 1 + i - 1 = m + i /\ m + i \in 1..Len(s)
      BY <1>1
    <2>2. QED BY <1>1, <1>3, <2>1
  <1>7. Once(t)
    <2>1. \A i, j \in 1..(Len(s) - m) : m + i = m + j => i = j
      BY <1>1
    <2>2. QED BY <1>5, <1>6, <2>1 DEF Once
  <1>8. In(t) \subseteq In(s)
    BY <1>5, <1>6 DEF In
  <1>9. QED BY <1>3, <1>4, <1>7, <1>8 DEF t

\* A queue in which nothing is twice is as long as it has members.
LEMMA OnceCounts ==
  ASSUME NEW K, NEW s \in Seq(K), Once(s)
  PROVE  IsFiniteSet(In(s)) /\ Cardinality(In(s)) = Len(s)
  <1>1. Len(s) \in Nat /\ DOMAIN s = 1..Len(s)
    BY LenProperties
  <1> DEFINE f == [i \in 1..Len(s) |-> s[i]]
  <1>2. f \in Bijection(1..Len(s), In(s))
    <2>1. f \in [1..Len(s) -> In(s)]
      BY <1>1 DEF In
    <2>2. \A i, j \in 1..Len(s) : f[i] = f[j] => i = j
      BY <1>1 DEF Once
    <2>3. \A x \in In(s) : \E i \in 1..Len(s) : f[i] = x
      BY <1>1 DEF In
    <2> HIDE DEF f
    <2>4. QED BY <2>1, <2>2, <2>3, Fun_IsBij
  <1> HIDE DEF f
  <1>3. ExistsBijection(1..Len(s), In(s))
    BY <1>2 DEF ExistsBijection
  <1>4. Cardinality(In(s)) = Len(s)
    BY <1>1, <1>3, FS_CountingElements
  <1>5. IsFiniteSet(In(s))
    BY <1>1, <1>3, FS_NatBijection
  <1>6. QED BY <1>4, <1>5

-----------------------------------------------------------------------------
(* The token buckets *)

\* What the rules of the buckets may be (acquire: rules with no capacity are
\* left out; max_buckets is at least 1).
Rules(c) ==
  /\ c.Capacity \in [c.Key -> Nat] /\ c.Refill \in [c.Key -> Nat] /\ c.Whole \in Nat \ {0}
  /\ c.Demands \subseteq Seq(c.Key) /\ c.MaxBuckets \in Nat \ {0} /\ c.MaxTime \in Nat

LEMMA RangeIs == ASSUME NEW c, NEW s PROVE LimitsOf(c)!Range(s) = In(s)
  BY DEF LimitsOf!Range, In

\* A bucket that can hold nothing is not kept.
Holding(c, k) == IF c.Capacity[k] = 0 THEN {} ELSE {k}

LEMMA CardinalityIs == ASSUME NEW c, NEW S PROVE LimitsOf(c)!Cardinality(S) = Cardinality(S)
  BY DEF LimitsOf!Cardinality, Cardinality

LEMMA NewestIs ==
  ASSUME NEW c, NEW queue \in Seq(c.Key), Once(queue), NEW k \in c.Key
  PROVE  /\ LimitsOf(c)!Newest(queue, k) \in Seq(c.Key) /\ Once(LimitsOf(c)!Newest(queue, k))
         /\ In(LimitsOf(c)!Newest(queue, k)) = In(queue) \cup Holding(c, k)
  <1> DEFINE r == LimitsOf(c)!Newest(queue, k)
  <1>1. CASE c.Capacity[k] = 0
    BY <1>1 DEF LimitsOf!Newest, Holding
  <1>2. CASE c.Capacity[k] # 0
    <2> DEFINE q == LimitsOf(c)!Without(queue, k)
    <2>1. q \in Seq(c.Key) /\ Once(q) /\ In(q) = In(queue) \ {k}
      <3>1. CASE k \notin In(queue)
        BY <3>1, RangeIs DEF LimitsOf!Without
      <3>2. CASE k \in In(queue)
        <4> DEFINE i == CHOOSE i \in DOMAIN queue : queue[i] = k
        <4>1. i \in DOMAIN queue /\ queue[i] = k
          BY <3>2 DEF In
        <4>2. q = Skip(queue, i)
          BY <3>2, RangeIs DEF LimitsOf!Without, Skip
        <4> HIDE DEF i, q
        <4>3. i \in 1..Len(queue)
          BY <4>1
        <4>4. QED BY <4>1, <4>2, <4>3, SkipIs
      <3>3. QED BY <3>1, <3>2
    <2>2. r = Append(q, k)
      BY <1>2 DEF LimitsOf!Newest
    <2> HIDE DEF q
    <2>3. /\ r \in Seq(c.Key) /\ Len(r) = Len(q) + 1 /\ r[Len(q) + 1] = k /\ DOMAIN r = 1..(Len(q) + 1)
          /\ DOMAIN q = 1..Len(q) /\ Len(q) \in Nat /\ \A j \in 1..Len(q) : r[j] = q[j]
      BY <2>1, <2>2
    <2>4. \A j \in DOMAIN q : q[j] # k
      BY <2>1 DEF In
    <2>5. Once(r)
      BY <2>1, <2>3, <2>4 DEF Once
    <2>6. In(r) = In(q) \cup {k}
      BY <2>3 DEF In
    <2>7. QED BY <1>2, <2>1, <2>3, <2>5, <2>6 DEF Holding
  <1>3. QED BY <1>1, <1>2

\* After a call the buckets it asked are kept as well, but for those that hold nothing.
LEMMA QueueIs ==
  ASSUME NEW c, Rules(c), NEW s, s \in Seq(c.Key), Once(s), order = s, NEW call \in Seq(c.Key)
  PROVE  /\ LimitsOf(c)!Queue(call) \in Seq(c.Key) /\ Once(LimitsOf(c)!Queue(call))
         /\ In(LimitsOf(c)!Queue(call)) = In(s) \cup {k \in In(call) : c.Capacity[k] > 0}
  <1> DEFINE G == {q \in Seq(c.Key) : Once(q)}
             F == [n \in 1..Len(call) |-> [q \in G |-> LimitsOf(c)!Newest(q, call[n])]]
  <1>0. \A q \in G : q \in Seq(c.Key) /\ Once(q)
    OBVIOUS
  <1>00. \A q \in Seq(c.Key) : Once(q) => q \in G
    OBVIOUS
  <1>1. Len(call) \in Nat /\ DOMAIN call = 1..Len(call) /\ \A n \in 1..Len(call) : call[n] \in c.Key
    BY LenProperties, ElementOfSeq
  <1>2. ASSUME NEW n \in 1..Len(call), NEW q \in G
        PROVE  /\ LimitsOf(c)!Newest(q, call[n]) \in G
               /\ In(LimitsOf(c)!Newest(q, call[n])) = In(q) \cup Holding(c, call[n])
    <2> HIDE DEF G, F
    <2>1. q \in Seq(c.Key) /\ Once(q) /\ call[n] \in c.Key
      BY <1>0, <1>1
    <2>2. PICK k \in c.Key : k = call[n]
      BY <2>1
    <2>3. /\ LimitsOf(c)!Newest(q, k) \in Seq(c.Key) /\ Once(LimitsOf(c)!Newest(q, k))
          /\ In(LimitsOf(c)!Newest(q, k)) = In(q) \cup Holding(c, k)
      BY <2>1, NewestIs
    <2>4. QED BY <1>00, <2>2, <2>3
  <1>3. F \in [1..Len(call) -> [G -> G]] /\ s \in G
    BY <1>2
  <1>4. \A n \in 1..Len(call), q \in G : F[n][q] = LimitsOf(c)!Newest(q, call[n])
    OBVIOUS
  <1> DEFINE f == CHOOSE f : f = [n \in 0..Len(call) |-> IF n = 0 THEN s ELSE LimitsOf(c)!Newest(f[n - 1], call[n])]
  <1>5. LimitsOf(c)!Queue(call) = f[Len(call)]
    BY DEF LimitsOf!Queue
  <1> HIDE DEF F, G
  <1>6. PICK g \in [0..Len(call) -> G] : After(g, Len(call), s, F)
    BY <1>1, <1>3, StepsDefine
  <1>7. \A n \in 1..Len(call) : g[n - 1] \in G
    BY <1>1, <1>6
  <1>8. g = [n \in 0..Len(call) |-> IF n = 0 THEN s ELSE LimitsOf(c)!Newest(g[n - 1], call[n])]
    <2>1. \A n \in 0..Len(call) : (IF n = 0 THEN s ELSE F[n][g[n - 1]])
             = (IF n = 0 THEN s ELSE LimitsOf(c)!Newest(g[n - 1], call[n]))
      BY <1>1, <1>4, <1>7
    <2>2. QED BY <1>6, <2>1 DEF After
  <1>9. f = [n \in 0..Len(call) |-> IF n = 0 THEN s ELSE LimitsOf(c)!Newest(f[n - 1], call[n])]
    BY <1>8
  <1> HIDE DEF f
  <1> DEFINE H == {n \in 0..Len(call) : /\ f[n] \in G
                      /\ In(f[n]) = In(s) \cup {k \in {call[i] : i \in 1..n} : c.Capacity[k] > 0}}
  <1>10. 0 \in H
    <2>1. f[0] = s
      BY <1>1, <1>9
    <2>2. QED BY <1>1, <1>3, <2>1
  <1>11. ASSUME NEW n \in 1..Len(call), n - 1 \in H PROVE n \in H
    <2>1. f[n] = LimitsOf(c)!Newest(f[n - 1], call[n])
      BY <1>1, <1>9
    <2>2. f[n - 1] \in G /\ In(f[n - 1]) = In(s) \cup {k \in {call[i] : i \in 1..(n - 1)} : c.Capacity[k] > 0}
      BY <1>11
    <2>3. /\ f[n] \in G
          /\ In(f[n]) = In(f[n - 1]) \cup Holding(c, call[n])
      BY <1>2, <2>1, <2>2
    <2>4. c.Capacity[call[n]] \in Nat
      BY <1>1 DEF Rules
    <2>5. {call[i] : i \in 1..n} = {call[i] : i \in 1..(n - 1)} \cup {call[n]}
      <3>1. 1..n = 1..(n - 1) \cup {n}
        BY <1>1
      <3>2. QED BY <3>1
    <2>6. n \in 0..Len(call)
      BY <1>1
    <2>7. QED BY <2>2, <2>3, <2>4, <2>5, <2>6 DEF Holding
  <1>12. Len(call) \in H
    <2> HIDE DEF H
    <2>1. \A n \in 0..Len(call) : n \in H
      BY <1>1, <1>10, <1>11, UpTo
    <2>2. QED BY <1>1, <2>1
  <1>13. In(call) = {call[i] : i \in 1..Len(call)}
    BY <1>1 DEF In
  <1>14. QED BY <1>5, <1>12, <1>13 DEF G

LEMMA TrimIs ==
  ASSUME NEW c, Rules(c), NEW queue \in Seq(c.Key), Once(queue)
  PROVE  /\ LimitsOf(c)!Trim(queue) \in Seq(c.Key) /\ Once(LimitsOf(c)!Trim(queue))
         /\ In(LimitsOf(c)!Trim(queue)) \subseteq In(queue) /\ Len(LimitsOf(c)!Trim(queue)) <= c.MaxBuckets
  <1>1. Len(queue) \in Nat /\ c.MaxBuckets \in Nat
    BY LenProperties DEF Rules
  <1>2. CASE Len(queue) <= c.MaxBuckets
    BY <1>2 DEF LimitsOf!Trim
  <1>3. CASE ~(Len(queue) <= c.MaxBuckets)
    <2> DEFINE m == Len(queue) - c.MaxBuckets
    <2>1. m \in 0..Len(queue) /\ Len(queue) - m = c.MaxBuckets /\ Len(queue) - c.MaxBuckets + 1 = m + 1
      BY <1>1, <1>3
    <2>2. LimitsOf(c)!Trim(queue) = From(queue, m + 1)
      BY <1>3, <2>1 DEF LimitsOf!Trim, From
    <2> HIDE DEF m
    <2>3. /\ From(queue, m + 1) \in Seq(c.Key) /\ Once(From(queue, m + 1))
          /\ In(From(queue, m + 1)) \subseteq In(queue) /\ Len(From(queue, m + 1)) = Len(queue) - m
      BY <2>1, LastIs
    <2>4. Len(From(queue, m + 1)) <= c.MaxBuckets
      BY <1>1, <2>1, <2>3
    <2>5. QED BY <2>2, <2>3, <2>4
  <1>4. QED BY <1>2, <1>3

\* The reference never has more than the bucket, nor more than fits into it, and
\* as much unless the bucket made room.
InStep(c, k) ==
  /\ bucket[k].at <= now /\ (k \in In(order) => c.Capacity[k] > 0)
  /\ steady[k] <= LimitsOf(c)!Full(k) /\ LimitsOf(c)!Refreshed(k) >= steady[k]
  /\ k \notin evicted => LimitsOf(c)!Refreshed(k) = steady[k]

BucketTypes(c) ==
  /\ now \in 0..c.MaxTime /\ bucket \in [c.Key -> [parts : Nat, at : 0..c.MaxTime]]
  /\ order \in Seq(c.Key) /\ Once(order) /\ Len(order) <= c.MaxBuckets
  /\ steady \in [c.Key -> Nat]

BucketInv(c) == BucketTypes(c) /\ \A k \in c.Key : InStep(c, k)

LEMMA ProductIs == ASSUME NEW a \in Nat, NEW b \in Nat PROVE a * b \in Nat
  OBVIOUS

\* A tick adds what it adds to the product.
LEMMA TickAdds ==
  ASSUME NEW t \in Nat, NEW a \in Nat, a <= t, NEW r \in Nat
  PROVE  (t + 1 - a) * r = (t - a) * r + r /\ (t - a) * r \in Nat
  <1>1. PICK d \in Nat : d = t - a
    OBVIOUS
  <1>2. t + 1 - a = d + 1
    BY <1>1
  <1>3. (d + 1) * r = d * r + r /\ d * r \in Nat
    OBVIOUS
  <1>4. QED BY <1>1, <1>2, <1>3

LEMMA RefreshedIs ==
  ASSUME NEW c, Rules(c), BucketTypes(c), NEW k \in c.Key, bucket[k].at <= now
  PROVE  /\ LimitsOf(c)!Full(k) \in Nat /\ LimitsOf(c)!Refreshed(k) \in Nat
         /\ LimitsOf(c)!Refreshed(k) <= LimitsOf(c)!Full(k)
         /\ (now - bucket[k].at) * c.Refill[k] \in Nat /\ c.Refill[k] \in Nat
         /\ now \in Nat /\ bucket[k].at \in Nat /\ bucket[k].parts \in Nat /\ steady[k] \in Nat
         /\ k \in In(order) =>
              LimitsOf(c)!Refreshed(k) = LimitsOf(c)!Least(LimitsOf(c)!Full(k), bucket[k].parts + (now - bucket[k].at) * c.Refill[k])
         /\ k \notin In(order) => LimitsOf(c)!Refreshed(k) = LimitsOf(c)!Full(k)
  <1>1. c.Capacity[k] \in Nat /\ c.Whole \in Nat /\ c.Refill[k] \in Nat
    BY DEF Rules
  <1>2. LimitsOf(c)!Full(k) \in Nat
    BY <1>1, ProductIs DEF LimitsOf!Full
  <1>3. now \in Nat /\ bucket[k].at \in Nat /\ bucket[k].parts \in Nat /\ steady[k] \in Nat
    BY DEF BucketTypes
  <1>4. (now - bucket[k].at) * c.Refill[k] \in Nat
    <2>1. now - bucket[k].at \in Nat
      BY <1>3
    <2>2. QED BY <1>1, <2>1, ProductIs
  <1>5. k \in LimitsOf(c)!Kept <=> k \in In(order)
    BY RangeIs DEF LimitsOf!Kept
  <1> DEFINE x == bucket[k].parts + (now - bucket[k].at) * c.Refill[k]
  <1>6. x \in Nat
    BY <1>3, <1>4
  <1>7. LimitsOf(c)!Refreshed(k) = IF k \in In(order) THEN LimitsOf(c)!Least(LimitsOf(c)!Full(k), x) ELSE LimitsOf(c)!Full(k)
    BY <1>5 DEF LimitsOf!Refreshed
  <1> HIDE DEF x
  <1>8. LimitsOf(c)!Refreshed(k) \in Nat /\ LimitsOf(c)!Refreshed(k) <= LimitsOf(c)!Full(k)
    BY <1>2, <1>6, <1>7 DEF LimitsOf!Least
  <1>9. QED BY <1>1, <1>2, <1>3, <1>4, <1>7, <1>8 DEF x

LEMMA TickInStep ==
  ASSUME NEW c, Rules(c), BucketInv(c), LimitsOf(c)!Tick
  PROVE  BucketInv(c)'
  <1>1. BucketTypes(c) /\ now' = now + 1 /\ now < c.MaxTime /\ bucket' = bucket /\ order' = order /\ evicted' = evicted
        /\ steady' = [k \in c.Key |-> LimitsOf(c)!Least(LimitsOf(c)!Full(k), steady[k] + c.Refill[k])]
    BY DEF BucketInv, LimitsOf!Tick
  <1>2. now \in Nat /\ c.MaxTime \in Nat
    BY <1>1 DEF BucketTypes, Rules
  <1>3. ASSUME NEW k \in c.Key PROVE steady'[k] \in Nat /\ InStep(c, k)'
    <2>1. InStep(c, k)
      BY DEF BucketInv
    <2> DEFINE F == LimitsOf(c)!Full(k)
               R == c.Refill[k]
               p == bucket[k].parts
               a == bucket[k].at
    <2>2. /\ F \in Nat /\ R \in Nat /\ p \in Nat /\ a \in Nat /\ a <= now
          /\ steady[k] \in Nat /\ steady[k] <= F /\ (now - a) * R \in Nat
      BY <1>1, <2>1, RefreshedIs DEF InStep
    <2>3. (now' - a) * R = (now - a) * R + R
      <3>1. PICK t \in Nat, u \in Nat : t = now /\ u = a
        BY <1>2, <2>2
      <3>2. u <= t /\ now' = t + 1
        BY <1>1, <2>2, <3>1
      <3>3. (t + 1 - u) * R = (t - u) * R + R
        BY <2>2, <3>2, TickAdds
      <3>4. QED BY <3>1, <3>2, <3>3
    <2>4. steady'[k] = LimitsOf(c)!Least(F, steady[k] + R)
      BY <1>1
    <2>5. LimitsOf(c)!Full(k)' = F
      BY DEF LimitsOf!Full
    <2>6. k \in LimitsOf(c)!Kept <=> k \in In(order)
      BY RangeIs DEF LimitsOf!Kept
    <2>7. (k \in LimitsOf(c)!Kept)' <=> k \in In(order)
      BY <1>1, RangeIs DEF LimitsOf!Kept
    <2>8. LimitsOf(c)!Refreshed(k)' = IF k \in In(order) THEN LimitsOf(c)!Least(F, p + (now - a) * R + R) ELSE F
      <3>1. LimitsOf(c)!Refreshed(k)' = IF k \in In(order) THEN LimitsOf(c)!Least(F, p + (now' - a) * R) ELSE F
        BY <1>1, <2>5, <2>7 DEF LimitsOf!Refreshed
      <3>2. p + (now' - a) * R = p + (now - a) * R + R
        BY <2>2, <2>3
      <3>3. QED BY <3>1, <3>2
    <2>9. LimitsOf(c)!Refreshed(k) = IF k \in In(order) THEN LimitsOf(c)!Least(F, p + (now - a) * R) ELSE F
      BY <2>6 DEF LimitsOf!Refreshed
    <2>10. a <= now'
      BY <1>1, <1>2, <2>2
    <2> DEFINE x == (now - a) * R
    <2>11. x \in Nat
      BY <2>2
    <2>12. /\ LimitsOf(c)!Refreshed(k) = IF k \in In(order) THEN LimitsOf(c)!Least(F, p + x) ELSE F
           /\ LimitsOf(c)!Refreshed(k)' = IF k \in In(order) THEN LimitsOf(c)!Least(F, p + x + R) ELSE F
           /\ LimitsOf(c)!Refreshed(k) >= steady[k] /\ (k \notin evicted => LimitsOf(c)!Refreshed(k) = steady[k])
      BY <2>1, <2>8, <2>9 DEF InStep
    <2>13. bucket'[k].at <= now' /\ (k \in In(order') => c.Capacity[k] > 0)
      BY <1>1, <2>1, <2>10 DEF InStep
    <2> HIDE DEF F, R, p, a, x
    <2>14. /\ steady'[k] \in Nat /\ steady'[k] <= F
           /\ LimitsOf(c)!Refreshed(k)' >= steady'[k]
           /\ k \notin evicted => LimitsOf(c)!Refreshed(k)' = steady'[k]
      BY <2>2, <2>4, <2>11, <2>12 DEF LimitsOf!Least
    <2>15. QED BY <1>1, <2>5, <2>13, <2>14 DEF InStep
  <1>4. BucketTypes(c)'
    <2>1. now' \in 0..c.MaxTime
      BY <1>1, <1>2
    <2>2. steady' \in [c.Key -> Nat]
      BY <1>1, <1>3
    <2>3. QED BY <1>1, <2>1, <2>2 DEF BucketTypes
  <1>5. QED BY <1>3, <1>4 DEF BucketInv

LEMMA AcquireInStep ==
  ASSUME NEW c, Rules(c), BucketInv(c), NEW call \in c.Demands, LimitsOf(c)!Acquire(call)
  PROVE  BucketInv(c)'
  <1> DEFINE demand == {k \in In(call) : c.Capacity[k] > 0}
             queue == LimitsOf(c)!Queue(call)
             spent == LimitsOf(c)!Spend(demand, 0)
             granted == LimitsOf(c)!Granted(demand)
  <1>1. call \in Seq(c.Key) /\ In(call) \subseteq c.Key /\ BucketTypes(c) /\ c.Whole \in Nat \ {0}
    BY DEF Rules, BucketInv, In
  <1>2. /\ bucket' = [k \in c.Key |-> IF k \in demand
                        THEN [parts |-> LimitsOf(c)!Refreshed(k) - LimitsOf(c)!Spend(demand, k), at |-> now] ELSE bucket[k]]
        /\ order' = LimitsOf(c)!Trim(queue) /\ now' = now
        /\ evicted' = evicted \cup (In(queue) \ In(order'))
        /\ steady' = IF granted THEN [k \in c.Key |-> IF k \in demand THEN LimitsOf(c)!Taken(steady[k]) ELSE steady[k]]
                     ELSE steady
    BY RangeIs DEF LimitsOf!Acquire
  <1>3. /\ queue \in Seq(c.Key) /\ Once(queue) /\ In(queue) = In(order) \cup demand
    <2>1. PICK s : s = order
      OBVIOUS
    <2>2. s \in Seq(c.Key) /\ Once(s)
      BY <1>1, <2>1 DEF BucketTypes
    <2>3. QED BY <1>1, <2>1, <2>2, QueueIs
  <1>4. /\ order' \in Seq(c.Key) /\ Once(order') /\ In(order') \subseteq In(queue) /\ Len(order') <= c.MaxBuckets
    <2>1. PICK q : q = queue
      OBVIOUS
    <2>2. q \in Seq(c.Key) /\ Once(q) /\ order' = LimitsOf(c)!Trim(q) /\ In(q) = In(queue)
      BY <1>2, <1>3, <2>1
    <2>3. QED BY <2>2, TrimIs
  <1> HIDE DEF queue
  <1>5. granted <=> \A k \in demand : LimitsOf(c)!Refreshed(k) >= c.Whole
    BY DEF LimitsOf!Granted
  <1>6. \A k : LimitsOf(c)!Spend(demand, k) = IF granted THEN c.Whole ELSE 0
    BY DEF LimitsOf!Spend
  <1> HIDE DEF granted
  <1>7. ASSUME NEW k \in c.Key PROVE bucket'[k] \in [parts : Nat, at : 0..c.MaxTime] /\ steady'[k] \in Nat /\ InStep(c, k)'
    <2>1. InStep(c, k) /\ bucket[k] \in [parts : Nat, at : 0..c.MaxTime] /\ now \in 0..c.MaxTime
      BY <1>1 DEF BucketInv, BucketTypes
    <2> DEFINE F == LimitsOf(c)!Full(k)
               g == LimitsOf(c)!Refreshed(k)
               W == c.Whole
    <2>2. F \in Nat /\ g \in Nat /\ g <= F /\ steady[k] \in Nat /\ now \in Nat /\ W \in Nat
      BY <1>1, <2>1, RefreshedIs DEF InStep
    <2>3. LimitsOf(c)!Full(k)' = F
      BY DEF LimitsOf!Full
    <2>4. (k \in LimitsOf(c)!Kept)' <=> k \in In(order')
      BY RangeIs DEF LimitsOf!Kept
    <2>5. k \in LimitsOf(c)!Kept <=> k \in In(order)
      BY RangeIs DEF LimitsOf!Kept
    <2>6. steady[k] <= F /\ g >= steady[k] /\ (k \notin evicted => g = steady[k])
      BY <2>1 DEF InStep
    <2>7. k \notin In(order) => g = F
      BY <2>5 DEF LimitsOf!Refreshed
    <2>8. CASE k \in demand
      <3>1. /\ bucket'[k] = [parts |-> g - (IF granted THEN W ELSE 0), at |-> now]
            /\ steady'[k] = IF granted THEN LimitsOf(c)!Taken(steady[k]) ELSE steady[k]
        BY <1>2, <1>6, <2>8
      <3>2. granted => g >= W
        BY <1>5, <2>8
      <3>3. (now' - bucket'[k].at) * c.Refill[k] = 0
        <4>1. now' - bucket'[k].at = 0 /\ c.Refill[k] \in Nat
          BY <1>2, <2>2, <3>1 DEF Rules
        <4>2. QED BY <4>1
      <3>4. LimitsOf(c)!Refreshed(k)' = IF k \in In(order') THEN LimitsOf(c)!Least(F, bucket'[k].parts + 0) ELSE F
        BY <2>3, <2>4, <3>3 DEF LimitsOf!Refreshed
      <3>5. k \in In(queue) /\ c.Capacity[k] > 0
        BY <1>3, <2>8
      <3>6. (k \notin evicted' => k \notin evicted /\ k \in In(order'))
        BY <1>2, <3>5
      <3> DEFINE h == IF granted THEN W ELSE 0
      <3>7. bucket'[k].parts = g - h /\ bucket'[k].at = now /\ g - h \in Nat
        BY <2>2, <3>1, <3>2
      <3>8. LimitsOf(c)!Refreshed(k)' = IF k \in In(order') THEN g - h ELSE F
        BY <2>2, <3>4, <3>7 DEF LimitsOf!Least
      <3>9. steady'[k] = IF granted THEN (IF steady[k] >= W THEN steady[k] - W ELSE 0) ELSE steady[k]
        BY <3>1 DEF LimitsOf!Taken
      <3> HIDE DEF g, F, W
      <3>10. /\ steady'[k] \in Nat /\ steady'[k] <= F /\ g - h >= steady'[k]
             /\ g = steady[k] => g - h = steady'[k]
        BY <2>2, <2>6, <3>2, <3>9
      <3>11. F >= steady'[k]
        BY <2>2, <3>10
      <3>12. bucket'[k] \in [parts : Nat, at : 0..c.MaxTime] /\ bucket'[k].at <= now'
        BY <1>2, <2>1, <2>2, <3>1, <3>7
      <3>13. LimitsOf(c)!Refreshed(k)' >= steady'[k] /\ (k \notin evicted' => LimitsOf(c)!Refreshed(k)' = steady'[k])
        BY <2>6, <3>6, <3>8, <3>10, <3>11
      <3>14. QED BY <2>3, <3>5, <3>10, <3>12, <3>13 DEF InStep
    <2>9. CASE k \notin demand
      <3>1. bucket'[k] = bucket[k] /\ steady'[k] = steady[k]
        BY <1>2, <2>9
      <3>2. k \in In(order') => k \in In(order)
        BY <1>3, <1>4, <2>9
      <3>3. LimitsOf(c)!Refreshed(k)' = IF k \in In(order') THEN g ELSE F
        BY <1>2, <2>3, <2>4, <2>5, <3>1, <3>2 DEF LimitsOf!Refreshed
      <3>4. k \notin evicted' => k \notin evicted /\ (k \in In(order) => k \in In(order'))
        BY <1>2, <1>3
      <3>5. LimitsOf(c)!Refreshed(k)' >= steady'[k] /\ (k \notin evicted' => LimitsOf(c)!Refreshed(k)' = steady'[k])
        BY <2>2, <2>6, <2>7, <3>1, <3>3, <3>4
      <3>6. bucket'[k].at <= now' /\ (k \in In(order') => c.Capacity[k] > 0)
        BY <1>2, <2>1, <3>1, <3>2 DEF InStep
      <3>7. steady'[k] <= LimitsOf(c)!Full(k)'
        BY <2>3, <2>6, <3>1
      <3>8. InStep(c, k)'
        BY <3>5, <3>6, <3>7 DEF InStep
      <3>9. QED BY <2>1, <2>2, <3>1, <3>8
    <2>10. QED BY <2>8, <2>9
  <1>8. BucketTypes(c)'
    <2>1. bucket' \in [c.Key -> [parts : Nat, at : 0..c.MaxTime]]
      BY <1>2, <1>7
    <2>2. steady' \in [c.Key -> Nat]
      <3>1. steady' = [k \in c.Key |-> steady'[k]]
        <4>1. CASE granted
          BY <1>2, <4>1
        <4>2. CASE ~granted
          BY <1>1, <1>2, <4>2 DEF BucketTypes
        <4>3. QED BY <4>1, <4>2
      <3>2. QED BY <1>7, <3>1
    <2>3. QED BY <1>1, <1>2, <1>4, <2>1, <2>2 DEF BucketTypes
  <1>9. QED BY <1>7, <1>8 DEF BucketInv

\* Dividing and rounding up gives the least number of ticks that is enough.
LEMMA EnoughTicks ==
  ASSUME NEW a \in Nat \ {0}, NEW r \in Nat \ {0}, NEW q, q = (a + r - 1) \div r
  PROVE  q \in Nat /\ q * r >= a /\ (q - 1) * r < a
  <1>1. PICK b \in Nat : b = a + r - 1
    OBVIOUS
  <1>2. q = b \div r
    BY <1>1
  <1>3. q \in Nat /\ q * r <= b /\ b < (q + 1) * r
    BY <1>2
  <1>4. (q + 1) * r = q * r + r /\ (q - 1) * r = q * r - r /\ q * r \in Nat
    BY <1>3
  <1> DEFINE x == q * r
             y == (q + 1) * r
             z == (q - 1) * r
  <1>5. x \in Nat /\ x <= b /\ b < y /\ y = x + r /\ z = x - r
    BY <1>3, <1>4
  <1> HIDE DEF x, y, z
  <1>6. x >= a /\ z < a
    BY <1>1, <1>5
  <1>7. QED BY <1>3, <1>6 DEF x, z

LEMMA OneMoreTimes == ASSUME NEW m \in Nat, NEW n \in Nat PROVE (m + 1) * n = m * n + n
  BY SMTT(30)

LEMMA WaitIs ==
  ASSUME NEW c, Rules(c), BucketInv(c), NEW k \in c.Key, k \in In(order), c.Refill[k] > 0, LimitsOf(c)!Wait(k) > 0
  PROVE  /\ bucket[k].parts + (now + LimitsOf(c)!Wait(k) - bucket[k].at) * c.Refill[k] >= c.Whole
         /\ bucket[k].parts + (now + LimitsOf(c)!Wait(k) - 1 - bucket[k].at) * c.Refill[k] < c.Whole
  <1> DEFINE F == LimitsOf(c)!Full(k)
             R == c.Refill[k]
             W == c.Whole
             p == bucket[k].parts
             a == bucket[k].at
             x == (now - a) * R
             g == LimitsOf(c)!Refreshed(k)
             w == LimitsOf(c)!Wait(k)
  <1>1. InStep(c, k) /\ BucketTypes(c)
    BY DEF BucketInv
  <1>2. /\ F \in Nat /\ g \in Nat /\ R \in Nat \ {0} /\ W \in Nat \ {0} /\ now \in Nat /\ a \in Nat /\ p \in Nat /\ x \in Nat
        /\ a <= now /\ g = LimitsOf(c)!Least(F, p + x)
    BY <1>1, RefreshedIs DEF InStep, Rules
  <1>3. F >= W
    <2>1. c.Capacity[k] \in Nat /\ c.Capacity[k] > 0 /\ F = c.Capacity[k] * W
      BY <1>1 DEF InStep, Rules, LimitsOf!Full
    <2>2. PICK m \in Nat : c.Capacity[k] = m + 1
      <3>1. c.Capacity[k] - 1 \in Nat
        BY <2>1
      <3>2. QED BY <2>1, <3>1
    <2>3. (m + 1) * W = m * W + W /\ m * W \in Nat
      BY <1>2, OneMoreTimes, ProductIs
    <2>4. QED BY <1>2, <2>1, <2>2, <2>3
  <1>4. w = IF g >= W THEN 0 ELSE (W - g + R - 1) \div R
    BY DEF LimitsOf!Wait, LimitsOf!Ceil
  <1>5. g < W /\ w = (W - g + R - 1) \div R
    <2> HIDE DEF g, w, W, R
    <2>1. g < W
      <3>1. w > 0
        BY DEF w
      <3>2. QED BY <1>2, <1>4, <3>1
    <2>2. QED BY <1>2, <1>4, <2>1
  <1> HIDE DEF g, w, W, R, F, p, a
  <1>6. g = p + x
    <2> HIDE DEF x
    <2>1. QED BY <1>2, <1>3, <1>5 DEF LimitsOf!Least
  <1>7. w \in Nat /\ w * R >= W - g /\ (w - 1) * R < W - g
    <2>1. PICK d \in Nat \ {0} : d = W - g
      BY <1>2, <1>5
    <2>2. w = (d + R - 1) \div R
      BY <1>5, <2>1
    <2>3. w \in Nat /\ w * R >= d /\ (w - 1) * R < d
      BY <1>2, <2>1, <2>2, EnoughTicks
    <2>4. QED BY <2>1, <2>3
  <1>8. (now + w - a) * R = x + w * R /\ (now + w - 1 - a) * R = x + (w - 1) * R
    <2>1. PICK d \in Int : d = now - a
      BY <1>2
    <2>2. now + w - a = d + w /\ now + w - 1 - a = d + (w - 1)
      BY <1>2, <1>7, <2>1
    <2>3. (d + w) * R = d * R + w * R /\ (d + (w - 1)) * R = d * R + (w - 1) * R
      BY <1>2, <1>7
    <2>4. QED BY <2>1, <2>2, <2>3
  <1> DEFINE y == w * R
             z == (w - 1) * R
  <1>9. y \in Int /\ z \in Int
    BY <1>2, <1>7
  <1> HIDE DEF x, y, z
  <1>10. p + (x + y) >= W /\ p + (x + z) < W
    BY <1>2, <1>6, <1>7, <1>9 DEF y, z
  <1>11. QED BY <1>8, <1>10 DEF p, a, R, W, w, y, z

LEMMA BucketsBegin ==
  ASSUME NEW c, Rules(c)
  PROVE  LimitsOf(c)!Init => BucketInv(c)
  <1> SUFFICES ASSUME LimitsOf(c)!Init PROVE BucketInv(c)
    OBVIOUS
  <1>1. /\ now = 0 /\ bucket = [k \in c.Key |-> [parts |-> 0, at |-> 0]] /\ order = <<>>
        /\ steady = [k \in c.Key |-> LimitsOf(c)!Full(k)] /\ evicted = {}
    BY DEF LimitsOf!Init
  <1>2. \A k \in c.Key : LimitsOf(c)!Full(k) \in Nat
    BY ProductIs DEF Rules, LimitsOf!Full
  <1>3. c.MaxTime \in Nat /\ c.MaxBuckets \in Nat
    BY DEF Rules
  <1>4. In(order) = {} /\ Once(order) /\ order \in Seq(c.Key) /\ Len(order) <= c.MaxBuckets
    BY <1>1, <1>3 DEF In, Once
  <1>5. BucketTypes(c)
    BY <1>1, <1>2, <1>3, <1>4 DEF BucketTypes
  <1>6. ASSUME NEW k \in c.Key PROVE InStep(c, k)
    <2>1. LimitsOf(c)!Refreshed(k) = LimitsOf(c)!Full(k) /\ steady[k] = LimitsOf(c)!Full(k)
      BY <1>1, <1>4, RangeIs DEF LimitsOf!Refreshed, LimitsOf!Kept
    <2>2. QED BY <1>1, <1>2, <1>4, <2>1 DEF InStep
  <1>7. QED BY <1>5, <1>6 DEF BucketInv

LEMMA BucketsStep ==
  ASSUME NEW c, Rules(c)
  PROVE  BucketInv(c) /\ [LimitsOf(c)!Next]_(LimitsOf(c)!vars) => BucketInv(c)'
  <1> SUFFICES ASSUME BucketInv(c), [LimitsOf(c)!Next]_(LimitsOf(c)!vars) PROVE BucketInv(c)'
    OBVIOUS
  <1>1. CASE LimitsOf(c)!Next
    BY <1>1, TickInStep, AcquireInStep DEF LimitsOf!Next
  <1>2. CASE UNCHANGED LimitsOf(c)!vars
    BY <1>2 DEF LimitsOf!vars, BucketInv, BucketTypes, InStep, LimitsOf!Refreshed, LimitsOf!Full, LimitsOf!Kept
  <1>3. QED BY <1>1, <1>2

LEMMA BucketsHold ==
  ASSUME NEW c, Rules(c)
  PROVE  BucketInv(c) => LimitsOf(c)!TokensExact
  <1> SUFFICES ASSUME BucketInv(c) PROVE LimitsOf(c)!TokensExact
    OBVIOUS
  <1>1. BucketTypes(c) /\ \A k \in c.Key : InStep(c, k)
    BY DEF BucketInv
  <1>2. LimitsOf(c)!TypeOK
    <2>1. PICK s : s = order
      OBVIOUS
    <2>2. s \in Seq(c.Key) /\ Once(s)
      BY <1>1, <2>1 DEF BucketTypes
    <2>3. Cardinality(In(s)) = Len(s)
      BY <2>2, OnceCounts
    <2>4. LimitsOf(c)!Cardinality(LimitsOf(c)!Kept) = Len(order)
      BY <2>1, <2>3, RangeIs, CardinalityIs DEF LimitsOf!Kept
    <2>5. QED BY <1>1, <2>4 DEF BucketTypes, LimitsOf!TypeOK
  <1>3. ASSUME NEW k \in c.Key
        PROVE /\ LimitsOf(c)!Refreshed(k) >= steady[k]
              /\ k \notin evicted => LimitsOf(c)!Refreshed(k) = steady[k]
              /\ k \in LimitsOf(c)!Kept /\ c.Refill[k] > 0 /\ LimitsOf(c)!Wait(k) > 0 =>
                   /\ bucket[k].parts + (now + LimitsOf(c)!Wait(k) - bucket[k].at) * c.Refill[k] >= c.Whole
                   /\ bucket[k].parts + (now + LimitsOf(c)!Wait(k) - 1 - bucket[k].at) * c.Refill[k] < c.Whole
    <2>1. k \in LimitsOf(c)!Kept => k \in In(order)
      BY RangeIs DEF LimitsOf!Kept
    <2>2. QED BY <1>1, <2>1, WaitIs DEF InStep
  <1>4. QED BY <1>2, <1>3 DEF LimitsOf!TokensExact

\* What a bucket gives is what one that is topped up all the time would give,
\* and a caller that was refused waits as long as it has to, not a tick less
\* (infra/rate_limit.py).
THEOREM BucketsExact ==
  ASSUME NEW c, Rules(c)
  PROVE  LimitsOf(c)!Spec => []LimitsOf(c)!TokensExact
  <1>1. QED BY BucketsBegin, BucketsStep, BucketsHold, PTL DEF LimitsOf!Spec

LEMMA BucketsAreRules == Rules(Buckets)
  <1>1. Buckets.Key = {"u1", "u2", "g", "off"}
    BY DEF Buckets
  <1>2. Buckets.Capacity \in [Buckets.Key -> Nat]
    BY DEF Buckets
  <1>3. Buckets.Refill \in [Buckets.Key -> Nat]
    BY DEF Buckets
  <1>4. Buckets.Demands \subseteq Seq(Buckets.Key)
    BY DEF Buckets
  <1>5. Buckets.Whole \in Nat \ {0} /\ Buckets.MaxBuckets \in Nat \ {0} /\ Buckets.MaxTime \in Nat
    BY DEF Buckets
  <1>6. QED BY <1>2, <1>3, <1>4, <1>5 DEF Rules

\* On the instance that is checked.
THEOREM TokensAreExact == MCInit /\ [][MCNext]_MCvars => []TokensExact
  <1> DEFINE Inv == part = "limits" => BucketInv(Buckets)
  <1>1. MCInit => Inv
    BY BucketsAreRules, BucketsBegin DEF MCInit
  <1>2. Inv /\ [MCNext]_MCvars => Inv'
    <2> SUFFICES ASSUME Inv, [MCNext]_MCvars, part' = "limits" PROVE BucketInv(Buckets)'
      OBVIOUS
    <2>1. part = "limits" /\ (LimitsOf(Buckets)!Next \/ UNCHANGED LimitsOf(Buckets)!vars)
      BY DEF MCNext, MCvars, Of, Limits, limitsOnly, LimitsOf!vars
    <2>2. QED BY <2>1, BucketsAreRules, BucketsStep
  <1>3. Inv => TokensExact
    BY BucketsAreRules, BucketsHold DEF TokensExact
  <1>4. QED BY <1>1, <1>2, <1>3, PTL

-----------------------------------------------------------------------------
(* What operators decide *)

LEMMA SizeIs == ASSUME NEW c, NEW S PROVE OperatorsOf(c)!Cardinality(S) = Cardinality(S)
  BY DEF OperatorsOf!Cardinality, Cardinality

DeliveryStates == {"none", "pending", "dispatching", "unknown", "rejected", "accepted", "cancelled"}
Boxes == [id : Nat, state : DeliveryStates, attempts : Nat, erased : BOOLEAN, send : Nat]
Convs == [gen : Nat, active : BOOLEAN, next : Nat, rows : SUBSET Nat, box : Boxes]
Records == [gen : Nat, cutoff : Nat, rows : SUBSET Nat, box : Boxes]

\* Rows and sends are among the first n; what is not "none" has a number, and what
\* was dispatched a send.
GoodBox(n, b) ==
  /\ b \in Boxes /\ b.id <= n /\ b.send <= n
  /\ (b.state # "none" => b.id > 0) /\ (b.state \in {"dispatching", "unknown"} => b.send > 0)
GoodConv(n, x) ==
  /\ x \in Convs /\ x.gen > 0 /\ x.next > 0 /\ x.rows \subseteq 1..n /\ GoodBox(n, x.box)
GoodRecord(n, r) == r \in Records /\ r.gen > 1 /\ r.rows \subseteq 1..n /\ GoodBox(n, r.box)

\* Deletions are numbered upwards.
GoodJournal(n, j) ==
  /\ j \in Seq(Records) /\ (\A k \in 1..Len(j) : GoodRecord(n, j[k]))
  /\ \A i, k \in 1..Len(j) : i < k => j[i].gen < j[k].gen
Top(j) == IF j = <<>> THEN 1 ELSE j[Len(j)].gen

\* Rows, and the send a delivery is about, come into being in one generation, and
\* are deleted when it ends.
Born(b, x) ==
  /\ \A r \in x.rows : b[r] = x.gen
  /\ ~x.box.erased /\ x.box.send > 0 => b[x.box.send] = x.gen
Died(b, j) == \A k \in 1..Len(j) : \A r \in j[k].rows : b[r] + 1 = j[k].gen

\* The generation of a conversation is one the journal knows, and its numbers go on
\* behind the deletions before it.
Covered(x, j) == x.gen <= Top(j) /\ \A k \in 1..Len(j) : j[k].gen <= x.gen => j[k].cutoff < x.next

\* The delivery of a page is the one of the conversation, or one before it.
Before(a, b) ==
  a.id > 0 /\ a.id = b.id => a.attempts <= b.attempts /\ (a.attempts = b.attempts => a.send = b.send)

\* What a page shows was so, and comes no more when it has passed.
Past(p, x, j) ==
  /\ p.gen <= x.gen /\ (p.gen = x.gen => p.rows \subseteq x.rows)
  /\ Before(p.box, x.box) /\ \A k \in 1..Len(j) : j[k].gen > x.gen => Before(p.box, j[k].box)
GoodPage(n, p) == p \in Convs /\ p.box.id <= n /\ p.rows \subseteq 1..n

DeskTypes(c) ==
  /\ things \in 0..c.MaxThings /\ up \in BOOLEAN /\ failed \in BOOLEAN /\ forked \in BOOLEAN
  /\ GoodConv(things, main) /\ GoodJournal(things, journal)
  /\ copies = [main |-> copies.main, journal |-> copies.journal]
  /\ (\A x \in copies.main : GoodConv(things, x)) /\ (\A j \in copies.journal : GoodJournal(things, j))
  /\ page \in [c.Operator -> Convs] /\ \A o \in c.Operator : GoodPage(things, page[o])

InOneGeneration ==
  \E b \in [Nat -> Nat] :
    /\ Born(b, main) /\ (\A x \in copies.main : Born(b, x))
    /\ Died(b, journal) /\ \A j \in copies.journal : Died(b, j)

DeskInv(c) ==
  /\ DeskTypes(c) /\ InOneGeneration
  /\ up /\ ~failed => main.gen = Top(journal)
  /\ ~forked => Covered(main, journal) /\ \A x \in copies.main : Covered(x, journal)
  /\ \A o \in c.Operator : Past(page[o], main, journal)

Bounds(c) == c.MaxThings \in Nat

-----------------------------------------------------------------------------

LEMMA MoreIsGood ==
  ASSUME NEW m \in Nat, NEW n \in Nat, m <= n
  PROVE  /\ \A x : GoodConv(m, x) => GoodConv(n, x)
         /\ \A j : GoodJournal(m, j) => GoodJournal(n, j)
         /\ \A p : GoodPage(m, p) => GoodPage(n, p)
  <1>1. 1..m \subseteq 1..n
    OBVIOUS
  <1>2. \A b : GoodBox(m, b) => GoodBox(n, b)
    BY DEF GoodBox, Boxes
  <1>3. \A x : GoodConv(m, x) => GoodConv(n, x)
    BY <1>1, <1>2 DEF GoodConv
  <1>4. \A r : GoodRecord(m, r) => GoodRecord(n, r)
    BY <1>1, <1>2 DEF GoodRecord
  <1>5. \A j : GoodJournal(m, j) => GoodJournal(n, j)
    BY <1>4 DEF GoodJournal
  <1>6. \A p : GoodPage(m, p) => GoodPage(n, p)
    BY <1>1 DEF GoodPage, Convs, Boxes
  <1>7. QED BY <1>3, <1>5, <1>6

LEMMA TopIs == ASSUME NEW c, NEW j PROVE OperatorsOf(c)!Highest(j) = Top(j)
  BY DEF OperatorsOf!Highest, Top

\* The last deletion has the highest number.
LEMMA TopIsLast ==
  ASSUME NEW n, NEW j, GoodJournal(n, j)
  PROVE  /\ Top(j) \in Nat \ {0} /\ Len(j) \in Nat
         /\ \A k \in 1..Len(j) : j[k] \in Records /\ j[k].gen \in Nat /\ j[k].gen <= Top(j)
  <1>1. Len(j) \in Nat /\ \A k \in 1..Len(j) : j[k] \in Records /\ j[k].gen > 1
    BY LenProperties DEF GoodJournal, GoodRecord
  <1>2. \A k \in 1..Len(j) : j[k].gen \in Nat
    BY <1>1 DEF Records
  <1>3. CASE j = <<>>
    BY <1>1, <1>2, <1>3 DEF Top
  <1>4. CASE j # <<>>
    <2>1. Len(j) > 0 /\ Len(j) \in 1..Len(j)
      BY <1>1, <1>4, EmptySeq DEF GoodJournal
    <2>2. Top(j) = j[Len(j)].gen
      BY <1>4 DEF Top
    <2>3. \A k \in 1..Len(j) : j[k].gen <= j[Len(j)].gen
      <3>1. SUFFICES ASSUME NEW k \in 1..Len(j) PROVE j[k].gen <= j[Len(j)].gen
        OBVIOUS
      <3>2. CASE k = Len(j)
        BY <1>2, <3>2
      <3>3. CASE k # Len(j)
        <4>1. k < Len(j)
          BY <1>1, <3>3
        <4>2. j[k].gen < j[Len(j)].gen
          BY <2>1, <4>1 DEF GoodJournal
        <4>3. QED BY <1>2, <2>1, <4>2
      <3>4. QED BY <3>2, <3>3
    <2>4. QED BY <1>1, <1>2, <2>1, <2>2, <2>3
  <1>5. QED BY <1>3, <1>4

\* The conversation goes on within its generation.
GoesOn(n, x, y, m) ==
  /\ GoodConv(m, y) /\ y.gen = x.gen /\ x.next <= y.next /\ x.rows \subseteq y.rows
  /\ \A r \in y.rows : r \in x.rows \/ r \in (n + 1)..m \/ (r = x.box.send /\ ~x.box.erased /\ x.box.send > 0)
  /\ ~y.box.erased /\ y.box.send > 0 =>
       (y.box.send = x.box.send /\ ~x.box.erased) \/ y.box.send \in (n + 1)..m
  /\ \A a \in Boxes : a.id <= n /\ Before(a, x.box) => Before(a, y.box)

LEMMA OnAndOn ==
  ASSUME NEW c, Bounds(c), DeskInv(c), up, ~failed, things' \in 0..c.MaxThings, things <= things',
         GoesOn(things, main, main', things'),
         journal' = journal, copies' = copies, up' = up, failed' = failed, page' = page, forked' = forked
  PROVE  DeskInv(c)'
  <1> USE DEF DeskInv
  <1>1. things \in Nat /\ things' \in Nat
    BY DEF DeskTypes, Bounds
  <1>2. /\ \A x : GoodConv(things, x) => GoodConv(things', x)
        /\ \A j : GoodJournal(things, j) => GoodJournal(things', j)
        /\ \A p : GoodPage(things, p) => GoodPage(things', p)
    BY <1>1, MoreIsGood
  <1>3. GoodConv(things', main') /\ GoodConv(things, main)
    BY DEF GoesOn, DeskTypes
  <1>4. DeskTypes(c)'
    BY <1>2, <1>3 DEF DeskTypes
  <1>5. InOneGeneration'
    <2>1. PICK b \in [Nat -> Nat] : /\ Born(b, main) /\ (\A x \in copies.main : Born(b, x))
                                    /\ Died(b, journal) /\ \A j \in copies.journal : Died(b, j)
      BY DEF InOneGeneration
    <2>2. PICK g \in Nat : g = main.gen
      BY <1>3 DEF GoodConv, Convs
    <2>3. PICK t \in Nat : t = things
      BY <1>1
    <2> DEFINE d == [r \in Nat |-> IF r <= t THEN b[r] ELSE g]
    <2>4. d \in [Nat -> Nat] /\ \A r \in Nat : (r <= t => d[r] = b[r]) /\ (r > t => d[r] = g)
      OBVIOUS
    <2> HIDE DEF d
    <2>5. ASSUME NEW x, GoodConv(t, x), Born(b, x) PROVE Born(d, x)
      <3>1. \A r \in x.rows : r \in Nat /\ r <= t
        BY <2>5 DEF GoodConv
      <3>2. x.box.send \in Nat /\ x.box.send <= t
        BY <2>5 DEF GoodConv, GoodBox, Boxes
      <3>3. QED BY <2>4, <2>5, <3>1, <3>2 DEF Born
    <2>6. ASSUME NEW j, GoodJournal(t, j), Died(b, j) PROVE Died(d, j)
      <3>1. \A k \in 1..Len(j) : \A r \in j[k].rows : r \in Nat /\ r <= t
        <4>1. \A k \in 1..Len(j) : j[k].rows \subseteq 1..t
          BY <2>6 DEF GoodJournal, GoodRecord
        <4>2. SUFFICES ASSUME NEW k \in 1..Len(j), NEW r \in j[k].rows PROVE r \in Nat /\ r <= t
          OBVIOUS
        <4>3. r \in 1..t
          BY <4>1
        <4>4. QED BY <4>3
      <3>2. QED BY <2>4, <2>6, <3>1 DEF Died
    <2>7. Born(d, main')
      <3>1. Born(d, main)
        BY <1>3, <2>1, <2>3, <2>5
      <3>2. \A r \in (things + 1)..things' : d[r] = g
        BY <1>1, <2>3, <2>4
      <3>3. main'.gen = g
        BY <2>2 DEF GoesOn
      <3>4. \A r \in main'.rows : d[r] = g
        BY <2>2, <3>1, <3>2 DEF GoesOn, Born
      <3>5. ~main'.box.erased /\ main'.box.send > 0 => d[main'.box.send] = g
        BY <2>2, <3>1, <3>2 DEF GoesOn, Born
      <3>6. QED BY <3>3, <3>4, <3>5 DEF Born
    <2>8. (\A x \in copies.main : Born(d, x)) /\ Died(d, journal) /\ \A j \in copies.journal : Died(d, j)
      BY <2>1, <2>3, <2>5, <2>6 DEF DeskTypes
    <2>9. QED BY <2>4, <2>7, <2>8 DEF InOneGeneration
  <1>6. main'.gen = main.gen /\ main.next <= main'.next /\ main.next \in Nat /\ main'.next \in Nat /\ main.gen \in Nat
    BY <1>3 DEF GoesOn, GoodConv, Convs
  <1>7. main'.gen = Top(journal)'
    BY <1>6
  <1>8. \A k \in 1..Len(journal) : journal[k].cutoff \in Nat /\ journal[k].gen \in Nat
    BY DEF DeskTypes, GoodJournal, GoodRecord, Records
  <1>9. Covered(main, journal) => Covered(main', journal')
    BY <1>6, <1>8 DEF Covered
  <1>10. ASSUME NEW o \in c.Operator PROVE Past(page[o], main', journal)
    <2>1. Past(page[o], main, journal) /\ GoodPage(things, page[o])
      BY DEF DeskTypes
    <2>2. Before(page[o].box, main'.box)
      BY <2>1 DEF Past, GoodPage, GoesOn, Convs
    <2>3. QED BY <1>6, <2>1, <2>2 DEF Past, GoesOn
  <1>11. QED BY <1>4, <1>5, <1>7, <1>9, <1>10

\* The delivery keeps its number, and its send unless it is tried again.
LEMMA SameDelivery ==
  ASSUME NEW a \in Boxes, NEW x \in Boxes, NEW y \in Boxes, Before(a, x), y.id = x.id,
         x.attempts < y.attempts \/ (x.attempts = y.attempts /\ x.send = y.send)
  PROVE  Before(a, y)
  BY DEF Before, Boxes

Grown(x, rows, next) == [x EXCEPT !.rows = rows, !.next = next]
Boxed(x, rows, box) == [x EXCEPT !.rows = rows, !.box = box]
Sent(b, send) == [b EXCEPT !.state = "dispatching", !.attempts = @ + 1, !.send = send]

LEMMA GrownIs ==
  ASSUME NEW x, x \in Convs, NEW rows, rows \in SUBSET Nat, NEW next, next \in Nat, NEW y, y = Grown(x, rows, next)
  PROVE  y \in Convs /\ y.gen = x.gen /\ y.active = x.active /\ y.next = next /\ y.rows = rows /\ y.box = x.box
  BY DEF Grown, Convs

LEMMA BoxedIs ==
  ASSUME NEW x, x \in Convs, NEW rows, rows \in SUBSET Nat, NEW box, box \in Boxes, NEW y, y = Boxed(x, rows, box)
  PROVE  y \in Convs /\ y.gen = x.gen /\ y.active = x.active /\ y.next = x.next /\ y.rows = rows /\ y.box = box
  BY DEF Boxed, Convs

LEMMA SentIs ==
  ASSUME NEW b, b \in Boxes, NEW send, send \in Nat, NEW y, y = Sent(b, send)
  PROVE  /\ y \in Boxes /\ y.id = b.id /\ y.attempts = b.attempts + 1 /\ y.erased = b.erased
         /\ y.send = send /\ y.state = "dispatching"
  <1>1. "dispatching" \in DeliveryStates /\ b.attempts + 1 \in Nat
    BY DEF DeliveryStates, Boxes
  <1>2. QED BY <1>1 DEF Sent, Boxes

LEMMA GrowGoesOn ==
  ASSUME NEW c, Bounds(c), DeskInv(c), OperatorsOf(c)!Grow
  PROVE  DeskInv(c)'
  <1>1. /\ up /\ ~failed /\ things < c.MaxThings /\ things' = things + 1
        /\ journal' = journal /\ copies' = copies /\ up' = up /\ failed' = failed /\ page' = page /\ forked' = forked
        /\ \E next \in {main.next, main.next + 1} : main' = Grown(main, main.rows \cup {things + 1}, next)
    BY DEF Grown, OperatorsOf!Grow, OperatorsOf!Serves, OperatorsOf!Make, OperatorsOf!Fresh, OperatorsOf!files
  <1>2. GoodConv(things, main) /\ things \in 0..c.MaxThings /\ c.MaxThings \in Nat
    BY DEF DeskInv, DeskTypes, Bounds
  <1>3. things' \in 0..c.MaxThings /\ things <= things' /\ things \in Nat /\ things + 1 \in (things + 1)..things'
    BY <1>1, <1>2
  <1>4. GoodConv(things', main)
    BY <1>2, <1>3, MoreIsGood
  <1>5. main \in Convs /\ main.next \in Nat /\ main.next > 0 /\ main.rows \subseteq 1..things'
    BY <1>4 DEF GoodConv, Convs
  <1>6. PICK next \in Nat : next >= main.next /\ main' = Grown(main, main.rows \cup {things + 1}, next)
    <2>1. PICK next \in {main.next, main.next + 1} : main' = Grown(main, main.rows \cup {things + 1}, next)
      BY <1>1
    <2>2. next \in Nat /\ next >= main.next
      BY <1>5
    <2>3. QED BY <2>1, <2>2
  <1>7. /\ main' \in Convs /\ main'.gen = main.gen /\ main'.box = main.box /\ main'.active = main.active
        /\ main'.next = next /\ main'.rows = main.rows \cup {things + 1}
    <2>1. main.rows \cup {things + 1} \in SUBSET Nat /\ main.box \in Boxes
      BY <1>3, <1>5 DEF Convs
    <2>2. QED BY <1>5, <1>6, <2>1, GrownIs
  <1>8. GoodConv(things', main')
    <2>1. main'.next > 0 /\ main'.rows \subseteq 1..things'
      BY <1>1, <1>3, <1>5, <1>6, <1>7
    <2>2. QED BY <1>4, <1>7, <2>1 DEF GoodConv
  <1>9. GoesOn(things, main, main', things')
    BY <1>3, <1>6, <1>7, <1>8 DEF GoesOn
  <1>10. QED BY <1>1, <1>3, <1>9, OnAndOn

LEMMA PlanGoesOn ==
  ASSUME NEW c, Bounds(c), DeskInv(c), OperatorsOf(c)!Plan
  PROVE  DeskInv(c)'
  <1> DEFINE box == [id |-> things + 1, state |-> "pending", attempts |-> 0, erased |-> FALSE, send |-> 0]
  <1>1. /\ up /\ ~failed /\ things < c.MaxThings /\ things' = things + 1
        /\ journal' = journal /\ copies' = copies /\ up' = up /\ failed' = failed /\ page' = page /\ forked' = forked
        /\ main' = Boxed(main, main.rows \cup {things + 1}, box)
    BY DEF Boxed, OperatorsOf!Plan, OperatorsOf!Serves, OperatorsOf!Make, OperatorsOf!Fresh, OperatorsOf!files
  <1>2. GoodConv(things, main) /\ things \in 0..c.MaxThings /\ c.MaxThings \in Nat
    BY DEF DeskInv, DeskTypes, Bounds
  <1>3. things' \in 0..c.MaxThings /\ things <= things' /\ things \in Nat /\ things + 1 \in (things + 1)..things'
    BY <1>1, <1>2
  <1>4. GoodConv(things', main)
    BY <1>2, <1>3, MoreIsGood
  <1>5. main \in Convs /\ main.next \in Nat /\ main.next > 0 /\ main.rows \subseteq 1..things'
    BY <1>4 DEF GoodConv, Convs
  <1>6. box \in Boxes /\ GoodBox(things', box) /\ box.send = 0 /\ box.id = things + 1
    BY <1>1, <1>3 DEF GoodBox, Boxes, DeliveryStates
  <1> HIDE DEF box
  <1>7. /\ main' \in Convs /\ main'.gen = main.gen /\ main'.box = box /\ main'.active = main.active
        /\ main'.next = main.next /\ main'.rows = main.rows \cup {things + 1}
    <2>1. main.rows \cup {things + 1} \in SUBSET Nat
      BY <1>3, <1>5 DEF Convs
    <2>2. QED BY <1>1, <1>5, <1>6, <2>1, BoxedIs
  <1>8. GoodConv(things', main')
    BY <1>3, <1>4, <1>5, <1>6, <1>7 DEF GoodConv
  <1>9. \A a \in Boxes : a.id <= things => Before(a, box)
    BY <1>3, <1>6 DEF Before
  <1>10. GoesOn(things, main, main', things')
    BY <1>3, <1>5, <1>6, <1>7, <1>8, <1>9 DEF GoesOn
  <1>11. QED BY <1>1, <1>3, <1>10, OnAndOn

LEMMA DispatchGoesOn ==
  ASSUME NEW c, Bounds(c), DeskInv(c), OperatorsOf(c)!Dispatch
  PROVE  DeskInv(c)'
  <1> DEFINE box == Sent(main.box, things + 1)
  <1>1. /\ up /\ ~failed /\ things < c.MaxThings /\ things' = things + 1 /\ main.box.state = "pending"
        /\ journal' = journal /\ copies' = copies /\ up' = up /\ failed' = failed /\ page' = page /\ forked' = forked
        /\ main' = [main EXCEPT !.box.state = "dispatching", !.box.attempts = @ + 1, !.box.send = things + 1]
    BY DEF OperatorsOf!Dispatch, OperatorsOf!Serves, OperatorsOf!Make, OperatorsOf!Fresh, OperatorsOf!files
  <1>2. GoodConv(things, main) /\ things \in 0..c.MaxThings /\ c.MaxThings \in Nat
    BY DEF DeskInv, DeskTypes, Bounds
  <1>3. things' \in 0..c.MaxThings /\ things <= things' /\ things \in Nat /\ things + 1 \in (things + 1)..things'
    BY <1>1, <1>2
  <1>4. GoodConv(things', main)
    BY <1>2, <1>3, MoreIsGood
  <1>5. /\ main \in Convs /\ main.next \in Nat /\ main.next > 0 /\ main.rows \subseteq 1..things' /\ main.box \in Boxes
        /\ GoodBox(things', main.box) /\ main.box.attempts \in Nat
    BY <1>4 DEF GoodConv, Convs, Boxes
  <1>6. /\ box \in Boxes /\ box.id = main.box.id /\ box.attempts = main.box.attempts + 1
        /\ box.send = things + 1 /\ box.state = "dispatching"
    <2>1. PICK send \in Nat : send = things + 1
      BY <1>3
    <2>2. PICK b \in Boxes : b = main.box
      BY <1>5
    <2>3. PICK y : y = Sent(b, send)
      OBVIOUS
    <2>4. /\ y \in Boxes /\ y.id = b.id /\ y.attempts = b.attempts + 1 /\ y.erased = b.erased
          /\ y.send = send /\ y.state = "dispatching"
      BY <2>3, SentIs
    <2>5. QED BY <2>1, <2>2, <2>3, <2>4
  <1>7. main' = [main EXCEPT !.box = box]
    BY <1>1, <1>5 DEF Sent, Convs, Boxes
  <1> HIDE DEF box
  <1>8. GoodBox(things', box)
    BY <1>1, <1>3, <1>5, <1>6 DEF GoodBox
  <1>9. /\ main' \in Convs /\ main'.gen = main.gen /\ main'.box = box /\ main'.active = main.active
        /\ main'.next = main.next /\ main'.rows = main.rows
    BY <1>5, <1>6, <1>7 DEF Convs
  <1>10. GoodConv(things', main')
    BY <1>4, <1>8, <1>9 DEF GoodConv
  <1>11. \A a \in Boxes : Before(a, main.box) => Before(a, box)
    BY <1>5, <1>6, SameDelivery
  <1>12. GoesOn(things, main, main', things')
    BY <1>3, <1>5, <1>6, <1>9, <1>10, <1>11 DEF GoesOn
  <1>13. QED BY <1>1, <1>3, <1>12, OnAndOn

\* A delivery is settled one way or the other.
LEMMA SettledGoesOn ==
  ASSUME NEW c, Bounds(c), DeskInv(c), up, ~failed,
         NEW state \in {"pending", "unknown", "rejected", "accepted", "cancelled"},
         main' = OperatorsOf(c)!Settled(state), state = "accepted" => main.box.state \in {"dispatching", "unknown"},
         main.box.state \in {"dispatching", "unknown", "rejected"},
         state = "unknown" => main.box.state = "dispatching",
         journal' = journal, copies' = copies, up' = up, failed' = failed, page' = page, forked' = forked, things' = things
  PROVE  DeskInv(c)'
  <1> DEFINE box == [main.box EXCEPT !.state = state]
             more == IF state = "accepted" /\ ~main.box.erased THEN {main.box.send} ELSE {}
  <1>1. GoodConv(things, main) /\ things \in 0..c.MaxThings /\ c.MaxThings \in Nat /\ things \in Nat
    BY DEF DeskInv, DeskTypes, Bounds
  <1>2. /\ main \in Convs /\ main.next \in Nat /\ main.next > 0 /\ main.rows \subseteq 1..things /\ main.box \in Boxes
        /\ GoodBox(things, main.box)
    BY <1>1 DEF GoodConv, Convs
  <1>3. /\ box \in Boxes /\ box.id = main.box.id /\ box.attempts = main.box.attempts /\ box.erased = main.box.erased
        /\ box.send = main.box.send /\ box.state = state
    <2>1. state \in DeliveryStates
      BY DEF DeliveryStates
    <2>2. QED BY <1>2, <2>1 DEF Boxes
  <1>4. more \subseteq 1..things /\ \A r \in more : r = main.box.send /\ ~main.box.erased /\ main.box.send > 0
    BY <1>1, <1>2 DEF GoodBox, Boxes
  <1>5. main' = Boxed(main, main.rows \cup more, box)
    BY <1>2 DEF OperatorsOf!Settled, Boxed, Convs, Boxes
  <1> HIDE DEF box, more
  <1>6. /\ main' \in Convs /\ main'.gen = main.gen /\ main'.box = box /\ main'.active = main.active
        /\ main'.next = main.next /\ main'.rows = main.rows \cup more
    <2>1. main.rows \subseteq Nat /\ 1..things \subseteq Nat
      BY <1>1, <1>2 DEF Convs
    <2>20. main.rows \cup more \in SUBSET Nat
      BY <1>4, <2>1
    <2>2. QED BY <1>2, <1>3, <1>5, <2>20, BoxedIs
  <1>7. GoodBox(things, box)
    BY <1>2, <1>3 DEF GoodBox
  <1>8. GoodConv(things, main')
    BY <1>1, <1>2, <1>4, <1>6, <1>7 DEF GoodConv
  <1>9. \A a \in Boxes : Before(a, main.box) => Before(a, box)
    BY <1>2, <1>3, SameDelivery
  <1>10. GoesOn(things, main, main', things')
    <2>1. \A r \in main'.rows : r \in main.rows \/ (r = main.box.send /\ ~main.box.erased /\ main.box.send > 0)
      BY <1>4, <1>6
    <2>2. main.next <= main'.next
      BY <1>2, <1>6
    <2>3. GoodConv(things', main')
      BY <1>8
    <2>4. QED BY <1>2, <1>3, <1>6, <1>9, <2>1, <2>2, <2>3 DEF GoesOn
  <1>11. QED BY <1>1, <1>10, OnAndOn

LEMMA ResultGoesOn ==
  ASSUME NEW c, Bounds(c), DeskInv(c), OperatorsOf(c)!Result
  PROVE  DeskInv(c)'
  <1>1. /\ up /\ ~failed /\ main.box.state = "dispatching" /\ things' = things
        /\ journal' = journal /\ copies' = copies /\ up' = up /\ failed' = failed /\ page' = page /\ forked' = forked
        /\ \E status \in {"accepted", "rejected", "unknown"} : main' = OperatorsOf(c)!Settled(status)
    BY DEF OperatorsOf!Result, OperatorsOf!Serves, OperatorsOf!files
  <1>2. QED BY <1>1, SettledGoesOn

LEMMA ResolveGoesOn ==
  ASSUME NEW c, Bounds(c), DeskInv(c), NEW o \in c.Operator, OperatorsOf(c)!Resolve(o)
  PROVE  DeskInv(c)'
  <1>1. /\ up /\ ~failed /\ main.box.state \in {"unknown", "rejected"} /\ things' = things
        /\ journal' = journal /\ copies' = copies /\ up' = up /\ failed' = failed /\ page' = page /\ forked' = forked
        /\ \E state \in {"accepted", "pending", "cancelled"} :
             main' = OperatorsOf(c)!Settled(state) /\ (state = "accepted" => main.box.state = "unknown")
    BY DEF OperatorsOf!Resolve, OperatorsOf!MayResolve, OperatorsOf!Serves, OperatorsOf!files
  <1>2. QED BY <1>1, SettledGoesOn

LEMMA ResumeGoesOn ==
  ASSUME NEW c, Bounds(c), DeskInv(c), NEW o \in c.Operator, OperatorsOf(c)!Resume(o)
  PROVE  DeskInv(c)'
  <1>1. /\ up /\ ~failed /\ things' = things /\ main' = [main EXCEPT !.active = TRUE]
        /\ journal' = journal /\ copies' = copies /\ up' = up /\ failed' = failed /\ page' = page /\ forked' = forked
    BY DEF OperatorsOf!Resume, OperatorsOf!Serves, OperatorsOf!files
  <1>2. GoodConv(things, main) /\ things \in 0..c.MaxThings /\ c.MaxThings \in Nat /\ things \in Nat
    BY DEF DeskInv, DeskTypes, Bounds
  <1>3. /\ main' \in Convs /\ main'.gen = main.gen /\ main'.box = main.box
        /\ main'.next = main.next /\ main'.rows = main.rows /\ main.next \in Nat
    BY <1>1, <1>2 DEF Convs, GoodConv
  <1>4. GoodConv(things, main')
    BY <1>2, <1>3 DEF GoodConv
  <1>5. GoesOn(things, main, main', things')
    BY <1>1, <1>3, <1>4 DEF GoesOn
  <1>6. things' \in 0..c.MaxThings /\ things <= things'
    BY <1>1, <1>2
  <1>7. QED BY <1>1, <1>5, <1>6, OnAndOn

-----------------------------------------------------------------------------
(* Pages, files *)

LEMMA LoadKeeps ==
  ASSUME NEW c, Bounds(c), DeskInv(c), NEW o \in c.Operator, OperatorsOf(c)!Load(o)
  PROVE  DeskInv(c)'
  <1>1. /\ up /\ ~failed /\ page' = [page EXCEPT ![o] = main]
        /\ main' = main /\ journal' = journal /\ copies' = copies /\ up' = up /\ failed' = failed
        /\ forked' = forked /\ things' = things
    BY DEF OperatorsOf!Load, OperatorsOf!Serves, OperatorsOf!files
  <1>2. DeskTypes(c) /\ GoodConv(things, main) /\ GoodJournal(things, journal) /\ main.gen = Top(journal) /\ main.gen \in Nat
    BY <1>1 DEF DeskInv, DeskTypes, GoodConv, Convs
  <1>3. GoodPage(things, main) /\ main \in Convs
    BY <1>2 DEF GoodPage, GoodConv, GoodBox
  <1>4. Past(main, main, journal)
    <2>1. \A k \in 1..Len(journal) : journal[k].gen \in Nat /\ journal[k].gen <= main.gen
      BY <1>2, TopIsLast
    <2>2. main.box.attempts \in Nat
      BY <1>3 DEF Convs, Boxes
    <2>3. QED BY <1>2, <2>1, <2>2 DEF Past, Before
  <1>5. \A p \in c.Operator : page'[p] = IF p = o THEN main ELSE page[p]
    BY <1>1, <1>2 DEF DeskTypes
  <1>6. page' \in [c.Operator -> Convs] /\ \A p \in c.Operator : GoodPage(things, page'[p])
    BY <1>1, <1>2, <1>3, <1>5 DEF DeskTypes
  <1>7. DeskTypes(c)'
    BY <1>1, <1>2, <1>6 DEF DeskTypes
  <1>8. \A p \in c.Operator : Past(page'[p], main', journal')
    BY <1>1, <1>4, <1>5 DEF DeskInv
  <1>9. InOneGeneration'
    BY <1>1 DEF DeskInv, InOneGeneration
  <1>10. QED BY <1>1, <1>7, <1>8, <1>9 DEF DeskInv

LEMMA StopKeeps ==
  ASSUME NEW c, DeskInv(c), OperatorsOf(c)!Stop
  PROVE  DeskInv(c)'
  <1>1. /\ up' = FALSE /\ failed' = FALSE /\ page' = page /\ main' = main /\ journal' = journal /\ copies' = copies
        /\ forked' = forked /\ things' = things
    BY DEF OperatorsOf!Stop
  <1>2. QED BY <1>1 DEF DeskInv, DeskTypes, InOneGeneration

LEMMA BackUpKeeps ==
  ASSUME NEW c, DeskInv(c), OperatorsOf(c)!BackUp
  PROVE  DeskInv(c)'
  <1>1. /\ page' = page /\ main' = main /\ journal' = journal /\ forked' = forked /\ things' = things
        /\ up' = up /\ failed' = failed
        /\ copies' \in {[copies EXCEPT !.main = @ \cup {main}], [copies EXCEPT !.journal = @ \cup {journal}]}
    BY DEF OperatorsOf!BackUp
  <1>2. /\ copies' = [main |-> copies'.main, journal |-> copies'.journal]
        /\ copies'.main \subseteq copies.main \cup {main} /\ copies'.journal \subseteq copies.journal \cup {journal}
    BY <1>1 DEF DeskInv, DeskTypes
  <1>3. DeskTypes(c)'
    BY <1>1, <1>2 DEF DeskInv, DeskTypes
  <1>4. InOneGeneration'
    BY <1>1, <1>2 DEF DeskInv, InOneGeneration
  <1>5. ~forked' => Covered(main', journal') /\ \A x \in copies'.main : Covered(x, journal')
    BY <1>1, <1>2 DEF DeskInv
  <1>6. QED BY <1>1, <1>3, <1>4, <1>5 DEF DeskInv

LEMMA RestoreKeeps ==
  ASSUME NEW c, Bounds(c), DeskInv(c), OperatorsOf(c)!Restore
  PROVE  DeskInv(c)'
  <1> DEFINE none == OperatorsOf(c)!NoPage
  <1>1. /\ ~up /\ copies' = copies /\ things' = things /\ up' = up /\ failed' = failed
        /\ page' = [o \in c.Operator |-> none]
        /\ \/ main' \in copies.main /\ journal' = journal /\ forked' = forked
           \/ journal' \in copies.journal /\ forked' = TRUE /\ main' = main
    BY DEF OperatorsOf!Restore
  <1>2. /\ none.gen = 0 /\ none.box.id = 0 /\ none.rows = {} /\ none \in Convs
    BY DEF OperatorsOf!NoPage, OperatorsOf!New, OperatorsOf!NoBox, Convs, Boxes, DeliveryStates
  <1> HIDE DEF none
  <1>3. DeskTypes(c) /\ things \in Nat
    BY DEF DeskInv, DeskTypes, Bounds
  <1>4. GoodPage(things, none)
    BY <1>2, <1>3 DEF GoodPage
  <1>5. GoodConv(things, main') /\ GoodJournal(things, journal') /\ forked' \in BOOLEAN
    BY <1>1, <1>3 DEF DeskTypes
  <1>6. DeskTypes(c)'
    BY <1>1, <1>2, <1>3, <1>4, <1>5 DEF DeskTypes
  <1>7. InOneGeneration'
    BY <1>1 DEF DeskInv, InOneGeneration
  <1>8. ~forked' => Covered(main', journal') /\ \A x \in copies'.main : Covered(x, journal')
    BY <1>1 DEF DeskInv
  <1>9. main'.gen \in Nat /\ main'.gen > 0
    BY <1>5 DEF GoodConv, Convs
  <1>10. \A o \in c.Operator : Past(page'[o], main', journal')
    BY <1>1, <1>2, <1>9 DEF Past, Before
  <1>11. QED BY <1>1, <1>6, <1>7, <1>8, <1>10 DEF DeskInv

-----------------------------------------------------------------------------
(* Deletions *)

LEMMA AppendIs ==
  ASSUME NEW n, NEW j, GoodJournal(n, j), NEW r, GoodRecord(n, r), Top(j) < r.gen
  PROVE  /\ GoodJournal(n, Append(j, r)) /\ Top(Append(j, r)) = r.gen
         /\ Len(Append(j, r)) = Len(j) + 1 /\ Append(j, r)[Len(j) + 1] = r
         /\ \A k \in 1..Len(j) : Append(j, r)[k] = j[k]
  <1>1. j \in Seq(Records) /\ r \in Records /\ r.gen \in Nat /\ Len(j) \in Nat
    BY LenProperties DEF GoodJournal, GoodRecord, Records
  <1> DEFINE a == Append(j, r)
  <1>2. /\ a \in Seq(Records) /\ Len(a) = Len(j) + 1 /\ a[Len(j) + 1] = r /\ \A k \in 1..Len(j) : a[k] = j[k]
    BY <1>1
  <1>3. a # <<>>
    BY <1>1, <1>2, EmptySeq
  <1> HIDE DEF a
  <1>4. Top(a) = r.gen
    BY <1>2, <1>3 DEF Top
  <1>5. \A k \in 1..Len(a) : (k \in 1..Len(j) /\ a[k] = j[k]) \/ (k = Len(j) + 1 /\ a[k] = r)
    BY <1>1, <1>2
  <1>6. \A k \in 1..Len(a) : GoodRecord(n, a[k])
    BY <1>5 DEF GoodJournal
  <1>7. \A k \in 1..Len(j) : j[k].gen \in Nat /\ j[k].gen < r.gen
    BY <1>1, TopIsLast
  <1>8. \A i, k \in 1..Len(a) : i < k => a[i].gen < a[k].gen
    <2>1. SUFFICES ASSUME NEW i \in 1..Len(a), NEW k \in 1..Len(a), i < k PROVE a[i].gen < a[k].gen
      OBVIOUS
    <2>2. i \in 1..Len(j) /\ a[i] = j[i]
      BY <1>1, <1>2, <2>1
    <2>3. QED BY <1>5, <1>7, <2>1, <2>2 DEF GoodJournal
  <1>9. QED BY <1>2, <1>4, <1>6, <1>8 DEF a, GoodJournal

\* What a deletion leaves: nothing but the delivery that is under way, erased.
Ended(b, y) == y.id = b.id /\ y.attempts = b.attempts /\ y.send = b.send /\ (y.erased \/ y.send = 0)

LEMMA EndedBefore == ASSUME NEW a, NEW b, NEW y, Ended(b, y), Before(a, b) PROVE Before(a, y)
  BY DEF Ended, Before

Applied(n, x, r, y) ==
  /\ x.gen >= r.gen => y = x
  /\ ~(x.gen >= r.gen) => /\ GoodConv(n, y) /\ y.gen = r.gen /\ y.rows = {} /\ Ended(r.box, y.box)
                          /\ y.next >= x.next /\ y.next > r.cutoff

LEMMA ApplyIs ==
  ASSUME NEW c, NEW n \in Nat, NEW x, GoodConv(n, x), NEW r, GoodRecord(n, r), NEW y, y = OperatorsOf(c)!Apply(x, r)
  PROVE  Applied(n, x, r, y)
  <1>1. CASE x.gen >= r.gen
    BY <1>1 DEF Applied, OperatorsOf!Apply
  <1>2. CASE ~(x.gen >= r.gen)
    <2> DEFINE next == OperatorsOf(c)!Greater(x.next, r.cutoff + 1)
               box == IF r.box = OperatorsOf(c)!NoBox THEN OperatorsOf(c)!NoBox ELSE [r.box EXCEPT !.erased = TRUE]
    <2>1. y = [gen |-> r.gen, active |-> FALSE, next |-> next, rows |-> {}, box |-> box]
      BY <1>2 DEF OperatorsOf!Apply
    <2>2. x.next \in Nat /\ x.next > 0 /\ r.cutoff \in Nat /\ r.gen \in Nat /\ r.gen > 1 /\ r.box \in Boxes /\ GoodBox(n, r.box)
      BY DEF GoodConv, Convs, GoodRecord, Records
    <2>3. next \in Nat /\ next >= x.next /\ next > r.cutoff /\ (next = x.next \/ next = r.cutoff + 1)
      BY <2>2 DEF OperatorsOf!Greater
    <2>4. box \in Boxes /\ GoodBox(n, box) /\ Ended(r.box, box)
      <3>1. CASE r.box = OperatorsOf(c)!NoBox
        <4>1. box = r.box /\ r.box.send = 0
          BY <3>1 DEF OperatorsOf!NoBox
        <4>2. QED BY <2>2, <4>1 DEF Ended
      <3>2. CASE r.box # OperatorsOf(c)!NoBox
        <4>1. box = [r.box EXCEPT !.erased = TRUE]
          BY <3>2
        <4> HIDE DEF box
        <4>2. /\ box \in Boxes /\ box.id = r.box.id /\ box.attempts = r.box.attempts /\ box.send = r.box.send
              /\ box.erased /\ box.state = r.box.state
          BY <2>2, <4>1 DEF Boxes
        <4>3. QED BY <2>2, <4>2 DEF Ended, GoodBox
      <3>3. QED BY <3>1, <3>2
    <2> HIDE DEF next, box
    <2>5. y \in Convs
      BY <2>1, <2>2, <2>3, <2>4 DEF Convs
    <2>6. QED BY <1>2, <2>1, <2>2, <2>3, <2>4, <2>5 DEF GoodConv, Applied
  <1>3. QED BY <1>1, <1>2

LEMMA AppliedIs ==
  ASSUME NEW c, NEW n \in Nat, NEW x, GoodConv(n, x), NEW r, GoodRecord(n, r)
  PROVE  Applied(n, x, r, OperatorsOf(c)!Apply(x, r))
  BY ApplyIs

LEMMA RecordIs ==
  ASSUME NEW c, NEW n \in Nat, GoodConv(n, main), NEW r, r = OperatorsOf(c)!Record
  PROVE  /\ GoodRecord(n, r) /\ r.gen = main.gen + 1 /\ r.cutoff < main.next /\ r.rows = main.rows
         /\ \A a : Before(a, main.box) => Before(a, r.box)
  <1> DEFINE box == IF OperatorsOf(c)!Pending(main.box) THEN main.box ELSE OperatorsOf(c)!NoBox
  <1>1. r = [gen |-> main.gen + 1, cutoff |-> main.next - 1, rows |-> main.rows, box |-> box]
    BY DEF OperatorsOf!Record
  <1>2. /\ main.gen \in Nat /\ main.gen > 0 /\ main.next \in Nat /\ main.next > 0 /\ main.rows \subseteq 1..n
        /\ main.rows \in SUBSET Nat /\ main.box \in Boxes /\ GoodBox(n, main.box)
    BY DEF GoodConv, Convs
  <1>3. GoodBox(n, OperatorsOf(c)!NoBox) /\ OperatorsOf(c)!NoBox.id = 0
    BY DEF OperatorsOf!NoBox, GoodBox, Boxes, DeliveryStates
  <1>4. box \in Boxes /\ GoodBox(n, box) /\ \A a : Before(a, main.box) => Before(a, box)
    BY <1>2, <1>3 DEF GoodBox, Before
  <1> HIDE DEF box
  <1>5. main.gen + 1 \in Nat /\ main.gen + 1 > 1 /\ main.next - 1 \in Nat /\ main.next - 1 < main.next
    BY <1>2
  <1>6. r \in Records
    BY <1>1, <1>2, <1>4, <1>5 DEF Records
  <1>7. QED BY <1>1, <1>2, <1>4, <1>5, <1>6 DEF GoodRecord

LEMMA EraseKeeps ==
  ASSUME NEW c, Bounds(c), DeskInv(c), NEW o, OperatorsOf(c)!Erase(o)
  PROVE  DeskInv(c)'
  <1> PICK r : r = OperatorsOf(c)!Record
    OBVIOUS
  <1>1. /\ up /\ ~failed /\ copies' = copies /\ up' = up /\ page' = page /\ things' = things /\ forked' = forked
        /\ \/ journal' = Append(journal, r) /\ main' = OperatorsOf(c)!Apply(main, r) /\ failed' = FALSE
           \/ journal' \in {journal, Append(journal, r)} /\ main' = main /\ failed' = TRUE
    BY DEF OperatorsOf!Erase, OperatorsOf!MayErase, OperatorsOf!Serves
  <1>2. DeskTypes(c) /\ things \in Nat /\ GoodConv(things, main) /\ GoodJournal(things, journal)
        /\ main.gen = Top(journal) /\ main.gen \in Nat /\ main.next \in Nat
    BY <1>1 DEF DeskInv, DeskTypes, Bounds, GoodConv, Convs
  <1>3. /\ GoodRecord(things, r) /\ r.gen = main.gen + 1 /\ r.cutoff < main.next /\ r.rows = main.rows
        /\ \A a : Before(a, main.box) => Before(a, r.box)
    BY <1>2, RecordIs
  <1>4. r.cutoff \in Nat /\ r.gen \in Nat
    BY <1>3 DEF GoodRecord, Records
  <1>5. /\ Len(journal) \in Nat /\ Top(journal) \in Nat
        /\ \A k \in 1..Len(journal) : journal[k].gen \in Nat /\ journal[k].gen <= Top(journal)
    BY <1>2, TopIsLast
  <1> DEFINE long == Append(journal, r)
  <1>6. /\ GoodJournal(things, long) /\ Top(long) = r.gen /\ Len(long) = Len(journal) + 1 /\ long[Len(journal) + 1] = r
        /\ \A k \in 1..Len(journal) : long[k] = journal[k]
    BY <1>2, <1>3, <1>4, AppendIs
  <1> HIDE DEF long
  <1>7. \A k \in 1..Len(long) : (k \in 1..Len(journal) /\ long[k] = journal[k]) \/ long[k] = r
    BY <1>5, <1>6
  <1> PICK g \in Nat : g = main.gen
    BY <1>2
  <1>g. /\ r.gen = g + 1 /\ g < r.gen /\ ~(g >= r.gen) /\ Top(journal) = g /\ Top(long) = g + 1
        /\ \A k \in 1..Len(journal) : journal[k].gen <= g /\ journal[k].gen < r.gen
    <2>1. r.gen = g + 1 /\ Top(journal) = g /\ Top(long) = g + 1
      BY <1>2, <1>3, <1>6
    <2>2. \A k \in 1..Len(journal) : journal[k].gen <= g
      BY <1>5, <2>1
    <2>3. QED BY <1>5, <2>1, <2>2
  <1>8. PICK b \in [Nat -> Nat] : /\ Born(b, main) /\ (\A x \in copies.main : Born(b, x))
                                  /\ Died(b, journal) /\ \A j \in copies.journal : Died(b, j)
    BY DEF DeskInv, InOneGeneration
  <1>9. Died(b, long)
    <2>1. \A s \in r.rows : b[s] + 1 = r.gen
      BY <1>3, <1>8 DEF Born
    <2>2. QED BY <1>7, <1>8, <2>1 DEF Died
  <1>10. ASSUME NEW x, x.gen \in Nat, Covered(x, journal) PROVE Covered(x, long)
    <2>1. x.gen <= g /\ \A k \in 1..Len(journal) : journal[k].gen <= x.gen => journal[k].cutoff < x.next
      BY <1>10, <1>g DEF Covered
    <2>2. x.gen <= g + 1 /\ ~(r.gen <= x.gen)
      <3>1. PICK m \in Nat : m = x.gen
        BY <1>10
      <3>2. m <= g
        BY <2>1, <3>1
      <3>3. m <= g + 1 /\ ~(g + 1 <= m)
        BY <3>2
      <3>4. r.gen = g + 1
        BY <1>g
      <3>5. QED BY <3>1, <3>3, <3>4
    <2>3. QED BY <1>7, <1>g, <2>1, <2>2 DEF Covered
  <1>11. \A x \in copies.main : x.gen \in Nat
    BY <1>2 DEF DeskTypes, GoodConv, Convs
  <1>12. \A p \in c.Operator : Past(page[p], main, journal) /\ page[p].gen \in Nat
    BY <1>2 DEF DeskInv, DeskTypes, GoodPage, Convs
  <1>13. CASE journal' = long /\ main' = OperatorsOf(c)!Apply(main, r) /\ failed' = FALSE
    <2>1. /\ GoodConv(things, main') /\ main'.gen = r.gen /\ main'.rows = {} /\ Ended(r.box, main'.box)
          /\ main'.next >= main.next /\ main'.next > r.cutoff
      <3>1. ~(main.gen >= r.gen)
        BY <1>g
      <3>2. PICK x : x = main
        OBVIOUS
      <3>3. PICK y : y = main'
        OBVIOUS
      <3>4. GoodConv(things, x) /\ y = OperatorsOf(c)!Apply(x, r) /\ ~(x.gen >= r.gen)
        BY <1>2, <1>13, <3>1, <3>2, <3>3
      <3>5. Applied(things, x, r, y)
        BY <1>2, <1>3, <3>4, AppliedIs
      <3>6. /\ GoodConv(things, y) /\ y.gen = r.gen /\ y.rows = {} /\ Ended(r.box, y.box)
            /\ y.next >= x.next /\ y.next > r.cutoff
        BY <3>4, <3>5 DEF Applied
      <3>7. QED BY <3>2, <3>3, <3>6
    <2>2. DeskTypes(c)'
      BY <1>1, <1>2, <1>6, <1>13, <2>1 DEF DeskTypes
    <2>3. Born(b, main')
      <3>1. main'.box.send \in Nat
        BY <2>1 DEF GoodConv, Convs, Boxes
      <3>2. QED BY <2>1, <3>1 DEF Born, Ended
    <2>4. InOneGeneration'
      BY <1>1, <1>8, <1>9, <1>13, <2>3 DEF InOneGeneration
    <2>5. ~forked => Covered(main', long)
      <3>1. main'.next \in Nat
        BY <2>1 DEF GoodConv, Convs
      <3>2. \A k \in 1..Len(journal) : journal[k].cutoff \in Nat
        BY <1>2 DEF GoodJournal, GoodRecord, Records
      <3>3. ~forked => \A k \in 1..Len(journal) : journal[k].cutoff < main.next
        BY <1>2, <1>5 DEF DeskInv, Covered
      <3>4. ~forked => \A k \in 1..Len(long) : long[k].cutoff < main'.next
        <4>1. SUFFICES ASSUME ~forked, NEW k \in 1..Len(long) PROVE long[k].cutoff < main'.next
          OBVIOUS
        <4>2. CASE long[k] = r
          BY <2>1, <4>2
        <4>3. CASE k \in 1..Len(journal) /\ long[k] = journal[k]
          <5>1. journal[k].cutoff < main.next /\ journal[k].cutoff \in Nat
            BY <3>2, <3>3, <4>1, <4>3
          <5>2. journal[k].cutoff < main'.next
            <6>1. PICK m \in Nat, n \in Nat, u \in Nat : m = journal[k].cutoff /\ n = main.next /\ u = main'.next
              BY <1>2, <3>1, <5>1
            <6>2. m < n /\ u >= n
              BY <2>1, <5>1, <6>1
            <6>3. m < u
              BY <6>2
            <6>4. QED BY <6>1, <6>3
          <5>3. QED BY <4>3, <5>2
        <4>4. QED BY <1>7, <4>2, <4>3
      <3>5. main'.gen <= Top(long)
        BY <1>4, <1>6, <2>1
      <3>6. QED BY <3>4, <3>5 DEF Covered
    <2>6. ASSUME NEW p \in c.Operator PROVE Past(page[p], main', long)
      <3>1. page[p].gen < main'.gen
        <4>1. page[p].gen <= g /\ page[p].gen \in Nat /\ main'.gen = r.gen
          BY <1>12, <2>1 DEF Past
        <4>2. PICK m \in Nat : m = page[p].gen
          BY <4>1
        <4>3. m <= g
          BY <4>1, <4>2
        <4>4. m < g + 1
          BY <4>3
        <4>5. QED BY <1>g, <4>1, <4>2, <4>4
      <3>2. Before(page[p].box, main'.box)
        BY <1>3, <1>12, <2>1, EndedBefore DEF Past
      <3>3. \A k \in 1..Len(long) : ~(long[k].gen > main'.gen)
        <4>1. SUFFICES ASSUME NEW k \in 1..Len(long) PROVE ~(long[k].gen > r.gen)
          BY <2>1
        <4>2. CASE long[k] = r
          BY <1>4, <4>2
        <4>3. CASE k \in 1..Len(journal) /\ long[k] = journal[k]
          <5>1. PICK m \in Nat : m = journal[k].gen
            BY <1>5, <4>3
          <5>2. m <= g
            BY <1>g, <4>3, <5>1
          <5>3. ~(m > g + 1)
            <6>1. \A i, n \in Nat : n <= i => ~(n > i + 1)
              OBVIOUS
            <6>2. QED BY <5>2, <6>1
          <5>4. r.gen = g + 1
            BY <1>g
          <5>5. QED BY <4>3, <5>1, <5>3, <5>4
        <4>4. QED BY <1>7, <4>2, <4>3
      <3>4. page[p].gen <= main'.gen /\ page[p].gen # main'.gen
        BY <1>4, <1>12, <2>1, <3>1
      <3>5. QED BY <3>2, <3>3, <3>4 DEF Past
    <2>7. \A x \in copies.main : ~forked => Covered(x, long)
      BY <1>10, <1>11 DEF DeskInv
    <2>8. main'.gen = Top(long)
      BY <1>6, <2>1
    <2>9. QED BY <1>1, <1>13, <2>2, <2>4, <2>5, <2>6, <2>7, <2>8 DEF DeskInv
  <1>14. CASE journal' = long /\ main' = main /\ failed' = TRUE
    <2>1. DeskTypes(c)'
      BY <1>1, <1>2, <1>6, <1>14 DEF DeskTypes
    <2>2. InOneGeneration'
      BY <1>1, <1>8, <1>9, <1>14 DEF InOneGeneration
    <2>3. ~forked => Covered(main, long) /\ \A x \in copies.main : Covered(x, long)
      BY <1>2, <1>10, <1>11 DEF DeskInv
    <2>4. ASSUME NEW p \in c.Operator PROVE Past(page[p], main, long)
      BY <1>3, <1>7, <1>12 DEF Past
    <2>5. QED BY <1>1, <1>14, <2>1, <2>2, <2>3, <2>4 DEF DeskInv
  <1>15. CASE journal' = journal /\ main' = main /\ failed' = TRUE
    BY <1>1, <1>15 DEF DeskInv, DeskTypes, InOneGeneration
  <1>16. QED BY <1>1, <1>13, <1>14, <1>15 DEF long

\* What the first k deletions leave of a conversation.
ReplayedTo(j, x, k, y) ==
  /\ y.next >= x.next /\ y.gen >= x.gen
  /\ \A i \in 1..k : j[i].gen <= y.gen /\ (j[i].gen > x.gen => j[i].cutoff < y.next)
  /\ \/ y = x
     \/ y.gen > x.gen /\ y.rows = {} /\ \E i \in 1..k : j[i].gen = y.gen /\ Ended(j[i].box, y.box)

LEMMA ReplayOne ==
  ASSUME NEW c, NEW n \in Nat, NEW x, GoodConv(n, x), NEW j, GoodJournal(n, j), NEW k \in 1..Len(j),
         NEW y, GoodConv(n, y), ReplayedTo(j, x, k - 1, y), NEW z, z = OperatorsOf(c)!Apply(y, j[k])
  PROVE  GoodConv(n, z) /\ ReplayedTo(j, x, k, z)
  <1>1. Len(j) \in Nat /\ k \in Nat /\ k - 1 \in Nat
    BY LenProperties DEF GoodJournal
  <1>2. \A i \in 1..Len(j) : GoodRecord(n, j[i]) /\ j[i].gen \in Nat /\ j[i].cutoff \in Nat
    BY DEF GoodJournal, GoodRecord, Records
  <1>3. x.gen \in Nat /\ x.next \in Nat /\ y.gen \in Nat /\ y.next \in Nat
    BY DEF GoodConv, Convs
  <1> PICK r : r = j[k]
    OBVIOUS
  <1>4. GoodRecord(n, r) /\ r.gen \in Nat /\ r.cutoff \in Nat /\ z = OperatorsOf(c)!Apply(y, r)
    BY <1>2
  <1>6. \A i \in 1..k : i \in 1..Len(j) /\ (i = k \/ i \in 1..(k - 1))
    BY <1>1
  <1>7. CASE y.gen >= r.gen
    <2>1. z = y
      <3>1. GoodRecord(n, r) /\ z = OperatorsOf(c)!Apply(y, r) /\ y.gen >= r.gen
        BY <1>4, <1>7
      <3>2. Applied(n, y, r, z)
        BY <3>1, AppliedIs
      <3>3. QED BY <3>1, <3>2 DEF Applied
    <2>2. ~(r.gen > x.gen)
      <3>1. SUFFICES ASSUME r.gen > x.gen PROVE FALSE
        OBVIOUS
      <3>2. y # x
        BY <1>3, <1>4, <1>7, <3>1
      <3>3. PICK i \in 1..(k - 1) : j[i].gen = y.gen
        BY <3>2 DEF ReplayedTo
      <3>4. i \in 1..Len(j) /\ i < k
        BY <1>1
      <3>5. j[i].gen < r.gen
        BY <3>4 DEF GoodJournal
      <3>6. QED BY <1>3, <1>4, <1>7, <3>3, <3>5
    <2>3. \A i \in 1..k : j[i].gen <= y.gen /\ (j[i].gen > x.gen => j[i].cutoff < y.next)
      <3>1. r.gen <= y.gen
        BY <1>3, <1>4, <1>7
      <3>2. QED BY <1>6, <2>2, <3>1 DEF ReplayedTo
    <2>4. y = x \/ (y.gen > x.gen /\ y.rows = {} /\ \E i \in 1..k : j[i].gen = y.gen /\ Ended(j[i].box, y.box))
      <3>1. \A i \in 1..(k - 1) : i \in 1..k
        BY <1>1
      <3>2. QED BY <3>1 DEF ReplayedTo
    <2>5. QED BY <2>1, <2>3, <2>4 DEF ReplayedTo
  <1>8. CASE ~(y.gen >= r.gen)
    <2>1. /\ GoodConv(n, z) /\ z.gen = r.gen /\ z.rows = {} /\ Ended(r.box, z.box)
          /\ z.next >= y.next /\ z.next > r.cutoff
      <3>1. GoodRecord(n, r) /\ z = OperatorsOf(c)!Apply(y, r) /\ ~(y.gen >= r.gen)
        BY <1>4, <1>8
      <3>2. Applied(n, y, r, z)
        BY <3>1, AppliedIs
      <3>3. QED BY <3>1, <3>2 DEF Applied
    <2>2. z.next \in Nat
      BY <2>1 DEF GoodConv, Convs
    <2>3. y.gen >= x.gen /\ y.next >= x.next
      BY DEF ReplayedTo
    <2>4. z.gen > x.gen /\ z.next >= x.next /\ z.gen >= x.gen
      BY <1>3, <1>4, <1>8, <2>1, <2>2, <2>3
    <2>5. k \in 1..k
      BY <1>1
    <2>6. \A i \in 1..k : j[i].gen <= z.gen /\ (j[i].gen > x.gen => j[i].cutoff < z.next)
      <3>1. SUFFICES ASSUME NEW i \in 1..k PROVE j[i].gen <= z.gen /\ (j[i].gen > x.gen => j[i].cutoff < z.next)
        OBVIOUS
      <3>2. CASE i = k
        BY <1>4, <2>1, <3>2
      <3>3. CASE i \in 1..(k - 1)
        <4>1. j[i].gen <= y.gen /\ (j[i].gen > x.gen => j[i].cutoff < y.next)
          BY <3>3 DEF ReplayedTo
        <4>2. PICK a \in Nat, b \in Nat, p \in Nat, q \in Nat, s \in Nat, t \in Nat :
                 a = j[i].gen /\ b = j[i].cutoff /\ p = y.gen /\ q = y.next /\ s = z.gen /\ t = z.next
          BY <1>2, <1>3, <1>4, <1>6, <2>1, <2>2
        <4>3. a <= p /\ p < s /\ q <= t /\ (j[i].gen > x.gen => b < q)
          BY <1>4, <1>8, <2>1, <4>1, <4>2
        <4>4. a <= s /\ (j[i].gen > x.gen => b < t)
          BY <4>3
        <4>5. QED BY <4>2, <4>4
      <3>4. QED BY <1>6, <3>2, <3>3
    <2>7. \E i \in 1..k : j[i].gen = z.gen /\ Ended(j[i].box, z.box)
      BY <2>1, <2>5
    <2>8. QED BY <2>1, <2>4, <2>6, <2>7 DEF ReplayedTo
  <1>9. QED BY <1>7, <1>8

LEMMA ReplayIs ==
  ASSUME NEW c, NEW n \in Nat, NEW x, GoodConv(n, x), NEW j, GoodJournal(n, j), journal = j
  PROVE  /\ GoodConv(n, OperatorsOf(c)!Replayed(x)) /\ ReplayedTo(j, x, Len(j), OperatorsOf(c)!Replayed(x))
  <1> DEFINE G == {y \in Convs : GoodConv(n, y)}
             F == [k \in 1..Len(j) |-> [y \in G |-> OperatorsOf(c)!Apply(y, j[k])]]
  <1>1. Len(j) \in Nat
    BY LenProperties DEF GoodJournal
  <1>2. \A y : y \in G <=> GoodConv(n, y)
    BY DEF GoodConv
  <1>3. ASSUME NEW k \in 1..Len(j), NEW y \in G PROVE OperatorsOf(c)!Apply(y, j[k]) \in G
    <2> HIDE DEF G, F
    <2>1. GoodConv(n, y)
      BY <1>2
    <2>2. PICK r : r = j[k]
      OBVIOUS
    <2>3. GoodRecord(n, r)
      BY <2>2 DEF GoodJournal
    <2>4. GoodConv(n, OperatorsOf(c)!Apply(y, r))
      <3>1. Applied(n, y, r, OperatorsOf(c)!Apply(y, r))
        BY <2>1, <2>3, AppliedIs
      <3>2. QED BY <2>1, <3>1 DEF Applied
    <2>5. QED BY <1>2, <2>2, <2>4
  <1>4. F \in [1..Len(j) -> [G -> G]] /\ x \in G
    BY <1>2, <1>3
  <1>5. \A k \in 1..Len(j), y \in G : F[k][y] = OperatorsOf(c)!Apply(y, j[k])
    OBVIOUS
  <1> DEFINE f == CHOOSE f : f = [k \in 0..Len(j) |-> IF k = 0 THEN x ELSE OperatorsOf(c)!Apply(f[k - 1], j[k])]
  <1>6. OperatorsOf(c)!Replayed(x) = f[Len(j)]
    BY DEF OperatorsOf!Replayed
  <1> HIDE DEF F, G
  <1>7. PICK g \in [0..Len(j) -> G] : After(g, Len(j), x, F)
    BY <1>1, <1>4, StepsDefine
  <1>8. \A k \in 1..Len(j) : g[k - 1] \in G
    BY <1>1, <1>7
  <1>9. g = [k \in 0..Len(j) |-> IF k = 0 THEN x ELSE OperatorsOf(c)!Apply(g[k - 1], j[k])]
    <2>1. \A k \in 0..Len(j) : (IF k = 0 THEN x ELSE F[k][g[k - 1]])
             = (IF k = 0 THEN x ELSE OperatorsOf(c)!Apply(g[k - 1], j[k]))
      BY <1>1, <1>5, <1>8
    <2>2. QED BY <1>7, <2>1 DEF After
  <1>10. f = [k \in 0..Len(j) |-> IF k = 0 THEN x ELSE OperatorsOf(c)!Apply(f[k - 1], j[k])]
    BY <1>9
  <1> HIDE DEF f
  <1> DEFINE H == {k \in 0..Len(j) : GoodConv(n, f[k]) /\ ReplayedTo(j, x, k, f[k])}
  <1>11. 0 \in H
    <2>1. f[0] = x
      BY <1>1, <1>10
    <2>2. x.next \in Nat /\ x.gen \in Nat
      BY DEF GoodConv, Convs
    <2>3. ReplayedTo(j, x, 0, x)
      BY <2>2 DEF ReplayedTo
    <2>4. QED BY <1>1, <2>1, <2>3
  <1>12. ASSUME NEW k \in 1..Len(j), k - 1 \in H PROVE k \in H
    <2>1. f[k] = OperatorsOf(c)!Apply(f[k - 1], j[k])
      BY <1>1, <1>10
    <2>2. GoodConv(n, f[k - 1]) /\ ReplayedTo(j, x, k - 1, f[k - 1])
      BY <1>12
    <2>3. GoodConv(n, f[k]) /\ ReplayedTo(j, x, k, f[k])
      BY <2>1, <2>2, ReplayOne
    <2>4. k \in 0..Len(j)
      BY <1>1
    <2>5. QED BY <2>3, <2>4
  <1>13. Len(j) \in H
    <2> HIDE DEF H
    <2>1. \A k \in 0..Len(j) : k \in H
      BY <1>1, <1>11, <1>12, UpTo
    <2>2. QED BY <1>1, <2>1
  <1>14. QED BY <1>6, <1>13

\* What the store finds when it is opened: a delivery that was under way is unclear.
Found(x) == IF x.box.state = "dispatching" THEN [x EXCEPT !.box.state = "unknown"] ELSE x

LEMMA FoundIs ==
  ASSUME NEW n, NEW x, GoodConv(n, x), NEW y, y = Found(x)
  PROVE  /\ GoodConv(n, y) /\ y.gen = x.gen /\ y.next = x.next /\ y.rows = x.rows /\ y.box.id = x.box.id
         /\ y.box.send = x.box.send /\ y.box.attempts = x.box.attempts /\ y.box.erased = x.box.erased
  <1>1. CASE x.box.state = "dispatching"
    <2>1. y = [x EXCEPT !.box.state = "unknown"]
      BY <1>1 DEF Found
    <2>2. x \in Convs /\ x.box \in Boxes /\ GoodBox(n, x.box) /\ x.box.send > 0
      BY <1>1 DEF GoodConv, Convs, GoodBox
    <2> DEFINE box == [x.box EXCEPT !.state = "unknown"]
    <2>3. "unknown" \in DeliveryStates
      BY DEF DeliveryStates
    <2>4. /\ box \in Boxes /\ box.id = x.box.id /\ box.send = x.box.send /\ box.attempts = x.box.attempts
          /\ box.erased = x.box.erased /\ box.state = "unknown"
      BY <2>2, <2>3 DEF Boxes
    <2>5. y = [x EXCEPT !.box = box]
      BY <2>1
    <2> HIDE DEF box
    <2>6. y \in Convs /\ y.gen = x.gen /\ y.next = x.next /\ y.rows = x.rows /\ y.box = box
      BY <2>2, <2>4, <2>5 DEF Convs
    <2>7. GoodBox(n, box)
      BY <1>1, <2>2, <2>4 DEF GoodBox
    <2>8. QED BY <2>4, <2>6, <2>7 DEF GoodConv
  <1>2. CASE x.box.state # "dispatching"
    BY <1>2 DEF Found
  <1>3. QED BY <1>1, <1>2

LEMMA OpenKeeps ==
  ASSUME NEW c, Bounds(c), DeskInv(c), OperatorsOf(c)!Open
  PROVE  DeskInv(c)'
  <1> PICK x, j, n : x = main /\ j = journal /\ n = things
    OBVIOUS
  <1> PICK z : z = OperatorsOf(c)!Replayed(x)
    OBVIOUS
  <1> PICK y : y = Found(z)
    OBVIOUS
  <1>1. /\ ~up /\ z.gen = Top(j) /\ main' = y /\ up' = TRUE /\ journal' = j /\ copies' = copies /\ failed' = failed
        /\ page' = page /\ things' = things /\ forked' = forked
    BY TopIs DEF OperatorsOf!Open, Found
  <1>2. DeskTypes(c) /\ n \in Nat /\ GoodConv(n, x) /\ GoodJournal(n, j)
    BY DEF DeskInv, DeskTypes, Bounds
  <1>3. GoodConv(n, z) /\ ReplayedTo(j, x, Len(j), z)
    BY <1>2, ReplayIs
  <1>4. /\ GoodConv(n, y) /\ y.gen = z.gen /\ y.next = z.next /\ y.rows = z.rows /\ y.box.id = z.box.id
        /\ y.box.send = z.box.send /\ y.box.attempts = z.box.attempts /\ y.box.erased = z.box.erased
    BY <1>3, FoundIs
  <1>5. /\ x.gen \in Nat /\ z.gen \in Nat /\ x.next \in Nat /\ z.next \in Nat /\ Len(j) \in Nat
        /\ \A k \in 1..Len(j) : j[k].gen \in Nat /\ j[k].cutoff \in Nat
    BY <1>2, <1>3, LenProperties DEF GoodConv, Convs, GoodJournal, GoodRecord, Records
  <1>6. DeskTypes(c)'
    BY <1>1, <1>2, <1>4 DEF DeskTypes
  <1>7. InOneGeneration'
    <2>1. PICK b \in [Nat -> Nat] : /\ Born(b, x) /\ (\A w \in copies.main : Born(b, w))
                                    /\ Died(b, j) /\ \A i \in copies.journal : Died(b, i)
      BY DEF DeskInv, InOneGeneration
    <2>2. Born(b, z)
      <3>1. CASE z = x
        BY <2>1, <3>1
      <3>2. CASE z # x
        <4>1. z.rows = {} /\ (z.box.erased \/ z.box.send = 0)
          BY <1>3, <3>2 DEF ReplayedTo, Ended
        <4>2. QED BY <4>1 DEF Born
      <3>3. QED BY <3>1, <3>2
    <2>3. Born(b, y)
      BY <1>4, <2>2 DEF Born
    <2>4. QED BY <1>1, <2>1, <2>3 DEF InOneGeneration
  <1>8. ~forked => Covered(y, j)
    <2>1. SUFFICES ASSUME ~forked, NEW k \in 1..Len(j) PROVE j[k].cutoff < z.next
      BY <1>1, <1>4, <1>5 DEF Covered
    <2>2. CASE j[k].gen > x.gen
      BY <1>3, <2>2 DEF ReplayedTo
    <2>3. CASE ~(j[k].gen > x.gen)
      <3>1. j[k].gen <= x.gen
        BY <1>5, <2>3
      <3>2. j[k].cutoff < x.next
        BY <2>1, <3>1 DEF DeskInv, Covered
      <3>3. x.next <= z.next
        BY <1>3, <1>5 DEF ReplayedTo
      <3>4. QED BY <1>5, <3>2, <3>3
    <2>4. QED BY <2>2, <2>3
  <1>9. ASSUME NEW o \in c.Operator PROVE Past(page[o], y, j)
    <2> PICK p : p = page[o]
      OBVIOUS
    <2>1. Past(p, x, j) /\ p.gen \in Nat
      BY <1>2 DEF DeskInv, DeskTypes, GoodPage, Convs
    <2>2. p.gen <= x.gen /\ x.gen <= z.gen
      BY <1>3, <1>5, <2>1 DEF ReplayedTo, Past
    <2>3. \A k \in 1..Len(j) : j[k].gen > z.gen => Before(p.box, j[k].box)
      <3>1. SUFFICES ASSUME NEW k \in 1..Len(j), j[k].gen > z.gen PROVE j[k].gen > x.gen
        BY <2>1 DEF Past
      <3>2. QED BY <1>5, <2>2, <3>1
    <2>4. CASE z = x
      <3>1. Before(p.box, y.box)
        BY <1>4, <2>1, <2>4 DEF Past, Before
      <3>2. p.gen <= y.gen /\ (p.gen = y.gen => p.rows \subseteq y.rows)
        BY <1>4, <2>1, <2>4 DEF Past
      <3>3. QED BY <1>4, <2>3, <3>1, <3>2 DEF Past
    <2>5. CASE z # x
      <3>1. z.gen > x.gen
        BY <1>3, <2>5 DEF ReplayedTo
      <3>2. PICK i \in 1..Len(j) : j[i].gen = z.gen /\ Ended(j[i].box, z.box)
        BY <1>3, <2>5 DEF ReplayedTo
      <3>3. Before(p.box, z.box)
        BY <2>1, <3>1, <3>2, EndedBefore DEF Past
      <3>4. Before(p.box, y.box)
        BY <1>4, <3>3 DEF Before
      <3>5. p.gen <= z.gen /\ p.gen # z.gen
        BY <1>5, <2>1, <2>2, <3>1
      <3>6. QED BY <1>4, <2>3, <3>4, <3>5 DEF Past
    <2>6. QED BY <2>4, <2>5
  <1>10. \A w \in copies.main : ~forked => Covered(w, j)
    BY DEF DeskInv
  <1>11. QED BY <1>1, <1>4, <1>6, <1>7, <1>8, <1>9, <1>10 DEF DeskInv

-----------------------------------------------------------------------------

LEMMA DeskBegins ==
  ASSUME NEW c, Bounds(c)
  PROVE  OperatorsOf(c)!Init => DeskInv(c)
  <1> SUFFICES ASSUME OperatorsOf(c)!Init PROVE DeskInv(c)
    OBVIOUS
  <1> PICK none : none = OperatorsOf(c)!NoBox
    OBVIOUS
  <1>1. /\ main = [gen |-> 1, active |-> TRUE, next |-> 1, rows |-> {}, box |-> none]
        /\ journal = <<>> /\ copies = [main |-> {}, journal |-> {}] /\ up = TRUE /\ failed = FALSE
        /\ page = [o \in c.Operator |-> OperatorsOf(c)!NoPage] /\ things = 0 /\ forked = FALSE
    BY DEF OperatorsOf!Init, OperatorsOf!New
  <1>2. /\ none \in Boxes /\ GoodBox(0, none) /\ none.id = 0 /\ none.send = 0
    BY DEF OperatorsOf!NoBox, GoodBox, Boxes, DeliveryStates
  <1>3. /\ OperatorsOf(c)!NoPage \in Convs /\ OperatorsOf(c)!NoPage.gen = 0 /\ OperatorsOf(c)!NoPage.rows = {}
        /\ OperatorsOf(c)!NoPage.box.id = 0
    BY DEF OperatorsOf!NoPage, OperatorsOf!New, OperatorsOf!NoBox, Convs, Boxes, DeliveryStates
  <1>4. GoodConv(0, main) /\ main.gen = 1 /\ main.rows = {} /\ main.box = none
    BY <1>1, <1>2 DEF GoodConv, Convs
  <1>5. GoodJournal(0, journal) /\ Len(journal) = 0 /\ Top(journal) = 1
    BY <1>1, EmptySeq DEF GoodJournal, Top
  <1>6. GoodPage(0, OperatorsOf(c)!NoPage)
    BY <1>3 DEF GoodPage
  <1>8. DeskTypes(c)
    <2>1. things \in 0..c.MaxThings
      BY <1>1 DEF Bounds
    <2>2. page \in [c.Operator -> Convs] /\ \A o \in c.Operator : GoodPage(things, page[o])
      BY <1>1, <1>6 DEF GoodPage
    <2>3. GoodConv(things, main) /\ GoodJournal(things, journal)
      BY <1>1, <1>4, <1>5
    <2>4. QED BY <1>1, <2>1, <2>2, <2>3 DEF DeskTypes
  <1>9. InOneGeneration
    <2> DEFINE b == [r \in Nat |-> 0]
    <2>1. b \in [Nat -> Nat]
      OBVIOUS
    <2>2. Born(b, main) /\ Died(b, journal)
      BY <1>2, <1>4, <1>5 DEF Born, Died
    <2>3. QED BY <1>1, <2>1, <2>2 DEF InOneGeneration
  <1>10. Covered(main, journal)
    BY <1>4, <1>5 DEF Covered
  <1>11. \A o \in c.Operator : Past(page[o], main, journal)
    BY <1>1, <1>3, <1>4, <1>5 DEF Past, Before
  <1>12. QED BY <1>1, <1>4, <1>5, <1>8, <1>9, <1>10, <1>11 DEF DeskInv

LEMMA DeskSteps ==
  ASSUME NEW c, Bounds(c)
  PROVE  DeskInv(c) /\ [OperatorsOf(c)!Next]_(OperatorsOf(c)!vars) => DeskInv(c)'
  <1> SUFFICES ASSUME DeskInv(c), [OperatorsOf(c)!Next]_(OperatorsOf(c)!vars) PROVE DeskInv(c)'
    OBVIOUS
  <1>1. CASE UNCHANGED OperatorsOf(c)!vars
    BY <1>1 DEF OperatorsOf!vars, DeskInv, DeskTypes, InOneGeneration
  <1>2. CASE \E o \in c.Operator : OperatorsOf(c)!Decision(o)
    BY <1>2, LoadKeeps, ResolveGoesOn, EraseKeeps, ResumeGoesOn DEF OperatorsOf!Decision
  <1>3. CASE OperatorsOf(c)!Grow \/ OperatorsOf(c)!Plan \/ OperatorsOf(c)!Dispatch \/ OperatorsOf(c)!Result
    BY <1>3, GrowGoesOn, PlanGoesOn, DispatchGoesOn, ResultGoesOn
  <1>4. CASE OperatorsOf(c)!Stop \/ OperatorsOf(c)!BackUp \/ OperatorsOf(c)!Restore \/ OperatorsOf(c)!Open
    BY <1>4, StopKeeps, BackUpKeeps, RestoreKeeps, OpenKeeps
  <1>5. QED BY <1>1, <1>2, <1>3, <1>4 DEF OperatorsOf!Next

LEMMA SeenIsSo ==
  ASSUME NEW c, Bounds(c), DeskInv(c)
  PROVE  OperatorsOf(c)!DecidedAsSeen
  <1>1. DeskTypes(c) /\ c.MaxThings \in Nat /\ things \in 0..c.MaxThings /\ GoodConv(things, main)
    BY DEF DeskInv, DeskTypes, Bounds
  <1>2. OperatorsOf(c)!TypeOK
    <2>1. 1..things \subseteq 1..c.MaxThings
      BY <1>1
    <2>2. /\ main.gen \in Nat /\ main.active \in BOOLEAN /\ main.next \in Nat /\ main.rows \subseteq 1..things
          /\ main.box.state \in DeliveryStates
      BY <1>1 DEF GoodConv, Convs, Boxes
    <2>3. up \in BOOLEAN /\ failed \in BOOLEAN /\ forked \in BOOLEAN
      BY <1>1 DEF DeskTypes
    <2>4. main.rows \subseteq 1..c.MaxThings
      BY <2>1, <2>2
    <2>5. QED BY <1>1, <2>2, <2>3, <2>4 DEF OperatorsOf!TypeOK, OperatorsOf!BoxStates, DeliveryStates
  <1>3. ASSUME NEW o \in c.Operator PROVE Past(page[o], main, journal) /\ GoodPage(things, page[o])
    BY <1>1 DEF DeskInv, DeskTypes
  <1>4. ASSUME NEW o \in c.Operator, OperatorsOf(c)!MayResolve(o) PROVE page[o].box.send = main.box.send
    <2>1. /\ main.box.state \in {"unknown", "rejected"} /\ page[o].box.id = main.box.id
          /\ page[o].box.attempts = main.box.attempts
      BY <1>4 DEF OperatorsOf!MayResolve, OperatorsOf!Shown
    <2>2. main.box.id > 0
      BY <1>1, <2>1 DEF GoodConv, GoodBox
    <2>3. QED BY <1>3, <2>1, <2>2 DEF Past, Before
  <1>5. ASSUME NEW o \in c.Operator, OperatorsOf(c)!MayErase(o) PROVE page[o].rows = main.rows
    <2> PICK p, x : p = page[o] /\ x = main
      OBVIOUS
    <2>1. p.gen = x.gen /\ Cardinality(p.rows) = Cardinality(x.rows)
      BY <1>5, SizeIs DEF OperatorsOf!MayErase, OperatorsOf!Token
    <2>2. p.rows \subseteq x.rows
      BY <1>3, <2>1 DEF Past
    <2>3. IsFiniteSet(x.rows)
      <3>1. x.rows \subseteq 1..things /\ things \in Nat
        BY <1>1 DEF GoodConv
      <3>2. IsFiniteSet(1..things)
        BY <3>1, FS_Interval
      <3>3. QED BY <3>1, <3>2, FS_Subset
    <2>4. QED BY <2>1, <2>2, <2>3, FS_Subset
  <1>6. QED BY <1>2, <1>4, <1>5 DEF OperatorsOf!DecidedAsSeen

LEMMA GoneIsGone ==
  ASSUME NEW c, Bounds(c), DeskInv(c)
  PROVE  OperatorsOf(c)!ErasedStaysErased
  <1> SUFFICES ASSUME OperatorsOf(c)!Readable, NEW k \in DOMAIN journal
               PROVE  journal[k].rows \cap main.rows = {} /\ (journal[k].cutoff < main.next \/ forked)
    BY DEF OperatorsOf!ErasedStaysErased
  <1>1. DeskTypes(c) /\ things \in Nat /\ GoodConv(things, main) /\ GoodJournal(things, journal)
    BY DEF DeskInv, DeskTypes, Bounds
  <1>2. main.gen = Top(journal)
    BY TopIs DEF DeskInv, OperatorsOf!Readable, OperatorsOf!Serves, OperatorsOf!Inspectable
  <1>3. k \in 1..Len(journal)
    BY <1>1, LenProperties DEF GoodJournal
  <1>4. journal[k].gen \in Nat /\ journal[k].gen <= main.gen /\ main.gen \in Nat
    BY <1>1, <1>2, <1>3, TopIsLast DEF GoodConv, Convs
  <1>5. PICK b \in [Nat -> Nat] : Born(b, main) /\ Died(b, journal)
    BY DEF DeskInv, InOneGeneration
  <1>6. journal[k].rows \cap main.rows = {}
    <2>1. SUFFICES ASSUME NEW r \in main.rows, r \in journal[k].rows PROVE FALSE
      OBVIOUS
    <2>2. b[r] = main.gen /\ b[r] + 1 = journal[k].gen
      BY <1>3, <1>5, <2>1 DEF Born, Died
    <2>3. PICK g \in Nat : g = main.gen
      BY <1>4
    <2>4. ~(g + 1 <= g)
      OBVIOUS
    <2>5. QED BY <1>4, <2>2, <2>3, <2>4
  <1>7. journal[k].cutoff < main.next \/ forked
    BY <1>3, <1>4 DEF DeskInv, Covered
  <1>8. QED BY <1>6, <1>7

\* What an operator decides is decided about what the page showed
\* (expected_attempts, preview_token), and what was erased stays erased, whatever
\* backup the database comes from (runtime_v2/store.py, privacy.py).
THEOREM DecisionsHeeded ==
  ASSUME NEW c, c.MaxThings \in Nat
  PROVE  OperatorsOf(c)!Spec => [](OperatorsOf(c)!DecidedAsSeen /\ OperatorsOf(c)!ErasedStaysErased)
  <1>1. Bounds(c)
    BY DEF Bounds
  <1>2. QED BY <1>1, DeskBegins, DeskSteps, SeenIsSo, GoneIsGone, PTL DEF OperatorsOf!Spec

\* On the instances that are checked.
THEOREM OperatorsAreHeeded == MCInit /\ [][MCNext]_MCvars => []OperatorsHeeded
  <1> DEFINE Inv == (part = "decisions" => DeskInv(Desk)) /\ (part = "files" => DeskInv(Files))
  <1>1. Bounds(Desk) /\ Bounds(Files)
    BY DEF Bounds, Desk, Files
  <1>2. MCInit => Inv
    BY <1>1, DeskBegins DEF MCInit
  <1>3. Inv /\ [MCNext]_MCvars => Inv'
    <2> SUFFICES ASSUME Inv, [MCNext]_MCvars PROVE Inv'
      OBVIOUS
    <2>1. part' = "decisions" => part = "decisions" /\ (OperatorsOf(Desk)!Next \/ UNCHANGED OperatorsOf(Desk)!vars)
      BY DEF MCNext, MCvars, Of, Operators, operatorsOnly, OperatorsOf!vars
    <2>2. part' = "files" => part = "files" /\ (OperatorsOf(Files)!Next \/ UNCHANGED OperatorsOf(Files)!vars)
      BY DEF MCNext, MCvars, Of, Operators, operatorsOnly, OperatorsOf!vars
    <2>3. QED BY <1>1, <2>1, <2>2, DeskSteps
  <1>4. Inv => OperatorsHeeded
    BY <1>1, SeenIsSo, GoneIsGone DEF OperatorsHeeded
  <1>5. QED BY <1>2, <1>3, <1>4, PTL

-----------------------------------------------------------------------------
(* What is remembered of a member *)

MemberNames(c) == MembersOf(c)!Names
Statuses == {"new", "asked_once", "ready"}
Memberships == {"active", "left", "removed"}

\* Who is at work on a reply.
AtWork == {"cleaning", "tidying", "generating", "naming", "answered", "asking", "noting", "sending", "bonding",
           "addressing"}

RowsAgree ==
  /\ member.name = due.name \/ "name" \in stale
  /\ bond.facts = due.facts \/ "facts" \in stale
  /\ bond.affinity = due.affinity \/ "affinity" \in stale

\* The card that is told last has been stored, or its notice is being handled.
CardsAgree ==
  /\ platform.card = due.card
  /\ member.card = due.card \/ "card" \in stale \/ \E n \in notices : n.kind = "card" /\ n.card = due.card

\* What the last news says of the membership; a list says nothing of one that is not known.
Says(n) ==
  /\ n.kind \in {"join", "joined", "bare", "card", "listed"} => due.membership = "active"
  /\ n.kind \in {"leave", "unknown"} => due.membership = "left"
  /\ n.kind = "group" => due.membership = "removed"
  /\ n.kind = "missing" => due.membership = "left" \/ ~member.known \/ "membership" \in stale

Waits(c, nr) == \E r \in c.Replies : talk[r].at = "waiting" /\ talk[r].nr = nr

\* The last news is being handled, or the row says what it said.
NewsAgree(c) ==
  /\ \A n \in notices \cup listing : n.nr <= told /\ (n.nr = told => Says(n))
  /\ \A n \in listing : n.kind \in {"listed", "missing"}
  /\ \A n \in notices : n.kind # "missing"
  /\ \A m, n \in listing : m = n
  /\ \A r \in c.Replies : talk[r].at = "waiting" => talk[r].nr <= told /\ (talk[r].nr = told => due.membership = "active")
  /\ \A n \in listing : n.nr = told => ~Waits(c, told) /\ \A m \in notices : m.nr # told
  /\ \/ "membership" \in stale \/ (member.known => member.membership = due.membership)
     \/ Waits(c, told) \/ \E n \in notices \cup listing : n.nr = told

\* Nobody has read a row that is not there.
KnownWhenRead(c) ==
  \/ member.known
  \/ sheet = c.None /\ \A r \in c.Replies : talk[r].at \in {"away", "waiting"} /\ writeback[r].at = "none"

\* One reply at a time asks, and only a member that was not asked.
AsksAgree(c) ==
  /\ \A r \in c.Replies : talk[r].at \in AtWork => holder = r
  /\ asked <= 1 \/ "status" \in stale
  /\ asked = 0 \/ member.status # "new" \/ "status" \in stale
  /\ \A r \in c.Replies : talk[r].at \in {"asking", "noting"} => asked = 0 \/ "status" \in stale

MemberInv(c) ==
  /\ MembersOf(c)!TypeOK /\ RowsAgree /\ CardsAgree /\ NewsAgree(c) /\ KnownWhenRead(c) /\ AsksAgree(c)

Cast(c) == c.MaxNews \in Nat /\ c.None \notin c.Replies

-----------------------------------------------------------------------------

\* What a step leaves as it is, and what it may do.
LEMMA NewsStay ==
  ASSUME NEW c, NewsAgree(c), told' = told, notices' = notices, listing' = listing,
         due'.membership = due.membership, member'.known = member.known,
         "membership" \in stale => "membership" \in stale',
         member'.membership = member.membership \/ "membership" \in stale',
         \A r \in c.Replies : talk[r].at = "waiting" \/ talk'[r].at = "waiting" => talk'[r] = talk[r]
  PROVE  NewsAgree(c)'
  <1>1. Waits(c, told)' <=> Waits(c, told)
    BY DEF Waits
  <1>2. \A n : Says(n) => Says(n)'
    BY DEF Says
  <1>3. QED BY <1>1, <1>2 DEF NewsAgree

LEMMA CardsStay ==
  ASSUME CardsAgree, platform' = platform, due'.card = due.card, notices' = notices,
         "card" \in stale => "card" \in stale',
         member'.card \in {member.card, due.card} \/ "card" \in stale'
  PROVE  CardsAgree'
  BY DEF CardsAgree

LEMMA AsksStay ==
  ASSUME NEW c, AsksAgree(c), asked' = asked, "status" \in stale => "status" \in stale',
         member'.status = member.status \/ member'.status # "new" \/ "status" \in stale',
         \A r \in c.Replies : talk'[r].at \in AtWork => holder' = r,
         \A r \in c.Replies : talk'[r].at \in {"asking", "noting"} =>
           talk[r].at \in {"asking", "noting"} \/ member.status = "new"
  PROVE  AsksAgree(c)'
  BY DEF AsksAgree

LEMMA RowIs ==
  ASSUME NEW c, NEW row, row \in MembersOf(c)!Row
  PROVE  /\ row.known \in BOOLEAN /\ row.name \in MemberNames(c) /\ row.status \in Statuses /\ row.card \in Nat
         /\ row.membership \in Memberships
         /\ DOMAIN row = {"known", "name", "status", "card", "membership"}
  BY DEF MembersOf!Row, MemberNames, Statuses, Memberships

LEMMA BondIs ==
  ASSUME NEW c, NEW b, b \in MembersOf(c)!Bond
  PROVE  b.facts \in SUBSET MembersOf(c)!Facts /\ b.affinity \in Nat /\ DOMAIN b = {"facts", "affinity"}
  BY DEF MembersOf!Bond

LEMMA CopyIs ==
  ASSUME NEW c, NEW p, p \in MembersOf(c)!Copy
  PROVE  p.row \in MembersOf(c)!Row /\ p.bond \in MembersOf(c)!Bond
  BY DEF MembersOf!Copy

\* What is saved, field by field.
Whole(row) == [row EXCEPT !.known = TRUE]
Present(row) == [row EXCEPT !.known = TRUE, !.membership = "active"]
Carded(row, d) == [[row EXCEPT !.card = d, !.membership = "active"] EXCEPT !.known = TRUE]
Placed(row, m) == [[row EXCEPT !.membership = m] EXCEPT !.known = TRUE]
Marked(row, m) == [row EXCEPT !.membership = m]
Renamed(row, n) == [[row EXCEPT !.name = n] EXCEPT !.known = TRUE]
Named(row, d, n) == [[[row EXCEPT !.card = d] EXCEPT !.name = n, !.status = "ready"] EXCEPT !.known = TRUE]
Questioned(row, d) == [[[row EXCEPT !.card = d] EXCEPT !.status = "asked_once"] EXCEPT !.known = TRUE]

Rows(N, S, M) == [known : BOOLEAN, name : N, status : S, card : Nat, membership : M]
RowsOf(c) == Rows(MemberNames(c), Statuses, Memberships)

LEMMA RowsOfIs == ASSUME NEW c PROVE MembersOf(c)!Row = RowsOf(c)
  BY DEF MembersOf!Row, RowsOf, Rows, MemberNames, Statuses, Memberships

Reads(c, y, known, name, status, card, membership) ==
  /\ y \in MembersOf(c)!Row /\ y.known = known /\ y.name = name /\ y.status = status /\ y.card = card
  /\ y.membership = membership

LEMMA WholeIs ==
  ASSUME NEW c, NEW row, row \in MembersOf(c)!Row
  PROVE  Reads(c, Whole(row), TRUE, row.name, row.status, row.card, row.membership)
  <1> PICK N, S, M : N = MemberNames(c) /\ S = Statuses /\ M = Memberships
    OBVIOUS
  <1>1. row \in Rows(N, S, M) /\ "active" \in M /\ "ready" \in S /\ "asked_once" \in S
    BY RowsOfIs DEF RowsOf, Statuses, Memberships
  <1> PICK y : y = Whole(row)
    OBVIOUS
  <1>2. /\ y \in Rows(N, S, M) /\ y.known = TRUE /\ y.name = row.name /\ y.status = row.status /\ y.card = row.card
        /\ y.membership = row.membership
    BY <1>1 DEF Whole, Rows
  <1>3. QED BY <1>2, RowsOfIs DEF RowsOf, Reads

LEMMA PresentIs ==
  ASSUME NEW c, NEW row, row \in MembersOf(c)!Row
  PROVE  Reads(c, Present(row), TRUE, row.name, row.status, row.card, "active")
  <1> PICK N, S, M : N = MemberNames(c) /\ S = Statuses /\ M = Memberships
    OBVIOUS
  <1>1. row \in Rows(N, S, M) /\ "active" \in M /\ "ready" \in S /\ "asked_once" \in S
    BY RowsOfIs DEF RowsOf, Statuses, Memberships
  <1> PICK y : y = Present(row)
    OBVIOUS
  <1>2. /\ y \in Rows(N, S, M) /\ y.known = TRUE /\ y.name = row.name /\ y.status = row.status /\ y.card = row.card
        /\ y.membership = "active"
    BY <1>1 DEF Present, Rows
  <1>3. QED BY <1>2, RowsOfIs DEF RowsOf, Reads

LEMMA CardedIs ==
  ASSUME NEW c, NEW row, row \in MembersOf(c)!Row, NEW d, d \in Nat
  PROVE  Reads(c, Carded(row, d), TRUE, row.name, row.status, d, "active")
  <1> PICK N, S, M : N = MemberNames(c) /\ S = Statuses /\ M = Memberships
    OBVIOUS
  <1>1. row \in Rows(N, S, M) /\ "active" \in M /\ "ready" \in S /\ "asked_once" \in S
    BY RowsOfIs DEF RowsOf, Statuses, Memberships
  <1> PICK y : y = Carded(row, d)
    OBVIOUS
  <1>2. /\ y \in Rows(N, S, M) /\ y.known = TRUE /\ y.name = row.name /\ y.status = row.status /\ y.card = d
        /\ y.membership = "active"
    BY <1>1 DEF Carded, Rows
  <1>3. QED BY <1>2, RowsOfIs DEF RowsOf, Reads

LEMMA PlacedIs ==
  ASSUME NEW c, NEW row, row \in MembersOf(c)!Row, NEW m, m \in Memberships
  PROVE  Reads(c, Placed(row, m), TRUE, row.name, row.status, row.card, m)
  <1> PICK N, S, M : N = MemberNames(c) /\ S = Statuses /\ M = Memberships
    OBVIOUS
  <1>1. row \in Rows(N, S, M) /\ "active" \in M /\ "ready" \in S /\ "asked_once" \in S
    BY RowsOfIs DEF RowsOf, Statuses, Memberships
  <1> PICK y : y = Placed(row, m)
    OBVIOUS
  <1>2. /\ y \in Rows(N, S, M) /\ y.known = TRUE /\ y.name = row.name /\ y.status = row.status /\ y.card = row.card
        /\ y.membership = m
    BY <1>1 DEF Placed, Rows
  <1>3. QED BY <1>2, RowsOfIs DEF RowsOf, Reads

LEMMA MarkedIs ==
  ASSUME NEW c, NEW row, row \in MembersOf(c)!Row, NEW m, m \in Memberships
  PROVE  Reads(c, Marked(row, m), row.known, row.name, row.status, row.card, m)
  <1> PICK N, S, M : N = MemberNames(c) /\ S = Statuses /\ M = Memberships
    OBVIOUS
  <1>1. row \in Rows(N, S, M) /\ "active" \in M /\ "ready" \in S /\ "asked_once" \in S
    BY RowsOfIs DEF RowsOf, Statuses, Memberships
  <1> PICK y : y = Marked(row, m)
    OBVIOUS
  <1>2. /\ y \in Rows(N, S, M) /\ y.known = row.known /\ y.name = row.name /\ y.status = row.status /\ y.card = row.card
        /\ y.membership = m
    BY <1>1 DEF Marked, Rows
  <1>3. QED BY <1>2, RowsOfIs DEF RowsOf, Reads

LEMMA RenamedIs ==
  ASSUME NEW c, NEW row, row \in MembersOf(c)!Row, NEW n, n \in MemberNames(c)
  PROVE  Reads(c, Renamed(row, n), TRUE, n, row.status, row.card, row.membership)
  <1> PICK N, S, M : N = MemberNames(c) /\ S = Statuses /\ M = Memberships
    OBVIOUS
  <1>1. row \in Rows(N, S, M) /\ "active" \in M /\ "ready" \in S /\ "asked_once" \in S
    BY RowsOfIs DEF RowsOf, Statuses, Memberships
  <1> PICK y : y = Renamed(row, n)
    OBVIOUS
  <1>2. /\ y \in Rows(N, S, M) /\ y.known = TRUE /\ y.name = n /\ y.status = row.status /\ y.card = row.card
        /\ y.membership = row.membership
    BY <1>1 DEF Renamed, Rows
  <1>3. QED BY <1>2, RowsOfIs DEF RowsOf, Reads

LEMMA NamedIs ==
  ASSUME NEW c, NEW row, row \in MembersOf(c)!Row, NEW d, d \in Nat, NEW n, n \in MemberNames(c)
  PROVE  Reads(c, Named(row, d, n), TRUE, n, "ready", d, row.membership)
  <1> PICK N, S, M : N = MemberNames(c) /\ S = Statuses /\ M = Memberships
    OBVIOUS
  <1>1. row \in Rows(N, S, M) /\ "active" \in M /\ "ready" \in S /\ "asked_once" \in S
    BY RowsOfIs DEF RowsOf, Statuses, Memberships
  <1> PICK y : y = Named(row, d, n)
    OBVIOUS
  <1>2. /\ y \in Rows(N, S, M) /\ y.known = TRUE /\ y.name = n /\ y.status = "ready" /\ y.card = d
        /\ y.membership = row.membership
    BY <1>1 DEF Named, Rows
  <1>3. QED BY <1>2, RowsOfIs DEF RowsOf, Reads

LEMMA QuestionedIs ==
  ASSUME NEW c, NEW row, row \in MembersOf(c)!Row, NEW d, d \in Nat
  PROVE  Reads(c, Questioned(row, d), TRUE, row.name, "asked_once", d, row.membership)
  <1> PICK N, S, M : N = MemberNames(c) /\ S = Statuses /\ M = Memberships
    OBVIOUS
  <1>1. row \in Rows(N, S, M) /\ "active" \in M /\ "ready" \in S /\ "asked_once" \in S
    BY RowsOfIs DEF RowsOf, Statuses, Memberships
  <1> PICK y : y = Questioned(row, d)
    OBVIOUS
  <1>2. /\ y \in Rows(N, S, M) /\ y.known = TRUE /\ y.name = row.name /\ y.status = "asked_once" /\ y.card = d
        /\ y.membership = row.membership
    BY <1>1 DEF Questioned, Rows
  <1>3. QED BY <1>2, RowsOfIs DEF RowsOf, Reads

LEMMA DifferingIs ==
  ASSUME NEW c, member \in MembersOf(c)!Row, bond \in MembersOf(c)!Bond, NEW p, p \in MembersOf(c)!Copy,
         NEW D, D = MembersOf(c)!Differing(p)
  PROVE  /\ D \subseteq MembersOf(c)!Fields
         /\ p.row.name = member.name \/ "name" \in D
         /\ p.row.status = member.status \/ "status" \in D
         /\ p.row.card = member.card \/ "card" \in D
         /\ p.row.membership = member.membership \/ "membership" \in D
         /\ p.bond.facts = bond.facts \/ "facts" \in D
         /\ p.bond.affinity = bond.affinity \/ "affinity" \in D
  <1>1. DOMAIN member = {"known", "name", "status", "card", "membership"} /\ DOMAIN bond = {"facts", "affinity"}
    BY RowIs, BondIs
  <1>2. D = {f \in DOMAIN member \cap MembersOf(c)!Fields : p.row[f] # member[f]}
              \cup {f \in DOMAIN bond : p.bond[f] # bond[f]}
    BY DEF MembersOf!Differing
  <1>3. \A f \in {"name", "status", "card", "membership"} : f \in DOMAIN member \cap MembersOf(c)!Fields
    BY <1>1 DEF MembersOf!Fields
  <1>4. D \subseteq MembersOf(c)!Fields
    BY <1>1, <1>2 DEF MembersOf!Fields
  <1>5. /\ p.row.name = member.name \/ "name" \in D
        /\ p.row.status = member.status \/ "status" \in D
    BY <1>2, <1>3
  <1>6. /\ p.row.card = member.card \/ "card" \in D
        /\ p.row.membership = member.membership \/ "membership" \in D
    BY <1>2, <1>3
  <1>7. /\ p.bond.facts = bond.facts \/ "facts" \in D
        /\ p.bond.affinity = bond.affinity \/ "affinity" \in D
    BY <1>1, <1>2
  <1>8. QED BY <1>4, <1>5, <1>6, <1>7

\* The row as a copy has it, and which fields are older than what was saved since.
CopyWritten(c, p, facts) ==
  /\ member' \in MembersOf(c)!Row /\ member'.known
  /\ member'.name = member.name \/ "name" \in stale'
  /\ member'.status = member.status \/ "status" \in stale'
  /\ member'.card = member.card \/ "card" \in stale'
  /\ member'.membership = member.membership \/ "membership" \in stale'
  /\ bond' \in MembersOf(c)!Bond /\ bond'.facts = facts
  /\ p.bond.facts = bond.facts \/ "facts" \in stale'
  /\ bond'.affinity = bond.affinity \/ "affinity" \in stale'
  /\ stale \subseteq stale' /\ stale' \subseteq MembersOf(c)!Fields

LEMMA CopySaved ==
  ASSUME NEW c, MembersOf(c)!TypeOK, NEW p, p \in MembersOf(c)!Copy, NEW facts, facts \in SUBSET MembersOf(c)!Facts,
         MembersOf(c)!SaveCopy(p, facts)
  PROVE  CopyWritten(c, p, facts)
  <1>1. member \in MembersOf(c)!Row /\ bond \in MembersOf(c)!Bond /\ stale \subseteq MembersOf(c)!Fields
    BY DEF MembersOf!TypeOK
  <1>2. p.row \in MembersOf(c)!Row /\ p.bond \in MembersOf(c)!Bond
    BY CopyIs
  <1>3. /\ member' = Whole(p.row) /\ bond' = [p.bond EXCEPT !.facts = facts]
        /\ stale' = stale \cup MembersOf(c)!Differing(p)
    BY DEF MembersOf!SaveCopy, MembersOf!Save, Whole
  <1>4. /\ member' \in MembersOf(c)!Row /\ member'.known /\ member'.name = p.row.name
        /\ member'.status = p.row.status /\ member'.card = p.row.card /\ member'.membership = p.row.membership
    BY <1>2, <1>3, WholeIs DEF Reads
  <1>5. bond' \in MembersOf(c)!Bond /\ bond'.facts = facts /\ bond'.affinity = p.bond.affinity
    BY <1>2, <1>3 DEF MembersOf!Bond
  <1>6. PICK D : D = MembersOf(c)!Differing(p)
    OBVIOUS
  <1>7. /\ D \subseteq MembersOf(c)!Fields
        /\ p.row.name = member.name \/ "name" \in D
        /\ p.row.status = member.status \/ "status" \in D
        /\ p.row.card = member.card \/ "card" \in D
        /\ p.row.membership = member.membership \/ "membership" \in D
        /\ p.bond.facts = bond.facts \/ "facts" \in D
        /\ p.bond.affinity = bond.affinity \/ "affinity" \in D
    BY <1>1, <1>6, DifferingIs
  <1>8. QED BY <1>1, <1>3, <1>4, <1>5, <1>6, <1>7 DEF CopyWritten

-----------------------------------------------------------------------------

TalkStates == {"away", "waiting", "cleaning", "tidying", "generating", "naming", "answered", "asking", "noting",
               "sending", "sleeping", "bonding", "addressing", "done"}
LearnStates == {"none", "extracting", "tidying", "saving", "done"}
TalkOf(c) == [at : TalkStates, copy : MembersOf(c)!Copy, nr : Nat]
LearnOf(c) == [at : LearnStates, copy : MembersOf(c)!Copy]
DueOf(c) == [name : MemberNames(c), facts : SUBSET MembersOf(c)!Facts, affinity : Nat, card : Nat,
             membership : Memberships]

MemberTypes(c) ==
  /\ member \in MembersOf(c)!Row /\ bond \in MembersOf(c)!Bond
  /\ holder \in c.Replies \cup {c.None}
  /\ talk \in [c.Replies -> TalkOf(c)] /\ writeback \in [c.Replies -> LearnOf(c)]
  /\ ran \subseteq c.Replies \cup Nat /\ sheet \in MembersOf(c)!Copy \cup {c.None}
  /\ notices \subseteq MembersOf(c)!Told /\ listing \subseteq MembersOf(c)!Told
  /\ platform \in [inside : BOOLEAN, card : Nat]
  /\ told \in Nat /\ edits \in Nat /\ told + edits <= c.MaxNews
  /\ due \in DueOf(c) /\ stale \subseteq MembersOf(c)!Fields /\ asked \in Nat

LEMMA MemberTypesAre == ASSUME NEW c PROVE MembersOf(c)!TypeOK <=> MemberTypes(c)
  BY DEF MembersOf!TypeOK, MemberTypes, TalkOf, LearnOf, DueOf, TalkStates, LearnStates, MemberNames, Memberships

LEMMA NothingIs == ASSUME NEW c PROVE MembersOf(c)!Nothing \in MembersOf(c)!Copy /\ MembersOf(c)!NoBond \in MembersOf(c)!Bond
  BY DEF MembersOf!Nothing, MembersOf!Copy, MembersOf!NoRow, MembersOf!NoBond, MembersOf!Row, MembersOf!Bond,
         MembersOf!Names, MembersOf!Facts

\* One reply moves.
TurnsTo(c, r, p) ==
  /\ talk' \in [c.Replies -> TalkOf(c)] /\ talk'[r].at = p
  /\ \A q \in c.Replies : q # r => talk'[q] = talk[q]

LEMMA GoesTurn ==
  ASSUME NEW c, MemberTypes(c), NEW r \in c.Replies, NEW p \in TalkStates, MembersOf(c)!Goes(r, p)
  PROVE  TurnsTo(c, r, p)
  <1>1. talk' = [talk EXCEPT ![r] = [at |-> p, copy |-> MembersOf(c)!Nothing, nr |-> 0]]
    BY DEF MembersOf!Goes
  <1>2. [at |-> p, copy |-> MembersOf(c)!Nothing, nr |-> 0] \in TalkOf(c)
    BY NothingIs DEF TalkOf
  <1>3. QED BY <1>1, <1>2 DEF MemberTypes, TurnsTo

LEMMA CopiesTurn ==
  ASSUME NEW c, MemberTypes(c), NEW r \in c.Replies, NEW p \in TalkStates, MembersOf(c)!Copies(r, p)
  PROVE  TurnsTo(c, r, p)
  <1> PICK e : e = MembersOf(c)!Everything
    OBVIOUS
  <1>1. e \in MembersOf(c)!Copy
    BY DEF MembersOf!Everything, MembersOf!Copy, MemberTypes
  <1>2. talk' = [talk EXCEPT ![r].at = p, ![r].copy = e]
    BY DEF MembersOf!Copies
  <1>3. talk[r] \in TalkOf(c)
    BY DEF MemberTypes
  <1>4. [talk[r] EXCEPT !.at = p, !.copy = e] \in TalkOf(c) /\ [talk[r] EXCEPT !.at = p, !.copy = e].at = p
    BY <1>1, <1>3 DEF TalkOf
  <1>5. talk' = [talk EXCEPT ![r] = [talk[r] EXCEPT !.at = p, !.copy = e]]
    BY <1>2, <1>3 DEF MemberTypes
  <1>6. QED BY <1>4, <1>5 DEF MemberTypes, TurnsTo

\* What a step that brings no news may do to the rows.
Effects(c) ==
  /\ member' \in MembersOf(c)!Row /\ member'.known = member.known /\ bond' \in MembersOf(c)!Bond
  /\ due' \in DueOf(c) /\ due'.membership = due.membership /\ due'.card = due.card
  /\ stale' \subseteq MembersOf(c)!Fields /\ stale \ {"name", "facts", "affinity"} \subseteq stale'
  /\ member'.membership = member.membership \/ "membership" \in stale'
  /\ member'.card \in {member.card, due.card} \/ "card" \in stale'
  /\ member'.status = member.status \/ member'.status # "new" \/ "status" \in stale'
  /\ RowsAgree'

LEMMA NoEffects ==
  ASSUME NEW c, MemberInv(c), member' = member, bond' = bond, due' = due, stale' = stale
  PROVE  Effects(c)
  BY MemberTypesAre DEF MemberInv, MemberTypes, Effects, RowsAgree

LEMMA EffectsKeep ==
  ASSUME NEW c, MemberInv(c), Effects(c), told' = told, notices' = notices, listing' = listing, platform' = platform,
         \A r \in c.Replies : talk[r].at = "waiting" \/ talk'[r].at = "waiting" => talk'[r] = talk[r]
  PROVE  RowsAgree' /\ CardsAgree' /\ NewsAgree(c)'
  <1>1. \A f \in {"membership", "card"} : f \in stale => f \in stale'
    BY DEF Effects
  <1>2. NewsAgree(c)'
    BY <1>1, NewsStay DEF Effects, MemberInv
  <1>3. CardsAgree'
    BY <1>1, CardsStay DEF Effects, MemberInv
  <1>4. QED BY <1>2, <1>3 DEF Effects

\* What a step of a reply does besides.
Turns(c, r, p) ==
  /\ TurnsTo(c, r, p) /\ p \in TalkStates \ {"away", "waiting"} /\ talk[r].at \notin {"away", "waiting"}
  /\ talk[r].at \in AtWork \/ holder = c.None
  /\ holder' \in c.Replies \cup {c.None} /\ (p \in AtWork => holder' = r)
  /\ writeback' \in [c.Replies -> LearnOf(c)] /\ ran' \subseteq c.Replies \cup Nat
  /\ UNCHANGED <<sheet, notices, listing, platform, told, edits>>

LEMMA KnownAtWork ==
  ASSUME NEW c, MemberInv(c), NEW r \in c.Replies, talk[r].at \notin {"away", "waiting"} \/ writeback[r].at # "none"
  PROVE  member.known = TRUE
  BY MemberTypesAre, RowIs DEF MemberInv, MemberTypes, KnownWhenRead

LEMMA OneAtWork ==
  ASSUME NEW c, Cast(c), AsksAgree(c), NEW r \in c.Replies, NEW p, Turns(c, r, p)
  PROVE  \A q \in c.Replies : talk'[q].at \in AtWork => holder' = q
  <1> SUFFICES ASSUME NEW q \in c.Replies, talk'[q].at \in AtWork PROVE holder' = q
    OBVIOUS
  <1>1. CASE q = r
    BY <1>1 DEF Turns, TurnsTo
  <1>2. CASE q # r
    <2>1. talk[q].at \in AtWork
      BY <1>2 DEF Turns, TurnsTo
    <2>2. holder = q
      BY <2>1 DEF AsksAgree
    <2>3. QED BY <1>2, <2>2 DEF Turns, AsksAgree, Cast
  <1>3. QED BY <1>1, <1>2

LEMMA TurnKeeps ==
  ASSUME NEW c, Cast(c), MemberInv(c), NEW r \in c.Replies, NEW p, Turns(c, r, p), Effects(c), asked' \in Nat
  PROVE  /\ MembersOf(c)!TypeOK' /\ RowsAgree' /\ CardsAgree' /\ NewsAgree(c)' /\ KnownWhenRead(c)'
         /\ \A q \in c.Replies : talk'[q].at \in AtWork => holder' = q
  <1>1. MemberTypes(c) /\ AsksAgree(c)
    BY MemberTypesAre DEF MemberInv
  <1>2. MemberTypes(c)'
    BY <1>1 DEF Turns, TurnsTo, Effects, MemberTypes
  <1>3. MembersOf(c)!TypeOK'
    BY <1>2 DEF MembersOf!TypeOK, MemberTypes, TalkOf, LearnOf, DueOf, TalkStates, LearnStates, MemberNames, Memberships
  <1>4. \A q \in c.Replies : talk[q].at = "waiting" \/ talk'[q].at = "waiting" => talk'[q] = talk[q]
    BY DEF Turns, TurnsTo
  <1>5. RowsAgree' /\ CardsAgree' /\ NewsAgree(c)'
    BY <1>4, EffectsKeep DEF Turns
  <1>6. KnownWhenRead(c)'
    BY KnownAtWork DEF Turns, Effects, KnownWhenRead
  <1>7. QED BY <1>1, <1>3, <1>5, <1>6, OneAtWork

LEMMA TurnStays ==
  ASSUME NEW c, Cast(c), MemberInv(c), NEW r \in c.Replies, NEW p, Turns(c, r, p), Effects(c), asked' = asked,
         p \in {"asking", "noting"} => talk[r].at \in {"asking", "noting"} \/ member.status = "new"
  PROVE  MemberInv(c)'
  <1>1. /\ MembersOf(c)!TypeOK' /\ RowsAgree' /\ CardsAgree' /\ NewsAgree(c)' /\ KnownWhenRead(c)'
        /\ \A q \in c.Replies : talk'[q].at \in AtWork => holder' = q
    <2>1. asked' \in Nat
      BY MemberTypesAre DEF MemberInv, MemberTypes
    <2>2. QED BY <2>1, TurnKeeps
  <1>2. \A q \in c.Replies : talk'[q].at \in {"asking", "noting"} => talk[q].at \in {"asking", "noting"} \/ member.status = "new"
    BY DEF Turns, TurnsTo
  <1>3. "status" \in stale => "status" \in stale'
    BY DEF Effects
  <1>4. AsksAgree(c)'
    BY <1>1, <1>2, <1>3, AsksStay DEF MemberInv, Effects
  <1>5. QED BY <1>1, <1>4 DEF MemberInv

LEMMA RanIs ==
  ASSUME NEW c, MemberTypes(c), NEW x, x \in c.Replies \cup Nat, MembersOf(c)!InThread(x)
  PROVE  ran' \subseteq c.Replies \cup Nat
  BY DEF MembersOf!InThread, MemberTypes

\* A step of a reply that only moves it on.
LEMMA MovedOn ==
  ASSUME NEW c, Cast(c), MemberInv(c), NEW r \in c.Replies, NEW p \in TalkStates, p \notin {"away", "waiting"},
         MembersOf(c)!Goes(r, p) \/ MembersOf(c)!Copies(r, p),
         talk[r].at \notin {"away", "waiting"}, talk[r].at \in AtWork \/ holder = c.None,
         holder' \in c.Replies \cup {c.None}, p \in AtWork => holder' = r,
         writeback' \in [c.Replies -> LearnOf(c)], ran' = ran \/ MembersOf(c)!InThread(r),
         p \in {"asking", "noting"} => talk[r].at \in {"asking", "noting"} \/ member.status = "new",
         UNCHANGED <<member, bond, sheet, notices, listing, platform, told, edits, due, stale, asked>>
  PROVE  MemberInv(c)'
  <1>1. MemberTypes(c)
    BY MemberTypesAre DEF MemberInv
  <1>2. TurnsTo(c, r, p)
    BY <1>1, GoesTurn, CopiesTurn
  <1>3. ran' \subseteq c.Replies \cup Nat
    BY <1>1, RanIs DEF MemberTypes
  <1>4. Turns(c, r, p)
    BY <1>2, <1>3 DEF Turns
  <1>5. Effects(c)
    BY NoEffects
  <1>6. QED BY <1>4, <1>5, TurnStays

LEMMA ReplyGoesOn ==
  ASSUME NEW c, Cast(c), MemberInv(c), NEW r \in c.Replies,
         \/ MembersOf(c)!Sanitize(r) \/ MembersOf(c)!Generated(r) \/ MembersOf(c)!Tool(r) \/ MembersOf(c)!SoftAsk(r)
         \/ MembersOf(c)!Deliver(r)
  PROVE  MemberInv(c)'
  <1>1. /\ MemberTypes(c) /\ AsksAgree(c)
        /\ holder \in c.Replies \cup {c.None} /\ writeback \in [c.Replies -> LearnOf(c)]
    BY MemberTypesAre DEF MemberInv, MemberTypes
  <1>2. CASE MembersOf(c)!Sanitize(r)
    <2>1. /\ talk[r].at = "cleaning" /\ MembersOf(c)!InThread(r)
          /\ MembersOf(c)!Goes(r, "generating") \/ MembersOf(c)!Copies(r, "tidying")
          /\ UNCHANGED <<member, bond, sheet, notices, listing, platform, told, edits, due, stale, asked, holder, writeback>>
      BY <1>2 DEF MembersOf!Sanitize, MembersOf!rows, MembersOf!outside, MembersOf!ghosts
    <2>2. holder = r
      BY <1>1, <2>1 DEF AsksAgree, AtWork
    <2>3. QED BY <1>1, <2>1, <2>2, MovedOn DEF TalkStates, AtWork
  <1>3. CASE MembersOf(c)!Generated(r)
    <2>1. /\ talk[r].at = "generating" /\ ran' = ran
          /\ \/ MembersOf(c)!Goes(r, "answered") /\ holder' = holder
             \/ MembersOf(c)!Goes(r, "done") /\ holder' = c.None
          /\ UNCHANGED <<member, bond, sheet, notices, listing, platform, told, edits, due, stale, asked, writeback>>
      BY <1>3 DEF MembersOf!Generated, MembersOf!OnLoop, MembersOf!rows, MembersOf!outside, MembersOf!ghosts
    <2>2. holder = r
      BY <1>1, <2>1 DEF AsksAgree, AtWork
    <2>3. QED BY <1>1, <2>1, <2>2, MovedOn DEF TalkStates, AtWork
  <1>4. CASE MembersOf(c)!Tool(r)
    <2>1. /\ talk[r].at = "generating" /\ MembersOf(c)!InThread(r) /\ MembersOf(c)!Copies(r, "naming")
          /\ UNCHANGED <<member, bond, sheet, notices, listing, platform, told, edits, due, stale, asked, holder, writeback>>
      BY <1>4 DEF MembersOf!Tool, MembersOf!rows, MembersOf!outside, MembersOf!ghosts
    <2>2. holder = r
      BY <1>1, <2>1 DEF AsksAgree, AtWork
    <2>3. QED BY <1>1, <2>1, <2>2, MovedOn DEF TalkStates, AtWork
  <1>5. CASE MembersOf(c)!SoftAsk(r)
    <2>1. /\ talk[r].at = "answered" /\ (ran' = ran \/ MembersOf(c)!InThread(r))
          /\ MembersOf(c)!Goes(r, "sending") \/ (MembersOf(c)!Copies(r, "asking") /\ member.status = "new")
          /\ UNCHANGED <<member, bond, sheet, notices, listing, platform, told, edits, due, stale, asked, holder, writeback>>
      BY <1>5 DEF MembersOf!SoftAsk, MembersOf!OnLoop, MembersOf!rows, MembersOf!outside, MembersOf!ghosts
    <2>2. holder = r
      BY <1>1, <2>1 DEF AsksAgree, AtWork
    <2>3. CASE MembersOf(c)!Goes(r, "sending")
      BY <1>1, <2>1, <2>2, <2>3, MovedOn DEF TalkStates, AtWork
    <2>4. CASE MembersOf(c)!Copies(r, "asking") /\ member.status = "new"
      BY <1>1, <2>1, <2>2, <2>4, MovedOn DEF TalkStates, AtWork
    <2>5. QED BY <2>1, <2>3, <2>4
  <1>6. CASE MembersOf(c)!Deliver(r)
    <2>1. /\ talk[r].at = "sleeping" /\ ran' = ran /\ MembersOf(c)!Goes(r, "bonding") /\ holder = c.None /\ holder' = r
          /\ UNCHANGED <<member, bond, sheet, notices, listing, platform, told, edits, due, stale, asked, writeback>>
      BY <1>6 DEF MembersOf!Deliver, MembersOf!OnLoop, MembersOf!rows, MembersOf!outside, MembersOf!ghosts
    <2>2. QED BY <1>1, <2>1, MovedOn DEF TalkStates, AtWork
  <1>7. QED BY <1>2, <1>3, <1>4, <1>5, <1>6

LEMMA LearningIs ==
  ASSUME NEW c, MemberTypes(c), NEW r \in c.Replies, MembersOf(c)!Learning(r)
  PROVE  writeback' \in [c.Replies -> LearnOf(c)]
  <1> DEFINE at == IF writeback[r].at = "none" THEN "extracting" ELSE writeback[r].at
  <1>1. writeback' = [writeback EXCEPT ![r].at = at]
    BY DEF MembersOf!Learning
  <1>2. writeback[r] \in LearnOf(c)
    BY DEF MemberTypes
  <1>3. at \in LearnStates
    BY <1>2 DEF LearnOf, LearnStates
  <1> HIDE DEF at
  <1>4. [writeback[r] EXCEPT !.at = at] \in LearnOf(c)
    BY <1>2, <1>3 DEF LearnOf
  <1>5. QED BY <1>1, <1>4 DEF MemberTypes

LEMMA ReplyEnds ==
  ASSUME NEW c, Cast(c), MemberInv(c), NEW r \in c.Replies,
         MembersOf(c)!AskWritten(r) \/ MembersOf(c)!Send(r) \/ MembersOf(c)!Addressed(r)
  PROVE  MemberInv(c)'
  <1>1. /\ MemberTypes(c) /\ AsksAgree(c)
        /\ holder \in c.Replies \cup {c.None} /\ writeback \in [c.Replies -> LearnOf(c)]
    BY MemberTypesAre DEF MemberInv, MemberTypes
  <1>2. CASE MembersOf(c)!AskWritten(r)
    <2>1. /\ talk[r].at = "asking" /\ ran' = ran
          /\ talk' = [talk EXCEPT ![r].at = "noting"] \/ MembersOf(c)!Goes(r, "sending")
          /\ UNCHANGED <<member, bond, sheet, notices, listing, platform, told, edits, due, stale, asked, holder, writeback>>
      BY <1>2 DEF MembersOf!AskWritten, MembersOf!OnLoop, MembersOf!rows, MembersOf!outside, MembersOf!ghosts
    <2>2. holder = r
      BY <1>1, <2>1 DEF AsksAgree, AtWork
    <2>3. CASE MembersOf(c)!Goes(r, "sending")
      BY <1>1, <2>1, <2>2, <2>3, MovedOn DEF TalkStates, AtWork
    <2>4. CASE talk' = [talk EXCEPT ![r].at = "noting"]
      <3>1. talk[r] \in TalkOf(c)
        BY <1>1 DEF MemberTypes
      <3>2. "noting" \in TalkStates \ {"away", "waiting"}
        BY DEF TalkStates
      <3>3. [talk[r] EXCEPT !.at = "noting"] \in TalkOf(c) /\ [talk[r] EXCEPT !.at = "noting"].at = "noting"
        BY <3>1, <3>2 DEF TalkOf
      <3>4. TurnsTo(c, r, "noting")
        BY <1>1, <2>4, <3>3 DEF MemberTypes, TurnsTo
      <3>5. ran' \subseteq c.Replies \cup Nat
        BY <1>1, <2>1 DEF MemberTypes
      <3>6. Turns(c, r, "noting")
        BY <1>1, <2>1, <2>2, <3>2, <3>4, <3>5 DEF Turns, AtWork
      <3>7. Effects(c)
        BY <2>1, NoEffects
      <3>8. QED BY <2>1, <3>6, <3>7, TurnStays
    <2>5. QED BY <2>1, <2>3, <2>4
  <1>3. CASE MembersOf(c)!Send(r)
    <2>1. /\ talk[r].at = "sending" /\ ran' = ran
          /\ \/ MembersOf(c)!Goes(r, "sleeping") /\ holder' = c.None /\ MembersOf(c)!Learning(r)
             \/ MembersOf(c)!Goes(r, "bonding") /\ holder' = holder /\ writeback' = writeback
          /\ UNCHANGED <<member, bond, sheet, notices, listing, platform, told, edits, due, stale, asked>>
      BY <1>3 DEF MembersOf!Send, MembersOf!OnLoop, MembersOf!rows, MembersOf!outside, MembersOf!ghosts
    <2>2. holder = r
      BY <1>1, <2>1 DEF AsksAgree, AtWork
    <2>3. writeback' \in [c.Replies -> LearnOf(c)]
      BY <1>1, <2>1, LearningIs
    <2>4. QED BY <1>1, <2>1, <2>2, <2>3, MovedOn DEF TalkStates, AtWork
  <1>4. CASE MembersOf(c)!Addressed(r)
    <2>1. /\ talk[r].at = "addressing" /\ MembersOf(c)!InThread(r) /\ MembersOf(c)!Goes(r, "done") /\ holder' = c.None
          /\ MembersOf(c)!Learning(r)
          /\ UNCHANGED <<member, bond, sheet, notices, listing, platform, told, edits, due, stale, asked>>
      BY <1>4 DEF MembersOf!Addressed, MembersOf!rows, MembersOf!outside, MembersOf!ghosts
    <2>2. writeback' \in [c.Replies -> LearnOf(c)]
      BY <1>1, <2>1, LearningIs
    <2>3. QED BY <1>1, <2>1, <2>2, MovedOn DEF TalkStates, AtWork
  <1>5. QED BY <1>2, <1>3, <1>4

\* A copy that is saved whole: what it says anew of the facts is what is due of them.
LEMMA CopyHasEffects ==
  ASSUME NEW c, MemberInv(c), member.known = TRUE, NEW p, p \in MembersOf(c)!Copy,
         NEW facts, facts \in SUBSET MembersOf(c)!Facts, NEW g, g \in SUBSET MembersOf(c)!Facts,
         MembersOf(c)!SaveCopy(p, facts), due' = [due EXCEPT !.facts = g], p.bond.facts = due.facts => facts = g
  PROVE  Effects(c)
  <1>1. MembersOf(c)!TypeOK /\ due \in DueOf(c) /\ RowsAgree /\ member \in MembersOf(c)!Row
    BY MemberTypesAre DEF MemberInv, MemberTypes
  <1>2. CopyWritten(c, p, facts)
    BY <1>1, CopySaved
  <1>3. /\ due' \in DueOf(c) /\ due'.facts = g /\ due'.name = due.name /\ due'.affinity = due.affinity
        /\ due'.membership = due.membership /\ due'.card = due.card
    BY <1>1 DEF DueOf
  <1>4. RowsAgree'
    <2>1. member'.name = due'.name \/ "name" \in stale'
      BY <1>1, <1>2, <1>3 DEF CopyWritten, RowsAgree
    <2>2. bond'.facts = due'.facts \/ "facts" \in stale'
      BY <1>1, <1>2, <1>3 DEF CopyWritten, RowsAgree
    <2>3. bond'.affinity = due'.affinity \/ "affinity" \in stale'
      BY <1>1, <1>2, <1>3 DEF CopyWritten, RowsAgree
    <2>4. QED BY <2>1, <2>2, <2>3 DEF RowsAgree
  <1>5. member'.known = member.known
    BY <1>2, RowIs DEF CopyWritten
  <1>6. QED BY <1>2, <1>3, <1>4, <1>5 DEF CopyWritten, Effects

LEMMA CleanIs ==
  ASSUME NEW c, NEW facts, facts \in SUBSET MembersOf(c)!Facts
  PROVE  MembersOf(c)!Clean(facts) \in SUBSET MembersOf(c)!Facts
  BY DEF MembersOf!Clean

LEMMA TidyKeeps ==
  ASSUME NEW c, Cast(c), MemberInv(c), NEW r \in c.Replies, MembersOf(c)!Tidy(r)
  PROVE  MemberInv(c)'
  <1>1. MemberTypes(c) /\ AsksAgree(c)
    BY MemberTypesAre DEF MemberInv
  <1>2. /\ talk[r].at = "tidying" /\ ran' = ran /\ MembersOf(c)!Goes(r, "generating")
        /\ MembersOf(c)!SaveCopy(talk[r].copy, MembersOf(c)!Clean(talk[r].copy.bond.facts))
        /\ due' = [due EXCEPT !.facts = MembersOf(c)!Clean(@)]
        /\ UNCHANGED <<holder, writeback, sheet, notices, listing, platform, told, edits, asked>>
    BY DEF MembersOf!Tidy, MembersOf!outside
  <1>3. holder = r /\ member.known = TRUE
    BY <1>1, <1>2, KnownAtWork DEF AsksAgree, AtWork
  <1>4. PICK p, g : p = talk[r].copy /\ g = due.facts
    OBVIOUS
  <1>5. p \in MembersOf(c)!Copy /\ g \in SUBSET MembersOf(c)!Facts
    BY <1>1, <1>4 DEF MemberTypes, TalkOf, DueOf
  <1>6. p.bond.facts \in SUBSET MembersOf(c)!Facts
    BY <1>5, CopyIs, BondIs
  <1>7. PICK facts, h : facts = MembersOf(c)!Clean(p.bond.facts) /\ h = MembersOf(c)!Clean(g)
    OBVIOUS
  <1>8. facts \in SUBSET MembersOf(c)!Facts /\ h \in SUBSET MembersOf(c)!Facts /\ (p.bond.facts = g => facts = h)
    BY <1>5, <1>6, <1>7, CleanIs
  <1>9. MembersOf(c)!SaveCopy(p, facts) /\ due' = [due EXCEPT !.facts = h]
    BY <1>2, <1>4, <1>7
  <1>10. Effects(c)
    BY <1>3, <1>4, <1>5, <1>8, <1>9, CopyHasEffects
  <1>11. TurnsTo(c, r, "generating")
    BY <1>1, <1>2, GoesTurn DEF TalkStates
  <1>12. Turns(c, r, "generating")
    BY <1>1, <1>2, <1>3, <1>11 DEF Turns, TalkStates, AtWork, MemberTypes
  <1>13. QED BY <1>2, <1>10, <1>12, TurnStays

LEMMA WarmKeeps ==
  ASSUME NEW c, Cast(c), MemberInv(c), NEW r \in c.Replies, MembersOf(c)!Warm(r)
  PROVE  MemberInv(c)'
  <1>1. MemberTypes(c) /\ AsksAgree(c) /\ RowsAgree
    BY MemberTypesAre DEF MemberInv
  <1>2. /\ talk[r].at = "bonding" /\ MembersOf(c)!InThread(r) /\ MembersOf(c)!Goes(r, "addressing")
        /\ bond' = [bond EXCEPT !.affinity = @ + 1] /\ due' = [due EXCEPT !.affinity = @ + 1]
        /\ UNCHANGED <<member, holder, writeback, sheet, notices, listing, platform, told, edits, stale, asked>>
    BY DEF MembersOf!Warm, MembersOf!outside
  <1>3. holder = r
    BY <1>1, <1>2 DEF AsksAgree, AtWork
  <1>4. PICK a \in Nat, b \in Nat : a = bond.affinity /\ b = due.affinity
    BY <1>1, BondIs DEF MemberTypes, DueOf
  <1>5. bond' = [bond EXCEPT !.affinity = a + 1] /\ due' = [due EXCEPT !.affinity = b + 1]
    BY <1>2, <1>4
  <1>6. bond' \in MembersOf(c)!Bond /\ bond'.facts = bond.facts /\ bond'.affinity = a + 1
    BY <1>1, <1>5 DEF MemberTypes, MembersOf!Bond
  <1>7. /\ due' \in DueOf(c) /\ due'.facts = due.facts /\ due'.name = due.name /\ due'.affinity = b + 1
        /\ due'.membership = due.membership /\ due'.card = due.card
    BY <1>1, <1>5 DEF MemberTypes, DueOf
  <1>8. RowsAgree'
    BY <1>1, <1>2, <1>4, <1>6, <1>7 DEF RowsAgree
  <1>9. Effects(c)
    BY <1>1, <1>2, <1>6, <1>7, <1>8 DEF Effects, MemberTypes
  <1>10. TurnsTo(c, r, "addressing")
    BY <1>1, <1>2, GoesTurn DEF TalkStates
  <1>11. ran' \subseteq c.Replies \cup Nat
    BY <1>1, <1>2, RanIs
  <1>12. Turns(c, r, "addressing")
    BY <1>1, <1>2, <1>3, <1>10, <1>11 DEF Turns, TalkStates, AtWork, MemberTypes
  <1>13. QED BY <1>2, <1>9, <1>12, TurnStays

\* A payload holds the row as it is, and the card as it was read.
LEMMA CardRead ==
  ASSUME NEW c, MemberTypes(c), NEW r \in c.Replies
  PROVE  talk[r].copy.row.card \in Nat
  <1>1. talk[r].copy \in MembersOf(c)!Copy
    BY DEF MemberTypes, TalkOf
  <1>2. QED BY <1>1, CopyIs, RowIs

LEMMA OldCardIs ==
  ASSUME NEW c, NEW d
  PROVE  MembersOf(c)!OldCard(d) \subseteq {"card"} /\ (d # due.card => "card" \in MembersOf(c)!OldCard(d))
  BY DEF MembersOf!OldCard

LEMMA NameKeeps ==
  ASSUME NEW c, Cast(c), MemberInv(c), NEW r \in c.Replies, MembersOf(c)!Name(r)
  PROVE  MemberInv(c)'
  <1>1. MemberTypes(c) /\ AsksAgree(c) /\ RowsAgree
    BY MemberTypesAre DEF MemberInv
  <1>2. PICK d \in Nat : d = talk[r].copy.row.card
    BY <1>1, CardRead
  <1>3. /\ talk[r].at = "naming" /\ ran' = ran /\ MembersOf(c)!Goes(r, "answered")
        /\ member' = Named(member, d, r)
        /\ stale' = (stale \ {"name"}) \cup MembersOf(c)!OldCard(d)
        /\ due' = [due EXCEPT !.name = r]
        /\ UNCHANGED <<bond, holder, writeback, sheet, notices, listing, platform, told, edits, asked>>
    BY <1>2 DEF MembersOf!Name, MembersOf!Save, MembersOf!Payload, MembersOf!outside, Named
  <1>4. holder = r /\ member.known = TRUE
    BY <1>1, <1>3, KnownAtWork DEF AsksAgree, AtWork
  <1>5. r \in MemberNames(c)
    BY DEF MemberNames, MembersOf!Names
  <1>6. member \in MembersOf(c)!Row /\ Reads(c, member', TRUE, r, "ready", d, member.membership)
    BY <1>1, <1>3, <1>5, NamedIs DEF MemberTypes
  <1>7. /\ due' \in DueOf(c) /\ due'.facts = due.facts /\ due'.name = r /\ due'.affinity = due.affinity
        /\ due'.membership = due.membership /\ due'.card = due.card
    BY <1>1, <1>3, <1>5 DEF MemberTypes, DueOf
  <1>8. /\ stale' \subseteq MembersOf(c)!Fields /\ stale \ {"name", "facts", "affinity"} \subseteq stale'
        /\ "facts" \in stale => "facts" \in stale'
        /\ "affinity" \in stale => "affinity" \in stale'
        /\ d = due.card \/ "card" \in stale'
    BY <1>1, <1>3, OldCardIs DEF MemberTypes, MembersOf!Fields
  <1>9. RowsAgree'
    BY <1>1, <1>3, <1>6, <1>7, <1>8 DEF RowsAgree, Reads
  <1>10. Effects(c)
    BY <1>1, <1>3, <1>4, <1>6, <1>7, <1>8, <1>9 DEF Effects, MemberTypes, Reads
  <1>11. TurnsTo(c, r, "answered")
    BY <1>1, <1>3, GoesTurn DEF TalkStates
  <1>12. Turns(c, r, "answered")
    BY <1>1, <1>3, <1>4, <1>11 DEF Turns, TalkStates, AtWork, MemberTypes
  <1>13. QED BY <1>3, <1>10, <1>12, TurnStays

LEMMA AskNotedKeeps ==
  ASSUME NEW c, Cast(c), MemberInv(c), NEW r \in c.Replies, MembersOf(c)!AskNoted(r)
  PROVE  MemberInv(c)'
  <1>1. MemberTypes(c) /\ AsksAgree(c) /\ RowsAgree
    BY MemberTypesAre DEF MemberInv
  <1>2. PICK d \in Nat : d = talk[r].copy.row.card
    BY <1>1, CardRead
  <1>3. /\ talk[r].at = "noting" /\ MembersOf(c)!InThread(r) /\ MembersOf(c)!Goes(r, "sending")
        /\ member' = Questioned(member, d)
        /\ stale' = stale \cup MembersOf(c)!OldCard(d) /\ asked' = asked + 1
        /\ UNCHANGED <<bond, due, holder, writeback, sheet, notices, listing, platform, told, edits>>
    BY <1>2 DEF MembersOf!AskNoted, MembersOf!Save, MembersOf!Payload, MembersOf!outside, Questioned
  <1>4. holder = r /\ member.known = TRUE
    BY <1>1, <1>3, KnownAtWork DEF AsksAgree, AtWork
  <1>5. member \in MembersOf(c)!Row /\ Reads(c, member', TRUE, member.name, "asked_once", d, member.membership)
    BY <1>1, <1>3, QuestionedIs DEF MemberTypes
  <1>6. /\ stale' \subseteq MembersOf(c)!Fields /\ stale \subseteq stale' /\ (d = due.card \/ "card" \in stale')
    BY <1>1, <1>3, OldCardIs DEF MemberTypes, MembersOf!Fields
  <1>7. RowsAgree'
    BY <1>1, <1>3, <1>5, <1>6 DEF RowsAgree, Reads
  <1>8. Effects(c)
    BY <1>1, <1>3, <1>4, <1>5, <1>6, <1>7 DEF Effects, MemberTypes, Reads
  <1>9. TurnsTo(c, r, "sending")
    BY <1>1, <1>3, GoesTurn DEF TalkStates
  <1>10. ran' \subseteq c.Replies \cup Nat
    BY <1>1, <1>3, RanIs
  <1>11. Turns(c, r, "sending")
    BY <1>1, <1>3, <1>4, <1>9, <1>10 DEF Turns, TalkStates, AtWork, MemberTypes
  <1>12. asked \in Nat /\ asked' \in Nat
    BY <1>1, <1>3 DEF MemberTypes
  <1>13. /\ MembersOf(c)!TypeOK' /\ RowsAgree' /\ CardsAgree' /\ NewsAgree(c)' /\ KnownWhenRead(c)'
         /\ \A q \in c.Replies : talk'[q].at \in AtWork => holder' = q
    BY <1>8, <1>11, <1>12, TurnKeeps
  <1>14. asked' <= 1 \/ "status" \in stale'
    BY <1>1, <1>3, <1>6, <1>12 DEF AsksAgree
  <1>15. \A q \in c.Replies : talk'[q].at \notin {"asking", "noting"}
    <2> SUFFICES ASSUME NEW q \in c.Replies, talk'[q].at \in {"asking", "noting"} PROVE FALSE
      OBVIOUS
    <2>1. q # r /\ talk'[q] = talk[q]
      BY <1>9 DEF TurnsTo
    <2>2. holder = q
      BY <1>1, <2>1 DEF AsksAgree, AtWork
    <2>3. QED BY <1>4, <2>1, <2>2
  <1>16. AsksAgree(c)'
    BY <1>5, <1>13, <1>14, <1>15 DEF AsksAgree, Reads
  <1>17. QED BY <1>13, <1>16 DEF MemberInv

LEMMA OvertakenIs ==
  ASSUME NEW c, NEW nr
  PROVE  MembersOf(c)!Overtaken(nr) \subseteq {"membership"} /\ (nr < told => "membership" \in MembersOf(c)!Overtaken(nr))
  BY DEF MembersOf!Overtaken

LEMMA BeginKeeps ==
  ASSUME NEW c, Cast(c), MemberInv(c), NEW r \in c.Replies, MembersOf(c)!Begin(r)
  PROVE  MemberInv(c)'
  <1>1. MemberTypes(c) /\ AsksAgree(c) /\ RowsAgree /\ CardsAgree /\ NewsAgree(c)
    BY MemberTypesAre DEF MemberInv
  <1>2. /\ talk[r].at = "waiting" /\ MembersOf(c)!InThread(r) /\ MembersOf(c)!Goes(r, "cleaning")
        /\ member' = Present(member) /\ holder = c.None /\ holder' = r
        /\ stale' = stale \cup MembersOf(c)!Overtaken(talk[r].nr)
        /\ UNCHANGED <<bond, due, writeback, sheet, notices, listing, platform, told, edits, asked>>
    BY DEF MembersOf!Begin, MembersOf!Seen, MembersOf!outside, Present
  <1>3. member \in MembersOf(c)!Row /\ Reads(c, member', TRUE, member.name, member.status, member.card, "active")
    BY <1>1, <1>2, PresentIs DEF MemberTypes
  <1>4. /\ stale' \subseteq MembersOf(c)!Fields /\ stale \subseteq stale'
        /\ talk[r].nr < told => "membership" \in stale'
    BY <1>1, <1>2, OvertakenIs DEF MemberTypes, MembersOf!Fields
  <1>5. TurnsTo(c, r, "cleaning")
    BY <1>1, <1>2, GoesTurn DEF TalkStates
  <1>6. ran' \subseteq c.Replies \cup Nat
    BY <1>1, <1>2, RanIs
  <1>7. MemberTypes(c)'
    BY <1>1, <1>2, <1>3, <1>4, <1>5, <1>6 DEF MemberTypes, TurnsTo, Reads
  <1>8. MembersOf(c)!TypeOK'
    BY <1>7 DEF MembersOf!TypeOK, MemberTypes, TalkOf, LearnOf, DueOf, TalkStates, LearnStates, MemberNames, Memberships
  <1>9. RowsAgree' /\ CardsAgree'
    BY <1>1, <1>2, <1>3, <1>4 DEF RowsAgree, CardsAgree, Reads
  <1>10. NewsAgree(c)'
    <2>1. talk[r].nr \in Nat /\ told \in Nat /\ talk[r].nr <= told
      BY <1>1, <1>2 DEF NewsAgree, MemberTypes, TalkOf
    <2>2. talk[r].nr = told => due.membership = "active"
      BY <1>1, <1>2 DEF NewsAgree
    <2>3. "membership" \in stale' \/ member'.membership = due'.membership
      BY <1>2, <1>3, <1>4, <2>1, <2>2 DEF Reads
    <2>4. \A q \in c.Replies : talk'[q].at = "waiting" => talk'[q] = talk[q] /\ talk[q].at = "waiting"
      BY <1>5 DEF TurnsTo
    <2>5. Waits(c, told)' => Waits(c, told)
      BY <1>2, <2>4 DEF Waits
    <2>6. \A n \in notices \cup listing : n.nr = told => Says(n)'
      <3> SUFFICES ASSUME NEW n \in notices \cup listing, n.nr = told PROVE Says(n)'
        OBVIOUS
      <3>1. Says(n)
        BY <1>1 DEF NewsAgree
      <3>2. n.kind = "missing" => n \in listing
        BY <1>1 DEF NewsAgree
      <3>3. n.kind = "missing" => talk[r].nr < told
        BY <1>1, <1>2, <2>1, <3>2 DEF NewsAgree, Waits
      <3>4. QED BY <1>2, <1>4, <3>1, <3>3 DEF Says
    <2>7. QED BY <1>1, <1>2, <1>4, <2>3, <2>4, <2>5, <2>6 DEF NewsAgree
  <1>11. KnownWhenRead(c)'
    BY <1>3 DEF KnownWhenRead, Reads
  <1>12. AsksAgree(c)'
    BY <1>1, <1>2, <1>3, <1>4, <1>5 DEF AsksAgree, TurnsTo, Cast, AtWork, Reads
  <1>13. QED BY <1>8, <1>9, <1>10, <1>11, <1>12 DEF MemberInv

-----------------------------------------------------------------------------

LEMMA ToldIs ==
  ASSUME NEW c, Cast(c), MemberTypes(c), NEW status \in Memberships, NEW d \in Nat, MembersOf(c)!News(status, d),
         edits' = edits
  PROVE  /\ due' \in DueOf(c) /\ due'.membership = status /\ due'.card = d
         /\ due'.name = due.name /\ due'.facts = due.facts /\ due'.affinity = due.affinity
         /\ told \in Nat /\ told' = told + 1 /\ told' \in Nat /\ edits' \in Nat
         /\ told' + edits' <= c.MaxNews
  <1>1. told + edits < c.MaxNews /\ told' = told + 1 /\ due' = [due EXCEPT !.membership = status, !.card = d]
    BY DEF MembersOf!News
  <1>2. due \in DueOf(c) /\ told \in Nat /\ edits \in Nat
    BY DEF MemberTypes
  <1>3. /\ due' \in DueOf(c) /\ due'.membership = status /\ due'.card = d
        /\ due'.name = due.name /\ due'.facts = due.facts /\ due'.affinity = due.affinity
    BY <1>1, <1>2 DEF DueOf
  <1>4. PICK m \in Nat : m = c.MaxNews
    BY DEF Cast
  <1>5. told + edits < m /\ told' + edits' <= m
    BY <1>1, <1>2, <1>4
  <1>6. QED BY <1>1, <1>2, <1>3, <1>4, <1>5

LEMMA ArriveKeeps ==
  ASSUME NEW c, Cast(c), MemberInv(c), NEW r \in c.Replies, MembersOf(c)!Arrive(r)
  PROVE  MemberInv(c)'
  <1>1. MemberTypes(c) /\ AsksAgree(c) /\ RowsAgree /\ CardsAgree /\ NewsAgree(c) /\ KnownWhenRead(c)
    BY MemberTypesAre DEF MemberInv
  <1>2. /\ talk[r].at = "away" /\ ran' = ran /\ MembersOf(c)!News("active", due.card)
        /\ talk' = [talk EXCEPT ![r].at = "waiting", ![r].nr = told + 1]
        /\ UNCHANGED <<member, bond, holder, writeback, sheet, notices, listing, platform, edits, stale, asked>>
    BY DEF MembersOf!Arrive, MembersOf!OnLoop, MembersOf!rows
  <1>3. PICK d \in Nat : d = due.card
    BY <1>1 DEF MemberTypes, DueOf
  <1>4. /\ due' \in DueOf(c) /\ due'.membership = "active" /\ due'.card = d
        /\ due'.name = due.name /\ due'.facts = due.facts /\ due'.affinity = due.affinity
        /\ told \in Nat /\ told' = told + 1 /\ told' \in Nat /\ edits' \in Nat /\ told' + edits' <= c.MaxNews
    BY <1>1, <1>2, <1>3, ToldIs DEF Memberships
  <1>5. PICK t \in Nat : t = told + 1 /\ t = told'
    BY <1>4
  <1>6. talk[r] \in TalkOf(c)
    BY <1>1 DEF MemberTypes
  <1>7. [talk[r] EXCEPT !.at = "waiting", !.nr = t] \in TalkOf(c)
        /\ [talk[r] EXCEPT !.at = "waiting", !.nr = t].at = "waiting"
        /\ [talk[r] EXCEPT !.at = "waiting", !.nr = t].nr = t
    BY <1>6 DEF TalkOf, TalkStates
  <1>8. talk' = [talk EXCEPT ![r] = [talk[r] EXCEPT !.at = "waiting", !.nr = t]]
    BY <1>1, <1>2, <1>5, <1>6 DEF MemberTypes
  <1>9. TurnsTo(c, r, "waiting") /\ talk'[r].nr = told'
    BY <1>1, <1>5, <1>7, <1>8 DEF MemberTypes, TurnsTo
  <1>10. MembersOf(c)!TypeOK'
    <2>1. MemberTypes(c)'
      BY <1>1, <1>2, <1>4, <1>9 DEF MemberTypes, TurnsTo
    <2>2. QED BY <2>1 DEF MembersOf!TypeOK, MemberTypes, TalkOf, LearnOf, DueOf, TalkStates, LearnStates, MemberNames,
                          Memberships
  <1>11. RowsAgree' /\ CardsAgree' /\ KnownWhenRead(c)' /\ AsksAgree(c)'
    BY <1>1, <1>2, <1>3, <1>4, <1>9 DEF RowsAgree, CardsAgree, KnownWhenRead, AsksAgree, TurnsTo, AtWork
  <1>12. NewsAgree(c)'
    <2>1. \A n \in notices \cup listing : n.nr \in Nat
      BY <1>1 DEF MemberTypes, MembersOf!Told
    <2>2. \A n \in notices \cup listing : n.nr <= told' /\ n.nr # told'
      BY <1>1, <1>4, <2>1 DEF NewsAgree
    <2>3. \A q \in c.Replies : talk[q].at = "waiting" => talk[q].nr <= told' /\ talk[q].nr # told'
      BY <1>1, <1>4 DEF NewsAgree, MemberTypes, TalkOf
    <2>4. \A q \in c.Replies : talk'[q].at = "waiting" => talk'[q].nr <= told'
      BY <1>4, <1>9, <2>3 DEF TurnsTo
    <2>5. Waits(c, told)'
      BY <1>9 DEF Waits, TurnsTo
    <2>6. QED BY <1>1, <1>2, <1>4, <2>2, <2>4, <2>5 DEF NewsAgree
  <1>13. QED BY <1>10, <1>11, <1>12 DEF MemberInv

\* News that the platform sends, before anything is done about it.
LEMMA NewsCome ==
  ASSUME NEW c, Cast(c), MemberInv(c), NEW status \in Memberships, NEW d \in Nat, MembersOf(c)!News(status, d),
         NEW n, n \in MembersOf(c)!Told, n.nr = told + 1, Says(n)',
         \/ notices' = notices \cup {n} /\ listing' = listing /\ n.kind \notin {"listed", "missing"}
         \/ notices' = notices /\ listing' = {n} /\ n.kind \in {"listed", "missing"},
         ran' = ran, platform' \in [inside : BOOLEAN, card : Nat], platform'.card = d,
         d = due.card \/ (n.kind = "card" /\ n.card = d),
         UNCHANGED <<member, bond, holder, talk, writeback, sheet, edits, stale, asked>>
  PROVE  MemberInv(c)'
  <1>1. MemberTypes(c) /\ AsksAgree(c) /\ RowsAgree /\ CardsAgree /\ NewsAgree(c) /\ KnownWhenRead(c)
    BY MemberTypesAre DEF MemberInv
  <1>2. /\ due' \in DueOf(c) /\ due'.membership = status /\ due'.card = d
        /\ due'.name = due.name /\ due'.facts = due.facts /\ due'.affinity = due.affinity
        /\ told \in Nat /\ told' = told + 1 /\ told' \in Nat /\ edits' \in Nat /\ told' + edits' <= c.MaxNews
    BY <1>1, ToldIs
  <1>3. MembersOf(c)!TypeOK'
    <2>1. MemberTypes(c)'
      BY <1>1, <1>2 DEF MemberTypes
    <2>2. QED BY <2>1 DEF MembersOf!TypeOK, MemberTypes, TalkOf, LearnOf, DueOf, TalkStates, LearnStates, MemberNames,
                          Memberships
  <1>4. RowsAgree' /\ KnownWhenRead(c)' /\ AsksAgree(c)'
    BY <1>1, <1>2 DEF RowsAgree, KnownWhenRead, AsksAgree
  <1>5. CardsAgree'
    BY <1>1, <1>2 DEF CardsAgree
  <1>6. NewsAgree(c)'
    <2>1. \A m \in notices \cup listing : m.nr \in Nat
      BY <1>1 DEF MemberTypes, MembersOf!Told
    <2>2. \A m \in notices \cup listing : m.nr <= told' /\ m.nr # told'
      BY <1>1, <1>2, <2>1 DEF NewsAgree
    <2>3. \A q \in c.Replies : talk[q].at = "waiting" => talk[q].nr <= told' /\ talk[q].nr # told'
      BY <1>1, <1>2 DEF NewsAgree, MemberTypes, TalkOf
    <2>4. ~Waits(c, told)'
      BY <2>3 DEF Waits
    <2>5. n.nr = told' /\ n.nr <= told'
      BY <1>2
    <2>6. QED BY <1>1, <2>2, <2>3, <2>4, <2>5 DEF NewsAgree
  <1>7. QED BY <1>3, <1>4, <1>5, <1>6 DEF MemberInv

LEMMA NoticeIs ==
  ASSUME NEW c, told \in Nat, NEW d \in Nat,
         NEW kind \in {"join", "joined", "bare", "leave", "unknown", "group", "card", "listed", "missing"},
         NEW n, n = MembersOf(c)!Notice(kind, d)
  PROVE  n \in MembersOf(c)!Told /\ n.kind = kind /\ n.nr = told + 1 /\ n.card = d
  BY DEF MembersOf!Notice, MembersOf!Told

LEMMA PlatformSends ==
  ASSUME NEW c, Cast(c), MemberInv(c),
         \/ MembersOf(c)!Joins \/ MembersOf(c)!Leaves("leave", "left") \/ MembersOf(c)!Leaves("group", "removed")
         \/ MembersOf(c)!TakesCard \/ MembersOf(c)!Listed
  PROVE  MemberInv(c)'
  <1>1. /\ MemberTypes(c) /\ CardsAgree /\ told \in Nat /\ platform \in [inside : BOOLEAN, card : Nat]
        /\ platform.card \in Nat /\ platform.card = due.card /\ due.membership \in Memberships
    BY MemberTypesAre DEF MemberInv, MemberTypes, CardsAgree, DueOf
  <1>2. PICK d \in Nat : d = due.card
    BY <1>1
  <1> USE DEF MembersOf!OnLoop, MembersOf!rows, MembersOf!chat
  <1>3. CASE MembersOf(c)!Joins
    <2>1. PICK n : n = MembersOf(c)!Notice("join", 0)
      OBVIOUS
    <2>2. n \in MembersOf(c)!Told /\ n.kind = "join" /\ n.nr = told + 1
      BY <1>1, <2>1, NoticeIs
    <2>3. /\ MembersOf(c)!News("active", d) /\ notices' = notices \cup {n} /\ listing' = listing /\ ran' = ran
          /\ platform' = [platform EXCEPT !.inside = TRUE]
          /\ UNCHANGED <<member, bond, holder, talk, writeback, sheet, edits, stale, asked>>
      BY <1>2, <1>3, <2>1 DEF MembersOf!Joins
    <2>4. platform' \in [inside : BOOLEAN, card : Nat] /\ platform'.card = d
      BY <1>1, <1>2, <2>3
    <2>5. "active" \in Memberships
      BY DEF Memberships
    <2>6. due'.membership = "active"
      BY <1>1, <2>3, <2>5, ToldIs
    <2>7. QED BY <1>2, <2>2, <2>3, <2>4, <2>5, <2>6, NewsCome DEF Says
  <1>4. ASSUME NEW kind, NEW status, <<kind, status>> \in {<<"leave", "left">>, <<"group", "removed">>},
               MembersOf(c)!Leaves(kind, status)
        PROVE  MemberInv(c)'
    <2>1. PICK n : n = MembersOf(c)!Notice(kind, 0)
      OBVIOUS
    <2>2. kind \in {"leave", "group"} /\ status \in Memberships
      BY <1>4 DEF Memberships
    <2>3. n \in MembersOf(c)!Told /\ n.kind = kind /\ n.nr = told + 1
      BY <1>1, <2>1, <2>2, NoticeIs
    <2>4. /\ MembersOf(c)!News(status, d) /\ notices' = notices \cup {n} /\ listing' = listing /\ ran' = ran
          /\ platform' = [platform EXCEPT !.inside = FALSE]
          /\ UNCHANGED <<member, bond, holder, talk, writeback, sheet, edits, stale, asked>>
      BY <1>2, <1>4, <2>1 DEF MembersOf!Leaves
    <2>5. platform' \in [inside : BOOLEAN, card : Nat] /\ platform'.card = d
      BY <1>1, <1>2, <2>4
    <2>6. due'.membership = status
      BY <1>1, <2>2, <2>4, ToldIs
    <2>7. Says(n)'
      BY <1>4, <2>3, <2>6 DEF Says
    <2>8. QED BY <1>2, <2>2, <2>3, <2>4, <2>5, <2>7, NewsCome
  <1>5. CASE MembersOf(c)!TakesCard
    <2>1. PICK t \in Nat : t = told + 1
      BY <1>1
    <2>2. PICK n : n = MembersOf(c)!Notice("card", t)
      OBVIOUS
    <2>3. n \in MembersOf(c)!Told /\ n.kind = "card" /\ n.nr = told + 1 /\ n.card = t
      BY <1>1, <2>2, NoticeIs
    <2>4. /\ MembersOf(c)!News("active", t) /\ notices' = notices \cup {n} /\ listing' = listing /\ ran' = ran
          /\ platform' = [platform EXCEPT !.card = t]
          /\ UNCHANGED <<member, bond, holder, talk, writeback, sheet, edits, stale, asked>>
      BY <1>5, <2>1, <2>2 DEF MembersOf!TakesCard
    <2>5. platform' \in [inside : BOOLEAN, card : Nat] /\ platform'.card = t
      BY <1>1, <2>4
    <2>6. "active" \in Memberships
      BY DEF Memberships
    <2>7. due'.membership = "active"
      BY <1>1, <2>4, <2>6, ToldIs
    <2>8. QED BY <2>3, <2>4, <2>5, <2>6, <2>7, NewsCome DEF Says
  <1>6. CASE MembersOf(c)!Listed
    <2> DEFINE status == IF platform.inside THEN "active" ELSE IF member.known THEN "left" ELSE due.membership
               kind == IF platform.inside THEN "listed" ELSE "missing"
    <2>1. PICK s, k : s = status /\ k = kind
      OBVIOUS
    <2>2. /\ s \in Memberships /\ k \in {"listed", "missing"}
          /\ k = "listed" => s = "active"
          /\ k = "missing" => s = "left" \/ ~member.known
      BY <1>1, <2>1 DEF Memberships
    <2>3. PICK n : n = MembersOf(c)!Notice(k, d)
      OBVIOUS
    <2>4. n \in MembersOf(c)!Told /\ n.kind = k /\ n.nr = told + 1
      BY <1>1, <2>2, <2>3, NoticeIs
    <2>5. /\ MembersOf(c)!News(s, d) /\ notices' = notices /\ listing' = {n} /\ ran' = ran /\ platform' = platform
          /\ UNCHANGED <<member, bond, holder, talk, writeback, sheet, edits, stale, asked>>
      BY <1>1, <1>2, <1>6, <2>1, <2>3 DEF MembersOf!Listed
    <2> HIDE DEF status, kind
    <2>6. due'.membership = s
      BY <1>1, <2>2, <2>5, ToldIs
    <2>7. Says(n)'
      BY <2>2, <2>4, <2>5, <2>6 DEF Says
    <2>8. QED BY <1>1, <1>2, <2>2, <2>4, <2>5, <2>7, NewsCome
  <1>7. QED BY <1>3, <1>4, <1>5, <1>6

\* What a notice or a list says of the membership, as the row has it afterwards.
Stored(n) ==
  /\ n.nr < told => "membership" \in stale'
  /\ n.nr = told => "membership" \in stale' \/ (member'.known => member'.membership = due.membership)

\* A notice or a list is done with.
LEMMA NewsStored ==
  ASSUME NEW c, Cast(c), MemberInv(c), NEW n,
         \/ n \in notices /\ notices' = notices \ {n} /\ listing' = listing
         \/ n \in listing /\ notices' = notices /\ listing' = {},
         member' \in MembersOf(c)!Row, member'.name = member.name, member'.status = member.status,
         member.known => member'.known, stale \subseteq stale', stale' \subseteq MembersOf(c)!Fields, Stored(n),
         \/ member'.card = member.card /\ n.kind # "card"
         \/ member'.card = due.card
         \/ "card" \in stale',
         ran' \subseteq c.Replies \cup Nat,
         UNCHANGED <<bond, holder, talk, writeback, sheet, platform, told, edits, due, asked>>
  PROVE  MemberInv(c)'
  <1>1. MemberTypes(c) /\ AsksAgree(c) /\ RowsAgree /\ CardsAgree /\ NewsAgree(c) /\ KnownWhenRead(c)
    BY MemberTypesAre DEF MemberInv
  <1>2. MembersOf(c)!TypeOK'
    <2>1. MemberTypes(c)'
      BY <1>1 DEF MemberTypes
    <2>2. QED BY <2>1 DEF MembersOf!TypeOK, MemberTypes, TalkOf, LearnOf, DueOf, TalkStates, LearnStates, MemberNames,
                          Memberships
  <1>3. RowsAgree' /\ KnownWhenRead(c)' /\ AsksAgree(c)'
    BY <1>1 DEF RowsAgree, KnownWhenRead, AsksAgree
  <1>4. CardsAgree'
    BY <1>1 DEF CardsAgree
  <1>5. NewsAgree(c)'
    <2>1. n \in notices \cup listing /\ n.nr \in Nat /\ told \in Nat /\ n.nr <= told
      BY <1>1 DEF MemberTypes, MembersOf!Told, NewsAgree
    <2>2. n.nr < told \/ n.nr = told
      BY <2>1
    <2>3. /\ notices' \subseteq notices /\ listing' \subseteq listing
          /\ \A m \in notices \cup listing : m # n => m \in notices' \cup listing'
      BY <1>1 DEF NewsAgree
    <2>4. \A m \in notices' \cup listing' : m.nr = told => Says(m)'
      <3> SUFFICES ASSUME NEW m \in notices' \cup listing', m.nr = told PROVE Says(m)'
        OBVIOUS
      <3>1. Says(m) /\ (m.kind = "missing" => m \in listing')
        BY <1>1, <2>3 DEF NewsAgree
      <3>2. m.kind = "missing" => n.nr < told
        BY <1>1, <2>1, <2>2, <3>1 DEF NewsAgree
      <3>3. QED BY <3>1, <3>2 DEF Says, Stored
    <2>5. Waits(c, told)' <=> Waits(c, told)
      BY DEF Waits
    <2>6. \/ "membership" \in stale' \/ (member'.known => member'.membership = due'.membership)
          \/ Waits(c, told)' \/ \E m \in notices' \cup listing' : m.nr = told'
      <3>1. CASE n.nr < told
        BY <3>1 DEF Stored
      <3>2. CASE n.nr = told
        BY <3>2 DEF Stored
      <3>3. QED BY <2>2, <3>1, <3>2
    <2>7. QED BY <1>1, <2>3, <2>4, <2>5, <2>6 DEF NewsAgree
  <1>6. QED BY <1>2, <1>3, <1>4, <1>5 DEF MemberInv

\* A notice is worked on, and says the same.
LEMMA NoticeStays ==
  ASSUME NEW c, Cast(c), MemberInv(c), NEW n, NEW m, n \in notices, n.kind \in {"join", "leave"},
         m \in MembersOf(c)!Told, m.nr = n.nr, m.kind \notin {"missing", "listed"}, Says(n) => Says(m),
         notices' = (notices \ {n}) \cup {m}, ran' \subseteq c.Replies \cup Nat,
         UNCHANGED <<member, bond, holder, talk, writeback, sheet, listing, platform, told, edits, due, stale, asked>>
  PROVE  MemberInv(c)'
  <1>1. MemberTypes(c) /\ AsksAgree(c) /\ RowsAgree /\ CardsAgree /\ NewsAgree(c) /\ KnownWhenRead(c)
    BY MemberTypesAre DEF MemberInv
  <1>2. MembersOf(c)!TypeOK'
    <2>1. MemberTypes(c)'
      BY <1>1 DEF MemberTypes
    <2>2. QED BY <2>1 DEF MembersOf!TypeOK, MemberTypes, TalkOf, LearnOf, DueOf, TalkStates, LearnStates, MemberNames,
                          Memberships
  <1>3. RowsAgree' /\ KnownWhenRead(c)' /\ AsksAgree(c)'
    BY <1>1 DEF RowsAgree, KnownWhenRead, AsksAgree
  <1>4. CardsAgree'
    BY <1>1 DEF CardsAgree
  <1>5. NewsAgree(c)'
    <2>1. \A k : Says(k)' <=> Says(k)
      BY DEF Says
    <2>2. Waits(c, told)' <=> Waits(c, told)
      BY DEF Waits
    <2>3. QED BY <1>1, <2>1, <2>2 DEF NewsAgree
  <1>6. QED BY <1>2, <1>3, <1>4, <1>5 DEF MemberInv

LEMMA HandledIs ==
  ASSUME NEW c, MemberInv(c), NEW n, NEW cards, cards \subseteq {"card"}, MembersOf(c)!Handled(n, cards)
  PROVE  /\ n \in notices /\ notices' = notices \ {n} /\ listing' = listing
         /\ n \in MembersOf(c)!Told /\ n.card \in Nat /\ (n.nr = told => Says(n))
         /\ stale \subseteq stale' /\ stale' \subseteq MembersOf(c)!Fields /\ cards \subseteq stale'
         /\ n.nr < told => "membership" \in stale'
         /\ ran' \subseteq c.Replies \cup Nat
         /\ UNCHANGED <<bond, holder, talk, writeback, sheet, platform, told, edits, due, asked>>
  <1>1. MemberTypes(c) /\ NewsAgree(c)
    BY MemberTypesAre DEF MemberInv
  <1>2. /\ n \in notices /\ notices' = notices \ {n} /\ MembersOf(c)!InThread(n.nr)
        /\ stale' = stale \cup MembersOf(c)!Overtaken(n.nr) \cup cards
        /\ UNCHANGED <<bond, holder, talk, writeback, sheet, listing, platform, told, edits, due, asked>>
    BY DEF MembersOf!Handled, MembersOf!chat
  <1>3. n \in MembersOf(c)!Told /\ n.nr \in Nat /\ n.card \in Nat
    BY <1>1, <1>2 DEF MemberTypes, MembersOf!Told
  <1>4. ran' \subseteq c.Replies \cup Nat
    BY <1>1, <1>2, <1>3, RanIs
  <1>5. /\ stale \subseteq stale' /\ stale' \subseteq MembersOf(c)!Fields /\ cards \subseteq stale'
        /\ n.nr < told => "membership" \in stale'
    BY <1>1, <1>2, OvertakenIs DEF MemberTypes, MembersOf!Fields
  <1>6. QED BY <1>1, <1>2, <1>3, <1>4, <1>5 DEF NewsAgree

LEMMA NoCards == ASSUME NEW c, NEW d PROVE {} \subseteq {"card"} /\ MembersOf(c)!OldCard(d) \subseteq {"card"}
  BY DEF MembersOf!OldCard

\* A row with the card the notice brings, of one who is there.
LEMMA CardSaved ==
  ASSUME NEW c, Cast(c), MemberInv(c), NEW n, n.kind \in {"joined", "card"},
         MembersOf(c)!Handled(n, MembersOf(c)!OldCard(n.card)), MembersOf(c)!SaveCard(n)
  PROVE  MemberInv(c)'
  <1>1. MemberTypes(c) /\ member \in MembersOf(c)!Row
    BY MemberTypesAre DEF MemberInv, MemberTypes
  <1>2. /\ n \in notices /\ notices' = notices \ {n} /\ listing' = listing
        /\ n \in MembersOf(c)!Told /\ n.card \in Nat /\ (n.nr = told => Says(n))
        /\ stale \subseteq stale' /\ stale' \subseteq MembersOf(c)!Fields /\ MembersOf(c)!OldCard(n.card) \subseteq stale'
        /\ n.nr < told => "membership" \in stale'
        /\ ran' \subseteq c.Replies \cup Nat
        /\ UNCHANGED <<bond, holder, talk, writeback, sheet, platform, told, edits, due, asked>>
    BY NoCards, HandledIs
  <1>3. PICK d \in Nat : d = n.card
    BY <1>2
  <1>4. member' = Carded(member, d)
    BY <1>3 DEF MembersOf!SaveCard, MembersOf!Save, Carded
  <1>5. Reads(c, member', TRUE, member.name, member.status, d, "active")
    BY <1>1, <1>4, CardedIs
  <1>6. d = due.card \/ "card" \in stale'
    BY <1>2, <1>3, OldCardIs
  <1>7. Stored(n)
    BY <1>2, <1>5 DEF Stored, Says, Reads
  <1>8. QED BY <1>2, <1>5, <1>6, <1>7, NewsStored DEF Reads

\* A row with a membership, and nothing else that is new.
LEMMA MembershipSaved ==
  ASSUME NEW c, Cast(c), MemberInv(c), NEW n, NEW m \in Memberships, MembersOf(c)!Handled(n, {}), n.kind # "card",
         member' = Placed(member, m) \/ MembersOf(c)!Mark(m), Says(n) => due.membership = m
  PROVE  MemberInv(c)'
  <1>1. member \in MembersOf(c)!Row /\ member.known \in BOOLEAN
    BY MemberTypesAre, RowIs DEF MemberInv, MemberTypes
  <1>2. /\ n \in notices /\ notices' = notices \ {n} /\ listing' = listing
        /\ n.nr = told => Says(n)
        /\ stale \subseteq stale' /\ stale' \subseteq MembersOf(c)!Fields
        /\ n.nr < told => "membership" \in stale'
        /\ ran' \subseteq c.Replies \cup Nat
        /\ UNCHANGED <<bond, holder, talk, writeback, sheet, platform, told, edits, due, asked>>
    BY NoCards, HandledIs
  <1>3. CASE member' = Placed(member, m)
    <2>1. Reads(c, member', TRUE, member.name, member.status, member.card, m)
      BY <1>1, <1>3, PlacedIs
    <2>2. Stored(n)
      BY <1>2, <2>1 DEF Stored, Reads
    <2>3. QED BY <1>2, <2>1, <2>2, NewsStored DEF Reads
  <1>4. CASE member' = Marked(member, m)
    <2>1. Reads(c, member', member.known, member.name, member.status, member.card, m)
      BY <1>1, <1>4, MarkedIs
    <2>2. Stored(n)
      BY <1>2, <2>1 DEF Stored, Reads
    <2>3. QED BY <1>2, <2>1, <2>2, NewsStored DEF Reads
  <1>5. CASE member' = member /\ ~member.known
    <2>1. Stored(n)
      BY <1>2, <1>5 DEF Stored
    <2>2. QED BY <1>1, <1>2, <1>5, <2>1, NewsStored
  <1>6. QED BY <1>3, <1>4, <1>5 DEF MembersOf!Mark, Marked

LEMMA NoticesKeep ==
  ASSUME NEW c, Cast(c), MemberInv(c), NEW n, MembersOf(c)!Noticed(n)
  PROVE  MemberInv(c)'
  <1>1. MemberTypes(c) /\ "active" \in Memberships /\ "left" \in Memberships /\ "removed" \in Memberships
    BY MemberTypesAre DEF MemberInv, Memberships
  <1>2. CASE MembersOf(c)!JoinAsked(n)
    <2>1. /\ ran' = ran /\ n \in notices /\ n.kind = "join"
          /\ UNCHANGED <<member, bond, holder, talk, writeback, sheet, listing, platform, told, edits, due, stale, asked>>
      BY <1>2 DEF MembersOf!JoinAsked, MembersOf!OnLoop, MembersOf!rows, MembersOf!chat, MembersOf!ghosts
    <2>2. PICK d \in Nat : d = platform.card
      BY <1>1 DEF MemberTypes
    <2>3. PICK m \in {[n EXCEPT !.kind = "joined", !.card = d], [n EXCEPT !.kind = "bare"]} :
                 notices' = (notices \ {n}) \cup {m}
      BY <1>2, <2>2 DEF MembersOf!JoinAsked
    <2>4. n \in MembersOf(c)!Told /\ ran' \subseteq c.Replies \cup Nat
      BY <1>1, <2>1 DEF MemberTypes
    <2>5. m \in MembersOf(c)!Told /\ m.nr = n.nr /\ m.kind \in {"joined", "bare"}
      BY <2>4 DEF MembersOf!Told
    <2>6. Says(n) => Says(m)
      BY <2>1, <2>5 DEF Says
    <2>7. QED BY <2>1, <2>3, <2>4, <2>5, <2>6, NoticeStays
  <1>3. CASE MembersOf(c)!JoinStored(n)
    <2>1. CASE n.kind = "joined" /\ MembersOf(c)!Handled(n, MembersOf(c)!OldCard(n.card)) /\ MembersOf(c)!SaveCard(n)
      BY <2>1, CardSaved
    <2>2. CASE n.kind = "bare" /\ MembersOf(c)!Handled(n, {}) /\ member' = Placed(member, "active")
      BY <1>1, <2>2, MembershipSaved DEF Says
    <2>3. QED BY <1>3, <2>1, <2>2 DEF MembersOf!JoinStored, MembersOf!Save, Placed
  <1>4. CASE MembersOf(c)!LeaveMarked(n)
    <2>1. CASE n.kind = "leave" /\ MembersOf(c)!Handled(n, {}) /\ MembersOf(c)!Mark("left")
      BY <1>1, <2>1, MembershipSaved DEF Says
    <2>2. CASE /\ n.kind = "leave" /\ n \in notices /\ MembersOf(c)!InThread(n.nr)
               /\ notices' = (notices \ {n}) \cup {[n EXCEPT !.kind = "unknown"]}
               /\ UNCHANGED <<member, bond, holder, talk, writeback, sheet, listing, platform, told, edits, due, stale,
                              asked>>
      <3>1. PICK m : m = [n EXCEPT !.kind = "unknown"]
        OBVIOUS
      <3>2. n \in MembersOf(c)!Told /\ n.nr \in Nat
        BY <1>1, <2>2 DEF MemberTypes, MembersOf!Told
      <3>3. ran' \subseteq c.Replies \cup Nat
        BY <1>1, <2>2, <3>2, RanIs
      <3>4. m \in MembersOf(c)!Told /\ m.nr = n.nr /\ m.kind = "unknown"
        BY <3>1, <3>2 DEF MembersOf!Told
      <3>5. Says(n) => Says(m)
        BY <2>2, <3>4 DEF Says
      <3>6. QED BY <2>2, <3>1, <3>3, <3>4, <3>5, NoticeStays
    <2>3. QED BY <1>4, <2>1, <2>2 DEF MembersOf!LeaveMarked, MembersOf!rows, MembersOf!chat, MembersOf!ghosts
  <1>5. CASE MembersOf(c)!LeaveStored(n)
    <2>1. n.kind = "unknown" /\ MembersOf(c)!Handled(n, {}) /\ member' = Placed(member, "left")
      BY <1>5 DEF MembersOf!LeaveStored, MembersOf!Save, Placed
    <2>2. QED BY <1>1, <2>1, MembershipSaved DEF Says
  <1>6. CASE MembersOf(c)!GroupLeft(n)
    <2>1. n.kind = "group" /\ MembersOf(c)!Handled(n, {}) /\ MembersOf(c)!Mark("removed")
      BY <1>6 DEF MembersOf!GroupLeft
    <2>2. QED BY <1>1, <2>1, MembershipSaved DEF Says
  <1>7. CASE MembersOf(c)!CardStored(n)
    BY <1>7, CardSaved DEF MembersOf!CardStored
  <1>8. QED BY <1>2, <1>3, <1>4, <1>5, <1>6, <1>7 DEF MembersOf!Noticed

LEMMA ListKeeps ==
  ASSUME NEW c, Cast(c), MemberInv(c), NEW n, MembersOf(c)!ListStored(n)
  PROVE  MemberInv(c)'
  <1>1. /\ MemberTypes(c) /\ NewsAgree(c) /\ member \in MembersOf(c)!Row /\ member.known \in BOOLEAN
        /\ "left" \in Memberships
    BY MemberTypesAre, RowIs DEF MemberInv, MemberTypes, Memberships
  <1>2. /\ n \in listing /\ listing' = {}
        /\ \/ n.kind = "listed" /\ MembersOf(c)!SaveCard(n) /\ MembersOf(c)!OldCard(n.card) \subseteq stale'
           \/ n.kind # "listed" /\ MembersOf(c)!Mark("left")
        /\ stale' \subseteq stale \cup MembersOf(c)!Overtaken(n.nr) \cup MembersOf(c)!OldCard(n.card)
        /\ stale \cup MembersOf(c)!Overtaken(n.nr) \subseteq stale'
        /\ ran' = ran /\ notices' = notices
        /\ UNCHANGED <<bond, holder, talk, writeback, sheet, platform, told, edits, due, asked>>
    BY DEF MembersOf!ListStored, MembersOf!chat
  <1>3. n \in MembersOf(c)!Told /\ n.kind \in {"listed", "missing"} /\ (n.nr = told => Says(n))
    BY <1>1, <1>2 DEF MemberTypes, NewsAgree
  <1>4. PICK d \in Nat : d = n.card
    BY <1>3 DEF MembersOf!Told
  <1>5. /\ stale \subseteq stale' /\ stale' \subseteq MembersOf(c)!Fields /\ (n.nr < told => "membership" \in stale')
    BY <1>1, <1>2, OvertakenIs, NoCards DEF MemberTypes, MembersOf!Fields
  <1>6. ran' \subseteq c.Replies \cup Nat
    BY <1>1, <1>2 DEF MemberTypes
  <1>7. CASE n.kind = "listed"
    <2>1. member' = Carded(member, d)
      BY <1>2, <1>4, <1>7 DEF MembersOf!SaveCard, MembersOf!Save, Carded
    <2>2. Reads(c, member', TRUE, member.name, member.status, d, "active")
      BY <1>1, <2>1, CardedIs
    <2>3. d = due.card \/ "card" \in stale'
      BY <1>2, <1>4, <1>7, OldCardIs
    <2>4. Stored(n)
      BY <1>3, <1>5, <1>7, <2>2 DEF Stored, Says, Reads
    <2>5. QED BY <1>2, <1>5, <1>6, <2>2, <2>3, <2>4, NewsStored DEF Reads
  <1>8. CASE n.kind = "missing" /\ member.known
    <2>1. member' = Marked(member, "left")
      BY <1>2, <1>8 DEF MembersOf!Mark, Marked
    <2>2. Reads(c, member', member.known, member.name, member.status, member.card, "left")
      BY <1>1, <2>1, MarkedIs
    <2>3. Stored(n)
      BY <1>3, <1>5, <1>8, <2>2 DEF Stored, Says, Reads
    <2>4. QED BY <1>2, <1>5, <1>6, <1>8, <2>2, <2>3, NewsStored DEF Reads
  <1>9. CASE n.kind = "missing" /\ ~member.known
    <2>1. member' = member
      BY <1>2, <1>9 DEF MembersOf!Mark
    <2>2. Stored(n)
      BY <1>5, <1>9, <2>1 DEF Stored
    <2>3. QED BY <1>1, <1>2, <1>5, <1>6, <1>9, <2>1, <2>2, NewsStored
  <1>10. QED BY <1>3, <1>7, <1>8, <1>9

-----------------------------------------------------------------------------

\* A step beside the replies, of the write-back or the console.
LEMMA BesideStays ==
  ASSUME NEW c, Cast(c), MemberInv(c), Effects(c), member.known = TRUE, writeback' \in [c.Replies -> LearnOf(c)],
         ran' \subseteq c.Replies \cup Nat, sheet' \in MembersOf(c)!Copy \cup {c.None},
         edits' \in Nat, told + edits' <= c.MaxNews,
         UNCHANGED <<holder, talk, notices, listing, platform, told, asked>>
  PROVE  MemberInv(c)'
  <1>1. MemberTypes(c) /\ AsksAgree(c)
    BY MemberTypesAre DEF MemberInv
  <1>2. MembersOf(c)!TypeOK'
    <2>1. MemberTypes(c)'
      BY <1>1 DEF Effects, MemberTypes
    <2>2. QED BY <2>1 DEF MembersOf!TypeOK, MemberTypes, TalkOf, LearnOf, DueOf, TalkStates, LearnStates, MemberNames,
                          Memberships
  <1>3. RowsAgree' /\ CardsAgree' /\ NewsAgree(c)'
    BY EffectsKeep
  <1>4. KnownWhenRead(c)'
    BY DEF Effects, KnownWhenRead
  <1>5. AsksAgree(c)'
    <2>1. "status" \in stale => "status" \in stale'
      BY DEF Effects
    <2>2. \A r \in c.Replies : talk'[r].at \in AtWork => holder' = r
      BY <1>1 DEF AsksAgree
    <2>3. QED BY <1>1, <2>1, <2>2, AsksStay DEF Effects
  <1>6. QED BY <1>2, <1>3, <1>4, <1>5 DEF MemberInv

LEMMA RowsAreRead ==
  ASSUME NEW c, MemberTypes(c)
  PROVE  MembersOf(c)!Everything \in MembersOf(c)!Copy
  BY DEF MembersOf!Everything, MembersOf!Copy, MemberTypes

LEMMA MergedIs ==
  ASSUME NEW c, NEW facts, facts \in SUBSET MembersOf(c)!Facts, NEW r \in c.Replies
  PROVE  MembersOf(c)!Merged(facts, r) \in SUBSET MembersOf(c)!Facts
  BY DEF MembersOf!Merged, MembersOf!Clean, MembersOf!Facts

LEMMA WritebackKeeps ==
  ASSUME NEW c, Cast(c), MemberInv(c), NEW r \in c.Replies, MembersOf(c)!Profile(r)
  PROVE  MemberInv(c)'
  <1>1. /\ MemberTypes(c) /\ writeback[r] \in LearnOf(c) /\ writeback[r].copy \in MembersOf(c)!Copy
        /\ edits \in Nat /\ told + edits <= c.MaxNews /\ sheet \in MembersOf(c)!Copy \cup {c.None}
        /\ due.facts \in SUBSET MembersOf(c)!Facts
    BY MemberTypesAre DEF MemberInv, MemberTypes, LearnOf, DueOf
  <1>2. PICK p, g, e : p = writeback[r].copy /\ g = due.facts /\ e = MembersOf(c)!Everything
    OBVIOUS
  <1>3. /\ p \in MembersOf(c)!Copy /\ p.bond.facts \in SUBSET MembersOf(c)!Facts /\ g \in SUBSET MembersOf(c)!Facts
        /\ e \in MembersOf(c)!Copy
    BY <1>1, <1>2, CopyIs, BondIs, RowsAreRead
  <1>4. MembersOf(c)!LearnedAll(r) => writeback' \in [c.Replies -> LearnOf(c)]
    BY <1>1, NothingIs DEF MembersOf!LearnedAll, MemberTypes, LearnOf, LearnStates
  <1>5. CASE MembersOf(c)!Extracted(r)
    <2>1. /\ writeback[r].at = "extracting" /\ ran' = {}
          /\ UNCHANGED <<member, bond, holder, talk, sheet, notices, listing, platform, told, edits, due, stale, asked>>
      BY <1>5 DEF MembersOf!Extracted, MembersOf!rows, MembersOf!outside, MembersOf!ghosts
    <2>2. writeback' \in [c.Replies -> LearnOf(c)]
      <3>1. CASE MembersOf(c)!LearnedAll(r)
        BY <1>4, <3>1
      <3>2. ASSUME NEW at \in {"saving", "tidying"}, writeback' = [writeback EXCEPT ![r].copy = e, ![r].at = at]
            PROVE  writeback' \in [c.Replies -> LearnOf(c)]
        <4>1. [writeback[r] EXCEPT !.copy = e, !.at = at] \in LearnOf(c)
          BY <1>1, <1>3 DEF LearnOf, LearnStates
        <4>2. writeback' = [writeback EXCEPT ![r] = [writeback[r] EXCEPT !.copy = e, !.at = at]]
          BY <1>1, <3>2 DEF MemberTypes
        <4>3. QED BY <1>1, <4>1, <4>2 DEF MemberTypes
      <3>3. QED BY <1>2, <1>5, <3>1, <3>2 DEF MembersOf!Extracted
    <2>3. Effects(c)
      BY <2>1, NoEffects
    <2>4. member.known = TRUE
      BY <2>1, KnownAtWork
    <2>5. QED BY <1>1, <2>1, <2>2, <2>3, <2>4, BesideStays
  <1>6. CASE MembersOf(c)!ProfileTidied(r)
    <2>1. PICK f, h, q : /\ f = MembersOf(c)!Clean(p.bond.facts) /\ h = MembersOf(c)!Clean(g)
                         /\ q = [row |-> member', bond |-> bond']
      OBVIOUS
    <2>2. /\ writeback[r].at = "tidying" /\ MembersOf(c)!SaveCopy(p, f)
          /\ writeback' = [writeback EXCEPT ![r].at = "saving", ![r].copy = q]
          /\ due' = [due EXCEPT !.facts = h]
          /\ UNCHANGED <<holder, talk, ran, sheet, notices, listing, platform, told, edits, asked>>
      BY <1>2, <1>6, <2>1 DEF MembersOf!ProfileTidied, MembersOf!outside
    <2>3. f \in SUBSET MembersOf(c)!Facts /\ h \in SUBSET MembersOf(c)!Facts /\ (p.bond.facts = g => f = h)
      BY <1>3, <2>1, CleanIs
    <2>4. member.known = TRUE
      BY <2>2, KnownAtWork
    <2>5. Effects(c)
      BY <1>2, <1>3, <2>2, <2>3, <2>4, CopyHasEffects
    <2>6. q \in MembersOf(c)!Copy
      BY <2>1, <2>5 DEF Effects, MembersOf!Copy
    <2>7. [writeback[r] EXCEPT !.at = "saving", !.copy = q] \in LearnOf(c)
      BY <1>1, <2>6 DEF LearnOf, LearnStates
    <2>8. writeback' = [writeback EXCEPT ![r] = [writeback[r] EXCEPT !.at = "saving", !.copy = q]]
      BY <1>1, <2>2 DEF MemberTypes
    <2>9. writeback' \in [c.Replies -> LearnOf(c)] /\ ran' \subseteq c.Replies \cup Nat
      BY <1>1, <2>2, <2>7, <2>8 DEF MemberTypes
    <2>10. QED BY <1>1, <2>2, <2>4, <2>5, <2>9, BesideStays
  <1>7. CASE MembersOf(c)!ProfileSaved(r)
    <2>1. PICK f, h : f = MembersOf(c)!Merged(p.bond.facts, r) /\ h = MembersOf(c)!Merged(g, r)
      OBVIOUS
    <2>2. /\ writeback[r].at = "saving" /\ MembersOf(c)!SaveCopy(p, f) /\ MembersOf(c)!LearnedAll(r)
          /\ due' = [due EXCEPT !.facts = h]
          /\ UNCHANGED <<holder, talk, ran, sheet, notices, listing, platform, told, edits, asked>>
      BY <1>2, <1>7, <2>1 DEF MembersOf!ProfileSaved, MembersOf!outside
    <2>3. f \in SUBSET MembersOf(c)!Facts /\ h \in SUBSET MembersOf(c)!Facts /\ (p.bond.facts = g => f = h)
      BY <1>3, <2>1, MergedIs
    <2>4. member.known = TRUE
      BY <2>2, KnownAtWork
    <2>5. Effects(c)
      BY <1>2, <1>3, <2>2, <2>3, <2>4, CopyHasEffects
    <2>6. writeback' \in [c.Replies -> LearnOf(c)] /\ ran' \subseteq c.Replies \cup Nat
      BY <1>1, <1>4, <2>2 DEF MemberTypes
    <2>7. QED BY <1>1, <2>2, <2>4, <2>5, <2>6, BesideStays
  <1>8. QED BY <1>5, <1>6, <1>7 DEF MembersOf!Profile

LEMMA EditIs ==
  ASSUME NEW c, Cast(c), MemberTypes(c), MembersOf(c)!Edit
  PROVE  edits' \in Nat /\ told + edits' <= c.MaxNews
  <1>1. PICK m \in Nat : m = c.MaxNews
    BY DEF Cast
  <1>2. told \in Nat /\ edits \in Nat /\ told + edits < m /\ edits' = edits + 1
    BY <1>1 DEF MemberTypes, MembersOf!Edit
  <1>3. edits' \in Nat /\ told + edits' <= m
    BY <1>2
  <1>4. QED BY <1>1, <1>3

LEMMA ConsoleKeeps ==
  ASSUME NEW c, Cast(c), MemberInv(c), MembersOf(c)!Console
  PROVE  MemberInv(c)'
  <1>1. /\ MemberTypes(c) /\ RowsAgree /\ KnownWhenRead(c) /\ writeback \in [c.Replies -> LearnOf(c)]
        /\ edits \in Nat /\ told + edits <= c.MaxNews /\ sheet \in MembersOf(c)!Copy \cup {c.None}
        /\ due \in DueOf(c) /\ due.facts \in SUBSET MembersOf(c)!Facts /\ ran \subseteq c.Replies \cup Nat
        /\ member \in MembersOf(c)!Row /\ bond \in MembersOf(c)!Bond /\ stale \subseteq MembersOf(c)!Fields
    BY MemberTypesAre DEF MemberInv, MemberTypes, DueOf
  <1>2. sheet # c.None => member.known = TRUE
    BY <1>1, RowIs DEF KnownWhenRead
  <1>3. CASE MembersOf(c)!Load
    <2>1. /\ member.known = TRUE /\ sheet' = MembersOf(c)!Everything /\ edits' = edits /\ writeback' = writeback /\ ran' = ran
          /\ UNCHANGED <<member, bond, holder, talk, notices, listing, platform, told, due, stale, asked>>
      BY <1>1, <1>3, RowIs DEF MembersOf!Load, MembersOf!rows, MembersOf!chat, MembersOf!ghosts
    <2>2. sheet' \in MembersOf(c)!Copy \cup {c.None}
      BY <1>1, <2>1, RowsAreRead
    <2>3. Effects(c)
      BY <2>1, NoEffects
    <2>4. QED BY <1>1, <2>1, <2>2, <2>3, BesideStays
  <1>4. CASE MembersOf(c)!SaveName
    <2>1. PICK p, D : p = sheet /\ D = MembersOf(c)!Differing(p)
      OBVIOUS
    <2>2. /\ sheet # c.None /\ MembersOf(c)!Edit /\ sheet' = c.None
          /\ member' = Renamed(p.row, "console") /\ bond' = p.bond /\ stale' = (stale \cup D) \ {"name"}
          /\ due' = [due EXCEPT !.name = "console"]
          /\ UNCHANGED <<holder, talk, writeback, ran, notices, listing, platform, told, asked>>
      BY <1>4, <2>1 DEF MembersOf!SaveName, MembersOf!Save, MembersOf!chat, Renamed
    <2>3. p \in MembersOf(c)!Copy /\ p.row \in MembersOf(c)!Row /\ p.bond \in MembersOf(c)!Bond
      BY <1>1, <2>1, <2>2, CopyIs
    <2>4. "console" \in MemberNames(c)
      BY DEF MemberNames, MembersOf!Names
    <2>5. Reads(c, member', TRUE, "console", p.row.status, p.row.card, p.row.membership)
      BY <2>2, <2>3, <2>4, RenamedIs
    <2>6. /\ D \subseteq MembersOf(c)!Fields
          /\ p.row.status = member.status \/ "status" \in D
          /\ p.row.card = member.card \/ "card" \in D
          /\ p.row.membership = member.membership \/ "membership" \in D
          /\ p.bond.facts = bond.facts \/ "facts" \in D
          /\ p.bond.affinity = bond.affinity \/ "affinity" \in D
      BY <1>1, <2>1, <2>3, DifferingIs
    <2>7. /\ due' \in DueOf(c) /\ due'.facts = due.facts /\ due'.name = "console" /\ due'.affinity = due.affinity
          /\ due'.membership = due.membership /\ due'.card = due.card
      BY <1>1, <2>2, <2>4 DEF DueOf
    <2>8. \A f \in {"status", "card", "membership", "facts", "affinity"} : f \in stale \/ f \in D => f \in stale'
      BY <2>2
    <2>9. RowsAgree'
      BY <1>1, <2>2, <2>5, <2>6, <2>7, <2>8 DEF RowsAgree, Reads
    <2>10. stale' \subseteq MembersOf(c)!Fields /\ stale \ {"name", "facts", "affinity"} \subseteq stale'
      BY <1>1, <2>2, <2>6
    <2>11. Effects(c)
      BY <1>2, <2>2, <2>3, <2>5, <2>6, <2>7, <2>8, <2>9, <2>10 DEF Effects, Reads
    <2>12. edits' \in Nat /\ told + edits' <= c.MaxNews
      BY <1>1, <2>2, EditIs
    <2>13. QED BY <1>1, <1>2, <2>2, <2>11, <2>12, BesideStays
  <1>5. CASE MembersOf(c)!SaveFact
    <2>1. PICK p, g : p = sheet /\ g = due.facts
      OBVIOUS
    <2>2. /\ sheet # c.None /\ MembersOf(c)!Edit /\ sheet' = c.None
          /\ MembersOf(c)!SaveCopy(p, p.bond.facts \cup {"other"})
          /\ due' = [due EXCEPT !.facts = g \cup {"other"}]
          /\ UNCHANGED <<holder, talk, writeback, ran, notices, listing, platform, told, asked>>
      BY <1>5, <2>1 DEF MembersOf!SaveFact, MembersOf!chat
    <2>3. /\ p \in MembersOf(c)!Copy /\ p.bond.facts \cup {"other"} \in SUBSET MembersOf(c)!Facts
          /\ g \cup {"other"} \in SUBSET MembersOf(c)!Facts
      <3>1. p \in MembersOf(c)!Copy /\ "other" \in MembersOf(c)!Facts
        BY <1>1, <2>1, <2>2 DEF MembersOf!Facts
      <3>2. p.bond.facts \in SUBSET MembersOf(c)!Facts
        BY <3>1, CopyIs, BondIs
      <3>3. QED BY <1>1, <2>1, <3>1, <3>2
    <2>4. PICK f, h : f = p.bond.facts \cup {"other"} /\ h = g \cup {"other"}
      OBVIOUS
    <2>5. Effects(c)
      BY <1>2, <2>1, <2>2, <2>3, <2>4, CopyHasEffects
    <2>6. edits' \in Nat /\ told + edits' <= c.MaxNews
      BY <1>1, <2>2, EditIs
    <2>7. QED BY <1>1, <1>2, <2>2, <2>5, <2>6, BesideStays
  <1>6. CASE MembersOf(c)!Reset
    <2>1. /\ sheet # c.None /\ MembersOf(c)!Edit /\ sheet' = c.None
          /\ bond' = [facts |-> {}, affinity |-> 0] /\ due' = [due EXCEPT !.facts = {}, !.affinity = 0]
          /\ stale' = stale \ {"facts", "affinity"}
          /\ UNCHANGED <<member, holder, talk, writeback, ran, notices, listing, platform, told, asked>>
      BY <1>6 DEF MembersOf!Reset, MembersOf!chat, MembersOf!NoBond
    <2>2. bond' \in MembersOf(c)!Bond /\ bond'.facts = {} /\ bond'.affinity = 0
      BY <2>1 DEF MembersOf!Bond
    <2>3. /\ due' \in DueOf(c) /\ due'.facts = {} /\ due'.name = due.name /\ due'.affinity = 0
          /\ due'.membership = due.membership /\ due'.card = due.card
      BY <1>1, <2>1 DEF DueOf
    <2>4. RowsAgree'
      BY <1>1, <2>1, <2>2, <2>3 DEF RowsAgree
    <2>5. Effects(c)
      BY <1>1, <2>1, <2>2, <2>3, <2>4 DEF Effects
    <2>6. edits' \in Nat /\ told + edits' <= c.MaxNews
      BY <1>1, <2>1, EditIs
    <2>7. QED BY <1>1, <1>2, <2>1, <2>5, <2>6, BesideStays
  <1>7. QED BY <1>3, <1>4, <1>5, <1>6 DEF MembersOf!Console

-----------------------------------------------------------------------------

LEMMA MemberBegins ==
  ASSUME NEW c, Cast(c), MembersOf(c)!Init
  PROVE  MemberInv(c)
  <1>1. /\ member = MembersOf(c)!NoRow /\ bond = [facts |-> {}, affinity |-> 0] /\ holder = c.None /\ ran = {}
        /\ talk = [r \in c.Replies |-> [at |-> "away", copy |-> MembersOf(c)!Nothing, nr |-> 0]]
        /\ writeback = [r \in c.Replies |-> [at |-> "none", copy |-> MembersOf(c)!Nothing]]
        /\ sheet = c.None /\ notices = {} /\ listing = {}
        /\ platform = [inside |-> TRUE, card |-> 0] /\ told = 0
        /\ due = [name |-> c.None, facts |-> {}, affinity |-> 0, card |-> 0, membership |-> "active"]
        /\ stale = {} /\ asked = 0 /\ edits = 0
    BY DEF MembersOf!Init, MembersOf!NoBond
  <1>2. MembersOf(c)!Nothing \in MembersOf(c)!Copy
    BY NothingIs
  <1>3. /\ member \in MembersOf(c)!Row /\ ~member.known /\ member.name = c.None /\ member.card = 0
    BY <1>1 DEF MembersOf!NoRow, MembersOf!Row, MembersOf!Names
  <1>4. bond \in MembersOf(c)!Bond /\ bond.facts = {} /\ bond.affinity = 0
    BY <1>1 DEF MembersOf!Bond
  <1>5. /\ \A r \in c.Replies : talk[r].at = "away" /\ writeback[r].at = "none"
        /\ talk \in [c.Replies -> TalkOf(c)] /\ writeback \in [c.Replies -> LearnOf(c)]
    BY <1>1, <1>2 DEF TalkOf, LearnOf, TalkStates, LearnStates
  <1>6. due \in DueOf(c) /\ due.name = c.None /\ due.facts = {} /\ due.affinity = 0 /\ due.card = 0
    BY <1>1 DEF DueOf, MemberNames, MembersOf!Names, Memberships
  <1>7. PICK m \in Nat : m = c.MaxNews
    BY DEF Cast
  <1>8. told \in Nat /\ edits \in Nat /\ told + edits <= m /\ platform \in [inside : BOOLEAN, card : Nat] /\ platform.card = 0
    BY <1>1, <1>7
  <1>9. MembersOf(c)!TypeOK
    <2>1. MemberTypes(c)
      BY <1>1, <1>3, <1>4, <1>5, <1>6, <1>7, <1>8 DEF MemberTypes
    <2>2. QED BY <2>1, MemberTypesAre
  <1>10. RowsAgree /\ CardsAgree /\ KnownWhenRead(c)
    BY <1>1, <1>3, <1>4, <1>5, <1>6, <1>8 DEF RowsAgree, CardsAgree, KnownWhenRead
  <1>11. NewsAgree(c)
    BY <1>1, <1>3, <1>5 DEF NewsAgree
  <1>12. AsksAgree(c)
    BY <1>1, <1>5 DEF AsksAgree, AtWork
  <1>13. QED BY <1>9, <1>10, <1>11, <1>12 DEF MemberInv

LEMMA MemberSteps ==
  ASSUME NEW c, Cast(c), MemberInv(c), MembersOf(c)!Next \/ UNCHANGED MembersOf(c)!vars
  PROVE  MemberInv(c)'
  <1>1. ASSUME NEW r \in c.Replies, MembersOf(c)!Answering(r) PROVE MemberInv(c)'
    BY <1>1, BeginKeeps, TidyKeeps, NameKeeps, WarmKeeps, AskNotedKeeps, ReplyGoesOn, ReplyEnds DEF MembersOf!Answering
  <1>2. ASSUME NEW r \in c.Replies, MembersOf(c)!Arrive(r) \/ MembersOf(c)!Profile(r) PROVE MemberInv(c)'
    BY <1>2, ArriveKeeps, WritebackKeeps
  <1>3. CASE \/ MembersOf(c)!Joins \/ MembersOf(c)!Leaves("leave", "left") \/ MembersOf(c)!Leaves("group", "removed")
             \/ MembersOf(c)!TakesCard \/ MembersOf(c)!Listed
    BY <1>3, PlatformSends
  <1>4. ASSUME NEW n, MembersOf(c)!Noticed(n) \/ MembersOf(c)!ListStored(n) PROVE MemberInv(c)'
    BY <1>4, NoticesKeep, ListKeeps
  <1>5. CASE MembersOf(c)!Console
    BY <1>5, ConsoleKeeps
  <1>6. CASE UNCHANGED MembersOf(c)!vars
    <2>1. UNCHANGED <<member, bond, holder, talk, writeback, ran, sheet, notices, listing, platform, told, due, stale,
                      asked, edits>>
      BY <1>6 DEF MembersOf!vars, MembersOf!rows, MembersOf!chat, MembersOf!outside, MembersOf!ghosts
    <2>2. MemberTypes(c) /\ AsksAgree(c) /\ RowsAgree /\ CardsAgree /\ NewsAgree(c) /\ KnownWhenRead(c)
      BY MemberTypesAre DEF MemberInv
    <2>3. MembersOf(c)!TypeOK'
      <3>1. MemberTypes(c)'
        BY <2>1, <2>2 DEF MemberTypes
      <3>2. QED BY <3>1 DEF MembersOf!TypeOK, MemberTypes, TalkOf, LearnOf, DueOf, TalkStates, LearnStates, MemberNames,
                            Memberships
    <2>4. RowsAgree' /\ CardsAgree' /\ KnownWhenRead(c)' /\ AsksAgree(c)'
      BY <2>1, <2>2 DEF RowsAgree, CardsAgree, KnownWhenRead, AsksAgree
    <2>5. NewsAgree(c)'
      BY <2>1, <2>2 DEF NewsAgree, Says, Waits
    <2>6. QED BY <2>3, <2>4, <2>5 DEF MemberInv
  <1>7. QED BY <1>1, <1>2, <1>3, <1>4, <1>5, <1>6 DEF MembersOf!Next

LEMMA MembersHold ==
  ASSUME NEW c, MemberInv(c)
  PROVE  MembersOf(c)!MembersKept
  <1>1. MembersOf(c)!TypeOK /\ RowsAgree /\ CardsAgree /\ NewsAgree(c) /\ AsksAgree(c)
    BY DEF MemberInv
  <1>2. MembersOf(c)!NameKept /\ MembersOf(c)!BondKept
    BY <1>1 DEF RowsAgree, MembersOf!NameKept, MembersOf!BondKept
  <1>3. MembersOf(c)!PlatformFollowed
    <2> SUFFICES ASSUME notices = {}, listing = {}, \A r \in c.Replies : talk[r].at # "waiting"
                 PROVE  /\ member.card = due.card \/ "card" \in stale
                        /\ member.known => member.membership = due.membership \/ "membership" \in stale
      BY DEF MembersOf!PlatformFollowed, MembersOf!UpToDate
    <2>1. member.card = due.card \/ "card" \in stale
      BY <1>1 DEF CardsAgree
    <2>2. member.known => member.membership = due.membership \/ "membership" \in stale
      BY <1>1 DEF NewsAgree, Waits
    <2>3. QED BY <2>1, <2>2
  <1>4. MembersOf(c)!SeldomAsked
    BY <1>1 DEF AsksAgree, MembersOf!SeldomAsked, MembersOf!AskedOnce
  <1>5. QED BY <1>1, <1>2, <1>3, <1>4 DEF MembersOf!MembersKept

\* What is remembered of a member is what was said of it last (a name, facts, how
\* close it came, its card, whether it is there), and it is asked for its name once,
\* unless an older copy of the row was saved over what was newer, for any number of
\* replies, notices, lists and edits (repositories/runtime_state.py).
THEOREM MembersCorrect ==
  ASSUME NEW c, Cast(c)
  PROVE  MembersOf(c)!Spec => []MembersOf(c)!MembersKept
  BY MemberBegins, MemberSteps, MembersHold, PTL DEF MembersOf!Spec

\* On the instances that are checked.
THEOREM MembersAreKept == MCInit /\ [][MCNext]_MCvars => []MembersKept
  <1> DEFINE Inv == (part = "member" => MemberInv(Alone)) /\ (part = "group" => MemberInv(Group))
  <1>1. Cast(Alone) /\ Cast(Group)
    BY MembersAssumption DEF Cast, Alone, Group
  <1>2. MCInit => Inv
    BY <1>1, MemberBegins DEF MCInit
  <1>3. Inv /\ [MCNext]_MCvars => Inv'
    <2> SUFFICES ASSUME Inv, [MCNext]_MCvars PROVE Inv'
      OBVIOUS
    <2>1. part' = "member" => part = "member" /\ (MembersOf(Alone)!Next \/ UNCHANGED MembersOf(Alone)!vars)
      BY DEF MCNext, MCvars, Of, Members, membersOnly, MembersOf!vars, MembersOf!rows, MembersOf!chat,
             MembersOf!outside, MembersOf!ghosts
    <2>2. part' = "group" => part = "group" /\ (MembersOf(Group)!Next \/ UNCHANGED MembersOf(Group)!vars)
      BY DEF MCNext, MCvars, Of, Members, membersOnly, MembersOf!vars, MembersOf!rows, MembersOf!chat,
             MembersOf!outside, MembersOf!ghosts
    <2>3. QED BY <1>1, <2>1, <2>2, MemberSteps
  <1>4. Inv => MembersKept
    BY MembersHold DEF MembersKept
  <1>5. QED BY <1>2, <1>3, <1>4, PTL

Phases == {"unused", "ready", "trying", "noticing", "greeting", "done", "cancelled"}
ReplyPhases == {"away", "held", "leased", "replying", "done", "refused"}

\* A switch that was asked for names a character, and only such a one has a
\* thread.
SwitchInv ==
  /\ \A s \in Switches : switch[s].phase # "unused" => switch[s].to \in Characters
  /\ \A s \in threads : switch[s].phase # "unused"

TypeInv == TypeOK /\ SwitchInv

-----------------------------------------------------------------------------
(* Type correctness *)

LEMMA PersonasTypeInit == ASSUME Init PROVE TypeInv
  BY PersonasAssumption DEF Init, TypeInv, TypeOK, SwitchInv, Someone

LEMMA MessagesKeepType ==
    ASSUME TypeInv, NEW m \in Messages, Arrive(m) \/ Handle(m) PROVE TypeInv'
  <1> USE DEF TypeInv, TypeOK, Someone
  <1>1. UNCHANGED <<switch, threads, current, server>>
    BY DEF Arrive, Handle, Refuse, Lease, Begin, Answer, WorkDone
  <1>2. SwitchInv'
    BY <1>1 DEF SwitchInv
  <1>3. active' \in Characters /\ bound' \in Characters
    BY DEF Arrive, Handle, Refuse, Lease, Begin, Answer, WorkDone, stores
  <1>4. reply' \in [Messages -> [phase : ReplyPhases, as : Someone]]
    BY DEF Arrive, Handle, Refuse, Lease, Begin, Answer, Finish, WorkDone, ReplyPhases
  <1>5. work' \in [Messages -> [phase : {"none", "pending", "done"}, as : Someone]]
    BY DEF Arrive, Handle, Refuse, Lease, Begin, Answer, Finish, WorkDone
  <1>6. QED BY <1>1, <1>2, <1>3, <1>4, <1>5 DEF ReplyPhases

LEMMA CommandKeepsType ==
    ASSUME TypeInv, NEW m \in Messages, NEW s \in Switches, NEW c \in Characters, Command(m, s, c)
    PROVE  TypeInv'
  <1> USE DEF TypeInv, TypeOK, Someone, Command
  <1>1. reply' \in [Messages -> [phase : ReplyPhases, as : Someone]]
    BY ZenonT(40) DEF Finish, ReplyPhases
  <1>2. \A t \in Switches : switch'[t] \in [phase : Phases, to : Someone]
    BY DEF Phases, Unfinished
  <1>3. switch' = [t \in Switches |-> switch'[t]]
    OBVIOUS
  <1>4. switch' \in [Switches -> [phase : Phases, to : Someone]]
    BY <1>2, <1>3
  <1>5. SwitchInv'
    BY DEF SwitchInv, Unfinished
  <1>6. QED BY <1>1, <1>4, <1>5 DEF stores, Phases, ReplyPhases

LEMMA SwitchKeepsType ==
    ASSUME TypeInv, NEW s \in Switches, Try(s) \/ Thread(s) \/ Said(s) PROVE TypeInv'
  <1> USE DEF TypeInv, TypeOK, Someone
  <1>1. UNCHANGED <<reply, work, current, server>>
    BY DEF Try, Thread, StillBusy, Activated, ActivationFails, Said
  <1>2. s \in threads => switch[s].to \in Characters
    BY DEF SwitchInv
  <1>3. active' \in Characters /\ bound' \in Characters
    BY <1>2 DEF Try, Thread, StillBusy, Activated, ActivationFails, Activate, Said, stores
  <1>4. threads' \subseteq Switches 
    BY DEF Try, Thread, StillBusy, Activated, ActivationFails, Said
  <1>5. \/ switch' = switch
        \/ \E p \in Phases \ {"unused"} : switch' = [switch EXCEPT ![s].phase = p]
    BY <1>2 DEF Try, Thread, StillBusy, Activated, ActivationFails, Said, Moves, Phases
  <1>6. switch[s].phase # "unused" /\ \A t \in threads' : t \in threads \/ t = s
    BY DEF Try, Thread, StillBusy, Activated, ActivationFails, Said, SwitchInv
  <1>7. switch \in [Switches -> [phase : Phases, to : Someone]]
    BY DEF Phases
  <1>8. /\ switch' \in [Switches -> [phase : Phases, to : Someone]]
        /\ \A t \in Switches : switch'[t].to = switch[t].to
        /\ \A t \in Switches : switch'[t].phase = "unused" <=> switch[t].phase = "unused"
    <2>1. CASE switch' = switch
      BY <1>7, <2>1
    <2>2. ASSUME NEW p \in Phases \ {"unused"}, switch' = [switch EXCEPT ![s].phase = p]
          PROVE  <1>8!1 /\ <1>8!2 /\ <1>8!3
      BY <1>6, <1>7, <2>2
    <2>3. QED BY <1>5, <2>1, <2>2
  <1>10. SwitchInv'
    BY <1>6, <1>8 DEF SwitchInv
  <1>11. QED BY <1>1, <1>3, <1>4, <1>8, <1>10 DEF Phases

LEMMA ServerKeepsType ==
    ASSUME TypeInv,
           \/ BeginShutdown \/ Drained \/ DrainTimesOut \/ Close
           \/ \E c \in Characters : ConsoleSwitch(c)
    PROVE  TypeInv'
  <1> USE DEF TypeInv, TypeOK, Someone
  <1>1. CASE Drained
    <2>1. switch' \in [Switches -> [phase : Phases, to : Someone]]
      BY <1>1 DEF Drained, Phases, Unfinished
    <2>2. reply' \in [Messages -> [phase : ReplyPhases, as : Someone]]
      <3>1. reply' = [m \in Messages |->
              IF reply[m].phase = "held" THEN [reply[m] EXCEPT !.phase = "refused"] ELSE reply[m]]
        BY <1>1 DEF Drained
      <3>2. reply \in [Messages -> [phase : ReplyPhases, as : Someone]]
        BY DEF ReplyPhases
      <3>3. QED BY ONLY <3>1, <3>2 DEF ReplyPhases
    <2>3. SwitchInv'
      BY <1>1 DEF Drained, SwitchInv, Unfinished
    <2>4. QED BY <1>1, <2>1, <2>2, <2>3 DEF Drained, stores, Phases, ReplyPhases
  <1>2. CASE BeginShutdown \/ DrainTimesOut \/ Close
    BY <1>2 DEF BeginShutdown, DrainTimesOut, Close, stores, SwitchInv
  <1>3. ASSUME NEW c \in Characters, ConsoleSwitch(c) PROVE TypeInv'
    BY <1>3 DEF ConsoleSwitch, Activate, SwitchInv
  <1>4. QED BY <1>1, <1>2, <1>3

LEMMA PersonasTypeStep == ASSUME TypeInv, [Next]_vars PROVE TypeInv'
  <1>1. CASE UNCHANGED vars
    BY <1>1 DEF TypeInv, TypeOK, SwitchInv, vars, stores
  <1>2. QED
    BY <1>1, MessagesKeepType, CommandKeepsType, SwitchKeepsType, ServerKeepsType DEF Next

\* The characters, the messages and the switches keep their types (WaifuService,
\* CharacterSwitcher).
THEOREM PersonasTypeCorrect == Spec => []TypeOK
  <1>1. TypeInv => TypeOK
    BY DEF TypeInv
  <1>2. QED BY <1>1, PersonasTypeInit, PersonasTypeStep, PTL DEF Spec

-----------------------------------------------------------------------------
(* One voice *)

\* While anything runs, the stores are those of the active character, and all
\* that runs is of this character.
LeaseInv ==
  /\ Busy => bound = active
  /\ \A m \in Messages : reply[m].phase = "replying" => reply[m].as = active
  /\ \A m \in Messages : work[m].phase = "pending" => work[m].as = active

\* Nothing starts once the server has seen that nothing runs.
StoppedInv == server \in {"idle", "closed"} => ~Busy

VoiceInv == TypeInv /\ LeaseInv /\ StoppedInv

LEMMA SameBusy == ASSUME UNCHANGED <<reply, work>> PROVE Busy' <=> Busy
  BY DEF Busy, ActiveEvents, Pending

LEMMA VoiceInit == ASSUME Init PROVE VoiceInv
  <1>1. TypeInv
    BY PersonasTypeInit
  <1>2. QED BY <1>1 DEF Init, VoiceInv, LeaseInv, StoppedInv

LEMMA VoiceStep == ASSUME VoiceInv, [Next]_vars PROVE VoiceInv'
  <1> USE DEF VoiceInv
  <1>0. TypeInv'
    BY PersonasTypeStep
  <1>1. ASSUME NEW m \in Messages, Arrive(m) \/ Refuse(m) PROVE LeaseInv' /\ StoppedInv'
    <2>1. \A n \in Messages : /\ reply'[n].as = reply[n].as /\ work'[n] = work[n]
                              /\ reply'[n].phase \in {"leased", "replying"} <=>
                                 reply[n].phase \in {"leased", "replying"}
                              /\ reply'[n].phase = "replying" => reply[n].phase = "replying"
      BY <1>1 DEF TypeInv, TypeOK, Arrive, Refuse
    <2>2. Busy' <=> Busy
      BY <2>1 DEF Busy, ActiveEvents, Pending
    <2>3. UNCHANGED <<active, bound, server>>
      BY <1>1 DEF Arrive, Refuse, stores
    <2>4. QED BY <2>1, <2>2, <2>3 DEF LeaseInv, StoppedInv
  <1>2. ASSUME NEW m \in Messages, Lease(m) PROVE LeaseInv' /\ StoppedInv'
    BY <1>2 DEF TypeInv, TypeOK, Lease, LeaseInv, StoppedInv, Busy, Closing
  <1>3. ASSUME NEW m \in Messages, Begin(m) PROVE LeaseInv' /\ StoppedInv'
    <2>1. Busy
      BY <1>3 DEF Begin, Busy, ActiveEvents
    <2>2. QED BY <1>3, <2>1 DEF TypeInv, TypeOK, Begin, stores, LeaseInv, StoppedInv
  <1>4. ASSUME NEW m \in Messages, Answer(m) PROVE LeaseInv' /\ StoppedInv'
    <2>1. Busy
      BY <1>4 DEF Answer, Busy, ActiveEvents
    <2>2. QED BY <1>4, <2>1 DEF TypeInv, TypeOK, Answer, Finish, stores, LeaseInv, StoppedInv
  <1>5. ASSUME NEW m \in Messages, WorkDone(m) PROVE LeaseInv' /\ StoppedInv'
    <2>1. Busy
      BY <1>5 DEF WorkDone, Busy, Pending
    <2>2. QED BY <1>5, <2>1 DEF TypeInv, TypeOK, WorkDone, stores, LeaseInv, StoppedInv
  <1>6. ASSUME NEW m \in Messages, NEW s \in Switches, NEW c \in Characters, Command(m, s, c)
        PROVE LeaseInv' /\ StoppedInv'
    <2>1. Busy
      BY <1>6 DEF Command, Busy, ActiveEvents
    <2>2. QED BY <1>6, <2>1 DEF TypeInv, TypeOK, Command, Finish, stores, LeaseInv, StoppedInv
  <1>7. ASSUME NEW s \in Switches, Try(s) \/ StillBusy(s) \/ Said(s) PROVE LeaseInv' /\ StoppedInv'
    BY <1>7 DEF Try, StillBusy, Said, stores, LeaseInv, StoppedInv, Busy, ActiveEvents, Pending
  <1>8. ASSUME ~Busy, UNCHANGED <<reply, work, server>> PROVE LeaseInv' /\ StoppedInv'
    BY <1>8 DEF LeaseInv, StoppedInv, Busy, ActiveEvents, Pending
  <1>9. ASSUME NEW s \in Switches, Activated(s) \/ ActivationFails(s) PROVE LeaseInv' /\ StoppedInv'
    BY <1>8, <1>9 DEF Activated, ActivationFails, Activate
  <1>10. ASSUME NEW c \in Characters, ConsoleSwitch(c) PROVE LeaseInv' /\ StoppedInv'
    BY <1>8, <1>10 DEF ConsoleSwitch, Activate
  <1>11. CASE BeginShutdown \/ DrainTimesOut \/ Close
    <2>1. Busy' <=> Busy
      BY <1>11, SameBusy DEF BeginShutdown, DrainTimesOut, Close
    <2>2. QED BY <1>0, <1>11, <2>1 DEF BeginShutdown, DrainTimesOut, Close, stores, LeaseInv, StoppedInv
  <1>12. CASE Drained
    <2>1. ~Busy
      BY <1>12 DEF Drained, Busy
    <2>2. \A m \in Messages : reply'[m].phase \notin {"leased", "replying"}
      BY <1>12 DEF TypeInv, TypeOK, Drained, ActiveEvents
    <2>3. ~Busy'
      BY <1>12, <2>1, <2>2 DEF Drained, Busy, ActiveEvents, Pending
    <2>4. LeaseInv'
      BY <1>12, <2>2, <2>3 DEF Drained, stores, LeaseInv
    <2>5. QED BY <1>0, <2>3, <2>4 DEF StoppedInv
  <1>13. CASE UNCHANGED vars
    <2>1. Busy' <=> Busy
      BY <1>13, SameBusy DEF vars
    <2>2. QED BY <1>0, <1>13, <2>1 DEF vars, stores, LeaseInv, StoppedInv
  <1>14. QED
    BY <1>0, <1>1, <1>2, <1>3, <1>4, <1>5, <1>6, <1>7, <1>9, <1>10, <1>11, <1>12, <1>13
    DEF Next, Handle, Thread

LEMMA VoiceCorrect == Spec => []VoiceInv
  <1>1. QED BY VoiceInit, VoiceStep, PTL DEF Spec

\* No switch, from wherever and however it ends, moves the stores under a reply
\* or a write-back (runtime_mutation, _process_event_async).
THEOREM StoresFollowReplies == Spec => []OneVoice
  <1>1. VoiceInv => OneVoice
    BY DEF VoiceInv, LeaseInv, OneVoice, Busy, ActiveEvents, Pending
  <1>2. QED BY <1>1, VoiceCorrect, PTL

\* The stores are closed when nothing runs any more (_cleanup, close).
THEOREM StoresCloseLast == Spec => []ClosedLast
  <1>1. VoiceInv => ClosedLast
    BY DEF VoiceInv, StoppedInv, ClosedLast, Busy
  <1>2. QED BY <1>1, VoiceCorrect, PTL

\* Together, with their types.
THEOREM PersonasCorrect == Spec => []StoresAgree
  <1>1. QED BY PersonasTypeCorrect, StoresFollowReplies, StoresCloseLast, PTL DEF StoresAgree
=============================================================================
