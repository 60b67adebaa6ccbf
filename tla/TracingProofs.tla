---------------------------- MODULE TracingProofs ----------------------------
(***************************************************************************)
(* Proofs about ClockSync and Tracing, for every size of the communicator, *)
(* all clocks and times of messages, every size of the buffers, of the     *)
(* records and of the job.                                                 *)
(*                                                                         *)
(* The clock synchronisation hands out the right differences.  The proof   *)
(* goes in three layers: the tree of ranks as numbers, in which every      *)
(* session is that of one pair of ranks; the messages of each pair, which  *)
(* are those its two ranks exchange where they are (Linked); and the       *)
(* values, that is, how exactly each rank knows the clocks of which other  *)
(* ranks, by the measurements on the way to them (Valued).                 *)
(*                                                                         *)
(* The trace file has every line that was logged, once and in order,       *)
(* however the user thread and the writer interleave.  That invariant      *)
(* (IInv) says which permits the two semaphores hold for each pair of      *)
(* states of the two threads, that a writer at rest has left the spare     *)
(* buffer empty, and that the user thread logs nothing once its rank has   *)
(* entered the synchronisation of MPI_Finalize.                            *)
(***************************************************************************)
EXTENDS Tracing, SequenceTheorems, FiniteSetTheorems, WellFoundedInduction, TLAPS


-----------------------------------------------------------------------------
(* Numbers: least elements, recursion, powers of two and remainders        *)

(* Every set of numbers that is not empty has a least one.                 *)
LEMMA LeastOne ==
    ASSUME NEW T, T \subseteq Nat, T # {}
    PROVE  \E x \in T : \A y \in T : x <= y
  <1>1. PICK x \in T : \A y \in T : ~(<<y, x>> \in OpToRel(<, Nat))
    BY NatLessThanWellFounded, WFMin
  <1>2. \A y \in T : ~(y < x)
    BY <1>1 DEF OpToRel
  <1> QED BY <1>2

(* A function that is defined by recursion on smaller numbers exists,      *)
LEMMA RecursionExists ==
    ASSUME NEW D \in SUBSET Nat, NEW b \in Int, NEW par \in [D -> Nat],
           \A x \in D \ {0} : par[x] \in D /\ par[x] < x,
           NEW G \in [D -> [Int -> Int]]
    PROVE  \E f \in [D -> Int] : \A x \in D : f[x] = IF x = 0 THEN b ELSE G[x][f[par[x]]]
  <1> DEFINE Rule(f, x) == f[x] = IF x = 0 THEN b ELSE G[x][f[par[x]]]
             Upto(n, f) == f \in [D -> Int] /\ \A x \in D : x <= n => Rule(f, x)
  <1>1. ASSUME NEW n \in Nat PROVE \E f : Upto(n, f)
    <2> SUFFICES ASSUME ~\E f : Upto(n, f) PROVE FALSE
      OBVIOUS
    <2> DEFINE T == {m \in Nat : ~\E f : Upto(m, f)}
    <2>1. PICK m \in T : \A k \in T : m <= k
      <3>1. T \subseteq Nat /\ T # {}
        OBVIOUS
      <3> HIDE DEF T
      <3> QED  BY <3>1, LeastOne
    <2>2. m \in Nat /\ ~\E f : Upto(m, f)
      OBVIOUS
    <2>3. \A k \in Nat : k < m => \E f : Upto(k, f)
      <3> SUFFICES ASSUME NEW k \in Nat, k < m, ~\E f : Upto(k, f) PROVE FALSE
        OBVIOUS
      <3>1. k \in T
        OBVIOUS
      <3> HIDE DEF T
      <3> QED  BY <2>1, <2>2, <3>1
    <2> HIDE DEF T
    <2>4. CASE m = 0
      <3>1. Upto(0, [x \in D |-> b])
        OBVIOUS
      <3> QED  BY <2>2, <2>4, <3>1
    <2>5. CASE m # 0
      <3>1. PICK f : Upto(m - 1, f)
        <4>1. m - 1 \in Nat /\ m - 1 < m
          BY <2>2, <2>5
        <4> HIDE DEF Upto
        <4> QED  BY <2>3, <4>1
      <3>2. CASE m \notin D
        <4>1. \A x \in D : x <= m => x <= m - 1
          <5> TAKE x \in D
          <5>1. x \in Nat /\ x # m
            BY <3>2
          <5> QED  BY <2>2, <5>1
        <4>2. Upto(m, f)
          BY <3>1, <4>1
        <4> HIDE DEF Upto
        <4> QED  BY <2>2, <4>2
      <3>3. CASE m \in D
        <4>1. par[m] \in D /\ f[par[m]] \in Int /\ G[m] \in [Int -> Int]
          BY <2>5, <3>1, <3>3
        <4>2. PICK v \in Int : v = G[m][f[par[m]]]
          BY <4>1
        <4>3. PICK g : g = [f EXCEPT ![m] = v]
          OBVIOUS
        <4>4. g \in [D -> Int]
          BY <3>1, <4>2, <4>3
        <4>5. \A x \in D : x # m => g[x] = f[x]
          BY <3>1, <4>3
        <4>6. g[m] = v
          BY <3>1, <3>3, <4>3
        <4>7. ASSUME NEW x \in D, x <= m PROVE Rule(g, x)
          <5>1. CASE x = m
            <6>1. g[par[m]] = f[par[m]]
              <7>1. par[m] < m /\ par[m] \in Nat
                BY <2>5, <3>3
              <7> QED  BY <2>2, <4>1, <4>5, <7>1
            <6> QED  BY <2>5, <4>2, <4>6, <5>1, <6>1
          <5>2. CASE x # m
            <6>1. Rule(f, x) /\ g[x] = f[x]
              BY <2>2, <3>1, <4>5, <4>7, <5>2
            <6>2. x # 0 => g[par[x]] = f[par[x]]
              BY <2>2, <4>5, <4>7, <5>2
            <6> QED  BY <6>1, <6>2
          <5> QED  BY <5>1, <5>2
        <4> QED  BY <2>2, <4>4, <4>7
      <3> QED  BY <3>2, <3>3
    <2> QED  BY <2>4, <2>5
  <1>2. ASSUME NEW m \in Nat, NEW n \in Nat, NEW f, NEW g, Upto(m, f), Upto(n, g),
               NEW x \in D, x <= m, x <= n
        PROVE  f[x] = g[x]
    <2> SUFFICES ASSUME f[x] # g[x] PROVE FALSE
      OBVIOUS
    <2> DEFINE T == {y \in D : y <= m /\ y <= n /\ f[y] # g[y]}
    <2>1. PICK y \in T : \A z \in T : y <= z
      <3>1. T \subseteq Nat /\ T # {}
        BY <1>2
      <3> HIDE DEF T
      <3> QED  BY <3>1, LeastOne
    <2>2. y \in D /\ y \in Nat /\ y <= m /\ y <= n /\ f[y] # g[y]
      OBVIOUS
    <2>3. Rule(f, y) /\ Rule(g, y)
      BY <1>2, <2>2
    <2>4. y # 0 /\ par[y] \in D /\ par[y] < y /\ par[y] \in Nat
      BY <2>2, <2>3
    <2>5. f[par[y]] # g[par[y]]
      BY <2>2, <2>3, <2>4
    <2>6. par[y] \in T
      BY <1>2, <2>2, <2>4, <2>5
    <2> HIDE DEF T
    <2> QED  BY <2>1, <2>2, <2>4, <2>6
  <1> DEFINE F(n) == CHOOSE f : Upto(n, f)
             h == [x \in D |-> F(x)[x]]
  <1>3. \A n \in Nat : Upto(n, F(n))
    BY <1>1
  <1> HIDE DEF F
  <1>4. ASSUME NEW x \in D PROVE h[x] = IF x = 0 THEN b ELSE G[x][h[par[x]]]
    <2>1. Rule(F(x), x)
      BY <1>3, <1>4
    <2>2. ASSUME x # 0 PROVE F(x)[par[x]] = F(par[x])[par[x]]
      <3>1. x \in Nat /\ par[x] \in Nat /\ par[x] \in D /\ par[x] <= x /\ par[x] <= par[x]
        BY <2>2
      <3>2. Upto(x, F(x)) /\ Upto(par[x], F(par[x]))
        BY <1>3, <3>1
      <3> HIDE DEF Upto
      <3> QED  BY <1>2, <3>1, <3>2
    <2>3. h[x] = F(x)[x] /\ (x # 0 => h[par[x]] = F(par[x])[par[x]])
      OBVIOUS
    <2> HIDE DEF h
    <2> QED  BY <2>1, <2>2, <2>3
  <1>5. h \in [D -> Int]
    <2>1. \A x \in D : F(x)[x] \in Int
      BY <1>3
    <2> QED  BY <2>1
  <1> HIDE DEF h
  <1> QED  BY <1>4, <1>5

(* Pow2 follows its own rule.                                              *)
LEMMA PowerRule ==
    Pow2 = [k \in Nat |-> IF k = 0 THEN 1 ELSE 2 * Pow2[k - 1]]
  <1> DEFINE par == [x \in Nat |-> IF x = 0 THEN 0 ELSE x - 1]
             G == [x \in Nat |-> [v \in Int |-> 2 * v]]
  <1>1. /\ par \in [Nat -> Nat] /\ \A x \in Nat \ {0} : par[x] \in Nat /\ par[x] < x
        /\ G \in [Nat -> [Int -> Int]] /\ Nat \in SUBSET Nat /\ 1 \in Int
    OBVIOUS
  <1>2. \A x \in Nat : x # 0 => par[x] = x - 1
    OBVIOUS
  <1>3. \A x \in Nat, v \in Int : G[x][v] = 2 * v
    OBVIOUS
  <1> HIDE DEF par, G
  <1>4. PICK f \in [Nat -> Int] :
          \A x \in Nat : f[x] = IF x = 0 THEN 1 ELSE G[x][f[par[x]]]
    BY <1>1, RecursionExists
  <1>6. ASSUME NEW k \in Nat PROVE f[k] = IF k = 0 THEN 1 ELSE 2 * f[k - 1]
    <2>1. f[k] = IF k = 0 THEN 1 ELSE G[k][f[par[k]]]
      BY <1>4
    <2>2. k # 0 => par[k] = k - 1 /\ f[k - 1] \in Int
      BY <1>2
    <2> QED  BY <1>3, <2>1, <2>2
  <1>7. f = [k \in Nat |-> f[k]]
    OBVIOUS
  <1>8. f = [k \in Nat |-> IF k = 0 THEN 1 ELSE 2 * f[k - 1]]
    BY <1>6, <1>7
  <1> QED  BY <1>8 DEF Pow2

(* Powers of two are positive, and each is twice the one before.           *)
LEMMA PowerFacts ==
    /\ Pow2[0] = 1 /\ \A k \in Nat : Pow2[k + 1] = 2 * Pow2[k]
    /\ \A k \in Nat : Pow2[k] \in Nat \ {0} /\ k < Pow2[k]
  <1>1. \A k \in Nat : Pow2[k] = IF k = 0 THEN 1 ELSE 2 * Pow2[k - 1]
    BY PowerRule
  <1>2. Pow2[0] = 1
    BY <1>1
  <1>3. ASSUME NEW k \in Nat PROVE Pow2[k + 1] = 2 * Pow2[k]
    <2>1. k + 1 \in Nat /\ k + 1 # 0 /\ (k + 1) - 1 = k
      OBVIOUS
    <2> QED  BY <1>1, <2>1
  <1>4. ASSUME NEW k \in Nat, ~(Pow2[k] \in Nat \ {0} /\ k < Pow2[k]) PROVE FALSE
    <2> DEFINE T == {j \in Nat : ~(Pow2[j] \in Nat \ {0} /\ j < Pow2[j])}
    <2>1. PICK j \in T : \A i \in T : j <= i
      <3>1. T \subseteq Nat /\ T # {}
        BY <1>4
      <3> HIDE DEF T
      <3> QED  BY <3>1, LeastOne
    <2>2. j \in Nat /\ ~(Pow2[j] \in Nat \ {0} /\ j < Pow2[j])
      OBVIOUS
    <2>3. j # 0
      BY <1>2, <2>2
    <2>4. PICK i \in Nat : j = i + 1
      <3>1. j - 1 \in Nat /\ j = (j - 1) + 1
        BY <2>2, <2>3
      <3> QED  BY <3>1
    <2>5. i \notin T
      <3> HIDE DEF T
      <3> QED  BY <2>1, <2>4
    <2>6. Pow2[i] \in Nat \ {0} /\ i < Pow2[i]
      BY <2>5
    <2> HIDE DEF T
    <2> QED  BY <1>3, <2>2, <2>4, <2>6
  <1> QED  BY <1>2, <1>3, <1>4

(* A larger power of two is a multiple of a smaller one.                   *)
LEMMA PowerSplit ==
    ASSUME NEW j \in Nat, NEW k \in Nat, j <= k
    PROVE  \E q \in Nat \ {0} : Pow2[k] = Pow2[j] * q
  <1> SUFFICES ASSUME ~\E q \in Nat \ {0} : Pow2[k] = Pow2[j] * q PROVE FALSE
    OBVIOUS
  <1> DEFINE T == {i \in Nat : j <= i /\ ~\E q \in Nat \ {0} : Pow2[i] = Pow2[j] * q}
  <1>1. PICK i \in T : \A h \in T : i <= h
    <2>1. T \subseteq Nat /\ T # {}
      OBVIOUS
    <2> HIDE DEF T
    <2> QED  BY <2>1, LeastOne
  <1>2. i \in Nat /\ j <= i /\ ~\E q \in Nat \ {0} : Pow2[i] = Pow2[j] * q
    OBVIOUS
  <1>3. i # j
    <2>1. Pow2[j] = Pow2[j] * 1
      BY PowerFacts
    <2> QED  BY <1>2, <2>1
  <1>4. PICK h \in Nat : i = h + 1
    <2>1. i - 1 \in Nat /\ i = (i - 1) + 1
      BY <1>2, <1>3
    <2> QED  BY <2>1
  <1>5. h \notin T /\ j <= h
    <2> HIDE DEF T
    <2> QED  BY <1>1, <1>2, <1>3, <1>4
  <1>6. PICK q \in Nat \ {0} : Pow2[h] = Pow2[j] * q
    BY <1>5
  <1>7. Pow2[i] = 2 * Pow2[h] /\ Pow2[j] \in Nat
    BY <1>4, PowerFacts
  <1>8. Pow2[i] = Pow2[j] * (2 * q) /\ 2 * q \in Nat \ {0}
    <2>1. PICK m \in Nat : m = Pow2[j]
      BY <1>7
    <2>2. 2 * (m * q) = m * (2 * q)
      OBVIOUS
    <2> QED  BY <1>6, <1>7, <2>1, <2>2
  <1> QED  BY <1>2, <1>8

(* Smaller powers are smaller.                                             *)
LEMMA PowerGrows ==
    ASSUME NEW j \in Nat, NEW k \in Nat, j <= k
    PROVE  Pow2[j] <= Pow2[k]
  <1>1. PICK q \in Nat \ {0} : Pow2[k] = Pow2[j] * q
    BY PowerSplit
  <1>2. PICK m \in Nat : m = Pow2[j]
    BY PowerFacts
  <1>3. PICK d \in Nat : q = d + 1
    <2>1. q - 1 \in Nat /\ q = (q - 1) + 1
      OBVIOUS
    <2> QED  BY <2>1
  <1>4. m * (d + 1) = m * d + m /\ m * d \in Nat
    OBVIOUS
  <1> QED  BY <1>1, <1>2, <1>3, <1>4

(* Every size lies between two powers of two.                              *)
LEMMA LogExists ==
    ASSUME NEW n \in Nat, n >= 2
    PROVE  \E k \in 1..n : Pow2[k] <= n /\ Pow2[k + 1] > n
  <1> DEFINE T == {k \in Nat : Pow2[k] > n}
  <1>1. n \in T
    BY PowerFacts
  <1>2. PICK k \in T : \A j \in T : k <= j
    <2>1. T \subseteq Nat /\ T # {}
      BY <1>1
    <2> HIDE DEF T
    <2> QED  BY <2>1, LeastOne
  <1>3. k \in Nat /\ Pow2[k] > n /\ k <= n
    BY <1>1, <1>2
  <1>4. Pow2[0] = 1 /\ Pow2[1] = 2
    <2>1. Pow2[0 + 1] = 2 * Pow2[0] /\ Pow2[0] = 1
      BY PowerFacts
    <2> QED  BY <2>1
  <1>5. k # 0 /\ k # 1
    BY <1>3, <1>4
  <1>6. PICK j \in Nat : k = j + 1
    <2>1. k - 1 \in Nat /\ k = (k - 1) + 1
      BY <1>3, <1>5
    <2> QED  BY <2>1
  <1>7. j \notin T
    <2> HIDE DEF T
    <2> QED  BY <1>2, <1>6
  <1>8. Pow2[j] <= n
    <2>1. Pow2[j] \in Nat
      BY PowerFacts
    <2> QED  BY <1>7, <2>1
  <1> QED  BY <1>3, <1>5, <1>6, <1>8

-----------------------------------------------------------------------------
(* Multiples                                                               *)

(* Division with remainder                                                 *)
LEMMA DivisionRemains ==
    ASSUME NEW a \in Nat, NEW b \in Nat \ {0}
    PROVE  \E q \in Nat, r \in 0..(b - 1) : a = b * q + r /\ a % b = r
  <1>1. a \div b \in Nat /\ a % b \in 0..(b - 1) /\ a = b * (a \div b) + (a % b)
    OBVIOUS
  <1> QED  BY <1>1

(* A remainder is recognised by its range.                                 *)
LEMMA RemainderIs ==
    ASSUME NEW b \in Nat \ {0}, NEW q \in Nat, NEW r \in 0..(b - 1),
           NEW a \in Nat, a = b * q + r
    PROVE  a % b = r
  <1>1. PICK p1 \in Nat, s \in 0..(b - 1) : a = b * p1 + s /\ a % b = s
    BY DivisionRemains
  <1>2. ~(q < p1)
    <2> SUFFICES ASSUME q + 1 <= p1 PROVE FALSE
      OBVIOUS
    <2>1. b * (q + 1) <= b * p1
      OBVIOUS
    <2>2. b * (q + 1) = b * q + b
      OBVIOUS
    <2> QED BY <1>1, <2>1, <2>2
  <1>3. ~(p1 < q)
    <2> SUFFICES ASSUME p1 + 1 <= q PROVE FALSE
      OBVIOUS
    <2>1. b * (p1 + 1) <= b * q
      OBVIOUS
    <2>2. b * (p1 + 1) = b * p1 + b
      OBVIOUS
    <2> QED BY <1>1, <2>1, <2>2
  <1> QED BY <1>1, <1>2, <1>3

(* No remainder means a multiple.                                          *)
LEMMA MultipleIs ==
    ASSUME NEW a \in Nat, NEW b \in Nat \ {0}
    PROVE  (a % b = 0) <=> (\E q \in Nat : a = b * q)
  <1>1. ASSUME a % b = 0 PROVE \E q \in Nat : a = b * q
    <2>1. PICK q \in Nat, r \in 0..(b - 1) : a = b * q + r /\ a % b = r
      BY DivisionRemains
    <2>2. r = 0 /\ b * q \in Nat
      BY <1>1, <2>1
    <2> QED  BY <2>1, <2>2
  <1>2. ASSUME NEW q \in Nat, a = b * q PROVE a % b = 0
    <2>1. b * q \in Nat /\ a = b * q + 0 /\ 0 \in 0..(b - 1)
      BY <1>2
    <2> QED  BY <2>1, RemainderIs
  <1> QED  BY <1>1, <1>2

(* A multiple of m is one of 2 * m or m more than one.                     *)
LEMMA EvenOrOdd ==
    ASSUME NEW a \in Nat, NEW m \in Nat \ {0}
    PROVE  /\ a % m = 0 => a % (2 * m) = 0 \/ (a % (2 * m) = m /\ a >= m /\ (a - m) % (2 * m) = 0)
           /\ a % (2 * m) = 0 => a % m = 0
           /\ a % (2 * m) = m => a % m = 0
           /\ a % (2 * m) = 0 => (a + m) % (2 * m) = m /\ (a + m) % m = 0
  <1> DEFINE d == 2 * m
  <1>1. d \in Nat \ {0} /\ d = 2 * m /\ m \in 0..(d - 1) /\ m # 0
    OBVIOUS
  <1>2. \A q \in Nat : d * q = m * (2 * q) /\ 2 * q \in Nat /\ d * q \in Nat /\ m * (2 * q + 1) = d * q + m
    OBVIOUS
  <1> HIDE DEF d
  <1>3. ASSUME a % m = 0 PROVE a % d = 0 \/ (a % d = m /\ a >= m /\ (a - m) % d = 0)
    <2>1. PICK q \in Nat : a = m * q
      BY <1>3, MultipleIs
    <2>2. PICK h \in Nat : q = 2 * h \/ q = 2 * h + 1
      <3>1. q \div 2 \in Nat /\ (q = 2 * (q \div 2) \/ q = 2 * (q \div 2) + 1)
        OBVIOUS
      <3> QED  BY <3>1
    <2>3. CASE q = 2 * h
      <3>1. a = d * h
        BY <1>2, <2>1, <2>3
      <3> QED  BY <1>1, <3>1, MultipleIs
    <2>4. CASE q = 2 * h + 1
      <3>1. a = d * h + m /\ d * h \in Nat
        BY <1>2, <2>1, <2>4
      <3>2. a % d = m
        <4>1. a = d * h + m /\ m \in 0..(d - 1) /\ d \in Nat \ {0}
          BY <1>1, <3>1
        <4> QED  BY <4>1, RemainderIs
      <3>3. a - m = d * h /\ a - m \in Nat /\ a >= m
        BY <3>1
      <3>4. (a - m) % d = 0
        BY <1>1, <3>3, MultipleIs
      <3> QED  BY <3>2, <3>3, <3>4
    <2> QED  BY <2>2, <2>3, <2>4
  <1>4. ASSUME a % d = 0 PROVE a % m = 0 /\ (a + m) % d = m /\ (a + m) % m = 0
    <2>1. PICK q \in Nat : a = d * q
      BY <1>1, <1>4, MultipleIs
    <2>2. a = m * (2 * q) /\ 2 * q \in Nat
      BY <1>2, <2>1
    <2>3. a % m = 0
      BY <2>2, MultipleIs
    <2>4. a + m \in Nat /\ a + m = d * q + m
      BY <2>1
    <2>5. (a + m) % d = m
      BY <1>1, <2>4, RemainderIs
    <2>6. a + m = m * (2 * q + 1) /\ 2 * q + 1 \in Nat
      <3>1. m * (2 * q + 1) = d * q + m /\ 2 * q + 1 \in Nat
        BY <1>2
      <3> QED  BY <2>4, <3>1
    <2>7. (a + m) % m = 0
      BY <2>4, <2>6, MultipleIs
    <2> QED  BY <2>3, <2>5, <2>7
  <1>5. ASSUME a % d = m PROVE a % m = 0
    <2>1. PICK q \in Nat, r \in 0..(d - 1) : a = d * q + r /\ a % d = r
      BY <1>1, DivisionRemains
    <2>2. a = m * (2 * q + 1) /\ 2 * q + 1 \in Nat
      BY <1>2, <1>5, <2>1
    <2> QED  BY <2>2, MultipleIs
  <1> QED  BY <1>3, <1>4, <1>5 DEF d

-----------------------------------------------------------------------------
(* The tree of ranks depends on the size of the communicator only.         *)

(* A step that leaves the size alone leaves the tree alone.                *)
LEMMA SameSize ==
    ASSUME p' = p
    PROVE  Log2' = Log2 /\ Power' = Power /\ Members' = Members
  <1>1. Log2' = Log2
    BY DEF Log2
  <1>2. Power' = Power
    BY <1>1 DEF Power
  <1> QED BY <1>1, <1>2 DEF Members

LEMMA SameRounds ==
    ASSUME p' = p, NEW r
    PROVE  Rounds(r)' = Rounds(r) /\ Parent(r)' = Parent(r)
  <1>1. Log2' = Log2 /\ Power' = Power /\ Members' = Members
    BY SameSize
  <1>2. Rounds(r)' = Rounds(r)
    BY <1>1 DEF Rounds
  <1>3. Parent(r)' = Parent(r)
    BY <1>1 DEF Parent
  <1> QED BY <1>2, <1>3

(* How exact a clock is known depends on the size and on the round trips.  *)
LEMMA SameSlack ==
    ASSUME p' = p, hop' = hop
    PROVE  Slack' = Slack
  BY SameSize, SameRounds DEF Slack, Edge, MinLeg

(* A multiple of a power of two is one of every smaller one.               *)
LEMMA MultipleOfSmaller ==
    ASSUME NEW a \in Nat, NEW j \in Nat, NEW k \in Nat, j <= k, a % Pow2[k] = 0
    PROVE  a % Pow2[j] = 0
  <1>1. Pow2[j] \in Nat \ {0} /\ Pow2[k] \in Nat \ {0}
    BY PowerFacts
  <1>2. PICK q \in Nat : a = Pow2[k] * q
    BY <1>1, MultipleIs
  <1>3. PICK h \in Nat \ {0} : Pow2[k] = Pow2[j] * h
    BY PowerSplit
  <1>4. PICK m \in Nat \ {0} : m = Pow2[j]
    BY <1>1
  <1>5. a = m * (h * q) /\ h * q \in Nat
    <2>1. (m * h) * q = m * (h * q) /\ h * q \in Nat
      OBVIOUS
    <2> QED  BY <1>2, <1>3, <1>4, <2>1
  <1> QED  BY <1>4, <1>5, MultipleIs

(* The multiples of a number are that far apart.                           *)
LEMMA MultiplesApart ==
    ASSUME NEW m \in Nat \ {0}, NEW a \in Nat, NEW b \in Nat, a % m = 0, b % m = 0, a < b
    PROVE  a + m <= b
  <1>1. PICK q \in Nat, h \in Nat : a = m * q /\ b = m * h
    BY MultipleIs
  <1>2. q < h
    <2> SUFFICES ASSUME h <= q PROVE FALSE
      BY <1>1
    <2>1. m * h <= m * q
      OBVIOUS
    <2>2. m * h \in Nat /\ m * q \in Nat
      OBVIOUS
    <2> QED  BY <1>1, <2>1, <2>2
  <1>3. m * (q + 1) <= m * h /\ m * (q + 1) = m * q + m
    BY <1>2
  <1> QED  BY <1>1, <1>3

(* The size of the communicator, and the tree's.                           *)
LEMMA SizeFacts ==
    ASSUME p \in Procs
    PROVE  /\ p \in Nat /\ p >= 2 /\ Log2 \in Nat /\ Log2 >= 1 /\ Log2 <= p
           /\ Power = Pow2[Log2] /\ Power \in Nat /\ Power >= 2
           /\ Power <= p /\ p < 2 * Power
  <1>1. p \in Nat /\ p >= 2
    BY SyncAssumption
  <1>2. \E k \in 1..p : Pow2[k] <= p /\ Pow2[k + 1] > p
    BY <1>1, LogExists
  <1>3. Log2 \in 1..p /\ Pow2[Log2] <= p /\ Pow2[Log2 + 1] > p
    BY <1>2 DEF Log2
  <1>4. Log2 \in Nat /\ Log2 >= 1 /\ Log2 <= p
    BY <1>1, <1>3
  <1>5. Pow2[Log2 + 1] = 2 * Pow2[Log2] /\ Pow2[Log2] \in Nat /\ Log2 < Pow2[Log2]
    BY <1>4, PowerFacts
  <1> QED  BY <1>1, <1>3, <1>4, <1>5 DEF Power

-----------------------------------------------------------------------------
(* The rounds of a rank of the tree                                        *)

RoundsOf(r) == {k \in 1..Log2 : r % Pow2[k - 1] = 0}

(* The rounds of a rank are the first ones, up to the power of two it is a *)
(* multiple of.                                                            *)
LEMMA RoundsShape ==
    ASSUME p \in Procs, NEW r \in Nat
    PROVE  /\ Rounds(r) \in 1..Log2
           /\ \A k \in 1..Log2 : k <= Rounds(r) <=> r % Pow2[k - 1] = 0
  <1> DEFINE T == RoundsOf(r)
  <1>1. Log2 \in Nat /\ Log2 >= 1
    BY SizeFacts
  <1>2. \A k \in 1..Log2 : k \in T <=> r % Pow2[k - 1] = 0
    BY DEF RoundsOf
  <1>3. T \subseteq 1..Log2
    BY DEF RoundsOf
  <1>4. 1 \in T
    <2>1. Pow2[1 - 1] = 1 /\ r % 1 = 0
      BY PowerFacts
    <2> QED  BY <1>1, <1>2, <2>1
  <1>5. ASSUME NEW k \in T, k # 1 PROVE k - 1 \in T
    <2>1. k \in 1..Log2 /\ k - 1 \in 1..Log2 /\ k - 1 \in Nat /\ (k - 1) - 1 \in Nat
          /\ (k - 1) - 1 <= k - 1 /\ r % Pow2[k - 1] = 0
      BY <1>1, <1>2, <1>3, <1>5
    <2>2. r % Pow2[(k - 1) - 1] = 0
      BY <2>1, MultipleOfSmaller
    <2> QED  BY <1>2, <2>1, <2>2
  <1> HIDE DEF T
  <1>6. PICK n \in Nat : n \in T /\ \A k \in T : k <= n
    <2> DEFINE U == {i \in Nat : \A k \in T : k <= i}
    <2>1. U \subseteq Nat /\ Log2 \in U
      BY <1>1, <1>3
    <2>2. PICK n \in U : \A i \in U : n <= i
      <3> HIDE DEF U
      <3> QED  BY <2>1, LeastOne
    <2>3. n \in Nat /\ \A k \in T : k <= n
      OBVIOUS
    <2>4. n \in T
      <3> SUFFICES ASSUME n \notin T PROVE FALSE
        OBVIOUS
      <3>1. n - 1 \in Nat
        BY <1>4, <2>3
      <3>2. \A k \in T : k <= n - 1
        <4> TAKE k \in T
        <4>1. k \in Nat /\ k <= n /\ k # n
          BY <1>1, <1>3, <2>3
        <4> QED  BY <2>3, <4>1
      <3>3. n - 1 \in U
        BY <3>1, <3>2
      <3> HIDE DEF U
      <3> QED  BY <2>2, <2>3, <3>3
    <2> QED  BY <2>3, <2>4
  <1>7. n \in 1..Log2
    BY <1>3, <1>6
  <1>8. ASSUME NEW k \in 1..n PROVE k \in T
    <2> SUFFICES ASSUME k \notin T PROVE FALSE
      OBVIOUS
    <2> DEFINE V == {d \in Nat : n - d \in 1..n /\ n - d \notin T}
    <2>1. n - k \in V
      <3>1. n - k \in Nat /\ n - (n - k) = k
        BY <1>6
      <3> QED  BY <3>1
    <2>2. PICK d \in V : \A i \in V : d <= i
      <3>1. V \subseteq Nat
        OBVIOUS
      <3> HIDE DEF V
      <3> QED  BY <2>1, <3>1, LeastOne
    <2>3. d \in Nat /\ n - d \in 1..n /\ n - d \notin T
      OBVIOUS
    <2>4. d # 0
      BY <1>6, <2>3
    <2>5. d - 1 \in Nat /\ n - (d - 1) \in 1..n /\ d - 1 < d
      BY <1>6, <2>3, <2>4
    <2>6. d - 1 \notin V
      <3> HIDE DEF V
      <3> QED  BY <2>2, <2>3, <2>5
    <2>7. n - (d - 1) \in T
      BY <2>5, <2>6
    <2>8. n - (d - 1) # 1 /\ (n - (d - 1)) - 1 = n - d
      BY <1>6, <2>3
    <2> QED  BY <1>5, <2>3, <2>7, <2>8
  <1>9. T = 1..n
    <2>1. ASSUME NEW k \in T PROVE k \in 1..n
      <3>1. k \in 1..Log2 /\ k <= n
        BY <1>3, <1>6, <2>1
      <3> QED  BY <1>1, <1>6, <3>1
    <2> QED  BY <1>8, <2>1
  <1>10. Rounds(r) = n
    <2>1. Rounds(r) = Cardinality(T)
      BY DEF Rounds, T, RoundsOf
    <2>2. Cardinality(1..n) = n
      <3>1. 1 \in Int /\ n \in Int /\ n >= 1
        BY <1>6, <1>7
      <3>2. Cardinality(1..n) = IF 1 > n THEN 0 ELSE n - 1 + 1
        BY <3>1, FS_Interval
      <3> QED  BY <3>1, <3>2
    <2> QED  BY <1>9, <2>1, <2>2
  <1>11. ASSUME NEW k \in 1..Log2 PROVE k <= n <=> r % Pow2[k - 1] = 0
    BY <1>1, <1>2, <1>6, <1>9
  <1> QED  BY <1>7, <1>10, <1>11

(* In which rounds a rank of the tree is a client.                         *)
LEMMA ClientRounds ==
    ASSUME p \in Procs, NEW r \in 0..(Power - 1)
    PROVE  /\ Rounds(r) \in 1..Log2
           /\ r = 0 => Rounds(r) = Log2
           /\ \A k \in 1..Rounds(r) : (r % Pow2[k] = 0) <=> (r = 0 \/ k < Rounds(r))
           /\ r # 0 => /\ r % Pow2[Rounds(r)] = Pow2[Rounds(r) - 1]
                       /\ r >= Pow2[Rounds(r) - 1]
                       /\ (r - Pow2[Rounds(r) - 1]) % Pow2[Rounds(r)] = 0
  <1>1. Log2 \in Nat /\ Log2 >= 1 /\ Power = Pow2[Log2] /\ Power \in Nat
    BY SizeFacts
  <1>2. r \in Nat /\ r < Power
    BY <1>1
  <1>3. PICK n \in 1..Log2 : n = Rounds(r)
    BY <1>2, RoundsShape
  <1>4. \A k \in 1..Log2 : k <= n <=> r % Pow2[k - 1] = 0
    BY <1>2, <1>3, RoundsShape
  <1>5. \A k \in Nat : Pow2[k] \in Nat \ {0}
    BY PowerFacts
  <1>6. ASSUME r = 0, NEW k \in Nat PROVE r % Pow2[k] = 0
    <2>1. PICK m \in Nat \ {0} : m = Pow2[k]
      BY <1>5
    <2>2. 0 = m * 0
      OBVIOUS
    <2> QED  BY <1>6, <2>1, <2>2, MultipleIs
  <1>7. r = 0 => n = Log2
    <2>1. Log2 \in 1..Log2 /\ Log2 - 1 \in Nat /\ n <= Log2 /\ n \in Nat
      BY <1>1
    <2> QED  BY <1>4, <1>6, <2>1, <1>1
  <1>8. ASSUME NEW k \in 1..n, k < n PROVE r % Pow2[k] = 0
    <2>1. k + 1 \in 1..Log2 /\ k + 1 <= n /\ (k + 1) - 1 = k
      BY <1>1, <1>8
    <2> QED  BY <1>4, <2>1
  <1>9. PICK m \in Nat \ {0} : m = Pow2[n - 1] /\ Pow2[n] = 2 * m
    <2>1. n - 1 \in Nat /\ (n - 1) + 1 = n
      BY <1>1
    <2>2. Pow2[(n - 1) + 1] = 2 * Pow2[n - 1] /\ Pow2[n - 1] \in Nat \ {0}
      BY <2>1, PowerFacts
    <2> QED  BY <2>1, <2>2
  <1>10. r % m = 0
    <2>1. n <= n /\ n \in 1..Log2
      BY <1>1
    <2> QED  BY <1>4, <1>9, <2>1
  <1>11. ASSUME r # 0 PROVE r % Pow2[n] # 0
    <2>1. CASE n < Log2
      <3>1. n + 1 \in 1..Log2 /\ ~(n + 1 <= n) /\ (n + 1) - 1 = n
        BY <1>1, <2>1
      <3> QED  BY <1>4, <3>1
    <2>2. CASE n = Log2
      <3> SUFFICES ASSUME r % Pow2[n] = 0 PROVE FALSE
        OBVIOUS
      <3>1. PICK q \in Nat : r = Power * q
        <4>1. Power \in Nat \ {0} /\ r % Power = 0
          BY <1>1, <1>5, <2>2
        <4> QED  BY <1>2, <4>1, MultipleIs
      <3>2. q # 0
        BY <1>1, <1>11, <3>1
      <3>3. PICK h \in Nat : q = h + 1
        <4>1. q - 1 \in Nat /\ q = (q - 1) + 1
          BY <3>2
        <4> QED  BY <4>1
      <3>4. Power * (h + 1) = Power * h + Power /\ Power * h \in Nat
        BY <1>1
      <3> QED  BY <1>1, <1>2, <3>1, <3>3, <3>4
    <2> QED  BY <1>1, <2>1, <2>2
  <1>12. ASSUME r # 0
         PROVE  r % Pow2[n] = m /\ r >= m /\ (r - m) % Pow2[n] = 0
    <2>1. r % Pow2[n] # 0
      BY <1>11, <1>12
    <2>2. r % m = 0 => r % (2 * m) = 0 \/ (r % (2 * m) = m /\ r >= m /\ (r - m) % (2 * m) = 0)
      BY <1>2, EvenOrOdd
    <2> QED  BY <1>9, <1>10, <2>1, <2>2
  <1>13. ASSUME NEW k \in 1..n PROVE (r % Pow2[k] = 0) <=> (r = 0 \/ k < n)
    <2>1. CASE r = 0
      <3>1. k \in Nat
        OBVIOUS
      <3> QED  BY <1>6, <2>1, <3>1
    <2>2. CASE r # 0 /\ k < n
      BY <1>8, <2>2
    <2>3. CASE r # 0 /\ k = n
      BY <1>11, <2>3
    <2> QED  BY <2>1, <2>2, <2>3
  <1> QED  BY <1>3, <1>7, <1>9, <1>12, <1>13

(* The server of a client of the tree, and how far its measurements go.    *)
LEMMA ServerOf ==
    ASSUME p \in Procs, NEW c \in 0..(Power - 1), NEW k \in 1..Log2, c % Pow2[k] = 0,
           NEW s, s = c + Pow2[k - 1]
    PROVE  /\ s \in 1..(Power - 1) /\ Rounds(s) = k /\ c + Pow2[k] <= Power
           /\ s + Pow2[k - 1] = c + Pow2[k]
  <1>1. Log2 \in Nat /\ Log2 >= 1 /\ Power = Pow2[Log2] /\ Power \in Nat
    BY SizeFacts
  <1>2. c \in Nat /\ c < Power /\ k \in Nat /\ k <= Log2 /\ k - 1 \in Nat
    BY <1>1
  <1>3. PICK m \in Nat \ {0} : m = Pow2[k - 1] /\ Pow2[k] = 2 * m
    <2>1. (k - 1) + 1 = k
      BY <1>2
    <2>2. Pow2[(k - 1) + 1] = 2 * Pow2[k - 1] /\ Pow2[k - 1] \in Nat \ {0}
      BY <1>2, PowerFacts
    <2> QED  BY <2>1, <2>2
  <1>4. c + 2 * m <= Power
    <2>1. Power % (2 * m) = 0
      <3>1. PICK q \in Nat \ {0} : Power = (2 * m) * q
        <4>1. \E q \in Nat \ {0} : Pow2[Log2] = Pow2[k] * q
          BY <1>1, <1>2, PowerSplit
        <4> QED  BY <1>1, <1>3, <4>1
      <3>2. 2 * m \in Nat \ {0} /\ Power \in Nat
        BY <1>1
      <3> QED  BY <3>1, <3>2, MultipleIs
    <2>2. 2 * m \in Nat \ {0} /\ c % (2 * m) = 0
      BY <1>3
    <2> QED  BY <1>1, <1>2, <2>1, <2>2, MultiplesApart
  <1>5. s \in 1..(Power - 1) /\ s \in Nat /\ s = c + m
    BY <1>1, <1>2, <1>3, <1>4
  <1>6. s % (2 * m) = m /\ s % m = 0
    <2>1. c % (2 * m) = 0
      BY <1>3
    <2>2. (c + m) % (2 * m) = m /\ (c + m) % m = 0
      BY <1>2, <2>1, EvenOrOdd
    <2> QED  BY <1>5, <2>2
  <1>7. Rounds(s) \in 1..Log2 /\ \A i \in 1..Log2 : i <= Rounds(s) <=> s % Pow2[i - 1] = 0
    BY <1>5, RoundsShape
  <1>8. k <= Rounds(s)
    BY <1>3, <1>6, <1>7
  <1>9. ~(k + 1 <= Rounds(s))
    <2> SUFFICES ASSUME k + 1 <= Rounds(s) PROVE FALSE
      OBVIOUS
    <2>1. k + 1 \in 1..Log2 /\ (k + 1) - 1 = k
      BY <1>1, <1>2, <1>7
    <2>2. s % Pow2[k] = 0
      BY <1>7, <2>1
    <2> QED  BY <1>3, <1>6, <2>2
  <1>10. Rounds(s) = k
    BY <1>1, <1>2, <1>7, <1>8, <1>9
  <1>11. c + Pow2[k] <= Power /\ s + Pow2[k - 1] = c + Pow2[k]
    BY <1>2, <1>3, <1>4, <1>5
  <1> QED  BY <1>5, <1>10, <1>11

(* A rank of the tree is the server of its parent in its last round there. *)
LEMMA ParentIs ==
    ASSUME p \in Procs, NEW x \in 1..(Power - 1)
    PROVE  /\ Parent(x) = x - Pow2[Rounds(x) - 1]
           /\ Parent(x) \in 0..(Power - 1) /\ Parent(x) < x
           /\ Parent(x) % Pow2[Rounds(x)] = 0
           /\ x = Parent(x) + Pow2[Rounds(x) - 1]
  <1>1. Log2 \in Nat /\ Log2 >= 1 /\ Power = Pow2[Log2] /\ Power \in Nat
    BY SizeFacts
  <1>2. x \in Nat /\ x # 0 /\ x < Power /\ x \in 0..(Power - 1) /\ ~(x >= Power)
    BY <1>1
  <1>3. PICK n \in 1..Log2 : n = Rounds(x)
    BY <1>2, RoundsShape
  <1>4. n \in Nat /\ n - 1 \in Nat /\ n <= Log2 /\ n - 1 \in 0..Log2 /\ (n - 1) + 1 = n
    BY <1>1
  <1>5. /\ \A k \in 1..Log2 : k <= n <=> x % Pow2[k - 1] = 0
        /\ \A k \in 1..n : (x % Pow2[k] = 0) <=> (x = 0 \/ k < n)
        /\ x % Pow2[n] = Pow2[n - 1] /\ x >= Pow2[n - 1] /\ (x - Pow2[n - 1]) % Pow2[n] = 0
    BY <1>2, <1>3, ClientRounds, RoundsShape
  <1>6. PICK m \in Nat \ {0} : m = Pow2[n - 1] /\ Pow2[n] = 2 * m
    <2>1. Pow2[(n - 1) + 1] = 2 * Pow2[n - 1] /\ Pow2[n - 1] \in Nat \ {0}
      BY <1>4, PowerFacts
    <2> QED  BY <1>4, <2>1
  <1> DEFINE D == {Pow2[k] : k \in 0..Log2}
  <1>7. m \in D /\ x % (2 * m) = m
    BY <1>4, <1>5, <1>6
  <1>8. ASSUME NEW d \in D, x % (2 * d) = d PROVE d = m
    <2>1. PICK k \in 0..Log2 : d = Pow2[k]
      OBVIOUS
    <2>2. k \in Nat /\ k <= Log2 /\ d \in Nat \ {0} /\ Pow2[k + 1] = 2 * d
      BY <1>1, <2>1, PowerFacts
    <2>3. x % d = 0 /\ x % (2 * d) # 0 /\ x >= d
      BY <1>2, <1>8, <2>2, EvenOrOdd
    <2>4. k # Log2
      BY <1>1, <1>2, <2>1, <2>3
    <2>5. k + 1 \in 1..Log2 /\ (k + 1) - 1 = k
      BY <1>1, <2>2, <2>4
    <2>6. k + 1 <= n
      BY <1>5, <2>1, <2>3, <2>5
    <2>7. k + 1 \in 1..n
      BY <1>4, <2>2, <2>6
    <2>8. ~(k + 1 < n)
      BY <1>5, <2>2, <2>3, <2>7
    <2>9. k = n - 1
      BY <1>4, <2>2, <2>6, <2>8
    <2> QED  BY <1>6, <2>1, <2>9
  <1>9. (CHOOSE d \in D : x % (2 * d) = d) = m
    <2> HIDE DEF D
    <2> QED  BY <1>7, <1>8
  <1>10. Parent(x) = x - m
    BY <1>2, <1>9 DEF Parent
  <1>11. Parent(x) \in 0..(Power - 1) /\ Parent(x) < x /\ x = Parent(x) + m
    <2>1. PICK d \in Nat : d = Power
      BY <1>1
    <2>2. x >= m /\ x < d
      BY <1>2, <1>5, <1>6, <2>1
    <2>3. x - m \in 0..(d - 1) /\ x - m < x /\ x = (x - m) + m
      BY <1>2, <2>2
    <2> QED  BY <1>10, <2>1, <2>3
  <1>12. Parent(x) % Pow2[n] = 0
    BY <1>5, <1>6, <1>10
  <1> QED  BY <1>3, <1>6, <1>10, <1>11, <1>12

(* The ranks above c whose clocks c knows after its round k hang below c   *)
(* or one another.                                                         *)
LEMMA BlockClosed ==
    ASSUME p \in Procs, NEW c \in 0..(Power - 1), NEW k \in 1..Log2, c % Pow2[k] = 0,
           NEW x \in (c + 1)..(c + Pow2[k] - 1)
    PROVE  x \in 1..(Power - 1) /\ Parent(x) \in c..(x - 1)
  <1>1. Log2 \in Nat /\ Log2 >= 1 /\ Power = Pow2[Log2] /\ Power \in Nat
    BY SizeFacts
  <1>2. c \in Nat /\ k \in Nat /\ k <= Log2 /\ k >= 1 /\ Pow2[k] \in Nat \ {0}
    BY <1>1, PowerFacts
  <1>3. c + Pow2[k] <= Power
    BY ServerOf
  <1>4. x \in 1..(Power - 1) /\ x \in Nat /\ c < x /\ x < c + Pow2[k]
    BY <1>1, <1>2, <1>3
  <1>5. PICK n \in 1..Log2 : n = Rounds(x)
    BY <1>4, RoundsShape
  <1>6. n \in Nat /\ n - 1 \in Nat /\ (n - 1) + 1 = n
    BY <1>1
  <1>7. \A i \in 1..Log2 : i <= n <=> x % Pow2[i - 1] = 0
    BY <1>4, <1>5, RoundsShape
  <1>8. n <= k
    <2> SUFFICES ASSUME k + 1 <= n PROVE FALSE
      BY <1>2, <1>6
    <2>1. k + 1 \in 1..Log2 /\ (k + 1) - 1 = k
      BY <1>1, <1>2, <1>6
    <2>2. x % Pow2[k] = 0
      BY <1>7, <2>1
    <2>3. c + Pow2[k] <= x
      BY <1>2, <1>4, <2>2, MultiplesApart
    <2> QED  BY <1>2, <1>4, <2>3
  <1>9. c % Pow2[n] = 0
    BY <1>2, <1>6, <1>8, MultipleOfSmaller
  <1>10. /\ Parent(x) \in 0..(Power - 1) /\ Parent(x) < x
         /\ Parent(x) % Pow2[n] = 0 /\ x = Parent(x) + Pow2[n - 1]
    BY <1>4, <1>5, ParentIs
  <1>11. PICK m \in Nat \ {0} : m = Pow2[n - 1] /\ Pow2[n] = 2 * m
    <2>1. Pow2[(n - 1) + 1] = 2 * Pow2[n - 1] /\ Pow2[n - 1] \in Nat \ {0}
      BY <1>6, PowerFacts
    <2> QED  BY <1>6, <2>1
  <1>12. PICK q \in Nat : q = Parent(x)
    BY <1>1, <1>10
  <1>13. ~(q < c)
    <2> SUFFICES ASSUME q < c PROVE FALSE
      OBVIOUS
    <2>1. q + 2 * m <= c
      <3>1. 2 * m \in Nat \ {0} /\ q % (2 * m) = 0 /\ c % (2 * m) = 0
        BY <1>9, <1>10, <1>11, <1>12
      <3> QED  BY <1>2, <3>1, MultiplesApart
    <2>2. x = q + m
      BY <1>10, <1>11, <1>12
    <2> QED  BY <1>2, <1>4, <2>1, <2>2
  <1>14. q \in c..(x - 1)
    BY <1>2, <1>4, <1>10, <1>12, <1>13
  <1> QED  BY <1>4, <1>12, <1>14

(* The pairs that measure, each named by the rank that hangs below the     *)
(* other one in the tree; which of their sessions they do it in.           *)
Pairs == 1..(p - 1)
Client(x) == IF x >= Power THEN x ELSE Parent(x)
Server(x) == IF x >= Power THEN Parent(x) ELSE x
ClientTurn(x) == IF x >= Power THEN 1 ELSE Rounds(x)
ServerTurn(x) == IF x >= Power THEN Rounds(x - Power) + 1 ELSE Rounds(x)
Items(x) == IF x >= Power THEN 0 ELSE Pow2[Rounds(x) - 1] - 1

(* A rank outside of the tree hangs below one inside.                      *)
LEMMA OutsideTree ==
    ASSUME p \in Procs, NEW x \in Pairs, x >= Power
    PROVE  /\ Parent(x) = x - Power /\ Parent(x) \in 0..(Power - 1) /\ Parent(x) < x
           /\ p - Power > Parent(x) /\ x = Parent(x) + Power
  <1>1. p \in Nat /\ Power \in Nat /\ p < 2 * Power /\ Power >= 2
    BY SizeFacts
  <1>2. Parent(x) = x - Power
    BY DEF Parent
  <1>3. x \in Nat /\ x < p
    BY <1>1 DEF Pairs
  <1> QED  BY <1>1, <1>2, <1>3

(* The other ranks                                                         *)
LEMMA InTree ==
    ASSUME p \in Procs, NEW x \in Pairs, ~(x >= Power)
    PROVE  x \in 1..(Power - 1)
  <1>1. p \in Nat /\ Power \in Nat
    BY SizeFacts
  <1> QED  BY <1>1 DEF Pairs

(* The two ranks of a pair meet in one session of each, one as the client. *)
LEMMA PairFacts ==
    ASSUME p \in Procs, NEW x \in Pairs
    PROVE  /\ Client(x) \in Members /\ Server(x) \in Members /\ Client(x) # Server(x)
           /\ x = IF Client(x) > Server(x) THEN Client(x) ELSE Server(x)
           /\ ClientTurn(x) \in 1..Sessions(Client(x))
           /\ ServerTurn(x) \in 1..Sessions(Server(x))
           /\ Items(x) \in Nat /\ Edge(x) = <<Client(x), Server(x)>>
           /\ SessionAt(Client(x), ClientTurn(x)) =
                [client |-> TRUE, items |-> Items(x), peer |-> Server(x)]
           /\ SessionAt(Server(x), ServerTurn(x)) =
                [client |-> FALSE, items |-> Items(x), peer |-> Client(x)]
  <1>1. /\ p \in Nat /\ Power \in Nat /\ Power >= 2 /\ p < 2 * Power /\ Power <= p
        /\ Log2 \in Nat /\ Power = Pow2[Log2]
    BY SizeFacts
  <1>2. x \in Nat /\ x >= 1 /\ x < p
    BY <1>1 DEF Pairs
  <1>3. Edge(x) = <<Client(x), Server(x)>>
    BY DEF Edge, Client, Server
  <1>4. CASE x >= Power
    <2>1. PICK y \in Nat : y = Parent(x)
      BY <1>1, <1>4, OutsideTree
    <2>2. y = x - Power /\ y \in 0..(Power - 1) /\ y < x /\ p - Power > y /\ x = y + Power
      BY <1>4, <2>1, OutsideTree
    <2>3. /\ Client(x) = x /\ Server(x) = y /\ ClientTurn(x) = 1
          /\ ServerTurn(x) = Rounds(y) + 1 /\ Items(x) = 0
      BY <1>4, <2>1, <2>2 DEF Client, Server, ClientTurn, ServerTurn, Items
    <2>4. y < Power /\ Rounds(y) \in Nat
      <3>1. Rounds(y) \in 1..Log2
        BY <2>2, ClientRounds
      <3> QED  BY <1>1, <2>2, <3>1
    <2>5. Sessions(x) = 1 /\ Sessions(y) = Rounds(y) + 1
      BY <1>1, <1>4, <2>2, <2>4 DEF Sessions
    <2>6. SessionAt(x, 1) = [client |-> TRUE, items |-> 0, peer |-> y]
      <3>1. ~(x < Power)
        BY <1>1, <1>2, <1>4
      <3> QED  BY <1>4, <2>2, <3>1 DEF SessionAt
    <2>7. SessionAt(y, Rounds(y) + 1) = [client |-> FALSE, items |-> 0, peer |-> x]
      <3>1. ~(y >= Power) /\ ~(Rounds(y) + 1 <= Rounds(y)) /\ Rounds(y) + 1 > Rounds(y)
        BY <1>1, <2>4
      <3> QED  BY <2>2, <2>4, <3>1 DEF SessionAt
    <2>8. x \in Members /\ y \in Members /\ x > y
      BY <1>1, <1>2, <2>2 DEF Members
    <2>9. 1 \in 1..Sessions(x) /\ Rounds(y) + 1 \in 1..Sessions(y)
      BY <2>4, <2>5
    <2>10. x # y
      BY <2>2
    <2> QED  BY <1>3, <2>3, <2>6, <2>7, <2>8, <2>9, <2>10
  <1>5. CASE ~(x >= Power)
    <2>1. x \in 1..(Power - 1)
      BY <1>5, InTree
    <2>2. PICK n \in 1..Log2 : n = Rounds(x)
      BY <1>2, RoundsShape
    <2>3. PICK y \in Nat : y = Parent(x)
      BY <1>1, <2>1, ParentIs
    <2>4. y \in 0..(Power - 1) /\ y < x /\ y % Pow2[n] = 0 /\ x = y + Pow2[n - 1]
      BY <2>1, <2>2, <2>3, ParentIs
    <2>5. x % Pow2[n] = Pow2[n - 1] /\ x - Pow2[n - 1] = y /\ Pow2[n - 1] \in Nat \ {0}
      <3>1. x \in 0..(Power - 1) /\ x # 0
        BY <2>1
      <3>2. n - 1 \in Nat
        BY <1>1
      <3> QED  BY <2>2, <2>3, <2>1, <3>1, <3>2, ClientRounds, ParentIs, PowerFacts
    <2>6. /\ Client(x) = y /\ Server(x) = x /\ ClientTurn(x) = n
          /\ ServerTurn(x) = n /\ Items(x) = Pow2[n - 1] - 1
      BY <1>5, <2>2, <2>3 DEF Client, Server, ClientTurn, ServerTurn, Items
    <2>7. n <= Rounds(y) /\ Rounds(y) \in Nat
      <3>1. Rounds(y) \in 1..Log2 /\ \A k \in 1..Log2 : k <= Rounds(y) <=> y % Pow2[k - 1] = 0
        BY RoundsShape
      <3>2. n \in Nat /\ n - 1 \in Nat /\ n - 1 <= n
        BY <1>1
      <3>3. y % Pow2[n - 1] = 0
        BY <2>4, <3>2, MultipleOfSmaller
      <3> QED  BY <1>1, <3>1, <3>3
    <2>8. ~(y >= Power) /\ y < Power /\ x < Power
      BY <1>1, <2>1, <2>4
    <2>9. n \in 1..Sessions(y) /\ n \in 1..Sessions(x)
      BY <1>1, <1>5, <2>2, <2>7, <2>8 DEF Sessions
    <2>10. TreeSession(y, n) = [client |-> TRUE, items |-> Pow2[n - 1] - 1, peer |-> x]
      BY <2>4 DEF TreeSession
    <2>11. TreeSession(x, n) = [client |-> FALSE, items |-> Pow2[n - 1] - 1, peer |-> y]
      BY <2>5 DEF TreeSession
    <2>12. SessionAt(y, n) = TreeSession(y, n)
      BY <2>7, <2>8 DEF SessionAt
    <2>13. SessionAt(x, n) = TreeSession(x, n)
      <3>1. n <= Rounds(x) /\ ~(n > Rounds(x))
        BY <1>1, <2>2
      <3> QED  BY <1>5, <2>8, <3>1 DEF SessionAt
    <2>14. x \in Members /\ y \in Members /\ ~(y > x) /\ y # x
      BY <1>1, <1>2, <2>4 DEF Members
    <2>15. Pow2[n - 1] - 1 \in Nat
      BY <2>5
    <2> QED  BY <1>3, <2>6, <2>9, <2>10, <2>11, <2>12, <2>13, <2>14, <2>15
  <1> QED  BY <1>4, <1>5

(* Every session is the one of a pair.                                     *)
LEMMA SessionPair ==
    ASSUME p \in Procs, NEW r \in Members, NEW k \in 1..Sessions(r)
    PROVE  \E x \in Pairs : \/ r = Client(x) /\ k = ClientTurn(x)
                            \/ r = Server(x) /\ k = ServerTurn(x)
  <1>1. /\ p \in Nat /\ Power \in Nat /\ Power >= 2 /\ p < 2 * Power /\ Power <= p
        /\ Log2 \in Nat /\ Power = Pow2[Log2]
    BY SizeFacts
  <1>2. r \in Nat /\ r < p
    BY <1>1 DEF Members
  <1>3. CASE r >= Power
    <2>1. Sessions(r) = 1
      BY <1>3 DEF Sessions
    <2>2. k = 1
      BY <2>1
    <2>3. r \in Pairs
      BY <1>1, <1>2, <1>3 DEF Pairs
    <2>4. r = Client(r) /\ k = ClientTurn(r)
      BY <1>3, <2>2 DEF Client, ClientTurn
    <2> QED  BY <2>3, <2>4
  <1>4. CASE r < Power
    <2>1. r \in 0..(Power - 1) /\ ~(r >= Power)
      BY <1>1, <1>2, <1>4
    <2>2. PICK n \in 1..Log2 : n = Rounds(r)
      BY <1>2, RoundsShape
    <2>3. n \in Nat
      BY <1>1
    <2>4. Sessions(r) = n \/ (Sessions(r) = n + 1 /\ p - Power > r)
      BY <2>1, <2>2, <2>3 DEF Sessions
    <2>5. k \in Nat /\ (k \in 1..n \/ (k = n + 1 /\ p - Power > r))
      BY <2>3, <2>4
    <2>6. CASE k = n + 1 /\ p - Power > r
      <3>1. r + Power \in Pairs /\ r + Power >= Power /\ (r + Power) - Power = r
        BY <1>1, <1>2, <2>6 DEF Pairs
      <3>2. Parent(r + Power) = r
        BY <3>1 DEF Parent
      <3>3. Server(r + Power) = r /\ ServerTurn(r + Power) = k
        BY <2>2, <2>6, <3>1, <3>2 DEF Server, ServerTurn
      <3> QED  BY <3>1, <3>3
    <2>7. CASE k \in 1..n
      <3>1. k \in 1..Log2 /\ (r % Pow2[k] = 0) <=> (r = 0 \/ k < n)
        BY <1>1, <2>1, <2>2, <2>3, <2>7, ClientRounds
      <3>2. CASE r % Pow2[k] = 0
        <4>1. PICK s \in 1..(Power - 1) : s = r + Pow2[k - 1] /\ Rounds(s) = k
          <5>1. k \in 1..Log2
            BY <1>1, <2>7
          <5> QED  BY <2>1, <3>2, <5>1, ServerOf
        <4>2. Parent(s) = s - Pow2[k - 1]
          BY <4>1, ParentIs
        <4>3. Parent(s) = r
          <5>1. k - 1 \in Nat
            BY <2>7
          <5>2. Pow2[k - 1] \in Nat
            BY <5>1, PowerFacts
          <5> QED  BY <1>2, <4>1, <4>2, <5>2
        <4>4. s \in Pairs /\ ~(s >= Power)
          BY <1>1 DEF Pairs
        <4>5. Client(s) = r /\ ClientTurn(s) = k
          BY <4>1, <4>3, <4>4 DEF Client, ClientTurn
        <4> QED  BY <4>4, <4>5
      <3>3. CASE ~(r % Pow2[k] = 0)
        <4>1. r # 0 /\ k = n
          <5>1. (r % Pow2[k] = 0) <=> (r = 0 \/ k < n)
            BY <2>1, <2>2, <2>7, ClientRounds
          <5> QED  BY <2>3, <2>7, <3>3, <5>1
        <4>2. r \in Pairs
          BY <1>1, <1>2, <4>1 DEF Pairs
        <4>3. Server(r) = r /\ ServerTurn(r) = k
          BY <2>1, <2>2, <4>1 DEF Server, ServerTurn
        <4> QED  BY <4>2, <4>3
      <3> QED  BY <3>2, <3>3
    <2> QED  BY <2>5, <2>6, <2>7
  <1> QED  BY <1>1, <1>2, <1>3, <1>4

(* No two pairs are of the same ranks, or meet in one session of a rank.   *)
LEMMA PairsDiffer ==
    ASSUME p \in Procs, NEW x \in Pairs, NEW z \in Pairs, x # z
    PROVE  /\ ~(Client(x) = Client(z) /\ Server(x) = Server(z))
           /\ ~(Client(x) = Server(z) /\ Server(x) = Client(z))
           /\ Client(x) = Client(z) => ClientTurn(x) # ClientTurn(z)
           /\ Server(x) = Server(z) => ServerTurn(x) # ServerTurn(z)
           /\ Client(x) = Server(z) => ClientTurn(x) # ServerTurn(z)
           /\ Server(x) = Client(z) => ServerTurn(x) # ClientTurn(z)
  <1>1. /\ Client(x) \in Nat /\ Server(x) \in Nat /\ Client(z) \in Nat /\ Server(z) \in Nat
        /\ x = IF Client(x) > Server(x) THEN Client(x) ELSE Server(x)
        /\ z = IF Client(z) > Server(z) THEN Client(z) ELSE Server(z)
        /\ Client(x) # Server(x) /\ Client(z) # Server(z)
    <2>1. p \in Nat
      BY SizeFacts
    <2>2. Members \subseteq Nat
      BY <2>1 DEF Members
    <2> QED  BY <2>2, PairFacts
  <1>2. /\ SessionAt(Client(x), ClientTurn(x)).client = TRUE
        /\ SessionAt(Client(x), ClientTurn(x)).peer = Server(x)
        /\ SessionAt(Server(x), ServerTurn(x)).client = FALSE
        /\ SessionAt(Server(x), ServerTurn(x)).peer = Client(x)
    BY PairFacts
  <1>3. /\ SessionAt(Client(z), ClientTurn(z)).client = TRUE
        /\ SessionAt(Client(z), ClientTurn(z)).peer = Server(z)
        /\ SessionAt(Server(z), ServerTurn(z)).client = FALSE
        /\ SessionAt(Server(z), ServerTurn(z)).peer = Client(z)
    BY PairFacts
  <1>4. ~(Client(x) = Client(z) /\ Server(x) = Server(z))
    BY <1>1
  <1>5. ~(Client(x) = Server(z) /\ Server(x) = Client(z))
    BY <1>1
  <1>6. Client(x) = Client(z) => ClientTurn(x) # ClientTurn(z)
    BY <1>2, <1>3, <1>4
  <1>7. Server(x) = Server(z) => ServerTurn(x) # ServerTurn(z)
    BY <1>2, <1>3, <1>4
  <1>8. Client(x) = Server(z) => ClientTurn(x) # ServerTurn(z)
    BY <1>2, <1>3
  <1>9. Server(x) = Client(z) => ServerTurn(x) # ClientTurn(z)
    BY <1>2, <1>3
  <1> QED  BY <1>4, <1>5, <1>6, <1>7, <1>8, <1>9

(* Pairs and sessions depend on the size only.                             *)
LEMMA SamePairs ==
    ASSUME p' = p
    PROVE  /\ Members' = Members /\ Pairs' = Pairs /\ Power' = Power /\ Log2' = Log2
           /\ \A x : Client(x)' = Client(x) /\ Server(x)' = Server(x)
           /\ \A x : ClientTurn(x)' = ClientTurn(x) /\ ServerTurn(x)' = ServerTurn(x)
           /\ \A x : Items(x)' = Items(x) /\ Sessions(x)' = Sessions(x)
           /\ \A x, k : SessionAt(x, k)' = SessionAt(x, k)
           /\ \A x : Parent(x)' = Parent(x) /\ Rounds(x)' = Rounds(x)
  <1>1. Log2' = Log2 /\ Power' = Power /\ Members' = Members
    BY SameSize
  <1>2. \A x : Rounds(x)' = Rounds(x)
    BY <1>1 DEF Rounds
  <1>3. \A x : Parent(x)' = Parent(x)
    BY <1>1 DEF Parent
  <1>4. \A x : Client(x)' = Client(x) /\ Server(x)' = Server(x)
    BY <1>1, <1>3 DEF Client, Server
  <1>5. \A x : ClientTurn(x)' = ClientTurn(x) /\ ServerTurn(x)' = ServerTurn(x)
    BY <1>1, <1>2 DEF ClientTurn, ServerTurn
  <1>6. \A x : Items(x)' = Items(x) /\ Sessions(x)' = Sessions(x)
    BY <1>1, <1>2 DEF Items, Sessions
  <1>7. \A x, k : SessionAt(x, k)' = SessionAt(x, k)
    BY <1>1, <1>2 DEF SessionAt, TreeSession
  <1> QED  BY <1>1, <1>2, <1>3, <1>4, <1>5, <1>6, <1>7 DEF Pairs

(* MinLeg is the time of the fastest message.                              *)
LEMMA FastestLeg ==
    ASSUME p \in Procs
    PROVE  /\ MinLeg \in Nat \ {0} /\ 2 * MinLeg < MaxTime
           /\ \A leg \in Legs[p] : leg \in Nat /\ MinLeg <= leg /\ 2 * leg < MaxTime
  <1>1. /\ Legs[p] \subseteq Nat \ {0} /\ Legs[p] # {}
        /\ \A leg \in Legs[p] : 2 * leg < MaxTime
    BY SyncAssumption
  <1>2. \E x \in Legs[p] : \A y \in Legs[p] : x <= y
    BY <1>1, LeastOne
  <1>3. MinLeg \in Legs[p] /\ \A y \in Legs[p] : MinLeg <= y
    BY <1>2 DEF MinLeg, Min
  <1> QED  BY <1>1, <1>3

(* The rank a pair is named by hangs below a smaller one.                  *)
LEMMA PairParent ==
    ASSUME p \in Procs, NEW x \in Pairs
    PROVE  /\ Parent(x) \in Nat /\ Parent(x) < x /\ Parent(x) \in Members /\ x \in Members
           /\ Edge(x) \in Members \X Members /\ x # 0
  <1>1. p \in Nat
    BY SizeFacts
  <1>2. x \in Nat /\ x # 0 /\ x < p
    BY <1>1 DEF Pairs
  <1>3. Parent(x) \in Nat /\ Parent(x) < x
    <2>1. CASE x >= Power
      <3>1. Parent(x) \in 0..(Power - 1) /\ Parent(x) < x
        BY <2>1, OutsideTree
      <3> QED  BY <3>1, SizeFacts
    <2>2. CASE ~(x >= Power)
      <3>1. x \in 1..(Power - 1)
        BY <2>2, InTree
      <3>2. Parent(x) \in 0..(Power - 1) /\ Parent(x) < x
        BY <3>1, ParentIs
      <3> QED  BY <3>2, SizeFacts
    <2> QED  BY <2>1, <2>2
  <1>4. Parent(x) \in Members /\ x \in Members
    BY <1>1, <1>2, <1>3 DEF Members
  <1>5. Edge(x) \in Members \X Members
    BY <1>4 DEF Edge
  <1> QED  BY <1>2, <1>3, <1>4, <1>5

(* The rule of Slack                                                       *)
LEMMA SlackFacts ==
    ASSUME p \in Procs, hop \in [Members \X Members -> Int]
    PROVE  /\ Slack \in [Members -> Int] /\ Slack[0] = 0
           /\ \A x \in Pairs : Slack[x] = Slack[Parent(x)] + hop[Edge(x)] - 2 * MinLeg
  <1> DEFINE par == [x \in Members |-> IF x = 0 THEN 0 ELSE Parent(x)]
             G == [x \in Members |-> [v \in Int |-> IF x = 0 THEN 0 ELSE v + hop[Edge(x)] - 2 * MinLeg]]
  <1>1. /\ Members \in SUBSET Nat /\ 0 \in Members
        /\ \A x \in Members : x # 0 => x \in Pairs
        /\ \A x \in Pairs : x \in Members /\ x # 0
    <2>1. p \in Nat /\ p >= 2
      BY SizeFacts
    <2> QED  BY <2>1 DEF Members, Pairs
  <1>2. \A x \in Pairs : /\ Parent(x) \in Nat /\ Parent(x) < x /\ Parent(x) \in Members
                         /\ hop[Edge(x)] \in Int
    BY PairParent
  <1>3. MinLeg \in Int
    BY FastestLeg
  <1>4. /\ par \in [Members -> Nat]
        /\ \A x \in Members \ {0} : par[x] \in Members /\ par[x] < x
    BY <1>1, <1>2
  <1>5. \A x \in Members : x # 0 => par[x] = Parent(x)
    OBVIOUS
  <1>6. G \in [Members -> [Int -> Int]]
    <2>1. \A x \in Members, v \in Int : (IF x = 0 THEN 0 ELSE v + hop[Edge(x)] - 2 * MinLeg) \in Int
      <3> SUFFICES ASSUME NEW x \in Members, NEW v \in Int, x # 0
                   PROVE  v + hop[Edge(x)] - 2 * MinLeg \in Int
        OBVIOUS
      <3>1. hop[Edge(x)] \in Int
        BY <1>1, <1>2
      <3> QED  BY <1>3, <3>1
    <2> QED  BY <2>1
  <1>7. \A x \in Members, v \in Int : x # 0 => G[x][v] = v + hop[Edge(x)] - 2 * MinLeg
    OBVIOUS
  <1> HIDE DEF par, G
  <1>8. PICK f \in [Members -> Int] :
          \A x \in Members : f[x] = IF x = 0 THEN 0 ELSE G[x][f[par[x]]]
    <2>1. 0 \in Int /\ Members \in SUBSET Nat
      BY <1>1
    <2> QED  BY <1>4, <1>6, <2>1, RecursionExists
  <1>9. ASSUME NEW x \in Members
        PROVE  f[x] = IF x = 0 THEN 0 ELSE f[Parent(x)] + hop[Edge(x)] - 2 * MinLeg
    <2>1. f[x] = IF x = 0 THEN 0 ELSE G[x][f[par[x]]]
      BY <1>8
    <2>2. x # 0 => par[x] = Parent(x) /\ f[Parent(x)] \in Int
      BY <1>1, <1>2, <1>5
    <2> QED  BY <1>7, <2>1, <2>2
  <1>10. f = [x \in Members |-> IF x = 0 THEN 0 ELSE f[Parent(x)] + hop[Edge(x)] - 2 * MinLeg]
    <2>1. f = [x \in Members |-> f[x]]
      OBVIOUS
    <2> QED  BY <1>9, <2>1
  <1>11. Slack = [x \in Members |-> IF x = 0 THEN 0 ELSE Slack[Parent(x)] + hop[Edge(x)] - 2 * MinLeg]
    BY <1>10 DEF Slack
  <1>12. \A x \in Members : Slack[x] = IF x = 0 THEN 0 ELSE Slack[Parent(x)] + hop[Edge(x)] - 2 * MinLeg
    BY <1>11
  <1>13. Slack \in [Members -> Int]
    <2> DEFINE T == {y \in Members : Slack[y] \notin Int}
    <2>1. ASSUME T # {} PROVE FALSE
      <3>1. T \subseteq Nat
        BY <1>1
      <3>2. PICK least \in T : \A y \in T : least <= y
        <4> HIDE DEF T
        <4> QED  BY <2>1, <3>1, LeastOne
      <3>3. least \in Members /\ Slack[least] \notin Int
        OBVIOUS
      <3>4. least # 0
        BY <1>12, <3>3
      <3>5. least \in Pairs /\ Parent(least) \in Nat /\ Parent(least) < least /\ Parent(least) \in Members
        BY <1>1, <1>2, <3>3, <3>4
      <3>6. Parent(least) \notin T
        <4>1. least \in Nat
          BY <1>1, <3>3
        <4> HIDE DEF T
        <4> QED  BY <3>2, <3>5, <4>1
      <3>7. Slack[Parent(least)] \in Int
        BY <3>5, <3>6
      <3>8. Slack[least] = Slack[Parent(least)] + hop[Edge(least)] - 2 * MinLeg
        BY <1>12, <3>3, <3>4
      <3>9. hop[Edge(least)] \in Int
        BY <1>2, <3>5
      <3> QED  BY <1>3, <3>3, <3>7, <3>8, <3>9
    <2>2. \A y \in Members : Slack[y] \in Int
      BY <2>1
    <2>3. Slack = [x \in Members |-> Slack[x]]
      BY <1>11
    <2> QED  BY <2>2, <2>3
  <1> QED  BY <1>1, <1>12, <1>13

(* The same as an implication, to be used of the next state                *)
LEMMA SlackAlways ==
    (p \in Procs /\ hop \in [Members \X Members -> Int]) =>
      /\ Slack \in [Members -> Int] /\ Slack[0] = 0
      /\ \A x \in Pairs : Slack[x] = Slack[Parent(x)] + hop[Edge(x)] - 2 * MinLeg
  BY SlackFacts

(* The rule of Slack after a step                                          *)
LEMMA SlackNext ==
    ASSUME p \in Procs, p' = p, hop' \in [Members \X Members -> Int]
    PROVE  /\ Slack' \in [Members -> Int] /\ Slack'[0] = 0
           /\ \A x \in Pairs : Slack'[x] = Slack'[Parent(x)] + hop'[Edge(x)] - 2 * MinLeg
  <1>1. ((p \in Procs /\ hop \in [Members \X Members -> Int]) =>
      /\ Slack \in [Members -> Int] /\ Slack[0] = 0
      /\ \A x \in Pairs : Slack[x] = Slack[Parent(x)] + hop[Edge(x)] - 2 * MinLeg)'
    BY SlackAlways, PTL
  <1>2. MinLeg' = MinLeg
    BY DEF MinLeg
  <1>3. \A x : Parent(x)' = Parent(x) /\ Edge(x)' = Edge(x)
    <2>1. Power' = Power
      BY SamePairs
    <2>2. \A x : Parent(x)' = Parent(x)
      BY SamePairs
    <2> QED  BY <2>1, <2>2 DEF Edge
  <1>4. Members' = Members /\ Pairs' = Pairs
    BY SamePairs
  <1>5. hop' \in [Members' \X Members' -> Int] /\ p' \in Procs
    BY <1>4
  <1> QED  BY <1>1, <1>2, <1>3, <1>4, <1>5

-----------------------------------------------------------------------------
(* The messages of a pair, and how far its two ranks are                   *)

Phases == {"begin", "waiting", "merging"}
LocalVars == [step : Nat, phase : Phases, smallest : Nat, notsmaller : Nat, diff : Int,
              diffs : [Members -> Int] \cup {<<>>}]

SyncTypes ==
    /\ p \in Procs /\ calls \in [Members -> 0..2]
    /\ sync \in [Members -> LocalVars]
    /\ \A r \in Members : sync[r].step # 0 => sync[r].diffs \in [Members -> Int]
    /\ net = [pair \in Members \X Members |-> net[pair]]
    /\ hop \in [Members \X Members -> Int]
    /\ late = [r \in Members |-> late[r]] /\ scattered = [r \in Members |-> scattered[r]]

(* What a rank does about one of its sessions, and how often it has ended  *)
(* that session.                                                           *)
Turn(r, k) == IF sync[r].step = k THEN sync[r].phase ELSE "away"
Done(r, k) == calls[r] + IF sync[r].step > k THEN 1 ELSE 0

(* The messages between client and server, and how far they are: the       *)
(* client by "ahead" sessions ahead of the server.                         *)
Shake(f, b, ahead, c, s, items) ==
    \/ f = <<>> /\ b = <<>> /\ ahead = 0 /\ c \in {"away", "begin"}
    \/ f = <<Msg("ping")>> /\ b = <<>> /\ ahead = 0 /\ c = "waiting"
    \/ f = <<>> /\ b = <<Msg("pong")>> /\ ahead = 0 /\ c = "waiting" /\ s # "away"
    \/ /\ items = 0 /\ b = <<>> /\ ahead = 1 /\ s # "away"
       /\ \/ f = <<Msg("abort")>> /\ c \in {"away", "begin"}
          \/ f = <<Msg("abort"), Msg("ping")>> /\ c = "waiting"
    \/ /\ items > 0 /\ c = "merging"
       /\ \/ f = <<Msg("abort")>> /\ b = <<>> /\ ahead = 0 /\ s # "away"
          \/ f = <<>> /\ (\E d : b = <<[kind |-> "data", data |-> d]>>) /\ ahead = -1

Ahead(x) == Done(Client(x), ClientTurn(x)) - Done(Server(x), ServerTurn(x))
Forth(x) == Message(Client(x), Server(x))
Back(x) == Message(Server(x), Client(x))
AtClient(x) == Turn(Client(x), ClientTurn(x))
AtServer(x) == Turn(Server(x), ServerTurn(x))
Shaken(x) == Shake(Forth(x), Back(x), Ahead(x), AtClient(x), AtServer(x), Items(x))

(* Ranks that are no pair send each other nothing.                         *)
Strangers(e) == \A x \in Pairs : e # <<Client(x), Server(x)>> /\ e # <<Server(x), Client(x)>>
Silent == \A e \in Members \X Members : Strangers(e) => net[e] = <<>>

(* A rank that is in none of a pair's sessions may enter its session.      *)
LEMMA ShakeElsewhere ==
    ASSUME NEW f, NEW b, NEW ahead, NEW c, NEW s, NEW items, NEW c2, NEW s2,
           Shake(f, b, ahead, c, s, items),
           c2 = c \/ (c = "away" /\ c2 \in {"away", "begin"}), s2 = s \/ s = "away"
    PROVE  Shake(f, b, ahead, c2, s2, items)
  BY DEF Shake

(* Sequences of one or two messages                                        *)
LEMMA MessagesHere ==
    /\ <<>> \o <<Msg("ping")>> = <<Msg("ping")>>
    /\ <<Msg("abort")>> \o <<Msg("ping")>> = <<Msg("abort"), Msg("ping")>>
    /\ <<>> \o <<Msg("abort")>> = <<Msg("abort")>> /\ <<>> \o <<Msg("pong")>> = <<Msg("pong")>>
    /\ Tail(<<Msg("abort"), Msg("ping")>>) = <<Msg("ping")>>
    /\ Head(<<Msg("abort"), Msg("ping")>>) = Msg("abort")
    /\ <<Msg("abort"), Msg("ping")>> # <<>>
    /\ \A k : Tail(<<Msg(k)>>) = <<>> /\ Head(<<Msg(k)>>) = Msg(k) /\ Msg(k).kind = k /\ <<Msg(k)>> # <<>>
    /\ \A d : /\ <<>> \o <<[kind |-> "data", data |-> d]>> = <<[kind |-> "data", data |-> d]>>
              /\ Tail(<<[kind |-> "data", data |-> d]>>) = <<>>
              /\ Head(<<[kind |-> "data", data |-> d]>>).kind = "data"
    /\ <<>> \o <<>> = <<>>
    /\ <<Msg("abort")>> \o <<>> = <<Msg("abort")>>
  <1>1. \A m : <<>> \o <<m>> = <<m>> /\ Tail(<<m>>) = <<>> /\ Head(<<m>>) = m /\ <<m>> # <<>> /\ <<m>> \o <<>> = <<m>>
    OBVIOUS
  <1>2. ASSUME NEW m, NEW n
        PROVE  /\ <<m>> \o <<n>> = <<m, n>> /\ Tail(<<m, n>>) = <<n>> /\ Head(<<m, n>>) = m
               /\ <<m, n>> # <<>>
    <2>1. Head(<<m, n>>) = m /\ <<m, n>> # <<>>
      OBVIOUS
    <2>2. Tail(<<m, n>>) = <<n>>
      OBVIOUS
    <2>3. <<m>> \o <<n>> = <<m, n>>
      <3> DEFINE S == {m, n}
      <3>1. m \in S /\ n \in S
        OBVIOUS
      <3> HIDE DEF S
      <3>2. <<m>> \in Seq(S)
        BY <3>1
      <3>3. Append(<<m>>, n) = <<m>> \o <<n>>
        BY <3>1, <3>2, AppendIsConcat
      <3>4. /\ Append(<<m>>, n) \in Seq(S) /\ Len(Append(<<m>>, n)) = 2
            /\ Append(<<m>>, n)[1] = m /\ Append(<<m>>, n)[2] = n
        <4>1. Len(<<m>>) = 1 /\ <<m>>[1] = m
          OBVIOUS
        <4> QED  BY <3>1, <3>2, <4>1, AppendProperties
      <3>5. /\ <<m, n>> \in Seq(S) /\ Len(<<m, n>>) = 2
            /\ <<m, n>>[1] = m /\ <<m, n>>[2] = n
        BY <3>1
      <3>6. \A i \in 1..2 : i = 1 \/ i = 2
        OBVIOUS
      <3>7. \A i \in 1..Len(<<m, n>>) : Append(<<m>>, n)[i] = <<m, n>>[i]
        BY <3>4, <3>5, <3>6
      <3> QED  BY <3>3, <3>4, <3>5, <3>7, SeqEqual
    <2> QED  BY <2>1, <2>2, <2>3
  <1>3. \A k : Msg(k).kind = k
    BY DEF Msg
  <1>4. \A d : [kind |-> "data", data |-> d].kind = "data"
    OBVIOUS
  <1>5. <<>> \o <<>> = <<>>
    OBVIOUS
  <1> QED  BY <1>1, <1>2, <1>3, <1>4, <1>5

(* Which messages go which way, and when.                                  *)
LEMMA WhoSends ==
    ASSUME NEW f, NEW b, NEW ahead, NEW c, NEW s, NEW items, Shake(f, b, ahead, c, s, items)
    PROVE  /\ f # <<>> => Head(f).kind \in {"ping", "abort"}
           /\ b # <<>> => Head(b).kind \in {"pong", "data"}
           /\ b # <<>> => f = <<>> /\ Tail(b) = <<>>
           /\ b # <<>> /\ Head(b).kind = "pong" => b = <<Msg("pong")>> /\ ahead = 0 /\ c = "waiting" /\ s # "away"
           /\ b # <<>> /\ Head(b).kind = "data" => ahead = -1 /\ c = "merging" /\ items > 0
           /\ f # <<>> /\ Head(f).kind = "ping" => f = <<Msg("ping")>> /\ b = <<>> /\ ahead = 0 /\ c = "waiting"
           /\ f # <<>> /\ Head(f).kind = "abort" =>
                /\ b = <<>>
                /\ \/ items = 0 /\ ahead = 1 /\ f = <<Msg("abort")>> /\ c \in {"away", "begin"}
                   \/ items = 0 /\ ahead = 1 /\ f = <<Msg("abort"), Msg("ping")>> /\ c = "waiting"
                   \/ items > 0 /\ ahead = 0 /\ f = <<Msg("abort")>> /\ c = "merging"
           /\ c = "begin" => /\ b = <<>>
                             /\ \/ f = <<>> /\ ahead = 0
                                \/ items = 0 /\ ahead = 1 /\ s # "away" /\ f = <<Msg("abort")>>
  <1>1. CASE f = <<>> /\ b = <<>> /\ ahead = 0 /\ c \in {"away", "begin"}
    BY <1>1
  <1>2. CASE f = <<Msg("ping")>> /\ b = <<>> /\ ahead = 0 /\ c = "waiting"
    BY <1>2, MessagesHere
  <1>3. CASE f = <<>> /\ b = <<Msg("pong")>> /\ ahead = 0 /\ c = "waiting" /\ s # "away"
    BY <1>3, MessagesHere
  <1>4. CASE items = 0 /\ b = <<>> /\ ahead = 1 /\ s # "away" /\ f = <<Msg("abort")>> /\ c \in {"away", "begin"}
    BY <1>4, MessagesHere
  <1>5. CASE items = 0 /\ b = <<>> /\ ahead = 1 /\ s # "away" /\ f = <<Msg("abort"), Msg("ping")>> /\ c = "waiting"
    BY <1>5, MessagesHere
  <1>6. CASE items > 0 /\ c = "merging" /\ f = <<Msg("abort")>> /\ b = <<>> /\ ahead = 0 /\ s # "away"
    BY <1>6, MessagesHere
  <1>7. CASE items > 0 /\ c = "merging" /\ f = <<>> /\ (\E d : b = <<[kind |-> "data", data |-> d]>>) /\ ahead = -1
    BY <1>7, MessagesHere
  <1> QED  BY <1>1, <1>2, <1>3, <1>4, <1>5, <1>6, <1>7 DEF Shake

(* The client sends a ping.                                                *)
LEMMA ShakePing ==
    ASSUME NEW f, NEW b, NEW ahead, NEW s, NEW items, Shake(f, b, ahead, "begin", s, items)
    PROVE  Shake(f \o <<Msg("ping")>>, b, ahead, "waiting", s, items)
  BY MessagesHere DEF Shake

(* The client takes a pong, and measures again or ends the measurement.    *)
LEMMA ShakePong ==
    ASSUME NEW f, NEW b, NEW ahead, NEW c, NEW s, NEW items, Shake(f, b, ahead, c, s, items),
           b # <<>>, Head(b).kind = "pong"
    PROVE  /\ Shake(f \o <<>>, Tail(b), ahead, "begin", s, items)
           /\ items = 0 => Shake(f \o <<Msg("abort")>>, Tail(b), ahead + 1, "away", s, items)
           /\ items > 0 => Shake(f \o <<Msg("abort")>>, Tail(b), ahead, "merging", s, items)
  <1>1. /\ f = <<>> /\ Tail(b) = <<>> /\ ahead = 0 /\ s # "away"
        /\ f \o <<>> = <<>> /\ f \o <<Msg("abort")>> = <<Msg("abort")>> /\ ahead + 1 = 1
    <2>1. f = <<>> /\ Tail(b) = <<>> /\ ahead = 0 /\ s # "away"
      BY WhoSends
    <2> QED  BY <2>1, MessagesHere
  <1> QED  BY <1>1 DEF Shake

(* The client takes the server's differences.                              *)
LEMMA ShakeMerge ==
    ASSUME NEW f, NEW b, NEW ahead, NEW c, NEW s, NEW items, Shake(f, b, ahead, c, s, items),
           b # <<>>, Head(b).kind = "data"
    PROVE  Shake(f \o <<>>, Tail(b), ahead + 1, "away", s, items)
  <1>1. f = <<>> /\ Tail(b) = <<>> /\ f \o <<>> = <<>> /\ ahead + 1 = 0
    <2>1. f = <<>> /\ Tail(b) = <<>> /\ ahead = -1
      BY WhoSends
    <2> QED  BY <2>1, MessagesHere
  <1> QED  BY <1>1 DEF Shake

(* The server answers a ping.                                              *)
LEMMA ShakeServe ==
    ASSUME NEW f, NEW b, NEW ahead, NEW c, NEW s, NEW items, Shake(f, b, ahead, c, s, items),
           f # <<>>, Head(f).kind = "ping", s # "away"
    PROVE  Shake(Tail(f), b \o <<Msg("pong")>>, ahead, c, s, items)
  <1>1. f = <<Msg("ping")>> /\ b = <<>> /\ ahead = 0 /\ c = "waiting"
    BY WhoSends
  <1>2. Tail(f) = <<>> /\ b \o <<Msg("pong")>> = <<Msg("pong")>>
    BY <1>1, MessagesHere
  <1> QED  BY <1>1, <1>2 DEF Shake

(* The server takes the abort, and tells its differences if there are any. *)
LEMMA ShakeAbort ==
    ASSUME NEW f, NEW b, NEW ahead, NEW c, NEW s, NEW items, Shake(f, b, ahead, c, s, items),
           f # <<>>, Head(f).kind = "abort", NEW d
    PROVE  /\ items = 0 => Shake(Tail(f), b \o <<>>, ahead - 1, c, "away", items)
           /\ items > 0 => Shake(Tail(f), b \o <<[kind |-> "data", data |-> d]>>, ahead - 1, c, "away", items)
  <1>1. /\ b = <<>>
        /\ \/ items = 0 /\ ahead = 1 /\ f = <<Msg("abort")>> /\ c \in {"away", "begin"}
           \/ items = 0 /\ ahead = 1 /\ f = <<Msg("abort"), Msg("ping")>> /\ c = "waiting"
           \/ items > 0 /\ ahead = 0 /\ f = <<Msg("abort")>> /\ c = "merging"
    BY WhoSends
  <1>2. b \o <<>> = <<>> /\ b \o <<[kind |-> "data", data |-> d]>> = <<[kind |-> "data", data |-> d]>>
    BY <1>1, MessagesHere
  <1>3. CASE items = 0 /\ ahead = 1 /\ f = <<Msg("abort")>> /\ c \in {"away", "begin"}
    <2>1. Tail(f) = <<>> /\ ahead - 1 = 0 /\ ~(items > 0)
      BY <1>3, MessagesHere
    <2> QED  BY <1>2, <1>3, <2>1 DEF Shake
  <1>4. CASE items = 0 /\ ahead = 1 /\ f = <<Msg("abort"), Msg("ping")>> /\ c = "waiting"
    <2>1. Tail(f) = <<Msg("ping")>> /\ ahead - 1 = 0 /\ ~(items > 0)
      BY <1>4, MessagesHere
    <2> QED  BY <1>2, <1>4, <2>1 DEF Shake
  <1>5. CASE items > 0 /\ ahead = 0 /\ f = <<Msg("abort")>> /\ c = "merging"
    <2>1. Tail(f) = <<>> /\ ahead - 1 = -1 /\ items # 0
      BY <1>5, MessagesHere
    <2> QED  BY <1>2, <1>5, <2>1 DEF Shake
  <1> QED  BY <1>1, <1>3, <1>4, <1>5

(* A step of rank r inside the synchronisation, or into it: it stays in    *)
(* its session or goes on to the next one.                                 *)
Advance(r, v) ==
    /\ v \in LocalVars /\ sync' = [sync EXCEPT ![r] = v] /\ UNCHANGED <<p, calls, scattered>>
    /\ \/ v.step = sync[r].step
       \/ v.step = sync[r].step + 1 /\ v.phase = "begin" /\ v.smallest = MaxTime
    /\ v.diffs \in [Members -> Int]

(* The return of rank r from it *)
Returned(r) ==
    /\ Through(r) /\ calls[r] < 2 /\ calls' = [calls EXCEPT ![r] = calls[r] + 1]
    /\ sync' = [sync EXCEPT ![r] = Idle] /\ UNCHANGED <<p, net>>

\* What the step does to a session that is not the one rank r is in.
Passes(r, k) ==
    /\ Done(r, k)' = Done(r, k)
    /\ Turn(r, k)' = Turn(r, k) \/ (Turn(r, k) = "away" /\ Turn(r, k)' \in {"away", "begin"})

(* Every rank has a session.                                               *)
LEMMA SessionsCount ==
    ASSUME p \in Procs, NEW r \in Members
    PROVE  Sessions(r) \in Nat \ {0} /\ r \in Nat
  <1>1. p \in Nat
    BY SizeFacts
  <1>2. r \in Nat
    BY <1>1 DEF Members
  <1>3. Rounds(r) \in 1..Log2 /\ Log2 \in Nat
    BY <1>2, RoundsShape, SizeFacts
  <1>4. Rounds(r) \in Nat \ {0}
    BY <1>3
  <1> QED  BY <1>2, <1>4 DEF Sessions

(* The types of a rank's local variables                                   *)
LEMMA LocalFacts ==
    ASSUME SyncTypes, NEW r \in Members
    PROVE  /\ p \in Procs /\ calls[r] \in Nat /\ calls[r] \in 0..2
           /\ sync[r] \in LocalVars /\ sync[r].step \in Nat /\ sync[r].phase \in Phases
           /\ sync[r].smallest \in Nat /\ sync[r].notsmaller \in Nat /\ sync[r].diff \in Int
           /\ sync[r].step # 0 => sync[r].diffs \in [Members -> Int]
  <1>1. sync[r] \in LocalVars
    BY DEF SyncTypes
  <1>2. /\ sync[r].step \in Nat /\ sync[r].phase \in Phases
        /\ sync[r].smallest \in Nat /\ sync[r].notsmaller \in Nat /\ sync[r].diff \in Int
    BY <1>1 DEF LocalVars
  <1>3. calls[r] \in 0..2 /\ p \in Procs /\ (sync[r].step # 0 => sync[r].diffs \in [Members -> Int])
    BY DEF SyncTypes
  <1>4. calls[r] \in Nat
    BY <1>3
  <1> QED  BY <1>1, <1>2, <1>3, <1>4

(* A step in one session is none in another.                               *)
LEMMA AdvanceElsewhere ==
    ASSUME SyncTypes, NEW r \in Members, NEW v, Advance(r, v), NEW q \in Members, NEW k,
           ~(q = r /\ k = sync[r].step), k \in Nat
    PROVE  Passes(q, k)
  <1>1. sync[r].step \in Nat /\ sync[r].phase \in Phases
    BY LocalFacts
  <1>2. calls' = calls /\ sync' = [sync EXCEPT ![r] = v] /\ sync \in [Members -> LocalVars]
    BY DEF Advance, SyncTypes
  <1>3. CASE q # r
    <2>1. sync'[q] = sync[q]
      BY <1>2, <1>3
    <2> QED  BY <1>2, <2>1 DEF Passes, Done, Turn
  <1>4. CASE q = r
    <2>1. sync'[q] = v
      BY <1>2, <1>4
    <2>2. k # sync[r].step
      BY <1>4
    <2>3. Turn(q, k) = "away"
      BY <1>4, <2>2 DEF Turn
    <2>4. v.step = sync[r].step \/ (v.step = sync[r].step + 1 /\ v.phase = "begin")
      BY DEF Advance
    <2>5. Turn(q, k)' = IF v.step = k THEN v.phase ELSE "away"
      BY <2>1 DEF Turn
    <2>6. Turn(q, k)' \in {"away", "begin"}
      BY <2>2, <2>4, <2>5
    <2>7. (v.step > k) <=> (sync[r].step > k)
      <3>1. PICK i \in Nat : i = sync[r].step
        BY <1>1
      <3>2. PICK j \in Nat : j = v.step
        BY <2>4, <3>1
      <3>3. k # i /\ (j = i \/ j = i + 1)
        BY <2>2, <2>4, <3>1, <3>2
      <3>4. (j > k) <=> (i > k)
        BY <3>3
      <3> QED  BY <3>1, <3>2, <3>4
    <2>8. Done(q, k)' = Done(q, k)
      BY <1>2, <1>4, <2>1, <2>7 DEF Done
    <2> QED  BY <2>3, <2>6, <2>8 DEF Passes
  <1> QED  BY <1>3, <1>4

(* What it is in its own                                                   *)
LEMMA AdvanceHere ==
    ASSUME SyncTypes, NEW r \in Members, NEW v, Advance(r, v), NEW k \in Nat, sync[r].step = k
    PROVE  /\ Turn(r, k) = sync[r].phase /\ Done(r, k) = calls[r]
           /\ v.step = k => Turn(r, k)' = v.phase /\ Done(r, k)' = Done(r, k)
           /\ v.step = k + 1 => Turn(r, k)' = "away" /\ Done(r, k)' = Done(r, k) + 1
  <1>0. calls[r] \in Nat
    BY LocalFacts
  <1>1. sync'[r] = v /\ calls' = calls
    BY DEF Advance, SyncTypes
  <1>2. ~(k > k) /\ k + 1 > k /\ k + 1 # k
    OBVIOUS
  <1>3. Turn(r, k) = sync[r].phase /\ Done(r, k) = calls[r]
    BY <1>0, <1>2 DEF Turn, Done
  <1>4. ASSUME v.step = k PROVE Turn(r, k)' = v.phase /\ Done(r, k)' = Done(r, k)
    BY <1>1, <1>2, <1>4 DEF Turn, Done
  <1>5. ASSUME v.step = k + 1 PROVE Turn(r, k)' = "away" /\ Done(r, k)' = Done(r, k) + 1
    <2>1. Turn(r, k)' = "away"
      BY <1>1, <1>2, <1>5 DEF Turn
    <2>2. Done(r, k)' = calls[r] + 1
      BY <1>1, <1>2, <1>5 DEF Done
    <2> QED  BY <1>3, <2>1, <2>2
  <1> QED  BY <1>3, <1>4, <1>5

(* A return from the synchronisation is a step in no session.              *)
LEMMA ReturnedPasses ==
    ASSUME SyncTypes, NEW r \in Members, Returned(r), NEW q \in Members, NEW k \in 1..Sessions(q)
    PROVE  Passes(q, k)
  <1>1. sync \in [Members -> LocalVars] /\ calls \in [Members -> 0..2] /\ p \in Procs
    BY DEF SyncTypes
  <1>2. CASE q # r
    <2>1. sync'[q] = sync[q] /\ calls'[q] = calls[q]
      BY <1>1, <1>2 DEF Returned
    <2> QED  BY <2>1 DEF Passes, Done, Turn
  <1>3. CASE q = r
    <2>1. Sessions(q) \in Nat
      BY <1>1, SessionsCount
    <2>2. k \in Nat /\ k # 0 /\ k < Sessions(q) + 1
      BY <2>1
    <2>3. sync[q].step = Sessions(q) + 1
      BY <1>3 DEF Returned, Through
    <2>4. sync'[q].step = 0 /\ calls'[q] = calls[q] + 1 /\ calls[q] \in Nat
      BY <1>1, <1>3 DEF Returned, Idle
    <2>5. sync[q].step # k /\ sync[q].step > k /\ sync'[q].step # k /\ ~(sync'[q].step > k)
      BY <2>1, <2>2, <2>3, <2>4
    <2>6. Done(q, k) = calls[q] + 1 /\ Done(q, k)' = (calls[q] + 1) + 0
      BY <2>4, <2>5 DEF Done
    <2>7. Turn(q, k) = "away" /\ Turn(q, k)' = "away"
      BY <2>5 DEF Turn
    <2> QED  BY <2>4, <2>6, <2>7 DEF Passes
  <1> QED  BY <1>2, <1>3

(* A pair that no step is about *)
LEMMA ShakenElsewhere ==
    ASSUME SyncTypes, p' = p, NEW x \in Pairs, Shaken(x),
           net'[<<Client(x), Server(x)>>] = net[<<Client(x), Server(x)>>],
           net'[<<Server(x), Client(x)>>] = net[<<Server(x), Client(x)>>],
           Passes(Client(x), ClientTurn(x)), Passes(Server(x), ServerTurn(x))
    PROVE  Shaken(x)'
  <1>1. /\ Client(x)' = Client(x) /\ Server(x)' = Server(x) /\ Items(x)' = Items(x)
        /\ ClientTurn(x)' = ClientTurn(x) /\ ServerTurn(x)' = ServerTurn(x)
    BY SamePairs
  <1>2. Forth(x)' = Forth(x) /\ Back(x)' = Back(x)
    BY <1>1 DEF Forth, Back, Message
  <1>3. Ahead(x)' = Ahead(x)
    BY <1>1 DEF Ahead, Passes, Done
  <1>4. /\ AtClient(x)' = AtClient(x) \/ (AtClient(x) = "away" /\ AtClient(x)' \in {"away", "begin"})
        /\ AtServer(x)' = AtServer(x) \/ AtServer(x) = "away"
    BY <1>1 DEF AtClient, AtServer, Passes, Turn
  <1>5. Shake(Forth(x), Back(x), Ahead(x), AtClient(x)', AtServer(x)', Items(x))
    <2>1. Shake(Forth(x), Back(x), Ahead(x), AtClient(x), AtServer(x), Items(x))
      BY DEF Shaken
    <2> QED  BY <1>4, <2>1, ShakeElsewhere
  <1> QED  BY <1>1, <1>2, <1>3, <1>5 DEF Shaken

Links == SyncTypes /\ (\A x \in Pairs : Shaken(x)) /\ Silent

AsClient(r, x) == r = Client(x) /\ sync[r].step = ClientTurn(x)
AsServer(r, x) == r = Server(x) /\ sync[r].step = ServerTurn(x)

(* A rank in a session is one of the two of a pair.                        *)
LEMMA ActingPair ==
    ASSUME p \in Procs, NEW r \in Members, InSession(r)
    PROVE  \E x \in Pairs :
             \/ /\ AsClient(r, x) /\ Session(r).client = TRUE
                /\ Session(r).items = Items(x) /\ Session(r).peer = Server(x)
             \/ /\ AsServer(r, x) /\ Session(r).client = FALSE
                /\ Session(r).items = Items(x) /\ Session(r).peer = Client(x)
  <1>1. PICK k \in 1..Sessions(r) : k = sync[r].step
    BY DEF InSession
  <1>2. Session(r) = SessionAt(r, k)
    BY <1>1 DEF Session
  <1>3. PICK x \in Pairs : \/ r = Client(x) /\ k = ClientTurn(x)
                           \/ r = Server(x) /\ k = ServerTurn(x)
    BY SessionPair
  <1>4. /\ SessionAt(Client(x), ClientTurn(x)) =
             [client |-> TRUE, items |-> Items(x), peer |-> Server(x)]
        /\ SessionAt(Server(x), ServerTurn(x)) =
             [client |-> FALSE, items |-> Items(x), peer |-> Client(x)]
    BY PairFacts
  <1>5. CASE r = Client(x) /\ k = ClientTurn(x)
    <2>1. Session(r) = [client |-> TRUE, items |-> Items(x), peer |-> Server(x)]
      BY <1>2, <1>4, <1>5
    <2> QED  BY <1>1, <1>5, <2>1 DEF AsClient
  <1>6. CASE r = Server(x) /\ k = ServerTurn(x)
    <2>1. Session(r) = [client |-> FALSE, items |-> Items(x), peer |-> Client(x)]
      BY <1>2, <1>4, <1>6
    <2> QED  BY <1>1, <1>6, <2>1 DEF AsServer
  <1> QED  BY <1>3, <1>5, <1>6

(* The types of what is said of a pair                                     *)
LEMMA PairTypes ==
    ASSUME SyncTypes, NEW x \in Pairs
    PROVE  /\ Client(x) \in Members /\ Server(x) \in Members /\ Client(x) # Server(x)
           /\ <<Client(x), Server(x)>> \in Members \X Members
           /\ <<Server(x), Client(x)>> \in Members \X Members
           /\ ClientTurn(x) \in Nat \ {0} /\ ServerTurn(x) \in Nat \ {0} /\ Items(x) \in Nat
           /\ ClientTurn(x) \in 1..Sessions(Client(x)) /\ ServerTurn(x) \in 1..Sessions(Server(x))
           /\ Ahead(x) \in Int
           /\ Done(Client(x), ClientTurn(x)) \in Nat /\ Done(Server(x), ServerTurn(x)) \in Nat
  <1>1. p \in Procs
    BY DEF SyncTypes
  <1>2. /\ Client(x) \in Members /\ Server(x) \in Members /\ Client(x) # Server(x)
        /\ ClientTurn(x) \in 1..Sessions(Client(x)) /\ ServerTurn(x) \in 1..Sessions(Server(x))
        /\ Items(x) \in Nat
    BY <1>1, PairFacts
  <1>3. Sessions(Client(x)) \in Nat /\ Sessions(Server(x)) \in Nat
    BY <1>1, <1>2, SessionsCount
  <1>4. ClientTurn(x) \in Nat \ {0} /\ ServerTurn(x) \in Nat \ {0}
    BY <1>2, <1>3
  <1>5. Done(Client(x), ClientTurn(x)) \in Nat /\ Done(Server(x), ServerTurn(x)) \in Nat
    <2>1. calls[Client(x)] \in Nat /\ calls[Server(x)] \in Nat
      BY <1>2, LocalFacts
    <2> QED  BY <2>1 DEF Done
  <1>6. Ahead(x) \in Int
    BY <1>5 DEF Ahead
  <1> QED  BY <1>2, <1>4, <1>5, <1>6

(* What an exchange changes in the network                                 *)
LEMMA ExchangeFacts ==
    ASSUME SyncTypes, NEW r \in Members, NEW q \in Members, r # q, NEW taken, NEW sent,
           net' = Exchanged(r, q, taken, sent)
    PROVE  /\ net' = [pair \in Members \X Members |-> net'[pair]]
           /\ net'[<<r, q>>] = net[<<r, q>>] \o sent
           /\ net'[<<q, r>>] = IF taken THEN Tail(net[<<q, r>>]) ELSE net[<<q, r>>]
           /\ \A e \in Members \X Members : e # <<r, q>> /\ e # <<q, r>> => net'[e] = net[e]
  <1>1. <<r, q>> \in Members \X Members /\ <<q, r>> \in Members \X Members /\ <<r, q>> # <<q, r>>
    OBVIOUS
  <1>2. net = [pair \in Members \X Members |-> net[pair]]
    BY DEF SyncTypes
  <1> QED  BY <1>1, <1>2 DEF Exchanged

(* A step of one of a pair leaves every other pair alone.                  *)
LEMMA LinksExcept ==
    ASSUME Links, NEW x \in Pairs, NEW r \in Members, AsClient(r, x) \/ AsServer(r, x),
           NEW v, Advance(r, v),
           \A e \in Members \X Members :
             e # <<Client(x), Server(x)>> /\ e # <<Server(x), Client(x)>> => net'[e] = net[e],
           Shaken(x)'
    PROVE  (\A z \in Pairs : Shaken(z))' /\ Silent'
  <1>1. SyncTypes /\ p \in Procs /\ p' = p
    BY DEF Links, SyncTypes, Advance
  <1>2. ASSUME NEW z \in Pairs PROVE Shaken(z)'
    <2>1. CASE z = x
      BY <2>1
    <2>2. CASE z # x
      <3>1. /\ Client(z) \in Members /\ Server(z) \in Members /\ Client(z) # Server(z)
            /\ <<Client(z), Server(z)>> \in Members \X Members
            /\ <<Server(z), Client(z)>> \in Members \X Members
            /\ ClientTurn(z) \in Nat /\ ServerTurn(z) \in Nat
        BY <1>1, PairTypes
      <3>2. /\ ~(Client(x) = Client(z) /\ Server(x) = Server(z))
            /\ ~(Client(x) = Server(z) /\ Server(x) = Client(z))
            /\ Client(x) = Client(z) => ClientTurn(x) # ClientTurn(z)
            /\ Server(x) = Server(z) => ServerTurn(x) # ServerTurn(z)
            /\ Client(x) = Server(z) => ClientTurn(x) # ServerTurn(z)
            /\ Server(x) = Client(z) => ServerTurn(x) # ClientTurn(z)
        BY <1>1, <2>2, PairsDiffer
      <3>3. /\ net'[<<Client(z), Server(z)>>] = net[<<Client(z), Server(z)>>]
            /\ net'[<<Server(z), Client(z)>>] = net[<<Server(z), Client(z)>>]
        BY <3>1, <3>2
      <3>4. Passes(Client(z), ClientTurn(z))
        <4>1. ~(Client(z) = r /\ ClientTurn(z) = sync[r].step)
          BY <3>2 DEF AsClient, AsServer
        <4> QED  BY <1>1, <3>1, <4>1, AdvanceElsewhere
      <3>5. Passes(Server(z), ServerTurn(z))
        <4>1. ~(Server(z) = r /\ ServerTurn(z) = sync[r].step)
          BY <3>2 DEF AsClient, AsServer
        <4> QED  BY <1>1, <3>1, <4>1, AdvanceElsewhere
      <3>6. Shaken(z)
        BY DEF Links
      <3> QED  BY <1>1, <3>3, <3>4, <3>5, <3>6, ShakenElsewhere
    <2> QED  BY <2>1, <2>2
  <1>3. Pairs' = Pairs /\ Members' = Members /\ \A z : Client(z)' = Client(z) /\ Server(z)' = Server(z)
    BY <1>1, SamePairs
  <1>4. Silent'
    <2> SUFFICES ASSUME NEW e \in Members \X Members, Strangers(e) PROVE net'[e] = <<>>
      BY <1>3 DEF Silent, Strangers
    <2>1. net[e] = <<>>
      BY DEF Links, Silent
    <2>2. net'[e] = net[e]
      BY DEF Strangers
    <2> QED  BY <2>1, <2>2
  <1> QED  BY <1>2, <1>3, <1>4

(* A client's step for its pair                                            *)
LEMMA ClientMoves ==
    ASSUME SyncTypes, NEW x \in Pairs, NEW r \in Members, AsClient(r, x), NEW v, Advance(r, v)
    PROVE  /\ AtClient(x) = sync[r].phase /\ AtServer(x)' = AtServer(x)
           /\ v.step = sync[r].step => AtClient(x)' = v.phase /\ Ahead(x)' = Ahead(x)
           /\ v.step = sync[r].step + 1 => AtClient(x)' = "away" /\ Ahead(x)' = Ahead(x) + 1
  <1>1. p \in Procs /\ p' = p /\ r = Client(x) /\ sync[r].step = ClientTurn(x)
    BY DEF SyncTypes, Advance, AsClient
  <1>2. /\ Client(x)' = Client(x) /\ Server(x)' = Server(x)
        /\ ClientTurn(x)' = ClientTurn(x) /\ ServerTurn(x)' = ServerTurn(x)
    BY <1>1, SamePairs
  <1>3. /\ Server(x) \in Members /\ Client(x) # Server(x) /\ ClientTurn(x) \in Nat /\ ServerTurn(x) \in Nat
        /\ Done(Client(x), ClientTurn(x)) \in Nat /\ Done(Server(x), ServerTurn(x)) \in Nat
    BY PairTypes
  <1>4. PICK k \in Nat : k = ClientTurn(x)
    BY <1>3
  <1>5. /\ Turn(r, k) = sync[r].phase
        /\ v.step = k => Turn(r, k)' = v.phase /\ Done(r, k)' = Done(r, k)
        /\ v.step = k + 1 => Turn(r, k)' = "away" /\ Done(r, k)' = Done(r, k) + 1
    BY <1>1, <1>4, AdvanceHere
  <1>6. /\ AtClient(x) = Turn(r, k) /\ AtClient(x)' = Turn(r, k)'
        /\ Done(Client(x), ClientTurn(x)) = Done(r, k) /\ Done(Client(x), ClientTurn(x))' = Done(r, k)'
    BY <1>1, <1>2, <1>4 DEF AtClient, Turn, Done
  <1>7. sync'[Server(x)] = sync[Server(x)] /\ calls' = calls
    BY <1>1, <1>3 DEF Advance, SyncTypes
  <1>8. /\ AtServer(x)' = AtServer(x)
        /\ Done(Server(x), ServerTurn(x))' = Done(Server(x), ServerTurn(x))
    BY <1>2, <1>7 DEF AtServer, Turn, Done
  <1>9. PICK a \in Nat, b \in Nat : a = Done(Client(x), ClientTurn(x)) /\ b = Done(Server(x), ServerTurn(x))
    BY <1>3
  <1>10. Ahead(x) = a - b
    BY <1>9 DEF Ahead
  <1>11. ASSUME v.step = k PROVE Ahead(x)' = Ahead(x) /\ AtClient(x)' = v.phase
    <2>1. Ahead(x)' = a - b
      BY <1>5, <1>6, <1>8, <1>9, <1>11 DEF Ahead
    <2> QED  BY <1>5, <1>6, <1>10, <1>11, <2>1
  <1>12. ASSUME v.step = k + 1 PROVE Ahead(x)' = Ahead(x) + 1 /\ AtClient(x)' = "away"
    <2>1. Ahead(x)' = (a + 1) - b
      BY <1>5, <1>6, <1>8, <1>9, <1>12 DEF Ahead
    <2>2. Ahead(x)' = Ahead(x) + 1
      BY <1>10, <2>1
    <2> QED  BY <1>5, <1>6, <1>12, <2>2
  <1> QED  BY <1>1, <1>4, <1>5, <1>6, <1>8, <1>11, <1>12

(* A server's step for its pair                                            *)
LEMMA ServerMoves ==
    ASSUME SyncTypes, NEW x \in Pairs, NEW r \in Members, AsServer(r, x), NEW v, Advance(r, v)
    PROVE  /\ AtServer(x) = sync[r].phase /\ AtClient(x)' = AtClient(x)
           /\ v.step = sync[r].step => AtServer(x)' = v.phase /\ Ahead(x)' = Ahead(x)
           /\ v.step = sync[r].step + 1 => AtServer(x)' = "away" /\ Ahead(x)' = Ahead(x) - 1
  <1>1. p \in Procs /\ p' = p /\ r = Server(x) /\ sync[r].step = ServerTurn(x)
    BY DEF SyncTypes, Advance, AsServer
  <1>2. /\ Client(x)' = Client(x) /\ Server(x)' = Server(x)
        /\ ClientTurn(x)' = ClientTurn(x) /\ ServerTurn(x)' = ServerTurn(x)
    BY <1>1, SamePairs
  <1>3. /\ Client(x) \in Members /\ Client(x) # Server(x) /\ ClientTurn(x) \in Nat /\ ServerTurn(x) \in Nat
        /\ Done(Client(x), ClientTurn(x)) \in Nat /\ Done(Server(x), ServerTurn(x)) \in Nat
    BY PairTypes
  <1>4. PICK k \in Nat : k = ServerTurn(x)
    BY <1>3
  <1>5. /\ Turn(r, k) = sync[r].phase
        /\ v.step = k => Turn(r, k)' = v.phase /\ Done(r, k)' = Done(r, k)
        /\ v.step = k + 1 => Turn(r, k)' = "away" /\ Done(r, k)' = Done(r, k) + 1
    BY <1>1, <1>4, AdvanceHere
  <1>6. /\ AtServer(x) = Turn(r, k) /\ AtServer(x)' = Turn(r, k)'
        /\ Done(Server(x), ServerTurn(x)) = Done(r, k) /\ Done(Server(x), ServerTurn(x))' = Done(r, k)'
    BY <1>1, <1>2, <1>4 DEF AtServer, Turn, Done
  <1>7. sync'[Client(x)] = sync[Client(x)] /\ calls' = calls
    BY <1>1, <1>3 DEF Advance, SyncTypes
  <1>8. /\ AtClient(x)' = AtClient(x)
        /\ Done(Client(x), ClientTurn(x))' = Done(Client(x), ClientTurn(x))
    BY <1>2, <1>7 DEF AtClient, Turn, Done
  <1>9. PICK a \in Nat, b \in Nat : a = Done(Client(x), ClientTurn(x)) /\ b = Done(Server(x), ServerTurn(x))
    BY <1>3
  <1>10. Ahead(x) = a - b
    BY <1>9 DEF Ahead
  <1>11. ASSUME v.step = k PROVE Ahead(x)' = Ahead(x) /\ AtServer(x)' = v.phase
    <2>1. Ahead(x)' = a - b
      BY <1>5, <1>6, <1>8, <1>9, <1>11 DEF Ahead
    <2> QED  BY <1>5, <1>6, <1>10, <1>11, <2>1
  <1>12. ASSUME v.step = k + 1 PROVE Ahead(x)' = Ahead(x) - 1 /\ AtServer(x)' = "away"
    <2>1. Ahead(x)' = a - (b + 1)
      BY <1>5, <1>6, <1>8, <1>9, <1>12 DEF Ahead
    <2>2. Ahead(x)' = Ahead(x) - 1
      BY <1>10, <2>1
    <2> QED  BY <1>5, <1>6, <1>12, <2>2
  <1> QED  BY <1>1, <1>4, <1>5, <1>6, <1>8, <1>11, <1>12

(* A step inside keeps the types.                                          *)
LEMMA TypesAdvance ==
    ASSUME SyncTypes, NEW r \in Members, NEW v, Advance(r, v),
           net' = [pair \in Members \X Members |-> net'[pair]],
           hop' \in [Members \X Members -> Int], late' = [q \in Members |-> late'[q]]
    PROVE  SyncTypes'
  <1>1. Members' = Members /\ p' = p /\ p \in Procs
    BY SamePairs DEF Advance, SyncTypes
  <1>2. LocalVars' = LocalVars
    BY <1>1 DEF LocalVars
  <1>3. sync' = [sync EXCEPT ![r] = v] /\ v \in LocalVars /\ v.diffs \in [Members -> Int]
        /\ calls' = calls /\ scattered' = scattered
    BY DEF Advance
  <1>4. sync' \in [Members -> LocalVars]
    BY <1>3 DEF SyncTypes
  <1>5. ASSUME NEW q \in Members, sync'[q].step # 0 PROVE sync'[q].diffs \in [Members -> Int]
    <2>1. CASE q = r
      BY <1>3, <2>1 DEF SyncTypes
    <2>2. CASE q # r
      <3>1. sync'[q] = sync[q]
        BY <1>3, <2>2 DEF SyncTypes
      <3> QED  BY <1>5, <3>1 DEF SyncTypes
    <2> QED  BY <2>1, <2>2
  <1>6. calls' \in [Members -> 0..2] /\ scattered' = [q \in Members |-> scattered'[q]]
    BY <1>3 DEF SyncTypes
  <1> QED  BY <1>1, <1>2, <1>4, <1>5, <1>6 DEF SyncTypes

(* The local variables of a rank that enters                               *)
Zeros == [x \in Members |-> 0]
Entered == [Idle EXCEPT !.step = 1, !.diffs = Zeros]

(* A rank enters: the effect of Enter in the terms of the invariant.       *)
LEMMA EnterEffect ==
    ASSUME SyncTypes, NEW r \in Members, Enter(r), calls' = calls
    PROVE  Advance(r, Entered) /\ UNCHANGED <<net, late, hop>> /\ sync[r].step = 0
  <1>1. sync[r].step = 0 /\ sync' = [sync EXCEPT ![r] = Entered]
        /\ UNCHANGED <<p, net, late, scattered, hop>>
    BY DEF Enter, Outside, Entered, Zeros
  <1>2. /\ Entered.step = 1 /\ Entered.phase = "begin" /\ Entered.smallest = MaxTime
        /\ Entered.diffs = Zeros
    BY DEF Entered, Idle
  <1>3. Zeros \in [Members -> Int]
    BY DEF Zeros
  <1>4. Entered \in LocalVars
    <2>1. 1000 \in Nat /\ 1 \in Nat /\ 0 \in Nat /\ 0 \in Int
      OBVIOUS
    <2>2. Idle.step \in Nat /\ Idle \in LocalVars
      BY <2>1 DEF Idle, LocalVars, Phases, MaxTime
    <2> DEFINE D == [Members -> Int] \cup {<<>>}
    <2>3. Zeros \in D
      BY <1>3
    <2>4. LocalVars = [step : Nat, phase : Phases, smallest : Nat, notsmaller : Nat, diff : Int, diffs : D]
      BY DEF LocalVars
    <2> HIDE DEF D
    <2>5. PICK s \in LocalVars, d \in D : s = Idle /\ d = Zeros
      BY <2>2, <2>3
    <2>6. [s EXCEPT !.step = 1] \in LocalVars
      BY <2>1, <2>4
    <2>7. PICK t \in LocalVars : t = [s EXCEPT !.step = 1]
      BY <2>6
    <2>8. [t EXCEPT !.diffs = d] \in LocalVars
      BY <2>4
    <2>9. [t EXCEPT !.diffs = d] = [s EXCEPT !.step = 1, !.diffs = d]
      BY <2>7
    <2>10. Entered = [s EXCEPT !.step = 1, !.diffs = d]
      BY <2>5 DEF Entered
    <2> QED  BY <2>8, <2>9, <2>10
  <1> QED  BY <1>1, <1>2, <1>3, <1>4 DEF Advance

(* A rank in a session has differences.                                    *)
LEMMA InSessionFacts ==
    ASSUME SyncTypes, NEW r \in Members, InSession(r)
    PROVE  /\ sync[r].step \in Nat \ {0} /\ sync[r].diffs \in [Members -> Int]
           /\ sync[r] \in LocalVars
  <1>1. Sessions(r) \in Nat
    BY SessionsCount DEF SyncTypes
  <1>2. sync[r].step \in Nat \ {0}
    BY <1>1 DEF InSession
  <1> QED  BY <1>2, LocalFacts

(* The effect of Ping                                                      *)
LEMMA PingEffect ==
    ASSUME SyncTypes, NEW r \in Members, Ping(r), calls' = calls
    PROVE  \E x \in Pairs :
             /\ AsClient(r, x) /\ sync[r].phase = "begin"
             /\ Advance(r, [sync[r] EXCEPT !.phase = "waiting"])
             /\ net' = Exchanged(r, Server(x), FALSE, <<Msg("ping")>>)
             /\ UNCHANGED <<late, hop>>
  <1>1. /\ InSession(r) /\ Session(r).client /\ sync[r].phase = "begin"
        /\ net' = Exchanged(r, Session(r).peer, FALSE, <<Msg("ping")>>)
        /\ UNCHANGED <<p, late, scattered, hop>>
    BY DEF Ping
  <1>2. PICK x \in Pairs : AsClient(r, x) /\ Session(r).peer = Server(x)
    BY <1>1, ActingPair DEF SyncTypes
  <1>3. sync[r] \in LocalVars /\ sync[r].diffs \in [Members -> Int]
    BY <1>1, InSessionFacts
  <1> DEFINE v == [sync[r] EXCEPT !.phase = "waiting"]
  <1>4. v \in LocalVars /\ v.step = sync[r].step /\ v.diffs = sync[r].diffs
    BY <1>3 DEF LocalVars, Phases
  <1>5. sync' = [sync EXCEPT ![r] = v]
    BY DEF Ping
  <1> HIDE DEF v
  <1>6. Advance(r, v)
    BY <1>1, <1>3, <1>4, <1>5 DEF Advance
  <1> QED  BY <1>1, <1>2, <1>6 DEF v

(* A client's local variables after a faster pong                          *)
Measured(s, c, q, there, back) ==
    [s EXCEPT !.smallest = there + back, !.notsmaller = 0, !.phase = "begin",
              !.diff = 2 * (Clock[c] - Clock[q]) + back - there]

(* The effect of Pong                                                      *)
LEMMA PongEffect ==
    ASSUME SyncTypes, NEW r \in Members, NEW there \in Legs[p], NEW back \in Legs[p],
           Pong(r, there, back), calls' = calls
    PROVE  \E x \in Pairs :
             /\ AsClient(r, x) /\ sync[r].phase = "waiting"
             /\ Back(x) # <<>> /\ Head(Back(x)).kind = "pong"
             /\ \/ Advance(r, Measured(sync[r], r, Server(x), there, back))
                \/ Advance(r, [sync[r] EXCEPT !.notsmaller = sync[r].notsmaller + 1, !.phase = "begin"])
             /\ net' = Exchanged(r, Server(x), TRUE, <<>>)
             /\ UNCHANGED <<late, hop>>
  <1>1. /\ InSession(r) /\ Session(r).client /\ sync[r].phase = "waiting"
        /\ Has(Session(r).peer, r, "pong")
        /\ net' = Exchanged(r, Session(r).peer, TRUE, <<>>)
        /\ UNCHANGED <<p, late, scattered, hop>>
    BY DEF Pong
  <1>2. PICK x \in Pairs : AsClient(r, x) /\ Session(r).peer = Server(x)
    BY <1>1, ActingPair DEF SyncTypes
  <1>3. sync[r] \in LocalVars /\ sync[r].diffs \in [Members -> Int]
        /\ sync[r].notsmaller \in Nat
    BY <1>1, InSessionFacts, LocalFacts
  <1>4. Back(x) # <<>> /\ Head(Back(x)).kind = "pong"
    BY <1>1, <1>2 DEF AsClient, Back, Has
  <1>5. CASE Faster(r, there, back)
    <2> DEFINE v == Measured(sync[r], r, Server(x), there, back)
    <2>1. there + back \in Nat /\ 2 * (Clock[r] - Clock[Server(x)]) + back - there \in Int
      <3>1. there \in Nat /\ back \in Nat
        BY FastestLeg DEF SyncTypes
      <3>2. Clock[r] \in Int /\ Clock[Server(x)] \in Int
        BY SyncAssumption, PairTypes DEF SyncTypes, Members
      <3> QED  BY <3>1, <3>2
    <2>2. v \in LocalVars /\ v.step = sync[r].step /\ v.diffs = sync[r].diffs
      BY <1>3, <2>1 DEF LocalVars, Phases, Measured
    <2>3. sync' = [sync EXCEPT ![r].smallest = there + back, ![r].notsmaller = 0, ![r].phase = "begin",
                               ![r].diff = 2 * (Clock[r] - Clock[Server(x)]) + back - there]
      BY <1>2, <1>5 DEF Pong
    <2>4. sync' = [sync EXCEPT ![r] = v]
      BY <2>3 DEF Measured, SyncTypes
    <2> HIDE DEF v
    <2>5. Advance(r, v)
      BY <1>1, <1>3, <2>2, <2>4 DEF Advance
    <2> QED  BY <1>1, <1>2, <1>4, <2>5 DEF v
  <1>6. CASE ~Faster(r, there, back)
    <2> DEFINE v == [sync[r] EXCEPT !.notsmaller = sync[r].notsmaller + 1, !.phase = "begin"]
    <2>1. v \in LocalVars /\ v.step = sync[r].step /\ v.diffs = sync[r].diffs
      <3>1. sync[r].notsmaller + 1 \in Nat
        BY <1>3
      <3> QED  BY <1>3, <3>1 DEF LocalVars, Phases
    <2>2. sync' = [sync EXCEPT ![r].notsmaller = @ + 1, ![r].phase = "begin"]
      BY <1>6 DEF Pong
    <2>3. sync' = [sync EXCEPT ![r] = v]
      BY <2>2 DEF SyncTypes
    <2> HIDE DEF v
    <2>4. Advance(r, v)
      BY <1>1, <1>3, <2>1, <2>3 DEF Advance
    <2> QED  BY <1>1, <1>2, <1>4, <2>4 DEF v
  <1> QED  BY <1>5, <1>6

(* What a next session starts with                                         *)
LEMMA NextSessionFacts ==
    ASSUME NEW t, t \in LocalVars
    PROVE  /\ NextSession(t) \in LocalVars /\ NextSession(t).step = t.step + 1
           /\ NextSession(t).phase = "begin" /\ NextSession(t).smallest = MaxTime
           /\ NextSession(t).diffs = t.diffs
  <1>1. t.step + 1 \in Nat /\ MaxTime \in Nat /\ 0 \in Nat
    BY DEF LocalVars, MaxTime
  <1>2. NextSession(t) \in LocalVars
    BY <1>1 DEF LocalVars, Phases, NextSession
  <1>3. /\ NextSession(t).step = t.step + 1
        /\ NextSession(t).phase = "begin" /\ NextSession(t).smallest = MaxTime
        /\ NextSession(t).diffs = t.diffs
    BY DEF LocalVars, NextSession
  <1> QED  BY <1>2, <1>3

(* The effect of Merge                                                     *)
LEMMA MergeEffect ==
    ASSUME Links, NEW r \in Members, Merge(r), calls' = calls,
           \A x \in Pairs : \A i \in 1..Items(x) :
             AsClient(r, x) /\ sync[r].phase = "merging" /\ Back(x) # <<>> /\ Head(Back(x)).kind = "data" =>
               Head(Back(x)).data[i] \in Int
    PROVE  \E x \in Pairs, t \in LocalVars :
             /\ AsClient(r, x) /\ sync[r].phase = "merging"
             /\ Back(x) # <<>> /\ Head(Back(x)).kind = "data"
             /\ t.step = sync[r].step /\ Advance(r, NextSession(t))
             /\ t.diffs \in [Members -> Int]
             /\ \A z \in Members :
                  t.diffs[z] = IF z \in (Server(x) + 1)..(Server(x) + Items(x))
                               THEN sync[r].diffs[Server(x)] + Head(Back(x)).data[z - Server(x)]
                               ELSE sync[r].diffs[z]
             /\ net' = Exchanged(r, Server(x), TRUE, <<>>)
             /\ UNCHANGED <<late, hop>>
  <1>0. SyncTypes
    BY DEF Links
  <1>1. /\ InSession(r) /\ sync[r].phase = "merging" /\ Has(Session(r).peer, r, "data")
        /\ net' = Exchanged(r, Session(r).peer, TRUE, <<>>)
        /\ UNCHANGED <<p, late, scattered, hop>>
    BY DEF Merge
  <1>2. PICK x \in Pairs : /\ AsClient(r, x) /\ Session(r).peer = Server(x)
                           /\ Session(r).items = Items(x)
    <2>1. PICK x \in Pairs : \/ /\ AsClient(r, x) /\ Session(r).client = TRUE
                                /\ Session(r).items = Items(x) /\ Session(r).peer = Server(x)
                             \/ /\ AsServer(r, x) /\ Session(r).client = FALSE
                                /\ Session(r).items = Items(x) /\ Session(r).peer = Client(x)
      BY <1>0, <1>1, ActingPair DEF SyncTypes
    <2>2. ASSUME AsServer(r, x), Session(r).peer = Client(x) PROVE FALSE
      <3>1. Forth(x) # <<>> /\ Head(Forth(x)).kind = "data"
        BY <1>1, <2>2 DEF AsServer, Forth, Has
      <3>2. Head(Forth(x)).kind \in {"ping", "abort"}
        BY <3>1, WhoSends DEF Links, Shaken
      <3> QED  BY <3>1, <3>2
    <2> QED  BY <2>1, <2>2
  <1>3. sync[r] \in LocalVars /\ sync[r].diffs \in [Members -> Int]
    BY <1>0, <1>1, InSessionFacts
  <1>4. /\ Back(x) # <<>> /\ Head(Back(x)).kind = "data"
        /\ Message(Session(r).peer, r) = Back(x)
    BY <1>1, <1>2 DEF AsClient, Back, Has
  <1> DEFINE merged == [z \in Members |-> IF z \in (Server(x) + 1)..(Server(x) + Items(x))
                                          THEN sync[r].diffs[Server(x)] + Head(Back(x)).data[z - Server(x)]
                                          ELSE sync[r].diffs[z]]
             t == [sync[r] EXCEPT !.diffs = merged]
  <1>5. sync' = [sync EXCEPT ![r] = NextSession(t)]
    BY <1>2, <1>4 DEF Merge
  <1>6. merged \in [Members -> Int]
    <2> SUFFICES ASSUME NEW z \in Members
                 PROVE  (IF z \in (Server(x) + 1)..(Server(x) + Items(x))
                         THEN sync[r].diffs[Server(x)] + Head(Back(x)).data[z - Server(x)]
                         ELSE sync[r].diffs[z]) \in Int
      OBVIOUS
    <2>1. Server(x) \in Members /\ Items(x) \in Nat
      BY <1>0, PairTypes
    <2>2. Server(x) \in Nat /\ z \in Nat
      BY <1>0, <2>1, SessionsCount DEF SyncTypes
    <2>3. ASSUME z \in (Server(x) + 1)..(Server(x) + Items(x))
          PROVE  Head(Back(x)).data[z - Server(x)] \in Int
      <3>1. z - Server(x) \in 1..Items(x)
        BY <2>1, <2>2, <2>3
      <3> QED  BY <1>1, <1>2, <1>4, <3>1
    <2> QED  BY <1>3, <2>1, <2>3
  <1>7. t \in LocalVars /\ t.step = sync[r].step /\ t.diffs = merged
    BY <1>3, <1>6 DEF LocalVars
  <1>8. \A z \in Members :
          merged[z] = IF z \in (Server(x) + 1)..(Server(x) + Items(x))
                      THEN sync[r].diffs[Server(x)] + Head(Back(x)).data[z - Server(x)]
                      ELSE sync[r].diffs[z]
    OBVIOUS
  <1> HIDE DEF t, merged
  <1>9. Advance(r, NextSession(t))
    BY <1>1, <1>5, <1>6, <1>7, NextSessionFacts DEF Merge, Advance
  <1> QED  BY <1>1, <1>2, <1>4, <1>6, <1>7, <1>8, <1>9

(* The clients inside of the tree and outside                              *)
LEMMA ClientInTree ==
    ASSUME p \in Procs, NEW x \in Pairs
    PROVE  /\ x >= Power => Client(x) = x /\ Client(x) >= Power /\ Items(x) = 0
           /\ ~(x >= Power) => Client(x) = Parent(x) /\ Server(x) = x /\ ~(Client(x) >= Power)
  <1>1. CASE x >= Power
    BY <1>1 DEF Client, Items
  <1>2. CASE ~(x >= Power)
    <2>1. x \in 1..(Power - 1)
      BY <1>2, InTree
    <2>2. Parent(x) \in 0..(Power - 1)
      BY <2>1, ParentIs
    <2>3. ~(Parent(x) >= Power)
      BY <2>2, SizeFacts
    <2> QED  BY <1>2, <2>3 DEF Client, Server
  <1> QED  BY <1>1, <1>2

(* The effect of Abort                                                     *)
LEMMA AbortEffect ==
    ASSUME SyncTypes, NEW r \in Members, NEW there \in Legs[p], NEW back \in Legs[p],
           Abort(r, there, back), calls' = calls
    PROVE  \E x \in Pairs, v \in LocalVars :
             /\ AsClient(r, x) /\ sync[r].phase = "waiting"
             /\ Back(x) # <<>> /\ Head(Back(x)).kind = "pong"
             /\ sync[r].smallest < MaxTime
             /\ Advance(r, v)
             /\ \A z \in Members :
                  v.diffs[z] = IF ~(x >= Power) /\ z = Server(x) THEN sync[r].diff ELSE sync[r].diffs[z]
             /\ \/ Items(x) = 0 /\ v.step = sync[r].step + 1 /\ v.phase = "begin"
                \/ Items(x) > 0 /\ v.step = sync[r].step /\ v.phase = "merging"
             /\ net' = Exchanged(r, Server(x), TRUE, <<Msg("abort")>>)
             /\ hop' = [hop EXCEPT ![<<r, Server(x)>>] = sync[r].smallest]
             /\ late' = IF x >= Power THEN [late EXCEPT ![x] = <<sync[r].diff>>] ELSE late
  <1>1. /\ InSession(r) /\ Session(r).client /\ sync[r].phase = "waiting"
        /\ Has(Session(r).peer, r, "pong") /\ ~Faster(r, there, back)
        /\ net' = Exchanged(r, Session(r).peer, TRUE, <<Msg("abort")>>)
        /\ hop' = [hop EXCEPT ![<<r, Session(r).peer>>] = sync[r].smallest]
        /\ UNCHANGED <<p, scattered>>
    BY DEF Abort
  <1>2. PICK x \in Pairs : /\ AsClient(r, x) /\ Session(r).peer = Server(x)
                           /\ Session(r).items = Items(x)
    BY <1>1, ActingPair DEF SyncTypes
  <1>3. sync[r] \in LocalVars /\ sync[r].diffs \in [Members -> Int] /\ sync[r].diff \in Int
        /\ sync[r].smallest \in Nat
    BY <1>1, InSessionFacts, LocalFacts
  <1>4. Back(x) # <<>> /\ Head(Back(x)).kind = "pong"
    BY <1>1, <1>2 DEF AsClient, Back, Has
  <1>5. sync[r].smallest < MaxTime
    <2>1. /\ there \in Nat /\ back \in Nat /\ 2 * there < MaxTime /\ 2 * back < MaxTime
      BY FastestLeg DEF SyncTypes
    <2>2. ~(there + back < sync[r].smallest)
      BY <1>1 DEF Faster
    <2>3. PICK n \in Nat : n = sync[r].smallest
      BY <1>3
    <2>4. ~(there + back < n) /\ MaxTime \in Nat
      BY <2>2, <2>3 DEF MaxTime
    <2>5. n < MaxTime
      BY <2>1, <2>4
    <2> QED  BY <2>3, <2>5
  <1>6. Items(x) \in Nat
    BY PairTypes
  <1> SUFFICES
        \E v \in LocalVars :
          /\ Advance(r, v)
          /\ \A z \in Members :
               v.diffs[z] = IF ~(x >= Power) /\ z = Server(x) THEN sync[r].diff ELSE sync[r].diffs[z]
          /\ \/ Items(x) = 0 /\ v.step = sync[r].step + 1 /\ v.phase = "begin"
             \/ Items(x) > 0 /\ v.step = sync[r].step /\ v.phase = "merging"
          /\ late' = IF x >= Power THEN [late EXCEPT ![x] = <<sync[r].diff>>] ELSE late
    <2>1. /\ net' = Exchanged(r, Server(x), TRUE, <<Msg("abort")>>)
          /\ hop' = [hop EXCEPT ![<<r, Server(x)>>] = sync[r].smallest]
      BY <1>1, <1>2
    <2> QED  BY <1>1, <1>2, <1>4, <1>5, <2>1
  <1>7. CASE x >= Power
    <2>1. r >= Power /\ Items(x) = 0 /\ r = x
      BY <1>2, <1>7, ClientInTree DEF AsClient, SyncTypes
    <2>2. late' = [late EXCEPT ![r] = <<sync[r].diff>>] /\ sync' = [sync EXCEPT ![r] = NextSession(sync[r])]
      BY <2>1 DEF Abort
    <2>3. /\ NextSession(sync[r]) \in LocalVars /\ NextSession(sync[r]).step = sync[r].step + 1
          /\ NextSession(sync[r]).phase = "begin" /\ NextSession(sync[r]).smallest = MaxTime
          /\ NextSession(sync[r]).diffs = sync[r].diffs
      BY <1>3, NextSessionFacts
    <2>4. Advance(r, NextSession(sync[r]))
      BY <1>1, <1>3, <2>2, <2>3 DEF Advance
    <2>5. PICK v \in LocalVars : v = NextSession(sync[r])
      BY <2>3
    <2>6. v.step = sync[r].step + 1 /\ v.phase = "begin" /\ v.diffs = sync[r].diffs /\ Advance(r, v)
      BY <2>3, <2>4, <2>5
    <2>7. late' = [late EXCEPT ![x] = <<sync[r].diff>>]
      BY <2>1, <2>2
    <2> QED  BY <1>7, <2>1, <2>6, <2>7
  <1>8. CASE ~(x >= Power)
    <2>1. ~(r >= Power) /\ Server(x) \in Members
      BY <1>2, <1>8, ClientInTree, PairTypes DEF AsClient, SyncTypes
    <2> DEFINE t == [sync[r] EXCEPT !.diffs[Server(x)] = sync[r].diff]
               u == [t EXCEPT !.phase = "merging"]
    <2>2. late' = late /\ sync' = [sync EXCEPT ![r] = IF Items(x) = 0 THEN NextSession(t) ELSE u]
      BY <1>2, <2>1 DEF Abort
    <2>3. /\ t.diffs = [sync[r].diffs EXCEPT ![Server(x)] = sync[r].diff]
          /\ t = [sync[r] EXCEPT !.diffs = [sync[r].diffs EXCEPT ![Server(x)] = sync[r].diff]]
          /\ t.step = sync[r].step
      BY <1>3 DEF LocalVars
    <2>4. t.diffs \in [Members -> Int]
      BY <1>3, <2>3
    <2>5. \A z \in Members : t.diffs[z] = IF z = Server(x) THEN sync[r].diff ELSE sync[r].diffs[z]
      BY <1>3, <2>1, <2>3
    <2>6. t \in LocalVars
      <3>1. PICK d \in [Members -> Int] \cup {<<>>} :
                   d = [sync[r].diffs EXCEPT ![Server(x)] = sync[r].diff]
        BY <2>3, <2>4
      <3>2. [sync[r] EXCEPT !.diffs = d] \in LocalVars
        BY <1>3 DEF LocalVars
      <3> QED  BY <2>3, <3>1, <3>2
    <2> HIDE DEF t
    <2>7. CASE Items(x) = 0
      <3>1. /\ NextSession(t) \in LocalVars /\ NextSession(t).step = t.step + 1
            /\ NextSession(t).phase = "begin" /\ NextSession(t).smallest = MaxTime
            /\ NextSession(t).diffs = t.diffs
        BY <2>6, NextSessionFacts
      <3>2. PICK v \in LocalVars : v = NextSession(t)
        BY <3>1
      <3>3. v.step = t.step + 1 /\ v.phase = "begin" /\ v.smallest = MaxTime /\ v.diffs = t.diffs
        BY <3>1, <3>2
      <3>4. v.step = sync[r].step + 1
        BY <2>3, <3>3
      <3>5. sync' = [sync EXCEPT ![r] = v]
        BY <2>2, <2>7, <3>2
      <3>6. Advance(r, v)
        BY <1>1, <2>4, <3>3, <3>4, <3>5 DEF Advance
      <3>7. \A z \in Members : v.diffs[z] = IF z = Server(x) THEN sync[r].diff ELSE sync[r].diffs[z]
        BY <2>5, <3>3
      <3> QED  BY <1>8, <2>2, <2>7, <3>3, <3>4, <3>6, <3>7
    <2>8. CASE Items(x) # 0
      <3>1. u \in LocalVars /\ u.step = sync[r].step /\ u.diffs = t.diffs /\ u.phase = "merging"
        BY <2>3, <2>6 DEF LocalVars, Phases
      <3> HIDE DEF u
      <3>2. Advance(r, u)
        BY <1>1, <2>2, <2>4, <2>8, <3>1 DEF Advance
      <3>3. Items(x) > 0
        BY <1>6, <2>8
      <3>4. PICK v \in LocalVars : v = u
        BY <3>1
      <3>5. v.step = sync[r].step /\ v.diffs = t.diffs /\ v.phase = "merging" /\ Advance(r, v)
        BY <3>1, <3>2, <3>4
      <3>6. \A z \in Members : v.diffs[z] = IF z = Server(x) THEN sync[r].diff ELSE sync[r].diffs[z]
        BY <2>5, <3>5
      <3> QED  BY <1>8, <2>2, <3>3, <3>5, <3>6
    <2> QED  BY <2>7, <2>8
  <1> QED  BY <1>7, <1>8

(* What a server tells                                                     *)
Knowledge(r, n) == [i \in 1..n |-> sync[r].diffs[r + i]]
Answer(r, n) == IF n = 0 THEN <<>> ELSE <<[kind |-> "data", data |-> Knowledge(r, n)]>>

(* The effect of Serve                                                     *)
LEMMA ServeEffect ==
    ASSUME SyncTypes, NEW r \in Members, Serve(r), calls' = calls
    PROVE  \E x \in Pairs :
             /\ AsServer(r, x) /\ Forth(x) # <<>> /\ UNCHANGED <<late, hop>>
             /\ \/ /\ Head(Forth(x)).kind = "ping" /\ Advance(r, sync[r])
                   /\ net' = Exchanged(r, Client(x), TRUE, <<Msg("pong")>>)
                \/ /\ Head(Forth(x)).kind = "abort" /\ Advance(r, NextSession(sync[r]))
                   /\ net' = Exchanged(r, Client(x), TRUE, Answer(r, Items(x)))
  <1>1. InSession(r) /\ ~Session(r).client /\ UNCHANGED <<p, late, scattered, hop>>
    BY DEF Serve
  <1>2. PICK x \in Pairs : /\ AsServer(r, x) /\ Session(r).peer = Client(x)
                           /\ Session(r).items = Items(x)
    BY <1>1, ActingPair DEF SyncTypes
  <1>3. sync[r] \in LocalVars /\ sync[r].diffs \in [Members -> Int]
    BY <1>1, InSessionFacts
  <1>4. ASSUME NEW k, Has(Session(r).peer, r, k) PROVE Forth(x) # <<>> /\ Head(Forth(x)).kind = k
    BY <1>2, <1>4 DEF AsServer, Forth, Has
  <1>5. CASE /\ Has(Session(r).peer, r, "ping")
             /\ net' = Exchanged(r, Session(r).peer, TRUE, <<Msg("pong")>>)
             /\ UNCHANGED sync
    <2>1. sync' = [sync EXCEPT ![r] = sync[r]]
      BY <1>5 DEF SyncTypes
    <2>2. Advance(r, sync[r])
      BY <1>1, <1>3, <2>1 DEF Advance
    <2> QED  BY <1>1, <1>2, <1>4, <1>5, <2>2
  <1>6. CASE /\ Has(Session(r).peer, r, "abort")
             /\ net' = Exchanged(r, Session(r).peer, TRUE,
                         IF Session(r).items = 0 THEN <<>>
                         ELSE <<[kind |-> "data", data |-> [i \in 1..Session(r).items |-> sync[r].diffs[r + i]]]>>)
             /\ sync' = [sync EXCEPT ![r] = NextSession(sync[r])]
    <2>1. Advance(r, NextSession(sync[r]))
      BY <1>1, <1>3, <1>6, NextSessionFacts DEF Advance
    <2>2. net' = Exchanged(r, Client(x), TRUE, Answer(r, Items(x)))
      BY <1>2, <1>6 DEF Answer, Knowledge
    <2> QED  BY <1>1, <1>2, <1>4, <1>6, <2>1, <2>2
  <1>7. \/ /\ Has(Session(r).peer, r, "ping")
           /\ net' = Exchanged(r, Session(r).peer, TRUE, <<Msg("pong")>>)
           /\ UNCHANGED sync
        \/ /\ Has(Session(r).peer, r, "abort")
           /\ net' = Exchanged(r, Session(r).peer, TRUE,
                       IF Session(r).items = 0 THEN <<>>
                       ELSE <<[kind |-> "data", data |-> [i \in 1..Session(r).items |-> sync[r].diffs[r + i]]]>>)
           /\ sync' = [sync EXCEPT ![r] = NextSession(sync[r])]
    BY DEF Serve
  <1> QED  BY <1>5, <1>6, <1>7

(* What a server tells are differences.                                    *)
Tells(x) == Back(x) # <<>> /\ Head(Back(x)).kind = "data"
Carries(x) == Tells(x) => \A i \in 1..Items(x) : Head(Back(x)).data[i] \in Int
Linked == Links /\ \A x \in Pairs : Carries(x)

(* The messages of a pair are those of its two ranks.                      *)
LEMMA SameMessages ==
    ASSUME p' = p, NEW x,
           net'[<<Client(x), Server(x)>>] = net[<<Client(x), Server(x)>>],
           net'[<<Server(x), Client(x)>>] = net[<<Server(x), Client(x)>>]
    PROVE  /\ Forth(x)' = Forth(x) /\ Back(x)' = Back(x)
           /\ Tells(x)' = Tells(x) /\ Carries(x)' = Carries(x)
  <1>1. Client(x)' = Client(x) /\ Server(x)' = Server(x) /\ Items(x)' = Items(x)
    BY SamePairs
  <1>2. Forth(x)' = Forth(x) /\ Back(x)' = Back(x)
    BY <1>1 DEF Forth, Back, Message
  <1>3. Tells(x)' = Tells(x)
    BY <1>2 DEF Tells
  <1> QED  BY <1>1, <1>2, <1>3 DEF Carries

(* The ranks whose clocks a server knows                                   *)
LEMMA ItemsInside ==
    ASSUME p \in Procs, NEW x \in Pairs, NEW i \in 1..Items(x)
    PROVE  /\ ~(x >= Power) /\ x \in 1..(Power - 1) /\ Server(x) = x
           /\ x + i \in Members /\ Rounds(x) - 1 \in 1..Log2 /\ Rounds(x) - 1 < Rounds(x)
           /\ x % Pow2[Rounds(x) - 1] = 0 /\ Items(x) = Pow2[Rounds(x) - 1] - 1
           /\ x + i \in (x + 1)..(x + Pow2[Rounds(x) - 1] - 1)
  <1>1. ~(x >= Power) /\ Items(x) = Pow2[Rounds(x) - 1] - 1 /\ Items(x) \in Nat
    <2>1. Items(x) \in Nat
      BY PairFacts
    <2> QED  BY <2>1 DEF Items
  <1>2. x \in 1..(Power - 1) /\ Server(x) = x
    BY <1>1, InTree, ClientInTree
  <1>3. PICK k \in 1..Log2 : k = Rounds(x)
    BY <1>2, RoundsShape, SizeFacts
  <1>4. Log2 \in Nat /\ Power \in Nat /\ p \in Nat /\ Power <= p
    BY SizeFacts
  <1>5. PICK j \in Nat : j = k - 1
    BY <1>4
  <1>6. Pow2[j] \in Nat /\ Pow2[0] = 1 /\ k = j + 1
    BY <1>4, <1>5, PowerFacts
  <1>7. j # 0
    <2>1. Items(x) # 0
      BY <1>1
    <2>2. Items(x) = Pow2[j] - 1
      BY <1>1, <1>3, <1>5
    <2> QED  BY <1>6, <2>1, <2>2
  <1>8. j \in 1..Log2 /\ j < k
    BY <1>4, <1>5, <1>6, <1>7
  <1>9. x % Pow2[j] = 0
    <2>1. k <= Rounds(x) <=> x % Pow2[k - 1] = 0
      BY <1>2, <1>3, <1>4, RoundsShape
    <2>2. k <= Rounds(x)
      BY <1>3, <1>4
    <2> QED  BY <1>5, <2>1, <2>2
  <1>10. x + i \in (x + 1)..(x + Pow2[j] - 1)
    BY <1>1, <1>2, <1>3, <1>4, <1>5, <1>6
  <1>11. x \in 0..(Power - 1)
    BY <1>2, <1>4
  <1>12. x + i \in 1..(Power - 1)
    BY <1>8, <1>9, <1>10, <1>11, BlockClosed
  <1>13. x + i \in Members
    BY <1>4, <1>12 DEF Members
  <1> QED  BY <1>1, <1>2, <1>3, <1>5, <1>8, <1>9, <1>10, <1>13

(* A step for one pair leaves the other pairs linked.                      *)
LEMMA LinkedExcept ==
    ASSUME Linked, NEW x \in Pairs, NEW r \in Members, AsClient(r, x) \/ AsServer(r, x),
           NEW v, Advance(r, v), NEW q \in Members, r # q,
           <<r, q>> = <<Client(x), Server(x)>> \/ <<r, q>> = <<Server(x), Client(x)>>,
           NEW taken, NEW sent, net' = Exchanged(r, q, taken, sent),
           hop' \in [Members \X Members -> Int], late' = [z \in Members |-> late'[z]],
           Shaken(x)', Carries(x)'
    PROVE  Linked'
  <1>1. SyncTypes /\ Links /\ p' = p /\ p \in Procs /\ \A z \in Pairs : Carries(z)
    BY DEF Linked, Links, Advance, SyncTypes
  <1>2. /\ net' = [pair \in Members \X Members |-> net'[pair]]
        /\ \A e \in Members \X Members : e # <<r, q>> /\ e # <<q, r>> => net'[e] = net[e]
    BY <1>1, ExchangeFacts
  <1>3. \A e \in Members \X Members :
          e # <<Client(x), Server(x)>> /\ e # <<Server(x), Client(x)>> => net'[e] = net[e]
    BY <1>2
  <1>4. SyncTypes'
    BY <1>1, <1>2, TypesAdvance
  <1>5. (\A z \in Pairs : Shaken(z))' /\ Silent'
    BY <1>1, <1>3, LinksExcept
  <1>6. \A z \in Pairs : Carries(z)'
    <2> SUFFICES ASSUME NEW z \in Pairs, z # x PROVE Carries(z)'
      OBVIOUS
    <2>1. /\ <<Client(z), Server(z)>> \in Members \X Members
          /\ <<Server(z), Client(z)>> \in Members \X Members
      BY <1>1, PairTypes
    <2>2. /\ ~(Client(x) = Client(z) /\ Server(x) = Server(z))
          /\ ~(Client(x) = Server(z) /\ Server(x) = Client(z))
      BY <1>1, PairsDiffer
    <2>3. /\ net'[<<Client(z), Server(z)>>] = net[<<Client(z), Server(z)>>]
          /\ net'[<<Server(z), Client(z)>>] = net[<<Server(z), Client(z)>>]
      BY <1>3, <2>1, <2>2
    <2>4. Carries(z)' = Carries(z)
      BY <1>1, <2>3, SameMessages
    <2> QED  BY <1>1, <2>4
  <1>7. Pairs' = Pairs
    BY <1>1, SamePairs
  <1> QED  BY <1>4, <1>5, <1>6, <1>7 DEF Linked, Links

(* What a client's step does to the messages and the state of its pair     *)
LEMMA ClientExchange ==
    ASSUME SyncTypes, NEW x \in Pairs, NEW r \in Members, AsClient(r, x),
           NEW taken, NEW sent, p' = p, net' = Exchanged(r, Server(x), taken, sent)
    PROVE  /\ Forth(x)' = Forth(x) \o sent /\ Back(x)' = IF taken THEN Tail(Back(x)) ELSE Back(x)
           /\ Items(x)' = Items(x) /\ r # Server(x) /\ Server(x) \in Members
           /\ <<r, Server(x)>> = <<Client(x), Server(x)>>
  <1>1. Client(x)' = Client(x) /\ Server(x)' = Server(x) /\ Items(x)' = Items(x)
    BY SamePairs
  <1>2. r = Client(x) /\ Client(x) # Server(x) /\ Server(x) \in Members
    BY PairTypes DEF AsClient
  <1>3. /\ net'[<<r, Server(x)>>] = net[<<r, Server(x)>>] \o sent
        /\ net'[<<Server(x), r>>] = IF taken THEN Tail(net[<<Server(x), r>>]) ELSE net[<<Server(x), r>>]
    <2>1. PICK q \in Members : q = Server(x)
      BY <1>2
    <2>2. r # q /\ net' = Exchanged(r, q, taken, sent)
      BY <1>2, <2>1
    <2>3. /\ net'[<<r, q>>] = net[<<r, q>>] \o sent
          /\ net'[<<q, r>>] = IF taken THEN Tail(net[<<q, r>>]) ELSE net[<<q, r>>]
      <3>1. <<r, q>> \in Members \X Members /\ <<q, r>> \in Members \X Members /\ <<r, q>> # <<q, r>>
        BY <2>2
      <3>2. net = [pair \in Members \X Members |-> net[pair]]
        BY DEF SyncTypes
      <3> QED  BY <2>2, <3>1, <3>2 DEF Exchanged
    <2> QED  BY <2>1, <2>3
  <1> QED  BY <1>1, <1>2, <1>3 DEF Forth, Back, Message

(* An exchange of a server                                                 *)
LEMMA ServerExchange ==
    ASSUME SyncTypes, NEW x \in Pairs, NEW r \in Members, AsServer(r, x),
           NEW taken, NEW sent, p' = p, net' = Exchanged(r, Client(x), taken, sent)
    PROVE  /\ Back(x)' = Back(x) \o sent /\ Forth(x)' = IF taken THEN Tail(Forth(x)) ELSE Forth(x)
           /\ Items(x)' = Items(x) /\ r # Client(x) /\ Client(x) \in Members
           /\ <<r, Client(x)>> = <<Server(x), Client(x)>>
  <1>1. Client(x)' = Client(x) /\ Server(x)' = Server(x) /\ Items(x)' = Items(x)
    BY SamePairs
  <1>2. r = Server(x) /\ Client(x) # Server(x) /\ Client(x) \in Members
    BY PairTypes DEF AsServer
  <1>3. /\ net'[<<r, Client(x)>>] = net[<<r, Client(x)>>] \o sent
        /\ net'[<<Client(x), r>>] = IF taken THEN Tail(net[<<Client(x), r>>]) ELSE net[<<Client(x), r>>]
    <2>1. PICK q \in Members : q = Client(x)
      BY <1>2
    <2>2. r # q /\ net' = Exchanged(r, q, taken, sent)
      BY <1>2, <2>1
    <2>3. /\ net'[<<r, q>>] = net[<<r, q>>] \o sent
          /\ net'[<<q, r>>] = IF taken THEN Tail(net[<<q, r>>]) ELSE net[<<q, r>>]
      <3>1. <<r, q>> \in Members \X Members /\ <<q, r>> \in Members \X Members /\ <<r, q>> # <<q, r>>
        BY <2>2
      <3>2. net = [pair \in Members \X Members |-> net[pair]]
        BY DEF SyncTypes
      <3> QED  BY <2>2, <3>1, <3>2 DEF Exchanged
    <2> QED  BY <2>1, <2>3
  <1> QED  BY <1>1, <1>2, <1>3 DEF Forth, Back, Message

(* Each action keeps Linked: Enter,                                        *)
LEMMA LinkedEnter ==
    ASSUME Linked, NEW r \in Members, Enter(r), calls' = calls
    PROVE  Linked'
  <1>1. SyncTypes /\ p \in Procs
    BY DEF Linked, Links, SyncTypes
  <1>2. Advance(r, Entered) /\ net' = net /\ late' = late /\ hop' = hop /\ sync[r].step = 0
    BY <1>1, EnterEffect
  <1>3. p' = p
    BY <1>2 DEF Advance
  <1>4. SyncTypes'
    <2>1. /\ net' = [pair \in Members \X Members |-> net'[pair]]
          /\ hop' \in [Members \X Members -> Int] /\ late' = [q \in Members |-> late'[q]]
      BY <1>1, <1>2 DEF SyncTypes
    <2> QED  BY <1>1, <1>2, <2>1, TypesAdvance
  <1>5. ASSUME NEW x \in Pairs PROVE Shaken(x)' /\ Carries(x)'
    <2>1. /\ Client(x) \in Members /\ Server(x) \in Members
          /\ ClientTurn(x) \in Nat \ {0} /\ ServerTurn(x) \in Nat \ {0}
      BY <1>1, PairTypes
    <2>2. Passes(Client(x), ClientTurn(x)) /\ Passes(Server(x), ServerTurn(x))
      BY <1>1, <1>2, <2>1, AdvanceElsewhere
    <2>3. Shaken(x)'
      BY <1>1, <1>2, <1>3, <2>2, ShakenElsewhere DEF Linked, Links
    <2>4. Carries(x)'
      BY <1>2, <1>3, SameMessages DEF Linked
    <2> QED  BY <2>3, <2>4
  <1>6. Silent'
    <2>1. Pairs' = Pairs /\ Members' = Members /\ \A z : Client(z)' = Client(z) /\ Server(z)' = Server(z)
      BY <1>3, SamePairs
    <2> QED  BY <1>2, <2>1 DEF Linked, Links, Silent, Strangers
  <1>7. Pairs' = Pairs
    BY <1>3, SamePairs
  <1> QED  BY <1>4, <1>5, <1>6, <1>7 DEF Linked, Links

(* the return from the synchronisation,                                    *)
LEMMA LinkedReturned ==
    ASSUME Linked, NEW r \in Members, Returned(r), SyncTypes'
    PROVE  Linked'
  <1>1. SyncTypes /\ p \in Procs /\ p' = p /\ net' = net
    BY DEF Linked, Links, SyncTypes, Returned
  <1>2. ASSUME NEW x \in Pairs PROVE Shaken(x)' /\ Carries(x)'
    <2>1. /\ Client(x) \in Members /\ Server(x) \in Members
          /\ ClientTurn(x) \in 1..Sessions(Client(x)) /\ ServerTurn(x) \in 1..Sessions(Server(x))
      BY <1>1, PairTypes
    <2>2. Passes(Client(x), ClientTurn(x)) /\ Passes(Server(x), ServerTurn(x))
      BY <1>1, <2>1, ReturnedPasses
    <2>3. Shaken(x)'
      BY <1>1, <2>2, ShakenElsewhere DEF Linked, Links
    <2>4. Carries(x)'
      BY <1>1, SameMessages DEF Linked
    <2> QED  BY <2>3, <2>4
  <1>3. Pairs' = Pairs /\ Members' = Members /\ \A z : Client(z)' = Client(z) /\ Server(z)' = Server(z)
    BY <1>1, SamePairs
  <1>4. Silent'
    BY <1>1, <1>3 DEF Linked, Links, Silent, Strangers
  <1> QED  BY <1>2, <1>3, <1>4 DEF Linked, Links

(* Ping,                                                                   *)
LEMMA LinkedPing ==
    ASSUME Linked, NEW r \in Members, Ping(r), calls' = calls
    PROVE  Linked'
  <1>1. SyncTypes
    BY DEF Linked, Links
  <1> DEFINE v == [sync[r] EXCEPT !.phase = "waiting"]
  <1>2. PICK x \in Pairs :
             /\ AsClient(r, x) /\ sync[r].phase = "begin" /\ Advance(r, v)
             /\ net' = Exchanged(r, Server(x), FALSE, <<Msg("ping")>>)
             /\ UNCHANGED <<late, hop>>
    BY <1>1, PingEffect
  <1>3. v.step = sync[r].step /\ v.phase = "waiting"
    <2>1. sync[r] \in LocalVars
      BY <1>1, LocalFacts
    <2> QED  BY <2>1 DEF LocalVars
  <1> HIDE DEF v
  <1>4. p' = p
    BY <1>2 DEF Advance
  <1>5. /\ AtClient(x) = "begin" /\ AtServer(x)' = AtServer(x)
        /\ AtClient(x)' = "waiting" /\ Ahead(x)' = Ahead(x)
    BY <1>1, <1>2, <1>3, ClientMoves
  <1>6. /\ Forth(x)' = Forth(x) \o <<Msg("ping")>> /\ Back(x)' = Back(x) /\ Items(x)' = Items(x)
        /\ r # Server(x) /\ Server(x) \in Members /\ <<r, Server(x)>> = <<Client(x), Server(x)>>
    BY <1>1, <1>2, <1>4, ClientExchange
  <1>7. Shake(Forth(x), Back(x), Ahead(x), "begin", AtServer(x), Items(x))
    BY <1>5 DEF Linked, Links, Shaken
  <1>8. Shaken(x)'
    BY <1>5, <1>6, <1>7, ShakePing DEF Shaken
  <1>9. Carries(x)'
    BY <1>6 DEF Linked, Carries, Tells
  <1>10. hop' \in [Members \X Members -> Int] /\ late' = [z \in Members |-> late'[z]]
    BY <1>1, <1>2 DEF SyncTypes
  <1> QED  BY <1>2, <1>6, <1>8, <1>9, <1>10, LinkedExcept

(* Pong,                                                                   *)
LEMMA LinkedPong ==
    ASSUME Linked, NEW r \in Members, NEW there \in Legs[p], NEW back \in Legs[p],
           Pong(r, there, back), calls' = calls
    PROVE  Linked'
  <1>1. SyncTypes
    BY DEF Linked, Links
  <1>2. \E x \in Pairs, v \in LocalVars :
             /\ AsClient(r, x) /\ sync[r].phase = "waiting"
             /\ Back(x) # <<>> /\ Head(Back(x)).kind = "pong"
             /\ Advance(r, v) /\ v.step = sync[r].step /\ v.phase = "begin"
             /\ net' = Exchanged(r, Server(x), TRUE, <<>>)
             /\ UNCHANGED <<late, hop>>
    <2>1. PICK x \in Pairs :
             /\ AsClient(r, x) /\ sync[r].phase = "waiting"
             /\ Back(x) # <<>> /\ Head(Back(x)).kind = "pong"
             /\ \/ Advance(r, Measured(sync[r], r, Server(x), there, back))
                \/ Advance(r, [sync[r] EXCEPT !.notsmaller = sync[r].notsmaller + 1, !.phase = "begin"])
             /\ net' = Exchanged(r, Server(x), TRUE, <<>>)
             /\ UNCHANGED <<late, hop>>
      BY <1>1, PongEffect
    <2>2. sync[r] \in LocalVars
      BY <1>1, LocalFacts
    <2>3. CASE Advance(r, Measured(sync[r], r, Server(x), there, back))
      <3> DEFINE v == Measured(sync[r], r, Server(x), there, back)
      <3>1. v.step = sync[r].step /\ v.phase = "begin"
        BY <2>2 DEF LocalVars, Measured
      <3>2. v \in LocalVars
        BY <2>3 DEF Advance
      <3> HIDE DEF v
      <3> QED  BY <2>1, <2>3, <3>1, <3>2 DEF v
    <2>4. CASE Advance(r, [sync[r] EXCEPT !.notsmaller = sync[r].notsmaller + 1, !.phase = "begin"])
      <3> DEFINE v == [sync[r] EXCEPT !.notsmaller = sync[r].notsmaller + 1, !.phase = "begin"]
      <3>1. v.step = sync[r].step /\ v.phase = "begin"
        BY <2>2 DEF LocalVars
      <3>2. v \in LocalVars
        BY <2>4 DEF Advance
      <3> HIDE DEF v
      <3> QED  BY <2>1, <2>4, <3>1, <3>2 DEF v
    <2> QED  BY <2>1, <2>3, <2>4
  <1>3. PICK x \in Pairs, v \in LocalVars :
             /\ AsClient(r, x) /\ sync[r].phase = "waiting"
             /\ Back(x) # <<>> /\ Head(Back(x)).kind = "pong"
             /\ Advance(r, v) /\ v.step = sync[r].step /\ v.phase = "begin"
             /\ net' = Exchanged(r, Server(x), TRUE, <<>>)
             /\ UNCHANGED <<late, hop>>
    BY <1>2
  <1>4. p' = p
    BY <1>3 DEF Advance
  <1>5. /\ AtServer(x)' = AtServer(x) /\ AtClient(x)' = "begin" /\ Ahead(x)' = Ahead(x)
    BY <1>1, <1>3, ClientMoves
  <1>6. /\ Forth(x)' = Forth(x) \o <<>> /\ Back(x)' = Tail(Back(x)) /\ Items(x)' = Items(x)
        /\ r # Server(x) /\ Server(x) \in Members /\ <<r, Server(x)>> = <<Client(x), Server(x)>>
    BY <1>1, <1>3, <1>4, ClientExchange
  <1>7. Shake(Forth(x), Back(x), Ahead(x), AtClient(x), AtServer(x), Items(x))
    BY DEF Linked, Links, Shaken
  <1>8. Shaken(x)'
    BY <1>3, <1>5, <1>6, <1>7, ShakePong DEF Shaken
  <1>9. Carries(x)'
    <2>1. Tail(Back(x)) = <<>>
      BY <1>3, <1>7, WhoSends
    <2> QED  BY <1>6, <2>1 DEF Carries, Tells
  <1>10. hop' \in [Members \X Members -> Int] /\ late' = [z \in Members |-> late'[z]]
    BY <1>1, <1>3 DEF SyncTypes
  <1> QED  BY <1>3, <1>6, <1>8, <1>9, <1>10, LinkedExcept

(* Abort,                                                                  *)
LEMMA LinkedAbort ==
    ASSUME Linked, NEW r \in Members, NEW there \in Legs[p], NEW back \in Legs[p],
           Abort(r, there, back), calls' = calls
    PROVE  Linked'
  <1>1. SyncTypes
    BY DEF Linked, Links
  <1>2. PICK x \in Pairs, v \in LocalVars :
             /\ AsClient(r, x) /\ sync[r].phase = "waiting"
             /\ Back(x) # <<>> /\ Head(Back(x)).kind = "pong"
             /\ Advance(r, v)
             /\ \/ Items(x) = 0 /\ v.step = sync[r].step + 1 /\ v.phase = "begin"
                \/ Items(x) > 0 /\ v.step = sync[r].step /\ v.phase = "merging"
             /\ net' = Exchanged(r, Server(x), TRUE, <<Msg("abort")>>)
             /\ hop' = [hop EXCEPT ![<<r, Server(x)>>] = sync[r].smallest]
             /\ late' = IF x >= Power THEN [late EXCEPT ![x] = <<sync[r].diff>>] ELSE late
    BY <1>1, AbortEffect
  <1>4. p' = p
    BY <1>2 DEF Advance
  <1>5. /\ AtServer(x)' = AtServer(x)
        /\ \/ Items(x) = 0 /\ AtClient(x)' = "away" /\ Ahead(x)' = Ahead(x) + 1
           \/ Items(x) > 0 /\ AtClient(x)' = "merging" /\ Ahead(x)' = Ahead(x)
    BY <1>1, <1>2, ClientMoves
  <1>6. /\ Forth(x)' = Forth(x) \o <<Msg("abort")>> /\ Back(x)' = Tail(Back(x)) /\ Items(x)' = Items(x)
        /\ r # Server(x) /\ Server(x) \in Members /\ <<r, Server(x)>> = <<Client(x), Server(x)>>
    BY <1>1, <1>2, <1>4, ClientExchange
  <1>7. Shake(Forth(x), Back(x), Ahead(x), AtClient(x), AtServer(x), Items(x))
    BY DEF Linked, Links, Shaken
  <1>8. Shaken(x)'
    <2>1. /\ Items(x) = 0 => Shake(Forth(x) \o <<Msg("abort")>>, Tail(Back(x)), Ahead(x) + 1, "away", AtServer(x), Items(x))
          /\ Items(x) > 0 => Shake(Forth(x) \o <<Msg("abort")>>, Tail(Back(x)), Ahead(x), "merging", AtServer(x), Items(x))
      BY <1>2, <1>7, ShakePong
    <2> QED  BY <1>5, <1>6, <2>1 DEF Shaken
  <1>9. Carries(x)'
    <2>1. Tail(Back(x)) = <<>>
      BY <1>2, <1>7, WhoSends
    <2> QED  BY <1>6, <2>1 DEF Carries, Tells
  <1>10. hop' \in [Members \X Members -> Int]
    <2>1. sync[r].smallest \in Int
      BY <1>1, LocalFacts
    <2> QED  BY <1>1, <1>2, <2>1 DEF SyncTypes
  <1>11. late' = [z \in Members |-> late'[z]]
    BY <1>1, <1>2 DEF SyncTypes
  <1> QED  BY <1>2, <1>6, <1>8, <1>9, <1>10, <1>11, LinkedExcept

(* Merge,                                                                  *)
LEMMA LinkedMerge ==
    ASSUME Linked, NEW r \in Members, Merge(r), calls' = calls
    PROVE  Linked'
  <1>1. SyncTypes /\ Links
    BY DEF Linked, Links
  <1>2. PICK x \in Pairs, t \in LocalVars :
             /\ AsClient(r, x) /\ sync[r].phase = "merging"
             /\ Back(x) # <<>> /\ Head(Back(x)).kind = "data"
             /\ t.step = sync[r].step /\ Advance(r, NextSession(t))
             /\ net' = Exchanged(r, Server(x), TRUE, <<>>)
             /\ UNCHANGED <<late, hop>>
    BY <1>1, MergeEffect DEF Linked, Carries, Tells
  <1>3. NextSession(t).step = sync[r].step + 1
    BY <1>2, NextSessionFacts
  <1>4. p' = p
    BY <1>2 DEF Advance
  <1>5. AtServer(x)' = AtServer(x) /\ AtClient(x)' = "away" /\ Ahead(x)' = Ahead(x) + 1
    BY <1>1, <1>2, <1>3, ClientMoves
  <1>6. /\ Forth(x)' = Forth(x) \o <<>> /\ Back(x)' = Tail(Back(x)) /\ Items(x)' = Items(x)
        /\ r # Server(x) /\ Server(x) \in Members /\ <<r, Server(x)>> = <<Client(x), Server(x)>>
    BY <1>1, <1>2, <1>4, ClientExchange
  <1>7. Shake(Forth(x), Back(x), Ahead(x), AtClient(x), AtServer(x), Items(x))
    BY DEF Linked, Links, Shaken
  <1>8. Shaken(x)'
    BY <1>2, <1>5, <1>6, <1>7, ShakeMerge DEF Shaken
  <1>9. Carries(x)'
    <2>1. Tail(Back(x)) = <<>>
      BY <1>2, <1>7, WhoSends
    <2> QED  BY <1>6, <2>1 DEF Carries, Tells
  <1>10. hop' \in [Members \X Members -> Int] /\ late' = [z \in Members |-> late'[z]]
    BY <1>1, <1>2 DEF SyncTypes
  <1> QED  BY <1>2, <1>6, <1>8, <1>9, <1>10, LinkedExcept

(* and Serve.                                                              *)
LEMMA LinkedServe ==
    ASSUME Linked, NEW r \in Members, Serve(r), calls' = calls
    PROVE  Linked'
  <1>1. SyncTypes /\ p \in Procs
    BY DEF Linked, Links, SyncTypes
  <1>2. PICK x \in Pairs :
             /\ AsServer(r, x) /\ Forth(x) # <<>> /\ UNCHANGED <<late, hop>>
             /\ \/ /\ Head(Forth(x)).kind = "ping" /\ Advance(r, sync[r])
                   /\ net' = Exchanged(r, Client(x), TRUE, <<Msg("pong")>>)
                \/ /\ Head(Forth(x)).kind = "abort" /\ Advance(r, NextSession(sync[r]))
                   /\ net' = Exchanged(r, Client(x), TRUE, Answer(r, Items(x)))
    BY <1>1, ServeEffect
  <1>3. p' = p /\ Items(x)' = Items(x)
    BY <1>2, SamePairs DEF Advance
  <1>4. Shake(Forth(x), Back(x), Ahead(x), AtClient(x), AtServer(x), Items(x))
    BY DEF Linked, Links, Shaken
  <1>5. hop' \in [Members \X Members -> Int] /\ late' = [z \in Members |-> late'[z]]
    BY <1>1, <1>2 DEF SyncTypes
  <1>6. sync[r] \in LocalVars /\ sync[r].phase \in Phases
    BY <1>1, LocalFacts
  <1>7. CASE /\ Head(Forth(x)).kind = "ping" /\ Advance(r, sync[r])
             /\ net' = Exchanged(r, Client(x), TRUE, <<Msg("pong")>>)
    <2>1. /\ AtServer(x) = sync[r].phase /\ AtClient(x)' = AtClient(x)
          /\ AtServer(x)' = sync[r].phase /\ Ahead(x)' = Ahead(x)
      BY <1>1, <1>2, <1>7, ServerMoves
    <2>2. AtServer(x) # "away"
      BY <1>6, <2>1 DEF Phases
    <2>3. /\ Back(x)' = Back(x) \o <<Msg("pong")>> /\ Forth(x)' = Tail(Forth(x))
          /\ r # Client(x) /\ Client(x) \in Members /\ <<r, Client(x)>> = <<Server(x), Client(x)>>
      BY <1>1, <1>2, <1>3, <1>7, ServerExchange
    <2>4. Shaken(x)'
      BY <1>2, <1>3, <1>4, <1>7, <2>1, <2>2, <2>3, ShakeServe DEF Shaken
    <2>5. Carries(x)'
      <3>1. Back(x) = <<>>
        BY <1>2, <1>4, <1>7, WhoSends
      <3>2. Back(x)' = <<Msg("pong")>>
        BY <2>3, <3>1, MessagesHere
      <3>3. Head(<<Msg("pong")>>).kind = "pong"
        BY MessagesHere
      <3>4. ~(Tells(x)')
        BY <3>2, <3>3 DEF Tells
      <3> QED  BY <3>4 DEF Carries
    <2> QED  BY <1>2, <1>5, <1>7, <2>3, <2>4, <2>5, LinkedExcept
  <1>8. CASE /\ Head(Forth(x)).kind = "abort" /\ Advance(r, NextSession(sync[r]))
             /\ net' = Exchanged(r, Client(x), TRUE, Answer(r, Items(x)))
    <2>1. NextSession(sync[r]).step = sync[r].step + 1
      BY <1>6, NextSessionFacts
    <2>2. AtClient(x)' = AtClient(x) /\ AtServer(x)' = "away" /\ Ahead(x)' = Ahead(x) - 1
      BY <1>1, <1>2, <1>8, <2>1, ServerMoves
    <2>3. /\ Back(x)' = Back(x) \o Answer(r, Items(x)) /\ Forth(x)' = Tail(Forth(x))
          /\ r # Client(x) /\ Client(x) \in Members /\ <<r, Client(x)>> = <<Server(x), Client(x)>>
      BY <1>1, <1>2, <1>3, <1>8, ServerExchange
    <2>4. Items(x) \in Nat
      BY <1>1, PairTypes
    <2>5. Back(x) = <<>> /\ Back(x)' = Answer(r, Items(x))
      <3>1. Back(x) = <<>>
        BY <1>2, <1>4, <1>8, WhoSends
      <3>2. <<>> \o Answer(r, Items(x)) = Answer(r, Items(x))
        BY MessagesHere DEF Answer
      <3> QED  BY <2>3, <3>1, <3>2
    <2>6. Shaken(x)'
      <3>1. /\ Items(x) = 0 => Shake(Tail(Forth(x)), Back(x) \o <<>>, Ahead(x) - 1, AtClient(x), "away", Items(x))
            /\ Items(x) > 0 => Shake(Tail(Forth(x)), Back(x) \o <<[kind |-> "data", data |-> Knowledge(r, Items(x))]>>,
                                     Ahead(x) - 1, AtClient(x), "away", Items(x))
        BY <1>2, <1>4, <1>8, ShakeAbort
      <3>2. Shake(Tail(Forth(x)), Back(x) \o Answer(r, Items(x)), Ahead(x) - 1, AtClient(x), "away", Items(x))
        <4>1. CASE Items(x) = 0
          BY <3>1, <4>1 DEF Answer
        <4>2. CASE Items(x) # 0
          <5>1. Items(x) > 0
            BY <2>4, <4>2
          <5> QED  BY <3>1, <4>2, <5>1 DEF Answer
        <4> QED  BY <4>1, <4>2
      <3> QED  BY <1>3, <2>2, <2>3, <3>2 DEF Shaken
    <2>7. Carries(x)'
      <3> SUFFICES ASSUME NEW i \in 1..Items(x) PROVE Head(Back(x)').data[i] \in Int
        BY <1>3 DEF Carries
      <3>1. Items(x) # 0
        BY <2>4
      <3>2. Back(x)' = <<[kind |-> "data", data |-> Knowledge(r, Items(x))]>>
        BY <2>5, <3>1 DEF Answer
      <3>3. Head(Back(x)').data = Knowledge(r, Items(x))
        BY <3>2
      <3>4. Knowledge(r, Items(x))[i] = sync[r].diffs[r + i]
        BY DEF Knowledge
      <3>5. r + i \in Members
        BY <1>1, <1>2, ItemsInside DEF AsServer
      <3>6. sync[r].diffs \in [Members -> Int]
        BY <1>8, <1>6, NextSessionFacts DEF Advance
      <3> QED  BY <3>3, <3>4, <3>5, <3>6
    <2> QED  BY <1>2, <1>5, <1>8, <2>3, <2>6, <2>7, LinkedExcept
  <1> QED  BY <1>2, <1>7, <1>8

(* Linked holds at the start.                                              *)
LEMMA LinkedInit ==
    ASSUME SyncInit, calls = [r \in Members |-> 0]
    PROVE  Linked
  <1>1. /\ p \in Procs /\ sync = [r \in Members |-> Idle]
        /\ net = [pair \in Members \X Members |-> <<>>]
        /\ late = [r \in Members |-> <<>>] /\ scattered = [r \in Members |-> <<>>]
        /\ hop = [pair \in Members \X Members |-> 0]
    BY DEF SyncInit
  <1>2. SyncTypes
    <2>1. Idle \in LocalVars /\ Idle.step = 0
      BY DEF Idle, LocalVars, Phases, MaxTime
    <2> QED  BY <1>1, <2>1 DEF SyncTypes
  <1>3. ASSUME NEW x \in Pairs PROVE Shaken(x) /\ Carries(x)
    <2>1. /\ Client(x) \in Members /\ Server(x) \in Members
          /\ <<Client(x), Server(x)>> \in Members \X Members
          /\ <<Server(x), Client(x)>> \in Members \X Members
          /\ ClientTurn(x) \in Nat \ {0} /\ ServerTurn(x) \in Nat \ {0}
      BY <1>2, PairTypes
    <2>2. Forth(x) = <<>> /\ Back(x) = <<>>
      BY <1>1, <2>1 DEF Forth, Back, Message
    <2>3. /\ sync[Client(x)].step = 0 /\ sync[Server(x)].step = 0
          /\ calls[Client(x)] = 0 /\ calls[Server(x)] = 0
      BY <1>1, <2>1 DEF Idle
    <2>4. AtClient(x) = "away"
      BY <2>1, <2>3 DEF AtClient, Turn
    <2>5. Ahead(x) = 0
      <3>1. Done(Client(x), ClientTurn(x)) = 0 /\ Done(Server(x), ServerTurn(x)) = 0
        BY <2>1, <2>3 DEF Done
      <3> QED  BY <3>1 DEF Ahead
    <2> QED  BY <2>2, <2>4, <2>5 DEF Shaken, Shake, Carries, Tells
  <1>4. Silent
    BY <1>1 DEF Silent
  <1> QED  BY <1>2, <1>3, <1>4 DEF Linked, Links

(* No channel holds more than two messages.                                *)
LEMMA LinkedShort ==
    ASSUME Linked
    PROVE  \A pair \in DOMAIN net : Len(net[pair]) <= 2
  <1>1. SyncTypes /\ DOMAIN net = Members \X Members
    BY DEF Linked, Links, SyncTypes
  <1> SUFFICES ASSUME NEW e \in Members \X Members PROVE Len(net[e]) <= 2
    BY <1>1
  <1>2. CASE Strangers(e)
    <2>1. net[e] = <<>>
      BY <1>2 DEF Linked, Links, Silent
    <2> QED  BY <2>1
  <1>3. CASE ~Strangers(e)
    <2>1. PICK x \in Pairs : e = <<Client(x), Server(x)>> \/ e = <<Server(x), Client(x)>>
      BY <1>3 DEF Strangers
    <2>2. net[e] = Forth(x) \/ net[e] = Back(x)
      BY <2>1 DEF Forth, Back, Message
    <2>3. \/ Forth(x) = <<>> \/ (\E m : Forth(x) = <<m>>) \/ (\E m, n : Forth(x) = <<m, n>>)
      BY DEF Linked, Links, Shaken, Shake
    <2>4. \/ Back(x) = <<>> \/ (\E m : Back(x) = <<m>>)
      BY DEF Linked, Links, Shaken, Shake
    <2>5. /\ Len(<<>>) <= 2 /\ (\A m : Len(<<m>>) <= 2) /\ (\A m, n : Len(<<m, n>>) <= 2)
      OBVIOUS
    <2> QED  BY <2>2, <2>3, <2>4, <2>5
  <1> QED  BY <1>2, <1>3

-----------------------------------------------------------------------------
(* What the ranks know, and what is true of it                             *)

(* Difference d of the clocks of a and b is right up to e (in halves).     *)
(* Current: rank r has returned as often as rank 0.                        *)
Near(d, a, b, e) == Abs(d - 2 * (Clock[a] - Clock[b])) <= e
Current(r) == calls[r] = calls[0]

(* The measurement that runs: the difference is right up to what the       *)
(* fastest round trip so far allows.                                       *)
Fresh(x) ==
    AtClient(x) \in {"begin", "waiting"} =>
      \/ sync[Client(x)].smallest = MaxTime
      \/ Near(sync[Client(x)].diff, Client(x), Server(x), sync[Client(x)].smallest - 2 * MinLeg)

(* The one that has ended, until the server's differences are merged       *)
Kept(x) ==
    AtClient(x) = "merging" /\ Current(Client(x)) =>
      Near(sync[Client(x)].diffs[Server(x)], Client(x), Server(x),
           hop[<<Client(x), Server(x)>>] - 2 * MinLeg)

(* What a server has told is what it knows.                                *)
Truth(x) ==
    Tells(x) /\ Current(Client(x)) =>
      \A i \in 1..Items(x) : Head(Back(x)).data[i] = sync[Server(x)].diffs[Server(x) + i]

(* The reports of the ranks outside the tree                               *)
Reported(x) ==
    x >= Power =>
      /\ late[x] # <<>> =>
           /\ Current(x) /\ sync[x].step = 2
           /\ \E v \in Int : late[x] = <<v>> /\ Near(v, x, Parent(x), hop[Edge(x)] - 2 * MinLeg)
      /\ ~Current(x) => sync[x].step = 2 /\ calls[x] + 1 = calls[0]

(* What a client knows after its round k: the clocks of the ranks above    *)
(* it, all of which are through with the round in which they are measured. *)
Block(r, k) == (r + 1)..(r + Pow2[k] - 1)
Knows(r, k) ==
    Current(r) /\ sync[r].step > k =>
      \A x \in Block(r, k) :
        /\ Near(sync[r].diffs[x], r, x, Slack[x] - Slack[r])
        /\ Current(Parent(x)) /\ sync[Parent(x)].step > Rounds(x)
ClientAt(r, k) == r \in 0..(Power - 1) /\ k \in 1..Rounds(r) /\ r % Pow2[k] = 0

(* Rank 0 is the first to return.                                          *)
Epochs ==
    \A r \in Members : /\ calls[r] <= calls[0]
                       /\ r # 0 /\ scattered[r] # <<>> => calls[r] < calls[0]
Root == sync[0].step # 0 => sync[0].diffs[0] = 0

Valued ==
    /\ Linked /\ Epochs /\ Root
    /\ \A x \in Pairs : Fresh(x) /\ Kept(x) /\ Truth(x) /\ Reported(x)
    /\ \A r, k : ClientAt(r, k) => Knows(r, k)

-----------------------------------------------------------------------------
(* Clocks are numbers.                                                     *)
LEMMA ClockTypes ==
    ASSUME p \in Procs, NEW r \in Members
    PROVE  Clock[r] \in Int
  BY SyncAssumption DEF Members

(* Near, without Abs                                                       *)
LEMMA NearIs ==
    ASSUME p \in Procs, NEW a \in Members, NEW b \in Members, NEW d \in Int, NEW e \in Int
    PROVE  Near(d, a, b, e) <=> /\ d - 2 * (Clock[a] - Clock[b]) <= e
                                /\ -(d - 2 * (Clock[a] - Clock[b])) <= e
  <1>1. Clock[a] \in Int /\ Clock[b] \in Int
    BY ClockTypes
  <1>2. PICK m \in Int : m = d - 2 * (Clock[a] - Clock[b])
    BY <1>1
  <1>3. Abs(m) <= e <=> (m <= e /\ -m <= e)
    BY DEF Abs
  <1> QED  BY <1>2, <1>3 DEF Near

(* Differences over a third clock add up, and so does what they may be     *)
(* wrong by.                                                               *)
LEMMA NearAdd ==
    ASSUME p \in Procs, NEW a \in Members, NEW b \in Members, NEW c \in Members,
           NEW d1 \in Int, NEW e1 \in Int, NEW d2 \in Int, NEW e2 \in Int,
           Near(d1, a, b, e1)
    PROVE  /\ Near(d2, b, c, e2) => Near(d1 + d2, a, c, e1 + e2)
           /\ Near(d2, c, b, e2) => Near(d1 - d2, a, c, e1 + e2)
  <1>1. PICK x \in Int, y \in Int, z \in Int : x = Clock[a] /\ y = Clock[b] /\ z = Clock[c]
    BY ClockTypes
  <1>2. d1 - 2 * (x - y) <= e1 /\ -(d1 - 2 * (x - y)) <= e1
    BY <1>1, NearIs
  <1>3. ASSUME Near(d2, b, c, e2) PROVE Near(d1 + d2, a, c, e1 + e2)
    <2>1. d2 - 2 * (y - z) <= e2 /\ -(d2 - 2 * (y - z)) <= e2
      BY <1>1, <1>3, NearIs
    <2>2. /\ (d1 + d2) - 2 * (x - z) <= e1 + e2 /\ -((d1 + d2) - 2 * (x - z)) <= e1 + e2
      BY <1>2, <2>1
    <2>3. d1 + d2 \in Int /\ e1 + e2 \in Int
      OBVIOUS
    <2> QED  BY <1>1, <2>2, <2>3, NearIs
  <1>4. ASSUME Near(d2, c, b, e2) PROVE Near(d1 - d2, a, c, e1 + e2)
    <2>1. d2 - 2 * (z - y) <= e2 /\ -(d2 - 2 * (z - y)) <= e2
      BY <1>1, <1>4, NearIs
    <2>2. /\ (d1 - d2) - 2 * (x - z) <= e1 + e2 /\ -((d1 - d2) - 2 * (x - z)) <= e1 + e2
      BY <1>2, <2>1
    <2>3. d1 - d2 \in Int /\ e1 + e2 \in Int
      OBVIOUS
    <2> QED  BY <1>1, <2>2, <2>3, NearIs
  <1> QED  BY <1>3, <1>4

(* A round trip measures the difference up to what it took longer than the *)
(* fastest.                                                                *)
LEMMA NearMeasured ==
    ASSUME p \in Procs, NEW a \in Members, NEW b \in Members,
           NEW there \in Legs[p], NEW back \in Legs[p],
           NEW d, d = 2 * (Clock[a] - Clock[b]) + back - there, NEW e, e = there + back
    PROVE  Near(d, a, b, e - 2 * MinLeg)
  <1>1. PICK x \in Int, y \in Int : x = Clock[a] /\ y = Clock[b]
    BY ClockTypes
  <1>2. PICK m \in Nat : m = MinLeg
    BY FastestLeg
  <1>3. there \in Nat /\ back \in Nat /\ m <= there /\ m <= back
    BY <1>2, FastestLeg
  <1>4. d = 2 * (x - y) + back - there
    BY <1>1
  <1>5. /\ d - 2 * (x - y) <= e - 2 * m /\ -(d - 2 * (x - y)) <= e - 2 * m
        /\ d \in Int /\ e - 2 * m \in Int
    BY <1>3, <1>4
  <1> QED  BY <1>1, <1>2, <1>5, NearIs

(* Equal numbers are equally near.                                         *)
LEMMA NearSame ==
    ASSUME NEW d, NEW a, NEW b, NEW e, NEW d2, NEW e2, d = d2, e = e2, Near(d, a, b, e)
    PROVE  Near(d2, a, b, e2)
  OBVIOUS

-----------------------------------------------------------------------------
(* The ranks above a client that it measures in its rounds                 *)
LEMMA BlockFacts ==
    ASSUME p \in Procs, NEW r, NEW k, ClientAt(r, k), NEW x \in Block(r, k)
    PROVE  /\ r \in Members /\ r \in Nat /\ k \in 1..Log2 /\ k \in Nat
           /\ x \in Pairs /\ x \in Members /\ ~(x >= Power) /\ x > r
           /\ x \in 1..(Power - 1)
           /\ Parent(x) \in Members /\ Parent(x) \in r..(x - 1)
           /\ Client(x) = Parent(x) /\ Server(x) = x /\ ClientTurn(x) = Rounds(x)
           /\ Edge(x) = <<Parent(x), x>>
  <1>1. /\ r \in 0..(Power - 1) /\ k \in 1..Rounds(r) /\ r % Pow2[k] = 0
        /\ x \in (r + 1)..(r + Pow2[k] - 1)
    BY DEF ClientAt, Block
  <1>2. p \in Nat /\ Power \in Nat /\ Power <= p /\ Log2 \in Nat
    BY SizeFacts
  <1>3. Rounds(r) \in 1..Log2
    BY <1>1, ClientRounds
  <1>4. k \in 1..Log2 /\ k \in Nat
    BY <1>1, <1>2, <1>3
  <1>5. x \in 1..(Power - 1) /\ Parent(x) \in r..(x - 1)
    BY <1>1, <1>4, BlockClosed
  <1>6. x \in Pairs /\ x \in Members /\ ~(x >= Power) /\ r \in Members /\ r \in Nat /\ x > r
    <2>1. Pow2[k] \in Nat
      BY <1>4, PowerFacts
    <2> QED  BY <1>1, <1>2, <1>5, <2>1 DEF Pairs, Members
  <1>7. Parent(x) \in Members
    BY <1>6, PairParent
  <1>8. /\ Client(x) = Parent(x) /\ Server(x) = x /\ ClientTurn(x) = Rounds(x)
        /\ Edge(x) = <<Parent(x), x>>
    BY <1>6 DEF Client, Server, ClientTurn, Edge
  <1> QED  BY <1>4, <1>5, <1>6, <1>7, <1>8

(* How exactly a clock is known depends on the measurements below it only. *)
LEMMA SlackBlock ==
    ASSUME p \in Procs, p' = p, hop \in [Members \X Members -> Int],
           hop' \in [Members \X Members -> Int], NEW r, NEW k, ClientAt(r, k),
           \A x \in Block(r, k) : hop'[Edge(x)] = hop[Edge(x)]
    PROVE  \A x \in Block(r, k) : Slack'[x] - Slack'[r] = Slack[x] - Slack[r]
  <1> DEFINE T == {x \in Block(r, k) : Slack'[x] - Slack'[r] # Slack[x] - Slack[r]}
  <1>1. ASSUME T # {} PROVE FALSE
    <2>1. T \subseteq Nat
      <3>1. \A x \in Block(r, k) : x \in 1..(Power - 1)
        BY BlockFacts
      <3>2. \A x \in Block(r, k) : x \in Nat
        BY <3>1, SizeFacts
      <3> QED  BY <3>2
    <2>2. PICK x \in T : \A y \in T : x <= y
      <3> HIDE DEF T
      <3> QED  BY <1>1, <2>1, LeastOne
    <2>3. x \in Block(r, k) /\ Slack'[x] - Slack'[r] # Slack[x] - Slack[r] /\ x \in Nat
      BY <2>1
    <2>4. /\ x \in Pairs /\ Parent(x) \in r..(x - 1) /\ r \in Nat /\ r \in Members /\ Parent(x) \in Members
          /\ x \in Members
      BY <2>3, BlockFacts
    <2>5. PICK y \in Nat : y = Parent(x) /\ y >= r /\ y < x /\ y \in Members
      BY <2>3, <2>4
    <2>6. /\ Slack[x] = Slack[y] + hop[Edge(x)] - 2 * MinLeg
          /\ Slack \in [Members -> Int]
      BY <2>4, <2>5, SlackFacts
    <2>7. /\ Slack'[x] = Slack'[y] + hop'[Edge(x)] - 2 * MinLeg
          /\ Slack' \in [Members -> Int]
      BY <2>4, <2>5, SlackNext
    <2>8. Slack'[y] - Slack'[r] = Slack[y] - Slack[r]
      <3>1. CASE y = r
        <4>1. Slack'[r] \in Int /\ Slack[r] \in Int
          BY <2>4, <2>6, <2>7
        <4> QED  BY <3>1, <4>1
      <3>2. CASE y # r
        <4>1. y \in Block(r, k)
          <5>1. x \in (r + 1)..(r + Pow2[k] - 1)
            BY <2>3 DEF Block
          <5>2. k \in Nat
            BY <2>3, BlockFacts
          <5>3. Pow2[k] \in Nat
            BY <5>2, PowerFacts
          <5> QED  BY <2>3, <2>4, <2>5, <3>2, <5>1, <5>3 DEF Block
        <4>2. y \notin T
          <5> HIDE DEF T
          <5> QED  BY <2>2, <2>3, <2>5
        <4> QED  BY <4>1, <4>2
      <3> QED  BY <3>1, <3>2
    <2>9. PICK h \in Int, m \in Int : h = hop[Edge(x)] /\ h = hop'[Edge(x)] /\ m = MinLeg
      BY <2>3, <2>4, PairParent, FastestLeg
    <2>10. PICK a \in Int, b \in Int, c \in Int, d \in Int :
             a = Slack'[y] /\ b = Slack'[r] /\ c = Slack[y] /\ d = Slack[r]
      BY <2>4, <2>5, <2>6, <2>7
    <2>11. Slack'[x] = a + h - 2 * m /\ Slack[x] = c + h - 2 * m /\ a - b = c - d
      BY <2>6, <2>7, <2>8, <2>9, <2>10
    <2>12. Slack'[x] - b = Slack[x] - d
      BY <2>11
    <2> QED  BY <2>3, <2>10, <2>12
  <1> QED  BY <1>1

(* Rank 0 is always there.                                                 *)
LEMMA ZeroMember ==
    ASSUME p \in Procs
    PROVE  0 \in Members /\ 0 \in 0..(Power - 1)
  BY SizeFacts DEF Members

(* A step inside changes one rank's variables.                             *)
LEMMA AdvanceLocal ==
    ASSUME SyncTypes, NEW r \in Members, NEW v, Advance(r, v)
    PROVE  /\ p' = p /\ p \in Procs /\ calls' = calls /\ sync'[r] = v
           /\ \A q \in Members : q # r => sync'[q] = sync[q]
           /\ \A q : Current(q)' = Current(q)
  <1>1. p' = p /\ calls' = calls /\ sync' = [sync EXCEPT ![r] = v] /\ p \in Procs
    BY DEF Advance, SyncTypes
  <1>2. \A q : Current(q)' = Current(q)
    BY <1>1 DEF Current
  <1> QED  BY <1>1, <1>2 DEF SyncTypes

(* A rank that steps in another session comes to a pair's session only at  *)
(* its begin.                                                              *)
LEMMA ClientElsewhere ==
    ASSUME SyncTypes, NEW r \in Members, NEW v, Advance(r, v), NEW x \in Pairs, ~AsClient(r, x)
    PROVE  /\ AtClient(x)' = AtClient(x) \/ (r = Client(x) /\ AtClient(x)' \in {"away", "begin"})
           /\ AtClient(x)' # AtClient(x) /\ AtClient(x)' = "begin" => v.smallest = MaxTime
           /\ Client(x) = r => AtClient(x) = "away"
  <1>1. p' = p /\ sync'[r] = v /\ \A q \in Members : q # r => sync'[q] = sync[q]
    BY AdvanceLocal
  <1>2. Client(x)' = Client(x) /\ ClientTurn(x)' = ClientTurn(x)
    BY <1>1, SamePairs
  <1>3. Client(x) \in Members /\ ClientTurn(x) \in Nat
    BY PairTypes
  <1>4. CASE Client(x) # r
    <2>1. sync'[Client(x)] = sync[Client(x)]
      BY <1>1, <1>3, <1>4
    <2>2. AtClient(x)' = AtClient(x)
      BY <1>2, <2>1 DEF AtClient, Turn
    <2> QED  BY <1>4, <2>2
  <1>5. CASE Client(x) = r
    <2>1. sync[r].step # ClientTurn(x)
      BY <1>5 DEF AsClient
    <2>2. AtClient(x) = "away"
      BY <1>5, <2>1 DEF AtClient, Turn
    <2>3. AtClient(x)' = IF v.step = ClientTurn(x) THEN v.phase ELSE "away"
      BY <1>1, <1>2, <1>5 DEF AtClient, Turn
    <2>4. v.step = ClientTurn(x) => v.phase = "begin" /\ v.smallest = MaxTime
      BY <2>1 DEF Advance
    <2> QED  BY <1>5, <2>2, <2>3, <2>4
  <1> QED  BY <1>4, <1>5

(* Each part of the invariant, for a step elsewhere: Fresh,                *)
LEMMA FreshElsewhere ==
    ASSUME SyncTypes, NEW r \in Members, NEW v, Advance(r, v), NEW x \in Pairs, ~AsClient(r, x),
           Fresh(x)
    PROVE  Fresh(x)'
  <1>1. p' = p /\ sync'[r] = v /\ \A q \in Members : q # r => sync'[q] = sync[q]
    BY AdvanceLocal
  <1>2. Client(x)' = Client(x) /\ Server(x)' = Server(x) /\ MinLeg' = MinLeg
    BY <1>1, SamePairs DEF MinLeg
  <1>3. Client(x) \in Members
    BY PairTypes
  <1>4. CASE Client(x) # r
    <2>1. AtClient(x)' = AtClient(x)
      BY <1>4, ClientElsewhere
    <2>2. sync'[Client(x)] = sync[Client(x)]
      BY <1>1, <1>3, <1>4
    <2> QED  BY <1>2, <2>1, <2>2 DEF Fresh, Near
  <1>5. CASE Client(x) = r
    <2>1. AtClient(x) = "away" /\ AtClient(x)' \in {"away", "begin"}
      BY <1>5, ClientElsewhere
    <2>2. AtClient(x)' = "begin" => v.smallest = MaxTime
      BY <2>1, ClientElsewhere
    <2> QED  BY <1>1, <1>2, <1>5, <2>1, <2>2 DEF Fresh
  <1> QED  BY <1>4, <1>5

(* Kept,                                                                   *)
LEMMA KeptElsewhere ==
    ASSUME SyncTypes, NEW r \in Members, NEW v, Advance(r, v), NEW x \in Pairs, ~AsClient(r, x),
           Kept(x), hop'[<<Client(x), Server(x)>>] = hop[<<Client(x), Server(x)>>]
    PROVE  Kept(x)'
  <1>1. p' = p /\ sync'[r] = v /\ (\A q \in Members : q # r => sync'[q] = sync[q])
        /\ \A q : Current(q)' = Current(q)
    BY AdvanceLocal
  <1>2. Client(x)' = Client(x) /\ Server(x)' = Server(x) /\ MinLeg' = MinLeg
    BY <1>1, SamePairs DEF MinLeg
  <1>3. Client(x) \in Members
    BY PairTypes
  <1>4. CASE Client(x) # r
    <2>1. AtClient(x)' = AtClient(x)
      BY <1>4, ClientElsewhere
    <2>2. sync'[Client(x)] = sync[Client(x)]
      BY <1>1, <1>3, <1>4
    <2>3. Current(Client(x))' = Current(Client(x))
      <3>1. PICK c : c = Client(x) /\ c = Client(x)'
        BY <1>2
      <3>2. Current(c)' = Current(c)
        BY <1>1
      <3> QED  BY <3>1, <3>2 DEF Current
    <2> QED  BY <1>2, <2>1, <2>2, <2>3 DEF Kept, Near
  <1>5. CASE Client(x) = r
    <2>1. AtClient(x)' \in {"away", "begin"}
      BY <1>5, ClientElsewhere
    <2> QED  BY <2>1 DEF Kept
  <1> QED  BY <1>4, <1>5

(* Truth,                                                                  *)
LEMMA TruthElsewhere ==
    ASSUME SyncTypes, NEW r \in Members, NEW v, Advance(r, v), NEW x \in Pairs, Truth(x),
           Tells(x)' = Tells(x), Back(x)' = Back(x),
           Tells(x) /\ Current(Client(x)) /\ Server(x) = r =>
             \A z \in Members : v.diffs[z] = sync[r].diffs[z]
    PROVE  Truth(x)'
  <1>1. p' = p /\ sync'[r] = v /\ (\A q \in Members : q # r => sync'[q] = sync[q]) /\ p \in Procs
        /\ calls' = calls
    BY AdvanceLocal
  <1>2. Client(x)' = Client(x) /\ Server(x)' = Server(x) /\ Items(x)' = Items(x)
    BY <1>1, SamePairs
  <1>3. Server(x) \in Members
    BY PairTypes
  <1>4. Current(Client(x))' = Current(Client(x))
    BY <1>1, <1>2 DEF Current
  <1> SUFFICES ASSUME Tells(x), Current(Client(x)), NEW i \in 1..Items(x)
               PROVE  Head(Back(x)).data[i] = sync'[Server(x)].diffs[Server(x) + i]
    BY <1>2, <1>4 DEF Truth
  <1>5. Head(Back(x)).data[i] = sync[Server(x)].diffs[Server(x) + i]
    BY DEF Truth
  <1>6. Server(x) + i \in Members
    BY <1>1, ItemsInside
  <1>7. sync'[Server(x)].diffs[Server(x) + i] = sync[Server(x)].diffs[Server(x) + i]
    BY <1>1, <1>3, <1>6
  <1> QED  BY <1>5, <1>7

(* Reported,                                                               *)
LEMMA ReportedElsewhere ==
    ASSUME SyncTypes, NEW r \in Members, NEW v, Advance(r, v), NEW x \in Pairs, Reported(x),
           x >= Power => /\ late'[x] = late[x]
                         /\ late[x] # <<>> => hop'[Edge(x)] = hop[Edge(x)]
                         /\ r = x => sync[x].step # 2
    PROVE  Reported(x)'
  <1>1. p' = p /\ sync'[r] = v /\ (\A q \in Members : q # r => sync'[q] = sync[q]) /\ p \in Procs
        /\ calls' = calls
    BY AdvanceLocal
  <1>2. Power' = Power /\ Parent(x)' = Parent(x) /\ MinLeg' = MinLeg
    BY <1>1, SamePairs DEF MinLeg
  <1>3. Edge(x)' = Edge(x) /\ Current(x)' = Current(x)
    BY <1>1, <1>2 DEF Edge, Current
  <1>4. CASE r = x
    BY <1>1, <1>2, <1>3, <1>4 DEF Reported
  <1>5. CASE r # x
    <2>1. sync'[x] = sync[x]
      BY <1>1, <1>5, PairParent
    <2> QED  BY <1>1, <1>2, <1>3, <2>1 DEF Reported, Near
  <1> QED  BY <1>4, <1>5

(* The rounds of a client depend on the size only.                         *)
LEMMA SameClientAt ==
    ASSUME p' = p, NEW r, NEW k
    PROVE  ClientAt(r, k)' = ClientAt(r, k) /\ Block(r, k)' = Block(r, k)
  BY SamePairs DEF ClientAt, Block

(* and Knows.                                                              *)
LEMMA KnowsElsewhere ==
    ASSUME SyncTypes, NEW r \in Members, NEW v, Advance(r, v), NEW q, NEW k, ClientAt(q, k), Knows(q, k),
           sync[q].step > k,
           Current(q) =>
             \A x \in Block(q, k) : /\ sync'[q].diffs[x] = sync[q].diffs[x]
                                    /\ Slack'[x] - Slack'[q] = Slack[x] - Slack[q]
    PROVE  Knows(q, k)'
  <1>1. /\ p' = p /\ sync'[r] = v /\ (\A y \in Members : y # r => sync'[y] = sync[y])
        /\ p \in Procs /\ calls' = calls /\ \A y : Current(y)' = Current(y)
    BY AdvanceLocal
  <1>2. Block(q, k)' = Block(q, k) /\ \A y : Parent(y)' = Parent(y) /\ Rounds(y)' = Rounds(y)
    BY <1>1, SameClientAt, SamePairs
  <1>3. ASSUME NEW x \in Block(q, k), Current(q)
        PROVE  /\ Near(sync'[q].diffs[x], q, x, Slack'[x] - Slack'[q])
               /\ Current(Parent(x)) /\ sync'[Parent(x)].step > Rounds(x)
    <2>1. /\ Near(sync[q].diffs[x], q, x, Slack[x] - Slack[q])
          /\ Current(Parent(x)) /\ sync[Parent(x)].step > Rounds(x)
      BY <1>3 DEF Knows
    <2>2. Near(sync'[q].diffs[x], q, x, Slack'[x] - Slack'[q])
      <3>1. sync'[q].diffs[x] = sync[q].diffs[x] /\ Slack'[x] - Slack'[q] = Slack[x] - Slack[q]
        BY <1>3
      <3> QED  BY <2>1, <3>1, NearSame
    <2>3. Parent(x) \in Members /\ x \in 1..(Power - 1)
      BY <1>1, BlockFacts
    <2>4. sync'[Parent(x)].step > Rounds(x)
      <3>1. CASE Parent(x) = r
        <4>1. PICK n \in Nat : n = sync[r].step
          BY LocalFacts
        <4>2. v.step = n \/ v.step = n + 1
          BY <4>1 DEF Advance
        <4>3. PICK m \in Nat : m = Rounds(x)
          <5>1. Rounds(x) \in 1..Log2 /\ Log2 \in Nat
            BY <1>1, <2>3, RoundsShape, SizeFacts
          <5> QED  BY <5>1
        <4>4. n > m
          BY <2>1, <3>1, <4>1, <4>3
        <4>5. v.step > m
          BY <4>2, <4>4
        <4> QED  BY <1>1, <3>1, <4>3, <4>5
      <3>2. CASE Parent(x) # r
        BY <1>1, <2>1, <2>3, <3>2
      <3> QED  BY <3>1, <3>2
    <2> QED  BY <2>1, <2>2, <2>4
  <1>4. ASSUME Current(q), NEW x \in Block(q, k)
        PROVE  (Current(Parent(x)))'
    <2>1. Current(Parent(x))
      BY <1>3, <1>4
    <2> QED  BY <1>1, <1>2, <2>1 DEF Current
  <1> SUFFICES ASSUME Current(q)', NEW x \in Block(q, k)
               PROVE  /\ Near(sync'[q].diffs[x], q, x, Slack'[x] - Slack'[q])
                      /\ Current(Parent(x))' /\ sync'[Parent(x)].step > Rounds(x)
    BY <1>2 DEF Knows, Near
  <1>5. Current(q)
    BY <1>1
  <1> QED  BY <1>3, <1>4, <1>5

(* What Valued contains                                                    *)
LEMMA ValuedFacts ==
    ASSUME Valued
    PROVE  Linked /\ Links /\ SyncTypes /\ p \in Procs /\ 0 \in Members
  <1>1. p \in Procs
    BY DEF Valued, Linked, Links, SyncTypes
  <1> QED  BY <1>1, ZeroMember DEF Valued, Linked, Links

(* A server that has told what it knows is not in a session as a client.   *)
LEMMA TellsAhead ==
    ASSUME Valued, NEW x \in Pairs, Tells(x), Current(Client(x))
    PROVE  /\ Current(Server(x)) /\ sync[Server(x)].step > Rounds(Server(x)) /\ Server(x) = x
           /\ ~(x >= Power) /\ AtClient(x) = "merging"
  <1>1. SyncTypes /\ p \in Procs
    BY ValuedFacts
  <1>2. /\ Client(x) \in Members /\ Server(x) \in Members /\ ClientTurn(x) \in Nat
        /\ ServerTurn(x) \in Nat /\ 0 \in Members
    BY <1>1, PairTypes, ZeroMember
  <1>3. Ahead(x) = -1 /\ AtClient(x) = "merging" /\ Items(x) > 0
    <2>1. Shake(Forth(x), Back(x), Ahead(x), AtClient(x), AtServer(x), Items(x))
      BY DEF Valued, Linked, Links, Shaken
    <2> QED  BY <2>1, WhoSends DEF Tells
  <1>4. ~(x >= Power)
    <2>1. Items(x) # 0
      BY <1>3
    <2> QED  BY <1>1, <2>1, ClientInTree
  <1>5. Server(x) = x /\ ServerTurn(x) = Rounds(x)
    BY <1>4 DEF Server, ServerTurn
  <1>6. sync[Client(x)].step = ClientTurn(x)
    BY <1>3 DEF AtClient, Turn
  <1>7. PICK a \in Nat, b \in Nat, n \in Nat :
          a = calls[Client(x)] /\ b = calls[Server(x)] /\ n = ServerTurn(x)
    BY <1>1, <1>2, LocalFacts
  <1>8. PICK m \in Nat : m = sync[Server(x)].step
    BY <1>1, <1>2, LocalFacts
  <1>9. Done(Client(x), ClientTurn(x)) = a
    <2>1. ~(sync[Client(x)].step > ClientTurn(x))
      BY <1>2, <1>6
    <2> QED  BY <1>7, <2>1 DEF Done
  <1>10. Done(Server(x), ServerTurn(x)) = b + IF m > n THEN 1 ELSE 0
    BY <1>7, <1>8 DEF Done
  <1>11. b + (IF m > n THEN 1 ELSE 0) = a + 1
    <2>1. PICK d \in Nat : d = b + IF m > n THEN 1 ELSE 0
      OBVIOUS
    <2>2. a - d = -1
      BY <1>3, <1>9, <1>10, <2>1 DEF Ahead
    <2> QED  BY <2>1, <2>2
  <1>12. b <= a /\ a = calls[0]
    <2>1. a = calls[0]
      BY <1>7 DEF Current
    <2>2. b <= calls[0]
      BY <1>2, <1>7 DEF Valued, Epochs
    <2> QED  BY <2>1, <2>2
  <1>13. b = a /\ m > n
    BY <1>11, <1>12
  <1> QED  BY <1>3, <1>4, <1>5, <1>7, <1>8, <1>12, <1>13 DEF Current

(* A client of the tree has rounds to come.                                *)
LEMMA ClientSoon ==
    ASSUME SyncTypes, NEW r \in Members, NEW x \in Pairs, AsClient(r, x), ~(x >= Power)
    PROVE  ~(sync[r].step > Rounds(r)) /\ r \in 0..(Power - 1)
  <1>1. p \in Procs /\ r = Client(x) /\ sync[r].step = ClientTurn(x)
    BY DEF SyncTypes, AsClient
  <1>2. SessionAt(r, sync[r].step).client = TRUE
    <2>1. SessionAt(Client(x), ClientTurn(x)) = [client |-> TRUE, items |-> Items(x), peer |-> Server(x)]
      BY <1>1, PairFacts
    <2> QED  BY <1>1, <2>1
  <1>3. r \in 0..(Power - 1) /\ r < Power /\ ~(r >= Power)
    <2>1. x \in 1..(Power - 1)
      BY <1>1, InTree
    <2>2. Client(x) = Parent(x)
      BY DEF Client
    <2>3. Parent(x) \in 0..(Power - 1)
      BY <1>1, <2>1, ParentIs
    <2> QED  BY <1>1, <2>2, <2>3, SizeFacts
  <1>4. ASSUME sync[r].step > Rounds(r) PROVE FALSE
    <2>1. ~(sync[r].step <= Rounds(r))
      <3>1. sync[r].step \in Nat
        BY LocalFacts
      <3>2. Rounds(r) \in 1..Log2 /\ Log2 \in Nat
        BY <1>1, <1>3, ClientRounds, SizeFacts
      <3>3. Rounds(r) \in Nat
        BY <3>2
      <3> QED  BY <1>4, <3>1, <3>3
    <2>2. SessionAt(r, sync[r].step) = [client |-> FALSE, items |-> 0, peer |-> r + Power]
      BY <1>3, <1>4, <2>1 DEF SessionAt
    <2> QED  BY <1>2, <2>2
  <1> QED  BY <1>3, <1>4

(* A rank is not client and server in one session.                         *)
LEMMA ServerNotClient ==
    ASSUME SyncTypes, NEW r \in Members, NEW x \in Pairs, AsServer(r, x), NEW k, ClientAt(r, k)
    PROVE  sync[r].step # k
  <1>1. p \in Procs /\ r = Server(x) /\ sync[r].step = ServerTurn(x)
    BY DEF SyncTypes, AsServer
  <1>2. SessionAt(r, sync[r].step).client = FALSE
    <2>1. SessionAt(Server(x), ServerTurn(x)) = [client |-> FALSE, items |-> Items(x), peer |-> Client(x)]
      BY <1>1, PairFacts
    <2> QED  BY <1>1, <2>1
  <1>3. /\ r \in 0..(Power - 1) /\ k \in 1..Rounds(r) /\ r % Pow2[k] = 0
    BY DEF ClientAt
  <1>4. r < Power /\ ~(r >= Power) /\ k <= Rounds(r) /\ ~(k > Rounds(r))
    <2>1. Rounds(r) \in 1..Log2 /\ Log2 \in Nat /\ Power \in Nat
      BY <1>1, <1>3, ClientRounds, SizeFacts
    <2> QED  BY <1>3, <2>1
  <1>5. TreeSession(r, k).client = TRUE
    BY <1>3 DEF TreeSession
  <1>6. SessionAt(r, k) = TreeSession(r, k)
    BY <1>4 DEF SessionAt
  <1> QED  BY <1>2, <1>5, <1>6

(* A rank outside of the tree has one session.                             *)
LEMMA OutsideTurn ==
    ASSUME SyncTypes, NEW r \in Members, NEW x \in Pairs, AsClient(r, x) \/ AsServer(r, x), r >= Power
    PROVE  sync[r].step = 1
  <1>1. sync[r].step \in 1..Sessions(r)
    BY PairTypes DEF AsClient, AsServer
  <1>2. Sessions(r) = 1
    BY DEF Sessions
  <1> QED  BY <1>1, <1>2

(* A step inside is no return.                                             *)
LEMMA EpochsAdvance ==
    ASSUME Valued, NEW r \in Members, NEW v, Advance(r, v)
    PROVE  Epochs'
  <1>1. Members' = Members /\ calls' = calls /\ scattered' = scattered
    BY SamePairs DEF Advance
  <1> QED  BY <1>1 DEF Valued, Epochs

(* An exchange of one pair is none of another.                             *)
LEMMA OtherMessages ==
    ASSUME SyncTypes, p' = p, NEW x \in Pairs, NEW r \in Members, NEW q \in Members, r # q,
           <<r, q>> = <<Client(x), Server(x)>> \/ <<r, q>> = <<Server(x), Client(x)>>,
           NEW taken, NEW sent, net' = Exchanged(r, q, taken, sent), NEW z \in Pairs, z # x
    PROVE  Tells(z)' = Tells(z) /\ Back(z)' = Back(z)
  <1>1. \A e \in Members \X Members : e # <<r, q>> /\ e # <<q, r>> => net'[e] = net[e]
    BY ExchangeFacts
  <1>2. p \in Procs
    BY DEF SyncTypes
  <1>3. /\ <<Client(z), Server(z)>> \in Members \X Members
        /\ <<Server(z), Client(z)>> \in Members \X Members
    BY PairTypes
  <1>4. /\ ~(Client(x) = Client(z) /\ Server(x) = Server(z))
        /\ ~(Client(x) = Server(z) /\ Server(x) = Client(z))
    BY <1>2, PairsDiffer
  <1>5. /\ net'[<<Client(z), Server(z)>>] = net[<<Client(z), Server(z)>>]
        /\ net'[<<Server(z), Client(z)>>] = net[<<Server(z), Client(z)>>]
    BY <1>1, <1>3, <1>4
  <1> QED  BY <1>5, SameMessages

(* A step in a session that changes no differences                         *)
LEMMA ValuedQuiet ==
    ASSUME Valued, NEW x \in Pairs, NEW r \in Members, AsClient(r, x) \/ AsServer(r, x),
           NEW v, Advance(r, v), v.diffs = sync[r].diffs,
           AsClient(r, x) => v.step = sync[r].step,
           Linked', hop' = hop, late' = late,
           \A z \in Pairs : z # x => Tells(z)' = Tells(z) /\ Back(z)' = Back(z),
           AsClient(r, x) => Fresh(x)' /\ Kept(x)', Truth(x)'
    PROVE  Valued'
  <1>1. SyncTypes /\ p \in Procs /\ 0 \in Members
    BY ValuedFacts
  <1>2. /\ p' = p /\ sync'[r] = v /\ (\A y \in Members : y # r => sync'[y] = sync[y])
        /\ calls' = calls /\ \A y : Current(y)' = Current(y)
    BY <1>1, AdvanceLocal
  <1>3. \A z \in Pairs : Fresh(z) /\ Kept(z) /\ Truth(z) /\ Reported(z)
    BY DEF Valued
  <1>4. ASSUME NEW z \in Pairs, z # x PROVE ~AsClient(r, z)
    <2>1. /\ Client(x) = Client(z) => ClientTurn(x) # ClientTurn(z)
          /\ Server(x) = Client(z) => ServerTurn(x) # ClientTurn(z)
      BY <1>1, <1>4, PairsDiffer
    <2> QED  BY <2>1 DEF AsClient, AsServer
  <1>5. ASSUME NEW z \in Pairs, ~AsClient(r, z) PROVE Fresh(z)' /\ Kept(z)'
    BY <1>1, <1>3, <1>5, FreshElsewhere, KeptElsewhere
  <1>6. ASSUME NEW z \in Pairs PROVE Fresh(z)' /\ Kept(z)' /\ Truth(z)' /\ Reported(z)'
    <2>1. Fresh(z)' /\ Kept(z)'
      BY <1>4, <1>5
    <2>2. Truth(z)'
      <3>1. CASE z = x
        BY <3>1
      <3>2. CASE z # x
        BY <1>1, <1>3, <3>2, TruthElsewhere
      <3> QED  BY <3>1, <3>2
    <2>3. Reported(z)'
      <3>1. ASSUME r = z, z >= Power PROVE sync[z].step # 2
        BY <1>1, <3>1, OutsideTurn
      <3> QED  BY <1>1, <1>3, <3>1, ReportedElsewhere
    <2> QED  BY <2>1, <2>2, <2>3
  <1>7. ASSUME NEW q, NEW k, ClientAt(q, k) PROVE Knows(q, k)'
    <2>1. Knows(q, k)
      BY <1>7 DEF Valued
    <2>2. q \in Members /\ k \in Nat
      <3>1. q \in 0..(Power - 1) /\ k \in 1..Rounds(q) /\ Rounds(q) \in 1..Log2
        BY <1>1, <1>7, ClientRounds DEF ClientAt
      <3>2. Power \in Nat /\ p \in Nat /\ Power <= p /\ Log2 \in Nat
        BY <1>1, SizeFacts
      <3> QED  BY <3>1, <3>2 DEF Members
    <2>3. CASE sync[q].step > k
      <3>1. Slack' = Slack
        BY <1>2, SameSlack
      <3>2. sync'[q].diffs = sync[q].diffs
        BY <1>2, <2>2
      <3>3. \A y \in Block(q, k) : /\ sync'[q].diffs[y] = sync[q].diffs[y]
                                   /\ Slack'[y] - Slack'[q] = Slack[y] - Slack[q]
        BY <3>1, <3>2
      <3> QED  BY <1>1, <1>7, <2>1, <2>3, <3>3, KnowsElsewhere
    <2>4. CASE ~(sync[q].step > k)
      <3>1. ~(sync'[q].step > k)
        <4>1. CASE q # r
          BY <1>2, <2>2, <2>4, <4>1
        <4>2. CASE q = r
          <5>1. PICK n \in Nat : n = sync[r].step
            BY <1>1, LocalFacts
          <5>2. v.step = n \/ v.step = n + 1
            BY <5>1 DEF Advance
          <5>3. CASE AsServer(r, x)
            <6>1. n # k
              BY <1>1, <1>7, <4>2, <5>1, <5>3, ServerNotClient
            <6>2. ~(n > k)
              BY <2>4, <4>2, <5>1
            <6>3. ~(v.step > k)
              BY <2>2, <5>2, <6>1, <6>2
            <6> QED  BY <1>2, <4>2, <6>3
          <5>4. CASE AsClient(r, x)
            BY <1>2, <2>4, <4>2, <5>4
          <5> QED  BY <5>3, <5>4
        <4> QED  BY <4>1, <4>2
      <3> QED  BY <3>1 DEF Knows
    <2> QED  BY <2>3, <2>4
  <1>8. Root'
    <2>1. sync[0].diffs = sync'[0].diffs
      BY <1>1, <1>2
    <2>2. sync[r].step # 0
      BY <1>1, PairTypes DEF AsClient, AsServer
    <2>3. sync'[0].step # 0 => sync[0].step # 0
      BY <1>1, <1>2, <2>2
    <2> QED  BY <2>1, <2>3 DEF Valued, Root
  <1>9. Epochs'
    BY EpochsAdvance
  <1>10. Pairs' = Pairs /\ \A q, k : ClientAt(q, k)' = ClientAt(q, k)
    BY <1>2, SamePairs, SameClientAt
  <1> QED  BY <1>6, <1>7, <1>8, <1>9, <1>10 DEF Valued

(* Each action keeps Valued: Ping,                                         *)
LEMMA ValuedPing ==
    ASSUME Valued, NEW r \in Members, Ping(r), calls' = calls
    PROVE  Valued'
  <1>1. SyncTypes /\ Linked
    BY ValuedFacts
  <1>2. Linked'
    BY <1>1, LinkedPing
  <1> DEFINE v == [sync[r] EXCEPT !.phase = "waiting"]
  <1>3. PICK x \in Pairs :
             /\ AsClient(r, x) /\ sync[r].phase = "begin" /\ Advance(r, v)
             /\ net' = Exchanged(r, Server(x), FALSE, <<Msg("ping")>>)
             /\ UNCHANGED <<late, hop>>
    BY <1>1, PingEffect
  <1>4. /\ v.step = sync[r].step /\ v.phase = "waiting" /\ v.diffs = sync[r].diffs
        /\ v.smallest = sync[r].smallest /\ v.diff = sync[r].diff
    <2>1. sync[r] \in LocalVars
      BY <1>1, LocalFacts
    <2> QED  BY <2>1 DEF LocalVars
  <1> HIDE DEF v
  <1>5. p' = p /\ sync'[r] = v
    BY <1>1, <1>3, AdvanceLocal
  <1>6. AtClient(x) = "begin" /\ AtClient(x)' = "waiting"
    BY <1>1, <1>3, <1>4, ClientMoves
  <1>7. /\ Back(x)' = Back(x) /\ r # Server(x) /\ Server(x) \in Members
        /\ <<r, Server(x)>> = <<Client(x), Server(x)>>
    BY <1>1, <1>3, <1>5, ClientExchange
  <1>8. \A z \in Pairs : z # x => Tells(z)' = Tells(z) /\ Back(z)' = Back(z)
    BY <1>1, <1>3, <1>5, <1>7, OtherMessages
  <1>9. Client(x) = r /\ Client(x)' = Client(x) /\ Server(x)' = Server(x) /\ MinLeg' = MinLeg
    BY <1>3, <1>5, SamePairs DEF AsClient, MinLeg
  <1>10. Fresh(x)' /\ Kept(x)'
    <2>1. Fresh(x)
      BY DEF Valued
    <2> QED  BY <1>4, <1>5, <1>6, <1>9, <2>1 DEF Fresh, Kept, Near
  <1>11. Truth(x)'
    <2>1. ~Tells(x)
      <3>1. Shake(Forth(x), Back(x), Ahead(x), AtClient(x), AtServer(x), Items(x))
        BY <1>1 DEF Linked, Links, Shaken
      <3> QED  BY <1>6, <3>1, WhoSends DEF Tells
    <2> QED  BY <1>7, <2>1 DEF Truth, Tells
  <1> QED  BY <1>2, <1>3, <1>4, <1>8, <1>10, <1>11, ValuedQuiet

(* Pong,                                                                   *)
LEMMA ValuedPong ==
    ASSUME Valued, NEW r \in Members, NEW there \in Legs[p], NEW back \in Legs[p],
           Pong(r, there, back), calls' = calls
    PROVE  Valued'
  <1>1. SyncTypes /\ Linked /\ p \in Procs
    BY ValuedFacts
  <1>2. Linked'
    BY <1>1, LinkedPong
  <1>3. PICK x \in Pairs :
             /\ AsClient(r, x) /\ sync[r].phase = "waiting"
             /\ Back(x) # <<>> /\ Head(Back(x)).kind = "pong"
             /\ \/ Advance(r, Measured(sync[r], r, Server(x), there, back))
                \/ Advance(r, [sync[r] EXCEPT !.notsmaller = sync[r].notsmaller + 1, !.phase = "begin"])
             /\ net' = Exchanged(r, Server(x), TRUE, <<>>)
             /\ UNCHANGED <<late, hop>>
    BY <1>1, PongEffect
  <1>4. sync[r] \in LocalVars /\ r = Client(x) /\ Server(x) \in Members
    BY <1>1, <1>3, LocalFacts, PairTypes DEF AsClient
  <1>5. AtClient(x) = "waiting"
    BY <1>1, <1>3, ClientMoves
  <1>6. \E v :
          /\ Advance(r, v) /\ v.step = sync[r].step /\ v.phase = "begin" /\ v.diffs = sync[r].diffs
          /\ \/ v.smallest = MaxTime
             \/ Near(v.diff, r, Server(x), v.smallest - 2 * MinLeg)
    <2>1. CASE Advance(r, Measured(sync[r], r, Server(x), there, back))
      <3> DEFINE v == Measured(sync[r], r, Server(x), there, back)
      <3>1. /\ v.step = sync[r].step /\ v.phase = "begin" /\ v.diffs = sync[r].diffs
            /\ v.diff = 2 * (Clock[r] - Clock[Server(x)]) + back - there
            /\ v.smallest = there + back
        BY <1>4 DEF Measured, LocalVars
      <3> HIDE DEF v
      <3>2. Near(v.diff, r, Server(x), v.smallest - 2 * MinLeg)
        BY <1>1, <1>4, <3>1, NearMeasured
      <3> QED  BY <2>1, <3>1, <3>2 DEF v
    <2>2. CASE Advance(r, [sync[r] EXCEPT !.notsmaller = sync[r].notsmaller + 1, !.phase = "begin"])
      <3> DEFINE v == [sync[r] EXCEPT !.notsmaller = sync[r].notsmaller + 1, !.phase = "begin"]
      <3>1. /\ v.step = sync[r].step /\ v.phase = "begin" /\ v.diffs = sync[r].diffs
            /\ v.diff = sync[r].diff /\ v.smallest = sync[r].smallest
        BY <1>4 DEF LocalVars
      <3>2. \/ sync[r].smallest = MaxTime
            \/ Near(sync[r].diff, r, Server(x), sync[r].smallest - 2 * MinLeg)
        BY <1>4, <1>5 DEF Valued, Fresh
      <3> HIDE DEF v
      <3>3. \/ v.smallest = MaxTime
            \/ Near(v.diff, r, Server(x), v.smallest - 2 * MinLeg)
        BY <3>1, <3>2
      <3> QED  BY <2>2, <3>1, <3>3 DEF v
    <2> QED  BY <1>3, <2>1, <2>2
  <1>7. PICK v :
          /\ Advance(r, v) /\ v.step = sync[r].step /\ v.phase = "begin" /\ v.diffs = sync[r].diffs
          /\ \/ v.smallest = MaxTime
             \/ Near(v.diff, r, Server(x), v.smallest - 2 * MinLeg)
    BY <1>6
  <1>8. p' = p /\ sync'[r] = v
    BY <1>1, <1>7, AdvanceLocal
  <1>9. AtClient(x)' = "begin"
    BY <1>1, <1>3, <1>7, ClientMoves
  <1>10. /\ Back(x)' = Tail(Back(x)) /\ r # Server(x) /\ Server(x) \in Members
         /\ <<r, Server(x)>> = <<Client(x), Server(x)>>
    BY <1>1, <1>3, <1>8, ClientExchange
  <1>11. \A z \in Pairs : z # x => Tells(z)' = Tells(z) /\ Back(z)' = Back(z)
    BY <1>1, <1>3, <1>8, <1>10, OtherMessages
  <1>12. Client(x)' = Client(x) /\ Server(x)' = Server(x) /\ MinLeg' = MinLeg
    BY <1>8, SamePairs DEF MinLeg
  <1>13. Fresh(x)' /\ Kept(x)'
    BY <1>4, <1>7, <1>8, <1>9, <1>12 DEF Fresh, Kept, Near
  <1>14. Truth(x)'
    <2>1. Tail(Back(x)) = <<>>
      <3>1. Shake(Forth(x), Back(x), Ahead(x), AtClient(x), AtServer(x), Items(x))
        BY <1>1 DEF Linked, Links, Shaken
      <3> QED  BY <1>3, <3>1, WhoSends
    <2> QED  BY <1>10, <2>1 DEF Truth, Tells
  <1> QED  BY <1>2, <1>3, <1>7, <1>11, <1>13, <1>14, ValuedQuiet

(* Serve,                                                                  *)
LEMMA ValuedServe ==
    ASSUME Valued, NEW r \in Members, Serve(r), calls' = calls
    PROVE  Valued'
  <1>1. SyncTypes /\ Linked /\ p \in Procs
    BY ValuedFacts
  <1>2. Linked'
    BY <1>1, LinkedServe
  <1>3. PICK x \in Pairs :
             /\ AsServer(r, x) /\ Forth(x) # <<>> /\ UNCHANGED <<late, hop>>
             /\ \/ /\ Head(Forth(x)).kind = "ping" /\ Advance(r, sync[r])
                   /\ net' = Exchanged(r, Client(x), TRUE, <<Msg("pong")>>)
                \/ /\ Head(Forth(x)).kind = "abort" /\ Advance(r, NextSession(sync[r]))
                   /\ net' = Exchanged(r, Client(x), TRUE, Answer(r, Items(x)))
    BY <1>1, ServeEffect
  <1>4. Shake(Forth(x), Back(x), Ahead(x), AtClient(x), AtServer(x), Items(x))
    BY <1>1 DEF Linked, Links, Shaken
  <1>5. r = Server(x) /\ ~AsClient(r, x) /\ sync[r] \in LocalVars
    BY <1>1, <1>3, PairTypes, LocalFacts DEF AsServer, AsClient
  <1>6. p' = p /\ Items(x)' = Items(x) /\ Server(x)' = Server(x) /\ Client(x)' = Client(x)
    <2>1. p' = p
      BY <1>3 DEF Advance
    <2> QED  BY <2>1, SamePairs
  <1>7. Back(x) = <<>>
    BY <1>3, <1>4, WhoSends
  <1>8. CASE /\ Head(Forth(x)).kind = "ping" /\ Advance(r, sync[r])
             /\ net' = Exchanged(r, Client(x), TRUE, <<Msg("pong")>>)
    <2>1. /\ Back(x)' = Back(x) \o <<Msg("pong")>>
          /\ r # Client(x) /\ Client(x) \in Members /\ <<r, Client(x)>> = <<Server(x), Client(x)>>
      BY <1>1, <1>3, <1>6, <1>8, ServerExchange
    <2>2. \A z \in Pairs : z # x => Tells(z)' = Tells(z) /\ Back(z)' = Back(z)
      BY <1>1, <1>6, <1>8, <2>1, OtherMessages
    <2>3. Truth(x)'
      <3>1. Back(x)' = <<Msg("pong")>>
        BY <1>7, <2>1, MessagesHere
      <3>2. Head(<<Msg("pong")>>).kind = "pong"
        BY MessagesHere
      <3> QED  BY <3>1, <3>2 DEF Truth, Tells
    <2> QED  BY <1>2, <1>3, <1>5, <1>8, <2>2, <2>3, ValuedQuiet
  <1>9. CASE /\ Head(Forth(x)).kind = "abort" /\ Advance(r, NextSession(sync[r]))
             /\ net' = Exchanged(r, Client(x), TRUE, Answer(r, Items(x)))
    <2>1. /\ Back(x)' = Back(x) \o Answer(r, Items(x))
          /\ r # Client(x) /\ Client(x) \in Members /\ <<r, Client(x)>> = <<Server(x), Client(x)>>
      BY <1>1, <1>3, <1>6, <1>9, ServerExchange
    <2>2. \A z \in Pairs : z # x => Tells(z)' = Tells(z) /\ Back(z)' = Back(z)
      BY <1>1, <1>6, <1>9, <2>1, OtherMessages
    <2>3. Back(x)' = Answer(r, Items(x))
      <3>1. <<>> \o Answer(r, Items(x)) = Answer(r, Items(x))
        BY MessagesHere DEF Answer
      <3> QED  BY <1>7, <2>1, <3>1
    <2>4. NextSession(sync[r]).diffs = sync[r].diffs
      BY <1>5, NextSessionFacts
    <2>5. sync'[r].diffs = sync[r].diffs
      BY <1>1, <1>9, <2>4, AdvanceLocal
    <2>6. Truth(x)'
      <3> SUFFICES ASSUME NEW i \in 1..Items(x) PROVE Head(Back(x)').data[i] = sync'[r].diffs[r + i]
        BY <1>5, <1>6 DEF Truth
      <3>1. Items(x) # 0
        BY <1>1, PairTypes
      <3>2. Back(x)' = <<[kind |-> "data", data |-> Knowledge(r, Items(x))]>>
        BY <2>3, <3>1 DEF Answer
      <3>3. Head(Back(x)').data = Knowledge(r, Items(x))
        BY <3>2
      <3>4. Knowledge(r, Items(x))[i] = sync[r].diffs[r + i]
        BY DEF Knowledge
      <3> QED  BY <2>5, <3>3, <3>4
    <2> QED  BY <1>2, <1>3, <1>5, <1>9, <2>2, <2>4, <2>6, ValuedQuiet
  <1> QED  BY <1>3, <1>8, <1>9

(* Enter,                                                                  *)
LEMMA ValuedEnter ==
    ASSUME Valued, NEW r \in Members, Enter(r), calls' = calls
    PROVE  Valued'
  <1>1. SyncTypes /\ Linked /\ p \in Procs /\ 0 \in Members
    BY ValuedFacts
  <1>2. Linked'
    BY <1>1, LinkedEnter
  <1>3. Advance(r, Entered) /\ UNCHANGED <<net, late, hop>> /\ sync[r].step = 0
    BY <1>1, EnterEffect
  <1>4. /\ p' = p /\ sync'[r] = Entered /\ (\A y \in Members : y # r => sync'[y] = sync[y])
        /\ calls' = calls /\ \A y : Current(y)' = Current(y)
    BY <1>1, <1>3, AdvanceLocal
  <1>5. Entered.step = 1 /\ Entered.diffs = Zeros
    BY DEF Entered, Idle
  <1>6. ASSUME NEW z \in Pairs PROVE Fresh(z)' /\ Kept(z)' /\ Truth(z)' /\ Reported(z)'
    <2>1. Fresh(z) /\ Kept(z) /\ Truth(z) /\ Reported(z)
      BY DEF Valued
    <2>2. ~AsClient(r, z)
      BY <1>1, <1>3, PairTypes DEF AsClient
    <2>3. Fresh(z)' /\ Kept(z)'
      BY <1>1, <1>3, <2>1, <2>2, FreshElsewhere, KeptElsewhere
    <2>4. Tells(z)' = Tells(z) /\ Back(z)' = Back(z)
      BY <1>3, <1>4, SameMessages
    <2>5. ~(Tells(z) /\ Current(Client(z)) /\ Server(z) = r)
      <3> SUFFICES ASSUME Tells(z), Current(Client(z)), Server(z) = r PROVE FALSE
        OBVIOUS
      <3>1. sync[r].step > Rounds(r) /\ r = z /\ z \in Nat
        BY <1>1, TellsAhead, SessionsCount
      <3>2. Rounds(r) \in 1..Log2 /\ Log2 \in Nat
        BY <1>1, <3>1, RoundsShape, SizeFacts
      <3>3. Rounds(r) \in Nat
        BY <3>2
      <3> QED  BY <1>3, <3>1, <3>3
    <2>6. Truth(z)'
      BY <1>1, <1>3, <2>1, <2>4, <2>5, TruthElsewhere
    <2>7. Reported(z)'
      BY <1>1, <1>3, <2>1, ReportedElsewhere
    <2> QED  BY <2>3, <2>6, <2>7
  <1>7. ASSUME NEW q, NEW k, ClientAt(q, k) PROVE Knows(q, k)'
    <2>1. Knows(q, k)
      BY <1>7 DEF Valued
    <2>2. q \in Members /\ k \in Nat \ {0}
      <3>1. q \in 0..(Power - 1) /\ k \in 1..Rounds(q) /\ Rounds(q) \in 1..Log2
        BY <1>1, <1>7, ClientRounds DEF ClientAt
      <3>2. Power \in Nat /\ p \in Nat /\ Power <= p /\ Log2 \in Nat
        BY <1>1, SizeFacts
      <3> QED  BY <3>1, <3>2 DEF Members
    <2>3. CASE q = r
      <3>1. ~(sync'[q].step > k)
        BY <1>4, <1>5, <2>2, <2>3
      <3> QED  BY <3>1 DEF Knows
    <2>4. CASE q # r
      <3>1. Slack' = Slack /\ sync'[q] = sync[q]
        BY <1>3, <1>4, <2>2, <2>4, SameSlack
      <3>2. CASE sync[q].step > k
        <4>1. \A y \in Block(q, k) : /\ sync'[q].diffs[y] = sync[q].diffs[y]
                                     /\ Slack'[y] - Slack'[q] = Slack[y] - Slack[q]
          BY <3>1
        <4> QED  BY <1>1, <1>3, <1>7, <2>1, <3>2, <4>1, KnowsElsewhere
      <3>3. CASE ~(sync[q].step > k)
        BY <3>1, <3>3 DEF Knows
      <3> QED  BY <3>2, <3>3
    <2> QED  BY <2>3, <2>4
  <1>8. Root'
    <2>1. Zeros[0] = 0
      BY <1>1 DEF Zeros
    <2>2. CASE r = 0
      BY <1>4, <1>5, <2>1, <2>2 DEF Root
    <2>3. CASE r # 0
      <3>1. sync'[0] = sync[0]
        BY <1>1, <1>4, <2>3
      <3> QED  BY <3>1 DEF Valued, Root
    <2> QED  BY <2>2, <2>3
  <1>9. Epochs'
    BY <1>3, EpochsAdvance
  <1>10. Pairs' = Pairs /\ \A q, k : ClientAt(q, k)' = ClientAt(q, k)
    BY <1>4, SamePairs, SameClientAt
  <1> QED  BY <1>2, <1>6, <1>7, <1>8, <1>9, <1>10 DEF Valued

(* A client in the tree: its round, its server, and what it has measured   *)
(* in the rounds before.                                                   *)
LEMMA TreeClient ==
    ASSUME SyncTypes, NEW r \in Members, NEW x \in Pairs, AsClient(r, x), ~(x >= Power)
    PROVE  /\ r = Parent(x) /\ x = Server(x) /\ sync[r].step = Rounds(x) /\ r \in Nat
           /\ ClientAt(r, Rounds(x)) /\ Rounds(x) \in 1..Log2 /\ Rounds(x) \in Nat
           /\ x = r + Pow2[Rounds(x) - 1] /\ Pow2[Rounds(x)] = 2 * Pow2[Rounds(x) - 1]
           /\ Pow2[Rounds(x) - 1] \in Nat \ {0} /\ Edge(x) = <<r, x>>
           /\ \A k \in Nat \ {0} : k < Rounds(x) =>
                ClientAt(r, k) /\ \A z \in Block(r, k) : z < x
  <1>1. p \in Procs /\ Client(x) = Parent(x) /\ Server(x) = x /\ ClientTurn(x) = Rounds(x)
    BY DEF SyncTypes, Client, Server, ClientTurn
  <1>2. r = Parent(x) /\ sync[r].step = Rounds(x) /\ Edge(x) = <<r, x>>
    BY <1>1 DEF AsClient, Edge
  <1>3. x \in 1..(Power - 1)
    BY <1>1, InTree
  <1>4. /\ r = x - Pow2[Rounds(x) - 1] /\ r \in 0..(Power - 1)
        /\ r % Pow2[Rounds(x)] = 0 /\ x = r + Pow2[Rounds(x) - 1]
    BY <1>1, <1>2, <1>3, ParentIs
  <1>5. Log2 \in Nat /\ Power \in Nat
    BY <1>1, SizeFacts
  <1>6. PICK n \in 1..Log2 : n = Rounds(x)
    BY <1>1, <1>3, RoundsShape
  <1>7. n \in Nat /\ n - 1 \in Nat /\ n = (n - 1) + 1
    BY <1>5
  <1>8. Pow2[n] = 2 * Pow2[n - 1] /\ Pow2[n - 1] \in Nat \ {0}
    BY <1>7, PowerFacts
  <1>9. PICK m \in 1..Log2 : m = Rounds(r)
    BY <1>1, <1>4, ClientRounds
  <1>10. n <= m
    <2>1. ~(n > m)
      BY <1>1, <1>2, <1>6, <1>9, ClientSoon
    <2> QED  BY <1>5, <2>1
  <1>11. ClientAt(r, n)
    BY <1>4, <1>5, <1>6, <1>9, <1>10 DEF ClientAt
  <1>12. ASSUME NEW k \in Nat \ {0}, k < n
         PROVE  ClientAt(r, k) /\ \A z \in Block(r, k) : z < x
    <2>1. k \in Nat /\ k <= n /\ k <= n - 1
      BY <1>7, <1>12
    <2>2. r % Pow2[k] = 0
      <3>1. r \in Nat /\ r % Pow2[n] = 0
        BY <1>4, <1>5, <1>6
      <3> QED  BY <1>7, <2>1, <3>1, MultipleOfSmaller
    <2>3. ClientAt(r, k)
      BY <1>4, <1>5, <1>9, <1>10, <1>12, <2>2 DEF ClientAt
    <2>4. Pow2[k] <= Pow2[n - 1] /\ Pow2[k] \in Nat
      BY <1>7, <2>1, PowerGrows, PowerFacts
    <2>5. ASSUME NEW z \in Block(r, k) PROVE z < x
      <3>1. z \in (r + 1)..(r + Pow2[k] - 1)
        BY DEF Block
      <3>2. x = r + Pow2[n - 1] /\ r \in Nat
        BY <1>4, <1>5, <1>6
      <3> QED  BY <1>8, <2>4, <3>1, <3>2
    <2> QED  BY <2>3, <2>5
  <1> QED  BY <1>1, <1>2, <1>4, <1>5, <1>6, <1>7, <1>8, <1>11, <1>12

(* What a client knows when it has merged                                  *)
LEMMA MergedKnowledge ==
    ASSUME Valued, NEW r \in Members, NEW x \in Pairs, AsClient(r, x), Tells(x), Current(r),
           NEW D \in [Members -> Int],
           \A z \in Members : D[z] = IF z \in (x + 1)..(x + Items(x))
                                     THEN sync[r].diffs[x] + Head(Back(x)).data[z - x]
                                     ELSE sync[r].diffs[z],
           NEW y \in Block(r, Rounds(x))
    PROVE  /\ Near(D[y], r, y, Slack[y] - Slack[r]) /\ Current(Parent(y))
           /\ y = x \/ sync[Parent(y)].step > Rounds(y)
  <1>1. SyncTypes /\ p \in Procs /\ r = Client(x)
    BY ValuedFacts DEF AsClient
  <1>2. /\ Current(x) /\ sync[x].step > Rounds(x) /\ Server(x) = x /\ ~(x >= Power)
        /\ AtClient(x) = "merging"
    BY <1>1, TellsAhead
  <1>3. PICK n \in Nat, w \in Nat \ {0} : n = Rounds(x) /\ w = Pow2[n - 1]
    BY <1>1, <1>2, TreeClient
  <1>4. /\ r = Parent(x) /\ sync[r].step = n /\ r \in Nat /\ ClientAt(r, n) /\ n \in 1..Log2
        /\ x = r + w /\ Pow2[n] = 2 * w /\ Edge(x) = <<r, x>>
        /\ \A k \in Nat \ {0} : k < n => ClientAt(r, k) /\ \A z \in Block(r, k) : z < x
    BY <1>1, <1>2, <1>3, TreeClient
  <1>5. Items(x) = w - 1 /\ Items(x) > 0
    <2>1. Items(x) = w - 1
      BY <1>2, <1>3 DEF Items
    <2>2. Shake(Forth(x), Back(x), Ahead(x), AtClient(x), AtServer(x), Items(x))
      BY DEF Valued, Linked, Links, Shaken
    <2> QED  BY <2>1, <2>2, WhoSends DEF Tells
  <1>6. n - 1 \in Nat \ {0} /\ n - 1 < n /\ x % w = 0
    <2>1. 1 \in 1..Items(x)
      BY <1>3, <1>5
    <2>2. n - 1 \in 1..Log2 /\ x % Pow2[n - 1] = 0 /\ Log2 \in Nat
      BY <1>1, <1>3, <2>1, ItemsInside, SizeFacts
    <2> QED  BY <1>3, <2>2
  <1>7. /\ y \in Members /\ y \in Nat /\ y > r /\ y < r + 2 * w /\ y \in Pairs /\ x \in Members /\ x \in Nat
    <2>1. y \in Members /\ y \in Pairs
      BY <1>1, <1>3, <1>4, BlockFacts
    <2>2. y \in (r + 1)..(r + 2 * w - 1)
      BY <1>3, <1>4 DEF Block
    <2> QED  BY <1>1, <1>3, <1>4, <2>1, <2>2, PairParent
  <1>8. /\ Slack \in [Members -> Int] /\ Slack[x] = Slack[r] + hop[Edge(x)] - 2 * MinLeg
        /\ hop[Edge(x)] \in Int /\ MinLeg \in Nat
    <2>1. hop \in [Members \X Members -> Int]
      BY <1>1 DEF SyncTypes
    <2> QED  BY <1>1, <1>4, <2>1, SlackFacts, PairParent, FastestLeg
  <1>9. PICK a \in Int, b \in Int : a = Slack[r] /\ b = Slack[x]
    BY <1>7, <1>8
  <1>10. Near(sync[r].diffs[x], r, x, Slack[x] - Slack[r])
    <2>1. Near(sync[r].diffs[x], r, x, hop[<<r, x>>] - 2 * MinLeg)
      BY <1>1, <1>2 DEF Valued, Kept
    <2>2. PICK h \in Int, m \in Int : h = hop[<<r, x>>] /\ m = MinLeg
      BY <1>4, <1>8
    <2>3. b = a + h - 2 * m
      BY <1>4, <1>8, <1>9, <2>2
    <2>4. h - 2 * m = b - a
      BY <2>3
    <2>5. Near(sync[r].diffs[x], r, x, h - 2 * m)
      BY <2>1, <2>2
    <2> QED  BY <1>9, <2>4, <2>5
  <1>11. CASE y < x
    <2>1. ClientAt(r, n - 1) /\ y \in Block(r, n - 1)
      BY <1>3, <1>4, <1>6, <1>7, <1>11 DEF Block
    <2>2. Knows(r, n - 1) /\ sync[r].step > n - 1
      BY <1>4, <1>6, <2>1 DEF Valued
    <2>3. /\ Near(sync[r].diffs[y], r, y, Slack[y] - Slack[r])
          /\ Current(Parent(y)) /\ sync[Parent(y)].step > Rounds(y)
      BY <2>1, <2>2 DEF Knows
    <2>4. D[y] = sync[r].diffs[y]
      <3>1. y \notin (x + 1)..(x + Items(x))
        BY <1>5, <1>7, <1>11
      <3> QED  BY <1>7, <3>1
    <2> QED  BY <2>3, <2>4
  <1>12. CASE y = x
    <2>1. D[x] = sync[r].diffs[x]
      <3>1. x \notin (x + 1)..(x + Items(x))
        BY <1>5, <1>7
      <3> QED  BY <1>7, <3>1
    <2> QED  BY <1>4, <1>10, <1>12, <2>1
  <1>13. CASE y > x
    <2>1. PICK i \in 1..Items(x) : y = x + i
      <3>1. y - x \in 1..Items(x) /\ y = x + (y - x)
        BY <1>3, <1>4, <1>5, <1>7, <1>13
      <3> QED  BY <3>1
    <2>2. ClientAt(x, n - 1) /\ y \in Block(x, n - 1)
      <3>1. y \in (x + 1)..(x + w - 1)
        BY <1>3, <1>4, <1>5, <1>7, <2>1
      <3>2. x \in 0..(Power - 1)
        <4>1. x \in 1..(Power - 1)
          BY <1>1, <1>2, InTree
        <4> QED  BY <4>1
      <3>3. n - 1 \in 1..n
        BY <1>3, <1>6
      <3> QED  BY <1>3, <1>6, <3>1, <3>2, <3>3 DEF ClientAt, Block
    <2>3. Knows(x, n - 1) /\ sync[x].step > n - 1
      <3>1. sync[x].step \in Nat
        BY <1>1, <1>7, LocalFacts
      <3>2. sync[x].step > n - 1
        BY <1>2, <1>3, <1>6, <3>1
      <3> QED  BY <2>2, <3>2 DEF Valued
    <2>4. /\ Near(sync[x].diffs[y], x, y, Slack[y] - Slack[x])
          /\ Current(Parent(y)) /\ sync[Parent(y)].step > Rounds(y)
      BY <1>2, <2>2, <2>3 DEF Knows
    <2>5. D[y] = sync[r].diffs[x] + sync[x].diffs[y]
      <3>1. Head(Back(x)).data[i] = sync[x].diffs[x + i]
        BY <1>1, <1>2 DEF Valued, Truth
      <3>2. y \in (x + 1)..(x + Items(x)) /\ y - x = i
        BY <1>5, <1>7, <2>1
      <3>3. D[y] = sync[r].diffs[x] + Head(Back(x)).data[i]
        BY <1>7, <3>2
      <3> QED  BY <2>1, <3>1, <3>3
    <2>6. sync[r].diffs[x] \in Int /\ sync[x].diffs[y] \in Int
      <3>1. sync[r].step # 0
        BY <1>4, <1>6
      <3>2. sync[x].step # 0
        BY <1>2, <1>3
      <3> QED  BY <1>1, <1>7, <3>1, <3>2, LocalFacts
    <2>7. PICK c \in Int : c = Slack[y]
      BY <1>7, <1>8
    <2>8. PICK d \in Int, e \in Int : d = sync[r].diffs[x] /\ e = sync[x].diffs[y]
      BY <2>6
    <2>9. Near(d + e, r, y, (b - a) + (c - b))
      <3>1. Near(d, r, x, b - a)
        BY <1>9, <1>10, <2>8
      <3>2. Near(e, x, y, c - b)
        BY <1>9, <2>4, <2>7, <2>8
      <3>3. b - a \in Int /\ c - b \in Int
        OBVIOUS
      <3> QED  BY <1>1, <1>7, <3>1, <3>2, <3>3, NearAdd
    <2>10. (b - a) + (c - b) = c - a
      OBVIOUS
    <2>11. D[y] = d + e
      BY <2>5, <2>8
    <2>12. Near(D[y], r, y, c - a)
      BY <2>9, <2>10, <2>11
    <2> QED  BY <1>9, <2>4, <2>7, <2>12
  <1> QED  BY <1>7, <1>11, <1>12, <1>13

(* A step of a client that adds to what it knows about the ranks from x on *)
LEMMA ValuedLearn ==
    ASSUME Valued, NEW x \in Pairs, NEW r \in Members, AsClient(r, x), NEW v, Advance(r, v),
           Linked', \A z \in Pairs : z # x => Tells(z)' = Tells(z) /\ Back(z)' = Back(z),
           \A z \in Members : z < x => v.diffs[z] = sync[r].diffs[z],
           \A e \in Members \X Members : e # Edge(x) => hop'[e] = hop[e],
           \A z \in Pairs : z # x => late'[z] = late[z],
           Fresh(x)', Kept(x)', Truth(x)', Reported(x)',
           \A k : ClientAt(r, k) /\ sync[r].step = k => Knows(r, k)'
    PROVE  Valued'
  <1>1. SyncTypes /\ p \in Procs /\ 0 \in Members /\ p \in Nat
    BY ValuedFacts, SizeFacts
  <1>2. /\ p' = p /\ sync'[r] = v /\ (\A y \in Members : y # r => sync'[y] = sync[y])
        /\ calls' = calls /\ \A y : Current(y)' = Current(y)
    BY <1>1, AdvanceLocal
  <1>3. \A z \in Pairs : Fresh(z) /\ Kept(z) /\ Truth(z) /\ Reported(z)
    BY DEF Valued
  <1>4. r = Client(x) /\ sync[r].step = ClientTurn(x) /\ Edge(x) = <<r, Server(x)>>
    BY <1>1, PairFacts DEF AsClient
  <1>5. ASSUME NEW z \in Pairs, z # x
        PROVE  ~AsClient(r, z) /\ Edge(z) # Edge(x) /\ hop'[Edge(z)] = hop[Edge(z)]
               /\ Edge(z) = <<Client(z), Server(z)>>
    <2>1. /\ Client(x) = Client(z) => ClientTurn(x) # ClientTurn(z)
          /\ ~(Client(x) = Client(z) /\ Server(x) = Server(z))
      BY <1>1, <1>5, PairsDiffer
    <2>2. Edge(z) = <<Client(z), Server(z)>>
      BY <1>1, PairFacts
    <2>3. Edge(z) \in Members \X Members
      BY <1>1, PairParent
    <2>4. Edge(z) # Edge(x)
      BY <1>4, <2>1, <2>2
    <2> QED  BY <1>4, <2>1, <2>2, <2>3, <2>4 DEF AsClient
  <1>6. ASSUME NEW z \in Pairs PROVE Fresh(z)' /\ Kept(z)' /\ Truth(z)' /\ Reported(z)'
    <2>1. CASE z = x
      BY <2>1
    <2>2. CASE z # x
      <3>1. Fresh(z)' /\ Kept(z)'
        <4>1. hop'[<<Client(z), Server(z)>>] = hop[<<Client(z), Server(z)>>]
          BY <1>5, <2>2
        <4> QED  BY <1>1, <1>3, <1>5, <2>2, <4>1, FreshElsewhere, KeptElsewhere
      <3>2. ~(Tells(z) /\ Current(Client(z)) /\ Server(z) = r)
        <4> SUFFICES ASSUME Tells(z), Current(Client(z)), Server(z) = r PROVE FALSE
          OBVIOUS
        <4>1. sync[r].step > Rounds(r) /\ r = z /\ ~(z >= Power)
          BY TellsAhead
        <4>2. CASE ~(x >= Power)
          BY <1>1, <4>1, <4>2, ClientSoon
        <4>3. CASE x >= Power
          BY <1>4, <4>1, <4>3 DEF Client
        <4> QED  BY <4>2, <4>3
      <3>3. Truth(z)'
        BY <1>1, <1>3, <2>2, <3>2, TruthElsewhere
      <3>4. Reported(z)'
        <4>1. ASSUME r = z, z >= Power PROVE sync[z].step # 2
          BY <1>1, <4>1, OutsideTurn
        <4> QED  BY <1>1, <1>3, <1>5, <2>2, <4>1, ReportedElsewhere
      <3> QED  BY <3>1, <3>3, <3>4
    <2> QED  BY <2>1, <2>2
  <1>7. ASSUME NEW q, NEW k, ClientAt(q, k) PROVE Knows(q, k)'
    <2>1. Knows(q, k)
      BY <1>7 DEF Valued
    <2>2. q \in Members /\ k \in Nat \ {0}
      <3>1. q \in 0..(Power - 1) /\ k \in 1..Rounds(q) /\ Rounds(q) \in 1..Log2
        BY <1>1, <1>7, ClientRounds DEF ClientAt
      <3>2. Power \in Nat /\ p \in Nat /\ Power <= p /\ Log2 \in Nat
        BY <1>1, SizeFacts
      <3> QED  BY <3>1, <3>2 DEF Members
    <2>3. ASSUME sync[q].step > k, Current(q), NEW y \in Block(q, k)
          PROVE  sync'[q].diffs[y] = sync[q].diffs[y] /\ y # x
      <3>1. /\ y \in Members /\ y \in Pairs /\ y \in Nat /\ Client(y) = Parent(y)
            /\ ClientTurn(y) = Rounds(y) /\ ~(y >= Power)
        BY <1>1, <1>7, <2>3, BlockFacts, SizeFacts DEF Members
      <3>2. y # x
        <4> SUFFICES ASSUME y = x PROVE FALSE
          OBVIOUS
        <4>1. sync[Parent(y)].step > Rounds(y)
          BY <2>1, <2>3 DEF Knows
        <4>2. sync[r].step > ClientTurn(x) /\ sync[r].step = ClientTurn(x)
          BY <1>4, <3>1, <4>1
        <4>3. ClientTurn(x) \in Nat
          BY <1>1, PairTypes
        <4> QED  BY <4>2, <4>3
      <3>3. sync'[q].diffs[y] = sync[q].diffs[y]
        <4>1. CASE q # r
          BY <1>2, <2>2, <4>1
        <4>2. CASE q = r
          <5>1. ~(x >= Power)
            <6> SUFFICES ASSUME x >= Power PROVE FALSE
              OBVIOUS
            <6>1. r >= Power /\ r \in 0..(Power - 1)
              BY <1>1, <1>4, <1>7, <4>2, ClientInTree DEF ClientAt
            <6> QED  BY <1>1, <6>1, SizeFacts
          <5>2. /\ sync[r].step = Rounds(x) /\ Rounds(x) \in Nat
                /\ \A j \in Nat \ {0} : j < Rounds(x) => \A z \in Block(r, j) : z < x
            BY <1>1, <5>1, TreeClient
          <5>3. k < Rounds(x)
            BY <2>2, <2>3, <4>2, <5>2
          <5>4. y < x
            BY <2>2, <2>3, <4>2, <5>2, <5>3
          <5> QED  BY <1>2, <3>1, <4>2, <5>4
        <4> QED  BY <4>1, <4>2
      <3> QED  BY <3>2, <3>3
    <2>4. CASE sync[q].step > k /\ Current(q)
      <3>1. \A y \in Block(q, k) : hop'[Edge(y)] = hop[Edge(y)]
        <4> SUFFICES ASSUME NEW y \in Block(q, k) PROVE hop'[Edge(y)] = hop[Edge(y)]
          OBVIOUS
        <4>1. y \in Pairs /\ y # x
          BY <1>1, <1>7, <2>3, <2>4, BlockFacts
        <4> QED  BY <1>5, <4>1
      <3>2. hop \in [Members \X Members -> Int] /\ hop' \in [Members \X Members -> Int]
        <4>1. SyncTypes'
          BY DEF Linked, Links
        <4>2. Members' = Members
          BY <1>2, SamePairs
        <4> QED  BY <1>1, <4>1, <4>2 DEF SyncTypes
      <3>3. \A y \in Block(q, k) : Slack'[y] - Slack'[q] = Slack[y] - Slack[q]
        BY <1>1, <1>2, <1>7, <3>1, <3>2, SlackBlock
      <3> QED  BY <1>1, <1>7, <2>1, <2>3, <2>4, <3>3, KnowsElsewhere
    <2>5. CASE ~Current(q)
      BY <1>2, <2>5 DEF Knows
    <2>6. CASE ~(sync[q].step > k) /\ ~(q = r /\ sync[r].step = k)
      <3>1. ~(sync'[q].step > k)
        <4>1. CASE q # r
          BY <1>2, <2>2, <2>6, <4>1
        <4>2. CASE q = r
          <5>1. PICK n \in Nat : n = sync[r].step
            BY <1>1, LocalFacts
          <5>2. v.step = n \/ v.step = n + 1
            BY <5>1 DEF Advance
          <5>3. ~(v.step > k)
            BY <2>2, <2>6, <4>2, <5>1, <5>2
          <5> QED  BY <1>2, <4>2, <5>3
        <4> QED  BY <4>1, <4>2
      <3> QED  BY <3>1 DEF Knows
    <2>7. CASE q = r /\ sync[r].step = k
      BY <1>7, <2>7
    <2> QED  BY <2>4, <2>5, <2>6, <2>7
  <1>8. Root'
    <2>1. 0 < x
      BY <1>1 DEF Pairs
    <2>2. sync'[0].diffs[0] = sync[0].diffs[0]
      BY <1>1, <1>2, <2>1
    <2>3. sync[r].step # 0
      BY <1>1, PairTypes DEF AsClient
    <2>4. sync'[0].step # 0 => sync[0].step # 0
      BY <1>1, <1>2, <2>3
    <2> QED  BY <2>2, <2>4 DEF Valued, Root
  <1>9. Epochs'
    BY EpochsAdvance
  <1>10. Pairs' = Pairs /\ \A q, k : ClientAt(q, k)' = ClientAt(q, k)
    BY <1>2, SamePairs, SameClientAt
  <1> QED  BY <1>6, <1>7, <1>8, <1>9, <1>10 DEF Valued

(* Merge: the server's differences, added to the one to the server, are    *)
(* right for the client.                                                   *)
LEMMA ValuedMerge ==
    ASSUME Valued, NEW r \in Members, Merge(r), calls' = calls
    PROVE  Valued'
  <1>1. SyncTypes /\ Linked /\ Links /\ p \in Procs /\ p \in Nat
    BY ValuedFacts, SizeFacts
  <1>2. Linked'
    BY <1>1, LinkedMerge
  <1>3. PICK x \in Pairs, t \in LocalVars :
             /\ AsClient(r, x) /\ sync[r].phase = "merging"
             /\ Back(x) # <<>> /\ Head(Back(x)).kind = "data"
             /\ t.step = sync[r].step /\ Advance(r, NextSession(t))
             /\ t.diffs \in [Members -> Int]
             /\ \A z \in Members :
                  t.diffs[z] = IF z \in (Server(x) + 1)..(Server(x) + Items(x))
                               THEN sync[r].diffs[Server(x)] + Head(Back(x)).data[z - Server(x)]
                               ELSE sync[r].diffs[z]
             /\ net' = Exchanged(r, Server(x), TRUE, <<>>)
             /\ UNCHANGED <<late, hop>>
    <2>1. \A x \in Pairs : \A i \in 1..Items(x) :
             AsClient(r, x) /\ sync[r].phase = "merging" /\ Back(x) # <<>> /\ Head(Back(x)).kind = "data" =>
               Head(Back(x)).data[i] \in Int
      BY <1>1 DEF Linked, Carries, Tells
    <2> QED  BY <1>1, <2>1, MergeEffect
  <1>4. PICK v : v = NextSession(t)
    OBVIOUS
  <1>5. Advance(r, v) /\ v.step = sync[r].step + 1 /\ v.diffs = t.diffs
    BY <1>3, <1>4, NextSessionFacts
  <1>6. /\ p' = p /\ sync'[r] = v /\ (\A y \in Members : y # r => sync'[y] = sync[y])
        /\ calls' = calls /\ \A y : Current(y)' = Current(y)
    BY <1>1, <1>5, AdvanceLocal
  <1>7. Tells(x) /\ Items(x) > 0 /\ ~(x >= Power) /\ Tail(Back(x)) = <<>>
    <2>1. Shake(Forth(x), Back(x), Ahead(x), AtClient(x), AtServer(x), Items(x))
      BY <1>1 DEF Links, Shaken
    <2>2. Items(x) > 0 /\ Tail(Back(x)) = <<>>
      BY <1>3, <2>1, WhoSends
    <2>3. Items(x) # 0
      BY <2>2
    <2> QED  BY <1>1, <1>3, <2>2, <2>3, ClientInTree DEF Tells
  <1>8. Server(x) = x /\ x \in Nat /\ Items(x) \in Nat
    <2>1. Server(x) = x /\ Items(x) \in Nat
      BY <1>1, <1>7, ClientInTree, PairTypes
    <2> QED  BY <2>1 DEF Pairs
  <1>9. AtClient(x)' = "away"
    BY <1>1, <1>3, <1>5, ClientMoves
  <1>10. /\ Back(x)' = <<>> /\ r # Server(x) /\ Server(x) \in Members
         /\ <<r, Server(x)>> = <<Client(x), Server(x)>>
    BY <1>1, <1>3, <1>6, <1>7, ClientExchange
  <1>11. \A z \in Pairs : z # x => Tells(z)' = Tells(z) /\ Back(z)' = Back(z)
    BY <1>1, <1>3, <1>6, <1>10, OtherMessages
  <1>12. \A z \in Members : z < x => v.diffs[z] = sync[r].diffs[z]
    <2> SUFFICES ASSUME NEW z \in Members, z < x PROVE v.diffs[z] = sync[r].diffs[z]
      OBVIOUS
    <2>1. z \notin (Server(x) + 1)..(Server(x) + Items(x))
      <3>1. z \in Nat
        BY <1>1 DEF Members
      <3> QED  BY <1>8, <3>1
    <2> QED  BY <1>3, <1>5, <2>1
  <1>13. Fresh(x)' /\ Kept(x)' /\ Truth(x)' /\ Reported(x)'
    <2>1. Power' = Power
      BY <1>6, SamePairs
    <2> QED  BY <1>7, <1>9, <1>10, <2>1 DEF Fresh, Kept, Truth, Tells, Reported
  <1>14. ASSUME NEW k, ClientAt(r, k), sync[r].step = k PROVE Knows(r, k)'
    <2>1. k = Rounds(x) /\ r = Parent(x) /\ Rounds(x) \in Nat
      BY <1>1, <1>3, <1>7, <1>14, TreeClient
    <2>2. Block(r, k)' = Block(r, k) /\ \A y : Parent(y)' = Parent(y) /\ Rounds(y)' = Rounds(y)
      BY <1>6, SameClientAt, SamePairs
    <2>3. Slack' = Slack
      BY <1>3, <1>6, SameSlack
    <2>4. ASSUME Current(r), NEW y \in Block(r, k)
          PROVE  /\ Near(sync'[r].diffs[y], r, y, Slack[y] - Slack[r])
                 /\ Current(Parent(y)) /\ sync'[Parent(y)].step > Rounds(y)
      <3>1. \A z \in Members : t.diffs[z] = IF z \in (x + 1)..(x + Items(x))
                                     THEN sync[r].diffs[x] + Head(Back(x)).data[z - x]
                                     ELSE sync[r].diffs[z]
        BY <1>3, <1>8
      <3>2. /\ Near(t.diffs[y], r, y, Slack[y] - Slack[r]) /\ Current(Parent(y))
            /\ y = x \/ sync[Parent(y)].step > Rounds(y)
        BY <1>3, <1>7, <2>1, <2>4, <3>1, MergedKnowledge
      <3>3. sync'[Parent(y)].step > Rounds(y)
        <4>1. CASE y = x
          BY <1>5, <1>6, <1>14, <2>1, <4>1
        <4>2. CASE y # x
          <5>1. sync[Parent(y)].step > Rounds(y) /\ Parent(y) \in Members
            BY <1>1, <1>14, <2>4, <3>2, <4>2, BlockFacts
          <5>2. CASE Parent(y) = r
            <6>1. Rounds(y) \in Nat
              <7>1. y \in Nat
                BY <1>1, <1>14, <2>4, BlockFacts DEF Members
              <7> QED  BY <1>1, <7>1, RoundsShape, SizeFacts
            <6>2. k > Rounds(y) /\ k \in Nat
              BY <1>14, <2>1, <5>1, <5>2
            <6>3. k + 1 > Rounds(y)
              BY <6>1, <6>2
            <6> QED  BY <1>5, <1>6, <1>14, <5>2, <6>3
          <5>3. CASE Parent(y) # r
            BY <1>6, <5>1, <5>3
          <5> QED  BY <5>2, <5>3
        <4> QED  BY <4>1, <4>2
      <3> QED  BY <1>5, <1>6, <3>2, <3>3
    <2>5. ASSUME Current(r), NEW y \in Block(r, k) PROVE (Current(Parent(y)))'
      BY <1>6, <2>2, <2>4, <2>5 DEF Current
    <2> SUFFICES ASSUME Current(r)', NEW y \in Block(r, k)
                 PROVE  /\ Near(sync'[r].diffs[y], r, y, Slack'[y] - Slack'[r])
                        /\ Current(Parent(y))' /\ sync'[Parent(y)].step > Rounds(y)
      BY <2>2 DEF Knows, Near
    <2>6. Current(r)
      BY <1>6
    <2>7. Near(sync'[r].diffs[y], r, y, Slack'[y] - Slack'[r])
      BY <2>3, <2>4, <2>6
    <2> QED  BY <2>4, <2>5, <2>6, <2>7
  <1> QED  BY <1>2, <1>3, <1>5, <1>11, <1>12, <1>13, <1>14, ValuedLearn

(* Abort: the measurement that ends is kept, known or reported.            *)
LEMMA ValuedAbort ==
    ASSUME Valued, NEW r \in Members, NEW there \in Legs[p], NEW back \in Legs[p],
           Abort(r, there, back), calls' = calls
    PROVE  Valued'
  <1>1. SyncTypes /\ Linked /\ Links /\ p \in Procs /\ p \in Nat
    BY ValuedFacts, SizeFacts
  <1>2. Linked'
    BY <1>1, LinkedAbort
  <1>3. PICK x \in Pairs, v \in LocalVars :
             /\ AsClient(r, x) /\ sync[r].phase = "waiting"
             /\ Back(x) # <<>> /\ Head(Back(x)).kind = "pong"
             /\ sync[r].smallest < MaxTime
             /\ Advance(r, v)
             /\ \A z \in Members :
                  v.diffs[z] = IF ~(x >= Power) /\ z = Server(x) THEN sync[r].diff ELSE sync[r].diffs[z]
             /\ \/ Items(x) = 0 /\ v.step = sync[r].step + 1 /\ v.phase = "begin"
                \/ Items(x) > 0 /\ v.step = sync[r].step /\ v.phase = "merging"
             /\ net' = Exchanged(r, Server(x), TRUE, <<Msg("abort")>>)
             /\ hop' = [hop EXCEPT ![<<r, Server(x)>>] = sync[r].smallest]
             /\ late' = IF x >= Power THEN [late EXCEPT ![x] = <<sync[r].diff>>] ELSE late
    BY <1>1, AbortEffect
  <1>4. /\ p' = p /\ sync'[r] = v /\ (\A y \in Members : y # r => sync'[y] = sync[y])
        /\ calls' = calls /\ \A y : Current(y)' = Current(y)
    BY <1>1, <1>3, AdvanceLocal
  <1>5. /\ sync[r].smallest \in Nat /\ sync[r].diff \in Int /\ r \in Nat /\ MinLeg \in Nat
        /\ MinLeg' = MinLeg
    <2>1. sync[r].smallest \in Nat /\ sync[r].diff \in Int
      BY <1>1, LocalFacts
    <2>2. r \in Nat
      BY <1>1 DEF Members
    <2> QED  BY <1>1, <1>4, <2>1, <2>2, FastestLeg DEF MinLeg
  <1>6. /\ r = Client(x) /\ Server(x) \in Members /\ Edge(x) = <<r, Server(x)>>
        /\ Edge(x) \in Members \X Members
    BY <1>1, <1>3, PairFacts, PairParent DEF AsClient
  <1>7. /\ Client(x)' = Client(x) /\ Server(x)' = Server(x) /\ Power' = Power /\ Parent(x)' = Parent(x)
        /\ Pairs' = Pairs /\ Members' = Members /\ Edge(x)' = Edge(x)
    <2>1. /\ Client(x)' = Client(x) /\ Server(x)' = Server(x) /\ Power' = Power /\ Parent(x)' = Parent(x)
          /\ Pairs' = Pairs /\ Members' = Members
      BY <1>4, SamePairs
    <2> QED  BY <2>1 DEF Edge
  <1>8. Near(sync[r].diff, r, Server(x), sync[r].smallest - 2 * MinLeg)
    <2>1. AtClient(x) = "waiting"
      BY <1>1, <1>3, ClientMoves
    <2>2. sync[r].smallest # MaxTime
      BY <1>3, <1>5 DEF MaxTime
    <2> QED  BY <1>3, <1>6, <2>1, <2>2 DEF Valued, Fresh
  <1>9. /\ hop'[Edge(x)] = sync[r].smallest
        /\ \A e \in Members \X Members : e # Edge(x) => hop'[e] = hop[e]
    <2>1. hop \in [Members \X Members -> Int]
      BY <1>1 DEF SyncTypes
    <2> QED  BY <1>3, <1>6, <2>1
  <1>10. /\ Back(x)' = Tail(Back(x)) /\ r # Server(x)
         /\ <<r, Server(x)>> = <<Client(x), Server(x)>>
    BY <1>1, <1>3, <1>4, ClientExchange
  <1>11. \A z \in Pairs : z # x => Tells(z)' = Tells(z) /\ Back(z)' = Back(z)
    BY <1>1, <1>3, <1>4, <1>6, <1>10, OtherMessages
  <1>12. Truth(x)'
    <2>1. Tail(Back(x)) = <<>>
      <3>1. Shake(Forth(x), Back(x), Ahead(x), AtClient(x), AtServer(x), Items(x))
        BY <1>1 DEF Links, Shaken
      <3> QED  BY <1>3, <3>1, WhoSends
    <2> QED  BY <1>10, <2>1 DEF Truth, Tells
  <1>13. AtClient(x)' = IF Items(x) = 0 THEN "away" ELSE "merging"
    <2>1. Items(x) \in Nat
      BY <1>1, PairTypes
    <2>2. CASE Items(x) = 0
      <3>1. v.step = sync[r].step + 1
        BY <1>3, <2>2
      <3> QED  BY <1>1, <1>3, <2>2, <3>1, ClientMoves
    <2>3. CASE Items(x) # 0
      <3>1. v.step = sync[r].step /\ v.phase = "merging"
        BY <1>3, <2>3
      <3> QED  BY <1>1, <1>3, <2>3, <3>1, ClientMoves
    <2> QED  BY <2>2, <2>3
  <1>14. \A z \in Members : z < x => v.diffs[z] = sync[r].diffs[z]
    <2> SUFFICES ASSUME NEW z \in Members, z < x PROVE v.diffs[z] = sync[r].diffs[z]
      OBVIOUS
    <2>1. ~(~(x >= Power) /\ z = Server(x))
      <3> SUFFICES ASSUME ~(x >= Power), z = Server(x) PROVE FALSE
        OBVIOUS
      <3>1. z = x
        BY <1>1, ClientInTree
      <3>2. z \in Nat
        BY <1>1 DEF Members
      <3> QED  BY <3>1, <3>2
    <2> QED  BY <1>3, <2>1
  <1>15. \A z \in Pairs : z # x => late'[z] = late[z]
    <2>1. late = [q \in Members |-> late[q]]
      BY <1>1 DEF SyncTypes
    <2> QED  BY <1>1, <1>3, <2>1, PairParent
  <1>16. Fresh(x)'
    BY <1>13 DEF Fresh
  <1>17. CASE x >= Power
    <2>1. Items(x) = 0 /\ r = x /\ Server(x) = Parent(x) /\ r >= Power
      BY <1>1, <1>6, <1>17, ClientInTree DEF Server
    <2>2. Kept(x)'
      BY <1>13, <2>1 DEF Kept
    <2>3. sync[x].step = 1 /\ sync'[x].step = 2
      <3>1. sync[x].step = 1
        BY <1>1, <1>3, <2>1, OutsideTurn
      <3>2. ~(Items(x) > 0)
        BY <2>1
      <3> QED  BY <1>3, <1>4, <2>1, <3>1, <3>2
    <2>4. Current(x)
      <3>1. Reported(x)
        BY DEF Valued
      <3> QED  BY <1>17, <2>3, <3>1 DEF Reported
    <2>5. late'[x] = <<sync[r].diff>>
      <3>1. late = [q \in Members |-> late[q]]
        BY <1>1 DEF SyncTypes
      <3> QED  BY <1>1, <1>3, <1>17, <3>1, PairParent
    <2>6. Near(sync[r].diff, x, Parent(x), hop'[Edge(x)] - 2 * MinLeg)
      BY <1>8, <1>9, <2>1
    <2>7. Reported(x)'
      <3>1. Current(x)'
        BY <1>4, <2>4
      <3>2. \E d \in Int : late'[x] = <<d>> /\ Near(d, x, Parent(x), hop'[Edge(x)] - 2 * MinLeg)
        BY <1>5, <2>5, <2>6
      <3> QED  BY <1>5, <1>7, <2>3, <3>1, <3>2 DEF Reported, Near
    <2>8. ASSUME NEW k, ClientAt(r, k) PROVE FALSE
      <3>1. r \in 0..(Power - 1)
        BY <2>8 DEF ClientAt
      <3> QED  BY <1>1, <2>1, <3>1, SizeFacts
    <2> QED  BY <1>2, <1>3, <1>9, <1>11, <1>12, <1>14, <1>15, <1>16, <2>2, <2>7, <2>8, ValuedLearn
  <1>18. CASE ~(x >= Power)
    <2>1. /\ Server(x) = x /\ Parent(x) = r /\ sync[r].step = Rounds(x)
          /\ ClientAt(r, Rounds(x)) /\ Rounds(x) \in Nat
          /\ x = r + Pow2[Rounds(x) - 1] /\ Pow2[Rounds(x)] = 2 * Pow2[Rounds(x) - 1]
          /\ Pow2[Rounds(x) - 1] \in Nat \ {0}
      BY <1>1, <1>3, <1>18, TreeClient
    <2>2. v.diffs[x] = sync[r].diff /\ x \in Members
      BY <1>3, <1>6, <1>18, <2>1
    <2>3. Reported(x)'
      BY <1>7, <1>18 DEF Reported
    <2>4. Kept(x)'
      <3>1. Near(sync'[r].diffs[x], r, x, hop'[<<r, x>>] - 2 * MinLeg)
        BY <1>4, <1>6, <1>8, <1>9, <2>1, <2>2
      <3> QED  BY <1>5, <1>6, <1>7, <2>1, <3>1 DEF Kept, Near
    <2>5. ASSUME NEW k, ClientAt(r, k), sync[r].step = k PROVE Knows(r, k)'
      <3>1. k = Rounds(x) /\ k \in Nat
        BY <2>1, <2>5
      <3>2. CASE Items(x) > 0
        <4>1. v.step = k
          BY <1>3, <2>5, <3>2
        <4>2. ~(sync'[r].step > k)
          BY <1>4, <3>1, <4>1
        <4> QED  BY <4>2 DEF Knows
      <3>3. CASE ~(Items(x) > 0)
        <4>1. Items(x) = 0 /\ v.step = k + 1
          BY <1>3, <2>5, <3>3
        <4>2. PICK w \in Nat \ {0} : w = Pow2[Rounds(x) - 1]
          BY <2>1
        <4>3. w = 1
          <5>1. Items(x) = w - 1
            BY <1>18, <4>2 DEF Items
          <5> QED  BY <4>1, <5>1
        <4>4. \A y \in Block(r, k) : y = x
          <5>1. Pow2[k] = 2 /\ x = r + 1
            BY <2>1, <3>1, <4>2, <4>3
          <5> QED  BY <1>5, <5>1 DEF Block
        <4>5. Block(r, k)' = Block(r, k) /\ Rounds(x)' = Rounds(x)
          BY <1>4, SameClientAt, SamePairs
        <4>6. Near(sync'[r].diffs[x], r, x, Slack'[x] - Slack'[r])
          <5>1. hop' \in [Members \X Members -> Int]
            <6>1. SyncTypes'
              BY <1>2 DEF Linked, Links
            <6> QED  BY <1>7, <6>1 DEF SyncTypes
          <5>2. Slack' \in [Members -> Int] /\ Slack'[x] = Slack'[Parent(x)] + hop'[Edge(x)] - 2 * MinLeg
            BY <1>1, <1>4, <5>1, SlackNext
          <5>3. PICK a \in Int, b \in Int, h \in Int, m \in Int :
                  a = Slack'[x] /\ b = Slack'[r] /\ h = sync[r].smallest /\ m = MinLeg
            BY <1>5, <2>2, <5>2
          <5>4. a = b + h - 2 * m
            BY <1>9, <2>1, <5>2, <5>3
          <5>5. h - 2 * m = a - b
            BY <5>4
          <5>6. Near(sync[r].diff, r, x, h - 2 * m)
            BY <1>8, <2>1, <5>3
          <5>7. Near(sync[r].diff, r, x, a - b)
            BY <5>5, <5>6
          <5> QED  BY <1>4, <2>2, <5>3, <5>7
        <4>7. sync'[r].step > Rounds(x)
          BY <1>4, <3>1, <4>1
        <4> SUFFICES ASSUME Current(r)', NEW y \in Block(r, k)
                     PROVE  /\ Near(sync'[r].diffs[y], r, y, Slack'[y] - Slack'[r])
                            /\ (Current(Parent(y)))' /\ sync'[Parent(y)'].step > Rounds(y)'
          BY <4>5 DEF Knows, Near
        <4>8. y = x
          BY <4>4
        <4>9. (Current(Parent(x)))'
          BY <1>4, <1>7, <2>1 DEF Current
        <4> QED  BY <1>7, <2>1, <4>5, <4>6, <4>7, <4>8, <4>9
      <3> QED  BY <3>2, <3>3
    <2> QED  BY <1>2, <1>3, <1>9, <1>11, <1>12, <1>14, <1>15, <1>16, <2>3, <2>4, <2>5, ValuedLearn
  <1> QED  BY <1>17, <1>18

(* A rank that has done all its sessions is in none of them.               *)
LEMMA ThroughAll ==
    ASSUME Linked, NEW r \in Members, Through(r)
    PROVE  /\ \A x \in Pairs : Client(x) = r => AtClient(x) = "away" /\ ~Tells(x)
           /\ sync[r].step # 0 /\ sync[r].step \in Nat
  <1>1. SyncTypes /\ p \in Procs /\ Links
    BY DEF Linked, Links, SyncTypes
  <1>2. PICK n \in Nat \ {0} : n = Sessions(r) /\ sync[r].step = n + 1
    BY <1>1, SessionsCount DEF Through
  <1>3. ASSUME NEW x \in Pairs, Client(x) = r PROVE AtClient(x) = "away" /\ ~Tells(x)
    <2>1. ClientTurn(x) \in 1..n
      BY <1>1, <1>2, <1>3, PairTypes
    <2>2. AtClient(x) = "away"
      BY <1>2, <1>3, <2>1 DEF AtClient, Turn
    <2>3. Shake(Forth(x), Back(x), Ahead(x), AtClient(x), AtServer(x), Items(x))
      BY <1>1 DEF Links, Shaken
    <2> QED  BY <2>2, <2>3, WhoSends DEF Tells
  <1> QED  BY <1>2, <1>3

(* A return from the synchronisation keeps the types.                      *)
LEMMA TypesReturned ==
    ASSUME SyncTypes, NEW r \in Members, Returned(r),
           hop' \in [Members \X Members -> Int], late' = [q \in Members |-> late'[q]],
           scattered' = [q \in Members |-> scattered'[q]]
    PROVE  SyncTypes'
  <1>1. /\ p' = p /\ net' = net /\ calls' = [calls EXCEPT ![r] = calls[r] + 1] /\ calls[r] < 2
        /\ sync' = [sync EXCEPT ![r] = Idle]
    BY DEF Returned
  <1>2. Members' = Members /\ LocalVars' = LocalVars
    <2>1. Members' = Members
      BY <1>1, SamePairs
    <2> QED  BY <2>1 DEF LocalVars
  <1>3. Idle \in LocalVars /\ Idle.step = 0
    BY DEF Idle, LocalVars, Phases, MaxTime
  <1>4. sync' \in [Members -> LocalVars]
    BY <1>1, <1>3 DEF SyncTypes
  <1>5. calls' \in [Members -> 0..2]
    <2>1. calls[r] + 1 \in 0..2
      <3>1. calls[r] \in 0..2
        BY LocalFacts
      <3> QED  BY <1>1, <3>1
    <2> QED  BY <1>1, <2>1 DEF SyncTypes
  <1>6. \A q \in Members : sync'[q].step # 0 => sync'[q].diffs \in [Members -> Int]
    <2> SUFFICES ASSUME NEW q \in Members, sync'[q].step # 0 PROVE sync'[q].diffs \in [Members -> Int]
      OBVIOUS
    <2>1. CASE q = r
      <3>1. sync'[q] = Idle
        BY <1>1, <2>1 DEF SyncTypes
      <3> QED  BY <1>3, <3>1
    <2>2. CASE q # r
      <3>1. sync'[q] = sync[q]
        BY <1>1, <2>2 DEF SyncTypes
      <3> QED  BY <3>1 DEF SyncTypes
    <2> QED  BY <2>1, <2>2
  <1>7. p' \in Procs /\ net' = [pair \in Members \X Members |-> net'[pair]]
    BY <1>1 DEF SyncTypes
  <1> QED  BY <1>2, <1>4, <1>5, <1>6, <1>7 DEF SyncTypes

(* What it leaves alone                                                    *)
LEMMA ReturnedFacts ==
    ASSUME Linked, NEW r \in Members, Returned(r)
    PROVE  /\ p' = p /\ sync'[r] = Idle /\ Idle.step = 0 /\ calls'[r] = calls[r] + 1
           /\ \A q \in Members : q # r => sync'[q] = sync[q] /\ calls'[q] = calls[q]
           /\ Members' = Members /\ Pairs' = Pairs /\ Power' = Power /\ MinLeg' = MinLeg
           /\ \A x : /\ Client(x)' = Client(x) /\ Server(x)' = Server(x) /\ Items(x)' = Items(x)
                     /\ Parent(x)' = Parent(x) /\ Rounds(x)' = Rounds(x) /\ Edge(x)' = Edge(x)
           /\ \A q, k : ClientAt(q, k)' = ClientAt(q, k) /\ Block(q, k)' = Block(q, k)
           /\ \A x \in Pairs : /\ Tells(x)' = Tells(x) /\ Back(x)' = Back(x)
                               /\ AtClient(x)' = AtClient(x)
                               /\ Client(x) = r => AtClient(x)' = "away" /\ ~Tells(x)
                               /\ Fresh(x) => Fresh(x)'
  <1>1. SyncTypes /\ p \in Procs
    BY DEF Linked, Links, SyncTypes
  <1>2. /\ p' = p /\ net' = net /\ calls' = [calls EXCEPT ![r] = calls[r] + 1]
        /\ sync' = [sync EXCEPT ![r] = Idle] /\ Through(r)
    BY DEF Returned
  <1>3. /\ sync'[r] = Idle /\ calls'[r] = calls[r] + 1
        /\ \A q \in Members : q # r => sync'[q] = sync[q] /\ calls'[q] = calls[q]
    <2>1. sync = [q \in Members |-> sync[q]] /\ calls = [q \in Members |-> calls[q]]
      BY <1>1 DEF SyncTypes
    <2> QED  BY <1>2, <2>1
  <1>4. /\ Members' = Members /\ Pairs' = Pairs /\ Power' = Power
        /\ \A x : /\ Client(x)' = Client(x) /\ Server(x)' = Server(x) /\ Items(x)' = Items(x)
                  /\ Parent(x)' = Parent(x) /\ Rounds(x)' = Rounds(x) /\ ClientTurn(x)' = ClientTurn(x)
    BY <1>2, SamePairs
  <1>5. MinLeg' = MinLeg /\ \A x : Edge(x)' = Edge(x)
    BY <1>2, <1>4 DEF MinLeg, Edge
  <1>6. \A q, k : ClientAt(q, k)' = ClientAt(q, k) /\ Block(q, k)' = Block(q, k)
    BY <1>2, SameClientAt
  <1>7. Idle.step = 0
    BY DEF Idle
  <1>8. ASSUME NEW x \in Pairs
        PROVE  /\ Tells(x)' = Tells(x) /\ Back(x)' = Back(x)
               /\ AtClient(x)' = AtClient(x)
               /\ Client(x) = r => AtClient(x)' = "away" /\ ~Tells(x)
               /\ Fresh(x) => Fresh(x)'
    <2>1. Tells(x)' = Tells(x) /\ Back(x)' = Back(x)
      BY <1>2, SameMessages
    <2>2. Client(x) \in Members /\ ClientTurn(x) \in Nat \ {0}
      BY <1>1, PairTypes
    <2>3. CASE Client(x) = r
      <3>1. AtClient(x)' = "away"
        BY <1>3, <1>4, <1>7, <2>2, <2>3 DEF AtClient, Turn
      <3>2. AtClient(x) = "away" /\ ~Tells(x)
        BY <1>2, <2>3, ThroughAll
      <3> QED  BY <2>1, <3>1, <3>2 DEF Fresh
    <2>4. CASE Client(x) # r
      <3>1. sync'[Client(x)] = sync[Client(x)]
        BY <1>3, <2>2, <2>4
      <3>2. AtClient(x)' = AtClient(x)
        BY <1>4, <3>1 DEF AtClient, Turn
      <3> QED  BY <1>4, <1>5, <2>1, <2>4, <3>1, <3>2 DEF Fresh, Near
    <2> QED  BY <2>3, <2>4
  <1> QED  BY <1>2, <1>3, <1>4, <1>5, <1>6, <1>7, <1>8

-----------------------------------------------------------------------------
(* Leave,                                                                  *)
LEMMA ValuedLeave ==
    ASSUME Valued, NEW r \in Members, Leave(r), calls[r] < 2, calls' = [calls EXCEPT ![r] = calls[r] + 1]
    PROVE  Valued'
  <1>1. SyncTypes /\ Linked /\ p \in Procs /\ 0 \in Members
    BY ValuedFacts
  <1>2. /\ r # 0 /\ Returned(r) /\ scattered[r] # <<>>
        /\ scattered' = [scattered EXCEPT ![r] = <<>>] /\ late' = late /\ hop' = hop
    BY DEF Leave, Returned
  <1>3. Linked'
    <2>1. SyncTypes'
      <3>1. hop' \in [Members \X Members -> Int] /\ late' = [q \in Members |-> late'[q]]
        BY <1>1, <1>2 DEF SyncTypes
      <3>2. scattered' = [q \in Members |-> scattered'[q]]
        <4>1. scattered = [q \in Members |-> scattered[q]]
          BY <1>1 DEF SyncTypes
        <4> QED  BY <1>2, <4>1
      <3> QED  BY <1>1, <1>2, <3>1, <3>2, TypesReturned
    <2> QED  BY <1>1, <1>2, <2>1, LinkedReturned
  <1>4. /\ p' = p /\ sync'[r] = Idle /\ Idle.step = 0 /\ calls'[r] = calls[r] + 1
        /\ \A q \in Members : q # r => sync'[q] = sync[q] /\ calls'[q] = calls[q]
        /\ Members' = Members /\ Pairs' = Pairs /\ Power' = Power /\ MinLeg' = MinLeg
        /\ \A x : /\ Client(x)' = Client(x) /\ Server(x)' = Server(x) /\ Items(x)' = Items(x)
                  /\ Parent(x)' = Parent(x) /\ Rounds(x)' = Rounds(x) /\ Edge(x)' = Edge(x)
        /\ \A q, k : ClientAt(q, k)' = ClientAt(q, k) /\ Block(q, k)' = Block(q, k)
    BY <1>1, <1>2, ReturnedFacts
  <1>5. \A x \in Pairs : /\ Tells(x)' = Tells(x) /\ Back(x)' = Back(x)
                         /\ AtClient(x)' = AtClient(x)
                         /\ Client(x) = r => AtClient(x)' = "away" /\ ~Tells(x)
                         /\ Fresh(x) => Fresh(x)'
    BY <1>1, <1>2, ReturnedFacts
  <1>6. calls'[0] = calls[0] /\ calls[r] < calls[0] /\ ~Current(r)
    <2>1. calls'[0] = calls[0]
      BY <1>1, <1>2, <1>4
    <2>2. calls[r] < calls[0]
      BY <1>2 DEF Valued, Epochs
    <2>3. calls[r] \in Nat
      BY <1>1, LocalFacts
    <2> QED  BY <2>1, <2>2, <2>3 DEF Current
  <1>7. \A q \in Members : q # r => (Current(q)' <=> Current(q))
    BY <1>4, <1>6 DEF Current
  <1>8. ASSUME NEW x \in Pairs PROVE Fresh(x)' /\ Kept(x)' /\ Truth(x)' /\ Reported(x)'
    <2>1. Fresh(x) /\ Kept(x) /\ Truth(x) /\ Reported(x)
      BY DEF Valued
    <2>2. /\ Client(x) \in Members /\ Server(x) \in Members /\ x \in Members
      BY <1>1, PairTypes, PairParent
    <2>3. Kept(x)' /\ Truth(x)'
      <3>1. CASE Client(x) = r
        BY <1>5, <3>1 DEF Kept, Truth
      <3>2. CASE Client(x) # r
        <4>1. sync'[Client(x)] = sync[Client(x)] /\ calls'[Client(x)] = calls[Client(x)]
          BY <1>4, <2>2, <3>2
        <4>2. Current(Client(x))' <=> Current(Client(x))
          BY <1>4, <1>6, <4>1 DEF Current
        <4>3. Kept(x)'
          BY <1>2, <1>4, <1>5, <2>1, <4>1, <4>2 DEF Kept, Near
        <4>4. Truth(x)'
          <5>1. CASE Tells(x) /\ Current(Client(x))
            <6>1. Server(x) # r
              BY <1>6, <5>1, TellsAhead
            <6>2. sync'[Server(x)] = sync[Server(x)]
              BY <1>4, <2>2, <6>1
            <6> QED  BY <1>4, <1>5, <2>1, <5>1, <6>2 DEF Truth
          <5>2. CASE ~(Tells(x) /\ Current(Client(x)))
            BY <1>5, <4>2, <5>2 DEF Truth
          <5> QED  BY <5>1, <5>2
        <4> QED  BY <4>3, <4>4
      <3> QED  BY <3>1, <3>2
    <2>4. Reported(x)'
      <3>1. CASE x = r
        <4>1. x >= Power => late[x] = <<>> /\ calls[x] + 1 = calls[0]
          BY <1>6, <2>1, <3>1 DEF Reported
        <4>2. x >= Power => late'[x] = <<>> /\ Current(x)'
          BY <1>2, <1>4, <1>6, <3>1, <4>1 DEF Current
        <4> QED  BY <1>4, <4>2 DEF Reported
      <3>2. CASE x # r
        <4>1. sync'[x] = sync[x] /\ calls'[x] = calls[x] /\ (Current(x)' <=> Current(x))
          BY <1>4, <1>7, <2>2, <3>2
        <4> QED  BY <1>2, <1>4, <1>6, <2>1, <4>1 DEF Reported, Near
      <3> QED  BY <3>1, <3>2
    <2> QED  BY <1>5, <2>1, <2>3, <2>4
  <1>9. ASSUME NEW q, NEW k, ClientAt(q, k) PROVE Knows(q, k)'
    <2>1. Knows(q, k)
      BY <1>9 DEF Valued
    <2>2. q \in Members /\ k \in Nat
      <3>1. q \in 0..(Power - 1) /\ k \in 1..Rounds(q) /\ Rounds(q) \in 1..Log2
        BY <1>1, <1>9, ClientRounds DEF ClientAt
      <3>2. Power \in Nat /\ p \in Nat /\ Power <= p /\ Log2 \in Nat
        BY <1>1, SizeFacts
      <3> QED  BY <3>1, <3>2 DEF Members
    <2>3. CASE q = r
      BY <1>4, <2>2, <2>3 DEF Knows
    <2>4. CASE q # r
      <3>1. sync'[q] = sync[q] /\ (Current(q)' <=> Current(q)) /\ Slack' = Slack
        BY <1>2, <1>4, <1>7, <2>2, <2>4, SameSlack
      <3>2. ASSUME Current(q), sync[q].step > k, NEW y \in Block(q, k)
            PROVE  /\ Near(sync'[q].diffs[y], q, y, Slack'[y] - Slack'[q])
                   /\ (Current(Parent(y)))' /\ sync'[Parent(y)'].step > Rounds(y)'
        <4>1. /\ Near(sync[q].diffs[y], q, y, Slack[y] - Slack[q])
              /\ Current(Parent(y)) /\ sync[Parent(y)].step > Rounds(y)
          BY <2>1, <3>2 DEF Knows
        <4>2. Parent(y) \in Members /\ Parent(y) # r
          BY <1>1, <1>6, <1>9, <3>2, <4>1, BlockFacts
        <4>3. sync'[Parent(y)] = sync[Parent(y)] /\ calls'[Parent(y)] = calls[Parent(y)]
          BY <1>4, <4>2
        <4>4. (Current(Parent(y)))'
          BY <1>4, <1>6, <4>1, <4>3 DEF Current
        <4>5. Near(sync'[q].diffs[y], q, y, Slack'[y] - Slack'[q])
          BY <3>1, <4>1
        <4> QED  BY <1>4, <4>1, <4>3, <4>4, <4>5
      <3> QED  BY <1>4, <3>1, <3>2 DEF Knows, Near
    <2> QED  BY <2>3, <2>4
  <1>10. Root'
    BY <1>1, <1>2, <1>4 DEF Valued, Root
  <1>11. Epochs'
    <2> SUFFICES ASSUME NEW q \in Members
                 PROVE  /\ calls'[q] <= calls'[0]
                        /\ q # 0 /\ scattered'[q] # <<>> => calls'[q] < calls'[0]
      BY <1>4 DEF Epochs
    <2>1. calls[q] <= calls[0] /\ (q # 0 /\ scattered[q] # <<>> => calls[q] < calls[0])
      BY DEF Valued, Epochs
    <2>2. calls[r] \in Nat /\ calls[0] \in Nat
      BY <1>1, LocalFacts
    <2>3. scattered = [z \in Members |-> scattered[z]]
      BY <1>1 DEF SyncTypes
    <2>4. CASE q = r
      <3>1. scattered'[q] = <<>>
        BY <1>2, <2>3, <2>4
      <3> QED  BY <1>4, <1>6, <2>2, <2>4, <3>1
    <2>5. CASE q # r
      <3>1. scattered'[q] = scattered[q]
        BY <1>2, <2>3, <2>5
      <3> QED  BY <1>4, <1>6, <2>1, <2>5, <3>1
    <2> QED  BY <2>4, <2>5
  <1> QED  BY <1>3, <1>4, <1>8, <1>9, <1>10, <1>11 DEF Valued

(* and Collect: rank 0 is the first to return, and what it knew is not     *)
(* used again.                                                             *)
LEMMA ValuedCollect ==
    ASSUME Valued, Collect, calls[0] < 2, calls' = [calls EXCEPT ![0] = calls[0] + 1]
    PROVE  Valued'
  <1>1. SyncTypes /\ Linked /\ p \in Procs /\ 0 \in Members /\ p \in Nat /\ Power \in Nat /\ Power >= 2
    BY ValuedFacts, SizeFacts
  <1>2. /\ Returned(0) /\ \A x \in Power..(p - 1) : late[x] # <<>>
    BY DEF Collect, Returned
  <1>3. /\ late' = [x \in Members |-> <<>>] /\ hop' = [pair \in Members \X Members |-> 0]
        /\ \E f : scattered' = [x \in Members |-> f[x]]
    <2>1. late' = [x \in Members |-> <<>>] /\ hop' = [pair \in Members \X Members |-> 0]
      BY DEF Collect
    <2>2. PICK f : f = [x \in Members |-> IF x = 0 THEN <<>> ELSE
                     <<[z \in Members |-> IF z < Power THEN sync[0].diffs[z] ELSE Corrected(z)][x]>>]
      OBVIOUS
    <2>3. scattered' = f
      BY <2>2 DEF Collect
    <2>4. f = [x \in Members |-> f[x]]
      BY <2>2
    <2> QED  BY <2>1, <2>3, <2>4
  <1>4. Linked'
    <2>1. SyncTypes'
      <3>1. hop' \in [Members \X Members -> Int] /\ late' = [q \in Members |-> late'[q]]
            /\ scattered' = [q \in Members |-> scattered'[q]]
        BY <1>3
      <3> QED  BY <1>1, <1>2, <3>1, TypesReturned
    <2> QED  BY <1>1, <1>2, <2>1, LinkedReturned
  <1>5. /\ p' = p /\ sync'[0] = Idle /\ Idle.step = 0 /\ calls'[0] = calls[0] + 1
        /\ \A q \in Members : q # 0 => sync'[q] = sync[q] /\ calls'[q] = calls[q]
        /\ Members' = Members /\ Pairs' = Pairs /\ Power' = Power /\ MinLeg' = MinLeg
        /\ \A x : /\ Client(x)' = Client(x) /\ Server(x)' = Server(x) /\ Items(x)' = Items(x)
                  /\ Parent(x)' = Parent(x) /\ Rounds(x)' = Rounds(x) /\ Edge(x)' = Edge(x)
        /\ \A q, k : ClientAt(q, k)' = ClientAt(q, k) /\ Block(q, k)' = Block(q, k)
    BY <1>1, <1>2, ReturnedFacts
  <1>6. \A x \in Pairs : /\ Tells(x)' = Tells(x) /\ Back(x)' = Back(x)
                         /\ AtClient(x)' = AtClient(x)
                         /\ Client(x) = 0 => AtClient(x)' = "away" /\ ~Tells(x)
                         /\ Fresh(x) => Fresh(x)'
    BY <1>1, <1>2, ReturnedFacts
  <1>7. \A q \in Members : q # 0 => calls'[q] < calls'[0] /\ ~(Current(q)')
    <2> SUFFICES ASSUME NEW q \in Members, q # 0 PROVE calls'[q] < calls'[0] /\ ~(Current(q)')
      OBVIOUS
    <2>1. calls[q] <= calls[0] /\ calls[q] \in Nat /\ calls[0] \in Nat
      BY <1>1, LocalFacts DEF Valued, Epochs
    <2>2. calls'[q] = calls[q]
      BY <1>5
    <2>3. calls'[q] < calls'[0] /\ calls'[q] # calls'[0]
      BY <1>5, <2>1, <2>2
    <2> QED  BY <2>3 DEF Current
  <1>8. ASSUME NEW x \in Pairs PROVE Fresh(x)' /\ Kept(x)' /\ Truth(x)' /\ Reported(x)'
    <2>1. Fresh(x) /\ Kept(x) /\ Truth(x) /\ Reported(x)
      BY DEF Valued
    <2>2. /\ Client(x) \in Members /\ x \in Members /\ x # 0
      BY <1>1, PairTypes, PairParent
    <2>3. Kept(x)' /\ Truth(x)'
      <3>1. CASE Client(x) = 0
        BY <1>6, <3>1 DEF Kept, Truth
      <3>2. CASE Client(x) # 0
        <4>1. ~((Current(Client(x)))')
          <5>1. calls'[Client(x)] < calls'[0] /\ calls'[Client(x)] = calls[Client(x)]
            BY <1>5, <1>7, <2>2, <3>2
          <5>2. calls'[Client(x)] \in Nat /\ calls'[0] \in Nat
            BY <1>1, <1>5, <2>2, <5>1, LocalFacts
          <5>3. calls'[Client(x)] # calls'[0]
            BY <5>1, <5>2
          <5> QED  BY <1>5, <5>3 DEF Current
        <4> QED  BY <4>1 DEF Kept, Truth
      <3> QED  BY <3>1, <3>2
    <2>4. Reported(x)'
      <3>1. CASE x >= Power
        <4>1. x \in Power..(p - 1)
          BY <1>1, <2>2, <3>1 DEF Members
        <4>2. Current(x) /\ sync[x].step = 2
          BY <1>2, <2>1, <3>1, <4>1 DEF Reported
        <4>3. late'[x] = <<>> /\ sync'[x].step = 2 /\ calls'[x] + 1 = calls'[0]
          BY <1>3, <1>5, <2>2, <4>2 DEF Current
        <4> QED  BY <4>3 DEF Reported
      <3>2. CASE ~(x >= Power)
        BY <1>5, <3>2 DEF Reported
      <3> QED  BY <3>1, <3>2
    <2> QED  BY <1>6, <2>1, <2>3, <2>4
  <1>9. ASSUME NEW q, NEW k, ClientAt(q, k) PROVE Knows(q, k)'
    <2>1. q \in Members /\ k \in Nat
      <3>1. q \in 0..(Power - 1) /\ k \in 1..Rounds(q) /\ Rounds(q) \in 1..Log2
        BY <1>1, <1>9, ClientRounds DEF ClientAt
      <3>2. Power \in Nat /\ p \in Nat /\ Power <= p /\ Log2 \in Nat
        BY <1>1, SizeFacts
      <3> QED  BY <3>1, <3>2 DEF Members
    <2>2. CASE q = 0
      BY <1>5, <2>1, <2>2 DEF Knows
    <2>3. CASE q # 0
      BY <1>7, <2>1, <2>3 DEF Knows
    <2> QED  BY <2>2, <2>3
  <1>10. Root'
    BY <1>5 DEF Root
  <1>11. Epochs'
    <2>1. calls'[0] <= calls'[0]
      BY <1>1, <1>5, LocalFacts
    <2>2. \A q \in Members : q # 0 => calls'[q] <= calls'[0]
      <3> SUFFICES ASSUME NEW q \in Members, q # 0 PROVE calls'[q] <= calls'[0]
        OBVIOUS
      <3>1. calls'[q] < calls'[0] /\ calls'[q] = calls[q] /\ calls[q] \in Nat /\ calls[0] \in Nat
        BY <1>1, <1>5, <1>7, LocalFacts
      <3> QED  BY <1>5, <3>1
    <2> QED  BY <1>5, <1>7, <2>1, <2>2 DEF Epochs
  <1> QED  BY <1>4, <1>5, <1>8, <1>9, <1>10, <1>11 DEF Valued

(* What rank 0 hands out                                                   *)
LEMMA CollectRight ==
    ASSUME Valued, Collect, NEW x \in Members \ {0}
    PROVE  Near(scattered'[x][1], 0, x, Slack[x])
  <1>1. /\ SyncTypes /\ p \in Procs /\ 0 \in Members /\ p \in Nat /\ Power \in Nat /\ Power >= 2
        /\ Power <= p /\ Log2 \in Nat /\ Log2 >= 1
    BY ValuedFacts, SizeFacts
  <1>2. /\ Slack \in [Members -> Int] /\ Slack[0] = 0
        /\ \A y \in Pairs : Slack[y] = Slack[Parent(y)] + hop[Edge(y)] - 2 * MinLeg
    BY <1>1, SlackFacts DEF SyncTypes
  <1>3. Through(0) /\ sync[0].step # 0
    <2>1. Through(0)
      BY DEF Collect
    <2> QED  BY <1>1, <2>1, ThroughAll DEF Valued
  <1>4. sync[0].diffs \in [Members -> Int] /\ sync[0].diffs[0] = 0
    BY <1>1, <1>3, LocalFacts DEF Valued, Root
  <1>5. ASSUME NEW y \in 0..(Power - 1) PROVE Near(sync[0].diffs[y], 0, y, Slack[y]) /\ y \in Members
    <2>1. y \in Members
      BY <1>1 DEF Members
    <2>2. CASE y = 0
      <3>1. PICK c \in Int : c = Clock[0]
        BY <1>1, ClockTypes
      <3>2. 0 - 2 * (c - c) <= 0 /\ -(0 - 2 * (c - c)) <= 0 /\ 0 \in Int
        OBVIOUS
      <3>3. Near(0, 0, 0, 0)
        BY <1>1, <3>1, <3>2, NearIs
      <3> QED  BY <1>2, <1>4, <2>1, <2>2, <3>3
    <2>3. CASE y # 0
      <3>1. 0 \in 0..(Power - 1) /\ Rounds(0) = Log2
        <4>1. 0 \in 0..(Power - 1)
          BY <1>1
        <4> QED  BY <1>1, <4>1, ClientRounds
      <3>2. ClientAt(0, Log2)
        <4>1. 0 % Pow2[Log2] = 0
          <5>1. Pow2[Log2] \in Nat \ {0}
            BY <1>1, PowerFacts
          <5>2. 0 = Pow2[Log2] * 0
            BY <5>1
          <5> QED  BY <5>1, <5>2, MultipleIs
        <4> QED  BY <1>1, <3>1, <4>1 DEF ClientAt
      <3>3. sync[0].step > Log2
        <4>1. Sessions(0) = Log2 + (IF p - Power > 0 THEN 1 ELSE 0)
          <5>1. ~(0 >= Power)
            BY <1>1
          <5> QED  BY <3>1, <5>1 DEF Sessions
        <4>2. sync[0].step = Sessions(0) + 1
          BY <1>3 DEF Through
        <4> QED  BY <1>1, <4>1, <4>2
      <3>4. y \in Block(0, Log2)
        BY <1>1, <2>3, SizeFacts DEF Block
      <3>5. Near(sync[0].diffs[y], 0, y, Slack[y] - Slack[0])
        BY <3>2, <3>3, <3>4 DEF Valued, Knows, Current
      <3>6. Slack[y] - Slack[0] = Slack[y]
        <4>1. Slack[y] \in Int
          BY <1>2, <2>1
        <4> QED  BY <1>2, <4>1
      <3> QED  BY <2>1, <3>5, <3>6
    <2> QED  BY <2>1, <2>2, <2>3
  <1>6. scattered'[x][1] = IF x < Power THEN sync[0].diffs[x] ELSE Corrected(x)
    BY DEF Collect
  <1>7. x \in Nat /\ x < p /\ x # 0
    BY <1>1 DEF Members
  <1>8. CASE x < Power
    BY <1>1, <1>5, <1>6, <1>7, <1>8
  <1>9. CASE ~(x < Power)
    <2>1. x >= Power /\ x \in Pairs /\ x \in Power..(p - 1)
      BY <1>1, <1>7, <1>9 DEF Pairs
    <2>2. PICK y \in 0..(Power - 1) : y = Parent(x) /\ y = x - Power
      BY <1>1, <2>1, OutsideTree
    <2>3. Near(sync[0].diffs[y], 0, y, Slack[y]) /\ y \in Members
      BY <1>5
    <2>4. late[x] # <<>> /\ Reported(x)
      BY <2>1 DEF Collect, Valued
    <2>5. PICK d \in Int : late[x] = <<d>> /\ Near(d, x, y, hop[Edge(x)] - 2 * MinLeg)
      BY <2>1, <2>2, <2>4 DEF Reported
    <2>6. PICK h \in Int, m \in Int, e \in Int, b \in Int :
            h = hop[Edge(x)] /\ m = MinLeg /\ e = sync[0].diffs[y] /\ b = Slack[y]
      <3>1. hop[Edge(x)] \in Int
        BY <1>1, <2>1, PairParent DEF SyncTypes
      <3> QED  BY <1>1, <1>2, <1>4, <2>3, <3>1, FastestLeg
    <2>7. Slack[x] = b + h - 2 * m
      BY <1>2, <2>1, <2>2, <2>6
    <2>8. Near(e - d, 0, x, b + (h - 2 * m))
      <3>1. Near(e, 0, y, b) /\ Near(d, x, y, h - 2 * m) /\ h - 2 * m \in Int
        BY <2>3, <2>5, <2>6
      <3> QED  BY <1>1, <2>3, <3>1, NearAdd
    <2>9. b + (h - 2 * m) = Slack[x]
      BY <2>7
    <2>10. scattered'[x][1] = e - d
      <3>1. late[x][1] = d
        BY <2>5
      <3> QED  BY <1>6, <1>9, <2>2, <2>6, <3>1 DEF Corrected
    <2> QED  BY <2>8, <2>9, <2>10
  <1> QED  BY <1>8, <1>9

-----------------------------------------------------------------------------
(* Valued holds at the start.                                              *)
LEMMA ValuedInit ==
    ASSUME SyncInit, calls = [r \in Members |-> 0]
    PROVE  Valued
  <1>1. Linked
    BY LinkedInit
  <1>2. SyncTypes /\ p \in Procs /\ 0 \in Members
    <2>1. p \in Procs
      BY DEF SyncInit
    <2> QED  BY <1>1, <2>1, ZeroMember DEF Linked, Links
  <1>3. \A r \in Members : sync[r].step = 0 /\ late[r] = <<>> /\ scattered[r] = <<>> /\ calls[r] = 0 /\ Current(r)
    BY <1>2 DEF SyncInit, Idle, Current
  <1>4. ASSUME NEW x \in Pairs PROVE Fresh(x) /\ Kept(x) /\ Truth(x) /\ Reported(x)
    <2>1. /\ Client(x) \in Members /\ Server(x) \in Members /\ x \in Members /\ ClientTurn(x) \in Nat \ {0}
          /\ <<Server(x), Client(x)>> \in Members \X Members
      BY <1>2, PairTypes, PairParent
    <2>2. AtClient(x) = "away"
      BY <1>3, <2>1 DEF AtClient, Turn
    <2>3. Back(x) = <<>>
      BY <2>1 DEF SyncInit, Back, Message
    <2> QED  BY <1>3, <2>1, <2>2, <2>3 DEF Fresh, Kept, Truth, Tells, Reported
  <1>5. ASSUME NEW q, NEW k, ClientAt(q, k) PROVE Knows(q, k)
    <2>1. q \in Members /\ k \in Nat
      <3>1. q \in 0..(Power - 1) /\ k \in 1..Rounds(q) /\ Rounds(q) \in 1..Log2
        BY <1>2, <1>5, ClientRounds DEF ClientAt
      <3>2. Power \in Nat /\ p \in Nat /\ Power <= p /\ Log2 \in Nat
        BY <1>2, SizeFacts
      <3> QED  BY <3>1, <3>2 DEF Members
    <2> QED  BY <1>3, <2>1 DEF Knows
  <1>6. Epochs /\ Root
    BY <1>2, <1>3 DEF Epochs, Root
  <1> QED  BY <1>1, <1>4, <1>5, <1>6 DEF Valued

(* The threads of the tracer leave it alone.                               *)
LEMMA ValuedStutter ==
    ASSUME Valued, UNCHANGED <<syncVars, calls>>
    PROVE  Valued'
  <1>1. /\ p' = p /\ sync' = sync /\ net' = net /\ late' = late /\ scattered' = scattered
        /\ hop' = hop /\ calls' = calls
    BY DEF syncVars
  <1>2. /\ Members' = Members /\ Pairs' = Pairs /\ Power' = Power /\ MinLeg' = MinLeg /\ Slack' = Slack
        /\ \A x : /\ Client(x)' = Client(x) /\ Server(x)' = Server(x) /\ Items(x)' = Items(x)
                  /\ ClientTurn(x)' = ClientTurn(x) /\ ServerTurn(x)' = ServerTurn(x)
                  /\ Parent(x)' = Parent(x) /\ Rounds(x)' = Rounds(x)
        /\ \A q, k : ClientAt(q, k)' = ClientAt(q, k) /\ Block(q, k)' = Block(q, k)
    BY <1>1, SamePairs, SameClientAt, SameSlack DEF MinLeg
  <1>3. \A x : Edge(x)' = Edge(x)
    BY <1>2 DEF Edge
  <1>4. SyncTypes'
    <2>1. LocalVars' = LocalVars
      BY <1>2 DEF LocalVars
    <2> QED  BY <1>1, <1>2, <2>1 DEF Valued, Linked, Links, SyncTypes
  <1>5. \A x : /\ AtClient(x)' = AtClient(x) /\ AtServer(x)' = AtServer(x) /\ Ahead(x)' = Ahead(x)
               /\ Forth(x)' = Forth(x) /\ Back(x)' = Back(x)
    BY <1>1, <1>2 DEF AtClient, AtServer, Ahead, Forth, Back, Turn, Done, Message
  <1>6. \A x : /\ Shaken(x)' = Shaken(x) /\ Tells(x)' = Tells(x)
    BY <1>2, <1>5 DEF Shaken, Shake, Tells
  <1>7. \A x : Carries(x)' = Carries(x)
    BY <1>2, <1>5, <1>6 DEF Carries
  <1>8. Silent'
    BY <1>1, <1>2 DEF Valued, Linked, Links, Silent, Strangers
  <1>9. Linked'
    BY <1>2, <1>4, <1>6, <1>7, <1>8 DEF Valued, Linked, Links
  <1>10. \A x : Fresh(x)' = Fresh(x)
    BY <1>1, <1>2, <1>5 DEF Fresh, Near
  <1>11. \A x : Kept(x)' = Kept(x)
    BY <1>1, <1>2, <1>5 DEF Kept, Near, Current
  <1>12. \A x : Truth(x)' = Truth(x)
    BY <1>1, <1>2, <1>5, <1>6 DEF Truth, Current
  <1>13. \A x : Reported(x)' = Reported(x)
    BY <1>1, <1>2, <1>3 DEF Reported, Near, Current
  <1>14. \A q, k : Knows(q, k)' = Knows(q, k)
    BY <1>1, <1>2 DEF Knows, Near, Current
  <1>15. Epochs' /\ Root'
    BY <1>1, <1>2 DEF Valued, Epochs, Root
  <1> QED  BY <1>2, <1>9, <1>10, <1>11, <1>12, <1>13, <1>14, <1>15 DEF Valued

-----------------------------------------------------------------------------
\* What DiffsRight asks of a step.
RightStep ==
    Through(0) /\ sync'[0] = Idle =>
      \A x \in Members \ {0} : Abs(scattered'[x][1] - 2 * (Clock[0] - Clock[x])) <= Slack[x]

(* A step inside is not rank 0's return.                                   *)
LEMMA AdvanceRight ==
    ASSUME SyncTypes, NEW r \in Members, NEW v, Advance(r, v)
    PROVE  sync[0].step # 0 => sync'[0] # Idle
  <1>1. 0 \in Members /\ p \in Procs /\ Idle.step = 0
    BY ZeroMember DEF SyncTypes, Idle
  <1>2. sync'[r] = v /\ \A q \in Members : q # r => sync'[q] = sync[q]
    BY AdvanceLocal
  <1>3. CASE r # 0
    BY <1>1, <1>2, <1>3
  <1>4. CASE r = 0
    <2>1. PICK n \in Nat : n = sync[0].step
      BY <1>1, LocalFacts
    <2>2. v.step = n \/ v.step = n + 1
      BY <1>4, <2>1 DEF Advance
    <2>3. n # 0 => v.step # 0
      BY <2>1, <2>2
    <2> QED  BY <1>1, <1>2, <1>4, <2>1, <2>3
  <1> QED  BY <1>3, <1>4

(* Every action of the synchronisation but the returns is a step inside.   *)
LEMMA StepAdvances ==
    ASSUME Valued, NEW r \in Members, Enter(r) \/ SyncStep(r), calls' = calls
    PROVE  \E v : Advance(r, v)
  <1>1. SyncTypes /\ Linked /\ Links /\ p \in Procs
    BY ValuedFacts
  <1>2. CASE Enter(r)
    BY <1>1, <1>2, EnterEffect
  <1>3. CASE Ping(r)
    BY <1>1, <1>3, PingEffect
  <1>4. CASE Merge(r)
    <2>1. \A x \in Pairs : \A i \in 1..Items(x) :
             AsClient(r, x) /\ sync[r].phase = "merging" /\ Back(x) # <<>> /\ Head(Back(x)).kind = "data" =>
               Head(Back(x)).data[i] \in Int
      BY <1>1 DEF Linked, Carries, Tells
    <2>2. \E x \in Pairs, t \in LocalVars : Advance(r, NextSession(t))
      BY <1>1, <1>4, <2>1, MergeEffect
    <2> QED  BY <2>2
  <1>5. CASE Serve(r)
    BY <1>1, <1>5, ServeEffect
  <1>6. CASE \E there, back \in Legs[p] : Pong(r, there, back) \/ Abort(r, there, back)
    <2>1. PICK there \in Legs[p], back \in Legs[p] : Pong(r, there, back) \/ Abort(r, there, back)
      BY <1>6
    <2>2. CASE Pong(r, there, back)
      BY <1>1, <2>2, PongEffect
    <2>3. CASE Abort(r, there, back)
      BY <1>1, <2>3, AbortEffect
    <2> QED  BY <2>1, <2>2, <2>3
  <1> QED  BY <1>2, <1>3, <1>4, <1>5, <1>6 DEF SyncStep

(* The steps inside keep Valued,                                           *)
LEMMA ValuedInside ==
    ASSUME Valued, NEW r \in Members, Enter(r) \/ SyncStep(r), calls' = calls
    PROVE  Valued'
  <1>1. CASE \E there, back \in Legs[p] : Pong(r, there, back) \/ Abort(r, there, back)
    <2>1. PICK there \in Legs[p], back \in Legs[p] : Pong(r, there, back) \/ Abort(r, there, back)
      BY <1>1
    <2> QED  BY <2>1, ValuedPong, ValuedAbort
  <1>2. CASE Enter(r) \/ Ping(r) \/ Merge(r) \/ Serve(r)
    BY <1>2, ValuedEnter, ValuedPing, ValuedMerge, ValuedServe
  <1> QED  BY <1>1, <1>2 DEF SyncStep

(* and so do the returns.                                                  *)
LEMMA ValuedReturn ==
    ASSUME Valued, NEW r \in Members, Return(r), calls[r] < 2, calls' = [calls EXCEPT ![r] = calls[r] + 1]
    PROVE  Valued'
  <1>1. CASE r = 0
    BY <1>1, ValuedCollect DEF Return
  <1>2. CASE r # 0
    BY <1>2, ValuedLeave DEF Return
  <1> QED  BY <1>1, <1>2

(* A return hands out right differences.                                   *)
LEMMA RightReturn ==
    ASSUME Valued, NEW r \in Members, Return(r)
    PROVE  RightStep
  <1>1. SyncTypes /\ 0 \in Members /\ Linked
    BY ValuedFacts
  <1>2. CASE r = 0
    <2>1. Collect
      BY <1>2 DEF Return
    <2> QED  BY <2>1, CollectRight DEF RightStep, Near
  <1>3. CASE r # 0
    <2>1. sync' = [sync EXCEPT ![r] = Idle]
      BY <1>3 DEF Return, Leave
    <2>2. sync'[0] = sync[0]
      BY <1>1, <1>3, <2>1 DEF SyncTypes
    <2>3. Through(0) => sync[0].step # 0
      BY <1>1, ThroughAll
    <2>4. Idle.step = 0
      BY DEF Idle
    <2> QED  BY <2>2, <2>3, <2>4 DEF RightStep
  <1> QED  BY <1>2, <1>3

(* A step of the tracer: one of the synchronisation, a return from it, or  *)
(* one that leaves it alone.                                               *)
LEMMA ValuedNext ==
    ASSUME Valued, [Next]_vars
    PROVE  Valued' /\ RightStep
  <1>1. SyncTypes /\ 0 \in Members /\ Linked
    BY ValuedFacts
  <1>2. ASSUME UNCHANGED <<syncVars, calls>> PROVE Valued' /\ RightStep
    <2>1. sync' = sync
      BY <1>2 DEF syncVars
    <2>2. Through(0) => sync[0].step # 0
      BY <1>1, ThroughAll
    <2>3. Idle.step = 0
      BY DEF Idle
    <2> QED  BY <1>2, <2>1, <2>2, <2>3, ValuedStutter DEF RightStep
  <1>3. ASSUME NEW r \in Members, Enter(r) \/ SyncStep(r), calls' = calls PROVE Valued' /\ RightStep
    <2>1. \E v : Advance(r, v)
      BY <1>3, StepAdvances
    <2>2. Through(0) => sync[0].step # 0
      BY <1>1, ThroughAll
    <2>3. sync[0].step # 0 => sync'[0] # Idle
      BY <1>1, <2>1, AdvanceRight
    <2> QED  BY <1>3, <2>2, <2>3, ValuedInside DEF RightStep
  <1>4. ASSUME NEW r \in Members, Return(r), calls[r] < 2, calls' = [calls EXCEPT ![r] = calls[r] + 1]
        PROVE  Valued' /\ RightStep
    BY <1>4, ValuedReturn, RightReturn
  <1>5. CASE UserStep
    <2>1. UNCHANGED <<syncVars, calls>>
      BY <1>5 DEF UserStep, LogRecord, Swapped, WriteBuf, Finalized, Close
    <2> QED  BY <1>2, <2>1
  <1>6. CASE WriterStep
    <2>1. UNCHANGED <<syncVars, calls>>
      BY <1>6 DEF WriterStep, Swap, WriteOld, ClearOld, Exit
    <2> QED  BY <1>2, <2>1
  <1>7. CASE \E r \in Members : RankStep(r)
    <2>1. PICK r \in Members : RankStep(r)
      BY <1>7
    <2>2. CASE Synchronise(r)
      BY <1>3, <2>2 DEF Synchronise
    <2>3. CASE SyncOnly(r)
      BY <1>3, <2>3 DEF SyncOnly
    <2>4. CASE Initialized(r)
      <3>1. Return(r) /\ calls[r] = 0 /\ calls' = [calls EXCEPT ![r] = 1]
        BY <2>4 DEF Initialized
      <3>2. calls[r] < 2 /\ calls[r] + 1 = 1
        BY <3>1
      <3>3. calls' = [calls EXCEPT ![r] = calls[r] + 1]
        BY <3>1, <3>2, Zenon
      <3> QED  BY <1>4, <3>1, <3>2, <3>3
    <2>5. CASE Finalize(r)
      <3>1. Return(r) /\ calls[r] = 1 /\ calls' = [calls EXCEPT ![r] = 2]
        BY <2>5 DEF Finalize
      <3>2. calls[r] < 2 /\ calls[r] + 1 = 2
        BY <3>1
      <3>3. calls' = [calls EXCEPT ![r] = calls[r] + 1]
        BY <3>1, <3>2, Zenon
      <3> QED  BY <1>4, <3>1, <3>2, <3>3
    <2> QED  BY <2>1, <2>2, <2>3, <2>4, <2>5 DEF RankStep
  <1>8. CASE Terminated \/ UNCHANGED vars
    <2>1. UNCHANGED <<syncVars, calls>>
      BY <1>8 DEF Terminated, vars
    <2> QED  BY <1>2, <2>1
  <1> QED  BY <1>5, <1>6, <1>7, <1>8 DEF Next

-----------------------------------------------------------------------------
(* The user thread and the writer                                          *)

Types ==
    /\ p \in Procs /\ Logged \in Members
    /\ sync = [r \in Members |-> sync[r]]
    /\ calls \in [Members -> 0..2]
    /\ buf \in [1..2 -> Seq(Nat)] /\ used \in [1..2 -> Nat]
    /\ curbuf \in 1..2 /\ logged \in Nat /\ file \in Seq(Nat)

Working == {"wait", "write", "clear"}

(* What the semaphores hold in each state of the two threads.               *)
Handshake ==
    \/ /\ user = "init" /\ writer = "none" /\ calls[Logged] = 0
       /\ threadsem = 0 /\ usersem = 0 /\ exitflag = FALSE
       /\ file = <<>> /\ logged = 1 /\ buf[curbuf] = <<1>>
    \/ /\ user = "run" /\ writer \in Working /\ calls[Logged] = 1
       /\ threadsem = 0 /\ usersem = 0 /\ exitflag = FALSE
    \/ /\ user = "swapping" /\ writer \in Working /\ calls[Logged] = 1
       /\ exitflag = FALSE
       /\ \/ threadsem = 1 /\ usersem = 0
          \/ threadsem = 0 /\ usersem = 1 /\ used[curbuf] = 0
    \/ /\ user = "ending" /\ calls[Logged] = 2 /\ exitflag = TRUE
       /\ \/ writer \in Working /\ threadsem = 1 /\ usersem = 0
          \/ writer = "exited" /\ threadsem = 0 /\ usersem = 1
    \/ /\ user = "closing" /\ writer = "exited" /\ calls[Logged] = 2
       /\ threadsem = 0 /\ usersem = 0 /\ exitflag = TRUE
       /\ buf[curbuf] = <<>> /\ used[curbuf] = 0
    \/ /\ user = "closed" /\ writer = "exited" /\ calls[Logged] = 2
       /\ threadsem = 0 /\ usersem = 0 /\ exitflag = TRUE

(* A writer at rest has left the spare buffer empty.                        *)
SpareEmpty ==
    writer \in {"none", "wait"} => buf[Other(curbuf)] = <<>> /\ used[Other(curbuf)] = 0

(* check() leaves room for the line of MPI_Finalize.                        *)
Room ==
    /\ \A b \in 1..2 : used[b] <= BufSize
    /\ user \in {"init", "run", "swapping"} =>
         \A b \in 1..2 : used[b] <= BufSize - Threshold + MaxSize

(* The user thread logs nothing while its rank synchronises.                *)
Quiet ==
    calls[Logged] = 1 /\ sync[Logged].step # 0 =>
      user = "run" /\ logged > MaxRecords[p]

IInv == Types /\ Handshake /\ SpareEmpty /\ Room /\ Quiet /\ FileFaithful

-----------------------------------------------------------------------------
(* Lines and sequences of them                                              *)

LEMMA LinesGrow ==
    ASSUME NEW n \in Nat
    PROVE  /\ Lines(n) \in Seq(Nat) /\ Lines(n + 1) = Append(Lines(n), n + 1)
  <1>1. Lines(n) \in Seq(Nat) /\ Len(Lines(n)) = n + 1
    <2>1. \A i \in 1..(n + 1) : i - 1 \in Nat
      OBVIOUS
    <2>2. Lines(n) \in Seq(Nat)
      BY <2>1, IsASeq DEF Lines
    <2>3. DOMAIN Lines(n) = 1..(n + 1)
      BY DEF Lines
    <2> QED  BY <2>2, <2>3, LenProperties
  <1>2. Lines(n + 1) \in Seq(Nat) /\ Len(Lines(n + 1)) = n + 2
    <2>1. \A i \in 1..(n + 1 + 1) : i - 1 \in Nat
      OBVIOUS
    <2>2. Lines(n + 1) \in Seq(Nat)
      BY <2>1, IsASeq DEF Lines
    <2>3. DOMAIN Lines(n + 1) = 1..(n + 1 + 1)
      BY DEF Lines
    <2> QED  BY <2>2, <2>3, LenProperties
  <1>3. /\ Append(Lines(n), n + 1) \in Seq(Nat)
        /\ Len(Append(Lines(n), n + 1)) = n + 2
        /\ \A i \in 1..(n + 1) : Append(Lines(n), n + 1)[i] = Lines(n)[i]
        /\ Append(Lines(n), n + 1)[n + 2] = n + 1
    BY <1>1, AppendProperties
  <1>4. \A i \in 1..(n + 2) : Lines(n + 1)[i] = Append(Lines(n), n + 1)[i]
    <2> SUFFICES ASSUME NEW i \in 1..(n + 2)
                 PROVE  Lines(n + 1)[i] = Append(Lines(n), n + 1)[i]
      OBVIOUS
    <2>1. Lines(n + 1)[i] = i - 1
      BY DEF Lines
    <2>2. CASE i \in 1..(n + 1)
      <3>1. Lines(n)[i] = i - 1
        BY <2>2 DEF Lines
      <3>2. Append(Lines(n), n + 1)[i] = Lines(n)[i]
        BY <1>3, <2>2
      <3> QED  BY <2>1, <3>1, <3>2
    <2>3. CASE i = n + 2
      <3>1. i - 1 = n + 1
        BY <2>3
      <3>2. Append(Lines(n), n + 1)[i] = n + 1
        BY <1>3, <2>3
      <3> QED  BY <2>1, <3>1, <3>2
    <2>4. i \in 1..(n + 1) \/ i = n + 2
      OBVIOUS
    <2> QED  BY <2>2, <2>3, <2>4
  <1> QED  BY <1>1, <1>2, <1>3, <1>4, SeqEqual

LEMMA AppendLast ==
    ASSUME NEW s \in Seq(Nat), NEW t \in Seq(Nat), NEW x \in Nat
    PROVE  s \o Append(t, x) = Append(s \o t, x)
  <1>1. Append(t, x) = t \o <<x>> /\ <<x>> \in Seq(Nat)
    BY AppendIsConcat
  <1>2. s \o t \in Seq(Nat)
    BY ConcatProperties
  <1>3. Append(s \o t, x) = (s \o t) \o <<x>>
    BY <1>2, AppendIsConcat
  <1> QED  BY <1>1, <1>3, ConcatAssociative

-----------------------------------------------------------------------------
(* The synchronisation, as far as the two threads see it                    *)

LEMMA TwoBuffers ==
    ASSUME Types
    PROVE  /\ Other(curbuf) \in 1..2 /\ Other(curbuf) # curbuf
           /\ \A b \in 1..2 : b = curbuf \/ b = Other(curbuf)
           /\ Other(Other(curbuf)) = curbuf
           /\ buf[curbuf] \in Seq(Nat) /\ buf[Other(curbuf)] \in Seq(Nat)
           /\ used[curbuf] \in Nat /\ used[Other(curbuf)] \in Nat
           /\ MaxRecords[p] \in Nat
  BY TracingAssumption DEF Types, Other

(* A rank that comes through the synchronisation is in it.                  *)
LEMMA ThroughIsInside ==
    ASSUME Types, NEW r \in Members, Through(r)
    PROVE  sync[r].step # 0
  <1>1. Sessions(r) \in Nat \ {0}
    BY SessionsCount DEF Types
  <1> QED  BY <1>1 DEF Through

(* What another step of the synchronisation leaves alone.                   *)
LEMMA SyncSteps ==
    ASSUME Types, NEW r \in Members, SyncStep(r)
    PROVE  /\ p' = p /\ sync' = [x \in Members |-> sync'[x]]
           /\ sync'[Logged].step # 0 => sync[Logged].step # 0
  <1>1. Logged \in Members /\ sync = [x \in Members |-> sync[x]]
    BY DEF Types
  <1>2. /\ p' = p /\ sync[r].step # 0
        /\ sync' = sync \/ \E v : sync' = [sync EXCEPT ![r] = v]
    <2>1. ASSUME InSession(r) PROVE sync[r].step # 0
      BY <2>1 DEF InSession
    <2>2. CASE Ping(r)
      <3>1. p' = p /\ InSession(r) /\ sync' = [sync EXCEPT ![r] = [sync[r] EXCEPT !.phase = "waiting"]]
        BY <2>2 DEF Ping
      <3> QED  BY <2>1, <3>1
    <2>3. CASE Merge(r)
      <3>1. p' = p /\ InSession(r) /\ \E v : sync' = [sync EXCEPT ![r] = v]
        BY <2>3 DEF Merge
      <3> QED  BY <2>1, <3>1
    <2>4. CASE Serve(r)
      <3>1. p' = p /\ InSession(r) /\ (sync' = sync \/ \E v : sync' = [sync EXCEPT ![r] = v])
        BY <2>4 DEF Serve
      <3> QED  BY <2>1, <3>1
    <2>5. ASSUME NEW there, NEW back, Pong(r, there, back)
          PROVE  p' = p /\ InSession(r) /\ \E v : sync' = [sync EXCEPT ![r] = v]
      BY <2>5 DEF Pong
    <2>6. ASSUME NEW there, NEW back, Abort(r, there, back)
          PROVE  p' = p /\ InSession(r) /\ \E v : sync' = [sync EXCEPT ![r] = v]
      BY <2>6 DEF Abort
    <2> QED  BY <2>1, <2>2, <2>3, <2>4, <2>5, <2>6 DEF SyncStep
  <1>3. \A v : [sync EXCEPT ![r] = v] = [x \in Members |-> IF x = r THEN v ELSE sync[x]]
    BY <1>1
  <1> QED  BY <1>1, <1>2, <1>3

-----------------------------------------------------------------------------
(* The file after a line is appended or a buffer is cleared                 *)

(* The record of one more line goes to the end of what is pending.          *)
LEMMA Appended ==
    ASSUME Types, NEW size \in Nat, AppendLine(size)
    PROVE  /\ buf' \in [1..2 -> Seq(Nat)] /\ used' \in [1..2 -> Nat] /\ logged' \in Nat
           /\ logged' = logged + 1
           /\ buf'[curbuf] = Append(buf[curbuf], logged + 1)
           /\ buf'[Other(curbuf)] = buf[Other(curbuf)]
           /\ used'[curbuf] = used[curbuf] + size
           /\ used'[Other(curbuf)] = used[Other(curbuf)]
  <1>1. /\ buf' = [buf EXCEPT ![curbuf] = Append(buf[curbuf], logged + 1)]
        /\ used' = [used EXCEPT ![curbuf] = used[curbuf] + size]
        /\ logged' = logged + 1
    BY DEF AppendLine
  <1>2. /\ Other(curbuf) \in 1..2 /\ Other(curbuf) # curbuf /\ curbuf \in 1..2
        /\ buf[curbuf] \in Seq(Nat) /\ used[curbuf] \in Nat /\ logged \in Nat
    BY TwoBuffers DEF Types
  <1>3. Append(buf[curbuf], logged + 1) \in Seq(Nat)
    BY <1>2, AppendProperties
  <1>4. used[curbuf] + size \in Nat /\ logged + 1 \in Nat
    BY <1>2
  <1> QED  BY <1>1, <1>2, <1>3, <1>4 DEF Types

LEMMA FileAppended ==
    ASSUME Types, FileFaithful, user # "init", NEW size \in Nat, AppendLine(size),
           curbuf' = curbuf, writer' = writer, file' = file, writer # "exited"
    PROVE  FileFaithful'
  <1>1. /\ buf'[curbuf] = Append(buf[curbuf], logged + 1)
        /\ buf'[Other(curbuf)] = buf[Other(curbuf)] /\ logged' = logged + 1
    BY Appended
  <1>2. /\ file \in Seq(Nat) /\ buf[curbuf] \in Seq(Nat) /\ logged + 1 \in Nat
        /\ buf[Other(curbuf)] \in Seq(Nat) /\ logged \in Nat
    BY TwoBuffers DEF Types
  <1>3. buf[Other(curbuf)] \o buf[curbuf] \in Seq(Nat)
    BY <1>2, ConcatProperties
  <1>4. Pending' = Append(Pending, logged + 1) /\ Pending \in Seq(Nat)
    <2>1. CASE writer = "write"
      <3>1. Pending = buf[Other(curbuf)] \o buf[curbuf]
        BY <2>1 DEF Pending
      <3>2. Pending' = buf[Other(curbuf)] \o Append(buf[curbuf], logged + 1)
        BY <1>1, <2>1 DEF Pending, Other
      <3> QED  BY <1>2, <1>3, <3>1, <3>2, AppendLast
    <2>2. CASE writer # "write"
      <3>1. Pending = buf[curbuf] /\ Pending' = buf'[curbuf]
        BY <2>2 DEF Pending
      <3> QED  BY <1>1, <1>2, <3>1
    <2> QED  BY <2>1, <2>2
  <1>5. file' \o Pending' = Append(file \o Pending, logged + 1)
    BY <1>2, <1>4, AppendLast
  <1>6. file \o Pending = Lines(logged)
    BY DEF FileFaithful
  <1>7. Lines(logged') = Append(Lines(logged), logged + 1)
    BY <1>1, <1>2, LinesGrow
  <1> QED  BY <1>5, <1>6, <1>7 DEF FileFaithful, Lines

(* Clearing a buffer that is not pending.                                   *)
LEMMA Cleared ==
    ASSUME Types, NEW b \in 1..2, Reset(b)
    PROVE  /\ buf' \in [1..2 -> Seq(Nat)] /\ used' \in [1..2 -> Nat]
           /\ buf'[b] = <<>> /\ used'[b] = 0
           /\ \A c \in 1..2 : c # b => buf'[c] = buf[c] /\ used'[c] = used[c]
  <1>1. <<>> \in Seq(Nat)
    BY EmptySeq
  <1> QED  BY <1>1 DEF Reset, Types

-----------------------------------------------------------------------------
(* The user thread                                                          *)

LEMMA LogRecordStep ==
    ASSUME IInv, NEW size \in 1..MaxSize, LogRecord(size)
    PROVE  IInv'
  <1>1. /\ user = "run" /\ logged <= MaxRecords[p] /\ ~NearlyFull /\ AppendLine(size)
        /\ UNCHANGED <<p, sync, calls, curbuf, threadsem, usersem, exitflag>>
        /\ UNCHANGED <<user, writer, file>>
        /\ Types /\ size \in Nat /\ size <= MaxSize
    BY TracingAssumption DEF LogRecord, syncVars, semVars, threadVars, IInv
  <1>2. /\ buf' \in [1..2 -> Seq(Nat)] /\ used' \in [1..2 -> Nat] /\ logged' \in Nat
        /\ logged' = logged + 1
        /\ buf'[Other(curbuf)] = buf[Other(curbuf)]
        /\ used'[curbuf] = used[curbuf] + size
        /\ used'[Other(curbuf)] = used[Other(curbuf)]
    BY <1>1, Appended
  <1>3. /\ \A b \in 1..2 : b = curbuf \/ b = Other(curbuf)
        /\ used[curbuf] \in Nat /\ MaxRecords[p] \in Nat /\ logged \in Nat
        /\ Other(curbuf) \in 1..2
    BY <1>1, TwoBuffers DEF Types
  <1>4. Types'
    BY <1>1, <1>2 DEF Types, Members
  <1>5. Handshake'
    BY <1>1 DEF IInv, Handshake
  <1>6. SpareEmpty'
    BY <1>1, <1>2 DEF IInv, SpareEmpty, Other
  <1>7. Room'
    <2>1. used'[curbuf] <= BufSize - Threshold + MaxSize
      BY <1>1, <1>2, <1>3, TracingAssumption DEF NearlyFull
    <2>2. used'[Other(curbuf)] <= BufSize - Threshold + MaxSize
      BY <1>1, <1>2, <1>3 DEF IInv, Room
    <2>3. ASSUME NEW b \in 1..2 PROVE used'[b] <= BufSize - Threshold + MaxSize
      BY <1>3, <2>1, <2>2
    <2>4. ASSUME NEW b \in 1..2 PROVE used'[b] <= BufSize
      <3>1. used'[b] \in Nat
        BY <1>2
      <3> QED  BY <2>3, <3>1, TracingAssumption
    <2> QED  BY <2>3, <2>4 DEF Room
  <1>8. Quiet'
    BY <1>1, <1>3 DEF IInv, Quiet
  <1>9. FileFaithful'
    <2>1. writer # "exited"
      BY <1>1 DEF IInv, Handshake, Working
    <2> QED  BY <1>1, <2>1, FileAppended DEF IInv
  <1> QED  BY <1>4, <1>5, <1>6, <1>7, <1>8, <1>9 DEF IInv

LEMMA WriteBufStep ==
    ASSUME IInv, WriteBuf
    PROVE  IInv'
  <1>1. /\ user = "run" /\ threadsem' = threadsem + 1 /\ user' = "swapping"
        /\ logged <= MaxRecords[p]
        /\ UNCHANGED <<p, sync, calls, buf, used, curbuf, logged>>
        /\ UNCHANGED <<usersem, exitflag, writer, file>>
        /\ Types /\ MaxRecords[p] \in Nat /\ logged \in Nat
    BY TwoBuffers DEF WriteBuf, syncVars, bufferVars, IInv, Types
  <1>2. Types'
    BY <1>1 DEF Types, Members
  <1>3. Handshake'
    BY <1>1 DEF IInv, Handshake
  <1>4. SpareEmpty' /\ Room'
    BY <1>1 DEF IInv, SpareEmpty, Other, Room
  <1>5. Quiet'
    BY <1>1 DEF IInv, Quiet
  <1>6. FileFaithful'
    BY <1>1 DEF IInv, FileFaithful, Pending, Lines, Other
  <1> QED  BY <1>2, <1>3, <1>4, <1>5, <1>6 DEF IInv

LEMMA SwappedStep ==
    ASSUME IInv, NEW size \in 1..MaxSize, Swapped(size)
    PROVE  IInv'
  <1>1. /\ user = "swapping" /\ usersem > 0 /\ usersem' = usersem - 1 /\ user' = "run"
        /\ AppendLine(size)
        /\ UNCHANGED <<p, sync, calls, curbuf, threadsem, exitflag, writer, file>>
        /\ Types /\ size \in Nat /\ size <= MaxSize
    BY TracingAssumption DEF Swapped, syncVars, IInv
  <1>2. /\ buf' \in [1..2 -> Seq(Nat)] /\ used' \in [1..2 -> Nat] /\ logged' \in Nat
        /\ logged' = logged + 1
        /\ buf'[Other(curbuf)] = buf[Other(curbuf)]
        /\ used'[curbuf] = used[curbuf] + size
        /\ used'[Other(curbuf)] = used[Other(curbuf)]
    BY <1>1, Appended
  <1>3. /\ \A b \in 1..2 : b = curbuf \/ b = Other(curbuf)
        /\ used[curbuf] \in Nat /\ logged \in Nat /\ Other(curbuf) \in 1..2
    BY <1>1, TwoBuffers DEF Types
  <1>4. /\ writer \in Working /\ calls[Logged] = 1 /\ exitflag = FALSE
        /\ threadsem = 0 /\ usersem = 1 /\ used[curbuf] = 0
    BY <1>1 DEF IInv, Handshake
  <1>5. Types'
    BY <1>1, <1>2 DEF Types, Members
  <1>6. Handshake'
    BY <1>1, <1>4 DEF Handshake
  <1>7. SpareEmpty'
    BY <1>1, <1>2 DEF IInv, SpareEmpty, Other
  <1>8. Room'
    <2>1. used'[curbuf] <= BufSize - Threshold + MaxSize
      BY <1>1, <1>2, <1>4, TracingAssumption
    <2>2. used'[Other(curbuf)] <= BufSize - Threshold + MaxSize
      BY <1>1, <1>2, <1>3 DEF IInv, Room
    <2>3. ASSUME NEW b \in 1..2 PROVE used'[b] <= BufSize - Threshold + MaxSize
      BY <1>3, <2>1, <2>2
    <2>4. ASSUME NEW b \in 1..2 PROVE used'[b] <= BufSize
      <3>1. used'[b] \in Nat
        BY <1>2
      <3> QED  BY <2>3, <3>1, TracingAssumption
    <2> QED  BY <2>3, <2>4 DEF Room
  <1>9. Quiet'
    BY <1>1 DEF IInv, Quiet
  <1>10. FileFaithful'
    <2>1. writer # "exited" /\ user # "init"
      BY <1>1, <1>4 DEF Working
    <2> QED  BY <1>1, <2>1, FileAppended DEF IInv
  <1> QED  BY <1>5, <1>6, <1>7, <1>8, <1>9, <1>10 DEF IInv

LEMMA FinalizedStep ==
    ASSUME IInv, Finalized
    PROVE  IInv'
  <1>1. /\ user = "ending" /\ usersem > 0 /\ usersem' = usersem - 1 /\ user' = "closing"
        /\ Reset(curbuf) /\ curbuf \in 1..2
        /\ UNCHANGED <<p, sync, calls, curbuf, logged, threadsem, exitflag, writer, file>>
        /\ Types
    BY DEF Finalized, syncVars, IInv, Types
  <1>2. /\ writer = "exited" /\ calls[Logged] = 2 /\ exitflag = TRUE
        /\ threadsem = 0 /\ usersem = 1
    BY <1>1 DEF IInv, Handshake
  <1>3. /\ buf' \in [1..2 -> Seq(Nat)] /\ used' \in [1..2 -> Nat]
        /\ buf'[curbuf] = <<>> /\ used'[curbuf] = 0
        /\ \A c \in 1..2 : c # curbuf => buf'[c] = buf[c] /\ used'[c] = used[c]
    BY <1>1, Cleared
  <1>4. Types'
    BY <1>1, <1>3 DEF Types, Members
  <1>5. Handshake'
    BY <1>1, <1>2, <1>3 DEF Handshake
  <1>6. SpareEmpty'
    BY <1>1, <1>2 DEF SpareEmpty
  <1>7. Room'
    <2>1. ASSUME NEW b \in 1..2 PROVE used'[b] <= BufSize
      BY <1>3, TracingAssumption DEF IInv, Room
    <2> QED  BY <1>1, <2>1 DEF Room
  <1>8. Quiet'
    BY <1>1, <1>2 DEF Quiet
  <1>9. FileFaithful'
    <2>1. Pending = <<>> /\ Pending' = <<>>
      BY <1>1, <1>2 DEF Pending
    <2> QED  BY <1>1, <2>1 DEF IInv, FileFaithful, Lines
  <1> QED  BY <1>4, <1>5, <1>6, <1>7, <1>8, <1>9 DEF IInv

LEMMA CloseStep ==
    ASSUME IInv, Close
    PROVE  IInv'
  <1>1. /\ user = "closing" /\ AppendLine(1) /\ file' = file \o buf'[curbuf]
        /\ user' = "closed"
        /\ UNCHANGED <<p, sync, calls, curbuf, threadsem, usersem, exitflag, writer>>
        /\ Types /\ 1 \in Nat
    BY DEF Close, syncVars, semVars, IInv
  <1>2. /\ writer = "exited" /\ calls[Logged] = 2 /\ exitflag = TRUE
        /\ threadsem = 0 /\ usersem = 0 /\ buf[curbuf] = <<>> /\ used[curbuf] = 0
    BY <1>1 DEF IInv, Handshake
  <1>3. /\ buf' \in [1..2 -> Seq(Nat)] /\ used' \in [1..2 -> Nat] /\ logged' \in Nat
        /\ logged' = logged + 1
        /\ buf'[curbuf] = Append(buf[curbuf], logged + 1)
        /\ used'[curbuf] = used[curbuf] + 1
        /\ used'[Other(curbuf)] = used[Other(curbuf)]
    BY <1>1, Appended
  <1>4. /\ \A b \in 1..2 : b = curbuf \/ b = Other(curbuf)
        /\ logged \in Nat /\ Other(curbuf) \in 1..2 /\ file \in Seq(Nat)
    BY <1>1, TwoBuffers DEF Types
  <1>5. file' = Append(file, logged + 1) /\ file' \in Seq(Nat)
    <2>1. <<>> \in Seq(Nat) /\ file \o <<>> = file
      BY <1>4, EmptySeq, ConcatEmptySeq
    <2>2. file \o Append(<<>>, logged + 1) = Append(file \o <<>>, logged + 1)
      BY <1>4, <2>1, AppendLast
    <2>3. file' = Append(file, logged + 1)
      BY <1>1, <1>2, <1>3, <2>1, <2>2
    <2> QED  BY <1>4, <2>3, AppendProperties
  <1>6. Types'
    BY <1>1, <1>3, <1>5 DEF Types, Members
  <1>7. Handshake' /\ SpareEmpty' /\ Quiet'
    BY <1>1, <1>2 DEF Handshake, SpareEmpty, Quiet
  <1>8. Room'
    <2>1. used'[curbuf] <= BufSize
      BY <1>2, <1>3, TracingAssumption
    <2>2. used'[Other(curbuf)] <= BufSize
      BY <1>3, <1>4 DEF IInv, Room
    <2>3. ASSUME NEW b \in 1..2 PROVE used'[b] <= BufSize
      BY <1>4, <2>1, <2>2
    <2> QED  BY <1>1, <2>3 DEF Room
  <1>9. FileFaithful'
    <2>1. Pending = <<>> /\ Pending' = <<>>
      BY <1>1, <1>2 DEF Pending
    <2>2. file = Lines(logged)
      BY <1>1, <1>4, <2>1, ConcatEmptySeq DEF IInv, FileFaithful
    <2>3. Lines(logged') = file'
      BY <1>3, <1>4, <1>5, <2>2, LinesGrow
    <2>4. file' \o Pending' = file'
      BY <1>5, <2>1, ConcatEmptySeq
    <2> QED  BY <2>3, <2>4 DEF FileFaithful, Lines
  <1> QED  BY <1>6, <1>7, <1>8, <1>9 DEF IInv

-----------------------------------------------------------------------------
(* The writer thread                                                        *)

LEMMA SwapStep ==
    ASSUME IInv, Swap
    PROVE  IInv'
  <1>1. /\ writer = "wait" /\ threadsem > 0 /\ ~exitflag
        /\ threadsem' = threadsem - 1 /\ curbuf' = Other(curbuf)
        /\ usersem' = usersem + 1 /\ writer' = "write"
        /\ UNCHANGED <<p, sync, calls, buf, used, logged, exitflag, user, file>>
        /\ Types
    BY DEF Swap, syncVars, IInv
  <1>2. /\ user = "swapping" /\ calls[Logged] = 1
        /\ exitflag = FALSE /\ threadsem = 1 /\ usersem = 0
    BY <1>1 DEF IInv, Handshake
  <1>3. /\ Other(curbuf) \in 1..2 /\ Other(Other(curbuf)) = curbuf
        /\ buf[curbuf] \in Seq(Nat)
        /\ buf[Other(curbuf)] = <<>> /\ used[Other(curbuf)] = 0
    BY <1>1, TwoBuffers DEF IInv, SpareEmpty
  <1>4. Types'
    BY <1>1, <1>3 DEF Types, Members
  <1>5. Handshake'
    BY <1>1, <1>2, <1>3 DEF Handshake, Working
  <1>6. SpareEmpty' /\ Room' /\ Quiet'
    BY <1>1 DEF IInv, SpareEmpty, Room, Quiet
  <1>7. FileFaithful'
    <2>1. Pending = buf[curbuf]
      BY <1>1 DEF Pending
    <2>2. Pending' = buf[Other(Other(curbuf))] \o buf[Other(curbuf)]
      BY <1>1 DEF Pending, Other
    <2>3. Pending' = Pending
      BY <1>3, <2>1, <2>2, ConcatEmptySeq
    <2> QED  BY <1>1, <2>3 DEF IInv, FileFaithful, Lines
  <1> QED  BY <1>4, <1>5, <1>6, <1>7 DEF IInv

(* What was written and what still waits, put together either way.         *)
LEMMA LinesRegroup ==
    ASSUME NEW s \in Seq(Nat), NEW t \in Seq(Nat), NEW u \in Seq(Nat)
    PROVE  (s \o t) \o u = s \o (t \o u)
  BY ConcatAssociative, SMTT(30)

LEMMA WriteOldStep ==
    ASSUME IInv, WriteOld
    PROVE  IInv'
  <1>1. /\ writer = "write" /\ file' = file \o buf[Other(curbuf)] /\ writer' = "clear"
        /\ UNCHANGED <<p, sync, calls, buf, used, curbuf, logged>>
        /\ UNCHANGED <<threadsem, usersem, exitflag, user>>
        /\ Types
    BY DEF WriteOld, Fputs, syncVars, bufferVars, semVars, IInv
  <1>2. /\ file \in Seq(Nat) /\ buf[curbuf] \in Seq(Nat)
        /\ buf[Other(curbuf)] \in Seq(Nat)
    BY <1>1, TwoBuffers DEF Types
  <1>3. file' \in Seq(Nat)
    BY <1>1, <1>2, ConcatProperties
  <1>4. Types'
    BY <1>1, <1>3 DEF Types, Members
  <1>5. Handshake'
    BY <1>1 DEF IInv, Handshake, Working
  <1>6. SpareEmpty' /\ Room' /\ Quiet'
    BY <1>1 DEF IInv, SpareEmpty, Room, Quiet
  <1>7. FileFaithful'
    <2>1. Pending = buf[Other(curbuf)] \o buf[curbuf] /\ Pending' = buf[curbuf]
      BY <1>1 DEF Pending
    <2>2. (file \o buf[Other(curbuf)]) \o buf[curbuf]
            = file \o (buf[Other(curbuf)] \o buf[curbuf])
      BY <1>2, LinesRegroup, Zenon
    <2>3. file' \o Pending' = file \o Pending
      BY <1>1, <2>1, <2>2, Zenon
    <2> QED  BY <1>1, <2>3 DEF IInv, FileFaithful, Lines
  <1> QED  BY <1>4, <1>5, <1>6, <1>7 DEF IInv

LEMMA ClearOldStep ==
    ASSUME IInv, ClearOld
    PROVE  IInv'
  <1>1. /\ writer = "clear" /\ Reset(Other(curbuf)) /\ writer' = "wait"
        /\ UNCHANGED <<p, sync, calls, curbuf, logged>>
        /\ UNCHANGED <<threadsem, usersem, exitflag, user, file>>
        /\ Types
    BY DEF ClearOld, syncVars, semVars, IInv
  <1>2. /\ Other(curbuf) \in 1..2 /\ Other(curbuf) # curbuf /\ curbuf \in 1..2
    BY <1>1, TwoBuffers DEF Types
  <1>3. /\ buf' \in [1..2 -> Seq(Nat)] /\ used' \in [1..2 -> Nat]
        /\ buf'[Other(curbuf)] = <<>> /\ used'[Other(curbuf)] = 0
        /\ \A c \in 1..2 : c # Other(curbuf) => buf'[c] = buf[c] /\ used'[c] = used[c]
    BY <1>1, <1>2, Cleared
  <1>4. buf'[curbuf] = buf[curbuf] /\ used'[curbuf] = used[curbuf]
    BY <1>2, <1>3
  <1>5. Types'
    BY <1>1, <1>3 DEF Types, Members
  <1>6. Handshake'
    BY <1>1, <1>4 DEF IInv, Handshake, Working
  <1>7. SpareEmpty' /\ Quiet'
    BY <1>1, <1>3 DEF IInv, SpareEmpty, Quiet, Other
  <1>8. Room'
    <2>1. \A b \in 1..2 : used'[b] = 0 \/ used'[b] = used[b]
      BY <1>3
    <2>2. \A b \in 1..2 : used'[b] <= BufSize
      BY <2>1, TracingAssumption DEF IInv, Room
    <2>3. user \in {"init", "run", "swapping"} =>
             \A b \in 1..2 : used'[b] <= BufSize - Threshold + MaxSize
      <3>1. 0 <= BufSize - Threshold + MaxSize
        BY TracingAssumption
      <3> QED  BY <2>1, <3>1 DEF IInv, Room
    <2> QED  BY <1>1, <2>2, <2>3 DEF Room
  <1>9. FileFaithful'
    <2>1. Pending' = Pending
      BY <1>1, <1>4 DEF Pending
    <2> QED  BY <1>1, <2>1 DEF IInv, FileFaithful, Lines
  <1> QED  BY <1>5, <1>6, <1>7, <1>8, <1>9 DEF IInv

LEMMA ExitStep ==
    ASSUME IInv, Exit
    PROVE  IInv'
  <1>1. /\ writer = "wait" /\ threadsem > 0 /\ exitflag
        /\ threadsem' = threadsem - 1 /\ file' = file \o buf[curbuf]
        /\ usersem' = usersem + 1 /\ writer' = "exited"
        /\ UNCHANGED <<p, sync, calls, buf, used, curbuf, logged, exitflag, user>>
        /\ Types
    BY DEF Exit, Fputs, syncVars, bufferVars, IInv
  <1>2. /\ user = "ending" /\ calls[Logged] = 2
        /\ exitflag = TRUE /\ threadsem = 1 /\ usersem = 0
    BY <1>1 DEF IInv, Handshake
  <1>3. file \in Seq(Nat) /\ buf[curbuf] \in Seq(Nat)
    BY <1>1, TwoBuffers DEF Types
  <1>4. file' \in Seq(Nat)
    BY <1>1, <1>3, ConcatProperties
  <1>5. Types'
    BY <1>1, <1>4 DEF Types, Members
  <1>6. Handshake'
    BY <1>1, <1>2 DEF Handshake
  <1>7. SpareEmpty' /\ Room' /\ Quiet'
    BY <1>1 DEF IInv, SpareEmpty, Room, Quiet
  <1>8. FileFaithful'
    <2>1. Pending = buf[curbuf] /\ Pending' = <<>>
      BY <1>1 DEF Pending
    <2>2. file' \o <<>> = file'
      BY <1>4, ConcatEmptySeq
    <2>3. file' \o Pending' = file \o Pending
      BY <1>1, <2>1, <2>2
    <2> QED  BY <1>1, <2>3 DEF IInv, FileFaithful, Lines
  <1> QED  BY <1>5, <1>6, <1>7, <1>8 DEF IInv

-----------------------------------------------------------------------------
(* The ranks in the synchronisation                                         *)

LEMMA Returns ==
    ASSUME Types, NEW r \in Members, Return(r)
    PROVE  /\ p' = p /\ sync[r].step # 0
           /\ sync' = [x \in Members |-> sync'[x]]
           /\ sync'[r].step = 0
           /\ r # Logged => sync'[Logged] = sync[Logged]
  <1>1. p' = p /\ Through(r) /\ sync' = [sync EXCEPT ![r] = Idle]
    BY DEF Return, Collect, Leave
  <1>2. sync = [x \in Members |-> sync[x]] /\ Logged \in Members
    BY DEF Types
  <1>3. sync' = [x \in Members |-> IF x = r THEN Idle ELSE sync[x]]
    BY <1>1, <1>2
  <1>4. Idle.step = 0
    BY DEF Idle
  <1> QED  BY <1>1, <1>2, <1>3, <1>4, ThroughIsInside

(* A step that leaves the two threads alone.                                *)
LEMMA ThreadsUnchanged ==
    ASSUME IInv, UNCHANGED localVars, p' = p, sync' = [x \in Members |-> sync'[x]],
           calls' \in [Members -> 0..2], calls'[Logged] = calls[Logged],
           calls[Logged] = 1 /\ sync'[Logged].step # 0 =>
             user = "run" /\ logged > MaxRecords[p]
    PROVE  IInv'
  <1>1. UNCHANGED <<buf, used, curbuf, logged, threadsem, usersem, exitflag, user, writer, file>>
    BY DEF localVars, bufferVars, semVars, threadVars
  <1>2. Types'
    BY <1>1 DEF IInv, Types, Members
  <1>3. Handshake' /\ SpareEmpty' /\ Room'
    BY <1>1 DEF IInv, Handshake, SpareEmpty, Room, Other
  <1>4. Quiet'
    BY <1>1 DEF Quiet
  <1>5. FileFaithful'
    BY <1>1 DEF IInv, FileFaithful, Pending, Lines, Other
  <1> QED  BY <1>2, <1>3, <1>4, <1>5 DEF IInv

LEMMA SynchroniseStep ==
    ASSUME IInv, NEW r \in Members, Synchronise(r) \/ SyncOnly(r)
    PROVE  IInv'
  <1>1. Types /\ Quiet /\ Logged \in Members /\ calls \in [Members -> 0..2]
        /\ sync = [x \in Members |-> sync[x]]
    BY DEF IInv, Types
  <1>2. CASE Synchronise(r)
    <2>1. /\ calls[r] = 1 /\ r = Logged => user = "run" /\ logged > MaxRecords[p]
          /\ \E v : sync' = [sync EXCEPT ![r] = v]
          /\ p' = p /\ calls' = calls /\ UNCHANGED localVars
      BY <1>2 DEF Synchronise, Enter
    <2>2. /\ sync' = [x \in Members |-> sync'[x]]
          /\ r # Logged => sync'[Logged] = sync[Logged]
      BY <1>1, <2>1
    <2> QED  BY <1>1, <2>1, <2>2, ThreadsUnchanged DEF Quiet
  <1>3. CASE SyncOnly(r)
    <2>1. SyncStep(r) /\ calls' = calls /\ UNCHANGED localVars
      BY <1>3 DEF SyncOnly
    <2>2. /\ p' = p /\ sync' = [x \in Members |-> sync'[x]]
          /\ sync'[Logged].step # 0 => sync[Logged].step # 0
      BY <1>1, <2>1, SyncSteps
    <2> QED  BY <1>1, <2>1, <2>2, ThreadsUnchanged DEF Quiet
  <1> QED  BY <1>2, <1>3

LEMMA InitializedStep ==
    ASSUME IInv, NEW r \in Members, Initialized(r)
    PROVE  IInv'
  <1>1. Types /\ Quiet /\ Logged \in Members /\ calls \in [Members -> 0..2]
    BY DEF IInv, Types
  <1>2. /\ calls[r] = 0 /\ calls' = [calls EXCEPT ![r] = 1]
        /\ UNCHANGED <<buf, used, curbuf, logged, threadsem, usersem, exitflag>>
    BY DEF Initialized, bufferVars, semVars
  <1>3. /\ p' = p /\ sync[r].step # 0
        /\ sync' = [x \in Members |-> sync'[x]]
        /\ sync'[r].step = 0
        /\ r # Logged => sync'[Logged] = sync[Logged]
    BY <1>1, Returns DEF Initialized
  <1>4. calls' \in [Members -> 0..2]
    BY <1>1, <1>2
  <1>5. CASE r # Logged
    <2>1. UNCHANGED localVars
      BY <1>2, <1>5 DEF Initialized, localVars, bufferVars, semVars, threadVars
    <2>2. calls'[Logged] = calls[Logged]
      BY <1>1, <1>2, <1>5
    <2> QED  BY <1>1, <1>3, <1>4, <1>5, <2>1, <2>2, ThreadsUnchanged DEF Quiet
  <1>6. CASE r = Logged
    <2>1. user' = "run" /\ writer' = "wait" /\ file' = <<Header>> /\ Header = 0
      BY <1>6 DEF Initialized, Header
    <2>2. /\ user = "init" /\ writer = "none"
          /\ threadsem = 0 /\ usersem = 0 /\ exitflag = FALSE
          /\ logged = 1 /\ buf[curbuf] = <<1>>
      BY <1>2, <1>6 DEF IInv, Handshake
    <2>3. calls'[Logged] = 1
      BY <1>1, <1>2, <1>6
    <2>4. <<0>> \in Seq(Nat)
      OBVIOUS
    <2>5. Types'
      BY <1>1, <1>2, <1>3, <1>4, <2>1, <2>4 DEF Types, Members
    <2>6. Handshake'
      BY <1>2, <2>1, <2>2, <2>3 DEF Handshake, Working
    <2>7. SpareEmpty' /\ Room'
      BY <1>2, <2>1, <2>2 DEF IInv, SpareEmpty, Room, Other
    <2>8. Quiet'
      BY <1>3, <1>6 DEF Quiet
    <2>9. FileFaithful'
      <3>1. Pending' = <<1>>
        BY <1>2, <2>1, <2>2 DEF Pending
      <3>2. Lines(0) = <<0>>
        <4>1. Lines(0) = [i \in 1..1 |-> i - 1]
          BY DEF Lines
        <4>2. \A i \in 1..1 : i - 1 = 0
          OBVIOUS
        <4>3. <<0>> = [i \in 1..1 |-> 0]
          OBVIOUS
        <4> QED  BY <4>1, <4>2, <4>3
      <3>3. Lines(0 + 1) = Append(Lines(0), 0 + 1)
        BY LinesGrow
      <3>4. <<0>> \o <<1>> = Append(<<0>>, 1)
        BY <2>4, AppendIsConcat
      <3>5. Lines(1) = <<0>> \o <<1>>
        <4>1. 0 + 1 = 1
          OBVIOUS
        <4> QED  BY <3>2, <3>3, <3>4, <4>1
      <3> QED  BY <1>2, <2>1, <2>2, <3>1, <3>5 DEF FileFaithful, Lines
    <2> QED  BY <2>5, <2>6, <2>7, <2>8, <2>9 DEF IInv
  <1> QED  BY <1>5, <1>6

LEMMA FinalizeStep ==
    ASSUME IInv, NEW r \in Members, Finalize(r)
    PROVE  IInv'
  <1>1. Types /\ Quiet /\ Logged \in Members /\ calls \in [Members -> 0..2]
    BY DEF IInv, Types
  <1>2. /\ calls[r] = 1 /\ calls' = [calls EXCEPT ![r] = 2]
        /\ UNCHANGED <<curbuf, usersem, writer, file>>
    BY DEF Finalize
  <1>3. /\ p' = p /\ sync[r].step # 0
        /\ sync' = [x \in Members |-> sync'[x]]
        /\ sync'[r].step = 0
        /\ r # Logged => sync'[Logged] = sync[Logged]
    BY <1>1, Returns DEF Finalize
  <1>4. calls' \in [Members -> 0..2]
    BY <1>1, <1>2
  <1>5. CASE r # Logged
    <2>1. UNCHANGED localVars
      BY <1>2, <1>5 DEF Finalize, localVars, bufferVars, semVars, threadVars
    <2>2. calls'[Logged] = calls[Logged]
      BY <1>1, <1>2, <1>5
    <2> QED  BY <1>1, <1>3, <1>4, <1>5, <2>1, <2>2, ThreadsUnchanged DEF Quiet
  <1>6. CASE r = Logged
    <2>1. /\ AppendLine(1) /\ exitflag' = TRUE /\ threadsem' = threadsem + 1
          /\ user' = "ending" /\ 1 \in Nat
      BY <1>6 DEF Finalize
    <2>2. user = "run"
      BY <1>1, <1>2, <1>3, <1>6 DEF Quiet
    <2>3. writer \in Working /\ threadsem = 0 /\ usersem = 0
      BY <2>2 DEF IInv, Handshake
    <2>4. calls'[Logged] = 2
      BY <1>1, <1>2, <1>6
    <2>5. /\ buf' \in [1..2 -> Seq(Nat)] /\ used' \in [1..2 -> Nat] /\ logged' \in Nat
          /\ buf'[Other(curbuf)] = buf[Other(curbuf)]
          /\ used'[curbuf] = used[curbuf] + 1
          /\ used'[Other(curbuf)] = used[Other(curbuf)]
      BY <1>1, <2>1, Appended
    <2>6. /\ \A b \in 1..2 : b = curbuf \/ b = Other(curbuf)
          /\ used[curbuf] \in Nat /\ curbuf \in 1..2 /\ Other(curbuf) \in 1..2
      BY <1>1, TwoBuffers DEF Types
    <2>7. Types'
      BY <1>1, <1>2, <1>3, <1>4, <2>5 DEF Types, Members
    <2>8. Handshake'
      BY <1>2, <2>1, <2>3, <2>4 DEF Handshake
    <2>9. SpareEmpty' /\ Quiet'
      BY <1>2, <2>4, <2>5 DEF IInv, SpareEmpty, Quiet, Other
    <2>10. Room'
      <3>1. used[curbuf] <= BufSize - Threshold + MaxSize
        BY <2>2, <2>6 DEF IInv, Room
      <3>2. used'[curbuf] <= BufSize
        BY <2>5, <2>6, <3>1, TracingAssumption
      <3>3. used'[Other(curbuf)] <= BufSize
        BY <2>5, <2>6 DEF IInv, Room
      <3>4. ASSUME NEW b \in 1..2 PROVE used'[b] <= BufSize
        BY <2>6, <3>2, <3>3
      <3> QED  BY <2>1, <3>4 DEF Room
    <2>11. FileFaithful'
      <3>1. writer # "exited" /\ user # "init"
        BY <2>2, <2>3 DEF Working
      <3> QED  BY <1>1, <1>2, <2>1, <3>1, FileAppended DEF IInv
    <2> QED  BY <2>7, <2>8, <2>9, <2>10, <2>11 DEF IInv
  <1> QED  BY <1>5, <1>6

-----------------------------------------------------------------------------
(* The invariant                                                            *)

LEMMA InitIInv ==
    ASSUME Init
    PROVE  IInv
  <1>1. /\ p \in Procs /\ Logged \in Members /\ sync = [x \in Members |-> Idle]
        /\ calls = [x \in Members |-> 0]
        /\ user = "init" /\ writer = "none" /\ curbuf = 1 /\ logged = 1
        /\ threadsem = 0 /\ usersem = 0 /\ exitflag = FALSE /\ file = <<>>
        /\ buf = [b \in 1..2 |-> IF b = 1 THEN <<1>> ELSE <<>>]
        /\ used = [b \in 1..2 |-> IF b = 1 THEN 1 ELSE 0]
    BY DEF Init, SyncInit
  <1>2. /\ buf[1] = <<1>> /\ buf[2] = <<>> /\ used[1] = 1 /\ used[2] = 0
        /\ <<1>> \in Seq(Nat) /\ <<>> \in Seq(Nat)
    BY <1>1, EmptySeq
  <1>3. Types
    BY <1>1, <1>2 DEF Types
  <1>4. Handshake
    BY <1>1, <1>2 DEF Handshake
  <1>5. SpareEmpty
    BY <1>1, <1>2 DEF SpareEmpty, Other
  <1>6. Room
    <2>1. \A b \in 1..2 : used[b] = 1 \/ used[b] = 0
      BY <1>1
    <2>2. 1 <= BufSize /\ 1 <= BufSize - Threshold + MaxSize
      BY TracingAssumption
    <2>3. 0 <= BufSize /\ 0 <= BufSize - Threshold + MaxSize
      BY TracingAssumption
    <2> QED  BY <2>1, <2>2, <2>3 DEF Room
  <1>7. Quiet /\ FileFaithful
    BY <1>1 DEF Quiet, FileFaithful
  <1> QED  BY <1>3, <1>4, <1>5, <1>6, <1>7 DEF IInv

(* The invariant the theorems about the two threads follow from.                        *)
THEOREM TracingInvariant ==
    Spec => []IInv
  <1>1. Init => IInv
    BY InitIInv
  <1>2. IInv /\ [Next]_vars => IInv'
    <2> SUFFICES ASSUME IInv, [Next]_vars PROVE IInv'
      OBVIOUS
    <2>1. CASE UserStep
      BY <2>1, LogRecordStep, SwappedStep, WriteBufStep, FinalizedStep, CloseStep
      DEF UserStep
    <2>2. CASE WriterStep
      BY <2>2, SwapStep, WriteOldStep, ClearOldStep, ExitStep DEF WriterStep
    <2>3. ASSUME NEW r \in Members, RankStep(r) PROVE IInv'
      BY <2>3, SynchroniseStep, InitializedStep, FinalizeStep DEF RankStep
    <2>4. CASE UNCHANGED vars
      <3>1. UNCHANGED localVars /\ p' = p /\ sync' = sync /\ calls' = calls
        BY <2>4 DEF vars, syncVars
      <3> QED  BY <3>1, ThreadsUnchanged DEF IInv, Types, Quiet
    <2> QED  BY <2>1, <2>2, <2>3, <2>4 DEF Next, Terminated
  <1> QED  BY <1>1, <1>2, PTL DEF Spec

(* Nothing that was logged is lost, written twice or written out of order   *)
(* while the user thread fills one buffer and the writer empties the other. *)
THEOREM TraceIsFaithful ==
    Spec => []FileFaithful
  <1>1. IInv => FileFaithful
    BY DEF IInv
  <1> QED  BY <1>1, TracingInvariant, PTL

(* The semaphores of the two threads never hold two permits, none is left   *)
(* over while the user thread logs, and no buffer overflows.                *)
THEOREM BuffersNeverOverflow ==
    Spec => [](SemaphoresBinary /\ BuffersHold)
  <1>1. IInv => SemaphoresBinary
    BY DEF IInv, Handshake, SemaphoresBinary
  <1>2. IInv => BuffersHold
    <2> SUFFICES ASSUME IInv, NEW b \in 1..2 PROVE used[b] \in 0..BufSize
      BY DEF BuffersHold
    <2>1. used[b] \in Nat /\ used[b] <= BufSize
      BY DEF IInv, Types, Room
    <2> QED  BY <2>1, TracingAssumption
  <1> QED  BY <1>1, <1>2, TracingInvariant, PTL

(* The messages of every pair of ranks are those of its handshake, and what *)
(* each rank has measured or taken over is right up to the measurements on  *)
(* the way.                                                                 *)
THEOREM SyncInvariant == Spec => []Valued
  <1>1. Init => Valued
    BY ValuedInit DEF Init
  <1>2. Valued /\ [Next]_vars => Valued'
    BY ValuedNext
  <1> QED  BY <1>1, <1>2, PTL DEF Spec

(* The clock differences that rank 0 scatters compare the right clocks,     *)
(* with the right sign, each over one chain of measurements: none is off by *)
(* more than the fastest round trips on the way allow.                      *)
THEOREM DifferencesRight == Spec => DiffsRight
  <1>1. Valued /\ [Next]_vars => [RightStep]_syncVars
    BY ValuedNext
  <1>2. Init => Valued
    BY ValuedInit DEF Init
  <1>3. Valued /\ [Next]_vars => Valued'
    BY ValuedNext
  <1> QED  BY <1>1, <1>2, <1>3, PTL DEF Spec, DiffsRight, RightStep

(* The semaphores, the buffers, and never more than two messages on their   *)
(* way from one rank to another.                                            *)
THEOREM TypesRight == Spec => []TypeOK
  <1>1. Valued => \A pair \in DOMAIN net : Len(net[pair]) <= 2
    BY LinkedShort DEF Valued
  <1>2. Valued /\ SemaphoresBinary /\ BuffersHold => TypeOK
    BY <1>1 DEF TypeOK
  <1> QED  BY <1>2, SyncInvariant, BuffersNeverOverflow, PTL
=============================================================================
