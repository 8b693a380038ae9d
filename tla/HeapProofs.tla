------------------------------- MODULE HeapProofs -------------------------------
(***************************************************************************)
(* Theorems about core/allocator.c and the heaptest command, for every     *)
(* pool, alignment, set of sizes and set of clients.  They are about the   *)
(* calm executions, in which no call begins or goes on while another is    *)
(* under way: the only ones there are when every client's mask works       *)
(* (MaskedIsCalm), and only some of the shipped program's, whose kernel    *)
(* calls the allocator unmasked (core/scheduler.c:151, 408).                 *)
(***************************************************************************)
EXTENDS HeapTest, Induction, FiniteSetTheorems, SequenceTheorems, TLAPS

-----------------------------------------------------------------------------
(* Arithmetic of sizes                                                     *)

LEMMA Below ==
  ASSUME NEW s \in Nat, NEW x \in Nat, x < s
  PROVE  x % s = x
OBVIOUS

LEMMA Multiples ==
  ASSUME NEW a \in Nat \ {0}, NEW x \in Nat, x % a = 0
  PROVE  \E k \in Nat : x = a * k
<1>1. PICK q \in Nat : q = x \div a OBVIOUS
<1>2. x = a * q BY <1>1
<1> QED BY <1>2

LEMMA AddMultiples ==
  ASSUME NEW a \in Nat \ {0}, NEW x \in Nat, NEW y \in Nat, x % a = 0, y % a = 0
  PROVE  (x + y) % a = 0
<1>1. PICK p \in Nat : x = a * p BY Multiples
<1>2. PICK q \in Nat : y = a * q BY Multiples
<1>3. PICK r \in Nat : r = p + q OBVIOUS
<1>4. x + y = a * r BY <1>1, <1>2, <1>3
<1>5. (a * r) % a = 0 OBVIOUS
<1> QED BY <1>4, <1>5

LEMMA AtLeastOne ==
  ASSUME NEW a \in Nat \ {0}, NEW x \in Nat, x % a = 0, x > 0
  PROVE  x >= a
OBVIOUS

LEMMA RoundedUp ==
  ASSUME NEW a \in Nat \ {0}, NEW n \in Nat
  PROVE  /\ ((n + a - 1) \div a) * a \in Nat
         /\ ((n + a - 1) \div a) * a >= n
         /\ (((n + a - 1) \div a) * a) % a = 0
<1>1. n + a - 1 \in Nat OBVIOUS
<1>2. PICK x \in Nat : x = n + a - 1 BY <1>1
<1>3. PICK q \in Nat : q = x \div a OBVIOUS
<1>4. a * q <= x /\ x < a * q + a BY <1>3
<1>5. a * q = q * a /\ a * q \in Nat OBVIOUS
<1>6. (a * q) % a = 0 OBVIOUS
<1>7. q * a \in Nat /\ q * a >= n /\ (q * a) % a = 0 BY <1>2, <1>4, <1>5, <1>6
<1> QED BY <1>2, <1>3, <1>7

\* Rounding up never yields less than what was asked, unless a size_t overflows.
LEMMA AlignFacts ==
  ASSUME NEW n \in Nat, n > 0, n + ALIGN_SIZE - 1 < SIZE_MOD
  PROVE  /\ ALIGN(n) \in Nat /\ ALIGN(n) >= n /\ ALIGN(n) >= ALIGN_SIZE
         /\ ALIGN(n) % ALIGN_SIZE = 0
<1>1. n + ALIGN_SIZE - 1 \in Nat /\ SIZE_MOD \in Nat /\ ALIGN_SIZE \in Nat \ {0}
  BY PoolAssumption
<1>2. (n + ALIGN_SIZE - 1) % SIZE_MOD = n + ALIGN_SIZE - 1 BY <1>1, Below
<1>3. ALIGN(n) = ((n + ALIGN_SIZE - 1) \div ALIGN_SIZE) * ALIGN_SIZE BY <1>2 DEF ALIGN
<1>4. ALIGN(n) \in Nat /\ ALIGN(n) >= n /\ ALIGN(n) % ALIGN_SIZE = 0
  BY <1>1, <1>3, RoundedUp
<1>5. ALIGN(n) >= ALIGN_SIZE BY <1>1, <1>4, AtLeastOne
<1> QED BY <1>4, <1>5

\* A header holds a word, so no size up to twice what a block can hold overflows.
LEMMA PoolFacts ==
  /\ HEADER >= ALIGN_SIZE
  /\ \A n \in Nat : n <= POOL \/ n <= 2 * (POOL - HEADER) => n + ALIGN_SIZE - 1 < SIZE_MOD
<1>1. HEADER >= ALIGN_SIZE BY PoolAssumption, AtLeastOne
<1> QED BY <1>1, PoolAssumption

-----------------------------------------------------------------------------
(* Sums over sequences                                                     *)

\* Sum is the last of the partial sums.
LEMMA SumFacts ==
  ASSUME NEW w \in Seq(Int)
  PROVE  \E f \in [0 .. Len(w) -> Int] :
           /\ f[0] = 0 /\ \A k \in 1 .. Len(w) : f[k] = f[k - 1] + w[k]
           /\ Sum(w) = f[Len(w)]
<1> DEFINE n == Len(w)
           Body(k, g) == [j \in 0 .. k |-> IF j = 0 THEN 0 ELSE g[j - 1] + w[j]]
           T == {k \in 0 .. n : \E g : g = Body(k, g)}
           G == CHOOSE g : g = Body(n, g)
<1>0. n \in Nat /\ \A k \in 1 .. n : w[k] \in Int OBVIOUS
<1>1. 0 \in T
  <2> DEFINE f == [j \in 0 .. 0 |-> 0]
  <2>1. f = Body(0, f) /\ 0 \in 0 .. n OBVIOUS
  <2> HIDE DEF f, Body, n
  <2> QED BY <2>1
<1>2. ASSUME NEW k \in 1 .. n, k - 1 \in T PROVE k \in T
  <2>1. PICK f : f = Body(k - 1, f) BY <1>2
  <2> DEFINE g == [j \in 0 .. k |-> IF j = k THEN f[k - 1] + w[k] ELSE f[j]]
  <2>2. g = Body(k, g)
    <3>1. ASSUME NEW j \in 0 .. k PROVE g[j] = Body(k, g)[j]
      BY <2>1, <1>0
    <3> QED BY <3>1
  <2>3. k \in 0 .. n BY <1>0
  <2> HIDE DEF g, Body, n
  <2> QED BY <2>2, <2>3
<1>3. n \in T
  <2>1. 0 .. n \subseteq T
    <3> HIDE DEF T, n
    <3> QED BY <1>0, <1>1, <1>2, Inductive
  <2> HIDE DEF T, n
  <2> QED BY <2>1, <1>0
<1>4. G = Body(n, G)
  <2> HIDE DEF Body, n
  <2> QED BY <1>3
<1>5. Sum(w) = G[n] BY DEF Sum
<1>6. G[0] = 0 /\ \A k \in 1 .. n : G[k] = G[k - 1] + w[k]
  <2> HIDE DEF G
  <2>1. \A j \in 0 .. n : G[j] = IF j = 0 THEN 0 ELSE G[j - 1] + w[j]
    <3> HIDE DEF n
    <3> QED BY <1>4
  <2>2. 0 \in 0 .. n /\ \A k \in 1 .. n : k \in 0 .. n /\ k # 0 BY <1>0
  <2> HIDE DEF n, Body
  <2> QED BY <2>1, <2>2
<1>7. G \in [0 .. n -> Int]
  <2> DEFINE U == {k \in 0 .. n : G[k] \in Int}
  <2> HIDE DEF G, n
  <2>1. 0 \in U BY <1>0, <1>6
  <2>2. ASSUME NEW k \in 1 .. n, k - 1 \in U PROVE k \in U
    BY <2>2, <1>6, <1>0
  <2>3. 0 .. n \subseteq U
    <3> HIDE DEF U
    <3> QED BY <2>1, <2>2, <1>0, Inductive
  <2> QED BY <2>3, <1>4
<1> QED BY <1>5, <1>6, <1>7

\* Whatever satisfies the recursion is the partial sum.
LEMMA SumIs ==
  ASSUME NEW w \in Seq(Int), NEW f \in [0 .. Len(w) -> Int],
         f[0] = 0, \A k \in 1 .. Len(w) : f[k] = f[k - 1] + w[k]
  PROVE  Sum(w) = f[Len(w)]
<1>1. PICK g \in [0 .. Len(w) -> Int] :
        /\ g[0] = 0 /\ \A k \in 1 .. Len(w) : g[k] = g[k - 1] + w[k]
        /\ Sum(w) = g[Len(w)]
  BY SumFacts
<1> DEFINE n == Len(w)  T == {k \in 0 .. n : g[k] = f[k]}
<1>2. n \in Nat OBVIOUS
<1>3. 0 \in T BY <1>1, <1>2
<1>4. ASSUME NEW k \in 1 .. n, k - 1 \in T PROVE k \in T
  BY <1>1, <1>2, <1>4
<1>5. 0 .. n \subseteq T
  <2> HIDE DEF n, T
  <2> QED BY <1>2, <1>3, <1>4, Inductive
<1>6. n \in T BY <1>2, <1>5
<1> QED BY <1>1, <1>6

LEMMA SumType ==
  ASSUME NEW w \in Seq(Int)
  PROVE  Sum(w) \in Int
BY SumFacts

LEMMA SumEmpty == Sum(<<>>) = 0
<1>1. <<>> \in Seq(Int) /\ Len(<<>>) = 0 OBVIOUS
<1> QED BY <1>1, SumFacts

LEMMA SumAppend ==
  ASSUME NEW w \in Seq(Int), NEW x \in Int
  PROVE  Sum(Append(w, x)) = Sum(w) + x
<1>1. PICK f \in [0 .. Len(w) -> Int] :
        /\ f[0] = 0 /\ \A k \in 1 .. Len(w) : f[k] = f[k - 1] + w[k]
        /\ Sum(w) = f[Len(w)]
  BY SumFacts
<1> DEFINE n == Len(w)  v == Append(w, x)
           g == [k \in 0 .. n + 1 |-> IF k = n + 1 THEN f[n] + x ELSE f[k]]
<1>2. n \in Nat /\ v \in Seq(Int) /\ Len(v) = n + 1 /\ v[n + 1] = x
      /\ \A k \in 1 .. n : v[k] = w[k]
  OBVIOUS
<1>3. g \in [0 .. n + 1 -> Int] /\ g[0] = 0 /\ g[n + 1] = Sum(w) + x
  BY <1>1, <1>2
<1>4. \A k \in 1 .. n + 1 : g[k] = g[k - 1] + v[k]
  BY <1>1, <1>2
<1>5. Sum(v) = g[n + 1]
  <2> HIDE DEF g, v, n
  <2> QED BY <1>2, <1>3, <1>4, SumIs
<1> QED BY <1>3, <1>5

\* Partial sums of sequences that differ in one term, or in one term for two.
LEMMA ChangeTerms ==
  ASSUME NEW n \in Nat, NEW i \in 1 .. n,
         NEW w \in [1 .. n -> Int], NEW v \in [1 .. n -> Int],
         \A k \in 1 .. n : k # i => v[k] = w[k],
         NEW f \in [0 .. n -> Int], f[0] = 0, \A k \in 1 .. n : f[k] = f[k - 1] + w[k],
         NEW g \in [0 .. n -> Int], g[0] = 0, \A k \in 1 .. n : g[k] = g[k - 1] + v[k]
  PROVE  g[n] = f[n] - w[i] + v[i]
<1> DEFINE T == {k \in 0 .. n : g[k] = IF k < i THEN f[k] ELSE f[k] - w[i] + v[i]}
<1>1. 0 \in T OBVIOUS
<1>2. ASSUME NEW k \in 1 .. n, k - 1 \in T PROVE k \in T
  <2>1. f[k] = f[k - 1] + w[k] /\ g[k] = g[k - 1] + v[k] OBVIOUS
  <2>2. f[k - 1] \in Int /\ g[k - 1] \in Int /\ w[k] \in Int /\ v[k] \in Int OBVIOUS
  <2>3. CASE k < i BY <1>2, <2>1, <2>2, <2>3
  <2>4. CASE k = i BY <1>2, <2>1, <2>2, <2>4
  <2>5. CASE k > i
    <3>1. g[k - 1] = f[k - 1] - w[i] + v[i] BY <1>2, <2>5
    <3>2. v[k] = w[k] BY <2>5
    <3>0. w[i] \in Int /\ v[i] \in Int OBVIOUS
    <3>3. g[k] = f[k] - w[i] + v[i]
      <4>1. PICK p \in Int, c \in Int, a \in Int, b \in Int :
              p = f[k - 1] /\ c = w[k] /\ a = w[i] /\ b = v[i]
        BY <2>2, <3>0
      <4>2. g[k] = (p - a + b) + c BY <2>1, <3>1, <3>2, <4>1
      <4>3. f[k] - w[i] + v[i] = (p + c) - a + b BY <2>1, <4>1
      <4> QED BY <4>2, <4>3
    <3> QED BY <2>5, <3>3
  <2> QED BY <2>3, <2>4, <2>5
<1>3. 0 .. n \subseteq T
  <2> HIDE DEF T
  <2> QED BY <1>1, <1>2, Inductive
<1>4. n \in T
  <2> HIDE DEF T
  <2> QED BY <1>3
<1> QED BY <1>4

LEMMA SplitTerms ==
  ASSUME NEW n \in Nat, NEW i \in 1 .. n,
         NEW w \in [1 .. n -> Int], NEW v \in [1 .. n + 1 -> Int],
         \A k \in 1 .. n : (k < i => v[k] = w[k]) /\ (k > i => v[k + 1] = w[k]),
         NEW f \in [0 .. n -> Int], f[0] = 0, \A k \in 1 .. n : f[k] = f[k - 1] + w[k],
         NEW g \in [0 .. n + 1 -> Int], g[0] = 0, \A k \in 1 .. n + 1 : g[k] = g[k - 1] + v[k]
  PROVE  g[n + 1] = f[n] - w[i] + v[i] + v[i + 1]
<1> DEFINE T == {k \in 0 .. n : /\ k < i => g[k] = f[k]
                                /\ k >= i => g[k + 1] = f[k] - w[i] + v[i] + v[i + 1]}
<1>1. 0 \in T OBVIOUS
<1>2. ASSUME NEW k \in 1 .. n, k - 1 \in T PROVE k \in T
  <2>0. k \in 1 .. n + 1 /\ k - 1 \in 0 .. n /\ k - 1 \in 0 .. n + 1
        /\ k + 1 \in 1 .. n + 1 /\ k + 1 - 1 = k
    OBVIOUS
  <2>1. f[k] = f[k - 1] + w[k] /\ g[k] = g[k - 1] + v[k]
    <3> HIDE DEF T
    <3> QED BY <2>0
  <2>2. f[k - 1] \in Int /\ g[k - 1] \in Int /\ w[k] \in Int /\ v[k] \in Int
    <3> HIDE DEF T
    <3> QED BY <2>0
  <2>3. g[k + 1] = g[k] + v[k + 1]
    <3> HIDE DEF T
    <3> QED BY <2>0
  <2>4. CASE k < i BY <1>2, <2>1, <2>2, <2>4
  <2>5. CASE k = i
    <3>1. g[k - 1] = f[k - 1] BY <1>2, <2>5
    <3>2. g[k + 1] = f[k] - w[k] + v[k] + v[k + 1]
      <4>1. v[k + 1] \in Int OBVIOUS
      <4>2. PICK p \in Int, c \in Int, a \in Int, d \in Int :
              p = f[k - 1] /\ c = w[k] /\ a = v[k] /\ d = v[k + 1]
        BY <2>2, <4>1
      <4>3. g[k + 1] = (p + a) + d BY <2>1, <2>3, <3>1, <4>2
      <4>4. f[k] - w[k] + v[k] + v[k + 1] = (p + c) - c + a + d BY <2>1, <4>2
      <4> QED BY <4>3, <4>4
    <3> QED BY <2>5, <3>2
  <2>6. CASE k > i
    <3>1. g[k] = f[k - 1] - w[i] + v[i] + v[i + 1]
      <4>1. k - 1 >= i /\ k - 1 + 1 = k BY <2>6
      <4> QED BY <1>2, <4>1
    <3>2. v[k + 1] = w[k] BY <2>6
    <3>3. w[i] \in Int /\ v[i] \in Int /\ v[i + 1] \in Int
      <4>1. i \in 1 .. n + 1 /\ i + 1 \in 1 .. n + 1 OBVIOUS
      <4> HIDE DEF T
      <4> QED BY <4>1
    <3>4. g[k + 1] = f[k] - w[i] + v[i] + v[i + 1]
      <4>1. PICK p \in Int, c \in Int, a \in Int, b \in Int, d \in Int :
              p = f[k - 1] /\ c = w[k] /\ a = w[i] /\ b = v[i] /\ d = v[i + 1]
        BY <2>2, <3>3
      <4>2. g[k + 1] = (p - a + b + d) + c BY <2>3, <3>1, <3>2, <4>1
      <4>3. f[k] - w[i] + v[i] + v[i + 1] = (p + c) - a + b + d BY <2>1, <4>1
      <4> QED BY <4>2, <4>3
    <3> QED BY <2>6, <3>4
  <2> QED BY <2>4, <2>5, <2>6
<1>3. 0 .. n \subseteq T
  <2> HIDE DEF T
  <2> QED BY <1>1, <1>2, Inductive
<1>4. n \in T
  <2> HIDE DEF T
  <2> QED BY <1>3
<1> QED BY <1>4

\* One term changes.
LEMMA SumChange ==
  ASSUME NEW w \in Seq(Int), NEW v \in Seq(Int), NEW i \in 1 .. Len(w),
         Len(v) = Len(w), \A k \in 1 .. Len(w) : k # i => v[k] = w[k]
  PROVE  Sum(v) = Sum(w) - w[i] + v[i]
<1>1. PICK f \in [0 .. Len(w) -> Int] :
        /\ f[0] = 0 /\ \A k \in 1 .. Len(w) : f[k] = f[k - 1] + w[k]
        /\ Sum(w) = f[Len(w)]
  BY SumFacts
<1>2. PICK g \in [0 .. Len(v) -> Int] :
        /\ g[0] = 0 /\ \A k \in 1 .. Len(v) : g[k] = g[k - 1] + v[k]
        /\ Sum(v) = g[Len(v)]
  BY SumFacts
<1>3. Len(w) \in Nat /\ w \in [1 .. Len(w) -> Int] /\ v \in [1 .. Len(w) -> Int]
  OBVIOUS
<1>4. g \in [0 .. Len(w) -> Int] /\ g[0] = 0 /\ \A k \in 1 .. Len(w) : g[k] = g[k - 1] + v[k]
  BY <1>2
<1>5. g[Len(w)] = f[Len(w)] - w[i] + v[i]
  BY <1>1, <1>3, <1>4, ChangeTerms
<1> QED BY <1>1, <1>2, <1>5

\* One term is replaced by two.
LEMMA SumSplit ==
  ASSUME NEW w \in Seq(Int), NEW v \in Seq(Int), NEW i \in 1 .. Len(w),
         Len(v) = Len(w) + 1,
         \A k \in 1 .. Len(w) : (k < i => v[k] = w[k]) /\ (k > i => v[k + 1] = w[k])
  PROVE  Sum(v) = Sum(w) - w[i] + v[i] + v[i + 1]
<1>1. PICK f \in [0 .. Len(w) -> Int] :
        /\ f[0] = 0 /\ \A k \in 1 .. Len(w) : f[k] = f[k - 1] + w[k]
        /\ Sum(w) = f[Len(w)]
  BY SumFacts
<1>2. PICK g \in [0 .. Len(v) -> Int] :
        /\ g[0] = 0 /\ \A k \in 1 .. Len(v) : g[k] = g[k - 1] + v[k]
        /\ Sum(v) = g[Len(v)]
  BY SumFacts
<1>3. Len(w) \in Nat /\ w \in [1 .. Len(w) -> Int] /\ v \in [1 .. Len(w) + 1 -> Int]
  OBVIOUS
<1>4. /\ g \in [0 .. Len(w) + 1 -> Int] /\ g[0] = 0
      /\ \A k \in 1 .. Len(w) + 1 : g[k] = g[k - 1] + v[k]
  BY <1>2
<1>5. g[Len(w) + 1] = f[Len(w)] - w[i] + v[i] + v[i + 1]
  BY <1>1, <1>3, <1>4, SplitTerms
<1> QED BY <1>1, <1>2, <1>5

-----------------------------------------------------------------------------
(* Lists of blocks                                                         *)

Block == [addr : Nat, size : Nat, free : BOOLEAN]

\* What the four counters count of a block, and of a list.
FreeByte  == [b \in Block |-> IF b.free THEN b.size ELSE 0]
TakenByte == [b \in Block |-> IF b.free THEN 0 ELSE b.size]
FreeOne   == [b \in Block |-> IF b.free THEN 1 ELSE 0]
TakenOne  == [b \in Block |-> IF b.free THEN 0 ELSE 1]

Weights(l, g) == [i \in DOMAIN l |-> g[l[i]]]
Weight(l, g)  == Sum(Weights(l, g))

\* The list l is laid out from 0 to end.
Tiles(l, end) ==
  /\ l # <<>> /\ l[1].addr = 0
  /\ \A i \in 1 .. Len(l) :
       Data(l[i]) + l[i].size = IF i = Len(l) THEN end ELSE l[i + 1].addr
  /\ \A i \in 1 .. Len(l) : l[i].size >= ALIGN_SIZE /\ l[i].addr % ALIGN_SIZE = 0

Coalesced(l) == \A i \in 1 .. Len(l) - 1 : ~(l[i].free /\ l[i + 1].free)

TakenIn(l) == {b \in Block : ~b.free /\ \E i \in 1 .. Len(l) : l[i] = b}

\* What merging keeps.
MergedFrom(m, l) ==
  /\ m \in Seq(Block) /\ (m = <<>> <=> l = <<>>) /\ Len(m) <= Len(l)
  /\ \A end \in Nat : Tiles(l, end) => Tiles(m, end)
  /\ Coalesced(m)
  /\ TakenIn(m) = TakenIn(l)
  /\ Weight(m, FreeByte) = Weight(l, FreeByte) + HEADER * (Len(l) - Len(m))
  /\ Weight(m, TakenByte) = Weight(l, TakenByte)
  /\ Weight(m, FreeOne) = Weight(l, FreeOne) - (Len(l) - Len(m))
  /\ Weight(m, TakenOne) = Weight(l, TakenOne)

LEMMA IntWeights ==
  ASSUME NEW g \in [Block -> Int], NEW l \in Seq(Block)
  PROVE  /\ Weights(l, g) \in Seq(Int) /\ Len(Weights(l, g)) = Len(l)
         /\ \A i \in 1 .. Len(l) : Weights(l, g)[i] = g[l[i]]
         /\ Weight(l, g) \in Int
<1>1. DOMAIN l = 1 .. Len(l) /\ Len(l) \in Nat /\ \A i \in 1 .. Len(l) : l[i] \in Block
  OBVIOUS
<1>2. /\ Weights(l, g) \in Seq(Int) /\ Len(Weights(l, g)) = Len(l)
      /\ \A i \in 1 .. Len(l) : Weights(l, g)[i] = g[l[i]]
  BY <1>1 DEF Weights
<1> QED BY <1>2, SumType DEF Weight

LEMMA CountersTyped ==
  /\ FreeByte \in [Block -> Nat] /\ TakenByte \in [Block -> Nat]
  /\ FreeOne \in [Block -> Nat] /\ TakenOne \in [Block -> Nat]
  /\ FreeByte \in [Block -> Int] /\ TakenByte \in [Block -> Int]
  /\ FreeOne \in [Block -> Int] /\ TakenOne \in [Block -> Int]
BY DEF FreeByte, TakenByte, FreeOne, TakenOne, Block

\* The counters of a block.
LEMMA Counts ==
  ASSUME NEW b \in Block
  PROVE  /\ b.size \in Nat
         /\ b.free => /\ FreeByte[b] = b.size /\ TakenByte[b] = 0
                      /\ FreeOne[b] = 1 /\ TakenOne[b] = 0
         /\ ~b.free => /\ FreeByte[b] = 0 /\ TakenByte[b] = b.size
                       /\ FreeOne[b] = 0 /\ TakenOne[b] = 1
BY DEF FreeByte, TakenByte, FreeOne, TakenOne, Block

LEMMA WeightNat ==
  ASSUME NEW g \in [Block -> Nat], NEW l \in Seq(Block)
  PROVE  Weight(l, g) \in Nat
<1> DEFINE w == Weights(l, g)
<1>0. DOMAIN l = 1 .. Len(l) /\ Len(l) \in Nat /\ \A i \in 1 .. Len(l) : l[i] \in Block
  OBVIOUS
<1>1. w \in Seq(Nat) /\ w \in Seq(Int) BY <1>0 DEF Weights
<1> HIDE DEF w
<1>2. PICK f \in [0 .. Len(w) -> Int] :
        /\ f[0] = 0 /\ \A k \in 1 .. Len(w) : f[k] = f[k - 1] + w[k]
        /\ Sum(w) = f[Len(w)]
  BY <1>1, SumFacts
<1> DEFINE T == {k \in 0 .. Len(w) : f[k] \in Nat}
<1>3. Len(w) \in Nat BY <1>1
<1>4. 0 \in T BY <1>2, <1>3
<1>5. ASSUME NEW k \in 1 .. Len(w), k - 1 \in T PROVE k \in T
  <2>1. w[k] \in Nat /\ f[k - 1] \in Nat /\ k \in 0 .. Len(w) BY <1>1, <1>5
  <2> QED BY <1>2, <2>1
<1>6. 0 .. Len(w) \subseteq T
  <2> HIDE DEF T
  <2> QED BY <1>3, <1>4, <1>5, Inductive
<1> QED BY <1>2, <1>3, <1>6 DEF Weight, w

\* One block appended, one changed, one replaced by two.
LEMMA WeightAppend ==
  ASSUME NEW g \in [Block -> Int], NEW l \in Seq(Block), NEW b \in Block
  PROVE  Weight(Append(l, b), g) = Weight(l, g) + g[b]
<1> DEFINE m == Append(l, b)
<1>1. /\ m \in Seq(Block) /\ Len(m) = Len(l) + 1 /\ Len(l) \in Nat
      /\ m[Len(l) + 1] = b /\ \A i \in 1 .. Len(l) : m[i] = l[i]
  OBVIOUS
<1> HIDE DEF m
<1> DEFINE v == Weights(m, g)  w == Weights(l, g)
<1>2. /\ v \in Seq(Int) /\ w \in Seq(Int) /\ Len(v) = Len(l) + 1 /\ Len(w) = Len(l)
      /\ v[Len(l) + 1] = g[b] /\ \A i \in 1 .. Len(l) : v[i] = w[i]
  <2>1. /\ v \in Seq(Int) /\ Len(v) = Len(m) /\ \A i \in 1 .. Len(m) : v[i] = g[m[i]]
        /\ w \in Seq(Int) /\ Len(w) = Len(l) /\ \A i \in 1 .. Len(l) : w[i] = g[l[i]]
    BY <1>1, IntWeights
  <2> HIDE DEF v, w
  <2>2. v[Len(l) + 1] = g[b] BY <1>1, <2>1
  <2>3. ASSUME NEW i \in 1 .. Len(l) PROVE v[i] = w[i]
    <3>1. i \in 1 .. Len(m) /\ m[i] = l[i] BY <1>1
    <3> QED BY <2>1, <3>1
  <2> QED BY <1>1, <2>1, <2>2, <2>3
<1> HIDE DEF v, w
<1>3. g[b] \in Int OBVIOUS
<1>4. v = Append(w, g[b]) BY <1>1, <1>2, <1>3
<1> QED BY <1>2, <1>3, <1>4, SumAppend DEF Weight, v, w, m

LEMMA WeightChange ==
  ASSUME NEW g \in [Block -> Int],
         NEW l \in Seq(Block), NEW m \in Seq(Block), NEW i \in 1 .. Len(l),
         Len(m) = Len(l), \A k \in 1 .. Len(l) : k # i => m[k] = l[k]
  PROVE  Weight(m, g) = Weight(l, g) - g[l[i]] + g[m[i]]
<1> DEFINE v == Weights(m, g)  w == Weights(l, g)
<1>1. /\ v \in Seq(Int) /\ w \in Seq(Int) /\ Len(v) = Len(w) /\ Len(w) = Len(l)
      /\ w[i] = g[l[i]] /\ v[i] = g[m[i]]
      /\ \A k \in 1 .. Len(l) : k # i => v[k] = w[k]
  <2>1. /\ v \in Seq(Int) /\ Len(v) = Len(m) /\ \A k \in 1 .. Len(m) : v[k] = g[m[k]]
    BY IntWeights
  <2>2. /\ w \in Seq(Int) /\ Len(w) = Len(l) /\ \A k \in 1 .. Len(l) : w[k] = g[l[k]]
    BY IntWeights
  <2> HIDE DEF v, w
  <2> QED BY <2>1, <2>2
<1> HIDE DEF v, w
<1>2. Sum(v) = Sum(w) - w[i] + v[i] BY <1>1, SumChange
<1> QED BY <1>1, <1>2 DEF Weight, v, w

LEMMA WeightSplit ==
  ASSUME NEW g \in [Block -> Int],
         NEW l \in Seq(Block), NEW m \in Seq(Block), NEW i \in 1 .. Len(l),
         Len(m) = Len(l) + 1,
         \A k \in 1 .. Len(l) : (k < i => m[k] = l[k]) /\ (k > i => m[k + 1] = l[k])
  PROVE  Weight(m, g) = Weight(l, g) - g[l[i]] + g[m[i]] + g[m[i + 1]]
<1> DEFINE v == Weights(m, g)  w == Weights(l, g)
<1>0. Len(l) \in Nat /\ \A k \in 1 .. Len(l) : k \in 1 .. Len(m) /\ k + 1 \in 1 .. Len(m)
  OBVIOUS
<1>1. /\ v \in Seq(Int) /\ w \in Seq(Int) /\ Len(v) = Len(w) + 1 /\ Len(w) = Len(l)
      /\ \A k \in 1 .. Len(l) : w[k] = g[l[k]]
      /\ \A k \in 1 .. Len(m) : v[k] = g[m[k]]
  BY IntWeights
<1> HIDE DEF v, w
<1>2. ASSUME NEW k \in 1 .. Len(w)
      PROVE  (k < i => v[k] = w[k]) /\ (k > i => v[k + 1] = w[k])
  <2>1. k \in 1 .. Len(l) /\ k \in 1 .. Len(m) /\ k + 1 \in 1 .. Len(m) BY <1>0, <1>1
  <2>2. w[k] = g[l[k]] /\ v[k] = g[m[k]] /\ v[k + 1] = g[m[k + 1]] BY <1>1, <2>1
  <2> QED BY <2>1, <2>2
<1>3. i \in 1 .. Len(w) BY <1>1
<1>4. Sum(v) = Sum(w) - w[i] + v[i] + v[i + 1] BY <1>1, <1>2, <1>3, SumSplit
<1> QED BY <1>0, <1>1, <1>4 DEF Weight, v, w

-----------------------------------------------------------------------------
(* Tilings                                                                 *)

LEMMA BlockFacts ==
  ASSUME NEW l \in Seq(Block), NEW i \in 1 .. Len(l)
  PROVE  /\ l[i] \in Block /\ l[i].addr \in Nat /\ l[i].size \in Nat /\ l[i].free \in BOOLEAN
         /\ Data(l[i]) = l[i].addr + HEADER
<1>1. l[i] \in Block OBVIOUS
<1> QED BY <1>1 DEF Block, Data

\* Blocks lie in the order of the list, and none overlaps another.
LEMMA TilesOrdered ==
  ASSUME NEW l \in Seq(Block), NEW end \in Nat, Tiles(l, end), NEW i \in 1 .. Len(l)
  PROVE  /\ \A j \in 1 .. Len(l) : i < j => Data(l[i]) + l[i].size <= l[j].addr
         /\ Data(l[i]) + l[i].size <= end
<1> DEFINE n == Len(l)
           T == {k \in 0 .. n : k > i => Data(l[i]) + l[i].size <= l[k].addr}
<1>0. n \in Nat /\ 0 \in T OBVIOUS
<1>1. HEADER \in Nat BY PoolAssumption
<1>2. ASSUME NEW k \in 1 .. n, k - 1 \in T PROVE k \in T
  <2>1. CASE k <= i BY <2>1
  <2>2. CASE k > i
    <3>1. k - 1 \in 1 .. n /\ k - 1 # n /\ k - 1 + 1 = k BY <2>2
    <3>2. Data(l[k - 1]) + l[k - 1].size = l[k].addr BY <3>1 DEF Tiles
    <3>3. /\ l[k - 1].addr \in Nat /\ l[k - 1].size \in Nat
          /\ Data(l[k - 1]) = l[k - 1].addr + HEADER
      BY <3>1, BlockFacts
    <3>4. l[k - 1].addr <= l[k].addr BY <1>1, <3>2, <3>3
    <3>5. /\ l[k].addr \in Nat /\ l[i].addr \in Nat /\ l[i].size \in Nat
          /\ Data(l[i]) = l[i].addr + HEADER
      BY BlockFacts
    <3>6. Data(l[i]) + l[i].size <= l[k].addr
      <4>1. CASE k - 1 = i BY <4>1, <3>2, <3>5, <1>1
      <4>2. CASE k - 1 > i
        <5>1. Data(l[i]) + l[i].size <= l[k - 1].addr BY <1>2, <4>2
        <5>2. /\ Data(l[i]) + l[i].size \in Int /\ l[k - 1].addr \in Int /\ l[k].addr \in Int
          <6>1. Data(l[i]) + l[i].size \in Int BY <1>1, <3>5
          <6> QED BY <6>1, <3>3, <3>5
        <5> QED BY <3>4, <5>1, <5>2
      <4> QED BY <2>2, <4>1, <4>2
    <3> QED BY <3>6
  <2> QED BY <2>1, <2>2
<1>3. 0 .. n \subseteq T
  <2> HIDE DEF T, n
  <2> QED BY <1>0, <1>2, Inductive
<1>4. \A j \in 1 .. n : i < j => Data(l[i]) + l[i].size <= l[j].addr
  <2>1. \A j \in 1 .. n : j \in 0 .. n OBVIOUS
  <2> QED BY <1>3, <2>1
<1>5. Data(l[i]) + l[i].size <= end
  <2>1. n \in 1 .. n BY <1>0
  <2>2. Data(l[n]) + l[n].size = end BY <2>1 DEF Tiles
  <2>3. /\ l[n].addr \in Nat /\ l[n].size \in Nat /\ Data(l[n]) = l[n].addr + HEADER
        /\ l[i].addr \in Nat /\ l[i].size \in Nat /\ Data(l[i]) = l[i].addr + HEADER
    BY <2>1, BlockFacts
  <2>4. CASE i = n BY <2>2, <2>3, <2>4, <1>1
  <2>5. CASE i < n
    <3>1. Data(l[i]) + l[i].size <= l[n].addr BY <1>4, <2>1, <2>5
    <3>2. Data(l[i]) + l[i].size \in Int /\ Data(l[n]) \in Int BY <2>3, <1>1
    <3> HIDE DEF n, T
    <3>3. PICK a \in Nat, u \in Nat : a = l[n].addr /\ u = l[n].size BY <2>3
    <3>4. (a + HEADER) + u = end BY <2>2, <2>3, <3>3
    <3>5. a <= end BY <1>1, <3>4
    <3> QED BY <3>1, <3>2, <3>3, <3>5
  <2> QED BY <2>4, <2>5, <1>0
<1> QED BY <1>4, <1>5

LEMMA TilesDistinct ==
  ASSUME NEW l \in Seq(Block), NEW end \in Nat, Tiles(l, end),
         NEW i \in 1 .. Len(l), NEW j \in 1 .. Len(l), l[i].addr = l[j].addr
  PROVE  i = j
<1>1. /\ i < j => Data(l[i]) + l[i].size <= l[j].addr
      /\ j < i => Data(l[j]) + l[j].size <= l[i].addr
  BY TilesOrdered
<1>2. HEADER \in Nat \ {0} BY PoolAssumption
<1> QED BY <1>1, <1>2, BlockFacts

\* What does not touch the place of a block keeps the tiling.
LEMMA TilesChange ==
  ASSUME NEW l \in Seq(Block), NEW m \in Seq(Block), NEW end \in Nat, Tiles(l, end),
         Len(m) = Len(l),
         \A k \in 1 .. Len(l) : m[k].addr = l[k].addr /\ m[k].size = l[k].size
  PROVE  Tiles(m, end)
<1>1. m # <<>> /\ m[1].addr = 0
  BY DEF Tiles
<1>2. ASSUME NEW i \in 1 .. Len(m)
      PROVE  Data(m[i]) + m[i].size = IF i = Len(m) THEN end ELSE m[i + 1].addr
  <2>1. Data(l[i]) + l[i].size = IF i = Len(l) THEN end ELSE l[i + 1].addr BY DEF Tiles
  <2>2. m[i].addr = l[i].addr /\ m[i].size = l[i].size OBVIOUS
  <2>3. i # Len(l) => m[i + 1].addr = l[i + 1].addr OBVIOUS
  <2> QED BY <2>1, <2>2, <2>3 DEF Data
<1>3. \A i \in 1 .. Len(m) : m[i].size >= ALIGN_SIZE /\ m[i].addr % ALIGN_SIZE = 0
  BY DEF Tiles
<1> QED BY <1>1, <1>2, <1>3 DEF Tiles

\* Nor does cutting a block in two that fill its place.
LEMMA TilesSplit ==
  ASSUME NEW l \in Seq(Block), NEW m \in Seq(Block), NEW end \in Nat, Tiles(l, end),
         NEW i \in 1 .. Len(l), Len(m) = Len(l) + 1,
         \A k \in 1 .. Len(l) : (k < i => m[k] = l[k]) /\ (k > i => m[k + 1] = l[k]),
         m[i].addr = l[i].addr, m[i + 1].addr = Data(m[i]) + m[i].size,
         Data(m[i + 1]) + m[i + 1].size = Data(l[i]) + l[i].size,
         m[i].size >= ALIGN_SIZE, m[i + 1].size >= ALIGN_SIZE, m[i + 1].addr % ALIGN_SIZE = 0
  PROVE  Tiles(m, end)
<1>0. Len(l) \in Nat /\ Len(l) >= 1 OBVIOUS
<1>1. m # <<>> /\ m[1].addr = 0
  <2>1. i = 1 \/ 1 < i OBVIOUS
  <2> QED BY <1>0, <2>1 DEF Tiles
<1>2. ASSUME NEW k \in 1 .. Len(m)
      PROVE  Data(m[k]) + m[k].size = IF k = Len(m) THEN end ELSE m[k + 1].addr
  <2>1. CASE k < i
    <3>1. k \in 1 .. Len(l) /\ k # Len(l) /\ k + 1 \in 1 .. Len(l) /\ k # Len(m) BY <2>1, <1>0
    <3>2. m[k] = l[k] BY <2>1, <3>1
    <3>3. Data(l[k]) + l[k].size = l[k + 1].addr BY <3>1 DEF Tiles
    <3>4. m[k + 1].addr = l[k + 1].addr
      <4>1. CASE k + 1 < i BY <4>1, <3>1
      <4>2. CASE k + 1 = i BY <4>2
      <4> QED BY <2>1, <4>1, <4>2
    <3> QED BY <3>1, <3>2, <3>3, <3>4
  <2>2. CASE k = i BY <2>2, <1>0
  <2>3. CASE k > i
    <3>0. k - 1 \in 1 .. Len(l) /\ k = k - 1 + 1 BY <2>3, <1>0
    <3>1. PICK j \in 1 .. Len(l) : k = j + 1 BY <3>0
    <3>2. Data(l[j]) + l[j].size = IF j = Len(l) THEN end ELSE l[j + 1].addr BY DEF Tiles
    <3>3. CASE j = i
      <4>1. j # Len(l) => m[j + 2] = l[j + 1]
        <5>1. j # Len(l) => j + 1 \in 1 .. Len(l) /\ j + 1 > i /\ j + 1 + 1 = j + 2 BY <3>3
        <5> QED BY <5>1
      <4>2. j + 1 + 1 = j + 2 OBVIOUS
      <4> QED BY <3>1, <3>2, <3>3, <4>1, <4>2, <1>0
    <3>4. CASE j > i
      <4>1. m[j + 1] = l[j] BY <3>4
      <4>2. j # Len(l) => m[j + 2] = l[j + 1]
        <5>1. j # Len(l) => j + 1 \in 1 .. Len(l) /\ j + 1 > i /\ j + 1 + 1 = j + 2 BY <3>4
        <5> QED BY <5>1
      <4>3. j + 1 + 1 = j + 2 OBVIOUS
      <4> QED BY <3>1, <3>2, <4>1, <4>2, <4>3, <1>0
    <3> QED BY <2>3, <3>1, <3>3, <3>4
  <2> QED BY <2>1, <2>2, <2>3
<1>3. ASSUME NEW k \in 1 .. Len(m)
      PROVE  m[k].size >= ALIGN_SIZE /\ m[k].addr % ALIGN_SIZE = 0
  <2>1. CASE k < i BY <2>1, <1>0 DEF Tiles
  <2>2. CASE k = i BY <2>2 DEF Tiles
  <2>3. CASE k = i + 1 BY <2>3
  <2>4. CASE k > i + 1
    <3>0. k - 1 \in 1 .. Len(l) /\ k = k - 1 + 1 BY <2>4, <1>0
    <3>1. PICK j \in 1 .. Len(l) : k = j + 1 BY <3>0
    <3>2. m[j + 1] = l[j] BY <2>4, <3>1
    <3> QED BY <3>1, <3>2 DEF Tiles
  <2> QED BY <2>1, <2>2, <2>3, <2>4
<1> QED BY <1>1, <1>2, <1>3 DEF Tiles

-----------------------------------------------------------------------------
(* Changes of the list                                                     *)

Replaced(l, i, new) == SubSeq(l, 1, i - 1) \o new \o SubSeq(l, i + 1, Len(l))

LEMMA Joined ==
  ASSUME NEW p \in Seq(Block), NEW q \in Seq(Block)
  PROVE  /\ p \o q \in Seq(Block) /\ Len(p \o q) = Len(p) + Len(q)
         /\ \A k \in 1 .. Len(p) : (p \o q)[k] = p[k]
         /\ \A k \in 1 .. Len(q) : (p \o q)[Len(p) + k] = q[k]
OBVIOUS

LEMMA Around ==
  ASSUME NEW l \in Seq(Block), NEW i \in 1 .. Len(l), NEW n \in Seq(Block)
  PROVE  LET m == SubSeq(l, 1, i - 1) \o n \o SubSeq(l, i + 1, Len(l)) IN
         /\ m \in Seq(Block) /\ Len(m) = Len(l) - 1 + Len(n)
         /\ \A k \in 1 .. i - 1 : m[k] = l[k]
         /\ \A k \in 1 .. Len(n) : m[i - 1 + k] = n[k]
         /\ \A k \in i + 1 .. Len(l) : m[Len(n) + k - 1] = l[k]
<1> DEFINE p == SubSeq(l, 1, i - 1)  q == SubSeq(l, i + 1, Len(l))
           pn == p \o n  m == SubSeq(l, 1, i - 1) \o n \o SubSeq(l, i + 1, Len(l))
<1>0. Len(l) \in Nat /\ Len(n) \in Nat OBVIOUS
<1>1. p \in Seq(Block) /\ Len(p) = i - 1 /\ \A k \in 1 .. i - 1 : p[k] = l[k]
  OBVIOUS
<1>2. q \in Seq(Block) /\ Len(q) = Len(l) - i /\ \A k \in 1 .. Len(l) - i : q[k] = l[i + k]
  OBVIOUS
<1>3. m = pn \o q OBVIOUS
<1> HIDE DEF m, p, q
<1>4. /\ pn \in Seq(Block) /\ Len(pn) = i - 1 + Len(n)
      /\ \A k \in 1 .. i - 1 : pn[k] = l[k]
      /\ \A j \in 1 .. Len(n) : pn[i - 1 + j] = n[j]
  <2>1. /\ pn \in Seq(Block) /\ Len(pn) = Len(p) + Len(n)
        /\ \A k \in 1 .. Len(p) : pn[k] = p[k]
        /\ \A k \in 1 .. Len(n) : pn[Len(p) + k] = n[k]
    BY <1>1, Joined
  <2> QED BY <1>1, <2>1
<1> HIDE DEF pn
<1>5. /\ m \in Seq(Block) /\ Len(m) = Len(pn) + Len(q)
      /\ \A k \in 1 .. Len(pn) : m[k] = pn[k]
      /\ \A k \in 1 .. Len(q) : m[Len(pn) + k] = q[k]
  <2>1. /\ pn \o q \in Seq(Block) /\ Len(pn \o q) = Len(pn) + Len(q)
        /\ \A k \in 1 .. Len(pn) : (pn \o q)[k] = pn[k]
        /\ \A k \in 1 .. Len(q) : (pn \o q)[Len(pn) + k] = q[k]
    BY <1>2, <1>4, Joined
  <2> QED BY <1>3, <2>1
<1>6. ASSUME NEW k \in 1 .. i - 1 PROVE m[k] = l[k]
  <2>1. k \in 1 .. Len(pn) BY <1>0, <1>4
  <2>2. pn[k] = l[k] BY <1>4
  <2> QED BY <1>5, <2>1, <2>2
<1>7. ASSUME NEW k \in 1 .. Len(n) PROVE m[i - 1 + k] = n[k]
  <2>1. i - 1 + k \in 1 .. Len(pn) BY <1>0, <1>4
  <2>2. pn[i - 1 + k] = n[k] BY <1>4
  <2> QED BY <1>5, <2>1, <2>2
<1>8. ASSUME NEW k \in i + 1 .. Len(l) PROVE m[Len(n) + k - 1] = l[k]
  <2>1. /\ k - i \in 1 .. Len(q) /\ k - i \in 1 .. Len(l) - i /\ i + (k - i) = k
        /\ Len(pn) + (k - i) = Len(n) + k - 1
    BY <1>0, <1>2, <1>4
  <2>2. m[Len(pn) + (k - i)] = q[k - i] BY <1>5, <2>1
  <2>3. q[k - i] = l[i + (k - i)] BY <1>2, <2>1
  <2> QED BY <2>1, <2>2, <2>3
<1>9. Len(m) = Len(l) - 1 + Len(n) BY <1>0, <1>2, <1>4, <1>5
<1> QED BY <1>5, <1>6, <1>7, <1>8, <1>9 DEF m

\* A block replaced by one, or by two.
LEMMA SpliceOne ==
  ASSUME NEW l \in Seq(Block), NEW i \in 1 .. Len(l), NEW b \in Block, NEW m,
         m = Replaced(l, i, <<b>>)
  PROVE  /\ m \in Seq(Block) /\ Len(m) = Len(l) /\ m[i] = b
         /\ \A k \in 1 .. Len(l) : k # i => m[k] = l[k]
<1>0. Len(l) \in Nat /\ <<b>> \in Seq(Block) /\ Len(<<b>>) = 1 /\ <<b>>[1] = b OBVIOUS
<1> DEFINE n == <<b>>
<1>1. m = SubSeq(l, 1, i - 1) \o n \o SubSeq(l, i + 1, Len(l)) BY DEF Replaced
<1> HIDE DEF n
<1>2. /\ m \in Seq(Block) /\ Len(m) = Len(l) - 1 + Len(n)
      /\ \A k \in 1 .. i - 1 : m[k] = l[k]
      /\ \A k \in 1 .. Len(n) : m[i - 1 + k] = n[k]
      /\ \A k \in i + 1 .. Len(l) : m[Len(n) + k - 1] = l[k]
  <2>1. n \in Seq(Block) BY <1>0 DEF n
  <2> DEFINE a == SubSeq(l, 1, i - 1) \o n \o SubSeq(l, i + 1, Len(l))
  <2>2. /\ a \in Seq(Block) /\ Len(a) = Len(l) - 1 + Len(n)
        /\ \A k \in 1 .. i - 1 : a[k] = l[k]
        /\ \A k \in 1 .. Len(n) : a[i - 1 + k] = n[k]
        /\ \A k \in i + 1 .. Len(l) : a[Len(n) + k - 1] = l[k]
    BY <2>1, Around
  <2> HIDE DEF a
  <2> QED BY <1>1, <2>2 DEF a
<1>3. n \in Seq(Block) /\ Len(n) = 1 /\ n[1] = b BY <1>0 DEF n
<1>4. m[i] = b
  <2>1. 1 \in 1 .. Len(n) /\ i - 1 + 1 = i BY <1>0, <1>3
  <2> QED BY <1>3, <1>2, <2>1
<1>5. ASSUME NEW k \in 1 .. Len(l), k # i PROVE m[k] = l[k]
  <2>1. k \in 1 .. i - 1 \/ (k \in i + 1 .. Len(l) /\ 1 + k - 1 = k) BY <1>0, <1>5
  <2> QED BY <1>3, <1>2, <2>1
<1>6. m \in Seq(Block) /\ Len(m) = Len(l) BY <1>0, <1>2, <1>3
<1> QED BY <1>4, <1>5, <1>6

LEMMA SpliceTwo ==
  ASSUME NEW l \in Seq(Block), NEW i \in 1 .. Len(l), NEW b \in Block, NEW c \in Block, NEW m,
         m = Replaced(l, i, <<b, c>>)
  PROVE  /\ m \in Seq(Block) /\ Len(m) = Len(l) + 1 /\ m[i] = b /\ m[i + 1] = c
         /\ \A k \in 1 .. Len(l) : (k < i => m[k] = l[k]) /\ (k > i => m[k + 1] = l[k])
<1>0. /\ Len(l) \in Nat /\ <<b, c>> \in Seq(Block) /\ Len(<<b, c>>) = 2
      /\ <<b, c>>[1] = b /\ <<b, c>>[2] = c
  OBVIOUS
<1> DEFINE n == <<b, c>>
<1>1. m = SubSeq(l, 1, i - 1) \o n \o SubSeq(l, i + 1, Len(l)) BY DEF Replaced
<1> HIDE DEF n
<1>2. /\ m \in Seq(Block) /\ Len(m) = Len(l) - 1 + Len(n)
      /\ \A k \in 1 .. i - 1 : m[k] = l[k]
      /\ \A k \in 1 .. Len(n) : m[i - 1 + k] = n[k]
      /\ \A k \in i + 1 .. Len(l) : m[Len(n) + k - 1] = l[k]
  <2>1. n \in Seq(Block) BY <1>0 DEF n
  <2> DEFINE a == SubSeq(l, 1, i - 1) \o n \o SubSeq(l, i + 1, Len(l))
  <2>2. /\ a \in Seq(Block) /\ Len(a) = Len(l) - 1 + Len(n)
        /\ \A k \in 1 .. i - 1 : a[k] = l[k]
        /\ \A k \in 1 .. Len(n) : a[i - 1 + k] = n[k]
        /\ \A k \in i + 1 .. Len(l) : a[Len(n) + k - 1] = l[k]
    BY <2>1, Around
  <2> HIDE DEF a
  <2> QED BY <1>1, <2>2 DEF a
<1>3. n \in Seq(Block) /\ Len(n) = 2 /\ n[1] = b /\ n[2] = c BY <1>0 DEF n
<1>4. m[i] = b /\ m[i + 1] = c
  <2>1. 1 \in 1 .. Len(n) /\ i - 1 + 1 = i /\ 2 \in 1 .. Len(n) /\ i - 1 + 2 = i + 1
    BY <1>0, <1>3
  <2> QED BY <1>3, <1>2, <2>1
<1>5. ASSUME NEW k \in 1 .. Len(l)
      PROVE (k < i => m[k] = l[k]) /\ (k > i => m[k + 1] = l[k])
  <2>1. /\ k < i => k \in 1 .. i - 1
        /\ k > i => k \in i + 1 .. Len(l) /\ 2 + k - 1 = k + 1
    BY <1>0, <1>3
  <2>2. k < i => m[k] = l[k] BY <1>2, <2>1
  <2>3. k > i => m[Len(n) + k - 1] = l[k] BY <1>2, <2>1
  <2>4. k > i => m[k + 1] = l[k] BY <1>3, <2>1, <2>3
  <2> QED BY <2>2, <2>4
<1>6. m \in Seq(Block) /\ Len(m) = Len(l) + 1 BY <1>0, <1>2, <1>3
<1> QED BY <1>4, <1>5, <1>6

-----------------------------------------------------------------------------
(* The merge loop                                                          *)

\* One block changes: what the list keeps and counts.
LEMMA TakenChange ==
  ASSUME NEW l \in Seq(Block), NEW end \in Nat, Tiles(l, end),
         NEW m \in Seq(Block), NEW i \in 1 .. Len(l), Len(m) = Len(l),
         \A k \in 1 .. Len(l) : k # i => m[k] = l[k]
  PROVE  TakenIn(m) = (TakenIn(l) \ {l[i]}) \union (IF m[i].free THEN {} ELSE {m[i]})
<1>0. Len(l) \in Nat OBVIOUS
<1>1. ASSUME NEW b \in TakenIn(m)
      PROVE  b \in (TakenIn(l) \ {l[i]}) \union (IF m[i].free THEN {} ELSE {m[i]})
  <2>1. PICK k \in 1 .. Len(l) : m[k] = b /\ b \in Block /\ ~b.free BY <1>1 DEF TakenIn
  <2>2. CASE k = i BY <2>1, <2>2
  <2>3. CASE k # i
    <3>1. l[k] = b /\ b \in TakenIn(l) BY <2>1, <2>3 DEF TakenIn
    <3>2. l[i] # b BY <2>3, <3>1, TilesDistinct
    <3> QED BY <3>1, <3>2
  <2> QED BY <2>2, <2>3
<1>2. ASSUME NEW b \in TakenIn(l), b # l[i] PROVE b \in TakenIn(m)
  <2>1. PICK k \in 1 .. Len(l) : l[k] = b /\ b \in Block /\ ~b.free BY <1>2 DEF TakenIn
  <2>2. m[k] = b BY <1>2, <2>1
  <2> QED BY <2>1, <2>2 DEF TakenIn
<1>3. ~m[i].free => m[i] \in TakenIn(m)
  <2>1. m[i] \in Block OBVIOUS
  <2> QED BY <2>1 DEF TakenIn
<1> QED BY <1>1, <1>2, <1>3

LEMMA TakenSplit ==
  ASSUME NEW l \in Seq(Block), NEW end \in Nat, Tiles(l, end),
         NEW m \in Seq(Block), NEW i \in 1 .. Len(l), Len(m) = Len(l) + 1,
         \A k \in 1 .. Len(l) : (k < i => m[k] = l[k]) /\ (k > i => m[k + 1] = l[k]),
         ~m[i].free, m[i + 1].free
  PROVE  TakenIn(m) = (TakenIn(l) \ {l[i]}) \union {m[i]}
<1>0. Len(l) \in Nat OBVIOUS
<1>1. ASSUME NEW b \in TakenIn(m), b # m[i] PROVE b \in TakenIn(l) \ {l[i]}
  <2>1. PICK k \in 1 .. Len(m) : m[k] = b /\ b \in Block /\ ~b.free BY <1>1 DEF TakenIn
  <2>2. k # i /\ k # i + 1 BY <1>1, <2>1
  <2>3. PICK j \in 1 .. Len(l) : j # i /\ l[j] = b
    <3>1. CASE k < i
      <4>1. k \in 1 .. Len(l) BY <3>1, <1>0
      <4> QED BY <2>1, <3>1, <4>1
    <3>2. CASE k > i + 1
      <4>1. k - 1 \in 1 .. Len(l) /\ k - 1 > i /\ k - 1 + 1 = k BY <3>2, <1>0
      <4>2. m[k - 1 + 1] = l[k - 1] BY <4>1
      <4> QED BY <2>1, <4>1, <4>2
    <3> QED BY <2>2, <3>1, <3>2
  <2>4. b \in TakenIn(l) BY <2>1, <2>3 DEF TakenIn
  <2>5. l[i] # b BY <2>3, TilesDistinct
  <2> QED BY <2>4, <2>5
<1>2. ASSUME NEW b \in TakenIn(l), b # l[i] PROVE b \in TakenIn(m)
  <2>1. PICK k \in 1 .. Len(l) : l[k] = b /\ b \in Block /\ ~b.free BY <1>2 DEF TakenIn
  <2>2. CASE k < i
    <3>1. k \in 1 .. Len(m) /\ m[k] = b BY <1>0, <2>1, <2>2
    <3> QED BY <2>1, <3>1 DEF TakenIn
  <2>3. CASE k > i
    <3>1. k + 1 \in 1 .. Len(m) /\ m[k + 1] = b BY <1>0, <2>1, <2>3
    <3> QED BY <2>1, <3>1 DEF TakenIn
  <2> QED BY <1>2, <2>1, <2>2, <2>3
<1>3. m[i] \in TakenIn(m)
  <2>1. i \in 1 .. Len(m) /\ m[i] \in Block BY <1>0
  <2> QED BY <2>1 DEF TakenIn
<1> QED BY <1>1, <1>2, <1>3

\* A list of blocks and the block behind it.
LEMMA Appended ==
  ASSUME NEW l \in Seq(Block), NEW b \in Block
  PROVE  /\ Append(l, b) \in Seq(Block) /\ Len(Append(l, b)) = Len(l) + 1
         /\ Append(l, b)[Len(l) + 1] = b /\ \A k \in 1 .. Len(l) : Append(l, b)[k] = l[k]
         /\ Len(l) \in Nat
OBVIOUS

LEMMA TilesAppend ==
  ASSUME NEW l \in Seq(Block), NEW b \in Block, NEW end \in Nat
  PROVE  Tiles(Append(l, b), end) <=>
           /\ IF l = <<>> THEN b.addr = 0 ELSE Tiles(l, b.addr)
           /\ Data(b) + b.size = end /\ b.size >= ALIGN_SIZE /\ b.addr % ALIGN_SIZE = 0
<1> DEFINE m == Append(l, b)
<1>1. /\ m \in Seq(Block) /\ Len(m) = Len(l) + 1 /\ m[Len(l) + 1] = b
      /\ \A k \in 1 .. Len(l) : m[k] = l[k]
      /\ Len(l) \in Nat /\ (l = <<>> <=> Len(l) = 0)
  BY Appended
<1> HIDE DEF m
<1>2. ASSUME Tiles(m, end)
      PROVE  /\ IF l = <<>> THEN b.addr = 0 ELSE Tiles(l, b.addr)
             /\ Data(b) + b.size = end /\ b.size >= ALIGN_SIZE /\ b.addr % ALIGN_SIZE = 0
  <2>1. Len(m) \in 1 .. Len(m) BY <1>1
  <2>2. Data(b) + b.size = end /\ b.size >= ALIGN_SIZE /\ b.addr % ALIGN_SIZE = 0
    BY <1>1, <1>2, <2>1 DEF Tiles
  <2>3. l = <<>> => b.addr = 0 BY <1>1, <1>2 DEF Tiles
  <2>4. ASSUME l # <<>> PROVE Tiles(l, b.addr)
    <3>1. l[1].addr = 0 BY <1>1, <1>2, <2>4 DEF Tiles
    <3>2. ASSUME NEW k \in 1 .. Len(l)
          PROVE  /\ Data(l[k]) + l[k].size = IF k = Len(l) THEN b.addr ELSE l[k + 1].addr
                 /\ l[k].size >= ALIGN_SIZE /\ l[k].addr % ALIGN_SIZE = 0
      <4>1. k \in 1 .. Len(m) /\ k # Len(m) /\ m[k] = l[k] BY <1>1
      <4>2. Data(m[k]) + m[k].size = m[k + 1].addr BY <1>2, <4>1 DEF Tiles
      <4>3. m[k].size >= ALIGN_SIZE /\ m[k].addr % ALIGN_SIZE = 0 BY <1>2, <4>1 DEF Tiles
      <4>4. k # Len(l) => m[k + 1] = l[k + 1]
        <5>1. k # Len(l) => k + 1 \in 1 .. Len(l) BY <1>1
        <5> QED BY <5>1, <1>1
      <4> QED BY <1>1, <4>1, <4>2, <4>3, <4>4
    <3> QED BY <2>4, <3>1, <3>2 DEF Tiles
  <2> QED BY <2>2, <2>3, <2>4
<1>3. ASSUME IF l = <<>> THEN b.addr = 0 ELSE Tiles(l, b.addr),
             Data(b) + b.size = end, b.size >= ALIGN_SIZE, b.addr % ALIGN_SIZE = 0
      PROVE  Tiles(m, end)
  <2>1. m # <<>> /\ m[1].addr = 0
    <3>1. CASE l = <<>> BY <1>1, <1>3, <3>1
    <3>2. CASE l # <<>>
      <4>1. l[1].addr = 0 /\ 1 \in 1 .. Len(l) BY <1>1, <1>3, <3>2 DEF Tiles
      <4> QED BY <1>1, <4>1
    <3> QED BY <3>1, <3>2
  <2>2. ASSUME NEW k \in 1 .. Len(m)
        PROVE  /\ Data(m[k]) + m[k].size = IF k = Len(m) THEN end ELSE m[k + 1].addr
               /\ m[k].size >= ALIGN_SIZE /\ m[k].addr % ALIGN_SIZE = 0
    <3>1. CASE k = Len(m) BY <1>1, <1>3, <3>1
    <3>2. CASE k # Len(m)
      <4>1. k \in 1 .. Len(l) /\ m[k] = l[k] /\ l # <<>> BY <1>1, <3>2
      <4>2. /\ Data(l[k]) + l[k].size = IF k = Len(l) THEN b.addr ELSE l[k + 1].addr
            /\ l[k].size >= ALIGN_SIZE /\ l[k].addr % ALIGN_SIZE = 0
        BY <1>3, <4>1 DEF Tiles
      <4>3. k # Len(l) => m[k + 1] = l[k + 1]
        <5>1. k # Len(l) => k + 1 \in 1 .. Len(l) BY <1>1, <4>1
        <5> QED BY <5>1, <1>1
      <4> QED BY <1>1, <3>2, <4>1, <4>2, <4>3
    <3> QED BY <3>1, <3>2
  <2> QED BY <2>1, <2>2 DEF Tiles
<1> QED BY <1>2, <1>3 DEF m

\* The last block takes in the header and the bytes of the block behind it.
LEMMA TilesGrow ==
  ASSUME NEW m \in Seq(Block), NEW r \in Seq(Block), NEW b \in Block, NEW end \in Nat,
         Tiles(m, b.addr), Data(b) + b.size = end,
         Len(r) = Len(m), \A k \in 1 .. Len(m) : r[k].addr = m[k].addr,
         \A k \in 1 .. Len(m) - 1 : r[k] = m[k],
         r[Len(m)].size = m[Len(m)].size + HEADER + b.size
  PROVE  Tiles(r, end)
<1>0. Len(m) \in Nat /\ Len(m) \in 1 .. Len(m) /\ HEADER \in Nat /\ ALIGN_SIZE \in Nat
  BY PoolAssumption DEF Tiles
<1>1. r # <<>> /\ r[1].addr = 0 BY <1>0 DEF Tiles
<1>2. Data(r[Len(m)]) + r[Len(m)].size = end
  <2>1. Data(m[Len(m)]) + m[Len(m)].size = b.addr BY <1>0 DEF Tiles
  <2>2. r[Len(m)].addr = m[Len(m)].addr BY <1>0
  <2>3. m[Len(m)].addr \in Nat /\ m[Len(m)].size \in Nat BY <1>0, BlockFacts
  <2>4. b.addr \in Nat /\ b.size \in Nat BY DEF Block
  <2>5. /\ m[Len(m)].addr + HEADER + m[Len(m)].size = b.addr
        /\ b.addr + HEADER + b.size = end
    BY <2>1 DEF Data
  <2>6. r[Len(m)].addr + HEADER + r[Len(m)].size = end
    <3>1. PICK p \in Nat, q \in Nat, x \in Nat, y \in Nat :
            p = m[Len(m)].addr /\ q = m[Len(m)].size /\ x = b.addr /\ y = b.size
      BY <2>3, <2>4
    <3>2. p + HEADER + q = x /\ x + HEADER + y = end BY <2>5, <3>1
    <3>3. p + HEADER + (q + HEADER + y) = end BY <1>0, <3>2
    <3> QED BY <2>2, <3>1, <3>3
  <2> QED BY <2>6 DEF Data
<1>3. ASSUME NEW k \in 1 .. Len(r), k # Len(r)
      PROVE  Data(r[k]) + r[k].size = r[k + 1].addr
  <2>1. k \in 1 .. Len(m) - 1 /\ k \in 1 .. Len(m) /\ k + 1 \in 1 .. Len(m) BY <1>0, <1>3
  <2>2. Data(m[k]) + m[k].size = m[k + 1].addr BY <1>3, <2>1 DEF Tiles
  <2> QED BY <2>1, <2>2
<1>4. ASSUME NEW k \in 1 .. Len(r)
      PROVE  r[k].size >= ALIGN_SIZE /\ r[k].addr % ALIGN_SIZE = 0
  <2>1. m[k].size >= ALIGN_SIZE /\ m[k].addr % ALIGN_SIZE = 0 /\ r[k].addr = m[k].addr
    BY DEF Tiles
  <2>2. m[k].size \in Nat /\ b.size \in Nat BY BlockFacts DEF Block
  <2>3. k = Len(m) \/ k \in 1 .. Len(m) - 1 BY <1>0
  <2> QED BY <1>0, <2>1, <2>2, <2>3
<1>5. ASSUME NEW k \in 1 .. Len(r)
      PROVE  Data(r[k]) + r[k].size = IF k = Len(r) THEN end ELSE r[k + 1].addr
  BY <1>2, <1>3
<1> QED BY <1>1, <1>4, <1>5 DEF Tiles

LEMMA Prefix ==
  ASSUME NEW l \in Seq(Block), NEW k \in 0 .. Len(l)
  PROVE  /\ SubSeq(l, 1, k) \in Seq(Block) /\ Len(SubSeq(l, 1, k)) = k
         /\ \A i \in 1 .. k : SubSeq(l, 1, k)[i] = l[i]
OBVIOUS

LEMMA AbsorbFacts ==
  ASSUME NEW l \in Seq(Block), NEW m \in Seq(Block), NEW b \in Block, MergedFrom(m, l)
  PROVE  MergedFrom(Absorb(m, b), Append(l, b))
<1> DEFINE la == Append(l, b)  r == Absorb(m, b)  n == Len(m)
<1>0. /\ la \in Seq(Block) /\ Len(la) = Len(l) + 1 /\ la # <<>> /\ Len(l) \in Nat /\ n \in Nat
      /\ n <= Len(l) /\ HEADER \in Nat /\ (m = <<>> <=> n = 0)
  BY Appended, PoolAssumption DEF MergedFrom
<1>1. \A end \in Nat : Tiles(la, end) =>
        /\ IF m = <<>> THEN b.addr = 0 ELSE Tiles(m, b.addr)
        /\ Data(b) + b.size = end /\ b.size >= ALIGN_SIZE /\ b.addr % ALIGN_SIZE = 0
  <2>1. b.addr \in Nat BY DEF Block
  <2> QED BY <2>1, TilesAppend DEF MergedFrom
<1>2. TakenIn(la) = TakenIn(l) \union (IF b.free THEN {} ELSE {b})
  <2>1. /\ la[Len(l) + 1] = b /\ \A k \in 1 .. Len(l) : la[k] = l[k] BY Appended
  <2> HIDE DEF la
  <2>2. \A k \in 1 .. Len(la) : k \in 1 .. Len(l) \/ k = Len(l) + 1 BY <1>0
  <2>3. Len(l) + 1 \in 1 .. Len(la) /\ \A k \in 1 .. Len(l) : k \in 1 .. Len(la) BY <1>0
  <2> QED BY <2>1, <2>2, <2>3 DEF TakenIn
<1>3. ASSUME NEW g \in [Block -> Int]
      PROVE  /\ Weight(la, g) = Weight(l, g) + g[b]
             /\ Weight(l, g) \in Int /\ Weight(m, g) \in Int /\ g[b] \in Int
  BY WeightAppend, IntWeights
<1>4. /\ FreeByte[b] = (IF b.free THEN b.size ELSE 0) /\ TakenByte[b] = (IF b.free THEN 0 ELSE b.size)
      /\ FreeOne[b] = (IF b.free THEN 1 ELSE 0) /\ TakenOne[b] = (IF b.free THEN 0 ELSE 1)
  BY DEF FreeByte, TakenByte, FreeOne, TakenOne
<1>5. CASE m # <<>> /\ m[n].free /\ b.free
  <2> DEFINE x == [m[n] EXCEPT !.size = @ + HEADER + b.size]
  <2>0. n \in 1 .. n /\ m[n] \in Block /\ b.size \in Nat /\ m[n].size \in Nat
    <3>1. n \in 1 .. n BY <1>0, <1>5
    <3>2. m[n] \in Block BY <3>1
    <3> QED BY <3>1, <3>2 DEF Block
  <2>1. x \in Block /\ x.size = m[n].size + HEADER + b.size /\ x.addr = m[n].addr /\ x.free
    <3>1. PICK y \in Block : y = m[n] BY <2>0
    <3>2. y.free /\ y.size \in Nat BY <1>5, <3>1 DEF Block
    <3>3. x = [y EXCEPT !.size = y.size + HEADER + b.size] BY <3>1
    <3>4. y.size + HEADER + b.size \in Nat BY <1>0, <2>0, <3>2
    <3>5. x \in Block /\ x.size = y.size + HEADER + b.size /\ x.addr = y.addr /\ x.free
      BY <3>2, <3>3, <3>4 DEF Block
    <3> QED BY <3>1, <3>5
  <2>2. r = Append(SubSeq(m, 1, n - 1), x)
    BY <1>5 DEF Absorb, Last, Front
  <2>3. /\ r \in Seq(Block) /\ Len(r) = n /\ r[n] = x /\ \A k \in 1 .. n - 1 : r[k] = m[k]
    <3> DEFINE p == SubSeq(m, 1, n - 1)
    <3>1. p \in Seq(Block) /\ Len(p) = n - 1 /\ \A k \in 1 .. n - 1 : p[k] = m[k]
      <4>1. n - 1 \in 0 .. Len(m) BY <1>0, <2>0
      <4> QED BY <4>1, Prefix
    <3> HIDE DEF p, x
    <3>2. /\ Append(p, x) \in Seq(Block) /\ Len(Append(p, x)) = Len(p) + 1
          /\ Append(p, x)[Len(p) + 1] = x /\ \A k \in 1 .. Len(p) : Append(p, x)[k] = p[k]
      BY <2>1, <3>1, Appended
    <3>3. r = Append(p, x) BY <2>2 DEF p
    <3> HIDE DEF r
    <3>4. Len(p) + 1 = n BY <1>0, <3>1
    <3>5. r \in Seq(Block) /\ Len(r) = n /\ r[n] = x BY <3>2, <3>3, <3>4
    <3>6. \A k \in 1 .. n - 1 : r[k] = p[k] BY <3>1, <3>2, <3>3
    <3> QED BY <3>1, <3>5, <3>6
  <2> HIDE DEF x, r, la
  <2>4. ASSUME NEW end \in Nat, Tiles(la, end) PROVE Tiles(r, end)
    <3>1. Tiles(m, b.addr) /\ Data(b) + b.size = end BY <1>1, <1>5, <2>4
    <3>2. \A k \in 1 .. n : r[k].addr = m[k].addr
      <4>1. \A k \in 1 .. n : k = n \/ k \in 1 .. n - 1 BY <1>0
      <4> QED BY <2>1, <2>3, <4>1
    <3> QED BY <2>1, <2>3, <3>1, <3>2, TilesGrow
  <2>5. Coalesced(r)
    <3> SUFFICES ASSUME NEW k \in 1 .. n - 1 PROVE ~(r[k].free /\ r[k + 1].free)
      BY <2>3 DEF Coalesced
    <3>1. ~(m[k].free /\ m[k + 1].free) BY DEF MergedFrom, Coalesced
    <3>2. r[k] = m[k] BY <2>3
    <3>3. k + 1 = n \/ k + 1 \in 1 .. n - 1 BY <1>0
    <3> QED BY <1>5, <2>1, <2>3, <3>1, <3>2, <3>3
  <2>6. TakenIn(r) = TakenIn(la)
    <3>1. TakenIn(r) = TakenIn(m)
      <4>1. \A k \in 1 .. n : k = n \/ (k \in 1 .. n - 1 /\ r[k] = m[k]) BY <1>0, <2>3
      <4>2. r[n].free /\ m[n].free BY <1>5, <2>1, <2>3
      <4> QED BY <2>3, <4>1, <4>2 DEF TakenIn
    <3> QED BY <1>2, <1>5, <3>1 DEF MergedFrom
  <2>7. ASSUME NEW g \in [Block -> Int] PROVE Weight(r, g) = Weight(m, g) - g[m[n]] + g[x]
    <3>1. \A k \in 1 .. n : k # n => r[k] = m[k] BY <1>0, <2>3
    <3> QED BY <2>0, <2>3, <3>1, WeightChange
  <2>8. /\ FreeByte[m[n]] = m[n].size /\ FreeByte[x] = m[n].size + HEADER + b.size
        /\ TakenByte[m[n]] = 0 /\ TakenByte[x] = 0
        /\ FreeOne[m[n]] = 1 /\ FreeOne[x] = 1 /\ TakenOne[m[n]] = 0 /\ TakenOne[x] = 0
    BY <1>5, <2>0, <2>1 DEF FreeByte, TakenByte, FreeOne, TakenOne
  <2>9. /\ Weight(r, TakenByte) = Weight(la, TakenByte)
        /\ Weight(r, TakenOne) = Weight(la, TakenOne)
    <3>1. ASSUME NEW g \in [Block -> Int], g[m[n]] = 0, g[x] = 0, g[b] = 0
          PROVE  Weight(r, g) = Weight(m, g) /\ Weight(la, g) = Weight(l, g)
      BY <1>3, <2>7, <3>1
    <3>2. TakenByte[b] = 0 /\ TakenOne[b] = 0 BY <1>4, <1>5
    <3>3. Weight(r, TakenByte) = Weight(m, TakenByte) /\ Weight(la, TakenByte) = Weight(l, TakenByte)
      BY <2>8, <3>1, <3>2, CountersTyped
    <3>4. Weight(r, TakenOne) = Weight(m, TakenOne) /\ Weight(la, TakenOne) = Weight(l, TakenOne)
      BY <2>8, <3>1, <3>2, CountersTyped
    <3> QED BY <3>3, <3>4 DEF MergedFrom
  <2>10. Weight(r, FreeOne) = Weight(la, FreeOne) - (Len(la) - n)
    <3>1. Weight(r, FreeOne) = Weight(m, FreeOne)
      <4>1. Weight(r, FreeOne) = Weight(m, FreeOne) - 1 + 1 BY <2>7, <2>8, CountersTyped
      <4>2. Weight(m, FreeOne) \in Int BY <1>3, CountersTyped
      <4> QED BY <4>1, <4>2
    <3>2. Weight(la, FreeOne) = Weight(l, FreeOne) + 1
      BY <1>3, <1>4, <1>5, CountersTyped
    <3>3. Weight(m, FreeOne) = Weight(l, FreeOne) - (Len(l) - n) BY DEF MergedFrom
    <3>4. Weight(l, FreeOne) \in Int BY <1>3, CountersTyped
    <3> QED BY <1>0, <3>1, <3>2, <3>3, <3>4
  <2>11. Weight(r, FreeByte) = Weight(la, FreeByte) + HEADER * (Len(la) - n)
    <3>1. Weight(r, FreeByte) = Weight(m, FreeByte) - m[n].size + (m[n].size + HEADER + b.size)
      BY <2>7, <2>8, CountersTyped
    <3>2. Weight(la, FreeByte) = Weight(l, FreeByte) + b.size
      BY <1>3, <1>4, <1>5, CountersTyped
    <3>3. Weight(m, FreeByte) = Weight(l, FreeByte) + HEADER * (Len(l) - n) BY DEF MergedFrom
    <3>4. Weight(l, FreeByte) \in Int /\ Weight(m, FreeByte) \in Int BY <1>3, CountersTyped
    <3>5. HEADER * (Len(la) - n) = HEADER * (Len(l) - n) + HEADER
      <4>0. Len(l) - n \in Int BY <1>0
      <4>1. PICK d \in Int : d = Len(l) - n BY <4>0
      <4>2. Len(la) - n = d + 1 BY <1>0, <4>1
      <4>3. HEADER * (d + 1) = HEADER * d + HEADER BY <1>0
      <4> QED BY <4>1, <4>2, <4>3
    <3>6. HEADER * (Len(l) - n) \in Int BY <1>0
    <3>7. PICK w \in Int, p \in Int, u \in Nat, v \in Nat, h \in Int :
            /\ w = Weight(l, FreeByte) /\ p = Weight(m, FreeByte) /\ u = m[n].size /\ v = b.size
            /\ h = HEADER * (Len(l) - n)
      BY <2>0, <3>4, <3>6
    <3>8. p = w + h BY <3>3, <3>7
    <3>9. p - u + (u + HEADER + v) = w + v + (h + HEADER) BY <1>0, <3>8
    <3> QED BY <3>1, <3>2, <3>5, <3>7, <3>9
  <2> QED BY <1>0, <1>5, <2>3, <2>4, <2>5, <2>6, <2>9, <2>10, <2>11 DEF MergedFrom, r, la
<1>6. CASE ~(m # <<>> /\ m[n].free /\ b.free)
  <2>1. r = Append(m, b) BY <1>6 DEF Absorb, Last
  <2>2. /\ r \in Seq(Block) /\ Len(r) = n + 1 /\ r # <<>> /\ r[n + 1] = b
        /\ \A k \in 1 .. n : r[k] = m[k]
    <3>1. /\ Append(m, b) \in Seq(Block) /\ Len(Append(m, b)) = n + 1 /\ Append(m, b)[n + 1] = b
          /\ \A k \in 1 .. n : Append(m, b)[k] = m[k]
      BY Appended
    <3> HIDE DEF r
    <3> QED BY <1>0, <2>1, <3>1
  <2>3. ASSUME NEW end \in Nat, Tiles(la, end) PROVE Tiles(r, end)
    <3> HIDE DEF la, r
    <3> QED BY <1>1, <2>1, <2>3, TilesAppend
  <2>4. TakenIn(r) = TakenIn(m) \union (IF b.free THEN {} ELSE {b})
    <3>2. \A k \in 1 .. Len(r) : k \in 1 .. n \/ k = n + 1 BY <1>0, <2>2
    <3>3. n + 1 \in 1 .. Len(r) /\ \A k \in 1 .. n : k \in 1 .. Len(r) BY <1>0, <2>2
    <3> HIDE DEF r
    <3> QED BY <2>2, <3>2, <3>3 DEF TakenIn
  <2>5. ASSUME NEW g \in [Block -> Int] PROVE Weight(r, g) = Weight(m, g) + g[b]
    BY <2>1, WeightAppend
  <2> HIDE DEF r, la
  <2>6. Coalesced(r)
    <3> SUFFICES ASSUME NEW k \in 1 .. n PROVE ~(r[k].free /\ r[k + 1].free)
      BY <1>0, <2>2 DEF Coalesced
    <3>1. CASE k = n BY <1>0, <1>6, <2>2, <3>1
    <3>2. CASE k # n
      <4>1. k \in 1 .. n - 1 /\ k + 1 \in 1 .. n BY <1>0, <3>2
      <4>2. ~(m[k].free /\ m[k + 1].free) BY <4>1 DEF MergedFrom, Coalesced
      <4> QED BY <2>2, <4>1, <4>2
    <3> QED BY <3>1, <3>2
  <2>7. TakenIn(r) = TakenIn(la) BY <1>2, <2>4 DEF MergedFrom
  <2>8. Len(la) - Len(r) = Len(l) - n BY <1>0, <2>2
  <2>9. ASSUME NEW g \in [Block -> Int]
        PROVE  /\ Weight(r, g) = Weight(m, g) + g[b] /\ Weight(la, g) = Weight(l, g) + g[b]
               /\ Weight(l, g) \in Int /\ Weight(m, g) \in Int /\ g[b] \in Int
    BY <1>3, <2>5
  <2>10. /\ Weight(r, TakenByte) = Weight(la, TakenByte)
         /\ Weight(r, TakenOne) = Weight(la, TakenOne)
    BY <2>9, CountersTyped DEF MergedFrom
  <2>11. Weight(r, FreeOne) = Weight(la, FreeOne) - (Len(la) - Len(r))
    <3>1. Weight(m, FreeOne) = Weight(l, FreeOne) - (Len(l) - n) BY DEF MergedFrom
    <3>2. /\ Weight(r, FreeOne) = Weight(m, FreeOne) + FreeOne[b]
          /\ Weight(la, FreeOne) = Weight(l, FreeOne) + FreeOne[b]
          /\ Weight(l, FreeOne) \in Int /\ Weight(m, FreeOne) \in Int /\ FreeOne[b] \in Int
      BY <2>9, CountersTyped
    <3>3. Len(l) - n \in Int /\ Len(la) - Len(r) = Len(l) - n BY <1>0, <2>8
    <3> QED BY <3>1, <3>2, <3>3
  <2>12. Weight(r, FreeByte) = Weight(la, FreeByte) + HEADER * (Len(la) - Len(r))
    <3>1. Weight(m, FreeByte) = Weight(l, FreeByte) + HEADER * (Len(l) - n) BY DEF MergedFrom
    <3>2. /\ Weight(r, FreeByte) = Weight(m, FreeByte) + FreeByte[b]
          /\ Weight(la, FreeByte) = Weight(l, FreeByte) + FreeByte[b]
          /\ Weight(l, FreeByte) \in Int /\ Weight(m, FreeByte) \in Int /\ FreeByte[b] \in Int
      BY <2>9, CountersTyped
    <3>3. PICK h \in Int : h = HEADER * (Len(l) - n) BY <1>0
    <3>4. PICK w \in Int, p \in Int, v \in Int :
            w = Weight(l, FreeByte) /\ p = Weight(m, FreeByte) /\ v = FreeByte[b]
      BY <3>2
    <3>5. p = w + h BY <3>1, <3>3, <3>4
    <3>6. p + v = w + v + h BY <3>5
    <3> QED BY <2>8, <3>2, <3>3, <3>4, <3>6
  <2> QED BY <1>0, <2>2, <2>3, <2>6, <2>7, <2>10, <2>11, <2>12 DEF MergedFrom, r, la
<1> QED BY <1>5, <1>6

LEMMA MergedNothing == MergedFrom(<<>>, <<>>)
<1>1. <<>> \in Seq(Block) /\ Len(<<>>) = 0 OBVIOUS
<1>2. HEADER * (0 - 0) = 0
  <2>1. HEADER \in Nat BY PoolAssumption
  <2> QED BY <2>1
<1>3. \A g \in [Block -> Int] : Weight(<<>>, g) \in Int BY <1>1, IntWeights
<1>4. /\ Weight(<<>>, FreeByte) \in Int /\ Weight(<<>>, FreeOne) \in Int
  BY <1>3, CountersTyped
<1>5. /\ Weight(<<>>, FreeByte) = Weight(<<>>, FreeByte) + HEADER * (Len(<<>>) - Len(<<>>))
      /\ Weight(<<>>, FreeOne) = Weight(<<>>, FreeOne) - (Len(<<>>) - Len(<<>>))
  BY <1>1, <1>2, <1>4
<1>6. Coalesced(<<>>) BY <1>1 DEF Coalesced
<1> QED BY <1>1, <1>5, <1>6 DEF MergedFrom

\* Merging keeps the tiling and the taken blocks, and leaves no two free neighbours.
LEMMA MergedFacts ==
  ASSUME blocks \in Seq(Block)
  PROVE  MergedFrom(Merged, blocks)
<1> DEFINE n == Len(blocks)
           Body(k, g) == [j \in 0 .. k |-> IF j = 0 THEN <<>> ELSE Absorb(g[j - 1], blocks[j])]
           T == {k \in 0 .. n : \E g : g = Body(k, g)}
           G == CHOOSE g : g = Body(n, g)
           U == {k \in 0 .. n : MergedFrom(G[k], SubSeq(blocks, 1, k))}
<1>0. n \in Nat /\ \A k \in 1 .. n : blocks[k] \in Block OBVIOUS
<1>1. 0 \in T
  <2> DEFINE f == [j \in 0 .. 0 |-> <<>>]
  <2>1. f = Body(0, f) /\ 0 \in 0 .. n OBVIOUS
  <2> HIDE DEF f, Body, n
  <2> QED BY <2>1
<1>2. ASSUME NEW k \in 1 .. n, k - 1 \in T PROVE k \in T
  <2>1. PICK f : f = Body(k - 1, f) BY <1>2
  <2> DEFINE g == [j \in 0 .. k |-> IF j = k THEN Absorb(f[k - 1], blocks[k]) ELSE f[j]]
  <2>2. g = Body(k, g)
    <3>0. k - 1 \in 0 .. k - 1 /\ k \in Nat BY <1>0
    <3>1. ASSUME NEW j \in 0 .. k PROVE g[j] = Body(k, g)[j]
      <4>1. CASE j = 0 BY <2>1, <3>0, <4>1
      <4>2. CASE j # 0
        <5>1. j - 1 \in 0 .. k /\ j - 1 # k /\ g[j - 1] = f[j - 1] BY <4>2
        <5>2. Body(k, g)[j] = Absorb(f[j - 1], blocks[j]) BY <4>2, <5>1
        <5>3. CASE j = k BY <5>2, <5>3
        <5>4. CASE j # k
          <6>1. j \in 0 .. k - 1 BY <5>4
          <6>2. f[j] = Absorb(f[j - 1], blocks[j])
            <7>1. f[j] = Body(k - 1, f)[j] BY <2>1
            <7> QED BY <7>1, <6>1, <4>2
          <6> QED BY <5>2, <5>4, <6>2
        <5> QED BY <5>3, <5>4
      <4> QED BY <4>1, <4>2
    <3> QED BY <3>1
  <2>3. k \in 0 .. n BY <1>0
  <2> HIDE DEF g, Body, n
  <2> QED BY <2>2, <2>3
<1>3. n \in T
  <2>1. 0 .. n \subseteq T
    <3> HIDE DEF T, n
    <3> QED BY <1>0, <1>1, <1>2, Inductive
  <2> HIDE DEF T, n
  <2> QED BY <2>1, <1>0
<1>4. G = Body(n, G)
  <2> HIDE DEF Body, n
  <2> QED BY <1>3
<1>5. Merged = G[n] BY DEF Merged
<1>6. G[0] = <<>> /\ \A k \in 1 .. n : G[k] = Absorb(G[k - 1], blocks[k])
  <2> HIDE DEF G
  <2> QED BY <1>4, <1>0
<1>7. 0 \in U
  <2>1. SubSeq(blocks, 1, 0) = <<>> OBVIOUS
  <2> HIDE DEF G
  <2>2. MergedFrom(G[0], SubSeq(blocks, 1, 0)) BY <1>6, <2>1, MergedNothing
  <2>3. 0 \in 0 .. n BY <1>0
  <2> QED BY <2>2, <2>3
<1>8. ASSUME NEW k \in 1 .. n, k - 1 \in U PROVE k \in U
  <2> DEFINE p == SubSeq(blocks, 1, k - 1)
  <2>0. k - 1 \in 0 .. n /\ k \in 0 .. n BY <1>0
  <2>1. SubSeq(blocks, 1, k) = Append(p, blocks[k])
    <3>1. /\ p \in Seq(Block) /\ Len(p) = k - 1 /\ \A i \in 1 .. k - 1 : p[i] = blocks[i]
      BY <2>0, Prefix
    <3>2. /\ SubSeq(blocks, 1, k) \in Seq(Block) /\ Len(SubSeq(blocks, 1, k)) = k
          /\ \A i \in 1 .. k : SubSeq(blocks, 1, k)[i] = blocks[i]
      BY <2>0, Prefix
    <3> DEFINE a == Append(p, blocks[k])  b == SubSeq(blocks, 1, k)
    <3> HIDE DEF p
    <3>3. /\ a \in Seq(Block) /\ Len(a) = k /\ a[k] = blocks[k]
          /\ \A i \in 1 .. k - 1 : a[i] = blocks[i]
      <4>1. /\ a \in Seq(Block) /\ Len(a) = Len(p) + 1 /\ a[Len(p) + 1] = blocks[k]
            /\ \A i \in 1 .. Len(p) : a[i] = p[i]
        BY <1>0, <3>1, Appended
      <4> HIDE DEF a
      <4> QED BY <1>0, <3>1, <4>1
    <3> HIDE DEF a, b
    <3>4. b \in Seq(Block) /\ Len(b) = k /\ \A i \in 1 .. k : b[i] = blocks[i]
      BY <3>2 DEF b
    <3>5. ASSUME NEW i \in 1 .. k PROVE a[i] = b[i]
      <4>1. i = k \/ i \in 1 .. k - 1 BY <1>0
      <4> QED BY <3>3, <3>4, <4>1
    <3>6. a = b BY <3>3, <3>4, <3>5
    <3> QED BY <3>6 DEF a, b
  <2>2. MergedFrom(G[k - 1], p) BY <1>8
  <2>3. p \in Seq(Block) /\ G[k - 1] \in Seq(Block) /\ blocks[k] \in Block
    <3>1. p \in Seq(Block) BY <2>0, Prefix
    <3> HIDE DEF G, p
    <3> QED BY <1>0, <2>2, <3>1 DEF MergedFrom
  <2> HIDE DEF G, p
  <2>4. MergedFrom(Absorb(G[k - 1], blocks[k]), Append(p, blocks[k])) BY <2>2, <2>3, AbsorbFacts
  <2> QED BY <1>6, <2>0, <2>1, <2>4
<1>9. n \in U
  <2>1. 0 .. n \subseteq U
    <3> HIDE DEF U, n
    <3> QED BY <1>0, <1>7, <1>8, Inductive
  <2> HIDE DEF U, n
  <2> QED BY <2>1, <1>0
<1>10. SubSeq(blocks, 1, n) = blocks OBVIOUS
<1> HIDE DEF G
<1> QED BY <1>5, <1>9, <1>10

-----------------------------------------------------------------------------
(* A coalesced list is determined by its taken blocks                      *)

LEMMA NotShorter ==
  ASSUME NEW end \in Nat,
         NEW l \in Seq(Block), Tiles(l, end), Coalesced(l),
         NEW m \in Seq(Block), Tiles(m, end), TakenIn(l) \subseteq TakenIn(m),
         NEW i \in 1 .. Len(l), NEW j \in 1 .. Len(m),
         l[i].addr = m[j].addr, l[i].free, m[j].free
  PROVE  l[i].size >= m[j].size
<1>0. Len(l) \in Nat /\ HEADER \in Nat \ {0} BY PoolAssumption
<1>1. SUFFICES ASSUME l[i].size < m[j].size PROVE FALSE
  <2>1. l[i].size \in Nat /\ m[j].size \in Nat BY BlockFacts
  <2> QED BY <2>1
<1>2. /\ l[i].addr \in Nat /\ l[i].size \in Nat /\ Data(l[i]) = l[i].addr + HEADER
      /\ m[j].addr \in Nat /\ m[j].size \in Nat /\ Data(m[j]) = m[j].addr + HEADER
  BY BlockFacts
<1>3. Data(m[j]) + m[j].size <= end BY TilesOrdered
<1>4. i # Len(l)
  <2>1. i = Len(l) => Data(l[i]) + l[i].size = end BY DEF Tiles
  <2> QED BY <1>0, <1>1, <1>2, <1>3, <2>1
<1>5. /\ i + 1 \in 1 .. Len(l) /\ i \in 1 .. Len(l) - 1
      /\ Data(l[i]) + l[i].size = l[i + 1].addr
  BY <1>0, <1>4 DEF Tiles
<1>6. ~l[i + 1].free BY <1>5 DEF Coalesced
<1>7. l[i + 1] \in TakenIn(m)
  <2>1. l[i + 1] \in Block BY <1>5
  <2>2. l[i + 1] \in TakenIn(l) BY <1>5, <1>6, <2>1 DEF TakenIn
  <2> QED BY <2>2
<1>8. PICK x \in 1 .. Len(m) : m[x] = l[i + 1] BY <1>7 DEF TakenIn
<1>9. /\ m[x].addr \in Nat /\ m[x].size \in Nat /\ Data(m[x]) = m[x].addr + HEADER
      /\ m[x].addr = l[i].addr + HEADER + l[i].size
  BY <1>2, <1>5, <1>8, BlockFacts
<1>10. x # j BY <1>6, <1>8
<1>11. /\ x < j => Data(m[x]) + m[x].size <= m[j].addr
       /\ j < x => Data(m[j]) + m[j].size <= m[x].addr
  BY TilesOrdered
<1>12. CASE x < j
  <2>1. Data(m[x]) + m[x].size <= m[j].addr BY <1>11, <1>12
  <2>2. PICK a \in Nat, u \in Nat, v \in Nat : a = m[j].addr /\ u = l[i].size /\ v = m[x].size
    BY <1>2, <1>9
  <2>3. m[x].addr = a + HEADER + u BY <1>2, <1>9, <2>2
  <2>4. (a + HEADER + u) + HEADER + v <= a BY <1>9, <2>1, <2>2, <2>3
  <2> QED BY <1>0, <2>4
<1>13. CASE j < x
  <2>1. Data(m[j]) + m[j].size <= m[x].addr BY <1>11, <1>13
  <2>2. PICK a \in Nat, u \in Nat, v \in Nat : a = m[j].addr /\ u = l[i].size /\ v = m[j].size
    BY <1>2
  <2>3. a + HEADER + v <= a + HEADER + u BY <1>2, <1>9, <2>1, <2>2
  <2>4. u < v BY <1>1, <2>2
  <2> QED BY <1>0, <2>3, <2>4
<1> QED BY <1>10, <1>12, <1>13

LEMMA SameBlock ==
  ASSUME NEW end \in Nat,
         NEW l \in Seq(Block), Tiles(l, end), Coalesced(l),
         NEW m \in Seq(Block), Tiles(m, end), Coalesced(m), TakenIn(l) = TakenIn(m),
         NEW k \in 1 .. Len(l), k \in 1 .. Len(m), l[k].addr = m[k].addr
  PROVE  l[k] = m[k]
<1>1. l[k] \in Block /\ m[k] \in Block OBVIOUS
<1>2. CASE ~l[k].free
  <2>1. l[k] \in TakenIn(m) BY <1>1, <1>2 DEF TakenIn
  <2>2. PICK x \in 1 .. Len(m) : m[x] = l[k] BY <2>1 DEF TakenIn
  <2>3. x = k BY <2>2, TilesDistinct
  <2> QED BY <2>2, <2>3
<1>3. CASE ~m[k].free
  <2>1. m[k] \in TakenIn(l) BY <1>1, <1>3 DEF TakenIn
  <2>2. PICK x \in 1 .. Len(l) : l[x] = m[k] BY <2>1 DEF TakenIn
  <2>3. x = k BY <2>2, TilesDistinct
  <2> QED BY <2>2, <2>3
<1>4. CASE l[k].free /\ m[k].free
  <2>1. l[k].size >= m[k].size BY <1>4, NotShorter
  <2>2. m[k].size >= l[k].size BY <1>4, NotShorter
  <2>3. l[k].size = m[k].size
    <3>1. l[k].size \in Nat /\ m[k].size \in Nat BY BlockFacts
    <3> QED BY <2>1, <2>2, <3>1
  <2>4. PICK a \in Block, b \in Block : a = l[k] /\ b = m[k] BY <1>1
  <2>5. a.addr = b.addr /\ a.size = b.size /\ a.free = b.free
    <3>1. a.free = TRUE /\ b.free = TRUE BY <1>4, <2>4 DEF Block
    <3> QED BY <2>3, <2>4, <3>1
  <2>6. /\ a = [addr |-> a.addr, size |-> a.size, free |-> a.free]
        /\ b = [addr |-> b.addr, size |-> b.size, free |-> b.free]
    BY DEF Block
  <2>7. a = b BY <2>5, <2>6
  <2> QED BY <2>4, <2>7
<1> QED BY <1>2, <1>3, <1>4

\* The next block starts where the last one ends, so the two lists are as long.
LEMMA NoneBehind ==
  ASSUME NEW end \in Nat, NEW l \in Seq(Block), Tiles(l, end), NEW k \in 1 .. Len(l),
         Data(l[k]) + l[k].size = end
  PROVE  k = Len(l)
<1>0. Len(l) \in Nat /\ HEADER \in Nat \ {0} BY PoolAssumption
<1>1. SUFFICES ASSUME k # Len(l) PROVE FALSE
  OBVIOUS
<1>2. k + 1 \in 1 .. Len(l) /\ Data(l[k]) + l[k].size = l[k + 1].addr BY <1>0, <1>1 DEF Tiles
<1>3. Data(l[k + 1]) + l[k + 1].size <= end BY <1>2, TilesOrdered
<1>4. /\ l[k + 1].addr \in Nat /\ l[k + 1].size \in Nat
      /\ Data(l[k + 1]) = l[k + 1].addr + HEADER
  BY <1>2, BlockFacts
<1>5. l[k + 1].addr = end BY <1>2
<1> QED BY <1>0, <1>3, <1>4, <1>5

LEMMA CoalescedUnique ==
  ASSUME NEW end \in Nat,
         NEW l \in Seq(Block), Tiles(l, end), Coalesced(l),
         NEW m \in Seq(Block), Tiles(m, end), Coalesced(m), TakenIn(l) = TakenIn(m)
  PROVE  l = m
<1> DEFINE T == {k \in 0 .. Len(l) : k <= Len(m) /\ \A j \in 1 .. k : l[j] = m[j]}
<1>0. Len(l) \in Nat /\ Len(m) \in Nat /\ Len(l) >= 1 /\ Len(m) >= 1
  <2>1. l # <<>> /\ m # <<>> BY DEF Tiles
  <2> QED BY <2>1
<1>1. 0 \in T BY <1>0
<1>2. ASSUME NEW k \in 1 .. Len(l), k - 1 \in T PROVE k \in T
  <2>1. k - 1 <= Len(m) /\ \A j \in 1 .. k - 1 : l[j] = m[j] BY <1>2
  <2>2. k <= Len(m) /\ l[k].addr = m[k].addr
    <3>1. CASE k = 1 BY <1>0, <3>1 DEF Tiles
    <3>2. CASE k # 1
      <4>1. /\ k - 1 \in 1 .. Len(l) /\ k - 1 \in 1 .. Len(m) /\ k - 1 # Len(l) /\ k - 1 + 1 = k
            /\ k - 1 \in 1 .. k - 1
        BY <1>0, <2>1, <3>2
      <4>2. l[k - 1] = m[k - 1] BY <2>1, <4>1
      <4>3. k - 1 # Len(m)
        <5>1. k - 1 = Len(m) => Data(m[k - 1]) + m[k - 1].size = end BY <4>1 DEF Tiles
        <5>2. Data(l[k - 1]) + l[k - 1].size # end BY <4>1, NoneBehind
        <5> QED BY <4>2, <5>1, <5>2
      <4>4. /\ Data(l[k - 1]) + l[k - 1].size = l[k].addr
            /\ Data(m[k - 1]) + m[k - 1].size = m[k].addr
        BY <4>1, <4>3 DEF Tiles
      <4> QED BY <1>0, <2>1, <4>2, <4>3, <4>4
    <3> QED BY <3>1, <3>2
  <2>3. k \in 1 .. Len(m) BY <1>0, <2>2
  <2>4. l[k] = m[k] BY <2>2, <2>3, SameBlock
  <2>5. \A j \in 1 .. k : j = k \/ j \in 1 .. k - 1 OBVIOUS
  <2>6. k \in 0 .. Len(l) BY <1>0
  <2> QED BY <2>1, <2>2, <2>4, <2>5, <2>6
<1>3. Len(l) \in T
  <2>1. 0 .. Len(l) \subseteq T
    <3> HIDE DEF T
    <3> QED BY <1>0, <1>1, <1>2, Inductive
  <2>2. Len(l) \in 0 .. Len(l) BY <1>0
  <2> HIDE DEF T
  <2> QED BY <2>1, <2>2
<1>4. Len(l) <= Len(m) /\ \A j \in 1 .. Len(l) : l[j] = m[j] BY <1>3
<1>5. Len(l) = Len(m)
  <2>1. Len(l) \in 1 .. Len(l) /\ Len(l) \in 1 .. Len(m) BY <1>0, <1>4
  <2>2. Data(l[Len(l)]) + l[Len(l)].size = end BY <2>1 DEF Tiles
  <2>3. Data(m[Len(l)]) + m[Len(l)].size = end BY <1>4, <2>1, <2>2
  <2> QED BY <2>1, <2>3, NoneBehind
<1> QED BY <1>4, <1>5

\* The free blocks of a list, counted by their places.
LEMMA FreePlaces ==
  ASSUME NEW l \in Seq(Block)
  PROVE  Cardinality({i \in DOMAIN l : l[i].free}) = Weight(l, FreeOne)
<1> DEFINE n == Len(l)  w == Weights(l, FreeOne)
           S(k) == {i \in 1 .. k : l[i].free}
<1>0. n \in Nat /\ DOMAIN l = 1 .. n OBVIOUS
<1>1. w \in Seq(Int) /\ Len(w) = n /\ \A i \in 1 .. n : w[i] = FreeOne[l[i]]
  BY IntWeights, CountersTyped
<1>2. \A i \in 1 .. n : w[i] = IF l[i].free THEN 1 ELSE 0
  <2> SUFFICES ASSUME NEW i \in 1 .. n PROVE w[i] = IF l[i].free THEN 1 ELSE 0
    OBVIOUS
  <2>1. l[i] \in Block OBVIOUS
  <2> HIDE DEF w
  <2> QED BY <1>1, <2>1, Counts
<1> HIDE DEF w
<1>3. PICK f \in [0 .. Len(w) -> Int] :
        /\ f[0] = 0 /\ \A k \in 1 .. Len(w) : f[k] = f[k - 1] + w[k]
        /\ Sum(w) = f[Len(w)]
  BY <1>1, SumFacts
<1> DEFINE T == {k \in 0 .. n : IsFiniteSet(S(k)) /\ Cardinality(S(k)) = f[k]}
<1>4. 0 \in T
  <2>1. S(0) = {} OBVIOUS
  <2>2. IsFiniteSet(S(0)) /\ Cardinality(S(0)) = 0
    <3> HIDE DEF S
    <3> QED BY <2>1, FS_EmptySet
  <2> QED BY <1>0, <1>3, <2>2
<1>5. ASSUME NEW k \in 1 .. n, k - 1 \in T PROVE k \in T
  <2>1. IsFiniteSet(S(k - 1)) /\ Cardinality(S(k - 1)) = f[k - 1] BY <1>5
  <2>0. k \in 1 .. Len(w) /\ k - 1 \in 0 .. Len(w) BY <1>0, <1>1
  <2>2. f[k] = f[k - 1] + w[k] /\ f[k - 1] \in Int BY <1>3, <2>0
  <2>3. k \notin S(k - 1) /\ S(k) = IF l[k].free THEN S(k - 1) \union {k} ELSE S(k - 1)
    <3>1. \A j \in Int : j \in 1 .. k <=> j \in 1 .. k - 1 \/ j = k BY <1>0
    <3> QED BY <3>1
  <2>4. k \in 0 .. n BY <1>0
  <2>5. IsFiniteSet(S(k)) /\ Cardinality(S(k)) = f[k]
    <3> HIDE DEF S
    <3>1. CASE l[k].free
      <4>1. S(k) = S(k - 1) \union {k} BY <2>3, <3>1
      <4>2. IsFiniteSet(S(k)) /\ Cardinality(S(k)) = Cardinality(S(k - 1)) + 1
        <5>1. IsFiniteSet(S(k - 1)) /\ k \notin S(k - 1) BY <2>1, <2>3
        <5>2. /\ IsFiniteSet(S(k - 1) \union {k})
              /\ Cardinality(S(k - 1) \union {k}) = Cardinality(S(k - 1)) + 1
          BY <5>1, FS_AddElement
        <5> QED BY <4>1, <5>2, Zenon
      <4>3. w[k] = 1 BY <1>2, <3>1
      <4> QED BY <2>1, <2>2, <4>2, <4>3
    <3>2. CASE ~l[k].free
      <4>1. S(k) = S(k - 1) BY <2>3, <3>2
      <4>2. w[k] = 0 BY <1>2, <3>2
      <4> QED BY <2>1, <2>2, <4>1, <4>2
    <3> QED BY <3>1, <3>2
  <2> QED BY <2>4, <2>5
<1>6. n \in T
  <2>1. 0 .. n \subseteq T
    <3> HIDE DEF T, n
    <3> QED BY <1>0, <1>4, <1>5, Inductive
  <2>2. n \in 0 .. n BY <1>0
  <2> HIDE DEF T, n
  <2> QED BY <2>1, <2>2
<1>7. Cardinality(S(n)) = Sum(w) BY <1>1, <1>3, <1>6
<1> QED BY <1>0, <1>7 DEF Weight, w

-----------------------------------------------------------------------------
(* The inductive invariant of the heap                                     *)

Call    == [addr : Nat, size : Nat, need : Nat, want : Nat, old : Nat \union {NULL}]
Regions == [ptr : Nat, size : Nat, by : Clients]

HeapTyped ==
  /\ blocks \in Seq(Block) /\ owned \subseteq Regions
  /\ pc \in [Clients -> {"idle", "take", "mark", "merge"}]
  /\ loc \in [Clients -> Call]

\* The counters are those of the list, in the middle of a call too.
Counted ==
  /\ free_mem = Weight(blocks, FreeByte) /\ allocated_mem = Weight(blocks, TakenByte)
  /\ free_blocks = Weight(blocks, FreeOne) /\ allocated_blocks = Weight(blocks, TakenOne)

\* Regions and taken blocks correspond one to one.
OwnedTaken ==
  /\ \A r \in owned : \E b \in TakenIn(blocks) : Data(b) = r.ptr /\ b.size >= r.size
  /\ \A r, q \in owned : r.ptr = q.ptr => r = q
  /\ \A b \in TakenIn(blocks) : \E r \in owned : r.ptr = Data(b)
  /\ IsFiniteSet(owned) /\ Cardinality(owned) = allocated_blocks

Holder(c, p) == \E r \in owned : r.by = c /\ r.ptr = p

\* What a call that has found a block still relies on when it takes it.
Found(c) ==
  /\ Admitted(loc[c].want) /\ loc[c].need = ALIGN(loc[c].want)
  /\ \E i \in 1 .. Len(blocks) :
       /\ blocks[i].free /\ blocks[i].addr = loc[c].addr /\ blocks[i].size = loc[c].size
       /\ blocks[i].size >= loc[c].need
  /\ loc[c].old = NULL \/ Holder(c, loc[c].old)

Calls ==
  /\ \A c, d \in Clients : pc[c] # "idle" /\ pc[d] # "idle" => c = d
  /\ \A c \in Clients : pc[c] = "take" => Found(c)
  /\ \A c \in Clients : pc[c] = "mark" => Holder(c, loc[c].old)

\* With nothing left to free, the last merge is pending or has left the pool coalesced.
Settled == owned = {} => Coalesced(blocks) \/ \E c \in Clients : pc[c] = "merge"

HeapInv ==
  /\ HeapTyped /\ Tiles(blocks, POOL) /\ Counted /\ OwnedTaken /\ Calls /\ Settled

-----------------------------------------------------------------------------
(* The inductive invariant of the command                                  *)

\* The pointers the command keeps: its own, or the one its call is about to return.
PtrsOwned ==
  /\ ptrs \in Seq(Nat)
  /\ \A i, j \in 1 .. Len(ptrs) : ptrs[i] = ptrs[j] => i = j
  /\ \A i \in 1 .. Len(ptrs) :
       \/ pc[Cli] = "take" /\ ptrs[i] = loc[Cli].addr + HEADER
       \/ Holder(Cli, ptrs[i])
  /\ pc[Cli] \in {"take", "mark"} => \A i \in 1 .. Len(ptrs) : ptrs[i] # loc[Cli].old
  /\ pc[Cli] = "take" => \E i \in 1 .. Len(ptrs) : ptrs[i] = loc[Cli].addr + HEADER

Places ==
  /\ at \in {"prompt", "basic", "basic_grow", "basic_free", "basic_end",
             "frag", "frag_free", "stress", "cleanup"}
  /\ at \in {"prompt", "basic", "basic_end"} => ptrs = <<>>
  /\ at \in {"basic_grow", "basic_free"} => Len(ptrs) = 1
  /\ at = "prompt" => pc[Cli] = "idle"
  /\ verdict # "none" => at = "prompt"
  /\ at = "frag_free" => pc[Cli] # "take"

\* Taken blocks that the command has not to free.
Named(p) ==
  \/ \E i \in 1 .. Len(ptrs) : ptrs[i] = p
  \/ pc[Cli] \in {"take", "mark"} /\ loc[Cli].old = p

Foreign == {b \in TakenIn(blocks) : ~Named(Data(b))}

\* While no other client calls, the command remembers what it found.
Remembered ==
  before # NULL =>
    /\ before \in Seq(Block) /\ Tiles(before, POOL) /\ Coalesced(before)
    /\ at # "prompt" \/ verdict = "pass" => Foreign = TakenIn(before)
    /\ at \in {"frag", "frag_free"} => baseline_blocks = Weight(before, TakenOne)
    /\ at = "frag_free" =>
         Len(ptrs) = FRAG_BLOCKS \/ Coalesced(blocks) \/ pc[Cli] \in {"mark", "merge"}
    /\ verdict = "not coalesced" => Cardinality({i \in DOMAIN before : before[i].free}) # 1

TestInv == HeapInv /\ PtrsOwned /\ Places /\ Remembered

-----------------------------------------------------------------------------
(* The heap's steps keep the invariant                                     *)

LEMMA TakenFacts ==
  ASSUME NEW l \in Seq(Block), NEW end \in Nat, Tiles(l, end), NEW b \in TakenIn(l)
  PROVE  /\ b \in Block /\ ~b.free /\ b.addr \in Nat /\ b.size \in Nat
         /\ \E i \in 1 .. Len(l) : l[i] = b
         /\ \A i \in 1 .. Len(l) : Data(l[i]) = Data(b) => l[i] = b
<1>1. b \in Block /\ ~b.free /\ \E i \in 1 .. Len(l) : l[i] = b BY DEF TakenIn
<1>2. b.addr \in Nat /\ b.size \in Nat BY <1>1 DEF Block
<1>3. PICK j \in 1 .. Len(l) : l[j] = b BY <1>1
<1>4. ASSUME NEW i \in 1 .. Len(l), Data(l[i]) = Data(b) PROVE l[i] = b
  <2>1. l[i].addr + HEADER = b.addr + HEADER BY <1>4 DEF Data
  <2>2. l[i].addr \in Nat /\ HEADER \in Nat BY BlockFacts, PoolAssumption
  <2>3. l[i].addr = l[j].addr BY <1>2, <1>3, <2>1, <2>2
  <2> QED BY <1>3, <2>3, TilesDistinct
<1> QED BY <1>1, <1>2, <1>4

\* The list m has block i cut in two, b and the free rest.
Cuts(m, i, need, b, rest) ==
  /\ m \in Seq(Block) /\ Tiles(m, POOL)
  /\ b.addr = blocks[i].addr /\ b.size = need /\ ~b.free
  /\ rest.free /\ rest.size = blocks[i].size - need - HEADER
  /\ TakenIn(m) = (TakenIn(blocks) \ {blocks[i]}) \union {b}
  /\ \A g \in [Block -> Int] :
       Weight(m, g) = Weight(blocks, g) - g[blocks[i]] + g[b] + g[rest]

\* Cutting a block to size, in malloc and in realloc.
LEMMA CarveFacts ==
  ASSUME blocks \in Seq(Block), Tiles(blocks, POOL), NEW i \in 1 .. Len(blocks),
         NEW need \in Nat, need >= ALIGN_SIZE, need % ALIGN_SIZE = 0,
         Splits(blocks[i].size, need),
         NEW m, m = Splice(i, Carve(blocks[i], need))
  PROVE  \E b \in Block, rest \in Block : Cuts(m, i, need, b, rest)
<1>0. /\ HEADER \in Nat \ {0} /\ ALIGN_SIZE \in Nat \ {0} /\ POOL \in Nat
      /\ HEADER % ALIGN_SIZE = 0
  BY PoolAssumption
<1>1. PICK old \in Block : old = blocks[i] OBVIOUS
<1>2. old.addr \in Nat /\ old.size \in Nat BY DEF Block
<1>3. old.size >= need + HEADER + ALIGN_SIZE BY <1>1 DEF Splits
<1> DEFINE b == [old EXCEPT !.size = need, !.free = FALSE]
           rest == [addr |-> Data(old) + need, size |-> old.size - need - HEADER, free |-> TRUE]
<1>4. b \in Block /\ b.addr = old.addr /\ b.size = need /\ ~b.free
  BY DEF Block
<1>5. /\ rest \in Block /\ rest.addr = old.addr + HEADER + need
      /\ rest.size = old.size - need - HEADER /\ rest.free
  <2>1. Data(old) + need \in Nat /\ Data(old) + need = old.addr + HEADER + need
    BY <1>0, <1>2 DEF Data
  <2>2. old.size - need - HEADER \in Nat BY <1>0, <1>2, <1>3
  <2> QED BY <2>1, <2>2 DEF Block
<1>6. m = Replaced(blocks, i, <<b, rest>>)
  BY <1>1 DEF Splice, Carve, Replaced
<1> HIDE DEF b, rest
<1>7. /\ m \in Seq(Block) /\ Len(m) = Len(blocks) + 1 /\ m[i] = b /\ m[i + 1] = rest
      /\ \A k \in 1 .. Len(blocks) : (k < i => m[k] = blocks[k]) /\ (k > i => m[k + 1] = blocks[k])
  BY <1>4, <1>5, <1>6, SpliceTwo
<1>8. Tiles(m, POOL)
  <2>1. m[i].addr = blocks[i].addr /\ m[i].size >= ALIGN_SIZE BY <1>1, <1>4, <1>7
  <2>2. m[i + 1].addr = Data(m[i]) + m[i].size BY <1>4, <1>5, <1>7 DEF Data
  <2>3. Data(m[i + 1]) + m[i + 1].size = Data(blocks[i]) + blocks[i].size
    <3>1. Data(rest) + rest.size = old.addr + HEADER + need + HEADER + (old.size - need - HEADER)
      BY <1>5 DEF Data
    <3>2. Data(old) + old.size = old.addr + HEADER + old.size BY DEF Data
    <3> QED BY <1>0, <1>1, <1>2, <1>7, <3>1, <3>2
  <2>4. m[i + 1].size >= ALIGN_SIZE BY <1>0, <1>2, <1>3, <1>5, <1>7
  <2>5. m[i + 1].addr % ALIGN_SIZE = 0
    <3>1. old.addr % ALIGN_SIZE = 0 BY <1>1 DEF Tiles
    <3>2. (old.addr + HEADER) % ALIGN_SIZE = 0 BY <1>0, <1>2, <3>1, AddMultiples
    <3>3. old.addr + HEADER \in Nat BY <1>0, <1>2
    <3>4. (old.addr + HEADER + need) % ALIGN_SIZE = 0 BY <1>0, <3>2, <3>3, AddMultiples
    <3> QED BY <1>5, <1>7, <3>4
  <2> QED BY <1>0, <1>7, <2>1, <2>2, <2>3, <2>4, <2>5, TilesSplit
<1>9. TakenIn(m) = (TakenIn(blocks) \ {blocks[i]}) \union {b}
  BY <1>0, <1>4, <1>5, <1>7, TakenSplit
<1>10. ASSUME NEW g \in [Block -> Int]
       PROVE  Weight(m, g) = Weight(blocks, g) - g[blocks[i]] + g[b] + g[rest]
  BY <1>7, WeightSplit
<1>11. m \in Seq(Block) /\ b.addr = blocks[i].addr /\ rest.size = blocks[i].size - need - HEADER
  BY <1>1, <1>4, <1>5, <1>7
<1> QED BY <1>4, <1>5, <1>8, <1>9, <1>10, <1>11 DEF Cuts

LEMMA FindStep ==
  ASSUME HeapInv, NEW c \in Clients, Alone(c), NEW want \in Nat,
         NEW old \in Nat \union {NULL}, old = NULL \/ Holder(c, old),
         At(c, "idle"), Find(c, want, old), UNCHANGED <<blocks, stats, owned>>
  PROVE  HeapInv'
<1>1. Admitted(want) /\ pc' = [pc EXCEPT ![c] = "take"] /\ pc[c] = "idle"
  BY DEF Find, Goto, At
<1>2. \A d \in Clients : pc[d] = "idle" BY <1>1 DEF Alone
<1>3. PICK i \in DOMAIN blocks :
        /\ Fits(blocks[i], ALIGN(want))
        /\ loc' = [loc EXCEPT ![c] = [addr |-> blocks[i].addr, size |-> blocks[i].size,
                                      need |-> ALIGN(want), want |-> want, old |-> old]]
  BY DEF Find
<1>4. blocks \in Seq(Block) /\ i \in 1 .. Len(blocks) BY <1>3 DEF HeapInv, HeapTyped
<1>5. want > 0 /\ want + ALIGN_SIZE - 1 < SIZE_MOD BY <1>1, PoolFacts DEF Admitted
<1>6. ALIGN(want) \in Nat BY <1>5, AlignFacts
<1>7. blocks[i].addr \in Nat /\ blocks[i].size \in Nat BY <1>4, BlockFacts
<1>8. HeapTyped'
  <2>1. loc' \in [Clients -> Call] BY <1>3, <1>6, <1>7 DEF HeapInv, HeapTyped, Call
  <2>2. pc' \in [Clients -> {"idle", "take", "mark", "merge"}]
    BY <1>1 DEF HeapInv, HeapTyped
  <2> QED BY <2>1, <2>2 DEF HeapInv, HeapTyped
<1>9. Tiles(blocks, POOL)' /\ Counted' /\ OwnedTaken'
  BY DEF HeapInv, Counted, OwnedTaken, stats
<1>10. Calls'
  <2>0. pc \in [Clients -> {"idle", "take", "mark", "merge"}] /\ loc \in [Clients -> Call]
    BY DEF HeapInv, HeapTyped
  <2>1. pc'[c] = "take" /\ \A d \in Clients : d # c => pc'[d] = "idle" BY <1>1, <1>2, <2>0
  <2>2. Found(c)'
    <3>1. /\ loc'[c].addr = blocks[i].addr /\ loc'[c].size = blocks[i].size
          /\ loc'[c].need = ALIGN(want) /\ loc'[c].want = want /\ loc'[c].old = old
      BY <1>3, <2>0
    <3>2. blocks[i].free /\ blocks[i].size >= ALIGN(want) BY <1>3 DEF Fits
    <3>3. Holder(c, old) => \E r \in owned' : r.by = c /\ r.ptr = old BY DEF Holder
    <3>4. Admitted(loc'[c].want) /\ loc'[c].need = ALIGN(loc'[c].want) BY <1>1, <3>1
    <3>5. loc'[c].old = NULL \/ \E r \in owned' : r.by = c /\ r.ptr = loc'[c].old BY <3>1, <3>3
    <3>6. \E k \in 1 .. Len(blocks') :
            /\ blocks'[k].free /\ blocks'[k].addr = loc'[c].addr
            /\ blocks'[k].size = loc'[c].size /\ blocks'[k].size >= loc'[c].need
      BY <1>4, <3>1, <3>2
    <3> QED BY <3>4, <3>5, <3>6 DEF Found, Holder
  <2> QED BY <2>1, <2>2 DEF Calls
<1>11. Settled'
  <2>1. owned = {} => Coalesced(blocks) BY <1>2 DEF HeapInv, Settled
  <2> QED BY <2>1 DEF Settled
<1> QED BY <1>8, <1>9, <1>10, <1>11 DEF HeapInv

LEMMA FreeStep ==
  ASSUME HeapInv, NEW c \in Clients, Alone(c), NEW r \in Holds(c), Free(c, r)
  PROVE  HeapInv'
<1>1. /\ pc' = [pc EXCEPT ![c] = "mark"] /\ pc[c] = "idle"
      /\ loc' = [loc EXCEPT ![c].old = r.ptr] /\ UNCHANGED <<blocks, stats, owned>>
  BY DEF Free, Goto, At
<1>2. \A d \in Clients : pc[d] = "idle" BY <1>1 DEF Alone
<1>3. /\ pc \in [Clients -> {"idle", "take", "mark", "merge"}] /\ loc \in [Clients -> Call]
      /\ r \in owned /\ r \in Regions /\ r.by = c
  BY DEF HeapInv, HeapTyped, Holds
<1>4. HeapTyped'
  <2>1. r.ptr \in Nat BY <1>3 DEF Regions
  <2>2. [loc[c] EXCEPT !.old = r.ptr] \in Call BY <1>3, <2>1 DEF Call
  <2>3. loc' \in [Clients -> Call] BY <1>1, <1>3, <2>2
  <2>4. pc' \in [Clients -> {"idle", "take", "mark", "merge"}] BY <1>1, <1>3
  <2> QED BY <1>1, <2>3, <2>4 DEF HeapInv, HeapTyped
<1>5. Tiles(blocks, POOL)' /\ Counted' /\ OwnedTaken'
  BY <1>1 DEF HeapInv, Counted, OwnedTaken, stats
<1>6. Calls'
  <2>1. pc'[c] = "mark" /\ \A d \in Clients : d # c => pc'[d] = "idle" BY <1>1, <1>2, <1>3
  <2>2. loc'[c].old = r.ptr
    <3>1. loc'[c] = [loc[c] EXCEPT !.old = r.ptr] BY <1>1, <1>3
    <3>2. loc[c] \in Call BY <1>3
    <3> QED BY <3>1, <3>2 DEF Call
  <2>3. \E q \in owned' : q.by = c /\ q.ptr = loc'[c].old BY <1>1, <1>3, <2>2
  <2> QED BY <2>1, <2>3 DEF Calls, Holder
<1>7. Settled'
  <2>1. owned = {} => Coalesced(blocks) BY <1>2 DEF HeapInv, Settled
  <2> QED BY <1>1, <2>1 DEF Settled
<1> QED BY <1>4, <1>5, <1>6, <1>7 DEF HeapInv

\* What taking a block does to the list: one more taken block, as large as asked for.
LEMMA TakenBlock ==
  ASSUME HeapInv, NEW c \in Clients, pc[c] = "take",
         TakeBlock(loc[c]) \/ (Gone(loc[c]) /\ UNCHANGED blocks), TakeStats(loc[c])
  PROVE  /\ blocks' \in Seq(Block) /\ Tiles(blocks, POOL)' /\ Counted'
         /\ \E b \in Block :
              /\ ~b.free /\ b.addr = loc[c].addr /\ b.size >= loc[c].want
              /\ TakenIn(blocks)' = TakenIn(blocks) \union {b}
              /\ \A q \in TakenIn(blocks) : Data(q) # Data(b)
         /\ allocated_blocks' = allocated_blocks + 1
<1> DEFINE l == loc[c]
<1>0. /\ HEADER \in Nat \ {0} /\ ALIGN_SIZE \in Nat \ {0} /\ POOL \in Nat
  BY PoolAssumption
<1>1. blocks \in Seq(Block) /\ Tiles(blocks, POOL) /\ Counted /\ Found(c) /\ l \in Call
  BY DEF HeapInv, HeapTyped, Calls
<1>2. PICK i \in 1 .. Len(blocks) :
        blocks[i].free /\ blocks[i].addr = l.addr /\ blocks[i].size = l.size /\ blocks[i].size >= l.need
  BY <1>1 DEF Found
<1>3. /\ l.want \in Nat /\ l.need \in Nat /\ l.size \in Nat /\ l.need >= l.want
      /\ l.need >= ALIGN_SIZE /\ l.need % ALIGN_SIZE = 0
  <2>1. l.want \in Nat /\ l.need \in Nat /\ l.size \in Nat BY <1>1 DEF Call
  <2>2. l.want > 0 /\ l.want <= POOL /\ l.need = ALIGN(l.want) BY <1>1 DEF Found, Admitted
  <2>3. l.want + ALIGN_SIZE - 1 < SIZE_MOD BY <2>1, <2>2, PoolFacts
  <2> QED BY <2>1, <2>2, <2>3, AlignFacts
<1>4. PICK o \in Block : o = blocks[i] BY <1>1
<1>5. o.free /\ o.addr = l.addr /\ o.size = l.size /\ o.addr \in Nat BY <1>2, <1>4 DEF Block
<1>6. [o EXCEPT !.size = l.size] = o BY <1>5 DEF Block
<1>7. blocks' = Splice(i, IF Splits(o.size, l.need) THEN Carve(o, l.need) ELSE << [o EXCEPT !.free = FALSE] >>)
  <2>1. ~Gone(l) BY <1>1, <1>2 DEF Gone
  <2>2. PICK j \in DOMAIN blocks :
          /\ blocks[j].addr = l.addr
          /\ blocks' = Splice(j, IF Splits(l.size, l.need)
                                 THEN Carve([blocks[j] EXCEPT !.size = l.size], l.need)
                                 ELSE << [blocks[j] EXCEPT !.size = l.size, !.free = FALSE] >>)
    BY <2>1 DEF TakeBlock
  <2>3. j = i BY <1>0, <1>1, <1>2, <2>2, TilesDistinct
  <2>4. [o EXCEPT !.size = l.size, !.free = FALSE] = [o EXCEPT !.free = FALSE] BY <1>5 DEF Block
  <2> QED BY <1>4, <1>5, <1>6, <2>2, <2>3, <2>4
<1>8. /\ Weight(blocks, FreeByte) \in Int /\ Weight(blocks, TakenByte) \in Int
      /\ Weight(blocks, FreeOne) \in Int /\ Weight(blocks, TakenOne) \in Int
  BY <1>1, IntWeights, CountersTyped
<1>9. \A q \in TakenIn(blocks) : Data(q) # Data(o)
  BY <1>0, <1>1, <1>4, <1>5, TakenFacts
<1>10. CASE Splits(l.size, l.need)
  <2>0. PICK b \in Block, rest \in Block : Cuts(blocks', i, l.need, b, rest)
    <3>1. blocks' = Splice(i, Carve(blocks[i], l.need)) BY <1>4, <1>5, <1>7, <1>10
    <3>2. Splits(blocks[i].size, l.need) BY <1>2, <1>10
    <3> QED BY <1>1, <1>3, <3>1, <3>2, CarveFacts
  <2>1. /\ blocks' \in Seq(Block) /\ Tiles(blocks', POOL)
        /\ b.addr = blocks[i].addr /\ b.size = l.need /\ ~b.free
        /\ rest.free /\ rest.size = blocks[i].size - l.need - HEADER
        /\ TakenIn(blocks') = (TakenIn(blocks) \ {blocks[i]}) \union {b}
        /\ \A g \in [Block -> Int] :
             Weight(blocks', g) = Weight(blocks, g) - g[blocks[i]] + g[b] + g[rest]
    BY <2>0 DEF Cuts
  <2>2. o \notin TakenIn(blocks) BY <1>5 DEF TakenIn
  <2>3. TakenIn(blocks') = TakenIn(blocks) \union {b} BY <1>4, <2>1, <2>2
  <2>4. \A q \in TakenIn(blocks) : Data(q) # Data(b) BY <1>4, <1>9, <2>1 DEF Data
  <2>5. /\ allocated_mem' = allocated_mem + l.need /\ allocated_blocks' = allocated_blocks + 1
        /\ free_mem' = free_mem - (l.need + HEADER) /\ free_blocks' = free_blocks
    BY <1>10 DEF TakeStats, Taken
  <2>6. Counted'
    <3>1. /\ FreeByte[o] = l.size /\ TakenByte[o] = 0 /\ FreeOne[o] = 1 /\ TakenOne[o] = 0
      BY <1>5, Counts
    <3>2. FreeByte[b] = 0 /\ TakenByte[b] = l.need /\ FreeOne[b] = 0 /\ TakenOne[b] = 1
      BY <2>1, Counts
    <3>3. /\ FreeByte[rest] = l.size - l.need - HEADER /\ TakenByte[rest] = 0
          /\ FreeOne[rest] = 1 /\ TakenOne[rest] = 0
      BY <1>2, <2>1, Counts
    <3>4. Weight(blocks', FreeByte) = Weight(blocks, FreeByte) - l.size + 0 + (l.size - l.need - HEADER)
      BY <1>4, <2>1, <3>1, <3>2, <3>3, CountersTyped
    <3>5. Weight(blocks', TakenByte) = Weight(blocks, TakenByte) - 0 + l.need + 0
      BY <1>4, <2>1, <3>1, <3>2, <3>3, CountersTyped
    <3>6. Weight(blocks', FreeOne) = Weight(blocks, FreeOne) - 1 + 0 + 1
      BY <1>4, <2>1, <3>1, <3>2, <3>3, CountersTyped
    <3>7. Weight(blocks', TakenOne) = Weight(blocks, TakenOne) - 0 + 1 + 0
      BY <1>4, <2>1, <3>1, <3>2, <3>3, CountersTyped
    <3> HIDE DEF l
    <3>8. free_mem' = Weight(blocks', FreeByte)
      <4>1. free_mem = Weight(blocks, FreeByte) BY <1>1 DEF Counted
      <4>2. PICK x \in Int, y \in Int, z \in Int :
              x = Weight(blocks, FreeByte) /\ y = l.size /\ z = l.need
        BY <1>0, <1>3, <1>8
      <4>3. Weight(blocks', FreeByte) = x - (z + HEADER)
        BY <1>0, <3>4, <4>2
      <4> QED BY <2>5, <4>1, <4>2, <4>3
    <3>9. allocated_mem' = Weight(blocks', TakenByte) BY <1>1, <1>3, <1>8, <2>5, <3>5 DEF Counted
    <3>10. free_blocks' = Weight(blocks', FreeOne) BY <1>1, <1>8, <2>5, <3>6 DEF Counted
    <3>11. allocated_blocks' = Weight(blocks', TakenOne) BY <1>1, <1>8, <2>5, <3>7 DEF Counted
    <3> QED BY <3>8, <3>9, <3>10, <3>11 DEF Counted
  <2>7. b.addr = l.addr /\ b.size >= l.want BY <1>2, <1>3, <2>1
  <2> QED BY <2>1, <2>3, <2>4, <2>5, <2>6, <2>7
<1>11. CASE ~Splits(l.size, l.need)
  <2> DEFINE b == [o EXCEPT !.free = FALSE]
  <2>1. b \in Block /\ ~b.free /\ b.addr = l.addr /\ b.size = l.size BY <1>5 DEF Block
  <2>2. blocks' = Replaced(blocks, i, <<b>>) BY <1>5, <1>7, <1>11 DEF Splice, Replaced
  <2> HIDE DEF b
  <2>3. /\ blocks' \in Seq(Block) /\ Len(blocks') = Len(blocks) /\ blocks'[i] = b
        /\ \A k \in 1 .. Len(blocks) : k # i => blocks'[k] = blocks[k]
    BY <1>1, <2>1, <2>2, SpliceOne
  <2>4. Tiles(blocks', POOL)
    <3>1. \A k \in 1 .. Len(blocks) : blocks'[k].addr = blocks[k].addr /\ blocks'[k].size = blocks[k].size
      BY <1>2, <2>1, <2>3
    <3> QED BY <1>0, <1>1, <2>3, <3>1, TilesChange
  <2>5. TakenIn(blocks') = TakenIn(blocks) \union {b}
    <3>1. TakenIn(blocks') = (TakenIn(blocks) \ {blocks[i]})
                               \union (IF blocks'[i].free THEN {} ELSE {blocks'[i]})
      BY <1>0, <1>1, <2>3, TakenChange
    <3>2. o \notin TakenIn(blocks) BY <1>5 DEF TakenIn
    <3> QED BY <1>4, <2>1, <2>3, <3>1, <3>2
  <2>6. \A q \in TakenIn(blocks) : Data(q) # Data(b) BY <1>5, <1>9, <2>1 DEF Data
  <2>7. /\ allocated_mem' = allocated_mem + l.size /\ allocated_blocks' = allocated_blocks + 1
        /\ free_mem' = free_mem - l.size /\ free_blocks' = free_blocks - 1
    BY <1>11 DEF TakeStats, Taken
  <2>8. Counted'
    <3>1. FreeByte[o] = l.size /\ TakenByte[o] = 0 /\ FreeOne[o] = 1 /\ TakenOne[o] = 0
      BY <1>5, Counts
    <3>2. FreeByte[b] = 0 /\ TakenByte[b] = l.size /\ FreeOne[b] = 0 /\ TakenOne[b] = 1
      BY <2>1, Counts
    <3>3. ASSUME NEW g \in [Block -> Int]
          PROVE  Weight(blocks', g) = Weight(blocks, g) - g[o] + g[b]
      BY <1>1, <1>4, <2>3, WeightChange
    <3>4. Weight(blocks', FreeByte) = Weight(blocks, FreeByte) - l.size + 0
      BY <3>1, <3>2, <3>3, CountersTyped
    <3>5. Weight(blocks', TakenByte) = Weight(blocks, TakenByte) - 0 + l.size
      BY <3>1, <3>2, <3>3, CountersTyped
    <3>6. Weight(blocks', FreeOne) = Weight(blocks, FreeOne) - 1 + 0
      BY <3>1, <3>2, <3>3, CountersTyped
    <3>7. Weight(blocks', TakenOne) = Weight(blocks, TakenOne) - 0 + 1
      BY <3>1, <3>2, <3>3, CountersTyped
    <3> HIDE DEF l
    <3>8. free_mem' = Weight(blocks', FreeByte) BY <1>1, <1>3, <1>8, <2>7, <3>4 DEF Counted
    <3>9. allocated_mem' = Weight(blocks', TakenByte) BY <1>1, <1>3, <1>8, <2>7, <3>5 DEF Counted
    <3>10. free_blocks' = Weight(blocks', FreeOne) BY <1>1, <1>8, <2>7, <3>6 DEF Counted
    <3>11. allocated_blocks' = Weight(blocks', TakenOne) BY <1>1, <1>8, <2>7, <3>7 DEF Counted
    <3> QED BY <3>8, <3>9, <3>10, <3>11 DEF Counted
  <2>9. b.size >= l.want BY <1>2, <1>3, <2>1
  <2> QED BY <2>1, <2>3, <2>4, <2>5, <2>6, <2>7, <2>8, <2>9
<1> QED BY <1>10, <1>11

LEMMA TakeStep ==
  ASSUME HeapInv, NEW c \in Clients, Alone(c), Take(c)
  PROVE  HeapInv'
<1> DEFINE l == loc[c]  new == Region(c, l)
<1>0. HEADER \in Nat BY PoolAssumption
<1>1. /\ pc[c] = "take"
      /\ TakeBlock(l) \/ (Gone(l) /\ UNCHANGED blocks)
      /\ TakeStats(l) /\ owned' = owned \union {new}
      /\ pc' = [pc EXCEPT ![c] = IF l.old = NULL THEN "idle" ELSE "mark"]
      /\ loc' = [loc EXCEPT ![c] = IF l.old = NULL THEN NoCall ELSE l]
  BY DEF Take, At, Goto
<1>2. \A d \in Clients : d # c => pc[d] = "idle" BY <1>1 DEF Alone
<1>3. /\ pc \in [Clients -> {"idle", "take", "mark", "merge"}] /\ loc \in [Clients -> Call]
      /\ owned \subseteq Regions /\ OwnedTaken /\ Found(c) /\ l \in Call
      /\ blocks \in Seq(Block) /\ Tiles(blocks, POOL)
  BY <1>1 DEF HeapInv, HeapTyped, Calls
<1>4. /\ blocks' \in Seq(Block) /\ Tiles(blocks, POOL)' /\ Counted'
      /\ allocated_blocks' = allocated_blocks + 1
  BY <1>1, TakenBlock
<1>5. PICK b \in Block :
        /\ ~b.free /\ b.addr = l.addr /\ b.size >= l.want
        /\ TakenIn(blocks)' = TakenIn(blocks) \union {b}
        /\ \A q \in TakenIn(blocks) : Data(q) # Data(b)
  BY <1>1, TakenBlock
<1>6. new \in Regions /\ new.ptr = Data(b) /\ new.size = l.want /\ new.by = c
  <2>1. l.addr \in Nat /\ l.want \in Nat BY <1>3 DEF Call
  <2> QED BY <1>0, <1>5, <2>1 DEF Region, Regions, Data
<1>7. \A r \in owned : r.ptr # new.ptr BY <1>3, <1>5, <1>6 DEF OwnedTaken
<1> HIDE DEF new
<1>8. HeapTyped'
  <2>1. NoCall \in Call BY DEF NoCall, Call
  <2>2. loc' \in [Clients -> Call] BY <1>1, <1>3, <2>1
  <2>3. pc' \in [Clients -> {"idle", "take", "mark", "merge"}] BY <1>1, <1>3
  <2> QED BY <1>1, <1>3, <1>4, <1>6, <2>2, <2>3 DEF HeapTyped
<1>9. OwnedTaken'
  <2>1. \A r \in owned' : \E q \in TakenIn(blocks)' : Data(q) = r.ptr /\ q.size >= r.size
    BY <1>1, <1>3, <1>5, <1>6 DEF OwnedTaken
  <2>2. \A r, q \in owned' : r.ptr = q.ptr => r = q BY <1>1, <1>3, <1>7 DEF OwnedTaken
  <2>3. \A q \in TakenIn(blocks)' : \E r \in owned' : r.ptr = Data(q)
    BY <1>1, <1>3, <1>5, <1>6 DEF OwnedTaken
  <2>4. IsFiniteSet(owned') /\ Cardinality(owned') = allocated_blocks'
    <3>1. new \notin owned BY <1>7
    <3>2. IsFiniteSet(owned) /\ Cardinality(owned) = allocated_blocks BY <1>3 DEF OwnedTaken
    <3> QED BY <1>1, <1>4, <3>1, <3>2, FS_AddElement
  <2> QED BY <2>1, <2>2, <2>3, <2>4 DEF OwnedTaken
<1>10. Calls'
  <2>1. /\ pc'[c] = IF l.old = NULL THEN "idle" ELSE "mark"
        /\ \A d \in Clients : d # c => pc'[d] = "idle"
    BY <1>1, <1>2, <1>3
  <2>2. ASSUME pc'[c] = "mark" PROVE \E r \in owned' : r.by = c /\ r.ptr = loc'[c].old
    <3>1. l.old # NULL /\ loc'[c] = l BY <1>1, <1>3, <2>1, <2>2
    <3>2. Holder(c, l.old) BY <1>3, <3>1 DEF Found
    <3> QED BY <1>1, <3>1, <3>2 DEF Holder
  <2> QED BY <2>1, <2>2 DEF Calls, Holder
<1>11. Settled' BY <1>1 DEF Settled
<1> QED BY <1>4, <1>8, <1>9, <1>10, <1>11 DEF HeapInv

LEMMA MarkStep ==
  ASSUME HeapInv, NEW c \in Clients, Alone(c), Mark(c)
  PROVE  /\ HeapInv'
         /\ \E b \in TakenIn(blocks) :
              Data(b) = loc[c].old /\ TakenIn(blocks)' = TakenIn(blocks) \ {b}
<1>0. HEADER \in Nat /\ POOL \in Nat BY PoolAssumption
<1>1. /\ pc[c] = "mark" /\ pc' = [pc EXCEPT ![c] = "merge"] /\ loc' = loc
      /\ owned' = {r \in owned : ~(r.by = c /\ r.ptr = loc[c].old)}
      /\ free_blocks' = free_blocks + 1 /\ allocated_blocks' = allocated_blocks - 1
  BY DEF Mark, At, Goto
<1>2. \A d \in Clients : d # c => pc[d] = "idle" BY <1>1 DEF Alone
<1>3. /\ pc \in [Clients -> {"idle", "take", "mark", "merge"}] /\ loc \in [Clients -> Call]
      /\ owned \subseteq Regions /\ OwnedTaken /\ Holder(c, loc[c].old) /\ Counted
      /\ blocks \in Seq(Block) /\ Tiles(blocks, POOL)
  BY <1>1 DEF HeapInv, HeapTyped, Calls
<1>4. PICK i \in 1 .. Len(blocks) :
        /\ Data(blocks[i]) = loc[c].old /\ blocks' = [blocks EXCEPT ![i].free = TRUE]
        /\ free_mem' = free_mem + blocks[i].size /\ allocated_mem' = allocated_mem - blocks[i].size
  <2>1. DOMAIN blocks = 1 .. Len(blocks) BY <1>3
  <2> QED BY <2>1 DEF Mark
<1>5. PICK own \in owned : own.by = c /\ own.ptr = loc[c].old BY <1>3 DEF Holder
<1>6. PICK o \in TakenIn(blocks) : Data(o) = own.ptr BY <1>3 DEF OwnedTaken
<1>7. blocks[i] = o /\ o \in Block /\ ~o.free BY <1>0, <1>3, <1>4, <1>5, <1>6, TakenFacts
<1> DEFINE b == [o EXCEPT !.free = TRUE]
<1>8. b \in Block /\ b.free /\ b.addr = o.addr /\ b.size = o.size /\ o.size \in Nat
  BY <1>7 DEF Block
<1>9. blocks' = [blocks EXCEPT ![i] = b] BY <1>4, <1>7
<1> HIDE DEF b
<1>10. /\ blocks' \in Seq(Block) /\ Len(blocks') = Len(blocks) /\ blocks'[i] = b
       /\ \A k \in 1 .. Len(blocks) : k # i => blocks'[k] = blocks[k]
  BY <1>3, <1>8, <1>9
<1>11. Tiles(blocks', POOL)
  <2>1. \A k \in 1 .. Len(blocks) : blocks'[k].addr = blocks[k].addr /\ blocks'[k].size = blocks[k].size
    BY <1>7, <1>8, <1>10
  <2> QED BY <1>0, <1>3, <1>10, <2>1, TilesChange
<1>12. TakenIn(blocks') = TakenIn(blocks) \ {o}
  <2>1. TakenIn(blocks') = (TakenIn(blocks) \ {blocks[i]})
                             \union (IF blocks'[i].free THEN {} ELSE {blocks'[i]})
    BY <1>0, <1>3, <1>10, TakenChange
  <2> QED BY <1>7, <1>8, <1>10, <2>1
<1>13. Counted'
  <2>1. /\ Weight(blocks, FreeByte) \in Int /\ Weight(blocks, TakenByte) \in Int
        /\ Weight(blocks, FreeOne) \in Int /\ Weight(blocks, TakenOne) \in Int
    BY <1>3, IntWeights, CountersTyped
  <2>2. FreeByte[o] = 0 /\ TakenByte[o] = o.size /\ FreeOne[o] = 0 /\ TakenOne[o] = 1
    BY <1>7, Counts
  <2>3. FreeByte[b] = o.size /\ TakenByte[b] = 0 /\ FreeOne[b] = 1 /\ TakenOne[b] = 0
    BY <1>8, Counts
  <2>4. ASSUME NEW g \in [Block -> Int]
        PROVE  Weight(blocks', g) = Weight(blocks, g) - g[o] + g[b]
    BY <1>3, <1>7, <1>10, WeightChange
  <2>5. Weight(blocks', FreeByte) = Weight(blocks, FreeByte) - 0 + o.size
    BY <2>2, <2>3, <2>4, CountersTyped
  <2>6. Weight(blocks', TakenByte) = Weight(blocks, TakenByte) - o.size + 0
    BY <2>2, <2>3, <2>4, CountersTyped
  <2>7. Weight(blocks', FreeOne) = Weight(blocks, FreeOne) - 0 + 1
    BY <2>2, <2>3, <2>4, CountersTyped
  <2>8. Weight(blocks', TakenOne) = Weight(blocks, TakenOne) - 1 + 0
    BY <2>2, <2>3, <2>4, CountersTyped
  <2>9. free_mem' = Weight(blocks', FreeByte) BY <1>3, <1>4, <1>7, <1>8, <2>1, <2>5 DEF Counted
  <2>10. allocated_mem' = Weight(blocks', TakenByte)
    BY <1>3, <1>4, <1>7, <1>8, <2>1, <2>6 DEF Counted
  <2>11. free_blocks' = Weight(blocks', FreeOne) BY <1>1, <1>3, <2>1, <2>7 DEF Counted
  <2>12. allocated_blocks' = Weight(blocks', TakenOne) BY <1>1, <1>3, <2>1, <2>8 DEF Counted
  <2> QED BY <2>9, <2>10, <2>11, <2>12 DEF Counted
<1>14. owned' = owned \ {own}
  BY <1>1, <1>3, <1>5 DEF OwnedTaken
<1>15. OwnedTaken'
  <2>1. ASSUME NEW r \in owned'
        PROVE  \E q \in TakenIn(blocks') : Data(q) = r.ptr /\ q.size >= r.size
    <3>1. r \in owned /\ r.ptr # own.ptr BY <1>3, <1>14 DEF OwnedTaken
    <3>2. PICK q \in TakenIn(blocks) : Data(q) = r.ptr /\ q.size >= r.size BY <1>3, <3>1 DEF OwnedTaken
    <3>3. q # o BY <1>6, <3>1, <3>2
    <3> QED BY <1>12, <3>2, <3>3
  <2>2. \A r, q \in owned' : r.ptr = q.ptr => r = q BY <1>3, <1>14 DEF OwnedTaken
  <2>3. ASSUME NEW q \in TakenIn(blocks') PROVE \E r \in owned' : r.ptr = Data(q)
    <3>1. q \in TakenIn(blocks) /\ q # o BY <1>12
    <3>2. PICK r \in owned : r.ptr = Data(q) BY <1>3, <3>1 DEF OwnedTaken
    <3>3. q = o \/ Data(q) # Data(o)
      <4>1. PICK k \in 1 .. Len(blocks) : blocks[k] = q BY <1>0, <1>3, <3>1, TakenFacts
      <4> QED BY <1>0, <1>3, <4>1, TakenFacts
    <3>4. r # own BY <1>6, <3>1, <3>2, <3>3
    <3> QED BY <1>14, <3>2, <3>4
  <2>4. IsFiniteSet(owned') /\ Cardinality(owned') = allocated_blocks'
    <3>1. IsFiniteSet(owned) /\ Cardinality(owned) = allocated_blocks BY <1>3 DEF OwnedTaken
    <3> QED BY <1>1, <1>5, <1>14, <3>1, FS_RemoveElement
  <2> QED BY <2>1, <2>2, <2>3, <2>4 DEF OwnedTaken
<1>16. HeapTyped'
  <2>1. pc' \in [Clients -> {"idle", "take", "mark", "merge"}] BY <1>1, <1>3
  <2> QED BY <1>1, <1>3, <1>10, <2>1 DEF HeapTyped
<1>17. pc'[c] = "merge" /\ \A d \in Clients : d # c => pc'[d] = "idle" BY <1>1, <1>2, <1>3
<1>18. Calls' /\ Settled' BY <1>17 DEF Calls, Settled
<1>19. HeapInv' BY <1>11, <1>13, <1>15, <1>16, <1>18 DEF HeapInv
<1>20. Data(o) = loc[c].old BY <1>5, <1>6
<1> QED BY <1>12, <1>19, <1>20

LEMMA MergeStep ==
  ASSUME HeapInv, NEW c \in Clients, Alone(c), Merge(c)
  PROVE  HeapInv' /\ TakenIn(blocks)' = TakenIn(blocks) /\ Coalesced(blocks)'
<1>0. HEADER \in Nat /\ POOL \in Nat BY PoolAssumption
<1>1. /\ pc[c] = "merge" /\ pc' = [pc EXCEPT ![c] = "idle"]
      /\ loc' = [loc EXCEPT ![c] = NoCall] /\ blocks' = Merged
      /\ free_mem' = free_mem + HEADER * (Len(blocks) - Len(Merged))
      /\ free_blocks' = free_blocks - (Len(blocks) - Len(Merged))
      /\ UNCHANGED <<allocated_mem, allocated_blocks, owned>>
  BY DEF Merge, At, Goto
<1>2. \A d \in Clients : d # c => pc[d] = "idle" BY <1>1 DEF Alone
<1>3. /\ pc \in [Clients -> {"idle", "take", "mark", "merge"}] /\ loc \in [Clients -> Call]
      /\ owned \subseteq Regions /\ OwnedTaken /\ Counted
      /\ blocks \in Seq(Block) /\ Tiles(blocks, POOL)
  BY DEF HeapInv, HeapTyped
<1>4. MergedFrom(blocks', blocks) BY <1>1, <1>3, MergedFacts
<1>5. /\ blocks' \in Seq(Block) /\ Tiles(blocks', POOL) /\ Coalesced(blocks')
      /\ TakenIn(blocks') = TakenIn(blocks)
  BY <1>0, <1>3, <1>4 DEF MergedFrom
<1>6. HeapTyped'
  <2>1. NoCall \in Call BY DEF NoCall, Call
  <2>2. loc' \in [Clients -> Call] BY <1>1, <1>3, <2>1
  <2>3. pc' \in [Clients -> {"idle", "take", "mark", "merge"}] BY <1>1, <1>3
  <2> QED BY <1>1, <1>3, <1>5, <2>2, <2>3 DEF HeapTyped
<1>7. Counted' BY <1>1, <1>3, <1>4 DEF Counted, MergedFrom
<1>8. OwnedTaken' BY <1>1, <1>3, <1>5 DEF OwnedTaken
<1>9. \A d \in Clients : pc'[d] = "idle" BY <1>1, <1>2, <1>3
<1>10. Calls' /\ Settled' BY <1>5, <1>9 DEF Calls, Settled
<1> QED BY <1>5, <1>6, <1>7, <1>8, <1>10 DEF HeapInv

\* A block of the command's caller is cut, or left as it is.
LEMMA ReallocInPlaceStep ==
  ASSUME HeapInv, NEW c \in Clients, Alone(c), NEW r \in Holds(c), NEW want \in Nat,
         want + ALIGN_SIZE - 1 < SIZE_MOD, ReallocInPlace(c, r, want)
  PROVE  /\ HeapInv'
         /\ \A b \in Block : Data(b) # r.ptr => (b \in TakenIn(blocks)' <=> b \in TakenIn(blocks))
<1>0. HEADER \in Nat /\ POOL \in Nat BY PoolAssumption
<1> DEFINE need == ALIGN(want)  new == [r EXCEPT !.size = want]
<1>1. /\ pc[c] = "idle" /\ want > 0 /\ pc' = pc /\ loc' = loc
      /\ owned' = (owned \ {r}) \union {new}
  BY DEF ReallocInPlace, At, Resized
<1>2. \A d \in Clients : pc[d] = "idle" BY <1>1 DEF Alone
<1>3. /\ pc \in [Clients -> {"idle", "take", "mark", "merge"}] /\ loc \in [Clients -> Call]
      /\ owned \subseteq Regions /\ OwnedTaken /\ Counted
      /\ blocks \in Seq(Block) /\ Tiles(blocks, POOL) /\ r \in owned /\ r.by = c
  BY DEF HeapInv, HeapTyped, Holds
<1>4. need \in Nat /\ need >= want /\ need >= ALIGN_SIZE /\ need % ALIGN_SIZE = 0
  BY <1>1, AlignFacts
<1> HIDE DEF need
<1>5. PICK i \in 1 .. Len(blocks) :
        /\ Data(blocks[i]) = r.ptr /\ blocks[i].size >= need
        /\ IF Splits(blocks[i].size, need)
           THEN LET rest == blocks[i].size - need - HEADER IN
                /\ blocks' = Splice(i, Carve(blocks[i], need))
                /\ free_mem' = free_mem + rest
                /\ allocated_mem' = allocated_mem - (rest + HEADER)
                /\ free_blocks' = free_blocks + 1
                /\ UNCHANGED allocated_blocks
           ELSE UNCHANGED <<blocks, stats>>
  <2>1. DOMAIN blocks = 1 .. Len(blocks) BY <1>3
  <2> QED BY <2>1 DEF ReallocInPlace, need
<1>6. PICK o \in TakenIn(blocks) : Data(o) = r.ptr /\ o.size >= r.size BY <1>3 DEF OwnedTaken
<1>7. blocks[i] = o /\ o \in Block /\ ~o.free /\ o.size \in Nat
  BY <1>0, <1>3, <1>5, <1>6, TakenFacts
<1>8. new \in Regions /\ new.ptr = r.ptr /\ new.size = want /\ new.by = c
  <2>1. r \in Regions BY <1>3
  <2> QED BY <1>3, <2>1 DEF Regions
<1> HIDE DEF new
\* Whatever has become of the block, it is still the one that r is the data of.
<1>9. ASSUME NEW b \in Block, Data(b) = r.ptr, b.size >= want,
             TakenIn(blocks') = (TakenIn(blocks) \ {o}) \union {b},
             blocks' \in Seq(Block), Tiles(blocks', POOL), Counted',
             allocated_blocks' = allocated_blocks
      PROVE  /\ HeapInv'
             /\ \A q \in Block : Data(q) # r.ptr => (q \in TakenIn(blocks)' <=> q \in TakenIn(blocks))
  <2>1. HeapTyped' BY <1>1, <1>3, <1>8, <1>9 DEF HeapTyped
  <2>2. ASSUME NEW x \in owned'
        PROVE  \E q \in TakenIn(blocks') : Data(q) = x.ptr /\ q.size >= x.size
    <3>1. CASE x = new BY <1>8, <1>9, <3>1
    <3>2. CASE x # new
      <4>1. x \in owned /\ x.ptr # r.ptr BY <1>1, <1>3, <3>2 DEF OwnedTaken
      <4>2. PICK q \in TakenIn(blocks) : Data(q) = x.ptr /\ q.size >= x.size
        BY <1>3, <4>1 DEF OwnedTaken
      <4>3. q # o BY <1>6, <4>1, <4>2
      <4> QED BY <1>9, <4>2, <4>3
    <3> QED BY <3>1, <3>2
  <2>3. \A x, q \in owned' : x.ptr = q.ptr => x = q BY <1>1, <1>3, <1>8 DEF OwnedTaken
  <2>4. ASSUME NEW q \in TakenIn(blocks') PROVE \E x \in owned' : x.ptr = Data(q)
    <3>1. CASE q = b BY <1>1, <1>8, <1>9, <3>1
    <3>2. CASE q # b
      <4>1. q \in TakenIn(blocks) /\ q # o BY <1>9, <3>2
      <4>2. PICK x \in owned : x.ptr = Data(q) BY <1>3, <4>1 DEF OwnedTaken
      <4>3. CASE x = r BY <1>1, <1>8, <4>2, <4>3
      <4>4. CASE x # r BY <1>1, <4>2, <4>4
      <4> QED BY <4>3, <4>4
    <3> QED BY <3>1, <3>2
  <2>5. IsFiniteSet(owned') /\ Cardinality(owned') = allocated_blocks'
    <3>1. IsFiniteSet(owned) /\ Cardinality(owned) = allocated_blocks BY <1>3 DEF OwnedTaken
    <3>2. IsFiniteSet(owned \ {r}) /\ Cardinality(owned \ {r}) = Cardinality(owned) - 1
      BY <1>3, <3>1, FS_RemoveElement
    <3>3. new \notin owned \ {r} BY <1>3, <1>8 DEF OwnedTaken
    <3>4. IsFiniteSet(owned') /\ Cardinality(owned') = Cardinality(owned \ {r}) + 1
      BY <1>1, <3>2, <3>3, FS_AddElement
    <3>5. Cardinality(owned) \in Nat BY <3>1, FS_CardinalityType
    <3> QED BY <1>9, <3>1, <3>2, <3>4, <3>5
  <2>6. OwnedTaken' BY <2>2, <2>3, <2>4, <2>5 DEF OwnedTaken
  <2>7. Calls' BY <1>1, <1>2 DEF Calls
  <2>8. Settled' BY <1>1 DEF Settled
  <2>9. \A q \in Block : Data(q) # r.ptr => (q \in TakenIn(blocks)' <=> q \in TakenIn(blocks))
    BY <1>6, <1>9
  <2> QED BY <1>9, <2>1, <2>6, <2>7, <2>8, <2>9 DEF HeapInv
<1>10. CASE Splits(blocks[i].size, need)
  <2> DEFINE rest == o.size - need - HEADER
  <2>0. /\ blocks' = Splice(i, Carve(blocks[i], need))
        /\ free_mem' = free_mem + rest /\ allocated_mem' = allocated_mem - (rest + HEADER)
        /\ free_blocks' = free_blocks + 1 /\ allocated_blocks' = allocated_blocks
    BY <1>5, <1>7, <1>10
  <2>1. PICK b \in Block, e \in Block : Cuts(blocks', i, need, b, e)
    BY <1>3, <1>4, <1>10, <2>0, CarveFacts
  <2>2. /\ blocks' \in Seq(Block) /\ Tiles(blocks', POOL)
        /\ b.addr = o.addr /\ b.size = need /\ ~b.free /\ e.free /\ e.size = rest
        /\ TakenIn(blocks') = (TakenIn(blocks) \ {o}) \union {b}
        /\ \A g \in [Block -> Int] :
             Weight(blocks', g) = Weight(blocks, g) - g[o] + g[b] + g[e]
    BY <1>7, <2>1 DEF Cuts
  <2>3. rest \in Nat
    <3>1. ALIGN_SIZE \in Nat /\ o.size \in Nat BY <1>7, PoolAssumption
    <3>2. o.size >= need + HEADER + ALIGN_SIZE BY <1>7, <1>10 DEF Splits
    <3> QED BY <1>0, <1>4, <3>1, <3>2
  <2>4. Data(b) = r.ptr BY <1>6, <2>2 DEF Data
  <2>5. Counted'
    <3>1. /\ Weight(blocks, FreeByte) \in Int /\ Weight(blocks, TakenByte) \in Int
          /\ Weight(blocks, FreeOne) \in Int /\ Weight(blocks, TakenOne) \in Int
      BY <1>3, IntWeights, CountersTyped
    <3>2. FreeByte[o] = 0 /\ TakenByte[o] = o.size /\ FreeOne[o] = 0 /\ TakenOne[o] = 1
      BY <1>7, Counts
    <3>3. FreeByte[b] = 0 /\ TakenByte[b] = need /\ FreeOne[b] = 0 /\ TakenOne[b] = 1
      BY <2>2, Counts
    <3>4. FreeByte[e] = rest /\ TakenByte[e] = 0 /\ FreeOne[e] = 1 /\ TakenOne[e] = 0
      BY <2>2, Counts
    <3>5. Weight(blocks', FreeByte) = Weight(blocks, FreeByte) - 0 + 0 + rest
      BY <2>2, <3>2, <3>3, <3>4, CountersTyped
    <3>6. Weight(blocks', TakenByte) = Weight(blocks, TakenByte) - o.size + need + 0
      BY <2>2, <3>2, <3>3, <3>4, CountersTyped
    <3>7. Weight(blocks', FreeOne) = Weight(blocks, FreeOne) - 0 + 0 + 1
      BY <2>2, <3>2, <3>3, <3>4, CountersTyped
    <3>8. Weight(blocks', TakenOne) = Weight(blocks, TakenOne) - 1 + 1 + 0
      BY <2>2, <3>2, <3>3, <3>4, CountersTyped
    <3>9. free_mem' = Weight(blocks', FreeByte)
      <4> HIDE DEF rest
      <4> QED BY <1>3, <2>0, <2>3, <3>1, <3>5 DEF Counted
    <3>10. allocated_mem' = Weight(blocks', TakenByte)
      <4>1. PICK w \in Int, z \in Nat : w = Weight(blocks, TakenByte) /\ z = o.size
        BY <1>7, <3>1
      <4>2. allocated_mem' = w - (z - need - HEADER + HEADER) BY <1>3, <2>0, <4>1 DEF Counted
      <4>3. Weight(blocks', TakenByte) = w - z + need + 0 BY <3>6, <4>1
      <4> QED BY <1>0, <1>4, <4>2, <4>3
    <3>11. free_blocks' = Weight(blocks', FreeOne) BY <1>3, <2>0, <3>1, <3>7 DEF Counted
    <3>12. allocated_blocks' = Weight(blocks', TakenOne) BY <1>3, <2>0, <3>1, <3>8 DEF Counted
    <3> QED BY <3>9, <3>10, <3>11, <3>12 DEF Counted
  <2>6. b.size >= want BY <1>4, <2>2
  <2> QED BY <1>9, <2>0, <2>2, <2>4, <2>5, <2>6
<1>11. CASE ~Splits(blocks[i].size, need)
  <2>1. UNCHANGED <<blocks, stats>> BY <1>5, <1>11
  <2>2. Counted' /\ allocated_blocks' = allocated_blocks BY <1>3, <2>1 DEF Counted, stats
  <2>3. o.size >= want BY <1>4, <1>5, <1>7
  <2>4. TakenIn(blocks') = (TakenIn(blocks) \ {o}) \union {o} BY <2>1
  <2> QED BY <1>3, <1>6, <1>7, <1>9, <2>1, <2>2, <2>3, <2>4
<1> QED BY <1>10, <1>11

LEMMA HeapInit ==
  ASSUME Init, HEADER < POOL
  PROVE  HeapInv
<1>0. /\ HEADER \in Nat \ {0} /\ ALIGN_SIZE \in Nat \ {0} /\ POOL \in Nat
      /\ HEADER % ALIGN_SIZE = 0 /\ POOL % ALIGN_SIZE = 0
  BY PoolAssumption
<1>1. /\ blocks = <<Whole>> /\ free_mem = POOL - HEADER /\ allocated_mem = 0
      /\ free_blocks = 1 /\ allocated_blocks = 0 /\ owned = {}
      /\ pc = [c \in Clients |-> "idle"] /\ loc = [c \in Clients |-> NoCall]
  BY DEF Init
<1>2. POOL - HEADER \in Nat /\ POOL - HEADER > 0 BY <1>0
<1>3. POOL - HEADER >= ALIGN_SIZE
  <2>1. PICK p \in Nat : POOL = ALIGN_SIZE * p BY <1>0, Multiples
  <2>2. PICK h \in Nat : HEADER = ALIGN_SIZE * h BY <1>0, Multiples
  <2>3. PICK d \in Int : d = p - h OBVIOUS
  <2>4. POOL - HEADER = ALIGN_SIZE * d BY <1>0, <2>1, <2>2, <2>3
  <2>5. d <= 0 => ALIGN_SIZE * d <= 0 BY <1>0
  <2>6. d >= 1 => ALIGN_SIZE * d >= ALIGN_SIZE BY <1>0
  <2> QED BY <1>2, <2>4, <2>5, <2>6
<1>4. Whole \in Block /\ Whole.free /\ Whole.size = POOL - HEADER /\ Whole.addr = 0
  BY <1>2 DEF Whole, Block
<1>5. /\ blocks \in Seq(Block) /\ Len(blocks) = 1 /\ blocks[1] = Whole /\ blocks # <<>>
  BY <1>1, <1>4
<1>6. Tiles(blocks, POOL)
  <2>1. Data(Whole) + Whole.size = POOL BY <1>0, <1>4 DEF Data
  <2>2. 0 % ALIGN_SIZE = 0 BY <1>0
  <2>3. \A i \in 1 .. Len(blocks) : i = 1 BY <1>5
  <2> QED BY <1>3, <1>4, <1>5, <2>1, <2>2, <2>3 DEF Tiles
<1>7. HeapTyped
  <2>1. NoCall \in Call BY DEF NoCall, Call
  <2> QED BY <1>1, <1>5, <2>1 DEF HeapTyped
<1>8. ASSUME NEW g \in [Block -> Int] PROVE Weight(blocks, g) = g[Whole]
  <2>1. <<>> \in Seq(Block) /\ Append(<<>>, Whole) = blocks BY <1>1
  <2>2. Weight(<<>>, g) = 0
    <3>1. Weights(<<>>, g) = <<>> BY DEF Weights
    <3> QED BY <3>1, SumEmpty DEF Weight
  <2>3. Weight(blocks, g) = Weight(<<>>, g) + g[Whole] BY <1>4, <2>1, WeightAppend
  <2>4. g[Whole] \in Int BY <1>4
  <2> QED BY <2>2, <2>3, <2>4
<1>9. Counted
  <2>1. /\ FreeByte[Whole] = POOL - HEADER /\ TakenByte[Whole] = 0
        /\ FreeOne[Whole] = 1 /\ TakenOne[Whole] = 0
    BY <1>4, Counts
  <2>2. /\ Weight(blocks, FreeByte) = POOL - HEADER /\ Weight(blocks, TakenByte) = 0
        /\ Weight(blocks, FreeOne) = 1 /\ Weight(blocks, TakenOne) = 0
    BY <1>8, <2>1, CountersTyped
  <2> QED BY <1>1, <2>2 DEF Counted
<1>10. OwnedTaken
  <2>1. TakenIn(blocks) = {} BY <1>4, <1>5 DEF TakenIn
  <2> QED BY <1>1, <2>1, FS_EmptySet DEF OwnedTaken
<1>11. Calls BY <1>1 DEF Calls
<1>12. Settled BY <1>5 DEF Settled, Coalesced
<1> QED BY <1>6, <1>7, <1>9, <1>10, <1>11, <1>12 DEF HeapInv

-----------------------------------------------------------------------------
(* The theorems about the heap                                             *)

\* Any step of a client that is alone in the heap, for any size that rounds up without
\* overflow.
HeapStep ==
  \E c \in Clients :
    /\ Alone(c)
    /\ \/ \E want \in Nat : Malloc(c, want)
       \/ \E r \in Holds(c) :
            \/ Free(c, r)
            \/ \E want \in Nat :
                 /\ want + ALIGN_SIZE - 1 < SIZE_MOD
                 /\ ReallocInPlace(c, r, want) \/ ReallocMove(c, r, want)
       \/ Continues(c)

LEMMA HeapInductive ==
  ASSUME HeapInv, HeapStep \/ UNCHANGED vars
  PROVE  HeapInv'
<1>1. CASE UNCHANGED vars
  <2>1. UNCHANGED <<blocks, free_mem, allocated_mem, free_blocks, allocated_blocks, owned, pc, loc>>
    BY <1>1 DEF vars, stats
  <2> QED BY <2>1 DEF HeapInv, HeapTyped, Counted, OwnedTaken, Calls, Settled, Found, Holder
<1>2. ASSUME NEW c \in Clients, Alone(c), NEW want \in Nat, Malloc(c, want) PROVE HeapInv'
  BY <1>2, FindStep DEF Malloc
<1>3. ASSUME NEW c \in Clients, Alone(c), NEW r \in Holds(c), Free(c, r) PROVE HeapInv'
  BY <1>3, FreeStep
<1>4. ASSUME NEW c \in Clients, Alone(c), NEW r \in Holds(c), NEW want \in Nat,
             want + ALIGN_SIZE - 1 < SIZE_MOD, ReallocInPlace(c, r, want)
      PROVE  HeapInv'
  BY <1>4, ReallocInPlaceStep
<1>5. ASSUME NEW c \in Clients, Alone(c), NEW r \in Holds(c), NEW want \in Nat,
             ReallocMove(c, r, want)
      PROVE  HeapInv'
  <2>1. r \in owned /\ r.by = c /\ r \in Regions BY DEF Holds, HeapInv, HeapTyped
  <2>2. r.ptr \in Nat /\ Holder(c, r.ptr) BY <2>1 DEF Regions, Holder
  <2>3. At(c, "idle") /\ Find(c, want, r.ptr) /\ UNCHANGED <<blocks, stats, owned>>
    BY <1>5 DEF ReallocMove
  <2> QED BY <1>5, <2>2, <2>3, FindStep
<1>6. ASSUME NEW c \in Clients, Alone(c), Continues(c) PROVE HeapInv'
  BY <1>6, TakeStep, MarkStep, MergeStep DEF Continues
<1> QED BY <1>1, <1>2, <1>3, <1>4, <1>5, <1>6 DEF HeapStep

LEMMA NextIsHeapStep ==
  ASSUME HeapInv, NEW c \in Clients, Alone(c), CallsOf(c) \/ Continues(c)
  PROVE  HeapStep
<1>1. \A want \in Sizes : want \in Nat BY SizesAssumption, PoolAssumption
<1>2. \A want \in Sizes : want <= POOL => want + ALIGN_SIZE - 1 < SIZE_MOD
  BY <1>1, PoolFacts
<1> QED BY <1>1, <1>2 DEF CallsOf, HeapStep

\* What the invariant says of the properties.
LEMMA HeapInvImplies ==
  ASSUME HeapInv
  PROVE  HeapTypeOK /\ Tiling /\ RegionsDisjoint /\ Accounting /\ WholeAgain
<1>0. /\ HEADER \in Nat \ {0} /\ ALIGN_SIZE \in Nat \ {0} /\ POOL \in Nat
  BY PoolAssumption
<1>1. /\ blocks \in Seq(Block) /\ Tiles(blocks, POOL) /\ owned \subseteq Regions
      /\ pc \in [Clients -> {"idle", "take", "mark", "merge"}]
      /\ Counted /\ OwnedTaken /\ Calls /\ Settled
  BY DEF HeapInv, HeapTyped
<1>2. DOMAIN blocks = 1 .. Len(blocks) /\ Len(blocks) \in Nat BY <1>1
<1>3. HeapTypeOK
  <2>1. blocks \in Seq([addr : Nat, size : Nat, free : BOOLEAN]) BY <1>1 DEF Block
  <2>2. free_mem \in Nat /\ allocated_mem \in Nat /\ free_blocks \in Nat /\ allocated_blocks \in Nat
    BY <1>1, WeightNat, CountersTyped DEF Counted
  <2>3. \A r \in owned : r.ptr \in Nat /\ r.size \in Nat /\ r.by \in Clients
    BY <1>1 DEF Regions
  <2> QED BY <1>1, <2>1, <2>2, <2>3 DEF HeapTypeOK
<1>4. Tiling
  <2>1. Head(blocks) = blocks[1] BY <1>1 DEF Tiles
  <2> QED BY <1>1, <1>2, <2>1 DEF Tiling, Tiles
<1>5. RegionsDisjoint
  <2>1. ASSUME NEW r \in owned
        PROVE  \E i \in 1 .. Len(blocks) :
                 ~blocks[i].free /\ Data(blocks[i]) = r.ptr /\ blocks[i].size >= r.size
    <3>1. PICK b \in TakenIn(blocks) : Data(b) = r.ptr /\ b.size >= r.size BY <1>1 DEF OwnedTaken
    <3>2. PICK i \in 1 .. Len(blocks) : blocks[i] = b BY <3>1 DEF TakenIn
    <3> QED BY <3>1, <3>2 DEF TakenIn
  <2>2. ASSUME NEW r \in owned, NEW q \in owned, r # q
        PROVE  r.ptr + r.size <= q.ptr \/ q.ptr + q.size <= r.ptr
    <3>1. PICK i \in 1 .. Len(blocks) : Data(blocks[i]) = r.ptr /\ blocks[i].size >= r.size BY <2>1
    <3>2. PICK j \in 1 .. Len(blocks) : Data(blocks[j]) = q.ptr /\ blocks[j].size >= q.size BY <2>1
    <3>3. r.ptr # q.ptr BY <1>1, <2>2 DEF OwnedTaken
    <3>4. r.ptr \in Nat /\ r.size \in Nat /\ q.ptr \in Nat /\ q.size \in Nat BY <1>1 DEF Regions
    <3>5. i < j \/ j < i BY <3>1, <3>2, <3>3
    <3>6. /\ i < j => Data(blocks[i]) + blocks[i].size <= blocks[j].addr
          /\ j < i => Data(blocks[j]) + blocks[j].size <= blocks[i].addr
      BY <1>0, <1>1, TilesOrdered
    <3>7. /\ blocks[i].addr \in Nat /\ blocks[i].size \in Nat /\ Data(blocks[i]) = blocks[i].addr + HEADER
          /\ blocks[j].addr \in Nat /\ blocks[j].size \in Nat /\ Data(blocks[j]) = blocks[j].addr + HEADER
      BY <1>1, BlockFacts
    <3>8. CASE i < j
      <4>1. r.ptr + blocks[i].size <= q.ptr BY <1>0, <3>1, <3>2, <3>6, <3>7, <3>8
      <4>2. blocks[i].size \in Nat BY <3>7
      <4> QED BY <3>1, <3>4, <4>1, <4>2
    <3>9. CASE j < i
      <4>1. q.ptr + blocks[j].size <= r.ptr BY <1>0, <3>1, <3>2, <3>6, <3>7, <3>9
      <4>2. blocks[j].size \in Nat BY <3>7
      <4> QED BY <3>2, <3>4, <4>1, <4>2
    <3> QED BY <3>5, <3>8, <3>9
  <2> QED BY <1>2, <2>1, <2>2 DEF RegionsDisjoint
<1>6. Accounting
  <2>1. \A i \in 1 .. Len(blocks) : blocks[i].addr < POOL /\ blocks[i].size <= POOL
    <3> SUFFICES ASSUME NEW i \in 1 .. Len(blocks)
                 PROVE  blocks[i].addr < POOL /\ blocks[i].size <= POOL
      OBVIOUS
    <3>1. Data(blocks[i]) + blocks[i].size <= POOL BY <1>0, <1>1, TilesOrdered
    <3>2. blocks[i].addr \in Nat /\ blocks[i].size \in Nat /\ Data(blocks[i]) = blocks[i].addr + HEADER
      BY <1>1, BlockFacts
    <3> QED BY <1>0, <3>1, <3>2
  <2>2. ASSUME NEW i \in DOMAIN blocks
        PROVE  /\ FreeByte[blocks[i]] = IF IsFree(blocks[i]) THEN blocks[i].size ELSE 0
               /\ TakenByte[blocks[i]] = IF IsTaken(blocks[i]) THEN blocks[i].size ELSE 0
               /\ FreeOne[blocks[i]] = IF IsFree(blocks[i]) THEN 1 ELSE 0
               /\ TakenOne[blocks[i]] = IF IsTaken(blocks[i]) THEN 1 ELSE 0
    <3>1. blocks[i] \in Block BY <1>1, <1>2
    <3> QED BY <3>1, Counts DEF IsFree, IsTaken
  <2>3. Weight(blocks, FreeByte) = Total(IsFree) BY <2>2 DEF Weight, Weights, Total
  <2>4. Weight(blocks, TakenByte) = Total(IsTaken) BY <2>2 DEF Weight, Weights, Total
  <2>5. Weight(blocks, FreeOne) = Count(IsFree) BY <2>2 DEF Weight, Weights, Count
  <2>6. Weight(blocks, TakenOne) = Count(IsTaken) BY <2>2 DEF Weight, Weights, Count
  <2>7. check_integrity BY <1>1, <1>2, <2>1, <2>3, <2>4 DEF check_integrity, Counted
  <2>8. allocated_blocks = Cardinality(owned) BY <1>1 DEF OwnedTaken
  <2> QED BY <1>1, <2>5, <2>6, <2>7, <2>8 DEF Accounting, Counted
<1>7. WholeAgain
  <2> SUFFICES ASSUME Quiet, owned = {} PROVE blocks = <<Whole>>
    BY DEF WholeAgain
  <2>1. Coalesced(blocks) BY <1>1 DEF Settled, Quiet
  <2>2. TakenIn(blocks) = {} BY <1>1 DEF OwnedTaken
  <2>3. \A i \in 1 .. Len(blocks) : blocks[i].free
    <3> SUFFICES ASSUME NEW i \in 1 .. Len(blocks) PROVE blocks[i].free
      OBVIOUS
    <3>1. blocks[i] \in Block BY <1>1
    <3> QED BY <2>2, <3>1 DEF TakenIn
  <2>4. Len(blocks) = 1
    <3>0. blocks # <<>> BY <1>1 DEF Tiles
    <3>1. Len(blocks) >= 1 BY <1>1, <1>2, <3>0
    <3>2. Len(blocks) > 1 => 1 \in 1 .. Len(blocks) - 1 /\ 1 \in 1 .. Len(blocks) /\ 2 \in 1 .. Len(blocks)
      BY <1>2
    <3>3. 1 + 1 = 2 OBVIOUS
    <3> QED BY <1>2, <2>1, <2>3, <3>1, <3>2, <3>3 DEF Coalesced
  <2>5. blocks[1] = Whole
    <3>1. PICK b \in Block : b = blocks[1] BY <1>1, <2>4
    <3>2. b.addr = 0 /\ Data(b) + b.size = POOL BY <1>1, <2>4, <3>1 DEF Tiles
    <3>3. b.free BY <2>3, <2>4, <3>1
    <3>4. b.size = POOL - HEADER
      <4>1. b.size \in Nat BY DEF Block
      <4> QED BY <1>0, <3>2, <4>1 DEF Data
    <3> QED BY <3>1, <3>2, <3>3, <3>4 DEF Whole, Block
  <2> QED BY <1>1, <2>4, <2>5
<1> QED BY <1>3, <1>4, <1>5, <1>6, <1>7

-----------------------------------------------------------------------------
(* The command's calls                                                     *)

\* What HeapInv says, unfolded, to a client that is about to call.
LEMMA HeapParts ==
  ASSUME HeapInv
  PROVE  /\ blocks \in Seq(Block) /\ Tiles(blocks, POOL) /\ owned \subseteq Regions /\ OwnedTaken
         /\ pc \in [Clients -> {"idle", "take", "mark", "merge"}] /\ loc \in [Clients -> Call]
         /\ Calls /\ Counted /\ HEADER \in Nat \ {0} /\ POOL \in Nat
         /\ DOMAIN blocks = 1 .. Len(blocks)
BY PoolAssumption DEF HeapInv, HeapTyped

\* What is held is the data of a taken block, and so never of a free one.
LEMMA HeldIsTaken ==
  ASSUME HeapInv, NEW c \in Clients, NEW p, Holder(c, p),
         NEW i \in 1 .. Len(blocks), blocks[i].free
  PROVE  p # blocks[i].addr + HEADER
<1>1. /\ blocks \in Seq(Block) /\ Tiles(blocks, POOL) /\ OwnedTaken /\ POOL \in Nat BY HeapParts
<1>2. PICK r \in owned : r.by = c /\ r.ptr = p BY DEF Holder
<1>3. PICK b \in TakenIn(blocks) : Data(b) = p BY <1>1, <1>2 DEF OwnedTaken
<1>4. ~b.free /\ (Data(blocks[i]) = Data(b) => blocks[i] = b) BY <1>1, TakenFacts
<1> QED BY <1>3, <1>4 DEF Data

\* The pointer that Held names.
LEMMA HeldIs ==
  ASSUME NEW p, Holder(Cli, p)
  PROVE  Held(p) \in Holds(Cli) /\ Held(p).ptr = p
<1>1. \E r \in Holds(Cli) : r.ptr = p BY DEF Holder, Holds
<1> QED BY <1>1 DEF Held

\* A region ends in the pool, so twice its size does not overflow.
LEMMA DoubleFacts ==
  ASSUME HeapInv, NEW r \in owned
  PROVE  /\ Double(r) \in Nat /\ Double(r) = 2 * r.size
         /\ Double(r) + ALIGN_SIZE - 1 < SIZE_MOD
<1>1. blocks \in Seq(Block) /\ Tiles(blocks, POOL) /\ OwnedTaken /\ owned \subseteq Regions
  BY HeapParts
<1>2. HEADER \in Nat \ {0} /\ POOL \in Nat /\ SIZE_MOD \in Nat /\ 2 * POOL < SIZE_MOD
  BY PoolAssumption
<1>3. PICK b \in TakenIn(blocks) : Data(b) = r.ptr /\ b.size >= r.size BY <1>1 DEF OwnedTaken
<1>4. PICK i \in 1 .. Len(blocks) : blocks[i] = b BY <1>3 DEF TakenIn
<1>5. Data(b) + b.size <= POOL BY <1>1, <1>2, <1>4, TilesOrdered
<1>6. b.addr \in Nat /\ b.size \in Nat /\ Data(b) = b.addr + HEADER BY <1>1, <1>4, BlockFacts
<1>7. r.size \in Nat BY <1>1 DEF Regions
<1>8. 2 * r.size <= 2 * (POOL - HEADER) BY <1>2, <1>3, <1>5, <1>6, <1>7
<1>9. 2 * r.size \in Nat /\ 2 * r.size < SIZE_MOD BY <1>2, <1>7, <1>8
<1>10. Double(r) = 2 * r.size BY <1>2, <1>9, Below DEF Double
<1> QED BY <1>8, <1>9, <1>10, PoolFacts

\* Between calls the command holds what its pointers name.
LEMMA PtrsIdle ==
  ASSUME PtrsOwned, pc[Cli] = "idle"
  PROVE  \A i \in 1 .. Len(ptrs) : Holder(Cli, ptrs[i])
BY DEF PtrsOwned

LEMMA MallocCall ==
  ASSUME HeapInv, PtrsOwned, NEW want \in Nat, Malloc(Cli, want), ptrs' = Append(ptrs, Result)
  PROVE  PtrsOwned' /\ Foreign' = Foreign /\ pc'[Cli] = "take"
<1>1. Cli \in Clients /\ NULL \notin Nat BY TesterAssumption, HeapNullAssumption
<1>2. /\ pc[Cli] = "idle" /\ pc' = [pc EXCEPT ![Cli] = "take"]
      /\ UNCHANGED <<blocks, stats, owned>>
  BY DEF Malloc, Find, At, Goto
<1>3. /\ blocks \in Seq(Block) /\ Tiles(blocks, POOL) /\ OwnedTaken
      /\ pc \in [Clients -> {"idle", "take", "mark", "merge"}] /\ loc \in [Clients -> Call]
      /\ DOMAIN blocks = 1 .. Len(blocks) /\ HEADER \in Nat /\ POOL \in Nat
  BY HeapParts
<1>4. PICK i \in 1 .. Len(blocks) :
        /\ blocks[i].free
        /\ loc' = [loc EXCEPT ![Cli] = [addr |-> blocks[i].addr, size |-> blocks[i].size,
                                        need |-> ALIGN(want), want |-> want, old |-> NULL]]
  BY <1>3 DEF Malloc, Find, Fits
<1>5. loc'[Cli].addr = blocks[i].addr /\ loc'[Cli].old = NULL BY <1>1, <1>3, <1>4
<1> DEFINE new == blocks[i].addr + HEADER
<1>6. Result = new /\ new \in Nat BY <1>3, <1>5, BlockFacts DEF Result
<1> HIDE DEF new
<1>7. ptrs \in Seq(Nat) /\ \A k, j \in 1 .. Len(ptrs) : ptrs[k] = ptrs[j] => k = j
  BY DEF PtrsOwned
<1>8. \A k \in 1 .. Len(ptrs) : Holder(Cli, ptrs[k]) /\ ptrs[k] # new
  BY <1>1, <1>2, <1>4, PtrsIdle, HeldIsTaken DEF new
<1>9. /\ ptrs' \in Seq(Nat) /\ Len(ptrs') = Len(ptrs) + 1 /\ ptrs'[Len(ptrs) + 1] = new
      /\ \A k \in 1 .. Len(ptrs) : ptrs'[k] = ptrs[k]
      /\ Len(ptrs) \in Nat
  BY <1>6, <1>7
<1>10. \A k \in 1 .. Len(ptrs') : k \in 1 .. Len(ptrs) \/ k = Len(ptrs) + 1 BY <1>9
<1>11. Len(ptrs) + 1 \in 1 .. Len(ptrs') /\ \A k \in 1 .. Len(ptrs) : k \in 1 .. Len(ptrs') BY <1>9
<1>12. pc'[Cli] = "take" BY <1>1, <1>2, <1>3
<1>13. PtrsOwned'
  <2>1. \A k, j \in 1 .. Len(ptrs') : ptrs'[k] = ptrs'[j] => k = j BY <1>7, <1>8, <1>9, <1>10
  <2>2. \A k \in 1 .. Len(ptrs') :
          \/ pc'[Cli] = "take" /\ ptrs'[k] = loc'[Cli].addr + HEADER
          \/ \E r \in owned' : r.by = Cli /\ r.ptr = ptrs'[k]
    BY <1>2, <1>5, <1>8, <1>9, <1>10, <1>12 DEF Holder, new
  <2>3. \A k \in 1 .. Len(ptrs') : ptrs'[k] # loc'[Cli].old
    <3> SUFFICES ASSUME NEW k \in 1 .. Len(ptrs') PROVE ptrs'[k] # loc'[Cli].old
      OBVIOUS
    <3>1. ptrs'[k] \in Nat BY <1>9
    <3> QED BY <1>1, <1>5, <3>1
  <2>4. \E k \in 1 .. Len(ptrs') : ptrs'[k] = loc'[Cli].addr + HEADER
    BY <1>5, <1>9, <1>11 DEF new
  <2> QED BY <1>9, <2>1, <2>2, <2>3, <2>4 DEF PtrsOwned, Holder
<1>14. ASSUME NEW b \in TakenIn(blocks) PROVE Named(Data(b))' <=> Named(Data(b))
  <2>0. /\ b \in Block /\ ~b.free /\ b.addr \in Nat
        /\ \A k \in 1 .. Len(blocks) : Data(blocks[k]) = Data(b) => blocks[k] = b
    <3>1. blocks \in Seq(Block) /\ POOL \in Nat /\ Tiles(blocks, POOL) BY <1>3
    <3> QED BY <3>1, TakenFacts
  <2>1. b \in Block /\ ~b.free /\ b.addr \in Nat /\ (Data(blocks[i]) = Data(b) => blocks[i] = b)
    BY <2>0, Zenon
  <2>2. Data(b) \in Nat /\ Data(b) # new BY <1>3, <1>4, <2>1 DEF Data, new
  <2>3. loc'[Cli].old # Data(b) BY <1>1, <1>5, <2>2
  <2>4. (\E k \in 1 .. Len(ptrs') : ptrs'[k] = Data(b)) <=> (\E k \in 1 .. Len(ptrs) : ptrs[k] = Data(b))
    BY <1>9, <1>10, <1>11, <2>2
  <2> QED BY <1>2, <2>3, <2>4 DEF Named
<1>15. TakenIn(blocks') = TakenIn(blocks) BY <1>2
<1>16. Foreign' = Foreign BY <1>14, <1>15 DEF Foreign
<1> QED BY <1>12, <1>13, <1>16

\* Some pointers are kept, and the one freed is not among them.
LEMMA FreeCall ==
  ASSUME HeapInv, PtrsOwned, NEW r \in Holds(Cli), Free(Cli, r),
         ptrs' \in Seq(Nat), \A k, j \in 1 .. Len(ptrs') : ptrs'[k] = ptrs'[j] => k = j,
         \A q : (\E k \in 1 .. Len(ptrs) : ptrs[k] = q)
                  <=> q = r.ptr \/ \E k \in 1 .. Len(ptrs') : ptrs'[k] = q,
         \A k \in 1 .. Len(ptrs') : ptrs'[k] # r.ptr
  PROVE  PtrsOwned' /\ Foreign' = Foreign /\ pc'[Cli] = "mark"
<1>1. Cli \in Clients BY TesterAssumption
<1>2. /\ pc[Cli] = "idle" /\ pc' = [pc EXCEPT ![Cli] = "mark"]
      /\ loc' = [loc EXCEPT ![Cli].old = r.ptr] /\ UNCHANGED <<blocks, stats, owned>>
  BY DEF Free, At, Goto
<1>3. /\ pc \in [Clients -> {"idle", "take", "mark", "merge"}] /\ loc \in [Clients -> Call]
  BY HeapParts
<1>4. loc'[Cli].old = r.ptr
  <2>1. loc'[Cli] = [loc[Cli] EXCEPT !.old = r.ptr] BY <1>1, <1>2, <1>3
  <2>2. loc[Cli] \in Call BY <1>1, <1>3
  <2> QED BY <2>1, <2>2 DEF Call
<1>5. pc'[Cli] = "mark" BY <1>1, <1>2, <1>3
<1>6. \A k \in 1 .. Len(ptrs') : \E q \in owned' : q.by = Cli /\ q.ptr = ptrs'[k]
  <2> SUFFICES ASSUME NEW k \in 1 .. Len(ptrs')
               PROVE  \E q \in owned' : q.by = Cli /\ q.ptr = ptrs'[k]
    OBVIOUS
  <2>1. PICK j \in 1 .. Len(ptrs) : ptrs[j] = ptrs'[k] OBVIOUS
  <2>2. Holder(Cli, ptrs[j]) BY <1>2, PtrsIdle
  <2> QED BY <1>2, <2>1, <2>2 DEF Holder
<1>7. PtrsOwned' BY <1>4, <1>5, <1>6 DEF PtrsOwned, Holder
<1>8. ASSUME NEW b \in TakenIn(blocks) PROVE Named(Data(b))' <=> Named(Data(b))
  BY <1>2, <1>4, <1>5 DEF Named
<1>9. TakenIn(blocks') = TakenIn(blocks) BY <1>2
<1>10. Foreign' = Foreign BY <1>8, <1>9 DEF Foreign
<1> QED BY <1>5, <1>7, <1>10

LEMMA ShrinkCall ==
  ASSUME HeapInv, Alone(Cli), PtrsOwned, NEW r \in Holds(Cli), NEW want \in Nat,
         want + ALIGN_SIZE - 1 < SIZE_MOD, ReallocInPlace(Cli, r, want), ptrs' = ptrs,
         \E k \in 1 .. Len(ptrs) : ptrs[k] = r.ptr
  PROVE  PtrsOwned' /\ Foreign' = Foreign /\ pc'[Cli] = "idle"
<1>1. Cli \in Clients BY TesterAssumption
<1>2. pc[Cli] = "idle" /\ pc' = pc /\ loc' = loc /\ owned' = (owned \ {r}) \union {[r EXCEPT !.size = want]}
  BY DEF ReallocInPlace, At, Resized
<1>3. r \in Regions /\ r.by = Cli BY DEF Holds, HeapInv, HeapTyped
<1>4. [r EXCEPT !.size = want].ptr = r.ptr /\ [r EXCEPT !.size = want].by = Cli
  BY <1>3 DEF Regions
<1>5. \A p : Holder(Cli, p) => \E q \in owned' : q.by = Cli /\ q.ptr = p
  <2> SUFFICES ASSUME NEW p, Holder(Cli, p) PROVE \E q \in owned' : q.by = Cli /\ q.ptr = p
    OBVIOUS
  <2>1. PICK q \in owned : q.by = Cli /\ q.ptr = p BY DEF Holder
  <2>2. CASE q = r BY <1>2, <1>4, <2>1, <2>2
  <2>3. CASE q # r BY <1>2, <2>1, <2>3
  <2> QED BY <2>2, <2>3
<1>6. PtrsOwned'
  <2>1. \A k \in 1 .. Len(ptrs) : \E q \in owned' : q.by = Cli /\ q.ptr = ptrs[k]
    BY <1>2, <1>5, PtrsIdle
  <2> QED BY <1>2, <2>1 DEF PtrsOwned, Holder
<1>7. \A b \in Block : Data(b) # r.ptr => (b \in TakenIn(blocks)' <=> b \in TakenIn(blocks))
  BY <1>1, ReallocInPlaceStep
<1>8. \A p : Named(p)' <=> Named(p) BY <1>2 DEF Named
<1>9. \A b : Data(b) = r.ptr => Named(Data(b)) BY DEF Named
<1>10. \A b : b \in TakenIn(blocks') \/ b \in TakenIn(blocks) => b \in Block BY DEF TakenIn
<1>11. Foreign' = Foreign BY <1>7, <1>8, <1>9, <1>10 DEF Foreign
<1> QED BY <1>2, <1>6, <1>11

LEMMA MoveCall ==
  ASSUME HeapInv, PtrsOwned, NEW r \in Holds(Cli), NEW want \in Nat, ReallocMove(Cli, r, want),
         ptrs' = <<Result>>, Len(ptrs) = 1, ptrs[1] = r.ptr
  PROVE  PtrsOwned' /\ Foreign' = Foreign /\ pc'[Cli] = "take"
<1>1. Cli \in Clients BY TesterAssumption
<1>2. /\ pc[Cli] = "idle" /\ pc' = [pc EXCEPT ![Cli] = "take"]
      /\ UNCHANGED <<blocks, stats, owned>>
  BY DEF ReallocMove, Find, At, Goto
<1>3. /\ blocks \in Seq(Block) /\ Tiles(blocks, POOL) /\ OwnedTaken /\ owned \subseteq Regions
      /\ pc \in [Clients -> {"idle", "take", "mark", "merge"}] /\ loc \in [Clients -> Call]
      /\ DOMAIN blocks = 1 .. Len(blocks) /\ HEADER \in Nat /\ POOL \in Nat
  BY HeapParts
<1>4. PICK i \in 1 .. Len(blocks) :
        /\ blocks[i].free
        /\ loc' = [loc EXCEPT ![Cli] = [addr |-> blocks[i].addr, size |-> blocks[i].size,
                                        need |-> ALIGN(want), want |-> want, old |-> r.ptr]]
  BY <1>3 DEF ReallocMove, Find, Fits
<1>5. loc'[Cli].addr = blocks[i].addr /\ loc'[Cli].old = r.ptr BY <1>1, <1>3, <1>4
<1> DEFINE new == blocks[i].addr + HEADER
<1>6. Result = new /\ new \in Nat BY <1>3, <1>5, BlockFacts DEF Result
<1>7. r \in owned /\ r.by = Cli /\ Holder(Cli, r.ptr) BY DEF Holds, Holder
<1>8. new # r.ptr BY <1>1, <1>4, <1>7, HeldIsTaken
<1> HIDE DEF new
<1>9. ptrs' \in Seq(Nat) /\ Len(ptrs') = 1 /\ ptrs'[1] = new BY <1>6
<1>10. pc'[Cli] = "take" BY <1>1, <1>2, <1>3
<1>11. PtrsOwned'
  <2>1. \A k \in 1 .. Len(ptrs') : k = 1 BY <1>9
  <2>2. 1 \in 1 .. Len(ptrs') BY <1>9
  <2>3. new = loc'[Cli].addr + HEADER BY <1>5 DEF new
  <2> QED BY <1>5, <1>8, <1>9, <1>10, <2>1, <2>2, <2>3 DEF PtrsOwned
<1>12. ASSUME NEW b \in TakenIn(blocks) PROVE Named(Data(b))' <=> Named(Data(b))
  <2>1. ~b.free /\ (Data(blocks[i]) = Data(b) => blocks[i] = b) BY <1>3, TakenFacts
  <2>2. Data(b) # new BY <1>4, <2>1 DEF Data, new
  <2>3. Named(Data(b))' <=> Data(b) = r.ptr
    <3>1. \A k \in 1 .. Len(ptrs') : k = 1 BY <1>9
    <3> QED BY <1>5, <1>9, <1>10, <2>2, <3>1 DEF Named
  <2>4. Named(Data(b)) <=> Data(b) = r.ptr
    <3>1. 1 \in 1 .. Len(ptrs) /\ \A k \in 1 .. Len(ptrs) : k = 1 OBVIOUS
    <3> QED BY <1>2, <3>1 DEF Named
  <2> QED BY <2>3, <2>4
<1>13. TakenIn(blocks') = TakenIn(blocks) BY <1>2
<1>14. Foreign' = Foreign BY <1>12, <1>13 DEF Foreign
<1> QED BY <1>10, <1>11, <1>14

LEMMA ContinueCall ==
  ASSUME HeapInv, Alone(Cli), PtrsOwned, Continues(Cli), ptrs' = ptrs
  PROVE  /\ PtrsOwned' /\ Foreign' = Foreign
         /\ pc[Cli] # "idle" /\ pc'[Cli] # "take"
         /\ pc[Cli] = "mark" => pc'[Cli] = "merge"
         /\ pc[Cli] = "merge" => pc'[Cli] = "idle" /\ Coalesced(blocks)'
<1>1. Cli \in Clients /\ NULL \notin Nat BY TesterAssumption, HeapNullAssumption
<1>2. /\ blocks \in Seq(Block) /\ Tiles(blocks, POOL) /\ OwnedTaken /\ owned \subseteq Regions
      /\ pc \in [Clients -> {"idle", "take", "mark", "merge"}] /\ loc \in [Clients -> Call]
      /\ HEADER \in Nat /\ POOL \in Nat
  BY HeapParts
<1>3. CASE Take(Cli)
  <2> DEFINE l == loc[Cli]
  <2>1. /\ pc[Cli] = "take" /\ owned' = owned \union {Region(Cli, l)}
        /\ TakeBlock(l) \/ (Gone(l) /\ UNCHANGED blocks)
        /\ TakeStats(l)
        /\ pc' = [pc EXCEPT ![Cli] = IF l.old = NULL THEN "idle" ELSE "mark"]
        /\ loc' = [loc EXCEPT ![Cli] = IF l.old = NULL THEN NoCall ELSE l]
    BY <1>3 DEF Take, At, Goto
  <2>2. /\ pc'[Cli] = IF l.old = NULL THEN "idle" ELSE "mark"
        /\ l.old # NULL => loc'[Cli].old = l.old
    BY <1>1, <1>2, <2>1
  <2>3. Region(Cli, l).by = Cli /\ Region(Cli, l).ptr = l.addr + HEADER BY DEF Region
  <2>4. \A k \in 1 .. Len(ptrs) : \E r \in owned' : r.by = Cli /\ r.ptr = ptrs[k]
    BY <2>1, <2>3 DEF PtrsOwned, Holder
  <2>5. PtrsOwned'
    <3>1. \A k \in 1 .. Len(ptrs) : ptrs[k] # l.old BY <2>1 DEF PtrsOwned
    <3> QED BY <2>2, <2>4, <3>1 DEF PtrsOwned, Holder
  <2>6. PICK b \in Block :
          /\ b.addr = l.addr /\ TakenIn(blocks)' = TakenIn(blocks) \union {b}
    BY <1>1, <2>1, TakenBlock
  <2>7. \A p \in Nat : Named(p)' <=> Named(p) BY <1>1, <2>1, <2>2 DEF Named
  <2>8. Named(Data(b)) BY <2>1, <2>6 DEF Named, PtrsOwned, Data
  <2>9. \A q \in Block : Data(q) \in Nat BY <1>2 DEF Block, Data
  <2>10. Foreign' = Foreign
    <3>1. \A q : q \in TakenIn(blocks') => Data(q) \in Nat BY <2>9 DEF TakenIn
    <3> QED BY <2>6, <2>7, <2>8, <3>1 DEF Foreign
  <2> QED BY <2>1, <2>2, <2>5, <2>10
<1>4. CASE Mark(Cli)
  <2>1. /\ pc[Cli] = "mark" /\ pc' = [pc EXCEPT ![Cli] = "merge"]
        /\ owned' = {r \in owned : ~(r.by = Cli /\ r.ptr = loc[Cli].old)}
    BY <1>4 DEF Mark, At, Goto
  <2>2. pc'[Cli] = "merge" BY <1>1, <1>2, <2>1
  <2>3. \A k \in 1 .. Len(ptrs) : \E r \in owned' : r.by = Cli /\ r.ptr = ptrs[k]
    BY <2>1 DEF PtrsOwned, Holder
  <2>4. PtrsOwned' BY <2>2, <2>3 DEF PtrsOwned, Holder
  <2>5. PICK b \in TakenIn(blocks) :
          Data(b) = loc[Cli].old /\ TakenIn(blocks)' = TakenIn(blocks) \ {b}
    BY <1>1, <1>4, MarkStep
  <2>6. ASSUME NEW q \in TakenIn(blocks), Data(q) = Data(b) PROVE q = b
    <3>1. PICK k \in 1 .. Len(blocks) : blocks[k] = q BY <1>2, TakenFacts
    <3> QED BY <1>2, <2>6, <3>1, TakenFacts
  <2>7. ASSUME NEW q \in TakenIn(blocks), q # b PROVE Named(Data(q))' <=> Named(Data(q))
    BY <2>1, <2>2, <2>5, <2>6, <2>7 DEF Named
  <2>8. Named(Data(b)) BY <2>1, <2>5 DEF Named
  <2>9. Foreign' = Foreign BY <2>5, <2>7, <2>8 DEF Foreign
  <2> QED BY <2>1, <2>2, <2>4, <2>9
<1>5. CASE Merge(Cli)
  <2>1. pc[Cli] = "merge" /\ pc' = [pc EXCEPT ![Cli] = "idle"] /\ owned' = owned
    BY <1>5 DEF Merge, At, Goto
  <2>2. pc'[Cli] = "idle" BY <1>1, <1>2, <2>1
  <2>3. PtrsOwned' BY <2>1, <2>2 DEF PtrsOwned, Holder
  <2>4. TakenIn(blocks)' = TakenIn(blocks) /\ Coalesced(blocks)' BY <1>1, <1>5, MergeStep
  <2>5. \A p : Named(p)' <=> Named(p) BY <2>1, <2>2 DEF Named
  <2>6. Foreign' = Foreign BY <2>4, <2>5 DEF Foreign
  <2> QED BY <2>1, <2>2, <2>3, <2>4, <2>6
<1> QED BY <1>3, <1>4, <1>5 DEF Continues

\* Another client's step leaves the command's regions alone.
LEMMA OtherCall ==
  ASSUME HeapInv, PtrsOwned, NEW c \in Clients \ {Cli}, Alone(c), CallsOf(c) \/ Continues(c),
         ptrs' = ptrs
  PROVE  PtrsOwned' /\ pc[Cli] = "idle" /\ pc'[Cli] = "idle"
<1>1. Cli \in Clients BY TesterAssumption
<1>2. /\ pc \in [Clients -> {"idle", "take", "mark", "merge"}] /\ loc \in [Clients -> Call]
      /\ owned \subseteq Regions
  BY HeapParts
<1>3. pc' = pc \/ \E x : pc' = [pc EXCEPT ![c] = x]
  BY DEF CallsOf, Continues, Malloc, Free, ReallocInPlace, ReallocMove, Find, Take, Mark, Merge, At, Goto
<1>4. pc[Cli] = "idle" BY <1>1 DEF Alone
<1>5. pc'[Cli] = "idle" BY <1>1, <1>2, <1>3, <1>4
<1>6. \A r \in owned : r.by = Cli => r \in owned'
  BY DEF CallsOf, Continues, Malloc, Free, ReallocInPlace, ReallocMove, Find, Take, Mark, Merge,
         Resized, Holds
<1>7. \A k \in 1 .. Len(ptrs) : \E r \in owned' : r.by = Cli /\ r.ptr = ptrs[k]
  BY <1>4, <1>6, PtrsIdle DEF Holder
<1>8. PtrsOwned' BY <1>5, <1>7 DEF PtrsOwned, Holder
<1> QED BY <1>4, <1>5, <1>8

-----------------------------------------------------------------------------
(* The command's steps                                                     *)

LEMMA NoPointers ==
  /\ <<>> \in Seq(Nat) /\ Len(<<>>) = 0 /\ 1 .. 0 = {}
  /\ \A p \in Seq(Nat) : Len(p) = 0 => p = <<>>
<1>1. <<>> \in Seq(Nat) /\ Len(<<>>) = 0 OBVIOUS
<1>2. \A p \in Seq(Nat) : Len(p) = 0 => p = <<>> BY EmptySeq
<1>3. 1 .. 0 = {} OBVIOUS
<1> QED BY <1>1, <1>2, <1>3

\* With no pointer left and no call under way, all that is taken is others'.
LEMMA NothingNamed ==
  ASSUME ptrs = <<>>, pc[Cli] = "idle"
  PROVE  Foreign = TakenIn(blocks)
<1>1. 1 .. Len(ptrs) = {} BY NoPointers, Zenon
<1>2. \A q : ~Named(q) BY <1>1 DEF Named
<1> QED BY <1>2 DEF Foreign

TestTyped ==
  /\ ptrs \in Seq(Nat) /\ Len(ptrs) \in Nat /\ DOMAIN ptrs = 1 .. Len(ptrs)
  /\ Cli \in Clients /\ NULL \notin Nat

LEMMA TestParts ==
  ASSUME TestInv
  PROVE  TestTyped /\ HeapInv /\ PtrsOwned /\ Places /\ Remembered
BY TesterAssumption, HeapNullAssumption DEF TestInv, TestTyped, PtrsOwned

\* A step of a run that goes on.
LEMMA Going ==
  ASSUME TestInv, at # "prompt", at' # "prompt",
         UNCHANGED <<baseline_blocks, verdict, before>>, Foreign' = Foreign,
         at' \in {"frag", "frag_free"} => at \in {"frag", "frag_free"},
         at' = "frag_free" => Len(ptrs') = FRAG_BLOCKS \/ Coalesced(blocks)'
                                \/ pc'[Cli] \in {"mark", "merge"}
  PROVE  Remembered'
<1>1. SUFFICES ASSUME before # NULL
               PROVE  /\ before \in Seq(Block) /\ Tiles(before, POOL) /\ Coalesced(before)
                      /\ Foreign = TakenIn(before)
                      /\ at' \in {"frag", "frag_free"} => baseline_blocks = Weight(before, TakenOne)
                      /\ verdict # "not coalesced"
  BY DEF Remembered
<1>2. verdict = "none" BY TestParts DEF Places
<1> QED BY <1>1, <1>2, TestParts DEF Remembered

\* The last step of a run.
LEMMA Ending ==
  ASSUME TestInv, at # "prompt", pc[Cli] = "idle", NEW v, End(v),
         v = "pass" => ptrs = <<>>,
         v = "not coalesced" => before = NULL \/ Cardinality({i \in DOMAIN before : before[i].free}) # 1
  PROVE  UNCHANGED vars /\ PtrsOwned' /\ Places' /\ Remembered'
<1>1. /\ at' = "prompt" /\ ptrs' = <<>> /\ verdict' = v
      /\ UNCHANGED <<blocks, stats, owned, pc, loc>> /\ before' = before
  BY DEF End, vars
<1>2. ptrs' \in Seq(Nat) /\ Len(ptrs') = 0 BY <1>1, NoPointers, Zenon
<1>3. \A k \in 1 .. Len(ptrs') : FALSE
  <2>1. 1 .. Len(ptrs') = {} BY <1>2, NoPointers, Zenon
  <2> QED BY <2>1
<1>4. PtrsOwned' BY <1>1, <1>2, <1>3 DEF PtrsOwned
<1>5. Places' BY <1>1 DEF Places
<1>6. v = "pass" => Foreign' = Foreign
  BY <1>1 DEF Foreign, Named
<1>7. Remembered'
  <2>1. SUFFICES ASSUME before # NULL
                 PROVE  /\ before \in Seq(Block) /\ Tiles(before, POOL) /\ Coalesced(before)
                        /\ v = "pass" => Foreign = TakenIn(before)
                        /\ v = "not coalesced" =>
                             Cardinality({i \in DOMAIN before : before[i].free}) # 1
    BY <1>1, <1>6 DEF Remembered
  <2> QED BY <2>1, TestParts DEF Remembered
<1>8. UNCHANGED vars BY <1>1 DEF vars
<1> QED BY <1>4, <1>5, <1>7, <1>8

LEMMA AllocateStep ==
  ASSUME TestInv, Alone(Cli), NEW want \in Nat, NEW label, Allocate(want), Proceed(label),
         label \in {"basic_grow", "frag", "stress"},
         label = "basic_grow" => at = "basic", label = "frag" => at = "frag",
         label = "stress" => at = "stress"
  PROVE  HeapStep /\ PtrsOwned' /\ Places' /\ Remembered'
<1>0. TestTyped /\ HeapInv /\ PtrsOwned /\ Places BY TestParts
<1>1. Malloc(Cli, want) /\ ptrs' = Append(ptrs, Result) BY DEF Allocate
<1>2. at' = label /\ UNCHANGED <<baseline_blocks, verdict, before>> BY DEF Proceed
<1>3. HeapStep BY <1>0, <1>1 DEF HeapStep, TestTyped
<1>4. PtrsOwned' /\ Foreign' = Foreign /\ pc'[Cli] = "take" BY <1>0, <1>1, MallocCall
<1>5. at # "prompt" OBVIOUS
<1>6. Remembered'
  <2>1. at' # "prompt" /\ at' # "frag_free" BY <1>2
  <2>2. at' \in {"frag", "frag_free"} => at \in {"frag", "frag_free"} BY <1>2
  <2> QED BY <1>2, <1>4, <1>5, <2>1, <2>2, Going
<1>7. label = "basic_grow" => Len(ptrs') = 1
  <2>1. label = "basic_grow" => ptrs = <<>> BY <1>0 DEF Places
  <2> QED BY <1>1, <2>1
<1>8. Places' BY <1>0, <1>2, <1>5, <1>7 DEF Places
<1> QED BY <1>3, <1>4, <1>6, <1>8

\* The first pointer is freed, and the others kept.
LEMMA FreeFirstStep ==
  ASSUME TestInv, Alone(Cli), pc[Cli] = "idle", ptrs # <<>>, FreeFirst, NEW label, Proceed(label),
         \/ at = "basic_free" /\ label = "basic_end"
         \/ at = "frag_free" /\ label = "frag_free"
         \/ at = "cleanup" /\ label = "cleanup"
  PROVE  HeapStep /\ PtrsOwned' /\ Places' /\ Remembered'
<1>0. TestTyped /\ HeapInv /\ PtrsOwned /\ Places BY TestParts
<1> DEFINE n == Len(ptrs)  r == Held(Head(ptrs))
<1>1. n \in Nat /\ n >= 1 /\ ptrs \in Seq(Nat) /\ Head(ptrs) = ptrs[1] BY <1>0 DEF TestTyped
<1>2. at' = label /\ UNCHANGED <<baseline_blocks, verdict, before>> BY DEF Proceed
<1>3. Free(Cli, r) /\ ptrs' = Tail(ptrs) BY DEF FreeFirst
<1>4. Holder(Cli, ptrs[1])
  <2>1. 1 \in 1 .. n BY <1>1
  <2> QED BY <1>0, <2>1, PtrsIdle
<1>5. r \in Holds(Cli) /\ r.ptr = ptrs[1] BY <1>1, <1>4, HeldIs
<1> HIDE DEF r
<1>6. /\ ptrs' \in Seq(Nat) /\ Len(ptrs') = n - 1
      /\ \A k \in 1 .. n - 1 : ptrs'[k] = ptrs[k + 1]
  BY <1>1, <1>3
<1>7. \A k, j \in 1 .. n : ptrs[k] = ptrs[j] => k = j BY <1>0 DEF PtrsOwned
<1>8. /\ \A k \in 1 .. n - 1 : k + 1 \in 1 .. n /\ k + 1 # 1
      /\ \A k \in 1 .. n : k = 1 \/ (k - 1 \in 1 .. n - 1 /\ k - 1 + 1 = k)
      /\ 1 \in 1 .. n
  BY <1>1
<1>9. \A k, j \in 1 .. Len(ptrs') : ptrs'[k] = ptrs'[j] => k = j
  <2> SUFFICES ASSUME NEW k \in 1 .. n - 1, NEW j \in 1 .. n - 1, ptrs'[k] = ptrs'[j] PROVE k = j
    BY <1>6
  <2>1. ptrs[k + 1] = ptrs[j + 1] BY <1>6
  <2>2. k + 1 = j + 1 BY <1>7, <1>8, <2>1
  <2> QED BY <2>2
<1>10. \A k \in 1 .. Len(ptrs') : ptrs'[k] # r.ptr BY <1>5, <1>6, <1>7, <1>8
<1>11. ASSUME NEW q
       PROVE  (\E k \in 1 .. Len(ptrs) : ptrs[k] = q)
                <=> q = r.ptr \/ \E k \in 1 .. Len(ptrs') : ptrs'[k] = q
  <2>1. ASSUME NEW k \in 1 .. n, ptrs[k] = q, k # 1 PROVE \E j \in 1 .. Len(ptrs') : ptrs'[j] = q
    <3>1. k - 1 \in 1 .. n - 1 /\ ptrs'[k - 1] = ptrs[k - 1 + 1] /\ k - 1 + 1 = k
      BY <1>6, <1>8, <2>1
    <3> QED BY <1>6, <2>1, <3>1
  <2> QED BY <1>5, <1>6, <1>8, <2>1
<1>12. PtrsOwned' /\ Foreign' = Foreign /\ pc'[Cli] = "mark"
  BY <1>0, <1>3, <1>5, <1>6, <1>9, <1>10, <1>11, FreeCall
<1>13. HeapStep BY <1>0, <1>3, <1>5 DEF HeapStep, TestTyped
<1>14. Remembered'
  <2>1. at # "prompt" /\ at' # "prompt" BY <1>2
  <2>2. at' \in {"frag", "frag_free"} => at \in {"frag", "frag_free"} BY <1>2
  <2>3. pc'[Cli] \in {"mark", "merge"} BY <1>12
  <2> QED BY <1>2, <1>12, <2>1, <2>2, <2>3, Going
<1>15. at = "basic_free" => ptrs' = <<>>
  <2>1. at = "basic_free" => Len(ptrs') = 0 BY <1>0, <1>6 DEF Places
  <2> QED BY <1>6, <2>1, NoPointers
<1>16. Places' BY <1>0, <1>2, <1>12, <1>15 DEF Places
<1> QED BY <1>12, <1>13, <1>14, <1>16

LEMMA StartStep ==
  ASSUME TestInv, NEW mode \in {"basic", "frag", "stress"}, Start(mode)
  PROVE  UNCHANGED vars /\ PtrsOwned' /\ Places' /\ Remembered'
<1>0. TestTyped /\ HeapInv /\ PtrsOwned /\ Places BY TestParts
<1>1. /\ at = "prompt" /\ pc[Cli] = "idle" /\ at' = mode /\ verdict' = "none" /\ before' = Merged
      /\ baseline_blocks' = (IF mode = "frag" THEN allocated_blocks ELSE 0)
      /\ UNCHANGED <<blocks, stats, owned, pc, loc, ptrs>>
  BY DEF Start, Runs, At, vars
<1>2. ptrs = <<>> BY <1>0, <1>1 DEF Places
<1>3. PtrsOwned' BY <1>0, <1>1 DEF PtrsOwned, Holder
<1>4. Places' BY <1>1, <1>2 DEF Places
<1>5. blocks \in Seq(Block) /\ Tiles(blocks, POOL) /\ Counted /\ POOL \in Nat BY <1>0, HeapParts
<1>6. MergedFrom(Merged, blocks) BY <1>5, MergedFacts
<1>7. /\ Merged \in Seq(Block) /\ Tiles(Merged, POOL) /\ Coalesced(Merged)
      /\ TakenIn(Merged) = TakenIn(blocks) /\ Weight(Merged, TakenOne) = Weight(blocks, TakenOne)
  BY <1>5, <1>6 DEF MergedFrom
<1>8. Foreign' = TakenIn(blocks)
  <2>1. \A k \in 1 .. Len(ptrs') : FALSE BY <1>1, <1>2
  <2>2. pc'[Cli] = "idle" /\ TakenIn(blocks') = TakenIn(blocks) BY <1>1
  <2> QED BY <2>1, <2>2 DEF Foreign, Named
<1>9. mode = "frag" => baseline_blocks' = Weight(Merged, TakenOne) BY <1>1, <1>5, <1>7 DEF Counted
<1> HIDE DEF Merged
<1>10. Remembered' BY <1>1, <1>7, <1>8, <1>9 DEF Remembered
<1>11. UNCHANGED vars BY <1>1 DEF vars
<1> QED BY <1>3, <1>4, <1>10, <1>11

LEMMA BasicStep ==
  ASSUME TestInv, Alone(Cli),
         (\E size \in Sizes : BasicMalloc(size)) \/ BasicRealloc \/ BasicFree \/ BasicEnd
  PROVE  (HeapStep \/ UNCHANGED vars) /\ PtrsOwned' /\ Places' /\ Remembered'
<1>0. TestTyped /\ HeapInv /\ PtrsOwned /\ Places BY TestParts
<1>1. ASSUME NEW size \in Sizes, BasicMalloc(size)
      PROVE  (HeapStep \/ UNCHANGED vars) /\ PtrsOwned' /\ Places' /\ Remembered'
  <2>1. at = "basic" /\ pc[Cli] = "idle" BY <1>1 DEF BasicMalloc, Runs, At
  <2>2. size \in Nat BY SizesAssumption, PoolAssumption
  <2>3. CASE Allocate(size) /\ Proceed("basic_grow") BY <2>1, <2>2, <2>3, AllocateStep
  <2>4. CASE Null(size)
    <3>1. End("null") BY <2>4 DEF Null
    <3> QED BY <2>1, <3>1, Ending
  <2> QED BY <1>1, <2>3, <2>4 DEF BasicMalloc
<1>2. ASSUME BasicRealloc
      PROVE  (HeapStep \/ UNCHANGED vars) /\ PtrsOwned' /\ Places' /\ Remembered'
  <2> DEFINE r == Held(ptrs[1])
  <2>1. at = "basic_grow" /\ pc[Cli] = "idle" BY <1>2 DEF BasicRealloc, Runs, At
  <2>2. Len(ptrs) = 1 /\ 1 \in 1 .. Len(ptrs) BY <1>0, <2>1 DEF Places
  <2>3. r \in Holds(Cli) /\ r.ptr = ptrs[1] BY <1>0, <2>1, <2>2, PtrsIdle, HeldIs
  <2>4. r \in owned BY <2>3 DEF Holds
  <2>5. Double(r) \in Nat /\ Double(r) + ALIGN_SIZE - 1 < SIZE_MOD BY <1>0, <2>4, DoubleFacts
  <2> HIDE DEF r
  <2>6. CASE ReallocInPlace(Cli, r, Double(r)) /\ UNCHANGED ptrs /\ Proceed("basic_free")
    <3>1. HeapStep BY <1>0, <2>3, <2>5, <2>6 DEF HeapStep, TestTyped
    <3>2. PtrsOwned' /\ Foreign' = Foreign /\ pc'[Cli] = "idle"
      BY <1>0, <2>2, <2>3, <2>5, <2>6, ShrinkCall
    <3>3. at' = "basic_free" /\ UNCHANGED <<baseline_blocks, verdict, before>> BY <2>6 DEF Proceed
    <3>4. Remembered' BY <2>1, <3>2, <3>3, Going
    <3>5. Places' BY <1>0, <2>1, <2>2, <2>6, <3>2, <3>3 DEF Places
    <3> QED BY <3>1, <3>2, <3>4, <3>5
  <2>7. CASE ReallocMove(Cli, r, Double(r)) /\ ptrs' = Moved(ptrs[1]) /\ Proceed("basic_free")
    <3>1. HeapStep BY <1>0, <2>3, <2>5, <2>7 DEF HeapStep, TestTyped
    <3>2. ptrs' = <<Result>> BY <2>7 DEF Moved
    <3>3. PtrsOwned' /\ Foreign' = Foreign /\ pc'[Cli] = "take"
      BY <1>0, <2>2, <2>3, <2>5, <2>7, <3>2, MoveCall
    <3>4. at' = "basic_free" /\ UNCHANGED <<baseline_blocks, verdict, before>> BY <2>7 DEF Proceed
    <3>5. Remembered' BY <2>1, <3>3, <3>4, Going
    <3>6. Len(ptrs') = 1 BY <3>2
    <3>7. Places' BY <1>0, <2>1, <3>3, <3>4, <3>6 DEF Places
    <3> QED BY <3>1, <3>3, <3>5, <3>7
  <2>8. CASE Null(Double(r))
    <3>1. End("null") BY <2>8 DEF Null
    <3> QED BY <2>1, <3>1, Ending
  <2> QED BY <1>2, <2>6, <2>7, <2>8 DEF BasicRealloc, r
<1>3. ASSUME BasicFree
      PROVE  (HeapStep \/ UNCHANGED vars) /\ PtrsOwned' /\ Places' /\ Remembered'
  <2>1. at = "basic_free" /\ pc[Cli] = "idle" /\ FreeFirst /\ Proceed("basic_end")
    BY <1>3 DEF BasicFree, Runs, At
  <2>2. ptrs # <<>>
    <3>1. Len(ptrs) = 1 BY <1>0, <2>1 DEF Places
    <3> QED BY <3>1
  <2> QED BY <2>1, <2>2, FreeFirstStep
<1>4. ASSUME BasicEnd
      PROVE  (HeapStep \/ UNCHANGED vars) /\ PtrsOwned' /\ Places' /\ Remembered'
  <2>1. at = "basic_end" /\ pc[Cli] = "idle" /\ \E v \in {"pass", "corrupt"} : End(v)
    BY <1>4 DEF BasicEnd, Runs, At, Passed
  <2>2. ptrs = <<>> BY <1>0, <2>1 DEF Places
  <2> QED BY <2>1, <2>2, Ending
<1> QED BY <1>1, <1>2, <1>3, <1>4

\* The row is freed in another order than it was allocated in, and whole.
LEMMA FragOrderFacts ==
  ASSUME NEW p \in Seq(Nat), Len(p) = FRAG_BLOCKS
  PROVE  /\ FragOrder(p) \in Seq(Nat) /\ Len(FragOrder(p)) = FRAG_BLOCKS
         /\ (\A k, j \in 1 .. Len(p) : p[k] = p[j] => k = j) =>
              \A k, j \in 1 .. FRAG_BLOCKS : FragOrder(p)[k] = FragOrder(p)[j] => k = j
         /\ \A q : (\E k \in 1 .. Len(p) : p[k] = q) <=> \E k \in 1 .. FRAG_BLOCKS : FragOrder(p)[k] = q
<1> DEFINE F == FRAG_BLOCKS  h == FRAG_BLOCKS \div 2
           place(k) == IF 2 * k <= F THEN 2 * k ELSE 2 * (k - h) - 1
           f == FragOrder(p)
<1>1. F \in Nat \ {0} /\ h \in Nat /\ 2 * h <= F /\ F <= 2 * h + 1 BY TestAssumption
<1>2. f = [k \in 1 .. F |-> IF 2 * k <= F THEN p[2 * k] ELSE p[2 * (k - h) - 1]] BY DEF FragOrder
<1> HIDE DEF F, h, f
<1>3. \A k \in 1 .. F : place(k) \in 1 .. F BY <1>1
<1>4. \A k \in 1 .. F : f[k] = p[place(k)] BY <1>2
<1>5. \A k, j \in 1 .. F : place(k) = place(j) => k = j BY <1>1
<1>6. ASSUME NEW j \in 1 .. F PROVE \E k \in 1 .. F : place(k) = j
  <2>1. PICK m \in Nat : j = 2 * m \/ j = 2 * m + 1
    <3>1. j \div 2 \in Nat /\ (j = 2 * (j \div 2) \/ j = 2 * (j \div 2) + 1) BY <1>1
    <3> QED BY <3>1
  <2>2. CASE j = 2 * m
    <3>1. m \in 1 .. F /\ 2 * m <= F BY <1>1, <2>2
    <3> QED BY <2>2, <3>1
  <2>3. CASE j = 2 * m + 1
    <3>1. m + 1 + h \in 1 .. F /\ 2 * (m + 1 + h) > F /\ 2 * (m + 1 + h - h) - 1 = j
      BY <1>1, <2>3
    <3>2. place(m + 1 + h) = j BY <1>1, <3>1
    <3> QED BY <3>1, <3>2
  <2> QED BY <2>1, <2>2, <2>3
<1>7. Len(p) = F BY DEF F
<1> HIDE DEF place
<1>8. \A k \in 1 .. F : p[place(k)] \in Nat BY <1>3, <1>7
<1>9. f \in [1 .. F -> Nat]
  <2>1. DOMAIN f = 1 .. F /\ f = [k \in 1 .. F |-> f[k]] BY <1>2
  <2> QED BY <1>4, <1>8, <2>1
<1>10. f \in Seq(Nat) /\ Len(f) = F BY <1>1, <1>9
<1>11. (\A k, j \in 1 .. Len(p) : p[k] = p[j] => k = j) => \A k, j \in 1 .. F : f[k] = f[j] => k = j
  BY <1>3, <1>4, <1>5, <1>7
<1>12. ASSUME NEW q
       PROVE  (\E k \in 1 .. Len(p) : p[k] = q) <=> \E k \in 1 .. F : f[k] = q
  <2>1. ASSUME NEW j \in 1 .. F, p[j] = q PROVE \E k \in 1 .. F : f[k] = q
    <3>1. PICK k \in 1 .. F : place(k) = j BY <1>6
    <3> QED BY <1>4, <2>1, <3>1
  <2>2. ASSUME NEW k \in 1 .. F, f[k] = q PROVE \E j \in 1 .. F : p[j] = q
    BY <1>3, <1>4, <2>2
  <2> QED BY <1>7, <2>1, <2>2
<1> QED BY <1>10, <1>11, <1>12 DEF F, f

LEMMA FragStep ==
  ASSUME TestInv, Alone(Cli), FragMalloc \/ FragHoles \/ FragFree \/ FragEnd
  PROVE  (HeapStep \/ UNCHANGED vars) /\ PtrsOwned' /\ Places' /\ Remembered'
<1>0. TestTyped /\ HeapInv /\ PtrsOwned /\ Places /\ Remembered BY TestParts
<1>1. ASSUME FragMalloc
      PROVE  (HeapStep \/ UNCHANGED vars) /\ PtrsOwned' /\ Places' /\ Remembered'
  <2>1. at = "frag" /\ pc[Cli] = "idle" BY <1>1 DEF FragMalloc, Runs, At
  <2>2. FRAG_SIZE \in Nat BY TestAssumption
  <2>3. CASE Allocate(FRAG_SIZE) /\ Proceed("frag") BY <2>1, <2>2, <2>3, AllocateStep
  <2>4. CASE Null(FRAG_SIZE)
    <3>1. End("null") BY <2>4 DEF Null
    <3> QED BY <2>1, <3>1, Ending
  <2> QED BY <1>1, <2>3, <2>4 DEF FragMalloc
<1>2. ASSUME FragHoles
      PROVE  (HeapStep \/ UNCHANGED vars) /\ PtrsOwned' /\ Places' /\ Remembered'
  <2>1. /\ at = "frag" /\ pc[Cli] = "idle" /\ Len(ptrs) = FRAG_BLOCKS
        /\ ptrs' = FragOrder(ptrs) /\ at' = "frag_free"
        /\ UNCHANGED <<blocks, stats, owned, pc, loc>>
        /\ UNCHANGED <<baseline_blocks, verdict, before>>
    BY <1>2 DEF FragHoles, Runs, At, Proceed, vars
  <2>2. ptrs \in Seq(Nat) /\ \A k, j \in 1 .. Len(ptrs) : ptrs[k] = ptrs[j] => k = j
    BY <1>0 DEF PtrsOwned
  <2>3. /\ ptrs' \in Seq(Nat) /\ Len(ptrs') = FRAG_BLOCKS
        /\ \A k, j \in 1 .. Len(ptrs') : ptrs'[k] = ptrs'[j] => k = j
        /\ \A q : (\E k \in 1 .. Len(ptrs) : ptrs[k] = q) <=> \E k \in 1 .. Len(ptrs') : ptrs'[k] = q
    <3>1. \A k, j \in 1 .. FRAG_BLOCKS : FragOrder(ptrs)[k] = FragOrder(ptrs)[j] => k = j
      BY <2>1, <2>2, FragOrderFacts
    <3>2. /\ FragOrder(ptrs) \in Seq(Nat) /\ Len(FragOrder(ptrs)) = FRAG_BLOCKS
          /\ \A q : (\E k \in 1 .. Len(ptrs) : ptrs[k] = q)
                     <=> \E k \in 1 .. FRAG_BLOCKS : FragOrder(ptrs)[k] = q
      BY <2>1, <2>2, FragOrderFacts
    <3> QED BY <2>1, <3>1, <3>2
  <2>4. \A k \in 1 .. Len(ptrs') : \E r \in owned' : r.by = Cli /\ r.ptr = ptrs'[k]
    <3> SUFFICES ASSUME NEW k \in 1 .. Len(ptrs')
                 PROVE  \E r \in owned' : r.by = Cli /\ r.ptr = ptrs'[k]
      OBVIOUS
    <3>1. PICK j \in 1 .. Len(ptrs) : ptrs[j] = ptrs'[k] BY <2>3
    <3>2. Holder(Cli, ptrs[j]) BY <1>0, <2>1, PtrsIdle
    <3> QED BY <2>1, <3>1, <3>2 DEF Holder
  <2>5. PtrsOwned' BY <2>1, <2>3, <2>4 DEF PtrsOwned, Holder
  <2>6. Foreign' = Foreign
    <3>1. \A q : Named(q)' <=> Named(q) BY <2>1, <2>3 DEF Named
    <3>2. TakenIn(blocks') = TakenIn(blocks) BY <2>1
    <3> QED BY <3>1, <3>2 DEF Foreign
  <2>7. Remembered'
    <3>1. at # "prompt" /\ at' # "prompt" BY <2>1
    <3> QED BY <2>1, <2>3, <2>6, <3>1, Going
  <2>8. Places' BY <1>0, <2>1 DEF Places
  <2>9. UNCHANGED vars BY <2>1 DEF vars
  <2> QED BY <2>5, <2>7, <2>8, <2>9
<1>3. ASSUME FragFree
      PROVE  (HeapStep \/ UNCHANGED vars) /\ PtrsOwned' /\ Places' /\ Remembered'
  <2>1. at = "frag_free" /\ pc[Cli] = "idle" /\ ptrs # <<>> BY <1>3 DEF FragFree, Runs, At
  <2>2. CASE End("corrupt") BY <2>1, <2>2, Ending
  <2>3. CASE FreeFirst /\ Proceed("frag_free") BY <2>1, <2>3, FreeFirstStep
  <2> QED BY <1>3, <2>2, <2>3 DEF FragFree
<1>4. ASSUME FragEnd
      PROVE  (HeapStep \/ UNCHANGED vars) /\ PtrsOwned' /\ Places' /\ Remembered'
  <2>1. at = "frag_free" /\ pc[Cli] = "idle" /\ ptrs = <<>> BY <1>4 DEF FragEnd, Runs, At
  <2>2. CASE Passed
    <3>1. \E v \in {"pass", "corrupt"} : End(v) BY <2>2 DEF Passed
    <3> QED BY <2>1, <3>1, Ending
  <2>3. CASE End("not coalesced") /\ ~(allocated_blocks = baseline_blocks /\ free_blocks = 1)
    <3>1. ASSUME before # NULL
          PROVE  Cardinality({i \in DOMAIN before : before[i].free}) # 1
      <4>1. /\ before \in Seq(Block) /\ Tiles(before, POOL) /\ Coalesced(before)
            /\ Foreign = TakenIn(before) /\ baseline_blocks = Weight(before, TakenOne)
        BY <1>0, <2>1, <3>1 DEF Remembered
      <4>2. Coalesced(blocks)
        <5>1. Len(ptrs) # FRAG_BLOCKS BY <2>1, TestAssumption
        <5> QED BY <1>0, <2>1, <3>1, <5>1 DEF Remembered
      <4>3. Foreign = TakenIn(blocks) BY <2>1, NothingNamed
      <4>4. blocks \in Seq(Block) /\ Tiles(blocks, POOL) /\ POOL \in Nat /\ Counted
        BY <1>0, HeapParts
      <4>5. blocks = before BY <4>1, <4>2, <4>3, <4>4, CoalescedUnique
      <4>6. allocated_blocks = baseline_blocks /\ free_blocks = Weight(before, FreeOne)
        BY <4>1, <4>4, <4>5 DEF Counted
      <4>7. Cardinality({i \in DOMAIN before : before[i].free}) = free_blocks
        BY <4>1, <4>6, FreePlaces
      <4> QED BY <2>3, <4>6, <4>7
    <3> QED BY <2>1, <2>3, <3>1, Ending
  <2> QED BY <1>4, <2>2, <2>3 DEF FragEnd
<1> QED BY <1>1, <1>2, <1>3, <1>4

LEMMA JoinedPointers ==
  ASSUME NEW p \in Seq(Nat), NEW q \in Seq(Nat)
  PROVE  /\ p \o q \in Seq(Nat) /\ Len(p \o q) = Len(p) + Len(q)
         /\ \A k \in 1 .. Len(p) : (p \o q)[k] = p[k]
         /\ \A k \in 1 .. Len(q) : (p \o q)[Len(p) + k] = q[k]
OBVIOUS

\* One pointer is freed, and the others kept in their order.
LEMMA RemovedFacts ==
  ASSUME NEW p \in Seq(Nat), NEW i \in 1 .. Len(p), NEW m, m = RemoveAt(p, i)
  PROVE  /\ m \in Seq(Nat) /\ Len(m) = Len(p) - 1
         /\ \A k \in 1 .. Len(m) : m[k] = p[IF k < i THEN k ELSE k + 1]
<1> DEFINE a == SubSeq(p, 1, i - 1)  b == SubSeq(p, i + 1, Len(p))
<1>0. Len(p) \in Nat OBVIOUS
<1>1. a \in Seq(Nat) /\ Len(a) = i - 1 /\ \A k \in 1 .. i - 1 : a[k] = p[k] OBVIOUS
<1>2. b \in Seq(Nat) /\ Len(b) = Len(p) - i /\ \A k \in 1 .. Len(p) - i : b[k] = p[i + k] OBVIOUS
<1>3. m = a \o b BY DEF RemoveAt
<1> HIDE DEF a, b
<1>4. /\ m \in Seq(Nat) /\ Len(m) = Len(a) + Len(b)
      /\ \A k \in 1 .. Len(a) : m[k] = a[k]
      /\ \A k \in 1 .. Len(b) : m[Len(a) + k] = b[k]
  <2>1. a \in Seq(Nat) /\ b \in Seq(Nat) BY <1>1, <1>2
  <2>2. /\ a \o b \in Seq(Nat) /\ Len(a \o b) = Len(a) + Len(b)
        /\ \A k \in 1 .. Len(a) : (a \o b)[k] = a[k]
        /\ \A k \in 1 .. Len(b) : (a \o b)[Len(a) + k] = b[k]
    BY <2>1, JoinedPointers, Zenon
  <2> QED BY <1>3, <2>2, Zenon
<1>5. Len(m) = Len(p) - 1 BY <1>0, <1>1, <1>2, <1>4
<1>6. ASSUME NEW k \in 1 .. Len(m) PROVE m[k] = p[IF k < i THEN k ELSE k + 1]
  <2>1. CASE k < i BY <1>1, <1>4, <2>1
  <2>2. CASE ~(k < i)
    <3>1. k - i + 1 \in 1 .. Len(p) - i /\ i - 1 + (k - i + 1) = k /\ i + (k - i + 1) = k + 1
      BY <1>0, <1>5, <2>2
    <3>2. m[k] = b[k - i + 1] BY <1>1, <1>2, <1>4, <3>1
    <3> QED BY <1>2, <2>2, <3>1, <3>2
  <2> QED BY <2>1, <2>2
<1> QED BY <1>4, <1>5, <1>6

LEMMA StressFreeStep ==
  ASSUME TestInv, Alone(Cli), NEW i \in DOMAIN ptrs, StressFree(i)
  PROVE  HeapStep /\ PtrsOwned' /\ Places' /\ Remembered'
<1>0. TestTyped /\ HeapInv /\ PtrsOwned /\ Places BY TestParts
<1> DEFINE n == Len(ptrs)  r == Held(ptrs[i])
           from(k) == IF k < i THEN k ELSE k + 1
<1>1. n \in Nat /\ ptrs \in Seq(Nat) /\ i \in 1 .. n BY <1>0 DEF TestTyped
<1>2. /\ at = "stress" /\ pc[Cli] = "idle" /\ at' = "stress"
      /\ UNCHANGED <<baseline_blocks, verdict, before>>
      /\ Free(Cli, r) /\ ptrs' = RemoveAt(ptrs, i)
  BY DEF StressFree, Runs, At, Proceed
<1>3. Holder(Cli, ptrs[i]) BY <1>0, <1>1, <1>2, PtrsIdle
<1>4. r \in Holds(Cli) /\ r.ptr = ptrs[i] BY <1>3, HeldIs
<1> HIDE DEF r
<1>5. /\ ptrs' \in Seq(Nat) /\ Len(ptrs') = n - 1
      /\ \A k \in 1 .. n - 1 : ptrs'[k] = ptrs[from(k)]
  BY <1>1, <1>2, RemovedFacts
<1>6. \A k, j \in 1 .. n : ptrs[k] = ptrs[j] => k = j BY <1>0 DEF PtrsOwned
<1>7. /\ \A k \in 1 .. n - 1 : from(k) \in 1 .. n /\ from(k) # i
      /\ \A k, j \in 1 .. n - 1 : from(k) = from(j) => k = j
      /\ \A k \in 1 .. n : k = i \/ \E j \in 1 .. n - 1 : from(j) = k
  <2>1. \A k \in 1 .. n : k < i => k \in 1 .. n - 1 /\ from(k) = k BY <1>1
  <2>2. \A k \in 1 .. n : k > i => k - 1 \in 1 .. n - 1 /\ from(k - 1) = k BY <1>1
  <2>3. \A k \in 1 .. n : k = i \/ k < i \/ k > i BY <1>1
  <2>4. \A k \in 1 .. n - 1 : from(k) \in 1 .. n /\ from(k) # i BY <1>1
  <2>5. \A k, j \in 1 .. n - 1 : from(k) = from(j) => k = j BY <1>1
  <2> HIDE DEF from
  <2> QED BY <2>1, <2>2, <2>3, <2>4, <2>5
<1> HIDE DEF from
<1>8. \A k, j \in 1 .. Len(ptrs') : ptrs'[k] = ptrs'[j] => k = j
  <2> SUFFICES ASSUME NEW k \in 1 .. n - 1, NEW j \in 1 .. n - 1, ptrs'[k] = ptrs'[j] PROVE k = j
    BY <1>5
  <2>1. ptrs[from(k)] = ptrs[from(j)] BY <1>5
  <2>2. from(k) = from(j) BY <1>6, <1>7, <2>1
  <2> QED BY <1>7, <2>2
<1>9. \A k \in 1 .. Len(ptrs') : ptrs'[k] # r.ptr BY <1>1, <1>4, <1>5, <1>6, <1>7
<1>10. ASSUME NEW q
       PROVE  (\E k \in 1 .. Len(ptrs) : ptrs[k] = q)
                <=> q = r.ptr \/ \E k \in 1 .. Len(ptrs') : ptrs'[k] = q
  <2>1. ASSUME NEW k \in 1 .. n, ptrs[k] = q, k # i PROVE \E j \in 1 .. Len(ptrs') : ptrs'[j] = q
    <3>1. PICK j \in 1 .. n - 1 : from(j) = k BY <1>7, <2>1
    <3> QED BY <1>5, <2>1, <3>1
  <2>2. ASSUME NEW k \in 1 .. Len(ptrs'), ptrs'[k] = q PROVE \E j \in 1 .. n : ptrs[j] = q
    BY <1>5, <1>7, <2>2
  <2> QED BY <1>1, <1>4, <2>1, <2>2
<1>11. PtrsOwned' /\ Foreign' = Foreign /\ pc'[Cli] = "mark"
  BY <1>0, <1>2, <1>4, <1>5, <1>8, <1>9, <1>10, FreeCall
<1>12. HeapStep BY <1>0, <1>2, <1>4 DEF HeapStep, TestTyped
<1>13. Remembered'
  <2>1. at # "prompt" /\ at' # "prompt" BY <1>2
  <2> QED BY <1>2, <1>11, <2>1, Going
<1>14. Places' BY <1>0, <1>2 DEF Places
<1> QED BY <1>11, <1>12, <1>13, <1>14

LEMMA StressStep ==
  ASSUME TestInv, Alone(Cli),
         \/ \E size \in Sizes : StressMalloc(size)
         \/ \E i \in DOMAIN ptrs : StressFree(i)
         \/ StressRound \/ StressCleanup \/ StressEnd
  PROVE  (HeapStep \/ UNCHANGED vars) /\ PtrsOwned' /\ Places' /\ Remembered'
<1>0. TestTyped /\ HeapInv /\ PtrsOwned /\ Places BY TestParts
<1>1. ASSUME NEW size \in Sizes, StressMalloc(size)
      PROVE  HeapStep /\ PtrsOwned' /\ Places' /\ Remembered'
  <2>1. at = "stress" /\ Allocate(size) /\ Proceed("stress") BY <1>1 DEF StressMalloc, Runs
  <2>2. size \in Nat BY SizesAssumption, PoolAssumption
  <2> QED BY <2>1, <2>2, AllocateStep
<1>2. ASSUME NEW i \in DOMAIN ptrs, StressFree(i)
      PROVE  HeapStep /\ PtrsOwned' /\ Places' /\ Remembered'
  BY <1>2, StressFreeStep
<1>3. ASSUME StressRound
      PROVE  UNCHANGED vars /\ PtrsOwned' /\ Places' /\ Remembered'
  <2>1. at = "stress" /\ pc[Cli] = "idle" BY <1>3 DEF StressRound, Runs, At
  <2>2. CASE End("corrupt") BY <2>1, <2>2, Ending
  <2>3. CASE Proceed("cleanup") /\ UNCHANGED <<vars, ptrs>>
    <3>1. /\ at' = "cleanup" /\ UNCHANGED <<baseline_blocks, verdict, before>>
          /\ UNCHANGED <<blocks, stats, owned, pc, loc, ptrs>>
      BY <2>3 DEF Proceed, vars
    <3>2. PtrsOwned' BY <1>0, <3>1 DEF PtrsOwned, Holder
    <3>3. Places' BY <1>0, <2>1, <3>1 DEF Places
    <3>4. Foreign' = Foreign BY <3>1 DEF Foreign, Named
    <3>5. at # "prompt" /\ at' # "prompt" BY <2>1, <3>1
    <3>6. Remembered' BY <3>1, <3>4, <3>5, Going
    <3> QED BY <2>3, <3>2, <3>3, <3>6
  <2> QED BY <1>3, <2>2, <2>3 DEF StressRound
<1>4. ASSUME StressCleanup
      PROVE  HeapStep /\ PtrsOwned' /\ Places' /\ Remembered'
  <2>1. at = "cleanup" /\ pc[Cli] = "idle" /\ ptrs # <<>> /\ FreeFirst /\ Proceed("cleanup")
    BY <1>4 DEF StressCleanup, Runs, At
  <2> QED BY <2>1, FreeFirstStep
<1>5. ASSUME StressEnd
      PROVE  UNCHANGED vars /\ PtrsOwned' /\ Places' /\ Remembered'
  <2>1. /\ at = "cleanup" /\ pc[Cli] = "idle" /\ ptrs = <<>>
        /\ \E v \in {"pass", "corrupt"} : End(v)
    BY <1>5 DEF StressEnd, Runs, At, Passed
  <2> QED BY <2>1, Ending
<1> QED BY <1>1, <1>2, <1>3, <1>4, <1>5

LEMMA ContinueStep ==
  ASSUME TestInv, Alone(Cli), Continues(Cli), UNCHANGED <<test, before>>
  PROVE  HeapStep /\ PtrsOwned' /\ Places' /\ Remembered'
<1>0. TestTyped /\ HeapInv /\ PtrsOwned /\ Places /\ Remembered BY TestParts
<1>1. UNCHANGED <<at, ptrs, baseline_blocks, verdict, before>> BY DEF test
<1>2. /\ PtrsOwned' /\ Foreign' = Foreign
      /\ pc[Cli] # "idle" /\ pc'[Cli] # "take"
      /\ pc[Cli] = "mark" => pc'[Cli] = "merge"
      /\ pc[Cli] = "merge" => pc'[Cli] = "idle" /\ Coalesced(blocks)'
  BY <1>0, <1>1, ContinueCall
<1>3. HeapStep BY <1>0 DEF HeapStep, TestTyped
<1>4. at # "prompt" BY <1>0, <1>2 DEF Places
<1>5. at = "frag_free" => Coalesced(blocks)' \/ pc'[Cli] \in {"mark", "merge"}
  <2>1. Cli \in Clients /\ pc \in [Clients -> {"idle", "take", "mark", "merge"}]
    BY <1>0, HeapParts DEF TestTyped
  <2>2. at = "frag_free" => pc[Cli] \in {"mark", "merge"} BY <1>0, <1>2, <2>1 DEF Places
  <2> QED BY <1>2, <2>2
<1>6. Remembered' BY <1>1, <1>2, <1>4, <1>5, Going
<1>7. Places' BY <1>0, <1>1, <1>2, <1>4 DEF Places
<1> QED BY <1>2, <1>3, <1>6, <1>7

LEMMA OtherStep ==
  ASSUME TestInv, NEW c \in Clients \ {Cli}, Alone(c), Other(c)
  PROVE  HeapStep /\ PtrsOwned' /\ Places' /\ Remembered'
<1>0. TestTyped /\ HeapInv /\ PtrsOwned /\ Places BY TestParts
<1>1. UNCHANGED <<at, ptrs, baseline_blocks, verdict>> /\ before' = NULL
  BY DEF Other, test
<1>2. CallsOf(c) \/ Continues(c) BY DEF Other
<1>3. PtrsOwned' /\ pc[Cli] = "idle" /\ pc'[Cli] = "idle" BY <1>0, <1>1, <1>2, OtherCall
<1>4. HeapStep BY <1>0, <1>2, NextIsHeapStep
<1>5. Places' BY <1>0, <1>1, <1>3 DEF Places
<1>6. Remembered' BY <1>1 DEF Remembered
<1> QED BY <1>3, <1>4, <1>5, <1>6

LEMMA TestInitInv ==
  ASSUME TestInit, HEADER < POOL
  PROVE  TestInv
<1>1. /\ Init /\ at = "prompt" /\ ptrs = <<>> /\ verdict = "none" /\ before = NULL
      /\ pc = [c \in Clients |-> "idle"] /\ Cli \in Clients
  BY TesterAssumption DEF TestInit, Init
<1>2. HeapInv BY <1>1, HeapInit
<1>3. ptrs \in Seq(Nat) /\ 1 .. Len(ptrs) = {} BY <1>1, NoPointers, Zenon
<1>4. pc[Cli] = "idle" BY <1>1
<1>5. PtrsOwned BY <1>3, <1>4 DEF PtrsOwned
<1>6. Places BY <1>1, <1>4 DEF Places
<1>7. Remembered BY <1>1 DEF Remembered
<1> QED BY <1>2, <1>5, <1>6, <1>7 DEF TestInv

LEMMA TestInductive ==
  ASSUME TestInv, [CalmTestNext]_testVars
  PROVE  TestInv'
<1>0. HeapInv BY DEF TestInv
<1>1. CASE UNCHANGED testVars
  <2>1. UNCHANGED vars /\ UNCHANGED <<blocks, owned, pc, loc, at, ptrs, baseline_blocks, verdict, before>>
    BY <1>1 DEF testVars, test, vars
  <2>2. HeapInv' BY <1>0, <2>1, HeapInductive
  <2>3. PtrsOwned' BY <2>1 DEF TestInv, PtrsOwned, Holder
  <2>4. Places' BY <2>1 DEF TestInv, Places
  <2>5. Remembered' BY <2>1 DEF TestInv, Remembered, Foreign, Named
  <2> QED BY <2>2, <2>3, <2>4, <2>5 DEF TestInv
<1>2. CASE CalmTestNext
  <2>1. (HeapStep \/ UNCHANGED vars) /\ PtrsOwned' /\ Places' /\ Remembered'
    <3>1. ASSUME NEW mode \in {"basic", "frag", "stress"}, Start(mode)
          PROVE  UNCHANGED vars /\ PtrsOwned' /\ Places' /\ Remembered'
      BY <3>1, StartStep
    <3>2. CASE Alone(Cli) /\ CliNext
      BY <3>1, <3>2, BasicStep, FragStep, StressStep, ContinueStep DEF CliNext
    <3>3. ASSUME NEW c \in Clients \ {Cli}, Alone(c), Other(c)
          PROVE  HeapStep /\ PtrsOwned' /\ Places' /\ Remembered'
      BY <3>3, OtherStep
    <3> QED BY <1>2, <3>2, <3>3 DEF CalmTestNext
  <2>2. HeapInv' BY <1>0, <2>1, HeapInductive
  <2> QED BY <2>1, <2>2 DEF TestInv
<1> QED BY <1>1, <1>2

LEMMA TestInvImplies ==
  ASSUME TestInv
  PROVE  VerdictsTrue /\ PointersHeld
<1>0. TestTyped /\ HeapInv /\ PtrsOwned /\ Places /\ Remembered BY TestParts
<1>1. VerdictsTrue
  <2>1. ASSUME verdict = "pass", before # NULL PROVE Merged = before
    <3>1. at = "prompt" /\ ptrs = <<>> /\ pc[Cli] = "idle" BY <1>0, <2>1 DEF Places
    <3>2. /\ before \in Seq(Block) /\ Tiles(before, POOL) /\ Coalesced(before)
          /\ Foreign = TakenIn(before)
      BY <1>0, <2>1 DEF Remembered
    <3>3. Foreign = TakenIn(blocks) BY <3>1, NothingNamed
    <3>4. blocks \in Seq(Block) /\ Tiles(blocks, POOL) /\ POOL \in Nat BY <1>0, HeapParts
    <3>5. MergedFrom(Merged, blocks) BY <3>4, MergedFacts
    <3>6. /\ Merged \in Seq(Block) /\ Tiles(Merged, POOL) /\ Coalesced(Merged)
          /\ TakenIn(Merged) = TakenIn(blocks)
      BY <3>4, <3>5 DEF MergedFrom
    <3> HIDE DEF Merged
    <3> QED BY <3>2, <3>3, <3>4, <3>6, CoalescedUnique
  <2>2. ASSUME verdict = "not coalesced", before # NULL
        PROVE  Cardinality({i \in DOMAIN before : before[i].free}) # 1
    BY <1>0, <2>2 DEF Remembered
  <2> QED BY <2>1, <2>2 DEF VerdictsTrue
<1>2. PointersHeld
  <2> SUFFICES ASSUME pc[Cli] = "idle"
               PROVE  /\ \A i \in DOMAIN ptrs : \E r \in Holds(Cli) : r.ptr = ptrs[i]
                      /\ \A i, j \in DOMAIN ptrs : ptrs[i] = ptrs[j] => i = j
    BY DEF PointersHeld
  <2>1. DOMAIN ptrs = 1 .. Len(ptrs) BY <1>0 DEF TestTyped
  <2>2. \A i \in 1 .. Len(ptrs) : Holder(Cli, ptrs[i]) BY <1>0, PtrsIdle
  <2>3. \A i, j \in 1 .. Len(ptrs) : ptrs[i] = ptrs[j] => i = j BY <1>0 DEF PtrsOwned
  <2> QED BY <2>1, <2>2, <2>3 DEF Holder, Holds
<1> QED BY <1>1, <1>2

-----------------------------------------------------------------------------
(* The theorems                                                            *)

\* When every client calls through a wrapper whose mask works, there are no executions
\* but the calm ones: what the theorems below say of CalmSpec and of CalmTestSpec they say
\* of Spec and of TestSpec.
LEMMA MaskedIsCalm ==
  ASSUME Unmasked = {}
  PROVE  (Spec => CalmSpec) /\ (TestSpec => CalmTestSpec)
<1>1. ASSUME NEW c \in Clients, CanRun(c) PROVE Alone(c) BY <1>1 DEF CanRun, Alone
<1>2. ASSUME NEW c \in Clients, CallsOf(c) \/ Continues(c) PROVE CanRun(c)
  BY <1>2 DEF CallsOf, Malloc, Free, ReallocInPlace, ReallocMove, Continues, Take, Mark, Merge, At
<1>3. [Next]_vars => [CalmNext]_vars BY <1>1, <1>2 DEF Next, CalmNext
<1>4. ASSUME CliNext PROVE Alone(Cli)
  <2>1. Cli \in Clients BY TesterAssumption
  <2>2. CanRun(Cli)
    BY <1>2, <1>4, <2>1
    DEF CliNext, Start, BasicMalloc, BasicRealloc, BasicFree, BasicEnd, FragMalloc, FragHoles, FragFree,
        FragEnd, StressMalloc, StressFree, StressRound, StressCleanup, StressEnd, Runs, At
  <2> QED BY <1>1, <2>1, <2>2
<1>5. ASSUME NEW c \in Clients \ {Cli}, Other(c) PROVE Alone(c) BY <1>1, <1>2, <1>5 DEF Other
<1>6. [TestNext]_testVars => [CalmTestNext]_testVars BY <1>4, <1>5 DEF TestNext, CalmTestNext
<1> QED BY <1>3, <1>6, PTL DEF Spec, CalmSpec, TestSpec, CalmTestSpec

\* The invariant of the heap alone, whoever its clients are: between any two steps of
\* allocator_malloc, _free and _realloc the list, the counters and what the clients
\* hold agree.
THEOREM HeapInvariance ==
  ASSUME HEADER < POOL
  PROVE  CalmSpec => []HeapInv
<1>1. Init => HeapInv BY HeapInit
<1>2. HeapInv /\ [CalmNext]_vars => HeapInv'
  <2>1. ASSUME HeapInv, CalmNext PROVE HeapStep BY <2>1, NextIsHeapStep DEF CalmNext
  <2> QED BY <2>1, HeapInductive
<1> QED BY <1>1, <1>2, PTL DEF CalmSpec

\* And of the heap that heaptest shares with other tasks.
THEOREM TestInvariance ==
  ASSUME HEADER < POOL
  PROVE  CalmTestSpec => []TestInv
<1>1. TestInit => TestInv BY TestInitInv
<1>2. TestInv /\ [CalmTestNext]_testVars => TestInv' BY TestInductive
<1> QED BY <1>1, <1>2, PTL DEF CalmTestSpec

\* Types, and no size_t counter of the allocator ever goes below 0, in the middle of a
\* call included.
THEOREM HeapTypeCorrect ==
  ASSUME HEADER < POOL
  PROVE  (CalmSpec => []HeapTypeOK) /\ (CalmTestSpec => []HeapTypeOK)
<1>1. HeapInv => HeapTypeOK BY HeapInvImplies
<1>2. TestInv => HeapTypeOK BY <1>1 DEF TestInv
<1> QED BY <1>1, <1>2, HeapInvariance, TestInvariance, PTL

\* The splits of malloc and realloc and the merges of free leave the pool tiled by
\* headers and data, every block aligned and able to hold a word.
THEOREM PoolTiled ==
  ASSUME HEADER < POOL
  PROVE  (CalmSpec => []Tiling) /\ (CalmTestSpec => []Tiling)
<1>1. HeapInv => Tiling BY HeapInvImplies
<1>2. TestInv => Tiling BY <1>1 DEF TestInv
<1> QED BY <1>1, <1>2, HeapInvariance, TestInvariance, PTL

\* No two regions handed out overlap, and none covers a header or leaves the pool, whatever
\* calms the calls: allocator_malloc, _free and _realloc are right one call at a time.  The
\* premise cannot be dropped: an unmasked call inside another's breaks it.
THEOREM NoOverlap ==
  ASSUME HEADER < POOL
  PROVE  (CalmSpec => []RegionsDisjoint) /\ (CalmTestSpec => []RegionsDisjoint)
<1>1. HeapInv => RegionsDisjoint BY HeapInvImplies
<1>2. TestInv => RegionsDisjoint BY <1>1 DEF TestInv
<1> QED BY <1>1, <1>2, HeapInvariance, TestInvariance, PTL

\* Between calls the counters that stm32_allocator_get_stats reports are those of the
\* list: allocator_check_integrity holds, and every allocated block has an owner.
THEOREM CountersExact ==
  ASSUME HEADER < POOL
  PROVE  (CalmSpec => []Accounting) /\ (CalmTestSpec => []Accounting)
<1>1. HeapInv => Accounting BY HeapInvImplies
<1>2. TestInv => Accounting BY <1>1 DEF TestInv
<1> QED BY <1>1, <1>2, HeapInvariance, TestInvariance, PTL

\* However it was cut, and in whatever order it is given back, the pool is one free
\* block again once everything is freed.
THEOREM NothingLost ==
  ASSUME HEADER < POOL
  PROVE  (CalmSpec => []WholeAgain) /\ (CalmTestSpec => []WholeAgain)
<1>1. HeapInv => WholeAgain BY HeapInvImplies
<1>2. TestInv => WholeAgain BY <1>1 DEF TestInv
<1> QED BY <1>1, <1>2, HeapInvariance, TestInvariance, PTL

\* What heaptest prints is true: a pass means the heap is, coalesced, the one it
\* started from, and "not coalesced" is never the allocator's doing.
THEOREM VerdictsHold ==
  ASSUME HEADER < POOL
  PROVE  CalmTestSpec => []VerdictsTrue
<1>1. TestInv => VerdictsTrue BY TestInvImplies
<1> QED BY <1>1, TestInvariance, PTL

\* heaptest never frees twice and never uses a pointer that realloc has moved.
THEOREM PointersKept ==
  ASSUME HEADER < POOL
  PROVE  CalmTestSpec => []PointersHeld
<1>1. TestInv => PointersHeld BY TestInvImplies
<1> QED BY <1>1, TestInvariance, PTL

=============================================================================
