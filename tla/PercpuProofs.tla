---------------------------- MODULE PercpuProofs ----------------------------
(***************************************************************************)
(* Proofs about Percpu, for any size and number of blocks, hidden ends,    *)
(* requests and alignments: the metadata of the blocks agrees with the     *)
(* bitmap, areas are apart and are freed with their size, and a search     *)
(* that trusts the metadata misses no room in a block and never leaves     *)
(* the map.                                                                *)
(***************************************************************************)
EXTENDS Percpu, FiniteSetTheorems, WellFoundedInduction, TLAPS

-----------------------------------------------------------------------------
(***************************************************************************)
(* Facts about sets of numbers and about recursive functions.              *)
(***************************************************************************)
\* A set of naturals has a least element, and a bounded one a greatest.
LEMMA Least ==
  ASSUME NEW T, T \subseteq Nat, T # {}
  PROVE  \E x \in T : \A y \in T : x <= y
<1> DEFINE R == OpToRel(<, Nat)
<1>1. IsWellFoundedOn(R, Nat)
  BY NatLessThanWellFounded
<1>2. \A x, y \in Nat : y < x => <<y, x>> \in R
  BY DEF OpToRel
<1> HIDE DEF R
<1>3. PICK x \in T : \A y \in T : ~ (<<y, x>> \in R)
  BY <1>1, WFMin
<1>4. \A y \in T : x <= y
  <2> SUFFICES ASSUME NEW y \in T PROVE x <= y
    OBVIOUS
  <2>1. x \in Nat /\ y \in Nat
    OBVIOUS
  <2>2. ~(y < x)
    BY <1>2, <1>3, <2>1
  <2> QED BY <2>1, <2>2
<1> QED BY <1>4

\* Min is the least element,
LEMMA MinOf ==
  ASSUME NEW T, T \subseteq Nat, T # {}
  PROVE  Min(T) \in T /\ \A y \in T : Min(T) <= y
BY Least DEF Min

\* and Max the greatest.
LEMMA MaxOf ==
  ASSUME NEW T, T \subseteq Int, T # {}, NEW u \in Int, \A x \in T : x <= u
  PROVE  Max(T) \in T /\ \A y \in T : y <= Max(T)
<1> DEFINE D == {u - x : x \in T}
<1>1. D \subseteq Nat
  <2> SUFFICES ASSUME NEW x \in T PROVE u - x \in Nat
    OBVIOUS
  <2>1. x \in Int /\ x <= u
    OBVIOUS
  <2> QED BY <2>1
<1>a. D # {}
  OBVIOUS
<1>b. \A x \in T : u - x \in D
  OBVIOUS
<1>c. \A d \in D : \E x \in T : d = u - x
  OBVIOUS
<1> HIDE DEF D
<1>2. PICK d \in D : \A y \in D : d <= y
  BY <1>1, <1>a, Least
<1>3. PICK m \in T : d = u - m
  BY <1>c
<1>4. \A y \in T : m >= y
  <2> SUFFICES ASSUME NEW y \in T PROVE m >= y
    OBVIOUS
  <2>1. u - m <= u - y
    BY <1>2, <1>3, <1>b
  <2> QED BY <2>1
<1>5. \E x \in T : \A y \in T : x >= y
  BY <1>4
<1>6. Max(T) \in T /\ \A y \in T : Max(T) >= y
  BY <1>5 DEF Max
<1>7. Max(T) \in Int
  BY <1>6
<1> QED BY <1>6, <1>7

\* Min and Max of two numbers.
LEMMA OfTwo ==
  ASSUME NEW a \in Int, NEW b \in Int
  PROVE  /\ Min({a, b}) = IF a <= b THEN a ELSE b
         /\ Max({a, b}) = IF a <= b THEN b ELSE a
BY DEF Min, Max

\* Induction up to n.
LEMMA Upwards ==
  ASSUME NEW n \in Nat, NEW P, 0 \in P,
         \A k \in 0 .. n - 1 : k \in P => k + 1 \in P
  PROVE  0 .. n \subseteq P
<1> DEFINE T == {k \in 0 .. n : k \notin P}
<1> SUFFICES ASSUME T # {} PROVE FALSE
  OBVIOUS
<1>0. T \subseteq Nat /\ \A k : k \in T <=> k \in 0 .. n /\ k \notin P
  OBVIOUS
<1> HIDE DEF T
<1>1. PICK x \in T : \A y \in T : x <= y
  BY <1>0, Least
<1>2. x \in Nat /\ x # 0 /\ x - 1 \in 0 .. n - 1
  BY <1>0
<1>3. x - 1 \in P
  <2>1. x - 1 \notin T
    BY <1>1, <1>2
  <2> QED BY <1>0, <1>2, <2>1
<1>4. (x - 1) + 1 \in P
  BY <1>2, <1>3
<1> QED BY <1>0, <1>2, <1>4

\* f takes the steps from init on.
Takes(f, n, init, step) ==
  f[0] = init /\ \A k \in 1 .. n : f[k] = step[k][f[k - 1]]

\* A step that stays in S can be taken n times.
LEMMA Recursion ==
  ASSUME NEW n \in Nat, NEW S, NEW init \in S, NEW step \in [1 .. n -> [S -> S]]
  PROVE  \E f \in [0 .. n -> S] : Takes(f, n, init, step)
<1> DEFINE Is(f, m) == f[0] = init /\ \A k \in 1 .. m : f[k] = step[k][f[k - 1]]
           P == {m \in 0 .. n : \E f \in [0 .. m -> S] : Is(f, m)}
<1>1. 0 \in P
  <2> DEFINE f0 == [k \in 0 .. 0 |-> init]
  <2>1. f0 \in [0 .. 0 -> S] /\ Is(f0, 0)
    OBVIOUS
  <2>2. \E f \in [0 .. 0 -> S] : Is(f, 0)
    BY <2>1
  <2> QED BY <2>2
<1>2. ASSUME NEW k \in 0 .. n - 1, k \in P PROVE k + 1 \in P
  <2>1. PICK f \in [0 .. k -> S] : Is(f, k)
    BY <1>2
  <2> DEFINE g == [j \in 0 .. k + 1 |-> IF j = k + 1 THEN step[k + 1][f[k]] ELSE f[j]]
  <2>2. k + 1 \in 1 .. n /\ f[k] \in S
    OBVIOUS
  <2>3. step[k + 1][f[k]] \in S
    BY <2>2
  <2>4. g \in [0 .. k + 1 -> S]
    BY <2>3
  <2>5. g[0] = init /\ g[k + 1] = step[k + 1][f[k]] /\ \A j \in 0 .. k : g[j] = f[j]
    BY <2>1
  <2> HIDE DEF g
  <2>6. ASSUME NEW j \in 1 .. k + 1 PROVE g[j] = step[j][g[j - 1]]
    <3>1. CASE j = k + 1
      BY <3>1, <2>5
    <3>2. CASE j # k + 1
      <4>1. j \in 1 .. k /\ j \in 0 .. k /\ j - 1 \in 0 .. k
        BY <3>2
      <4> QED BY <4>1, <2>1, <2>5
    <3> QED BY <3>1, <3>2
  <2> QED BY <2>2, <2>4, <2>5, <2>6
<1> HIDE DEF P
<1>3. n \in P
  <2>1. 0 .. n \subseteq P
    BY <1>1, <1>2, Upwards
  <2> QED BY <2>1
<1> QED BY <1>3 DEF P, Takes

\* The first element of a search.
LEMMA FirstOfIs ==
  ASSUME NEW T, T \subseteq Nat, NEW size \in Nat
  PROVE  /\ FirstOf(T, size) \in T \cup {size}
         /\ FirstOf(T, size) <= size
         /\ \A y \in T : FirstOf(T, size) <= y
         /\ FirstOf(T, size) \in Nat
<1>1. T \cup {size} \subseteq Nat /\ T \cup {size} # {}
  OBVIOUS
<1>2. Min(T \cup {size}) \in T \cup {size} /\ \A y \in T \cup {size} : Min(T \cup {size}) <= y
  BY <1>1, MinOf
<1> QED BY <1>1, <1>2 DEF FirstOf

\* find_next_bit yields a set bit behind clear ones, or the size;
LEMMA NextBit ==
  ASSUME NEW map, NEW size \in Nat, NEW off \in Nat
  PROVE  LET r == find_next_bit(map, size, off)
         IN  /\ r \in 0 .. size
             /\ r < size => r \in map /\ off <= r
             /\ \A i \in off .. size - 1 : i < r => i \notin map
             /\ off <= size => off <= r
<1> DEFINE T == {i \in off .. size - 1 : i \in map}
<1>1. T \subseteq Nat
  OBVIOUS
<1>2. find_next_bit(map, size, off) = FirstOf(T, size)
  BY DEF find_next_bit
<1>3. /\ FirstOf(T, size) \in T \cup {size} /\ FirstOf(T, size) <= size
      /\ \A y \in T : FirstOf(T, size) <= y
      /\ FirstOf(T, size) \in Nat
  BY <1>1, FirstOfIs
<1> QED BY <1>2, <1>3

\* find_next_zero_bit a clear bit behind set ones;
LEMMA NextZeroBit ==
  ASSUME NEW map, NEW size \in Nat, NEW off \in Nat
  PROVE  LET r == find_next_zero_bit(map, size, off)
         IN  /\ r \in 0 .. size
             /\ r < size => r \notin map /\ off <= r
             /\ \A i \in off .. size - 1 : i < r => i \in map
             /\ off <= size => off <= r
<1> DEFINE T == {i \in off .. size - 1 : i \notin map}
<1>1. T \subseteq Nat
  OBVIOUS
<1>2. find_next_zero_bit(map, size, off) = FirstOf(T, size)
  BY DEF find_next_zero_bit
<1>3. /\ FirstOf(T, size) \in T \cup {size} /\ FirstOf(T, size) <= size
      /\ \A y \in T : FirstOf(T, size) <= y
      /\ FirstOf(T, size) \in Nat
  BY <1>1, FirstOfIs
<1> QED BY <1>2, <1>3

\* find_last_bit a set bit with only clear ones above.
LEMMA LastBit ==
  ASSUME NEW map, NEW size \in Nat
  PROVE  LET r == find_last_bit(map, size)
         IN  /\ r \in 0 .. size
             /\ r < size => r \in map /\ \A i \in r + 1 .. size - 1 : i \notin map
             /\ r = size => \A i \in 0 .. size - 1 : i \notin map
<1> DEFINE T == {i \in 0 .. size - 1 : i \in map}
<1>1. T \subseteq Int /\ \A x \in T : x <= size
  OBVIOUS
<1>2. find_last_bit(map, size) = IF T = {} THEN size ELSE Max(T)
  BY DEF find_last_bit
<1> HIDE DEF T
<1>3. ASSUME T # {} PROVE Max(T) \in T /\ \A y \in T : y <= Max(T)
  <2>1. size \in Int
    OBVIOUS
  <2> QED BY <1>1, <1>3, <2>1, MaxOf
<1>4. CASE T = {}
  BY <1>2, <1>4 DEF T
<1>5. CASE T # {}
  <2>1. find_last_bit(map, size) = Max(T) /\ Max(T) \in T
    BY <1>2, <1>3, <1>5
  <2> QED BY <2>1, <1>3, <1>5 DEF T
<1> QED BY <1>4, <1>5

-----------------------------------------------------------------------------
(***************************************************************************)
(* What the metadata of one block means, and pcpu_block_update.            *)
(***************************************************************************)
\* The metadata of a block.
BlockMd == [contig_hint : Int, contig_hint_start : Int, left_free : Int,
            right_free : Int, first_free : Int]

\* The bits from i up to j are zero.
ZeroRun(m, i, j) == \A k \in i .. j - 1 : k \notin m

\* A piece of metadata agrees with the bitmap m of its block.
HintFits(b, m) ==
  /\ b.contig_hint \in 0 .. BLOCK_BITS /\ b.contig_hint_start \in 0 .. BLOCK_BITS
  /\ b.contig_hint_start + b.contig_hint <= BLOCK_BITS
  /\ ZeroRun(m, b.contig_hint_start, b.contig_hint_start + b.contig_hint)
\* No run in the block is longer than the hint.
LongestFits(b, m) ==
  \A i, j \in 0 .. BLOCK_BITS : ZeroRun(m, i, j) => j - i <= b.contig_hint
\* left_free is the run at the left side,
LeftFits(b, m) ==
  /\ b.left_free \in 0 .. BLOCK_BITS /\ ZeroRun(m, 0, b.left_free)
  /\ b.left_free < BLOCK_BITS => b.left_free \in m
\* right_free the one at the right side.
RightFits(b, m) ==
  /\ b.right_free \in 0 .. BLOCK_BITS
  /\ ZeroRun(m, BLOCK_BITS - b.right_free, BLOCK_BITS)
  /\ b.right_free < BLOCK_BITS => BLOCK_BITS - b.right_free - 1 \in m
\* No free bit lies below first_free.
FirstFits(b, m) ==
  /\ b.first_free \in 0 .. BLOCK_BITS /\ \A k \in 0 .. b.first_free - 1 : k \in m

\* The metadata b says the truth about the bitmap m of its block.
BlockFits(b, m) ==
  /\ b \in BlockMd
  /\ HintFits(b, m) /\ LongestFits(b, m)
  /\ LeftFits(b, m) /\ RightFits(b, m) /\ FirstFits(b, m)

-----------------------------------------------------------------------------
\* What pcpu_block_update makes of a block.
LEMMA UpdateIs ==
  ASSUME NEW b \in BlockMd, NEW start \in Int, NEW end \in Int
  PROVE  LET u == pcpu_block_update(b, start, end)
         IN  /\ u \in BlockMd
             /\ \/ /\ u.contig_hint = end - start /\ u.contig_hint_start = start
                   /\ end - start >= b.contig_hint
                \/ /\ u.contig_hint = b.contig_hint
                   /\ u.contig_hint_start = b.contig_hint_start
                   /\ end - start <= b.contig_hint
             /\ u.left_free = IF start = 0 THEN end - start ELSE b.left_free
             /\ u.right_free = IF end = BLOCK_BITS THEN end - start ELSE b.right_free
             /\ u.first_free = IF b.first_free <= start THEN b.first_free ELSE start
<1> DEFINE n == end - start
           take == n > b.contig_hint
                   \/ (n = b.contig_hint /\ BetterStart(b.contig_hint_start, start))
           u == pcpu_block_update(b, start, end)
<1>1. b.first_free \in Int /\ b.contig_hint \in Int /\ b.contig_hint_start \in Int
      /\ b.left_free \in Int /\ b.right_free \in Int /\ n \in Int
  BY DEF BlockMd
<1>2. Min({b.first_free, start}) = IF b.first_free <= start THEN b.first_free ELSE start
  BY <1>1, OfTwo
<1>3. u = [contig_hint       |-> IF take THEN n ELSE b.contig_hint,
           contig_hint_start |-> IF take THEN start ELSE b.contig_hint_start,
           left_free         |-> IF start = 0 THEN n ELSE b.left_free,
           right_free        |-> IF end = BLOCK_BITS THEN n ELSE b.right_free,
           first_free        |-> Min({b.first_free, start})]
  BY DEF pcpu_block_update
<1>4. take => n >= b.contig_hint
  BY <1>1
<1>5. ~take => n <= b.contig_hint
  BY <1>1
<1> HIDE DEF u, take
<1>6. u \in BlockMd
  BY <1>1, <1>2, <1>3 DEF BlockMd
<1>7. /\ \/ /\ u.contig_hint = n /\ u.contig_hint_start = start
            /\ n >= b.contig_hint
         \/ /\ u.contig_hint = b.contig_hint
            /\ u.contig_hint_start = b.contig_hint_start
            /\ n <= b.contig_hint
      /\ u.left_free = IF start = 0 THEN n ELSE b.left_free
      /\ u.right_free = IF end = BLOCK_BITS THEN n ELSE b.right_free
      /\ u.first_free = IF b.first_free <= start THEN b.first_free ELSE start
  BY <1>2, <1>3, <1>4, <1>5
<1> QED BY <1>6, <1>7 DEF u

\* A run of zeros that reaches as far as it can, given to a block that knew the
\* bitmap with some of its bits set, makes the block fit.
LEMMA UpdateFits ==
  ASSUME NEW b, NEW m, NEW X, BlockFits(b, m \cup X),
         NEW start \in 0 .. BLOCK_BITS, NEW end \in 0 .. BLOCK_BITS, start < end,
         X \subseteq start .. end - 1, ZeroRun(m, start, end),
         start # 0 => start - 1 \in m, end # BLOCK_BITS => end \in m
  PROVE  BlockFits(pcpu_block_update(b, start, end), m)
<1> DEFINE u == pcpu_block_update(b, start, end)
           n == end - start
<1>0. BLOCK_BITS \in Nat
  BY BlockAssumption
<1>1. b \in BlockMd /\ start \in Int /\ end \in Int
  BY <1>0 DEF BlockFits
<1>2. /\ u \in BlockMd
      /\ \/ /\ u.contig_hint = n /\ u.contig_hint_start = start
            /\ n >= b.contig_hint
         \/ /\ u.contig_hint = b.contig_hint
            /\ u.contig_hint_start = b.contig_hint_start
            /\ n <= b.contig_hint
      /\ u.left_free = IF start = 0 THEN n ELSE b.left_free
      /\ u.right_free = IF end = BLOCK_BITS THEN n ELSE b.right_free
      /\ u.first_free = IF b.first_free <= start THEN b.first_free ELSE start
  BY <1>1, UpdateIs
<1> HIDE DEF u
<1>3. HintFits(u, m)
  <2>1. HintFits(b, m \cup X)
    BY DEF BlockFits
  <2>2. CASE u.contig_hint = n /\ u.contig_hint_start = start
    <3>1. start + n = end
      BY <1>1
    <3> QED BY <1>0, <2>2, <3>1 DEF HintFits
  <2>3. CASE u.contig_hint = b.contig_hint /\ u.contig_hint_start = b.contig_hint_start
    BY <2>1, <2>3 DEF HintFits, ZeroRun
  <2> QED BY <1>2, <2>2, <2>3
<1>4. LongestFits(u, m)
  <2> SUFFICES ASSUME NEW i \in 0 .. BLOCK_BITS, NEW j \in 0 .. BLOCK_BITS, ZeroRun(m, i, j)
               PROVE  j - i <= u.contig_hint
    BY DEF LongestFits
  <2>0. /\ n <= u.contig_hint /\ b.contig_hint <= u.contig_hint
        /\ n \in Int /\ u.contig_hint \in Int /\ b.contig_hint \in Int
    BY <1>1, <1>2 DEF BlockMd
  <2>1. CASE j <= i
    <3>1. 0 <= b.contig_hint
      BY <1>0 DEF BlockFits, HintFits
    <3> QED BY <2>0, <2>1, <3>1
  <2>2. CASE i < j /\ j <= start
    <3>1. ZeroRun(m \cup X, i, j)
      BY <2>2 DEF ZeroRun
    <3>2. j - i <= b.contig_hint
      BY <3>1 DEF BlockFits, LongestFits
    <3> QED BY <2>0, <3>2
  <2>3. CASE i < j /\ end <= i
    <3>1. ZeroRun(m \cup X, i, j)
      BY <2>3 DEF ZeroRun
    <3>2. j - i <= b.contig_hint
      BY <3>1 DEF BlockFits, LongestFits
    <3> QED BY <2>0, <3>2
  <2>4. CASE i < end /\ start < j /\ i < j
    <3>1. start <= i
      <4> SUFFICES ASSUME i < start PROVE FALSE
        BY <1>1
      <4>1. start - 1 \in m /\ start - 1 \in i .. j - 1
        BY <1>1, <2>4
      <4> QED BY <4>1 DEF ZeroRun
    <3>2. j <= end
      <4> SUFFICES ASSUME end < j PROVE FALSE
        BY <1>1
      <4>1. end \in m /\ end \in i .. j - 1
        BY <1>0, <1>1, <2>4
      <4> QED BY <4>1 DEF ZeroRun
    <3> QED BY <1>1, <2>0, <3>1, <3>2
  <2> QED BY <1>1, <2>1, <2>2, <2>3, <2>4
<1>5. LeftFits(u, m)
  <2>1. CASE start = 0
    <3>1. u.left_free = end
      BY <1>1, <1>2, <2>1
    <3> QED BY <1>0, <2>1, <3>1 DEF LeftFits
  <2>2. CASE start # 0
    <3>1. u.left_free = b.left_free /\ LeftFits(b, m \cup X)
      BY <1>2, <2>2 DEF BlockFits
    <3>2. b.left_free < start
      <4> SUFFICES ASSUME start <= b.left_free PROVE FALSE
        BY <1>1, <1>0, <3>1 DEF LeftFits
      <4>1. start - 1 \in m /\ start - 1 \in 0 .. b.left_free - 1
        BY <1>0, <1>1, <2>2, <3>1 DEF LeftFits
      <4> QED BY <3>1, <4>1 DEF LeftFits, ZeroRun
    <3>3. b.left_free \notin X
      BY <1>0, <3>1, <3>2 DEF LeftFits
    <3> QED BY <3>1, <3>3 DEF LeftFits, ZeroRun
  <2> QED BY <2>1, <2>2
<1>6. RightFits(u, m)
  <2>1. CASE end = BLOCK_BITS
    <3>1. u.right_free = BLOCK_BITS - start
      BY <1>1, <1>2, <2>1
    <3>2. /\ BLOCK_BITS - start \in 0 .. BLOCK_BITS
          /\ BLOCK_BITS - (BLOCK_BITS - start) = start
          /\ BLOCK_BITS - start < BLOCK_BITS => start # 0
      BY <1>0, <1>1
    <3> QED BY <1>0, <2>1, <3>1, <3>2 DEF RightFits
  <2>2. CASE end # BLOCK_BITS
    <3>1. u.right_free = b.right_free /\ RightFits(b, m \cup X)
      BY <1>2, <2>2 DEF BlockFits
    <3>2. end < BLOCK_BITS - b.right_free
      <4> SUFFICES ASSUME BLOCK_BITS - b.right_free <= end PROVE FALSE
        BY <1>1, <1>0, <3>1 DEF RightFits
      <4>1. end \in m /\ end \in BLOCK_BITS - b.right_free .. BLOCK_BITS - 1
        BY <1>0, <1>1, <2>2, <3>1 DEF RightFits
      <4> QED BY <3>1, <4>1 DEF RightFits, ZeroRun
    <3>3. BLOCK_BITS - b.right_free - 1 \notin X
      BY <1>0, <3>1, <3>2 DEF RightFits
    <3> QED BY <3>1, <3>3 DEF RightFits, ZeroRun
  <2> QED BY <2>1, <2>2
<1>7. FirstFits(u, m)
  <2>1. FirstFits(b, m \cup X)
    BY DEF BlockFits
  <2>2. u.first_free \in 0 .. BLOCK_BITS /\ u.first_free <= start
        /\ u.first_free <= b.first_free
    BY <1>0, <1>2, <2>1 DEF FirstFits
  <2>3. ASSUME NEW k \in 0 .. u.first_free - 1 PROVE k \in m
    <3>1. k \in 0 .. b.first_free - 1 /\ k < start
      BY <1>0, <2>1, <2>2 DEF FirstFits
    <3> QED BY <2>1, <3>1 DEF FirstFits
  <2> QED BY <2>2, <2>3 DEF FirstFits
<1> QED BY <1>2, <1>3, <1>4, <1>5, <1>6, <1>7 DEF BlockFits, u

-----------------------------------------------------------------------------
\* The bits from p up to q are set, in front of the longest run or behind it.
LEMMA TakeFits ==
  ASSUME NEW b, NEW m, BlockFits(b, m),
         NEW p \in 0 .. BLOCK_BITS, NEW q \in 0 .. BLOCK_BITS, p < q,
         ZeroRun(m, p, q),
         p < b.contig_hint_start \/ b.contig_hint_start + b.contig_hint <= p,
         NEW u \in BlockMd,
         u.contig_hint = b.contig_hint, u.contig_hint_start = b.contig_hint_start,
         u.left_free = IF b.left_free <= p THEN b.left_free ELSE p,
         u.right_free = IF b.right_free <= BLOCK_BITS - q THEN b.right_free
                                                          ELSE BLOCK_BITS - q,
         FirstFits(u, m \cup (p .. q - 1))
  PROVE  BlockFits(u, m \cup (p .. q - 1))
<1> DEFINE M == m \cup (p .. q - 1)
           l == u.left_free
           r == u.right_free
<1>0. BLOCK_BITS \in Nat
  BY BlockAssumption
<1>1. /\ u \in BlockMd /\ b \in BlockMd
      /\ u.contig_hint = b.contig_hint /\ u.contig_hint_start = b.contig_hint_start
  BY DEF BlockFits
<1>a. m \subseteq M /\ p .. q - 1 \subseteq M /\ \A k \in M : k \in m \/ k \in p .. q - 1
  OBVIOUS
<1> HIDE DEF M
<1>b. /\ HintFits(b, m) /\ LongestFits(b, m) /\ LeftFits(b, m)
      /\ RightFits(b, m) /\ FirstFits(b, m)
  BY DEF BlockFits
<1>2. HintFits(u, M)
  <2> DEFINE hs == b.contig_hint_start
             he == b.contig_hint_start + b.contig_hint
  <2>1. hs \in 0 .. BLOCK_BITS /\ he \in 0 .. BLOCK_BITS /\ hs <= he
        /\ he - hs = b.contig_hint
    BY <1>0, <1>b DEF HintFits
  <2>2. CASE q <= hs \/ he <= p
    <3>1. \A k \in hs .. he - 1 : k \notin M
      BY <1>a, <1>b, <2>1, <2>2 DEF HintFits, ZeroRun
    <3> QED BY <1>1, <1>b, <3>1 DEF HintFits, ZeroRun
  <2>3. CASE p < hs /\ hs < q
    <3>1. ZeroRun(m, p, he)
      <4> SUFFICES ASSUME NEW k \in p .. he - 1 PROVE k \notin m
        BY DEF ZeroRun
      <4>1. k \in p .. q - 1 \/ k \in hs .. he - 1
        BY <2>1, <2>3
      <4> QED BY <1>b, <4>1 DEF ZeroRun, HintFits
    <3>2. he - p <= b.contig_hint
      BY <1>b, <2>1, <3>1 DEF LongestFits
    <3> QED BY <2>1, <2>3, <3>2
  <2> QED BY <1>0, <2>1, <2>2, <2>3
<1>3. LongestFits(u, M)
  BY <1>1, <1>a, <1>b DEF LongestFits, ZeroRun
<1>4. LeftFits(u, M)
  <2>0. b.left_free \in 0 .. BLOCK_BITS
    BY <1>b DEF LeftFits
  <2>1. CASE b.left_free <= p
    <3>1. b.left_free < BLOCK_BITS
      BY <1>0, <2>0, <2>1
    <3>2. b.left_free \in M
      BY <1>a, <1>b, <3>1 DEF LeftFits
    <3>3. \A k \in 0 .. b.left_free - 1 : k \notin M
      BY <1>a, <1>b, <2>0, <2>1 DEF LeftFits, ZeroRun
    <3> QED BY <1>1, <2>0, <2>1, <3>2, <3>3 DEF LeftFits, ZeroRun
  <2>2. CASE p < b.left_free
    <3>1. l = p
      BY <2>0, <2>2
    <3>2. p \in M
      BY <1>a
    <3>3. \A k \in 0 .. p - 1 : k \notin M
      BY <1>a, <1>b, <2>0, <2>2 DEF LeftFits, ZeroRun
    <3> QED BY <1>1, <3>1, <3>2, <3>3 DEF LeftFits, ZeroRun
  <2> QED BY <2>0, <2>1, <2>2
<1>5. RightFits(u, M)
  <2>0. b.right_free \in 0 .. BLOCK_BITS
    BY <1>b DEF RightFits
  <2>1. CASE b.right_free <= BLOCK_BITS - q
    <3>1. b.right_free < BLOCK_BITS
      BY <1>0, <2>0, <2>1
    <3>2. BLOCK_BITS - b.right_free - 1 \in M
      BY <1>a, <1>b, <3>1 DEF RightFits
    <3>3. \A k \in BLOCK_BITS - b.right_free .. BLOCK_BITS - 1 : k \notin M
      BY <1>0, <1>a, <1>b, <2>0, <2>1 DEF RightFits, ZeroRun
    <3> QED BY <1>1, <2>0, <2>1, <3>2, <3>3 DEF RightFits, ZeroRun
  <2>2. CASE BLOCK_BITS - q < b.right_free
    <3>1. r = BLOCK_BITS - q /\ BLOCK_BITS - q \in 0 .. BLOCK_BITS
          /\ BLOCK_BITS - (BLOCK_BITS - q) = q
      BY <1>0, <2>0, <2>2
    <3>2. q - 1 \in M
      BY <1>a
    <3>3. \A k \in q .. BLOCK_BITS - 1 : k \notin M
      BY <1>0, <1>a, <1>b, <2>0, <2>2 DEF RightFits, ZeroRun
    <3> QED BY <1>1, <3>1, <3>2, <3>3 DEF RightFits, ZeroRun
  <2> QED BY <1>0, <2>0, <2>1, <2>2
<1>6. FirstFits(u, M)
  BY DEF M
<1> QED BY <1>1, <1>2, <1>3, <1>4, <1>5, <1>6 DEF BlockFits, M

-----------------------------------------------------------------------------
(***************************************************************************)
(* pcpu_block_refresh_hint.                                                *)
(***************************************************************************)
\* The fields of a block whose hints are reset.
LEMMA FullIs ==
  ASSUME NEW b \in BlockMd
  PROVE  /\ Full(b) \in BlockMd
         /\ Full(b).contig_hint = 0 /\ Full(b).left_free = 0 /\ Full(b).right_free = 0
         /\ Full(b).contig_hint_start = b.contig_hint_start
         /\ Full(b).first_free = b.first_free
<1>1. 0 \in Int
  OBVIOUS
<1> QED BY <1>1 DEF Full, BlockMd

\* The rounds of pcpu_block_refresh_hint.
LEMMA ScanIs ==
  ASSUME NEW b \in BlockMd, NEW m
  PROVE  LET scan == RefreshScan(b, m)
         IN  /\ scan \in [0 .. BLOCK_BITS -> BlockMd]
             /\ scan[0] = Full(b)
             /\ \A k \in 1 .. BLOCK_BITS :
                  scan[k] = IF RunBegins(m, b.first_free, k - 1)
                              THEN pcpu_block_update(scan[k - 1], k - 1,
                                                     find_next_bit(m, BLOCK_BITS, k))
                              ELSE scan[k - 1]
<1> DEFINE S(k, x) == IF RunBegins(m, b.first_free, k - 1)
                        THEN pcpu_block_update(x, k - 1, find_next_bit(m, BLOCK_BITS, k))
                        ELSE x
           step == [k \in 1 .. BLOCK_BITS |-> [x \in BlockMd |-> S(k, x)]]
           F(g) == [k \in 0 .. BLOCK_BITS |-> IF k = 0 THEN Full(b) ELSE S(k, g[k - 1])]
<1>0. BLOCK_BITS \in Nat
  BY BlockAssumption
<1>1. Full(b) \in BlockMd
  BY FullIs
<1>2. ASSUME NEW k \in 1 .. BLOCK_BITS, NEW x \in BlockMd PROVE S(k, x) \in BlockMd
  <2>1. k \in Nat /\ k - 1 \in Int
    BY <1>0
  <2>2. find_next_bit(m, BLOCK_BITS, k) \in Int
    BY <1>0, <2>1, NextBit
  <2>3. pcpu_block_update(x, k - 1, find_next_bit(m, BLOCK_BITS, k)) \in BlockMd
    BY <2>1, <2>2, UpdateIs
  <2> QED BY <2>3
<1>a. RefreshScan(b, m) = CHOOSE g : g = F(g)
  BY DEF RefreshScan
<1>b. \A k \in 1 .. BLOCK_BITS : \A x : S(k, x) = IF RunBegins(m, b.first_free, k - 1)
                        THEN pcpu_block_update(x, k - 1, find_next_bit(m, BLOCK_BITS, k))
                        ELSE x
  OBVIOUS
<1> HIDE DEF S
<1>3. step \in [1 .. BLOCK_BITS -> [BlockMd -> BlockMd]]
  BY <1>2
<1>3a. \A k \in 1 .. BLOCK_BITS, x \in BlockMd : step[k][x] = S(k, x)
  OBVIOUS
<1> HIDE DEF step
<1>4. PICK f \in [0 .. BLOCK_BITS -> BlockMd] : Takes(f, BLOCK_BITS, Full(b), step)
  BY <1>0, <1>1, <1>3, Recursion
<1>4a. f[0] = Full(b) /\ \A k \in 1 .. BLOCK_BITS : f[k] = step[k][f[k - 1]]
  BY <1>4 DEF Takes
<1>5. f = F(f)
  <2>1. ASSUME NEW k \in 0 .. BLOCK_BITS
        PROVE  f[k] = IF k = 0 THEN Full(b) ELSE S(k, f[k - 1])
    <3>1. CASE k = 0
      BY <1>4a, <3>1
    <3>2. CASE k # 0
      <4>1. k \in 1 .. BLOCK_BITS /\ f[k - 1] \in BlockMd
        BY <1>0, <3>2
      <4> QED BY <1>3a, <1>4a, <3>2, <4>1
    <3> QED BY <3>1, <3>2
  <2> QED BY <2>1
<1> HIDE DEF F
<1>6. RefreshScan(b, m) = F(RefreshScan(b, m))
  BY <1>a, <1>5
<1> DEFINE scan == RefreshScan(b, m)
<1>7. /\ scan = [k \in 0 .. BLOCK_BITS |-> IF k = 0 THEN Full(b) ELSE S(k, scan[k - 1])]
  BY <1>6 DEF F
<1> HIDE DEF scan
<1>8. /\ scan[0] = Full(b)
      /\ \A k \in 1 .. BLOCK_BITS : scan[k] = S(k, scan[k - 1])
  <2>1. 0 \in 0 .. BLOCK_BITS /\ \A k \in 1 .. BLOCK_BITS : k \in 0 .. BLOCK_BITS /\ k # 0
    BY <1>0
  <2> QED BY <1>7, <2>1
<1>9. \A k \in 0 .. BLOCK_BITS : scan[k] \in BlockMd
  <2> DEFINE P == {k \in 0 .. BLOCK_BITS : scan[k] \in BlockMd}
  <2>1. 0 \in P
    BY <1>0, <1>1, <1>8
  <2>2. ASSUME NEW k \in 0 .. BLOCK_BITS - 1, k \in P PROVE k + 1 \in P
    <3>1. k + 1 \in 1 .. BLOCK_BITS /\ (k + 1) - 1 = k /\ scan[k] \in BlockMd
          /\ k + 1 \in 0 .. BLOCK_BITS
      BY <1>0, <2>2
    <3>2. scan[k + 1] \in BlockMd
      BY <1>2, <1>8, <3>1
    <3> QED BY <3>1, <3>2
  <2>3. 0 .. BLOCK_BITS \subseteq P
    <3> HIDE DEF P
    <3> QED BY <1>0, <2>1, <2>2, Upwards
  <2> QED BY <2>3
<1>10. scan \in [0 .. BLOCK_BITS -> BlockMd]
  <2>1. scan = [k \in 0 .. BLOCK_BITS |-> scan[k]]
    BY <1>7
  <2> QED BY <1>9, <2>1
<1> QED BY <1>8, <1>10, <1>b DEF scan

\* What a block knows after the runs that begin below k.
ScanKnows(u, m, ff, k) ==
  /\ u \in BlockMd /\ u.first_free = ff /\ HintFits(u, m)
  /\ \A i \in 0 .. k - 1, j \in 0 .. BLOCK_BITS : ZeroRun(m, i, j) => j - i <= u.contig_hint
  /\ IF k = 0 THEN u.left_free = 0 ELSE LeftFits(u, m)
  /\ u.right_free \in 0 .. BLOCK_BITS
  /\ ZeroRun(m, BLOCK_BITS - u.right_free, BLOCK_BITS)
  /\ u.right_free \notin {0, BLOCK_BITS} => BLOCK_BITS - u.right_free - 1 \in m
  /\ \A i \in 0 .. k - 1 : ZeroRun(m, i, BLOCK_BITS) => BLOCK_BITS - i <= u.right_free

\* One step of the scan: a run that begins at k is noted.
LEMMA ScanStep ==
  ASSUME NEW u, NEW m, NEW ff \in 0 .. BLOCK_BITS, \A j \in 0 .. ff - 1 : j \in m,
         NEW k \in 0 .. BLOCK_BITS - 1, ScanKnows(u, m, ff, k)
  PROVE  ScanKnows(IF RunBegins(m, ff, k)
                     THEN pcpu_block_update(u, k, find_next_bit(m, BLOCK_BITS, k + 1))
                     ELSE u, m, ff, k + 1)
<1>0. BLOCK_BITS \in Nat /\ k \in Nat /\ k + 1 \in 0 .. BLOCK_BITS /\ k < BLOCK_BITS
  BY BlockAssumption
<1>1. CASE RunBegins(m, ff, k)
  <2> DEFINE end == find_next_bit(m, BLOCK_BITS, k + 1)
             v == pcpu_block_update(u, k, end)
  <2>0. k \notin m /\ ff <= k /\ (k # 0 => k - 1 \in m)
    BY <1>0, <1>1 DEF RunBegins
  <2>1. /\ end \in 0 .. BLOCK_BITS /\ k < end
        /\ end # BLOCK_BITS => end \in m
        /\ ZeroRun(m, k, end)
    <3>1. /\ end \in 0 .. BLOCK_BITS
          /\ end < BLOCK_BITS => end \in m /\ k + 1 <= end
          /\ \A i \in k + 1 .. BLOCK_BITS - 1 : i < end => i \notin m
          /\ k + 1 <= BLOCK_BITS => k + 1 <= end
      BY <1>0, NextBit
    <3> HIDE DEF end
    <3>2. \A i \in k .. end - 1 : i = k \/ (i \in k + 1 .. BLOCK_BITS - 1 /\ i < end)
      BY <1>0, <3>1
    <3> QED BY <1>0, <2>0, <3>1, <3>2 DEF ZeroRun
  <2>2. u \in BlockMd /\ k \in Int /\ end \in Int
    BY <1>0, <2>1 DEF ScanKnows
  <2> HIDE DEF end
  <2>3. /\ v \in BlockMd
        /\ \/ /\ v.contig_hint = end - k /\ v.contig_hint_start = k
              /\ end - k >= u.contig_hint
           \/ /\ v.contig_hint = u.contig_hint
              /\ v.contig_hint_start = u.contig_hint_start
              /\ end - k <= u.contig_hint
        /\ v.left_free = IF k = 0 THEN end - k ELSE u.left_free
        /\ v.right_free = IF end = BLOCK_BITS THEN end - k ELSE u.right_free
        /\ v.first_free = IF u.first_free <= k THEN u.first_free ELSE k
    BY <2>2, UpdateIs
  <2> HIDE DEF v
  <2>4. v.first_free = ff
    BY <2>0, <2>3 DEF ScanKnows
  <2>5. HintFits(v, m)
    <3>1. CASE v.contig_hint = end - k /\ v.contig_hint_start = k
      <4>1. k + (end - k) = end /\ end - k \in 0 .. BLOCK_BITS /\ k \in 0 .. BLOCK_BITS
        BY <1>0, <2>1
      <4> QED BY <1>0, <2>1, <3>1, <4>1 DEF HintFits
    <3>2. CASE v.contig_hint = u.contig_hint /\ v.contig_hint_start = u.contig_hint_start
      BY <3>2 DEF HintFits, ScanKnows
    <3> QED BY <2>3, <3>1, <3>2
  <2>6. ASSUME NEW i \in 0 .. (k + 1) - 1, NEW j \in 0 .. BLOCK_BITS, ZeroRun(m, i, j)
        PROVE  j - i <= v.contig_hint
    <3>0. /\ u.contig_hint <= v.contig_hint /\ end - k <= v.contig_hint
          /\ u.contig_hint \in Int /\ v.contig_hint \in Int
      BY <2>2, <2>3 DEF BlockMd
    <3>1. CASE i < k
      <4>1. j - i <= u.contig_hint
        BY <1>0, <2>6, <3>1 DEF ScanKnows
      <4> QED BY <3>0, <4>1, <1>0
    <3>2. CASE i = k
      <4>1. j <= end
        <5> SUFFICES ASSUME end < j PROVE FALSE
          BY <2>1, <1>0
        <5>1. end \in m /\ end \in i .. j - 1
          BY <1>0, <2>1, <3>2
        <5> QED BY <5>1, <2>6 DEF ZeroRun
      <4> QED BY <1>0, <2>1, <3>0, <3>2, <4>1
    <3> QED BY <1>0, <3>1, <3>2
  <2>7. LeftFits(v, m)
    <3>1. CASE k = 0
      <4>1. v.left_free = end
        BY <2>1, <2>3, <3>1, <1>0
      <4> QED BY <1>0, <2>1, <3>1, <4>1 DEF LeftFits
    <3>2. CASE k # 0
      BY <2>3, <3>2 DEF LeftFits, ScanKnows
    <3> QED BY <3>1, <3>2
  <2>8. /\ v.right_free \in 0 .. BLOCK_BITS
        /\ ZeroRun(m, BLOCK_BITS - v.right_free, BLOCK_BITS)
        /\ v.right_free \notin {0, BLOCK_BITS} => BLOCK_BITS - v.right_free - 1 \in m
        /\ \A i \in 0 .. (k + 1) - 1 :
             ZeroRun(m, i, BLOCK_BITS) => BLOCK_BITS - i <= v.right_free
    <3>1. CASE end = BLOCK_BITS
      <4>1. v.right_free = BLOCK_BITS - k /\ BLOCK_BITS - (BLOCK_BITS - k) = k
            /\ BLOCK_BITS - k \in 0 .. BLOCK_BITS
        BY <1>0, <2>3, <3>1
      <4>2. v.right_free \notin {0, BLOCK_BITS} => k # 0
        BY <1>0, <4>1
      <4>3. ASSUME NEW i \in 0 .. (k + 1) - 1, ZeroRun(m, i, BLOCK_BITS)
            PROVE  BLOCK_BITS - i <= v.right_free
        <5>1. i = k
          <6> SUFFICES ASSUME i < k PROVE FALSE
            BY <1>0
          <6>1. k - 1 \in m /\ k - 1 \in i .. BLOCK_BITS - 1
            BY <1>0, <2>0
          <6> QED BY <4>3, <6>1 DEF ZeroRun
        <5> QED BY <1>0, <4>1, <5>1
      <4> QED BY <2>0, <2>1, <3>1, <4>1, <4>2, <4>3
    <3>2. CASE end # BLOCK_BITS
      <4>1. v.right_free = u.right_free
        BY <2>3, <3>2
      <4>2. ~ZeroRun(m, k, BLOCK_BITS)
        <5>1. end \in m /\ end \in k .. BLOCK_BITS - 1
          BY <1>0, <2>1, <3>2
        <5> QED BY <5>1 DEF ZeroRun
      <4>3. \A i \in 0 .. (k + 1) - 1 : i = k \/ i \in 0 .. k - 1
        BY <1>0
      <4> QED BY <4>1, <4>2, <4>3 DEF ScanKnows
    <3> QED BY <3>1, <3>2
  <2>9. ScanKnows(v, m, ff, k + 1)
    <3>1. k + 1 # 0
      BY <1>0
    <3> QED BY <2>3, <2>4, <2>5, <2>6, <2>7, <2>8, <3>1 DEF ScanKnows
  <2> QED BY <1>1, <2>9 DEF v, end
<1>2. CASE ~RunBegins(m, ff, k)
  <2>1. k \notin m => k # 0 /\ k - 1 \notin m
    BY <1>0, <1>2 DEF RunBegins
  <2>2. ASSUME NEW j \in 0 .. BLOCK_BITS, ZeroRun(m, k, j), k < j
        PROVE  k # 0 /\ ZeroRun(m, k - 1, j)
    <3>1. k \notin m
      <4>1. k \in k .. j - 1
        BY <1>0, <2>2
      <4> QED BY <2>2, <4>1 DEF ZeroRun
    <3>2. \A i \in k - 1 .. j - 1 : i = k - 1 \/ i \in k .. j - 1
      BY <1>0
    <3> QED BY <2>1, <2>2, <3>1, <3>2 DEF ZeroRun
  <2>3. ASSUME NEW i \in 0 .. (k + 1) - 1, NEW j \in 0 .. BLOCK_BITS, ZeroRun(m, i, j)
        PROVE  j - i <= u.contig_hint
    <3>0. u.contig_hint \in 0 .. BLOCK_BITS
      BY DEF ScanKnows, HintFits
    <3>1. CASE i < k
      BY <1>0, <2>3, <3>1 DEF ScanKnows
    <3>2. CASE i = k /\ j <= k
      BY <1>0, <3>0, <3>2
    <3>3. CASE i = k /\ k < j
      <4>1. k # 0 /\ ZeroRun(m, k - 1, j)
        BY <2>2, <2>3, <3>3
      <4>2. j - (k - 1) <= u.contig_hint
        BY <1>0, <4>1 DEF ScanKnows
      <4> QED BY <1>0, <3>0, <3>3, <4>2
    <3> QED BY <1>0, <3>1, <3>2, <3>3
  <2>4. LeftFits(u, m)
    <3>1. CASE k = 0
      <4>1. 0 \in m /\ u.left_free = 0
        BY <2>1, <3>1 DEF ScanKnows
      <4> QED BY <1>0, <4>1 DEF LeftFits, ZeroRun
    <3>2. CASE k # 0
      BY <3>2 DEF ScanKnows
    <3> QED BY <3>1, <3>2
  <2>5. ASSUME NEW i \in 0 .. (k + 1) - 1, ZeroRun(m, i, BLOCK_BITS)
        PROVE  BLOCK_BITS - i <= u.right_free
    <3>0. u.right_free \in 0 .. BLOCK_BITS
      BY DEF ScanKnows
    <3>1. CASE i < k
      BY <1>0, <2>5, <3>1 DEF ScanKnows
    <3>2. CASE i = k
      <4>1. k # 0 /\ ZeroRun(m, k - 1, BLOCK_BITS)
        BY <1>0, <2>2, <2>5, <3>2
      <4>2. BLOCK_BITS - (k - 1) <= u.right_free
        BY <1>0, <4>1 DEF ScanKnows
      <4> QED BY <1>0, <3>0, <3>2, <4>2
    <3> QED BY <1>0, <3>1, <3>2
  <2>6. ScanKnows(u, m, ff, k + 1)
    <3>1. k + 1 # 0
      BY <1>0
    <3> QED BY <2>3, <2>4, <2>5, <3>1 DEF ScanKnows
  <2> QED BY <1>2, <2>6
<1> QED BY <1>1, <1>2

\* pcpu_block_refresh_hint makes a block fit that knows where to begin.
LEMMA RefreshFits ==
  ASSUME NEW b \in BlockMd, NEW m, FirstFits(b, m), b.contig_hint_start \in 0 .. BLOCK_BITS
  PROVE  BlockFits(pcpu_block_refresh_hint(b, m), m)
<1> DEFINE scan == RefreshScan(b, m)
           ff == b.first_free
           P == {k \in 0 .. BLOCK_BITS : ScanKnows(scan[k], m, ff, k)}
<1>0. BLOCK_BITS \in Nat
  BY BlockAssumption
<1>1. /\ scan \in [0 .. BLOCK_BITS -> BlockMd]
      /\ scan[0] = Full(b)
      /\ \A k \in 1 .. BLOCK_BITS :
           scan[k] = IF RunBegins(m, ff, k - 1)
                       THEN pcpu_block_update(scan[k - 1], k - 1,
                                              find_next_bit(m, BLOCK_BITS, k))
                       ELSE scan[k - 1]
  BY ScanIs
<1> HIDE DEF scan
<1>2. 0 \in P
  <2>1. ScanKnows(Full(b), m, ff, 0)
    <3>1. /\ Full(b) \in BlockMd
          /\ Full(b).contig_hint = 0 /\ Full(b).left_free = 0 /\ Full(b).right_free = 0
          /\ Full(b).contig_hint_start = b.contig_hint_start
          /\ Full(b).first_free = b.first_free
      BY FullIs
    <3>2. HintFits(Full(b), m)
      BY <1>0, <3>1 DEF HintFits, ZeroRun
    <3>3. \A i \in 0 .. 0 - 1 : FALSE
      OBVIOUS
    <3>4. ZeroRun(m, BLOCK_BITS - 0, BLOCK_BITS)
      BY <1>0 DEF ZeroRun
    <3> QED BY <1>0, <3>1, <3>2, <3>3, <3>4 DEF ScanKnows
  <2> QED BY <1>0, <1>1, <2>1
<1>3. ASSUME NEW k \in 0 .. BLOCK_BITS - 1, k \in P PROVE k + 1 \in P
  <2>1. k + 1 \in 1 .. BLOCK_BITS /\ (k + 1) - 1 = k /\ k + 1 \in 0 .. BLOCK_BITS
    BY <1>0
  <2>2. scan[k + 1] = IF RunBegins(m, ff, k)
                        THEN pcpu_block_update(scan[k], k, find_next_bit(m, BLOCK_BITS, k + 1))
                        ELSE scan[k]
    BY <1>1, <2>1
  <2>3. ScanKnows(scan[k], m, ff, k)
    BY <1>3
  <2>4. ff \in 0 .. BLOCK_BITS /\ \A j \in 0 .. ff - 1 : j \in m
    BY DEF FirstFits
  <2>5. ScanKnows(scan[k + 1], m, ff, k + 1)
    BY <2>2, <2>3, <2>4, ScanStep
  <2> QED BY <2>1, <2>5
<1>4. ScanKnows(scan[BLOCK_BITS], m, ff, BLOCK_BITS)
  <2>1. 0 .. BLOCK_BITS \subseteq P
    <3> HIDE DEF P
    <3> QED BY <1>0, <1>2, <1>3, Upwards
  <2> QED BY <1>0, <2>1
<1> DEFINE u == scan[BLOCK_BITS]
<1> HIDE DEF P, u
<1>5. ScanKnows(u, m, ff, BLOCK_BITS)
  BY <1>4 DEF u
<1>6. u \in BlockMd /\ HintFits(u, m) /\ FirstFits(u, m) /\ LeftFits(u, m)
  <2>1. BLOCK_BITS # 0
    BY BlockAssumption
  <2> QED BY <1>5, <2>1 DEF ScanKnows, FirstFits
<1>7. LongestFits(u, m)
  <2> SUFFICES ASSUME NEW i \in 0 .. BLOCK_BITS, NEW j \in 0 .. BLOCK_BITS, ZeroRun(m, i, j)
               PROVE  j - i <= u.contig_hint
    BY DEF LongestFits
  <2>1. CASE i < BLOCK_BITS
    <3>1. i \in 0 .. BLOCK_BITS - 1
      BY <1>0, <2>1
    <3> QED BY <1>5, <3>1 DEF ScanKnows
  <2>2. CASE i = BLOCK_BITS
    BY <1>0, <1>6, <2>2 DEF HintFits
  <2> QED BY <1>0, <2>1, <2>2
<1>8. RightFits(u, m)
  <2>1. u.right_free = 0 => BLOCK_BITS - 1 \in m
    <3> SUFFICES ASSUME u.right_free = 0, BLOCK_BITS - 1 \notin m PROVE FALSE
      OBVIOUS
    <3>1. BLOCK_BITS - 1 \in 0 .. BLOCK_BITS - 1 /\ ~(BLOCK_BITS - (BLOCK_BITS - 1) <= 0)
      BY BlockAssumption
    <3>2. ZeroRun(m, BLOCK_BITS - 1, BLOCK_BITS)
      BY <1>0 DEF ZeroRun
    <3> QED BY <1>5, <3>1, <3>2 DEF ScanKnows
  <2>2. /\ u.right_free \in 0 .. BLOCK_BITS
        /\ ZeroRun(m, BLOCK_BITS - u.right_free, BLOCK_BITS)
        /\ u.right_free \notin {0, BLOCK_BITS} => BLOCK_BITS - u.right_free - 1 \in m
    BY <1>5 DEF ScanKnows
  <2>3. u.right_free < BLOCK_BITS => BLOCK_BITS - u.right_free - 1 \in m
    BY <1>0, <2>1, <2>2
  <2> QED BY <2>2, <2>3 DEF RightFits
<1> QED BY <1>6, <1>7, <1>8 DEF BlockFits, u, scan, pcpu_block_refresh_hint

-----------------------------------------------------------------------------
(***************************************************************************)
(* Bits of the chunk and bits of its blocks.                               *)
(***************************************************************************)
\* The numbers of the blocks.
BlockNr == 0 .. NrBlocks - 1

\* Blocks lie one behind the other.
LEMMA Bases ==
  /\ BLOCK_BITS \in Nat /\ NrBlocks \in Nat /\ BLOCK_BITS > 0 /\ NrBlocks > 0
  /\ map_bits \in Nat /\ map_bits = NrBlocks * BLOCK_BITS
  /\ \A i, j \in Int : i < j => i * BLOCK_BITS + BLOCK_BITS <= j * BLOCK_BITS
  /\ \A i \in Int : i * BLOCK_BITS \in Int /\ (i + 1) * BLOCK_BITS = i * BLOCK_BITS + BLOCK_BITS
  /\ \A i \in Nat : i * BLOCK_BITS \in Nat
<1>1. BLOCK_BITS \in Nat /\ NrBlocks \in Nat /\ BLOCK_BITS > 0 /\ NrBlocks > 0
  BY BlockAssumption
<1>2. map_bits \in Nat /\ map_bits = NrBlocks * BLOCK_BITS
  BY <1>1 DEF map_bits
<1>3. ASSUME NEW i \in Int, NEW j \in Int, i < j
      PROVE  i * BLOCK_BITS + BLOCK_BITS <= j * BLOCK_BITS
  BY <1>1, <1>3
<1>4. \A i \in Int : i * BLOCK_BITS \in Int /\ (i + 1) * BLOCK_BITS = i * BLOCK_BITS + BLOCK_BITS
  BY <1>1
<1>5. \A i \in Nat : i * BLOCK_BITS \in Nat
  BY <1>1
<1> QED BY <1>1, <1>2, <1>3, <1>4, <1>5

\* A position is a block and a position in it.
LEMMA Split ==
  ASSUME NEW off \in Nat
  PROVE  /\ Index(off) \in Nat /\ Off(off) \in 0 .. BLOCK_BITS - 1
         /\ off = Index(off) * BLOCK_BITS + Off(off)
BY BlockAssumption DEF Index, Off

\* An offset is where its block begins plus the offset in it.
LEMMA Unsplit ==
  ASSUME NEW i \in Nat, NEW k \in 0 .. BLOCK_BITS - 1
  PROVE  Index(i * BLOCK_BITS + k) = i /\ Off(i * BLOCK_BITS + k) = k
<1> DEFINE off == i * BLOCK_BITS + k
<1>1. off \in Nat /\ off = i * BLOCK_BITS + k
  BY Bases
<1> HIDE DEF off
<1>2. /\ Index(off) \in Nat /\ Off(off) \in 0 .. BLOCK_BITS - 1
      /\ off = Index(off) * BLOCK_BITS + Off(off)
  BY <1>1, Split
<1>3. Index(off) = i
  <2>1. ~(Index(off) < i)
    BY <1>1, <1>2, Bases
  <2>2. ~(i < Index(off))
    BY <1>1, <1>2, Bases
  <2> QED BY <1>2, <2>1, <2>2
<1> QED BY <1>1, <1>2, <1>3, Bases DEF off

\* A bit of a block is a bit of the map.
LEMMA InMap ==
  ASSUME NEW off \in Nat
  PROVE  off < map_bits <=> Index(off) < NrBlocks
<1>1. /\ Index(off) \in Nat /\ Off(off) \in 0 .. BLOCK_BITS - 1
      /\ off = Index(off) * BLOCK_BITS + Off(off)
  BY Split
<1>2. CASE Index(off) < NrBlocks
  BY <1>1, <1>2, Bases
<1>3. CASE NrBlocks <= Index(off)
  <2>1. NrBlocks * BLOCK_BITS <= Index(off) * BLOCK_BITS
    BY <1>1, <1>3, Bases
  <2> QED BY <1>1, <1>3, <2>1, Bases
<1> QED BY <1>1, <1>2, <1>3, Bases

\* The part of an area that lies in a block.
Lo(off, i) == IF i = Index(off) THEN Off(off) ELSE 0
Hi(last, i) == IF i = Index(last) THEN Off(last) + 1 ELSE BLOCK_BITS

\* An area that spans blocks, block by block.
LEMMA AreaInBlocks ==
  ASSUME NEW off \in Nat, NEW n \in Nat \ {0}, NEW i \in Nat
  PROVE  LET last == off + n - 1
         IN  /\ last \in Nat /\ Index(off) <= Index(last)
             /\ Index(off) = Index(last) => Off(off) + n = Off(last) + 1
             /\ Index(off) < Index(last) => Off(off) + n > BLOCK_BITS
             /\ Index(off) <= i /\ i <= Index(last) =>
                  /\ BlockMap(off .. last, i) = Lo(off, i) .. Hi(last, i) - 1
                  /\ Lo(off, i) \in 0 .. BLOCK_BITS /\ Hi(last, i) \in 0 .. BLOCK_BITS
                  /\ Lo(off, i) < Hi(last, i)
             /\ i < Index(off) \/ Index(last) < i => BlockMap(off .. last, i) = {}
<1> DEFINE last == off + n - 1
           s == Index(off)
           e == Index(last)
           p == Off(off)
           q == Off(last) + 1
<1>0. last \in Nat /\ off <= last /\ last + 1 = off + n
  OBVIOUS
<1>1. s \in Nat /\ p \in 0 .. BLOCK_BITS - 1 /\ off = s * BLOCK_BITS + p
  BY Split
<1> HIDE DEF last
<1>2. e \in Nat /\ q \in 1 .. BLOCK_BITS /\ last = e * BLOCK_BITS + q - 1
  <2>1. e \in Nat /\ Off(last) \in 0 .. BLOCK_BITS - 1
        /\ last = e * BLOCK_BITS + Off(last)
    BY <1>0, Split
  <2> QED BY <2>1, Bases
<1>a. p = Off(off) /\ q = Off(last) + 1 /\ s = Index(off) /\ e = Index(last)
  OBVIOUS
<1> HIDE DEF s, e, p, q
<1>3. s <= e
  <2> SUFFICES ASSUME e < s PROVE FALSE
    BY <1>1, <1>2
  <2> QED BY <1>0, <1>1, <1>2, Bases
<1>4. s = e => p + n = q
  BY <1>0, <1>1, <1>2, Bases
<1>5. s < e => p + n > BLOCK_BITS
  <2> SUFFICES ASSUME s < e PROVE p + n > BLOCK_BITS
    OBVIOUS
  <2>1. s * BLOCK_BITS + BLOCK_BITS <= e * BLOCK_BITS
    BY <1>1, <1>2, Bases
  <2> QED BY <1>0, <1>1, <1>2, <2>1, Bases
<1>b. i * BLOCK_BITS \in Nat /\ s * BLOCK_BITS \in Nat /\ e * BLOCK_BITS \in Nat
      /\ BLOCK_BITS \in Nat
  BY <1>1, <1>2, Bases
<1>6. ASSUME s <= i, i <= e
      PROVE  /\ BlockMap(off .. last, i) = Lo(off, i) .. Hi(last, i) - 1
             /\ Lo(off, i) \in 0 .. BLOCK_BITS /\ Hi(last, i) \in 0 .. BLOCK_BITS
             /\ Lo(off, i) < Hi(last, i)
  <2>1. Lo(off, i) = IF i = s THEN p ELSE 0
    BY <1>a DEF Lo
  <2>2. Hi(last, i) = IF i = e THEN q ELSE BLOCK_BITS
    BY <1>a DEF Hi
  <2>3. Lo(off, i) \in 0 .. BLOCK_BITS /\ Hi(last, i) \in 0 .. BLOCK_BITS
        /\ Lo(off, i) < Hi(last, i)
    <3>1. s = e => p < q
      BY <1>1, <1>2, <1>4
    <3> QED BY <1>1, <1>2, <1>b, <1>6, <2>1, <2>2, <3>1
  <2>4. i # s => s * BLOCK_BITS + BLOCK_BITS <= i * BLOCK_BITS
    BY <1>1, <1>6, Bases
  <2>5. i # e => i * BLOCK_BITS + BLOCK_BITS <= e * BLOCK_BITS
    BY <1>2, <1>6, Bases
  <2>6. ASSUME NEW k \in 0 .. BLOCK_BITS - 1
        PROVE  i * BLOCK_BITS + k \in off .. last <=> Lo(off, i) <= k /\ k < Hi(last, i)
    <3>1. i * BLOCK_BITS + k >= off <=> Lo(off, i) <= k
      <4>1. CASE i = s
        BY <1>1, <1>b, <2>1, <4>1
      <4>2. CASE i # s
        BY <1>1, <1>b, <2>1, <2>4, <4>2
      <4> QED BY <4>1, <4>2
    <3>2. i * BLOCK_BITS + k <= last <=> k < Hi(last, i)
      <4>1. CASE i = e
        BY <1>2, <1>b, <2>2, <4>1
      <4>2. CASE i # e
        BY <1>2, <1>b, <2>2, <2>5, <4>2
      <4> QED BY <4>1, <4>2
    <3> QED BY <1>0, <1>b, <3>1, <3>2
  <2>7. BlockMap(off .. last, i) = {k \in 0 .. BLOCK_BITS - 1 : Lo(off, i) <= k /\ k < Hi(last, i)}
    BY <2>6 DEF BlockMap
  <2>8. \A lo, hi \in 0 .. BLOCK_BITS :
          {k \in 0 .. BLOCK_BITS - 1 : lo <= k /\ k < hi} = lo .. hi - 1
    BY <1>b
  <2> QED BY <2>3, <2>7, <2>8
<1>7. ASSUME i < s \/ e < i PROVE BlockMap(off .. last, i) = {}
  <2> SUFFICES ASSUME NEW k \in 0 .. BLOCK_BITS - 1, i * BLOCK_BITS + k \in off .. last
               PROVE  FALSE
    BY DEF BlockMap
  <2>1. CASE i < s
    <3>1. i * BLOCK_BITS + BLOCK_BITS <= s * BLOCK_BITS
      BY <1>1, <2>1, Bases
    <3> QED BY <1>1, <1>b, <3>1
  <2>2. CASE e < i
    <3>1. e * BLOCK_BITS + BLOCK_BITS <= i * BLOCK_BITS
      BY <1>2, <2>2, Bases
    <3> QED BY <1>2, <1>b, <3>1
  <2> QED BY <1>7, <2>1, <2>2
<1> QED BY <1>0, <1>a, <1>3, <1>4, <1>5, <1>6, <1>7 DEF last

\* Which bits a block has.
LEMMA BlockMapIs ==
  ASSUME NEW A, NEW B, NEW i
  PROVE  /\ BlockMap(A, i) \subseteq 0 .. BLOCK_BITS - 1
         /\ BlockMap(A \cup B, i) = BlockMap(A, i) \cup BlockMap(B, i)
         /\ BlockMap(A \ B, i) = BlockMap(A, i) \ BlockMap(B, i)
         /\ A \cap B = {} => BlockMap(A, i) \cap BlockMap(B, i) = {}
         /\ A \subseteq B => BlockMap(A, i) \subseteq BlockMap(B, i)
BY DEF BlockMap

-----------------------------------------------------------------------------
(***************************************************************************)
(* pcpu_block_update_hint_alloc, block by block and for all blocks.        *)
(***************************************************************************)
\* The metadata of every block agrees with the bitmap.
AllFit(md, map) ==
  /\ md \in [BlockNr -> BlockMd]
  /\ \A i \in BlockNr : BlockFits(md[i], BlockMap(map, i))

\* The block an allocation begins in, with the bits from p up to q set in M.
FirstMoved(b, M, p, o) ==
  IF p = b.first_free
    THEN [b EXCEPT !.first_free = find_next_zero_bit(M, BLOCK_BITS, o)] ELSE b
TakenFrom(sb, M, p, q) ==
  IF p >= sb.contig_hint_start /\ p < sb.contig_hint_start + sb.contig_hint
    THEN pcpu_block_refresh_hint(sb, M)
    ELSE [sb EXCEPT !.left_free = Min({@, p}), !.right_free = Min({@, BLOCK_BITS - q})]

\* The block an allocation begins in fits afterwards.
LEMMA AllocFirst ==
  ASSUME NEW b, NEW m, BlockFits(b, m), NEW p \in 0 .. BLOCK_BITS, NEW q \in 0 .. BLOCK_BITS,
         p < q, ZeroRun(m, p, q), NEW o \in Nat, q = BLOCK_BITS => o >= q,
         q # BLOCK_BITS => o = q
  PROVE  BlockFits(TakenFrom(FirstMoved(b, m \cup (p .. q - 1), p, o),
                             m \cup (p .. q - 1), p, q),
                   m \cup (p .. q - 1))
<1> DEFINE M == m \cup (p .. q - 1)
           z == find_next_zero_bit(M, BLOCK_BITS, o)
           sb == FirstMoved(b, M, p, o)
           u == TakenFrom(sb, M, p, q)
<1>0. BLOCK_BITS \in Nat /\ b \in BlockMd
  BY BlockAssumption DEF BlockFits
<1>1. z \in 0 .. BLOCK_BITS /\ \A k \in o .. BLOCK_BITS - 1 : k < z => k \in M
  BY <1>0, NextZeroBit
<1>a. sb = IF p = b.first_free THEN [b EXCEPT !.first_free = z] ELSE b
  BY DEF FirstMoved
<1>b. m \subseteq M /\ p .. q - 1 \subseteq M
  OBVIOUS
<1> HIDE DEF M, z, sb
<1>2. /\ sb \in BlockMd
      /\ sb.contig_hint = b.contig_hint /\ sb.contig_hint_start = b.contig_hint_start
      /\ sb.left_free = b.left_free /\ sb.right_free = b.right_free
      /\ sb.first_free = IF p = b.first_free THEN z ELSE b.first_free
  BY <1>0, <1>1, <1>a DEF BlockMd
<1>3. FirstFits(sb, M)
  <2>1. FirstFits(b, m)
    BY DEF BlockFits
  <2>2. CASE p = b.first_free
    <3>1. ASSUME NEW k \in 0 .. z - 1 PROVE k \in M
      <4>1. k \in 0 .. b.first_free - 1 \/ k \in p .. q - 1 \/ (k \in o .. BLOCK_BITS - 1 /\ k < z)
        BY <1>0, <1>1, <2>2
      <4> QED BY <1>1, <1>b, <2>1, <4>1 DEF FirstFits
    <3> QED BY <1>1, <1>2, <2>2, <3>1 DEF FirstFits
  <2>3. CASE p # b.first_free
    BY <1>2, <1>b, <2>1, <2>3 DEF FirstFits
  <2> QED BY <2>2, <2>3
<1>4. CASE p >= sb.contig_hint_start /\ p < sb.contig_hint_start + sb.contig_hint
  <2>1. u = pcpu_block_refresh_hint(sb, M)
    BY <1>4 DEF TakenFrom
  <2>2. sb.contig_hint_start \in 0 .. BLOCK_BITS
    BY <1>2 DEF BlockFits, HintFits
  <2>3. BlockFits(u, M)
    BY <1>2, <1>3, <2>1, <2>2, RefreshFits
  <2> QED BY <2>3 DEF M, sb
<1>5. CASE ~(p >= sb.contig_hint_start /\ p < sb.contig_hint_start + sb.contig_hint)
  <2>1. u = [sb EXCEPT !.left_free = Min({sb.left_free, p}),
                       !.right_free = Min({sb.right_free, BLOCK_BITS - q})]
    BY <1>5, <1>2 DEF BlockMd, TakenFrom
  <2> HIDE DEF u
  <2>2. b.left_free \in Int /\ b.right_free \in Int /\ BLOCK_BITS - q \in Int /\ p \in Int
        /\ b.contig_hint_start \in Int /\ b.contig_hint \in Int
    BY <1>0 DEF BlockMd
  <2>3. /\ Min({b.left_free, p}) = IF b.left_free <= p THEN b.left_free ELSE p
        /\ Min({b.right_free, BLOCK_BITS - q})
             = IF b.right_free <= BLOCK_BITS - q THEN b.right_free ELSE BLOCK_BITS - q
    BY <2>2, OfTwo
  <2>4. /\ u \in BlockMd
        /\ u.contig_hint = b.contig_hint /\ u.contig_hint_start = b.contig_hint_start
        /\ u.left_free = IF b.left_free <= p THEN b.left_free ELSE p
        /\ u.right_free = IF b.right_free <= BLOCK_BITS - q THEN b.right_free ELSE BLOCK_BITS - q
        /\ u.first_free = sb.first_free
    BY <1>2, <2>1, <2>2, <2>3 DEF BlockMd
  <2>5. FirstFits(u, M)
    BY <1>3, <2>4 DEF FirstFits
  <2>6. p < b.contig_hint_start \/ b.contig_hint_start + b.contig_hint <= p
    BY <1>2, <1>5, <2>2
  <2>7. BlockFits(u, M)
    BY <2>4, <2>5, <2>6, TakeFits DEF M
  <2> QED BY <2>7 DEF M, sb, u
<1> QED BY <1>4, <1>5

\* A block all of which is taken.
LEMMA FullFits ==
  ASSUME NEW b \in BlockMd, NEW M, \A k \in 0 .. BLOCK_BITS - 1 : k \in M,
         b.contig_hint_start \in 0 .. BLOCK_BITS, FirstFits(b, M)
  PROVE  BlockFits(Full(b), M)
<1> DEFINE u == Full(b)
<1>0. BLOCK_BITS \in Nat /\ 0 < BLOCK_BITS
  BY BlockAssumption
<1>1. /\ u \in BlockMd /\ u.contig_hint = 0 /\ u.left_free = 0 /\ u.right_free = 0
      /\ u.contig_hint_start = b.contig_hint_start /\ u.first_free = b.first_free
  BY FullIs
<1> HIDE DEF u
<1>2. HintFits(u, M)
  BY <1>0, <1>1 DEF HintFits, ZeroRun
<1>3. LongestFits(u, M)
  <2> SUFFICES ASSUME NEW i \in 0 .. BLOCK_BITS, NEW j \in 0 .. BLOCK_BITS,
                      ZeroRun(M, i, j), i < j
               PROVE  FALSE
    BY <1>0, <1>1 DEF LongestFits
  <2>1. i \in 0 .. BLOCK_BITS - 1 /\ i \in i .. j - 1
    BY <1>0
  <2> QED BY <2>1 DEF ZeroRun
<1>4. LeftFits(u, M)
  BY <1>0, <1>1 DEF LeftFits, ZeroRun
<1>5. RightFits(u, M)
  <2>1. BLOCK_BITS - 0 - 1 \in 0 .. BLOCK_BITS - 1 /\ BLOCK_BITS - 0 = BLOCK_BITS
    BY <1>0
  <2> QED BY <1>0, <1>1, <2>1 DEF RightFits, ZeroRun
<1>6. FirstFits(u, M)
  BY <1>0, <1>1 DEF FirstFits
<1> QED BY <1>1, <1>2, <1>3, <1>4, <1>5, <1>6 DEF BlockFits, u

\* The block an allocation that began before ends in.
EndMoved(b, M, q) == [b EXCEPT !.first_free = find_next_zero_bit(M, BLOCK_BITS, q)]
TakenUpTo(eb, M, q) ==
  IF q = BLOCK_BITS THEN Full(eb)
  ELSE IF q > eb.contig_hint_start THEN pcpu_block_refresh_hint(eb, M)
  ELSE [eb EXCEPT !.left_free = 0, !.right_free = Min({@, BLOCK_BITS - q})]

\* The block an allocation that spans blocks ends in fits afterwards.
LEMMA AllocLast ==
  ASSUME NEW b, NEW m, BlockFits(b, m), NEW q \in 0 .. BLOCK_BITS, 0 < q, ZeroRun(m, 0, q),
         m \subseteq 0 .. BLOCK_BITS - 1
  PROVE  BlockFits(TakenUpTo(EndMoved(b, m \cup (0 .. q - 1), q), m \cup (0 .. q - 1), q),
                   m \cup (0 .. q - 1))
<1> DEFINE M == m \cup (0 .. q - 1)
           z == find_next_zero_bit(M, BLOCK_BITS, q)
           eb == EndMoved(b, M, q)
           u == TakenUpTo(eb, M, q)
<1>0. BLOCK_BITS \in Nat /\ b \in BlockMd /\ 0 < BLOCK_BITS /\ q \in Nat
  BY BlockAssumption DEF BlockFits
<1>1. z \in 0 .. BLOCK_BITS /\ \A k \in q .. BLOCK_BITS - 1 : k < z => k \in M
  BY <1>0, NextZeroBit
<1>a. eb = [b EXCEPT !.first_free = z]
  BY DEF EndMoved
<1>b. m \subseteq M /\ 0 .. q - 1 \subseteq M
  OBVIOUS
<1> HIDE DEF M, z, eb
<1>2. /\ eb \in BlockMd
      /\ eb.contig_hint = b.contig_hint /\ eb.contig_hint_start = b.contig_hint_start
      /\ eb.left_free = b.left_free /\ eb.right_free = b.right_free
      /\ eb.first_free = z
  BY <1>0, <1>1, <1>a DEF BlockMd
<1>3. FirstFits(eb, M)
  <2>1. ASSUME NEW k \in 0 .. z - 1 PROVE k \in M
    <3>1. k \in 0 .. q - 1 \/ (k \in q .. BLOCK_BITS - 1 /\ k < z)
      BY <1>0, <1>1
    <3> QED BY <1>1, <1>b, <3>1
  <2> QED BY <1>1, <1>2, <2>1 DEF FirstFits
<1>4. eb.contig_hint_start \in 0 .. BLOCK_BITS
  BY <1>2 DEF BlockFits, HintFits
<1>5. CASE q = BLOCK_BITS
  <2>1. u = Full(eb)
    BY <1>5 DEF TakenUpTo
  <2> HIDE DEF u
  <2>2. \A k \in 0 .. BLOCK_BITS - 1 : k \in M
    BY <1>b, <1>5
  <2>3. BlockFits(u, M)
    BY <1>2, <1>3, <1>4, <2>1, <2>2, FullFits
  <2> QED BY <2>3 DEF M, eb, u
<1>6. CASE q # BLOCK_BITS /\ q > eb.contig_hint_start
  <2>1. u = pcpu_block_refresh_hint(eb, M)
    BY <1>6 DEF TakenUpTo
  <2> HIDE DEF u
  <2>2. BlockFits(u, M)
    BY <1>2, <1>3, <1>4, <2>1, RefreshFits
  <2> QED BY <2>2 DEF M, eb, u
<1>7. CASE q # BLOCK_BITS /\ ~(q > eb.contig_hint_start)
  <2>1. u = [eb EXCEPT !.left_free = 0, !.right_free = Min({eb.right_free, BLOCK_BITS - q})]
    BY <1>7, <1>2 DEF BlockMd, TakenUpTo
  <2> HIDE DEF u
  <2>2. b.left_free \in Int /\ b.right_free \in Int /\ BLOCK_BITS - q \in Int
        /\ b.contig_hint_start \in Int /\ b.contig_hint \in Int /\ 0 \in Int
    BY <1>0 DEF BlockMd
  <2>3. Min({b.right_free, BLOCK_BITS - q})
          = IF b.right_free <= BLOCK_BITS - q THEN b.right_free ELSE BLOCK_BITS - q
    BY <2>2, OfTwo
  <2>4. /\ u \in BlockMd
        /\ u.contig_hint = b.contig_hint /\ u.contig_hint_start = b.contig_hint_start
        /\ u.left_free = 0
        /\ u.right_free = IF b.right_free <= BLOCK_BITS - q THEN b.right_free ELSE BLOCK_BITS - q
        /\ u.first_free = eb.first_free
    BY <1>2, <2>1, <2>2, <2>3 DEF BlockMd
  <2>5. FirstFits(u, M)
    BY <1>3, <2>4 DEF FirstFits
  <2>6. 0 < b.contig_hint_start
    BY <1>2, <1>7, <2>2
  <2>7. 0 = IF b.left_free <= 0 THEN b.left_free ELSE 0
    BY <1>0 DEF BlockFits, LeftFits
  <2>8. 0 \in 0 .. BLOCK_BITS
    BY <1>0
  <2>9. BlockFits(u, M)
    BY <2>4, <2>5, <2>6, <2>7, <2>8, TakeFits DEF M
  <2> QED BY <2>9 DEF M, eb, u
<1> QED BY <1>5, <1>6, <1>7

\* pcpu_block_update_hint_alloc keeps the metadata in agreement.
LEMMA AllocFits ==
  ASSUME NEW md, NEW old, AllFit(md, old), NEW off \in Nat, NEW n \in Nat \ {0},
         off + n <= map_bits, (off .. off + n - 1) \cap old = {},
         NEW map, map = old \cup (off .. off + n - 1)
  PROVE  AllFit(BlocksAfterAlloc(md, map, off, n), map)
<1> DEFINE last == off + n - 1
           s == Index(off)
           e == Index(last)
           p == Off(off)
           q == Off(last) + 1
           new == BlocksAfterAlloc(md, map, off, n)
           Old(i) == BlockMap(old, i)
           sb == FirstMoved(md[s], BlockMap(map, s), p, p + n)
           eb == EndMoved(md[e], BlockMap(map, e), q)
           hi == IF s = e THEN q ELSE BLOCK_BITS
           B(i) == IF i = s
                     THEN IF p >= sb.contig_hint_start
                             /\ p < sb.contig_hint_start + sb.contig_hint
                       THEN pcpu_block_refresh_hint(sb, BlockMap(map, s))
                       ELSE [sb EXCEPT !.left_free = Min({@, p}),
                                       !.right_free = IF s = e THEN Min({@, BLOCK_BITS - q})
                                                               ELSE 0]
                   ELSE IF s < i /\ i < e THEN Full(md[i])
                   ELSE IF s < i /\ i = e THEN TakenUpTo(eb, BlockMap(map, e), q)
                   ELSE md[i]
<1>0. BLOCK_BITS \in Nat /\ BLOCK_BITS > 0 /\ NrBlocks \in Nat /\ last \in Nat /\ p + n \in Nat
  BY BlockAssumption, Split
<1>1. new = [i \in BlockNr |-> B(i)]
  <2>1. \A i : B(i) = CASE i = s -> B(i) [] s < i /\ i < e -> B(i) [] s < i /\ i = e -> B(i)
                        [] OTHER -> B(i)
    OBVIOUS
  <2> QED BY <2>1 DEF BlocksAfterAlloc, BlockNr, FirstMoved, EndMoved, TakenUpTo
<1>2. s \in BlockNr /\ e \in BlockNr /\ s <= e
  <2>0. off < map_bits /\ last < map_bits
    BY Bases
  <2>1. s < NrBlocks /\ e < NrBlocks
    <3> HIDE DEF last
    <3> QED BY <1>0, <2>0, InMap
  <2>2. s <= e
    BY <1>0, AreaInBlocks
  <2> QED BY <1>0, <2>1, <2>2, Split DEF BlockNr
<1>3. ASSUME NEW i \in BlockNr
      PROVE  /\ i \in Nat /\ md[i] \in BlockMd /\ BlockFits(md[i], Old(i))
             /\ Old(i) \subseteq 0 .. BLOCK_BITS - 1
             /\ BlockMap(map, i) = Old(i) \cup BlockMap(off .. last, i)
             /\ BlockMap(off .. last, i) \cap Old(i) = {}
  <2>1. i \in Nat /\ md[i] \in BlockMd /\ BlockFits(md[i], Old(i))
    BY <1>0 DEF AllFit, BlockNr
  <2> DEFINE A == off .. last
  <2>2. A \cap old = {} /\ map = old \cup A
    OBVIOUS
  <2> HIDE DEF A
  <2>3. BlockMap(old, i) \subseteq 0 .. BLOCK_BITS - 1
        /\ BlockMap(old \cup A, i) = BlockMap(old, i) \cup BlockMap(A, i)
    BY BlockMapIs
  <2>4. BlockMap(A, i) \cap BlockMap(old, i) = {}
    BY <2>2, BlockMapIs
  <2> QED BY <2>1, <2>2, <2>3, <2>4 DEF A
<1>4. ASSUME NEW i \in BlockNr, s <= i, i <= e
      PROVE  /\ Lo(off, i) \in 0 .. BLOCK_BITS /\ Hi(last, i) \in 0 .. BLOCK_BITS
             /\ Lo(off, i) < Hi(last, i)
             /\ BlockMap(map, i) = Old(i) \cup (Lo(off, i) .. Hi(last, i) - 1)
             /\ ZeroRun(Old(i), Lo(off, i), Hi(last, i))
  <2>1. /\ Lo(off, i) \in 0 .. BLOCK_BITS /\ Hi(last, i) \in 0 .. BLOCK_BITS
        /\ Lo(off, i) < Hi(last, i)
        /\ BlockMap(off .. last, i) = Lo(off, i) .. Hi(last, i) - 1
    BY <1>3, <1>4, AreaInBlocks
  <2>2. ZeroRun(Old(i), Lo(off, i), Hi(last, i))
    BY <1>3, <2>1 DEF ZeroRun
  <2> QED BY <1>3, <2>1, <2>2
<1>5. /\ s = e => p + n = q
      /\ s < e => p + n > BLOCK_BITS
  BY <1>0, AreaInBlocks
<1>a. p = Off(off) /\ q = Off(last) + 1 /\ s = Index(off) /\ e = Index(last)
  OBVIOUS
<1>b. p \in 0 .. BLOCK_BITS - 1 /\ q \in 1 .. BLOCK_BITS
  <2> HIDE DEF last
  <2>1. Off(last) \in 0 .. BLOCK_BITS - 1
    BY <1>0, Split
  <2>2. Off(off) \in 0 .. BLOCK_BITS - 1
    BY Split
  <2> QED BY <1>0, <2>1, <2>2
<1> HIDE DEF last, s, e, p, q, Old, new
<1>6. BlockFits(B(s), BlockMap(map, s))
  <2> DEFINE m == Old(s)
             o == p + n
             M == BlockMap(map, s)
  <2>1. Lo(off, s) = p /\ Hi(last, s) = hi
    BY <1>a DEF Lo, Hi
  <2>2. /\ p \in 0 .. BLOCK_BITS /\ hi \in 0 .. BLOCK_BITS /\ p < hi
        /\ M = m \cup (p .. hi - 1) /\ ZeroRun(m, p, hi)
    <3>1. s <= s
      BY <1>2 DEF BlockNr
    <3> HIDE DEF hi
    <3> QED BY <1>2, <1>4, <2>1, <3>1
  <2>3. o \in Nat /\ (hi = BLOCK_BITS => o >= hi) /\ (hi # BLOCK_BITS => o = hi)
    BY <1>0, <1>2, <1>5, <1>b DEF BlockNr
  <2>4. BlockFits(md[s], m) /\ md[s] \in BlockMd
    BY <1>2, <1>3
  <2>5. sb.right_free = md[s].right_free /\ sb \in BlockMd
    <3>1. find_next_zero_bit(M, BLOCK_BITS, o) \in Int
      BY <1>0, <2>3, NextZeroBit
    <3> QED BY <2>4, <3>1 DEF BlockMd, FirstMoved
  <2> HIDE DEF sb
  <2>6. B(s) = TakenFrom(sb, M, p, hi)
    <3>1. (IF s = e THEN Min({sb.right_free, BLOCK_BITS - q}) ELSE 0)
            = Min({sb.right_free, BLOCK_BITS - hi})
      <4>1. CASE s = e
        BY <4>1
      <4>2. CASE s # e
        <5>1. BLOCK_BITS - hi = 0 /\ 0 \in Int
          BY <1>0, <4>2
        <5>2. sb.right_free \in Int /\ 0 <= sb.right_free
          BY <1>0, <2>4, <2>5 DEF BlockFits, RightFits
        <5>3. Min({sb.right_free, 0}) = 0
          BY <5>1, <5>2, OfTwo
        <5> QED BY <4>2, <5>1, <5>3
      <4> QED BY <4>1, <4>2
    <3>2. [sb EXCEPT !.left_free = Min({@, p}),
                     !.right_free = IF s = e THEN Min({@, BLOCK_BITS - q}) ELSE 0]
          = [sb EXCEPT !.left_free = Min({@, p}), !.right_free = Min({@, BLOCK_BITS - hi})]
      BY <2>5, <3>1 DEF BlockMd
    <3> HIDE DEF hi
    <3> QED BY <3>2 DEF TakenFrom
  <2> HIDE DEF hi, m, o
  <2>7. BlockFits(TakenFrom(FirstMoved(md[s], m \cup (p .. hi - 1), p, o),
                            m \cup (p .. hi - 1), p, hi), m \cup (p .. hi - 1))
    BY <2>2, <2>3, <2>4, AllocFirst
  <2>8. BlockFits(TakenFrom(FirstMoved(md[s], M, p, o), M, p, hi), M)
    BY <2>2, <2>7
  <2> QED BY <2>6, <2>8 DEF sb, o
<1>7. ASSUME s < e PROVE BlockFits(B(e), BlockMap(map, e))
  <2> DEFINE m == Old(e)
             M == BlockMap(map, e)
  <2>1. Lo(off, e) = 0 /\ Hi(last, e) = q
    BY <1>2, <1>7, <1>a DEF Lo, Hi, BlockNr
  <2>2. /\ q \in 0 .. BLOCK_BITS /\ 0 < q
        /\ M = m \cup (0 .. q - 1) /\ ZeroRun(m, 0, q)
    <3>1. e <= e
      BY <1>2 DEF BlockNr
    <3> QED BY <1>2, <1>4, <2>1, <3>1
  <2>4. B(e) = TakenUpTo(eb, M, q)
    <3>1. e # s /\ ~(e < e) /\ e = e
      BY <1>2, <1>7 DEF BlockNr
    <3> HIDE DEF sb, eb
    <3> QED BY <1>7, <3>1
  <2>5. BlockFits(md[e], m) /\ m \subseteq 0 .. BLOCK_BITS - 1
    BY <1>2, <1>3
  <2> HIDE DEF m
  <2>6. BlockFits(TakenUpTo(EndMoved(md[e], m \cup (0 .. q - 1), q), m \cup (0 .. q - 1), q),
                  m \cup (0 .. q - 1))
    BY <2>2, <2>5, AllocLast
  <2>7. BlockFits(TakenUpTo(EndMoved(md[e], M, q), M, q), M)
    BY <2>2, <2>6
  <2> QED BY <2>4, <2>7
<1>8. ASSUME NEW i \in BlockNr, s < i, i < e PROVE BlockFits(B(i), BlockMap(map, i))
  <2>1. i # s /\ i # e /\ s <= i /\ i <= e
    BY <1>2, <1>8 DEF BlockNr
  <2>2. Lo(off, i) = 0 /\ Hi(last, i) = BLOCK_BITS
    BY <1>a, <2>1 DEF Lo, Hi
  <2>3. \A k \in 0 .. BLOCK_BITS - 1 : k \in BlockMap(map, i)
    BY <1>4, <2>1, <2>2
  <2>4. B(i) = Full(md[i])
    BY <1>8, <2>1
  <2>5. md[i] \in BlockMd /\ BlockFits(md[i], Old(i)) /\ Old(i) \subseteq BlockMap(map, i)
    BY <1>3
  <2>6. md[i].contig_hint_start \in 0 .. BLOCK_BITS
    BY <2>5 DEF BlockFits, HintFits
  <2>7. FirstFits(md[i], BlockMap(map, i))
    BY <2>5 DEF BlockFits, FirstFits
  <2> QED BY <2>3, <2>4, <2>5, <2>6, <2>7, FullFits
<1>9. ASSUME NEW i \in BlockNr, i < s \/ e < i PROVE BlockFits(B(i), BlockMap(map, i))
  <2>1. i # s /\ ~(s < i /\ i < e) /\ ~(s < i /\ i = e)
    BY <1>2, <1>9 DEF BlockNr
  <2>2. B(i) = md[i]
    BY <2>1
  <2>3. BlockMap(off .. last, i) = {}
    BY <1>0, <1>3, <1>9, <1>a, AreaInBlocks DEF last
  <2>4. BlockMap(map, i) = Old(i)
    BY <1>3, <2>3
  <2> QED BY <1>3, <2>2, <2>4
<1>10. ASSUME NEW i \in BlockNr PROVE BlockFits(B(i), BlockMap(map, i))
  <2>1. i = s \/ (s < e /\ i = e) \/ (s < i /\ i < e) \/ (i < s \/ e < i)
    BY <1>2 DEF BlockNr
  <2> HIDE DEF B
  <2> QED BY <1>6, <1>7, <1>8, <1>9, <2>1
<1> HIDE DEF B
<1>11. ASSUME NEW i \in BlockNr PROVE B(i) \in BlockMd
  BY <1>10 DEF BlockFits
<1> QED BY <1>1, <1>10, <1>11 DEF AllFit, new

-----------------------------------------------------------------------------
(***************************************************************************)
(* pcpu_block_update_hint_free.                                            *)
(***************************************************************************)
\* FreeStart and FreeEnd in a block.
BackTo(b, M, p) ==
  IF p = b.contig_hint + b.contig_hint_start THEN b.contig_hint_start
  ELSE IF find_last_bit(M, p) = p THEN 0 ELSE find_last_bit(M, p) + 1
UpTo(b, M, q) ==
  IF q = b.contig_hint_start THEN b.contig_hint_start + b.contig_hint
  ELSE find_next_bit(M, BLOCK_BITS, q)

\* The free area reaches back as far as it can.
LEMMA BackToIs ==
  ASSUME NEW b, NEW M, NEW X, BlockFits(b, M \cup X), NEW p \in 0 .. BLOCK_BITS - 1,
         \A k \in X : p <= k
  PROVE  LET start == BackTo(b, M, p)
         IN  /\ start \in 0 .. BLOCK_BITS /\ start <= p /\ ZeroRun(M, start, p)
             /\ start # 0 => start - 1 \in M
<1>0. BLOCK_BITS \in Nat /\ p \in Nat
  BY BlockAssumption
<1>1. CASE p = b.contig_hint + b.contig_hint_start
  <2> DEFINE hs == b.contig_hint_start
  <2>1. hs \in 0 .. BLOCK_BITS /\ b.contig_hint \in 0 .. BLOCK_BITS /\ hs <= p
        /\ p = hs + b.contig_hint /\ ZeroRun(M \cup X, hs, p)
    BY <1>0, <1>1 DEF BlockFits, HintFits
  <2>2. BackTo(b, M, p) = hs
    BY <1>1 DEF BackTo
  <2> HIDE DEF hs
  <2>3. ASSUME hs # 0, hs - 1 \notin M PROVE FALSE
    <3>1. hs - 1 \in 0 .. BLOCK_BITS /\ p \in 0 .. BLOCK_BITS /\ hs - 1 < p
      BY <1>0, <2>1, <2>3
    <3>2. \A k \in hs - 1 .. p - 1 : k = hs - 1 \/ k \in hs .. p - 1
      BY <1>0, <2>1
    <3>3. hs - 1 \notin X
      BY <1>0, <2>1
    <3>4. ZeroRun(M \cup X, hs - 1, p)
      BY <2>1, <2>3, <3>2, <3>3 DEF ZeroRun
    <3>5. p - (hs - 1) <= b.contig_hint
      BY <3>1, <3>4 DEF BlockFits, LongestFits
    <3> QED BY <1>0, <2>1, <3>5
  <2> QED BY <2>1, <2>2, <2>3 DEF ZeroRun
<1>2. CASE p # b.contig_hint + b.contig_hint_start
  <2> DEFINE l == find_last_bit(M, p)
  <2>1. /\ l \in 0 .. p
        /\ l < p => l \in M /\ \A i \in l + 1 .. p - 1 : i \notin M
        /\ l = p => \A i \in 0 .. p - 1 : i \notin M
    BY <1>0, LastBit
  <2>2. BackTo(b, M, p) = IF l = p THEN 0 ELSE l + 1
    BY <1>2 DEF BackTo
  <2> HIDE DEF l
  <2>3. CASE l = p
    BY <1>0, <2>1, <2>2, <2>3 DEF ZeroRun
  <2>4. CASE l # p
    <3>1. l < p /\ l + 1 \in 0 .. BLOCK_BITS /\ l + 1 <= p /\ (l + 1) - 1 = l
      BY <1>0, <2>1, <2>4
    <3> QED BY <2>1, <2>2, <2>4, <3>1 DEF ZeroRun
  <2> QED BY <2>3, <2>4
<1> QED BY <1>1, <1>2

\* The free area reaches forward as far as it can.
LEMMA UpToIs ==
  ASSUME NEW b, NEW M, NEW X, BlockFits(b, M \cup X), NEW q \in 1 .. BLOCK_BITS,
         \A k \in X : k < q, X \subseteq 0 .. BLOCK_BITS
  PROVE  LET end == UpTo(b, M, q)
         IN  /\ end \in 0 .. BLOCK_BITS /\ q <= end /\ ZeroRun(M, q, end)
             /\ end # BLOCK_BITS => end \in M
<1>0. BLOCK_BITS \in Nat /\ q \in Nat
  BY BlockAssumption
<1>1. CASE q = b.contig_hint_start
  <2> DEFINE he == b.contig_hint_start + b.contig_hint
  <2>1. he \in 0 .. BLOCK_BITS /\ b.contig_hint \in 0 .. BLOCK_BITS /\ q <= he
        /\ he = q + b.contig_hint /\ ZeroRun(M \cup X, q, he)
    BY <1>0, <1>1 DEF BlockFits, HintFits
  <2>2. UpTo(b, M, q) = he
    BY <1>1 DEF UpTo
  <2> HIDE DEF he
  <2>3. ASSUME he # BLOCK_BITS, he \notin M PROVE FALSE
    <3>1. he + 1 \in 0 .. BLOCK_BITS /\ q \in 0 .. BLOCK_BITS
      BY <1>0, <2>1, <2>3
    <3>2. \A k \in q .. (he + 1) - 1 : k = he \/ k \in q .. he - 1
      BY <1>0, <2>1
    <3>3. he \notin X
      BY <1>0, <2>1
    <3>4. ZeroRun(M \cup X, q, he + 1)
      BY <2>1, <2>3, <3>2, <3>3 DEF ZeroRun
    <3>5. (he + 1) - q <= b.contig_hint
      BY <3>1, <3>4 DEF BlockFits, LongestFits
    <3> QED BY <1>0, <2>1, <3>5
  <2> QED BY <2>1, <2>2, <2>3 DEF ZeroRun
<1>2. CASE q # b.contig_hint_start
  <2> DEFINE r == find_next_bit(M, BLOCK_BITS, q)
  <2>1. /\ r \in 0 .. BLOCK_BITS
        /\ r < BLOCK_BITS => r \in M /\ q <= r
        /\ \A i \in q .. BLOCK_BITS - 1 : i < r => i \notin M
        /\ q <= BLOCK_BITS => q <= r
    BY <1>0, NextBit
  <2>2. UpTo(b, M, q) = r
    BY <1>2 DEF UpTo
  <2> HIDE DEF r
  <2> QED BY <1>0, <2>1, <2>2 DEF ZeroRun
<1> QED BY <1>1, <1>2

\* An empty block fits an empty bitmap.
LEMMA EmptyFits ==
  ASSUME NEW M, \A k \in 0 .. BLOCK_BITS - 1 : k \notin M
  PROVE  BlockFits(EmptyBlock, M)
<1> DEFINE u == EmptyBlock
<1>0. BLOCK_BITS \in Nat
  BY BlockAssumption
<1>1. /\ u \in BlockMd /\ u.contig_hint = BLOCK_BITS /\ u.contig_hint_start = 0
      /\ u.left_free = BLOCK_BITS /\ u.right_free = BLOCK_BITS /\ u.first_free = 0
  BY <1>0 DEF EmptyBlock, BlockMd
<1> HIDE DEF u
<1>2. HintFits(u, M) /\ LongestFits(u, M)
  BY <1>0, <1>1 DEF HintFits, LongestFits, ZeroRun
<1>3. LeftFits(u, M) /\ FirstFits(u, M)
  BY <1>0, <1>1 DEF LeftFits, FirstFits, ZeroRun
<1>4. RightFits(u, M)
  <2>1. BLOCK_BITS - BLOCK_BITS = 0 /\ BLOCK_BITS \in 0 .. BLOCK_BITS
    BY <1>0
  <2> QED BY <1>0, <1>1, <2>1 DEF RightFits, ZeroRun
<1> QED BY <1>1, <1>2, <1>3, <1>4 DEF BlockFits, u

\* pcpu_block_update_hint_free keeps the metadata in agreement.
LEMMA FreeFits ==
  ASSUME NEW old, AllFit(md_blocks, old), NEW off \in Nat, NEW n \in Nat \ {0},
         off + n <= map_bits, off .. off + n - 1 \subseteq old,
         NEW map, map = old \ (off .. off + n - 1)
  PROVE  AllFit(BlocksAfterFree(map, off, n), map)
<1> DEFINE last == off + n - 1
           s == Index(off)
           e == Index(last)
           p == Off(off)
           q == Off(last) + 1
           start == BackTo(md_blocks[s], BlockMap(map, s), p)
           end == UpTo(md_blocks[e], BlockMap(map, e), q)
           B(i) == IF i = s THEN pcpu_block_update(md_blocks[s], start,
                                                   IF s = e THEN end ELSE BLOCK_BITS)
                   ELSE IF s < i /\ i < e THEN EmptyBlock
                   ELSE IF s < i /\ i = e THEN pcpu_block_update(md_blocks[e], 0, end)
                   ELSE md_blocks[i]
           new == BlocksAfterFree(map, off, n)
           New(i) == BlockMap(map, i)
           X(i) == Lo(off, i) .. Hi(last, i) - 1
<1>0. BLOCK_BITS \in Nat /\ BLOCK_BITS > 0 /\ NrBlocks \in Nat /\ last \in Nat
  BY BlockAssumption
<1>2. s \in BlockNr /\ e \in BlockNr /\ s <= e
  <2>0. off < map_bits /\ last < map_bits
    BY Bases
  <2>1. s < NrBlocks /\ e < NrBlocks
    <3> HIDE DEF last
    <3> QED BY <1>0, <2>0, InMap
  <2>2. s <= e
    BY <1>0, AreaInBlocks
  <2> QED BY <1>0, <2>1, <2>2, Split DEF BlockNr
<1>a. p = Off(off) /\ q = Off(last) + 1 /\ s = Index(off) /\ e = Index(last)
  OBVIOUS
<1>1. new = [i \in BlockNr |-> B(i)]
  <2>1. start = FreeStart(map, off)
    BY DEF FreeStart, BackTo
  <2>2. end = FreeEnd(map, last)
    BY DEF FreeEnd, UpTo
  <2>3. ASSUME NEW i \in BlockNr
        PROVE  B(i) = CASE i = s             -> pcpu_block_update(md_blocks[s], start,
                                                     IF s = e THEN end ELSE BLOCK_BITS)
                        [] s < i /\ i < e    -> EmptyBlock
                        [] s < i /\ i = e    -> pcpu_block_update(md_blocks[e], 0, end)
                        [] i < s \/ e < i    -> md_blocks[i]
    <3> HIDE DEF s, e, start, end, p, q
    <3>1. i \in Int /\ s \in Int /\ e \in Int /\ s <= e
      BY <1>2 DEF BlockNr
    <3>2. i = s \/ (s < i /\ i < e) \/ (s < i /\ i = e) \/ (i < s \/ e < i)
      BY <3>1
    <3> QED BY <3>1, <3>2
  <2> QED BY <2>1, <2>2, <2>3 DEF BlocksAfterFree, BlockNr
<1>3. ASSUME NEW i \in BlockNr
      PROVE  /\ i \in Nat /\ md_blocks[i] \in BlockMd
             /\ BlockFits(md_blocks[i], New(i) \cup BlockMap(off .. last, i))
             /\ New(i) \cap BlockMap(off .. last, i) = {}
  <2> DEFINE A == off .. last
  <2>2. map = old \ A /\ old = map \cup A /\ map \cap A = {}
    OBVIOUS
  <2> HIDE DEF A
  <2>3. BlockMap(map \cup A, i) = BlockMap(map, i) \cup BlockMap(A, i)
    BY DEF BlockMap
  <2>4. BlockMap(map, i) \cap BlockMap(A, i) = {}
    BY <2>2, BlockMapIs
  <2>5. i \in Nat /\ md_blocks[i] \in BlockMd /\ BlockFits(md_blocks[i], BlockMap(old, i))
    BY <1>0 DEF AllFit, BlockNr
  <2> QED BY <2>2, <2>3, <2>4, <2>5 DEF A
<1>4. ASSUME NEW i \in BlockNr, s <= i, i <= e
      PROVE  /\ Lo(off, i) \in 0 .. BLOCK_BITS /\ Hi(last, i) \in 0 .. BLOCK_BITS
             /\ Lo(off, i) < Hi(last, i)
             /\ BlockFits(md_blocks[i], New(i) \cup X(i))
             /\ ZeroRun(New(i), Lo(off, i), Hi(last, i))
  <2>1. /\ Lo(off, i) \in 0 .. BLOCK_BITS /\ Hi(last, i) \in 0 .. BLOCK_BITS
        /\ Lo(off, i) < Hi(last, i)
        /\ BlockMap(off .. last, i) = X(i)
    BY <1>3, <1>4, AreaInBlocks
  <2>2. ZeroRun(New(i), Lo(off, i), Hi(last, i))
    BY <1>3, <2>1 DEF ZeroRun
  <2> QED BY <1>3, <2>1, <2>2
<1>b. p \in 0 .. BLOCK_BITS - 1 /\ q \in 1 .. BLOCK_BITS
  <2> HIDE DEF last
  <2>1. Off(last) \in 0 .. BLOCK_BITS - 1
    BY <1>0, Split
  <2>2. Off(off) \in 0 .. BLOCK_BITS - 1
    BY Split
  <2> QED BY <1>0, <2>1, <2>2
<1> HIDE DEF last, s, e, p, q, new, New, X
<1>5. /\ start \in 0 .. BLOCK_BITS /\ start <= p /\ ZeroRun(New(s), start, p)
      /\ start # 0 => start - 1 \in New(s)
      /\ Lo(off, s) = p
  <2>1. Lo(off, s) = p
    BY <1>a DEF Lo
  <2>2. \A k \in X(s) : p <= k
    BY <2>1 DEF X
  <2>3. BlockFits(md_blocks[s], New(s) \cup X(s))
    <3>1. s <= s
      BY <1>2 DEF BlockNr
    <3> QED BY <1>2, <1>4, <3>1
  <2> QED BY <1>b, <2>1, <2>2, <2>3, BackToIs DEF New
<1>6. /\ end \in 0 .. BLOCK_BITS /\ q <= end /\ ZeroRun(New(e), q, end)
      /\ end # BLOCK_BITS => end \in New(e)
      /\ Hi(last, e) = q
  <2>1. Hi(last, e) = q
    BY <1>a DEF Hi
  <2>2. /\ BlockFits(md_blocks[e], New(e) \cup X(e))
        /\ Lo(off, e) \in 0 .. BLOCK_BITS
    <3>1. e <= e
      BY <1>2 DEF BlockNr
    <3> QED BY <1>2, <1>4, <3>1
  <2>3. \A k \in X(e) : k < q
    BY <1>b, <2>1, <2>2 DEF X
  <2>4. X(e) \subseteq 0 .. BLOCK_BITS
    BY <1>0, <1>b, <2>1, <2>2 DEF X
  <2> QED BY <1>b, <2>1, <2>2, <2>3, <2>4, UpToIs DEF New
<1> HIDE DEF start, end
<1>7. BlockFits(B(s), New(s))
  <2> DEFINE z == IF s = e THEN end ELSE BLOCK_BITS
             hi == Hi(last, s)
  <2>0. s <= s
    BY <1>2 DEF BlockNr
  <2>1. /\ hi \in 0 .. BLOCK_BITS /\ p < hi /\ BlockFits(md_blocks[s], New(s) \cup X(s))
        /\ ZeroRun(New(s), p, hi) /\ X(s) = p .. hi - 1
    BY <1>2, <1>4, <1>5, <2>0 DEF X
  <2>2. /\ z \in 0 .. BLOCK_BITS /\ hi <= z /\ ZeroRun(New(s), hi, z)
        /\ z # BLOCK_BITS => z \in New(s)
    <3>1. CASE s = e
      BY <1>6, <3>1
    <3>2. CASE s # e
      <4>1. hi = BLOCK_BITS
        BY <1>a, <3>2 DEF Hi
      <4> QED BY <1>0, <3>2, <4>1 DEF ZeroRun
    <3> QED BY <3>1, <3>2
  <2>3. B(s) = pcpu_block_update(md_blocks[s], start, z)
    OBVIOUS
  <2> HIDE DEF z, hi
  <2>4. start < z /\ X(s) \subseteq start .. z - 1
    BY <1>5, <1>b, <2>1, <2>2
  <2>5. ZeroRun(New(s), start, z)
    <3>1. \A k \in start .. z - 1 : k \in start .. p - 1 \/ k \in p .. hi - 1 \/ k \in hi .. z - 1
      BY <1>5, <1>b, <2>1, <2>2
    <3> QED BY <1>5, <2>1, <2>2, <3>1 DEF ZeroRun
  <2> QED BY <1>5, <2>1, <2>2, <2>3, <2>4, <2>5, UpdateFits
<1>8. ASSUME s < e PROVE BlockFits(B(e), New(e))
  <2>0. e <= e /\ e # s /\ ~(e < e)
    BY <1>2, <1>8 DEF BlockNr
  <2>1. Lo(off, e) = 0
    BY <1>a, <2>0 DEF Lo
  <2>2. /\ BlockFits(md_blocks[e], New(e) \cup X(e)) /\ ZeroRun(New(e), 0, q)
        /\ X(e) = 0 .. q - 1
    BY <1>2, <1>4, <1>6, <2>0, <2>1 DEF X
  <2>3. B(e) = pcpu_block_update(md_blocks[e], 0, end)
    BY <1>8, <2>0
  <2>4. 0 \in 0 .. BLOCK_BITS /\ 0 < end /\ X(e) \subseteq 0 .. end - 1
    BY <1>0, <1>6, <1>b, <2>2
  <2>5. ZeroRun(New(e), 0, end)
    <3>1. \A k \in 0 .. end - 1 : k \in 0 .. q - 1 \/ k \in q .. end - 1
      BY <1>6, <1>b
    <3> QED BY <1>6, <2>2, <3>1 DEF ZeroRun
  <2> QED BY <1>6, <2>2, <2>3, <2>4, <2>5, UpdateFits
<1>9. ASSUME NEW i \in BlockNr, s < i, i < e PROVE BlockFits(B(i), New(i))
  <2>1. i # s /\ i # e /\ s <= i /\ i <= e
    BY <1>2, <1>9 DEF BlockNr
  <2>2. Lo(off, i) = 0 /\ Hi(last, i) = BLOCK_BITS
    BY <1>a, <2>1 DEF Lo, Hi
  <2>3. \A k \in 0 .. BLOCK_BITS - 1 : k \notin New(i)
    BY <1>4, <2>1, <2>2 DEF ZeroRun
  <2>4. B(i) = EmptyBlock
    BY <1>9, <2>1
  <2> QED BY <2>3, <2>4, EmptyFits
<1>10. ASSUME NEW i \in BlockNr, i < s \/ e < i PROVE BlockFits(B(i), New(i))
  <2>1. i # s /\ ~(s < i /\ i < e) /\ ~(s < i /\ i = e)
    BY <1>2, <1>10 DEF BlockNr
  <2>2. B(i) = md_blocks[i]
    BY <2>1
  <2>3. BlockMap(off .. last, i) = {}
    BY <1>0, <1>3, <1>10, <1>a, AreaInBlocks DEF last
  <2>4. New(i) \cup BlockMap(off .. last, i) = New(i)
    BY <2>3
  <2> QED BY <1>3, <2>2, <2>4
<1>11. ASSUME NEW i \in BlockNr PROVE BlockFits(B(i), New(i))
  <2>1. i = s \/ (s < e /\ i = e) \/ (s < i /\ i < e) \/ (i < s \/ e < i)
    BY <1>2 DEF BlockNr
  <2> HIDE DEF B
  <2> QED BY <1>7, <1>8, <1>9, <1>10, <2>1
<1> HIDE DEF B
<1>12. ASSUME NEW i \in BlockNr PROVE B(i) \in BlockMd
  BY <1>11 DEF BlockFits
<1> QED BY <1>1, <1>11, <1>12 DEF AllFit, new, New

-----------------------------------------------------------------------------
(***************************************************************************)
(* The metadata is what BlocksExact says.                                  *)
(***************************************************************************)
\* The hint of a block that fits is its longest run.
LEMMA HintIsLongest ==
  ASSUME NEW b, NEW m, BlockFits(b, m)
  PROVE  b.contig_hint = Longest(m, BLOCK_BITS)
<1> DEFINE R == Runs(m, BLOCK_BITS)
           T == {0} \cup {r[2] - r[1] + 1 : r \in R}
           h == b.contig_hint
           hs == b.contig_hint_start
<1>0. BLOCK_BITS \in Nat
  BY BlockAssumption
<1>1. h \in 0 .. BLOCK_BITS /\ hs \in 0 .. BLOCK_BITS /\ hs + h <= BLOCK_BITS
      /\ ZeroRun(m, hs, hs + h)
  BY DEF BlockFits, HintFits
<1>2. ASSUME NEW r \in R PROVE r[2] - r[1] + 1 \in Int /\ r[2] - r[1] + 1 <= h
  <2>1. r[1] \in 0 .. BLOCK_BITS - 1 /\ r[2] \in 0 .. BLOCK_BITS - 1
        /\ (r[1] .. r[2]) \cap m = {}
    BY DEF Runs
  <2>2. r[1] \in 0 .. BLOCK_BITS /\ r[2] + 1 \in 0 .. BLOCK_BITS /\ (r[2] + 1) - 1 = r[2]
    BY <1>0, <2>1
  <2>3. ZeroRun(m, r[1], r[2] + 1)
    BY <2>1, <2>2 DEF ZeroRun
  <2>4. (r[2] + 1) - r[1] <= b.contig_hint
    BY <2>2, <2>3 DEF BlockFits, LongestFits
  <2> QED BY <1>0, <1>1, <2>1, <2>4
<1>3. T \subseteq Int /\ \A x \in T : x <= h
  BY <1>0, <1>1, <1>2
<1>4. h \in T
  <2>1. CASE h = 0
    BY <2>1
  <2>2. CASE h # 0
    <3> DEFINE r == <<hs, hs + h - 1>>
    <3>1. r[1] = hs /\ r[2] = hs + h - 1
      OBVIOUS
    <3>2. hs \in 0 .. BLOCK_BITS - 1 /\ hs + h - 1 \in 0 .. BLOCK_BITS - 1
      BY <1>0, <1>1, <2>2
    <3>3. (hs .. hs + h - 1) \cap m = {}
      BY <1>1 DEF ZeroRun
    <3>4. r \in R
      BY <3>1, <3>2, <3>3 DEF Runs
    <3>5. r[2] - r[1] + 1 = h
      BY <1>0, <1>1
    <3> HIDE DEF r, R
    <3> QED BY <3>4, <3>5
  <2> QED BY <2>1, <2>2
<1>5. Longest(m, BLOCK_BITS) = Max(T)
  BY DEF Longest
<1>6. h \in Int
  BY <1>0, <1>1
<1> HIDE DEF T, h
<1>7. Max(T) \in T /\ \A y \in T : y <= Max(T)
  BY <1>3, <1>4, <1>6, MaxOf
<1>8. Max(T) \in Int /\ Max(T) <= h /\ h <= Max(T)
  BY <1>3, <1>4, <1>7
<1> QED BY <1>5, <1>6, <1>8 DEF h

\* A block that fits is exact.
LEMMA FitsIsExact ==
  ASSUME NEW b, NEW m, m \subseteq 0 .. BLOCK_BITS - 1, BlockFits(b, m)
  PROVE  /\ b.contig_hint = Longest(m, BLOCK_BITS)
         /\ (b.contig_hint_start .. b.contig_hint_start + b.contig_hint - 1) \cap m = {}
         /\ b.left_free = find_next_bit(m, BLOCK_BITS, 0)
         /\ b.right_free = BLOCK_BITS - 1 - Max({-1} \cup m)
         /\ b.first_free <= find_next_zero_bit(m, BLOCK_BITS, 0)
<1>0. BLOCK_BITS \in Nat /\ 0 \in Nat /\ BLOCK_BITS > 0
  BY BlockAssumption
<1>1. (b.contig_hint_start .. b.contig_hint_start + b.contig_hint - 1) \cap m = {}
  BY DEF BlockFits, HintFits, ZeroRun
<1>2. b.left_free = find_next_bit(m, BLOCK_BITS, 0)
  <2> DEFINE r == find_next_bit(m, BLOCK_BITS, 0)
             l == b.left_free
  <2>1. /\ r \in 0 .. BLOCK_BITS
        /\ r < BLOCK_BITS => r \in m
        /\ \A i \in 0 .. BLOCK_BITS - 1 : i < r => i \notin m
    BY <1>0, NextBit
  <2>2. /\ l \in 0 .. BLOCK_BITS /\ \A k \in 0 .. l - 1 : k \notin m
        /\ l < BLOCK_BITS => l \in m
    BY DEF BlockFits, LeftFits, ZeroRun
  <2> HIDE DEF r, l
  <2>3. ~(r < l) /\ ~(l < r)
    BY <1>0, <2>1, <2>2
  <2>4. r = l
    BY <1>0, <2>1, <2>2, <2>3
  <2> QED BY <2>4 DEF r, l
<1>3. b.right_free = BLOCK_BITS - 1 - Max({-1} \cup m)
  <2> DEFINE T == {-1} \cup m
             r == b.right_free
  <2>1. /\ r \in 0 .. BLOCK_BITS
        /\ \A k \in BLOCK_BITS - r .. BLOCK_BITS - 1 : k \notin m
        /\ r < BLOCK_BITS => BLOCK_BITS - r - 1 \in m
    BY DEF BlockFits, RightFits, ZeroRun
  <2>3. \A k : k \in T <=> k = -1 \/ k \in m
    OBVIOUS
  <2>a. -1 \in Int /\ -1 <= BLOCK_BITS /\ -1 \in T
    BY <1>0, <2>3
  <2>b. \A x \in m : x \in Int /\ x <= BLOCK_BITS /\ x >= 0
    BY <1>0
  <2>2. T \subseteq Int /\ T # {} /\ \A x \in T : x <= BLOCK_BITS
    <3> HIDE DEF T
    <3>1. ASSUME NEW x \in T PROVE x \in Int /\ x <= BLOCK_BITS
      <4>1. CASE x = -1
        BY <2>a, <4>1
      <4>2. CASE x \in m
        BY <2>b, <4>2
      <4> QED BY <2>3, <4>1, <4>2
    <3> QED BY <2>a, <3>1
  <2> HIDE DEF T, r
  <2>4. Max(T) \in T /\ \A y \in T : y <= Max(T)
    <3>1. BLOCK_BITS \in Int
      BY <1>0
    <3> QED BY <2>2, <3>1, MaxOf
  <2>5. Max(T) \in Int /\ Max(T) <= BLOCK_BITS /\ -1 <= Max(T)
    BY <2>2, <2>a, <2>4
  <2>6. BLOCK_BITS - r - 1 \in T
    <3>1. CASE r < BLOCK_BITS
      BY <2>1, <2>3, <3>1
    <3>2. CASE r = BLOCK_BITS
      <4>1. BLOCK_BITS - r - 1 = -1
        BY <1>0, <3>2
      <4> QED BY <2>3, <4>1
    <3> QED BY <1>0, <2>1, <3>1, <3>2
  <2>7. BLOCK_BITS - r - 1 <= Max(T)
    BY <2>4, <2>6
  <2>8. ~(BLOCK_BITS - r - 1 < Max(T))
    <3> SUFFICES ASSUME BLOCK_BITS - r - 1 < Max(T) PROVE FALSE
      OBVIOUS
    <3>1. Max(T) # -1
      BY <1>0, <2>1
    <3>2. Max(T) \in m
      BY <2>3, <2>4, <3>1
    <3>3. Max(T) \in BLOCK_BITS - r .. BLOCK_BITS - 1
      BY <1>0, <2>1, <2>5, <3>2
    <3> QED BY <2>1, <3>2, <3>3
  <2>9. r = BLOCK_BITS - 1 - Max(T)
    BY <1>0, <2>1, <2>5, <2>7, <2>8
  <2> QED BY <2>9 DEF r, T
<1>4. b.first_free <= find_next_zero_bit(m, BLOCK_BITS, 0)
  <2> DEFINE r == find_next_zero_bit(m, BLOCK_BITS, 0)
             f == b.first_free
  <2>1. r \in 0 .. BLOCK_BITS /\ (r < BLOCK_BITS => r \notin m)
    BY <1>0, NextZeroBit
  <2>2. f \in 0 .. BLOCK_BITS /\ \A k \in 0 .. f - 1 : k \in m
    BY DEF BlockFits, FirstFits
  <2> HIDE DEF r, f
  <2>3. f <= r
    BY <1>0, <2>1, <2>2
  <2> QED BY <2>3 DEF r, f
<1> QED BY <1>1, <1>2, <1>3, <1>4, HintIsLongest

-----------------------------------------------------------------------------
(***************************************************************************)
(* pcpu_next_md_free_region.                                               *)
(***************************************************************************)
\* What the search for free regions knows when it comes to a block.
RegionState == [done : BOOLEAN, off : Int, bits : Int]

\* w with more bits.
RegionMore(w, x, d) == [w EXCEPT !.bits = x, !.done = d]
\* Its fields.
LEMMA RegionSet ==
  ASSUME NEW w \in RegionState, NEW x \in Int, NEW d \in BOOLEAN
  PROVE  /\ RegionMore(w, x, d) \in RegionState /\ RegionMore(w, x, d).off = w.off
         /\ RegionMore(w, x, d).bits = x /\ RegionMore(w, x, d).done = d
BY DEF RegionState, RegionMore

\* u is what is known behind block i.
RegionStepIs(b, off, i, w, u) ==
  /\ u \in RegionState
  /\ w.done => u = w
  /\ ~w.done /\ w.bits # 0 =>
       /\ u.done <=> b.left_free # BLOCK_BITS
       /\ u.off = w.off /\ u.bits = w.bits + b.left_free
  /\ ~w.done /\ w.bits = 0 =>
       \/ /\ b.contig_hint_start >= BlockOff(off, i)
          /\ b.contig_hint + b.contig_hint_start < BLOCK_BITS
          /\ u.done /\ u.off = i * BLOCK_BITS + b.contig_hint_start
          /\ u.bits = b.contig_hint
       \/ /\ \/ b.contig_hint = 0 \/ b.contig_hint_start < BlockOff(off, i)
             \/ b.contig_hint + b.contig_hint_start >= BLOCK_BITS
          /\ u.done = FALSE /\ u.off = (i + 1) * BLOCK_BITS - b.right_free
          /\ u.bits = b.right_free

\* A step of pcpu_next_md_free_region follows the cases of FreeRegionStep.
LEMMA FreeStepTyped ==
  ASSUME NEW md \in [BlockNr -> BlockMd], NEW off \in Nat, NEW i \in BlockNr,
         NEW w \in RegionState
  PROVE  RegionStepIs(md[i], off, i, w, FreeRegionStep(md, off, i, w))
<1> DEFINE b == md[i]
           u == FreeRegionStep(md, off, i, w)
           t == /\ b.contig_hint # 0 /\ b.contig_hint_start >= BlockOff(off, i)
                /\ b.contig_hint + b.contig_hint_start < BLOCK_BITS
           taken == [done |-> TRUE, off |-> i * BLOCK_BITS + b.contig_hint_start,
                     bits |-> b.contig_hint]
           right == [done |-> FALSE, off |-> (i + 1) * BLOCK_BITS - b.right_free,
                     bits |-> b.right_free]
           more == [w EXCEPT !.bits = @ + b.left_free, !.done = b.left_free # BLOCK_BITS]
<1>1. /\ b.contig_hint \in Int /\ b.contig_hint_start \in Int /\ b.left_free \in Int
      /\ b.right_free \in Int /\ b.first_free \in Int
  <2>1. b \in BlockMd
    OBVIOUS
  <2> QED BY <2>1 DEF BlockMd
<1>2. i \in Int /\ BLOCK_BITS \in Int /\ i * BLOCK_BITS \in Int /\ (i + 1) * BLOCK_BITS \in Int
  BY Bases DEF BlockNr
<1>3. w.done \in BOOLEAN /\ w.off \in Int /\ w.bits \in Int
  BY DEF RegionState
<1>4. BlockOff(off, i) \in Int
  <2>1. Off(off) \in Int
    BY <1>2, Split
  <2> QED BY <2>1 DEF BlockOff
<1>5. u = IF w.done THEN w ELSE IF w.bits # 0 THEN more ELSE IF t THEN taken ELSE right
  BY DEF FreeRegionStep
<1>6. /\ more \in RegionState /\ more.off = w.off /\ more.bits = w.bits + b.left_free
      /\ more.done = (b.left_free # BLOCK_BITS)
  <2> DEFINE d == b.left_free # BLOCK_BITS
             x == w.bits + b.left_free
  <2>1. d \in BOOLEAN /\ x \in Int
    BY <1>1, <1>3
  <2> HIDE DEF d, x
  <2>2. /\ RegionMore(w, x, d) \in RegionState /\ RegionMore(w, x, d).off = w.off
        /\ RegionMore(w, x, d).bits = x /\ RegionMore(w, x, d).done = d
    BY <2>1, RegionSet
  <2>3. more = RegionMore(w, x, d)
    BY Zenon DEF d, x, RegionMore
  <2> HIDE DEF more
  <2>4. /\ more \in RegionState /\ more.off = w.off /\ more.bits = x /\ more.done = d
    BY <2>2, <2>3
  <2> QED BY <2>4 DEF d, x
<1>7. /\ taken \in RegionState /\ taken.done = TRUE
      /\ taken.off = i * BLOCK_BITS + b.contig_hint_start /\ taken.bits = b.contig_hint
  BY <1>1, <1>2 DEF RegionState
<1>8. /\ right \in RegionState /\ right.done = FALSE
      /\ right.off = (i + 1) * BLOCK_BITS - b.right_free /\ right.bits = b.right_free
  BY <1>1, <1>2 DEF RegionState
<1>9. t \in BOOLEAN
  OBVIOUS
<1>10. ~t => \/ b.contig_hint = 0 \/ b.contig_hint_start < BlockOff(off, i)
             \/ b.contig_hint + b.contig_hint_start >= BLOCK_BITS
  BY <1>1, <1>2, <1>4
<1>11. t => /\ b.contig_hint_start >= BlockOff(off, i)
            /\ b.contig_hint + b.contig_hint_start < BLOCK_BITS
  OBVIOUS
<1> HIDE DEF u, t, taken, right, more
<1>12. CASE w.done
  <2>1. u = w
    BY <1>5, <1>12
  <2> QED BY <1>12, <2>1 DEF u, RegionStepIs
<1>13. CASE ~w.done /\ w.bits # 0
  <2>1. u = more
    BY <1>5, <1>13
  <2> QED BY <1>6, <1>13, <2>1 DEF u, RegionStepIs
<1>14. CASE ~w.done /\ w.bits = 0 /\ t
  <2>1. u = taken
    BY <1>5, <1>14
  <2> QED BY <1>7, <1>11, <1>14, <2>1 DEF u, RegionStepIs
<1>15. CASE ~w.done /\ w.bits = 0 /\ ~t
  <2>1. u = right
    BY <1>5, <1>15
  <2> QED BY <1>8, <1>10, <1>15, <2>1 DEF u, RegionStepIs
<1> QED BY <1>3, <1>9, <1>12, <1>13, <1>14, <1>15 DEF u, RegionStepIs

\* The blocks pcpu_next_md_free_region goes through.
LEMMA FreeWalkIs ==
  ASSUME NEW md \in [BlockNr -> BlockMd], NEW off \in Nat
  PROVE  LET walk == FreeRegionWalk(md, off)
         IN  /\ walk \in [0 .. NrBlocks -> RegionState]
             /\ \A i \in 0 .. NrBlocks :
                  walk[i] = IF i <= Index(off) THEN [done |-> FALSE, off |-> off, bits |-> 0]
                            ELSE FreeRegionStep(md, off, i - 1, walk[i - 1])
<1> DEFINE init == [done |-> FALSE, off |-> off, bits |-> 0]
           S(k, x) == IF k <= Index(off) THEN init ELSE FreeRegionStep(md, off, k - 1, x)
           step == [k \in 1 .. NrBlocks |-> [x \in RegionState |-> S(k, x)]]
           F(g) == [k \in 0 .. NrBlocks |->
                      IF k <= Index(off) THEN init
                      ELSE FreeRegionStep(md, off, k - 1, g[k - 1])]
<1>0. NrBlocks \in Nat /\ Index(off) \in Nat
  BY Bases, Split
<1>1. init \in RegionState
  BY DEF RegionState
<1>2. ASSUME NEW k \in 1 .. NrBlocks, NEW x \in RegionState PROVE S(k, x) \in RegionState
  <2>1. k - 1 \in BlockNr
    BY <1>0 DEF BlockNr
  <2>2. FreeRegionStep(md, off, k - 1, x) \in RegionState
    BY <2>1, FreeStepTyped DEF RegionStepIs
  <2> QED BY <1>1, <2>2
<1>a. FreeRegionWalk(md, off) = CHOOSE g : g = F(g)
  BY DEF FreeRegionWalk
<1>b. \A k, x : S(k, x) = IF k <= Index(off) THEN init ELSE FreeRegionStep(md, off, k - 1, x)
  OBVIOUS
<1> HIDE DEF S
<1>3. step \in [1 .. NrBlocks -> [RegionState -> RegionState]]
  BY <1>2
<1>3a. \A k \in 1 .. NrBlocks, x \in RegionState : step[k][x] = S(k, x)
  OBVIOUS
<1> HIDE DEF step, init
<1>4. PICK f \in [0 .. NrBlocks -> RegionState] : Takes(f, NrBlocks, init, step)
  BY <1>0, <1>1, <1>3, Recursion
<1>4a. f[0] = init /\ \A k \in 1 .. NrBlocks : f[k] = step[k][f[k - 1]]
  BY <1>4 DEF Takes
<1>5. f = F(f)
  <2>1. ASSUME NEW k \in 0 .. NrBlocks
        PROVE  f[k] = IF k <= Index(off) THEN init
                      ELSE FreeRegionStep(md, off, k - 1, f[k - 1])
    <3>1. CASE k = 0
      BY <1>0, <1>4a, <3>1
    <3>2. CASE k # 0
      <4>1. k \in 1 .. NrBlocks /\ f[k - 1] \in RegionState
        BY <1>0, <3>2
      <4> QED BY <1>3a, <1>4a, <1>b, <4>1
    <3> QED BY <3>1, <3>2
  <2> QED BY <2>1
<1> HIDE DEF F
<1>6. FreeRegionWalk(md, off) = F(FreeRegionWalk(md, off))
  BY <1>a, <1>5
<1> DEFINE walk == FreeRegionWalk(md, off)
<1>7. walk = [k \in 0 .. NrBlocks |-> IF k <= Index(off) THEN init
                                      ELSE FreeRegionStep(md, off, k - 1, walk[k - 1])]
  BY <1>6 DEF F
<1> HIDE DEF walk
<1>8. \A k \in 0 .. NrBlocks : walk[k] = IF k <= Index(off) THEN init
                                         ELSE FreeRegionStep(md, off, k - 1, walk[k - 1])
  BY <1>7
<1>9. \A k \in 0 .. NrBlocks : walk[k] \in RegionState
  <2> DEFINE P == {k \in 0 .. NrBlocks : walk[k] \in RegionState}
  <2>1. 0 \in P
    <3>1. 0 \in 0 .. NrBlocks /\ 0 <= Index(off)
      BY <1>0
    <3> QED BY <1>1, <1>8, <3>1
  <2>2. ASSUME NEW k \in 0 .. NrBlocks - 1, k \in P PROVE k + 1 \in P
    <3>1. k + 1 \in 1 .. NrBlocks /\ (k + 1) - 1 = k /\ walk[k] \in RegionState
          /\ k + 1 \in 0 .. NrBlocks
      BY <1>0, <2>2
    <3>2. walk[k + 1] = S(k + 1, walk[k])
      BY <1>8, <1>b, <3>1
    <3>3. walk[k + 1] \in RegionState
      BY <1>2, <3>1, <3>2
    <3> QED BY <3>1, <3>3
  <2>3. 0 .. NrBlocks \subseteq P
    <3> HIDE DEF P
    <3> QED BY <1>0, <2>1, <2>2, Upwards
  <2> QED BY <2>3
<1>10. walk \in [0 .. NrBlocks -> RegionState]
  <2>1. walk = [k \in 0 .. NrBlocks |-> walk[k]]
    BY <1>7
  <2> QED BY <1>9, <2>1
<1> QED BY <1>8, <1>10 DEF walk, init

\* What the fields of a block say of each other.
LEMMA FieldsAgree ==
  ASSUME NEW b, NEW m, BlockFits(b, m)
  PROVE  /\ b.contig_hint \in 0 .. BLOCK_BITS /\ b.contig_hint_start \in 0 .. BLOCK_BITS
         /\ b.left_free \in 0 .. BLOCK_BITS /\ b.right_free \in 0 .. BLOCK_BITS
         /\ b.first_free \in 0 .. BLOCK_BITS
         /\ b.contig_hint_start + b.contig_hint <= BLOCK_BITS
         /\ b.contig_hint + b.contig_hint_start >= BLOCK_BITS => b.contig_hint <= b.right_free
         /\ b.left_free # BLOCK_BITS =>
              b.contig_hint <= b.left_free \/ b.left_free + 1 <= b.contig_hint_start
<1> DEFINE h == b.contig_hint
           hs == b.contig_hint_start
           l == b.left_free
           r == b.right_free
<1>0. BLOCK_BITS \in Nat
  BY BlockAssumption
<1>1. /\ h \in 0 .. BLOCK_BITS /\ hs \in 0 .. BLOCK_BITS /\ l \in 0 .. BLOCK_BITS
      /\ r \in 0 .. BLOCK_BITS /\ b.first_free \in 0 .. BLOCK_BITS /\ hs + h <= BLOCK_BITS
      /\ l < BLOCK_BITS => l \in m
      /\ r < BLOCK_BITS => BLOCK_BITS - r - 1 \in m
      /\ \A k \in hs .. hs + h - 1 : k \notin m
  BY DEF BlockFits, HintFits, LeftFits, RightFits, FirstFits, ZeroRun
<1> HIDE DEF h, hs, l, r
<1>2. h + hs >= BLOCK_BITS => h <= r
  <2> SUFFICES ASSUME h + hs >= BLOCK_BITS, r < h PROVE FALSE
    BY <1>0, <1>1
  <2>1. BLOCK_BITS - r - 1 \in hs .. hs + h - 1
    BY <1>0, <1>1
  <2> QED BY <1>0, <1>1, <2>1
<1>3. l # BLOCK_BITS => h <= l \/ l + 1 <= hs
  <2> SUFFICES ASSUME l # BLOCK_BITS, l < h, hs <= l PROVE FALSE
    BY <1>0, <1>1
  <2>1. l \in hs .. hs + h - 1
    BY <1>0, <1>1
  <2> QED BY <1>0, <1>1, <2>1
<1> QED BY <1>1, <1>2, <1>3 DEF h, hs, l, r

\* B is as much as any block has below off.
Covers(md, off, B) ==
  \A j \in BlockNr :
    md[j].contig_hint <= B \/ off <= j * BLOCK_BITS + md[j].contig_hint_start

\* What is known when the search from off comes to block i: the region found
\* reaches up to the block, or the search is over and it will go on behind it.
RegionKnows(md, off, B, i, w) ==
  /\ w.off \in Nat /\ w.bits \in Nat /\ off <= w.off + w.bits
  /\ ~w.done =>
       /\ Index(off) < i \/ w.bits # 0 => w.off + w.bits = i * BLOCK_BITS
       /\ \A j \in BlockNr : j < i => md[j].contig_hint <= B \/ md[j].contig_hint <= w.bits
  /\ w.done =>
       /\ w.off < map_bits
       /\ \A j \in BlockNr :
            \/ md[j].contig_hint <= B \/ md[j].contig_hint <= w.bits
            \/ w.off + w.bits + 1 <= j * BLOCK_BITS + md[j].contig_hint_start

\* A step of the search keeps what it knows: no hint of a block it has passed is
\* lost.
LEMMA FreeStepKnows ==
  ASSUME NEW md, NEW map, AllFit(md, map), NEW off \in Nat, NEW B \in Nat,
         Covers(md, off, B), NEW i \in BlockNr, Index(off) <= i,
         NEW w \in RegionState, RegionKnows(md, off, B, i, w)
  PROVE  RegionKnows(md, off, B, i + 1, FreeRegionStep(md, off, i, w))
<1> DEFINE b == md[i]
           u == FreeRegionStep(md, off, i, w)
           h == b.contig_hint
           hs == b.contig_hint_start
           base == i * BLOCK_BITS
<1>0. md \in [BlockNr -> BlockMd]
  BY DEF AllFit
<1>1. \A j \in BlockNr :
         /\ md[j].contig_hint \in 0 .. BLOCK_BITS
         /\ md[j].contig_hint_start \in 0 .. BLOCK_BITS
         /\ md[j].left_free \in 0 .. BLOCK_BITS /\ md[j].right_free \in 0 .. BLOCK_BITS
         /\ md[j].contig_hint_start + md[j].contig_hint <= BLOCK_BITS
         /\ md[j].contig_hint + md[j].contig_hint_start >= BLOCK_BITS
              => md[j].contig_hint <= md[j].right_free
         /\ md[j].left_free # BLOCK_BITS =>
              \/ md[j].contig_hint <= md[j].left_free
              \/ md[j].left_free + 1 <= md[j].contig_hint_start
  BY FieldsAgree DEF AllFit
<1>2. /\ i \in Nat /\ BLOCK_BITS \in Nat /\ BLOCK_BITS > 0 /\ base \in Nat
      /\ (i + 1) * BLOCK_BITS = base + BLOCK_BITS /\ map_bits \in Nat
      /\ base + BLOCK_BITS <= map_bits
  <2>1. i \in Int /\ i \in Nat /\ i < NrBlocks /\ NrBlocks \in Int
    BY Bases DEF BlockNr
  <2> QED BY <2>1, Bases
<1>3. \A j \in BlockNr : /\ j \in Nat /\ j * BLOCK_BITS \in Nat
                         /\ i < j => base + BLOCK_BITS <= j * BLOCK_BITS
                         /\ j < i => j * BLOCK_BITS + BLOCK_BITS <= base
  BY <1>2, Bases DEF BlockNr
<1>4. /\ Index(off) \in Nat /\ Off(off) \in 0 .. BLOCK_BITS - 1
      /\ off = Index(off) * BLOCK_BITS + Off(off)
  BY Split
<1>5. off <= base + BLOCK_BITS /\ (Index(off) = i => off = base + Off(off))
  <2>1. CASE Index(off) = i
    BY <1>2, <1>4, <2>1
  <2>2. CASE Index(off) < i
    <3>1. Index(off) * BLOCK_BITS + BLOCK_BITS <= base
      BY <1>2, <1>4, <2>2, Bases
    <3>2. Index(off) * BLOCK_BITS \in Nat
      BY <1>4, Bases
    <3> QED BY <1>2, <1>4, <2>2, <3>1, <3>2
  <2> QED BY <1>2, <1>4, <2>1, <2>2
<1>6. /\ u \in RegionState
      /\ w.done => u = w
      /\ ~w.done /\ w.bits # 0 =>
           /\ u.done <=> b.left_free # BLOCK_BITS
           /\ u.off = w.off /\ u.bits = w.bits + b.left_free
      /\ ~w.done /\ w.bits = 0 =>
           \/ /\ hs >= BlockOff(off, i) /\ h + hs < BLOCK_BITS
              /\ u.done /\ u.off = base + hs /\ u.bits = h
           \/ /\ \/ h = 0 \/ hs < BlockOff(off, i) \/ h + hs >= BLOCK_BITS
              /\ u.done = FALSE /\ u.off = (i + 1) * BLOCK_BITS - b.right_free
              /\ u.bits = b.right_free
  <2>1. RegionStepIs(md[i], off, i, w, u)
    BY <1>0, FreeStepTyped
  <2> QED BY <2>1 DEF RegionStepIs
<1>7. BlockOff(off, i) = IF i = Index(off) THEN Off(off) ELSE 0
  BY DEF BlockOff
<1>8. /\ w.off \in Nat /\ w.bits \in Nat /\ off <= w.off + w.bits
  BY DEF RegionKnows
<1>9. /\ ~w.done =>
           /\ Index(off) < i \/ w.bits # 0 => w.off + w.bits = base
           /\ \A j \in BlockNr : j < i => md[j].contig_hint <= B \/ md[j].contig_hint <= w.bits
      /\ w.done =>
           /\ w.off < map_bits
           /\ \A j \in BlockNr :
                \/ md[j].contig_hint <= B \/ md[j].contig_hint <= w.bits
                \/ w.off + w.bits + 1 <= j * BLOCK_BITS + md[j].contig_hint_start
  BY DEF RegionKnows
<1>10. \A j \in BlockNr : md[j].contig_hint <= B
                          \/ off <= j * BLOCK_BITS + md[j].contig_hint_start
  BY DEF Covers
<1>11. w.done \in BOOLEAN
  BY DEF RegionState
<1>12. b.left_free \in 0 .. BLOCK_BITS /\ b.right_free \in 0 .. BLOCK_BITS
       /\ h \in 0 .. BLOCK_BITS /\ hs \in 0 .. BLOCK_BITS /\ hs + h <= BLOCK_BITS
       /\ (h + hs >= BLOCK_BITS => h <= b.right_free)
       /\ (b.left_free # BLOCK_BITS => h <= b.left_free \/ b.left_free + 1 <= hs)
  BY <1>1
<1>13. h <= B \/ off <= base + hs
  BY <1>10
<1> HIDE DEF u, base
<1>14. CASE w.done
  <2>1. u = w
    BY <1>6, <1>14
  <2>2. RegionKnows(md, off, B, i + 1, w)
    BY <1>8, <1>9, <1>14 DEF RegionKnows
  <2> QED BY <2>1, <2>2 DEF u
<1>15. CASE ~w.done /\ w.bits # 0
  <2>1. /\ u.done <=> b.left_free # BLOCK_BITS
        /\ u.off = w.off /\ u.bits = w.bits + b.left_free
    BY <1>6, <1>15
  <2>2. /\ w.off + w.bits = base
        /\ \A j \in BlockNr : j < i => md[j].contig_hint <= B \/ md[j].contig_hint <= w.bits
    BY <1>9, <1>15
  <2>3. u.off \in Nat /\ u.bits \in Nat /\ off <= u.off + u.bits /\ u.off < map_bits
        /\ w.bits <= u.bits
    BY <1>2, <1>8, <1>12, <1>15, <2>1, <2>2
  <2>4. CASE b.left_free = BLOCK_BITS
    <3>1. ~u.done /\ u.off + u.bits = base + BLOCK_BITS
      BY <1>2, <1>8, <2>1, <2>2, <2>4
    <3>2. ASSUME NEW j \in BlockNr, j < i + 1
          PROVE  md[j].contig_hint <= B \/ md[j].contig_hint <= u.bits
      <4>1. CASE j = i
        BY <1>2, <1>8, <1>12, <2>1, <2>4, <4>1
      <4>2. CASE j < i
        BY <1>1, <1>2, <1>8, <2>2, <2>3, <4>2
      <4> QED BY <1>2, <1>3, <3>2, <4>1, <4>2
    <3>3. RegionKnows(md, off, B, i + 1, u)
      BY <1>2, <2>3, <3>1, <3>2 DEF RegionKnows
    <3> QED BY <3>3 DEF u
  <2>5. CASE b.left_free # BLOCK_BITS
    <3>1. u.done /\ u.off + u.bits = base + b.left_free
      BY <1>2, <1>8, <1>12, <2>1, <2>2, <2>5
    <3>2. ASSUME NEW j \in BlockNr
          PROVE  \/ md[j].contig_hint <= B \/ md[j].contig_hint <= u.bits
                 \/ u.off + u.bits + 1 <= j * BLOCK_BITS + md[j].contig_hint_start
      <4>1. CASE j = i
        <5>1. h <= b.left_free \/ b.left_free + 1 <= hs
          BY <1>12, <2>5
        <5>2. CASE h <= b.left_free
          BY <1>8, <1>12, <2>1, <4>1, <5>2
        <5>3. CASE b.left_free + 1 <= hs
          BY <1>2, <1>12, <3>1, <4>1, <5>3 DEF base
        <5> QED BY <5>1, <5>2, <5>3
      <4>2. CASE j < i
        BY <1>1, <1>2, <1>8, <2>2, <2>3, <4>2
      <4>3. CASE i < j
        BY <1>1, <1>2, <1>3, <1>12, <2>5, <3>1, <4>3
      <4> QED BY <1>2, <1>3, <4>1, <4>2, <4>3
    <3>3. RegionKnows(md, off, B, i + 1, u)
      BY <2>3, <3>1, <3>2 DEF RegionKnows
    <3> QED BY <3>3 DEF u
  <2> QED BY <2>4, <2>5
<1>16. CASE ~w.done /\ w.bits = 0
  <2>0. \A j \in BlockNr : j < i => md[j].contig_hint <= B
    BY <1>1, <1>8, <1>9, <1>16
  <2>1. CASE /\ hs >= BlockOff(off, i) /\ h + hs < BLOCK_BITS
             /\ u.done /\ u.off = base + hs /\ u.bits = h
    <3>1. u.off \in Nat /\ u.bits \in Nat /\ u.off < map_bits
      BY <1>2, <1>12, <2>1
    <3>2. off <= u.off + u.bits
      <4>1. CASE i = Index(off)
        BY <1>2, <1>4, <1>5, <1>7, <1>12, <2>1, <4>1
      <4>2. CASE i # Index(off)
        <5>1. Index(off) < i
          BY <1>2, <1>4, <4>2
        <5>2. off <= base
          BY <1>8, <1>9, <1>16, <5>1
        <5> QED BY <1>2, <1>12, <2>1, <5>2
      <4> QED BY <4>1, <4>2
    <3>3. ASSUME NEW j \in BlockNr
          PROVE  \/ md[j].contig_hint <= B \/ md[j].contig_hint <= u.bits
                 \/ u.off + u.bits + 1 <= j * BLOCK_BITS + md[j].contig_hint_start
      <4>1. CASE j = i
        BY <1>12, <2>1, <4>1
      <4>2. CASE j < i
        BY <2>0, <4>2
      <4>3. CASE i < j
        BY <1>1, <1>2, <1>3, <1>12, <2>1, <4>3
      <4> QED BY <1>2, <1>3, <4>1, <4>2, <4>3
    <3>4. RegionKnows(md, off, B, i + 1, u)
      BY <2>1, <3>1, <3>2, <3>3 DEF RegionKnows
    <3> QED BY <3>4 DEF u
  <2>2. CASE /\ \/ h = 0 \/ hs < BlockOff(off, i) \/ h + hs >= BLOCK_BITS
             /\ u.done = FALSE /\ u.off = (i + 1) * BLOCK_BITS - b.right_free
             /\ u.bits = b.right_free
    <3>1. u.off \in Nat /\ u.bits \in Nat /\ u.off + u.bits = (i + 1) * BLOCK_BITS
      BY <1>2, <1>12, <2>2
    <3>2. off <= u.off + u.bits
      BY <1>2, <1>5, <3>1
    <3>3. h <= B \/ h <= u.bits
      <4>1. CASE h = 0
        BY <4>1
      <4>2. CASE hs < BlockOff(off, i)
        <5>1. i = Index(off)
          BY <1>7, <1>12, <4>2
        <5>2. ~(off <= base + hs)
          BY <1>2, <1>4, <1>5, <1>7, <1>12, <4>2, <5>1
        <5> QED BY <1>13, <5>2
      <4>3. CASE h + hs >= BLOCK_BITS
        BY <1>12, <2>2, <4>3
      <4> QED BY <2>2, <4>1, <4>2, <4>3
    <3>4. ASSUME NEW j \in BlockNr, j < i + 1
          PROVE  md[j].contig_hint <= B \/ md[j].contig_hint <= u.bits
      <4>1. CASE j = i
        BY <3>3, <4>1
      <4>2. CASE j < i
        BY <2>0, <4>2
      <4> QED BY <1>2, <1>3, <3>4, <4>1, <4>2
    <3>5. RegionKnows(md, off, B, i + 1, u)
      BY <2>2, <3>1, <3>2, <3>4 DEF RegionKnows
    <3> QED BY <3>5 DEF u
  <2> QED BY <1>6, <1>16, <2>1, <2>2
<1> QED BY <1>11, <1>14, <1>15, <1>16

-----------------------------------------------------------------------------
(***************************************************************************)
(* pcpu_for_each_md_free_region, and the hint of the chunk.                *)
(***************************************************************************)
\* What one call of pcpu_next_md_free_region finds.
RegionFound(md, off, B, r) ==
  /\ r.off \in Nat /\ r.bits \in Nat /\ off <= r.off + r.bits
  /\ r.off >= map_bits => \A j \in BlockNr : md[j].contig_hint <= B
  /\ r.off < map_bits =>
       \A j \in BlockNr :
         \/ md[j].contig_hint <= B \/ md[j].contig_hint <= r.bits
         \/ r.off + r.bits + 1 <= j * BLOCK_BITS + md[j].contig_hint_start

\* A call yields a region that covers the blocks it has passed, or comes to the
\* end of the map.
LEMMA NextFreeIs ==
  ASSUME NEW md, NEW map, AllFit(md, map), NEW off \in Nat, NEW B \in Nat,
         Covers(md, off, B)
  PROVE  RegionFound(md, off, B, NextFreeRegion(md, off))
<1> DEFINE walk == FreeRegionWalk(md, off)
           init == [done |-> FALSE, off |-> off, bits |-> 0]
           s == Index(off)
<1>0. md \in [BlockNr -> BlockMd] /\ NrBlocks \in Nat /\ BLOCK_BITS \in Nat /\ map_bits \in Nat
  BY Bases DEF AllFit
<1>1. /\ walk \in [0 .. NrBlocks -> RegionState]
      /\ \A i \in 0 .. NrBlocks :
           walk[i] = IF i <= s THEN init ELSE FreeRegionStep(md, off, i - 1, walk[i - 1])
  BY <1>0, FreeWalkIs
<1>2. s \in Nat /\ Off(off) \in 0 .. BLOCK_BITS - 1 /\ off = s * BLOCK_BITS + Off(off)
      /\ s * BLOCK_BITS \in Nat
  BY Split, Bases
<1>3. \A j \in BlockNr : /\ j \in Nat /\ j * BLOCK_BITS \in Nat
                         /\ md[j].contig_hint \in 0 .. BLOCK_BITS
                         /\ md[j].contig_hint_start \in 0 .. BLOCK_BITS
                         /\ md[j].contig_hint_start + md[j].contig_hint <= BLOCK_BITS
  <2>1. \A j \in BlockNr : j \in Nat /\ j * BLOCK_BITS \in Nat
    BY <1>0, Bases DEF BlockNr
  <2> QED BY <2>1, FieldsAgree DEF AllFit
<1>4. ASSUME NEW j \in BlockNr, j < s PROVE md[j].contig_hint <= B
  <2>1. j * BLOCK_BITS + BLOCK_BITS <= s * BLOCK_BITS
    BY <1>2, <1>3, <1>4, Bases
  <2>2. md[j].contig_hint <= B \/ off <= j * BLOCK_BITS + md[j].contig_hint_start
    BY DEF Covers
  <2> QED BY <1>0, <1>2, <1>3, <2>1, <2>2
<1>5. init.done = FALSE /\ init.off = off /\ init.bits = 0
  OBVIOUS
<1> HIDE DEF walk, init, s
<1>6. RegionKnows(md, off, B, s, init)
  <2>1. off + 0 = off /\ 0 \in Nat
    OBVIOUS
  <2> QED BY <1>2, <1>4, <1>5, <2>1 DEF RegionKnows, s
<1>7. CASE NrBlocks <= s
  <2>1. map_bits <= off
    BY <1>0, <1>2, <1>7, InMap DEF s
  <2>2. NrBlocks \in 0 .. NrBlocks
    BY <1>0
  <2>3. NextFreeRegion(md, off) = init
    BY <1>1, <1>7, <2>2 DEF NextFreeRegion, walk
  <2>4. ASSUME NEW j \in BlockNr PROVE md[j].contig_hint <= B
    <3>1. j < s
      BY <1>0, <1>2, <1>7 DEF BlockNr
    <3> QED BY <1>4, <3>1
  <2>5. off <= off + 0 /\ 0 \in Nat
    OBVIOUS
  <2>6. RegionFound(md, off, B, init)
    BY <1>0, <1>5, <2>1, <2>4, <2>5 DEF RegionFound
  <2> QED BY <2>3, <2>6
<1>8. CASE s < NrBlocks
  <2> DEFINE P == {k \in 0 .. NrBlocks : s <= k => RegionKnows(md, off, B, k, walk[k])}
             r == walk[NrBlocks]
  <2>1. ASSUME NEW k \in 0 .. NrBlocks, k = s PROVE RegionKnows(md, off, B, k, walk[k])
    <3>1. walk[k] = init
      BY <1>1, <1>2, <2>1
    <3> QED BY <1>6, <2>1, <3>1
  <2>2. 0 \in P
    <3>1. 0 \in 0 .. NrBlocks
      BY <1>0
    <3>2. s <= 0 => 0 = s
      BY <1>2
    <3> QED BY <2>1, <3>1, <3>2
  <2>3. ASSUME NEW k \in 0 .. NrBlocks - 1, k \in P PROVE k + 1 \in P
    <3>1. k + 1 \in 0 .. NrBlocks /\ (k + 1) - 1 = k /\ k \in BlockNr /\ k \in 0 .. NrBlocks
      BY <1>0 DEF BlockNr
    <3>2. CASE s <= k
      <4>1. RegionKnows(md, off, B, k, walk[k]) /\ walk[k] \in RegionState
        BY <1>1, <2>3, <3>1, <3>2
      <4>2. walk[k + 1] = FreeRegionStep(md, off, k, walk[k])
        <5>1. ~(k + 1 <= s)
          BY <1>2, <3>1, <3>2
        <5> QED BY <1>1, <3>1, <5>1
      <4>3. RegionKnows(md, off, B, k + 1, FreeRegionStep(md, off, k, walk[k]))
        BY <3>1, <3>2, <4>1, FreeStepKnows DEF s
      <4> QED BY <3>1, <4>2, <4>3
    <3>3. CASE k < s
      <4>1. s <= k + 1 => k + 1 = s
        BY <1>2, <3>1, <3>3
      <4> QED BY <2>1, <3>1, <4>1
    <3> QED BY <1>2, <3>1, <3>2, <3>3
  <2>4. NrBlocks \in P
    <3>1. \A k \in 0 .. NrBlocks - 1 : k \in P => k + 1 \in P
      BY <2>3
    <3> HIDE DEF P
    <3>2. 0 .. NrBlocks \subseteq P
      BY <1>0, <2>2, <3>1, Upwards
    <3> QED BY <1>0, <3>2
  <2>5. RegionKnows(md, off, B, NrBlocks, r)
    BY <1>0, <1>2, <1>8, <2>4
  <2>6. r \in RegionState /\ r.done \in BOOLEAN
    <3>1. r \in RegionState
      BY <1>0, <1>1
    <3> QED BY <3>1 DEF RegionState
  <2>7. NextFreeRegion(md, off) = r
    BY DEF NextFreeRegion, walk
  <2> HIDE DEF r, P
  <2>8. r.off \in Nat /\ r.bits \in Nat /\ off <= r.off + r.bits
    BY <2>5 DEF RegionKnows
  <2>9. CASE r.done
    <3>1. /\ r.off < map_bits
          /\ \A j \in BlockNr :
               \/ md[j].contig_hint <= B \/ md[j].contig_hint <= r.bits
               \/ r.off + r.bits + 1 <= j * BLOCK_BITS + md[j].contig_hint_start
      BY <2>5, <2>9 DEF RegionKnows
    <3>2. ~(r.off >= map_bits)
      BY <1>0, <2>8, <3>1
    <3>3. RegionFound(md, off, B, r)
      BY <2>8, <3>1, <3>2 DEF RegionFound
    <3> QED BY <2>7, <3>3
  <2>10. CASE ~r.done
    <3>1. /\ r.off + r.bits = map_bits
          /\ \A j \in BlockNr : j < NrBlocks =>
               md[j].contig_hint <= B \/ md[j].contig_hint <= r.bits
      BY <1>8, <2>5, <2>10, Bases DEF RegionKnows, s
    <3>2. ASSUME NEW j \in BlockNr PROVE md[j].contig_hint <= B \/ md[j].contig_hint <= r.bits
      <4>1. j < NrBlocks
        BY <1>0 DEF BlockNr
      <4> QED BY <3>1, <4>1
    <3>3. r.off >= map_bits => \A j \in BlockNr : md[j].contig_hint <= B
      <4> SUFFICES ASSUME r.off >= map_bits, NEW j \in BlockNr PROVE md[j].contig_hint <= B
        OBVIOUS
      <4>1. r.bits = 0
        BY <1>0, <2>8, <3>1
      <4> QED BY <1>3, <3>2, <4>1
    <3>4. RegionFound(md, off, B, r)
      BY <2>8, <3>2, <3>3 DEF RegionFound
    <3> QED BY <2>7, <3>4
  <2> QED BY <2>6, <2>9, <2>10
<1> QED BY <1>0, <1>2, <1>7, <1>8

\* Where a call begins does not matter to what it returns.
LEMMA NextFreeTyped ==
  ASSUME NEW md, NEW map, AllFit(md, map), NEW off \in Nat
  PROVE  NextFreeRegion(md, off).off \in Nat /\ NextFreeRegion(md, off).bits \in Nat
<1>1. BLOCK_BITS \in Nat
  BY Bases
<1>2. Covers(md, off, BLOCK_BITS)
  <2>1. \A j \in BlockNr : md[j].contig_hint \in 0 .. BLOCK_BITS
    BY FieldsAgree DEF AllFit
  <2> QED BY <1>1, <2>1 DEF Covers
<1>3. RegionFound(md, off, BLOCK_BITS, NextFreeRegion(md, off))
  BY <1>1, <1>2, NextFreeIs
<1> QED BY <1>3 DEF RegionFound

-----------------------------------------------------------------------------
\* The hint of the chunk,
Contig == [bits : Nat, start : Nat]
\* and what the rounds keep.
BestState == [off : Nat, best : Contig]

\* pcpu_chunk_update keeps the larger of two areas.
LEMMA ChunkUpdateIs ==
  ASSUME NEW c \in Contig, NEW off \in Nat, NEW n \in Nat
  PROVE  /\ pcpu_chunk_update(c, off, n) \in Contig
         /\ pcpu_chunk_update(c, off, n).bits >= c.bits
         /\ pcpu_chunk_update(c, off, n).bits >= n
<1> DEFINE t == n > c.bits \/ (n = c.bits /\ BetterStart(c.start, off))
           u == pcpu_chunk_update(c, off, n)
           new == [bits |-> n, start |-> off]
<1>1. c.bits \in Nat /\ c.start \in Nat
  BY DEF Contig
<1>2. u = IF t THEN new ELSE c
  BY DEF pcpu_chunk_update
<1>3. new \in Contig /\ new.bits = n
  BY DEF Contig
<1>4. (t => n >= c.bits) /\ (~t => n <= c.bits) /\ t \in BOOLEAN
  BY <1>1
<1> HIDE DEF t, u, new
<1>5. CASE t
  BY <1>1, <1>2, <1>3, <1>4, <1>5 DEF u
<1>6. CASE ~t
  BY <1>1, <1>2, <1>4, <1>6 DEF u
<1> QED BY <1>4, <1>5, <1>6

\* A round of pcpu_for_each_md_free_region: the part of the map below k, or all of it,
\* is covered.
BestKnows(md, k, w) ==
  /\ w \in BestState /\ Covers(md, w.off, w.best.bits)
  /\ w.off >= k \/ w.off >= map_bits

\* The cases of a round.
LEMMA BestStepIs ==
  ASSUME NEW md, NEW map, AllFit(md, map), NEW w \in BestState
  PROVE  LET r == NextFreeRegion(md, w.off)
             u == BestRegionStep(md, w)
         IN  /\ u \in BestState
             /\ r.off >= map_bits => u.off = r.off /\ u.best = w.best
             /\ r.off < map_bits =>
                  u.off = r.off + r.bits + 1 /\ u.best.bits >= w.best.bits
                  /\ u.best.bits >= r.bits
<1> DEFINE r == NextFreeRegion(md, w.off)
           u == BestRegionStep(md, w)
           c == pcpu_chunk_update(w.best, r.off, r.bits)
           go == [off |-> r.off + r.bits + 1, best |-> c]
           stay == [w EXCEPT !.off = r.off]
<1>1. w.off \in Nat /\ w.best \in Contig
  BY DEF BestState
<1>2. r.off \in Nat /\ r.bits \in Nat
  BY <1>1, NextFreeTyped
<1>3. u = IF r.off >= map_bits THEN stay ELSE go
  BY DEF BestRegionStep
<1> HIDE DEF r, u
<1>4. c \in Contig /\ c.bits >= w.best.bits /\ c.bits >= r.bits
  BY <1>1, <1>2, ChunkUpdateIs
<1> HIDE DEF c
<1>5. /\ go \in BestState /\ go.off = r.off + r.bits + 1 /\ go.best = c
      /\ stay \in BestState /\ stay.off = r.off /\ stay.best = w.best
  BY <1>2, <1>4 DEF BestState
<1> HIDE DEF go, stay
<1>6. map_bits \in Nat
  BY Bases
<1>7. CASE r.off >= map_bits
  BY <1>2, <1>3, <1>5, <1>6, <1>7 DEF u, r
<1>8. CASE r.off < map_bits
  <2>1. u = go
    BY <1>2, <1>3, <1>6, <1>8
  <2> QED BY <1>2, <1>4, <1>5, <1>6, <1>8, <2>1 DEF u, r
<1> QED BY <1>2, <1>6, <1>7, <1>8

\* A round keeps what is known, and gets further.
LEMMA BestStepKnows ==
  ASSUME NEW md, NEW map, AllFit(md, map), NEW k \in Nat, NEW w, BestKnows(md, k, w)
  PROVE  BestKnows(md, k + 1, BestRegionStep(md, w))
<1> DEFINE r == NextFreeRegion(md, w.off)
           u == BestRegionStep(md, w)
<1>0. w \in BestState /\ Covers(md, w.off, w.best.bits) /\ map_bits \in Nat
      /\ (w.off >= k \/ w.off >= map_bits)
  BY Bases DEF BestKnows
<1>1. w.off \in Nat /\ w.best \in Contig /\ w.best.bits \in Nat
  BY <1>0 DEF BestState, Contig
<1>2. RegionFound(md, w.off, w.best.bits, r)
  BY <1>0, <1>1, NextFreeIs
<1>3. /\ u \in BestState
      /\ r.off >= map_bits => u.off = r.off /\ u.best = w.best
      /\ r.off < map_bits =>
           u.off = r.off + r.bits + 1 /\ u.best.bits >= w.best.bits /\ u.best.bits >= r.bits
  BY <1>0, BestStepIs
<1>a. u.best.bits \in Nat
  BY <1>3 DEF BestState, Contig
<1> HIDE DEF r, u
<1>4. r.off \in Nat /\ r.bits \in Nat /\ w.off <= r.off + r.bits
  BY <1>2 DEF RegionFound
<1>b. \A j \in BlockNr : md[j].contig_hint \in Nat
  <2>1. \A j \in BlockNr : md[j].contig_hint \in 0 .. BLOCK_BITS
    BY FieldsAgree DEF AllFit
  <2> QED BY <2>1, Bases
<1>5. CASE r.off >= map_bits
  <2>1. \A j \in BlockNr : md[j].contig_hint <= w.best.bits
    BY <1>2, <1>5 DEF RegionFound
  <2>2. BestKnows(md, k + 1, u)
    BY <1>3, <1>5, <2>1 DEF BestKnows, Covers
  <2> QED BY <2>2 DEF u
<1>6. CASE r.off < map_bits
  <2>1. u.off = r.off + r.bits + 1 /\ u.best.bits >= w.best.bits /\ u.best.bits >= r.bits
    BY <1>3, <1>6
  <2>2. ASSUME NEW j \in BlockNr
        PROVE  md[j].contig_hint <= u.best.bits
               \/ u.off <= j * BLOCK_BITS + md[j].contig_hint_start
    <3>1. \/ md[j].contig_hint <= w.best.bits \/ md[j].contig_hint <= r.bits
          \/ r.off + r.bits + 1 <= j * BLOCK_BITS + md[j].contig_hint_start
      BY <1>2, <1>6 DEF RegionFound
    <3> QED BY <1>1, <1>4, <1>a, <1>b, <2>1, <3>1
  <2>3. u.off >= k + 1 \/ u.off >= map_bits
    BY <1>0, <1>1, <1>4, <2>1
  <2>4. BestKnows(md, k + 1, u)
    BY <1>3, <2>2, <2>3 DEF BestKnows, Covers
  <2> QED BY <2>4 DEF u
<1> QED BY <1>0, <1>4, <1>5, <1>6

\* The rounds of pcpu_for_each_md_free_region.
LEMMA BestWalkIs ==
  ASSUME NEW md, NEW map, AllFit(md, map), NEW off \in Nat, NEW c \in Contig
  PROVE  LET walk == BestRegionWalk(md, off, c)
         IN  /\ walk[0] = [off |-> off, best |-> c]
             /\ \A k \in 1 .. map_bits : walk[k] = BestRegionStep(md, walk[k - 1])
<1> DEFINE init == [off |-> off, best |-> c]
           step == [k \in 1 .. map_bits |-> [x \in BestState |-> BestRegionStep(md, x)]]
           F(g) == [k \in 0 .. map_bits |-> IF k = 0 THEN init ELSE BestRegionStep(md, g[k - 1])]
<1>0. map_bits \in Nat
  BY Bases
<1>1. init \in BestState
  BY DEF BestState
<1>2. ASSUME NEW x \in BestState PROVE BestRegionStep(md, x) \in BestState
  BY BestStepIs
<1>a. BestRegionWalk(md, off, c) = CHOOSE g : g = F(g)
  BY DEF BestRegionWalk
<1>3. step \in [1 .. map_bits -> [BestState -> BestState]]
  BY <1>2
<1>3a. \A k \in 1 .. map_bits, x \in BestState : step[k][x] = BestRegionStep(md, x)
  OBVIOUS
<1> HIDE DEF step, init
<1>4. PICK f \in [0 .. map_bits -> BestState] : Takes(f, map_bits, init, step)
  BY <1>0, <1>1, <1>3, Recursion
<1>4a. f[0] = init /\ \A k \in 1 .. map_bits : f[k] = step[k][f[k - 1]]
  BY <1>4 DEF Takes
<1>5. f = F(f)
  <2>1. ASSUME NEW k \in 0 .. map_bits
        PROVE  f[k] = IF k = 0 THEN init ELSE BestRegionStep(md, f[k - 1])
    <3>1. CASE k = 0
      BY <1>4a, <3>1
    <3>2. CASE k # 0
      <4>1. k \in 1 .. map_bits /\ f[k - 1] \in BestState
        BY <1>0, <3>2
      <4> QED BY <1>3a, <1>4a, <3>2, <4>1
    <3> QED BY <3>1, <3>2
  <2> QED BY <2>1
<1> HIDE DEF F
<1>6. BestRegionWalk(md, off, c) = F(BestRegionWalk(md, off, c))
  BY <1>a, <1>5
<1> DEFINE walk == BestRegionWalk(md, off, c)
<1>7. walk = [k \in 0 .. map_bits |-> IF k = 0 THEN init ELSE BestRegionStep(md, walk[k - 1])]
  BY <1>6 DEF F
<1> HIDE DEF walk
<1>8. /\ walk[0] = init
      /\ \A k \in 1 .. map_bits : walk[k] = BestRegionStep(md, walk[k - 1])
  <2>1. 0 \in 0 .. map_bits /\ \A k \in 1 .. map_bits : k \in 0 .. map_bits /\ k # 0
    BY <1>0
  <2> QED BY <1>7, <2>1
<1> QED BY <1>8 DEF walk, init

\* No free bit lies below first.
NoneBelow(first, map) == \A x \in 0 .. map_bits - 1 : x \notin map => first <= x

\* The hint of the chunk is not below what a block has.
HintCovers(md, c) == \A j \in BlockNr : c.bits >= md[j].contig_hint

\* Where a block says its longest free run is, there is a bit that is free.
LEMMA HintIsFree ==
  ASSUME NEW md, NEW map, AllFit(md, map), NEW j \in BlockNr, md[j].contig_hint # 0
  PROVE  LET x == j * BLOCK_BITS + md[j].contig_hint_start
         IN  x \in 0 .. map_bits - 1 /\ x \notin map
<1> DEFINE b == md[j]
           m == BlockMap(map, j)
           hs == b.contig_hint_start
<1>1. BlockFits(b, m)
  BY DEF AllFit
<1>2. /\ b.contig_hint \in 0 .. BLOCK_BITS /\ hs \in 0 .. BLOCK_BITS
      /\ hs + b.contig_hint <= BLOCK_BITS
      /\ \A k \in hs .. hs + b.contig_hint - 1 : k \notin m
  BY <1>1 DEF BlockFits, HintFits, ZeroRun
<1>3. BLOCK_BITS \in Nat /\ j \in Nat /\ j * BLOCK_BITS \in Nat /\ map_bits \in Nat
      /\ j * BLOCK_BITS + BLOCK_BITS <= map_bits
  <2>1. j \in Int /\ j \in Nat /\ j < NrBlocks /\ NrBlocks \in Int
    BY Bases DEF BlockNr
  <2> QED BY <2>1, Bases
<1>4. hs \in 0 .. BLOCK_BITS - 1 /\ hs \in hs .. hs + b.contig_hint - 1
  BY <1>2, <1>3
<1>5. hs \notin m
  BY <1>2, <1>4
<1>6. j * BLOCK_BITS + hs \notin map
  BY <1>4, <1>5 DEF BlockMap
<1> QED BY <1>3, <1>4, <1>6

\* pcpu_chunk_refresh_hint finds no less than a single block has.
LEMMA RefreshCovers ==
  ASSUME NEW md, NEW map, AllFit(md, map), NEW first \in Nat, NoneBelow(first, map),
         NEW c \in Contig
  PROVE  /\ pcpu_chunk_refresh_hint(md, first, c) \in Contig
         /\ HintCovers(md, pcpu_chunk_refresh_hint(md, first, c))
<1> DEFINE c0 == [c EXCEPT !.bits = 0]
           walk == BestRegionWalk(md, first, c0)
           init == [off |-> first, best |-> c0]
           w == walk[map_bits]
           P == {k \in 0 .. map_bits : BestKnows(md, k, walk[k])}
<1>0. map_bits \in Nat /\ BLOCK_BITS \in Nat
  BY Bases
<1>1. c0 \in Contig /\ c0.bits = 0
  BY DEF Contig
<1>2. init \in BestState /\ init.off = first /\ init.best = c0
  BY <1>1 DEF BestState
<1>3. walk[0] = init /\ \A k \in 1 .. map_bits : walk[k] = BestRegionStep(md, walk[k - 1])
  BY <1>1, BestWalkIs
<1>4. pcpu_chunk_refresh_hint(md, first, c) = w.best
  BY DEF pcpu_chunk_refresh_hint
<1> HIDE DEF c0, walk, init
<1>5. Covers(md, first, 0)
  <2> SUFFICES ASSUME NEW j \in BlockNr
               PROVE  md[j].contig_hint <= 0
                      \/ first <= j * BLOCK_BITS + md[j].contig_hint_start
    BY DEF Covers
  <2>1. CASE md[j].contig_hint = 0
    BY <2>1
  <2>2. CASE md[j].contig_hint # 0
    BY <2>2, HintIsFree DEF NoneBelow
  <2> QED BY <2>1, <2>2
<1>6. 0 \in P
  <2>1. BestKnows(md, 0, init)
    BY <1>1, <1>2, <1>5 DEF BestKnows
  <2> QED BY <1>0, <1>3, <2>1
<1>7. ASSUME NEW k \in 0 .. map_bits - 1, k \in P PROVE k + 1 \in P
  <2>1. k \in Nat /\ k + 1 \in 1 .. map_bits /\ (k + 1) - 1 = k /\ k + 1 \in 0 .. map_bits
    BY <1>0
  <2>2. BestKnows(md, k + 1, BestRegionStep(md, walk[k]))
    BY <1>7, <2>1, BestStepKnows
  <2>3. walk[k + 1] = BestRegionStep(md, walk[k])
    BY <1>3, <2>1
  <2> QED BY <2>1, <2>2, <2>3
<1>8. BestKnows(md, map_bits, w)
  <2>1. \A k \in 0 .. map_bits - 1 : k \in P => k + 1 \in P
    BY <1>7
  <2>2. map_bits \in P
    <3> HIDE DEF P
    <3>1. 0 .. map_bits \subseteq P
      BY <1>0, <1>6, <2>1, Upwards
    <3> QED BY <1>0, <3>1
  <2> QED BY <2>2
<1> HIDE DEF w, P
<1>9. /\ w \in BestState /\ Covers(md, w.off, w.best.bits) /\ w.off >= map_bits
  BY <1>8 DEF BestKnows
<1>10. w.off \in Nat /\ w.best \in Contig /\ w.best.bits \in Nat
  BY <1>9 DEF BestState, Contig
<1>11. ASSUME NEW j \in BlockNr PROVE w.best.bits >= md[j].contig_hint
  <2>1. md[j].contig_hint <= w.best.bits
        \/ w.off <= j * BLOCK_BITS + md[j].contig_hint_start
    BY <1>9 DEF Covers
  <2>2. md[j].contig_hint \in 0 .. BLOCK_BITS
    BY FieldsAgree DEF AllFit
  <2>3. CASE md[j].contig_hint = 0
    BY <1>10, <2>3
  <2>4. CASE md[j].contig_hint # 0
    <3>1. j * BLOCK_BITS + md[j].contig_hint_start \in 0 .. map_bits - 1
      BY <2>4, HintIsFree
    <3> QED BY <1>0, <1>9, <1>10, <2>1, <2>2, <3>1
  <2> QED BY <2>3, <2>4
<1>12. HintCovers(md, w.best)
  BY <1>11 DEF HintCovers
<1> QED BY <1>4, <1>10, <1>12

\* An allocation leaves no block more than it had.
LEMMA HintsShrink ==
  ASSUME NEW md, NEW old, AllFit(md, old), NEW new, NEW map, AllFit(new, map),
         old \subseteq map, NEW j \in BlockNr
  PROVE  new[j].contig_hint <= md[j].contig_hint
<1> DEFINE u == new[j]
           h == u.contig_hint
           hs == u.contig_hint_start
<1>1. /\ h \in 0 .. BLOCK_BITS /\ hs \in 0 .. BLOCK_BITS /\ hs + h <= BLOCK_BITS
      /\ ZeroRun(BlockMap(map, j), hs, hs + h)
  BY DEF AllFit, BlockFits, HintFits
<1>2. BlockMap(old, j) \subseteq BlockMap(map, j)
  BY DEF BlockMap
<1>3. ZeroRun(BlockMap(old, j), hs, hs + h)
  BY <1>1, <1>2 DEF ZeroRun
<1>4. LongestFits(md[j], BlockMap(old, j))
  BY DEF AllFit, BlockFits
<1> HIDE DEF h, hs
<1>5. BLOCK_BITS \in Nat
  BY Bases
<1>6. hs + h \in 0 .. BLOCK_BITS /\ (hs + h) - hs = h
  BY <1>1, <1>5
<1>7. (hs + h) - hs <= md[j].contig_hint
  BY <1>1, <1>3, <1>4, <1>6 DEF LongestFits
<1> QED BY <1>6, <1>7 DEF h

\* ContigAfterAlloc keeps the hint above what every block has.
LEMMA AllocCovers ==
  ASSUME NEW md, NEW old, AllFit(md, old), NEW new, NEW map, AllFit(new, map),
         old \subseteq map, NEW first \in Nat, NoneBelow(first, map),
         NEW c \in Contig, HintCovers(md, c), NEW off \in Nat
  PROVE  /\ ContigAfterAlloc(new, first, c, off) \in Contig
         /\ HintCovers(new, ContigAfterAlloc(new, first, c, off))
<1>1. CASE off >= c.start /\ off < c.start + c.bits
  <2>1. ContigAfterAlloc(new, first, c, off) = pcpu_chunk_refresh_hint(new, first, c)
    BY <1>1 DEF ContigAfterAlloc
  <2> QED BY <2>1, RefreshCovers
<1>2. CASE ~(off >= c.start /\ off < c.start + c.bits)
  <2>1. ContigAfterAlloc(new, first, c, off) = c
    BY <1>2 DEF ContigAfterAlloc
  <2>2. ASSUME NEW j \in BlockNr PROVE c.bits >= new[j].contig_hint
    <3>1. c.bits >= md[j].contig_hint
      BY DEF HintCovers
    <3>2. new[j].contig_hint <= md[j].contig_hint
      BY HintsShrink
    <3>3. md[j].contig_hint \in Int /\ new[j].contig_hint \in Int /\ c.bits \in Int
      BY Bases DEF AllFit, BlockMd, Contig
    <3> QED BY <3>1, <3>2, <3>3
  <2> QED BY <2>1, <2>2 DEF HintCovers
<1> QED BY <1>1, <1>2

\* FreeStart yields a bit of the block.
LEMMA FreeStartTyped ==
  ASSUME NEW old, AllFit(md_blocks, old), NEW map, NEW off \in Nat, off < map_bits
  PROVE  Index(off) \in BlockNr /\ Index(off) * BLOCK_BITS + FreeStart(map, off) \in Nat
<1> DEFINE s == Index(off)
           b == md_blocks[s]
           l_bit == find_last_bit(BlockMap(map, s), Off(off))
<1>1. s \in BlockNr /\ s * BLOCK_BITS \in Nat /\ Off(off) \in Nat
  <2>1. s \in Nat /\ s < NrBlocks /\ Off(off) \in 0 .. BLOCK_BITS - 1
    BY Split, InMap
  <2>2. NrBlocks \in Nat /\ s * BLOCK_BITS \in Nat /\ BLOCK_BITS \in Nat
    BY <2>1, Bases
  <2>3. s \in 0 .. NrBlocks - 1
    BY <2>1, <2>2
  <2> QED BY <2>1, <2>2, <2>3 DEF BlockNr
<1>2. b.contig_hint_start \in Nat
  <2>1. b.contig_hint_start \in 0 .. BLOCK_BITS
    BY <1>1, FieldsAgree DEF AllFit
  <2> QED BY <2>1, Bases
<1>3. l_bit \in Nat
  <2>1. l_bit \in 0 .. Off(off)
    BY <1>1, LastBit
  <2> QED BY <1>1, <2>1
<1>4. FreeStart(map, off) = IF Off(off) = b.contig_hint + b.contig_hint_start
                              THEN b.contig_hint_start
                              ELSE IF l_bit = Off(off) THEN 0 ELSE l_bit + 1
  BY DEF FreeStart
<1>5. FreeStart(map, off) \in Nat
  <2> HIDE DEF l_bit, b, s
  <2>1. l_bit + 1 \in Nat /\ 0 \in Nat
    BY <1>3
  <2> QED BY <1>2, <1>4, <2>1
<1> QED BY <1>1, <1>5

\* ContigAfterFree keeps the hint above what every block has.
LEMMA FreeCovers ==
  ASSUME NEW old, AllFit(md_blocks, old), NEW off \in Nat, NEW n \in Nat \ {0},
         off + n <= map_bits, NEW map, AllFit(BlocksAfterFree(map, off, n), map),
         contig \in Contig, HintCovers(md_blocks, contig),
         NEW first \in Nat, NoneBelow(first, map)
  PROVE  LET c == ContigAfterFree(map, BlocksAfterFree(map, off, n), first, off, n)
         IN  c \in Contig /\ HintCovers(BlocksAfterFree(map, off, n), c)
<1> DEFINE new == BlocksAfterFree(map, off, n)
           c == ContigAfterFree(map, new, first, off, n)
           s == Index(off)
           e == Index(off + n - 1)
           start == FreeStart(map, off)
           end == FreeEnd(map, off + n - 1)
           across == s # e \/ ALIGN_DOWN(end, BLOCK_BITS) > ALIGN(start, BLOCK_BITS)
           near == pcpu_chunk_update(contig, s * BLOCK_BITS + start, new[s].contig_hint)
<1>1. c = IF across THEN pcpu_chunk_refresh_hint(new, first, contig) ELSE near
  BY DEF ContigAfterFree
<1>2. CASE across
  <2>1. c = pcpu_chunk_refresh_hint(new, first, contig)
    BY <1>1, <1>2
  <2> HIDE DEF c, new
  <2>2. AllFit(new, map)
    BY DEF new
  <2>3. c \in Contig /\ HintCovers(new, c)
    BY <2>1, <2>2, RefreshCovers
  <2> QED BY <2>3 DEF c, new
<1>3. CASE ~across
  <2>1. c = near /\ s = e
    BY <1>1, <1>3
  <2>2. s \in BlockNr /\ s * BLOCK_BITS + start \in Nat
    <3>1. off < map_bits
      BY Bases
    <3> QED BY <3>1, FreeStartTyped
  <2>3. ASSUME NEW j \in BlockNr, j # s PROVE new[j] = md_blocks[j]
    <3>1. j \in Int /\ s \in Int /\ j \in 0 .. NrBlocks - 1 /\ ~(s < j /\ j < s) /\ ~(s < j /\ j = s)
      BY <2>2 DEF BlockNr
    <3>2. j < s \/ s < j
      BY <2>3, <3>1
    <3> HIDE DEF s, start, end
    <3> QED BY <2>1, <2>3, <3>1, <3>2 DEF BlocksAfterFree, s, e, start, end
  <2>4. \A j \in BlockNr : new[j].contig_hint \in Nat
    <3>1. \A j \in BlockNr : new[j].contig_hint \in 0 .. BLOCK_BITS
      BY FieldsAgree DEF AllFit
    <3> QED BY <3>1, Bases
  <2> HIDE DEF c, new, s, start
  <2>5. near \in Contig /\ near.bits >= contig.bits /\ near.bits >= new[s].contig_hint
    BY <2>2, <2>4, ChunkUpdateIs
  <2> HIDE DEF near
  <2>6. contig.bits \in Nat /\ near.bits \in Nat
    BY <2>5 DEF Contig
  <2>7. ASSUME NEW j \in BlockNr PROVE near.bits >= new[j].contig_hint
    <3>1. CASE j = s
      BY <2>5, <3>1
    <3>2. CASE j # s
      <4>1. contig.bits >= md_blocks[j].contig_hint
        BY DEF HintCovers
      <4>2. new[j] = md_blocks[j]
        BY <2>3, <3>2
      <4> QED BY <2>4, <2>5, <2>6, <4>1, <4>2
    <3> QED BY <3>1, <3>2
  <2>8. c \in Contig /\ HintCovers(new, c)
    BY <2>1, <2>5, <2>7 DEF HintCovers
  <2> QED BY <2>8 DEF c, new
<1> QED BY <1>2, <1>3

-----------------------------------------------------------------------------
(***************************************************************************)
(* Alignment: multiples of the alignment.                                  *)
(***************************************************************************)
\* ALIGN yields a natural number.
LEMMA AlignTyped ==
  ASSUME NEW x \in Int, NEW a \in Nat \ {0}
  PROVE  ALIGN(x, a) \in Int
<1>1. (x + a - 1) \div a \in Int
  OBVIOUS
<1> QED BY <1>1 DEF ALIGN

\* Division with remainder.
LEMMA Quotient ==
  ASSUME NEW y \in Nat, NEW a \in Nat \ {0}
  PROVE  /\ y \div a \in Nat /\ y % a \in 0 .. a - 1
         /\ y = (y \div a) * a + (y % a)
OBVIOUS

\* A multiple leaves no remainder.
LEMMA MultipleOf ==
  ASSUME NEW q \in Int, NEW a \in Nat \ {0}
  PROVE  (q * a) % a = 0
OBVIOUS

\* Laws of multiplication the solver does not find by itself.
LEMMA Distributes ==
  ASSUME NEW p \in Int, NEW q \in Int, NEW a \in Int
  PROVE  p * a + q * a = (p + q) * a
OBVIOUS

LEMMA Associates ==
  ASSUME NEW p \in Int, NEW q \in Int, NEW a \in Int
  PROVE  p * (q * a) = (p * q) * a
OBVIOUS

LEMMA Less ==
  ASSUME NEW p \in Int, NEW q \in Int, NEW a \in Nat \ {0}, p * a < q * a + a
  PROVE  p <= q /\ p * a <= q * a
OBVIOUS

\* A multiple is the quotient times the divisor.
LEMMA MultipleIs ==
  ASSUME NEW y \in Nat, NEW a \in Nat \ {0}, y % a = 0
  PROVE  y \div a \in Nat /\ y = (y \div a) * a
<1>1. /\ y \div a \in Nat /\ y = (y \div a) * a + (y % a)
  BY Quotient
<1> DEFINE p == (y \div a) * a
<1>2. p \in Int
  BY <1>1
<1> HIDE DEF p
<1>3. y = p
  BY <1>1, <1>2 DEF p
<1> QED BY <1>1, <1>3 DEF p

\* Sums and products of multiples are multiples.
LEMMA SumOfMultiples ==
  ASSUME NEW x \in Nat, NEW y \in Nat, NEW a \in Nat \ {0}, x % a = 0, y % a = 0
  PROVE  (x + y) % a = 0
<1>1. PICK p \in Nat : x = p * a
  BY MultipleIs
<1>2. PICK q \in Nat : y = q * a
  BY MultipleIs
<1>3. x + y = (p + q) * a
  BY <1>1, <1>2, Distributes
<1>4. p + q \in Int
  OBVIOUS
<1> QED BY <1>3, <1>4, MultipleOf

LEMMA ProductOfMultiple ==
  ASSUME NEW i \in Nat, NEW y \in Nat, NEW a \in Nat \ {0}, y % a = 0
  PROVE  (i * y) % a = 0
<1>1. PICK q \in Nat : y = q * a
  BY MultipleIs
<1>2. i * y = (i * q) * a
  BY <1>1, Associates
<1>3. i * q \in Int
  OBVIOUS
<1> QED BY <1>2, <1>3, MultipleOf

\* ALIGN rounds up to the next multiple.
LEMMA AlignIs ==
  ASSUME NEW x \in Nat, NEW a \in Nat \ {0}
  PROVE  /\ ALIGN(x, a) \in Nat /\ x <= ALIGN(x, a) /\ ALIGN(x, a) <= x + a - 1
         /\ ALIGN(x, a) % a = 0
         /\ \A z \in Nat : x <= z /\ z % a = 0 => ALIGN(x, a) <= z
<1> DEFINE y == x + a - 1
           q == y \div a
           r == y % a
<1>1. y \in Nat
  OBVIOUS
<1>2. q \in Nat /\ r \in 0 .. a - 1 /\ y = q * a + r
  <2> HIDE DEF y
  <2> QED BY <1>1, Quotient
<1>3. ALIGN(x, a) = q * a
  BY DEF ALIGN
<1>a. y = x + a - 1
  OBVIOUS
<1> HIDE DEF q, r, y
<1>4. q * a \in Int
  BY <1>2
<1> DEFINE t == q * a
<1>5. t \in Nat /\ x <= t /\ t <= x + a - 1
  <2>1. t \in Int /\ y = t + r
    BY <1>2, <1>4
  <2> HIDE DEF t
  <2> QED BY <1>1, <1>2, <1>a, <2>1
<1>6. t % a = 0
  BY <1>2, MultipleOf
<1>7. ASSUME NEW z \in Nat, x <= z, z % a = 0 PROVE t <= z
  <2>1. PICK k \in Nat : z = k * a
    BY <1>7, MultipleIs
  <2>2. t < k * a + a
    <3> HIDE DEF t
    <3> QED BY <1>5, <1>7, <2>1
  <2>3. q * a <= k * a
    BY <1>2, <2>2, Less
  <2> QED BY <2>1, <2>3
<1> QED BY <1>3, <1>5, <1>6, <1>7

-----------------------------------------------------------------------------
(***************************************************************************)
(* pcpu_next_fit_region.                                                   *)
(***************************************************************************)
\* The bits that are lost to align the longest run of a block, and where the
\* space at its right side begins once aligned.
Pad(b, align)     == ALIGN(b.contig_hint_start, align) - b.contig_hint_start
LastFit(b, align) == ALIGN(BLOCK_BITS - b.right_free, align)

\* u is what the search for room for `bits' knows behind block i.
FitStepIs(b, bits, align, i, w, u) ==
  /\ u \in RegionState
  /\ w.done => u = w
  /\ ~w.done /\ w.bits # 0 /\ w.bits + b.left_free >= bits =>
       u.done /\ u.off = w.off /\ u.bits = w.bits
  /\ ~w.done /\ w.bits # 0 /\ w.bits + b.left_free < bits /\ b.left_free = BLOCK_BITS =>
       ~u.done /\ u.off = w.off /\ u.bits = w.bits + BLOCK_BITS
  /\ ~w.done /\ (w.bits = 0 \/ (w.bits + b.left_free < bits /\ b.left_free # BLOCK_BITS)) =>
       \/ /\ b.contig_hint # 0 /\ b.contig_hint_start >= BlockOff(first_bit, i)
          /\ b.contig_hint >= Pad(b, align) + bits
          /\ u.done /\ u.off = i * BLOCK_BITS + b.first_free /\ u.bits = bits
       \/ /\ \/ b.contig_hint = 0 \/ b.contig_hint_start < BlockOff(first_bit, i)
             \/ b.contig_hint < Pad(b, align) + bits
          /\ u.done <=> BLOCK_BITS - LastFit(b, align) >= bits
          /\ u.off = i * BLOCK_BITS + LastFit(b, align)
          /\ u.bits = BLOCK_BITS - LastFit(b, align)

\* The four things a step may do.
Stop(w)       == [w EXCEPT !.done = TRUE]
Longer(w)     == [w EXCEPT !.bits = @ + BLOCK_BITS]
Here(x, n)    == [done |-> TRUE, off |-> x, bits |-> n]
Rest(d, x, n) == [done |-> d, off |-> x, bits |-> n]

\* Their fields.
LEMMA StopIs ==
  ASSUME NEW w \in RegionState
  PROVE  Stop(w) \in RegionState /\ Stop(w).done = TRUE /\ Stop(w).off = w.off
         /\ Stop(w).bits = w.bits
BY DEF Stop, RegionState

LEMMA LongerIs ==
  ASSUME NEW w \in RegionState
  PROVE  Longer(w) \in RegionState /\ Longer(w).done = w.done /\ Longer(w).off = w.off
         /\ Longer(w).bits = w.bits + BLOCK_BITS
BY Bases DEF Longer, RegionState

LEMMA HereIs ==
  ASSUME NEW x \in Int, NEW n \in Int
  PROVE  Here(x, n) \in RegionState /\ Here(x, n).done = TRUE /\ Here(x, n).off = x
         /\ Here(x, n).bits = n
BY DEF Here, RegionState

LEMMA RestIs ==
  ASSUME NEW d \in BOOLEAN, NEW x \in Int, NEW n \in Int
  PROVE  Rest(d, x, n) \in RegionState /\ Rest(d, x, n).done = d /\ Rest(d, x, n).off = x
         /\ Rest(d, x, n).bits = n
BY DEF Rest, RegionState

\* A step of pcpu_next_fit_region follows these cases.
LEMMA FitStepTyped ==
  ASSUME md_blocks \in [BlockNr -> BlockMd], first_bit \in Nat, NEW bits \in Nat,
         NEW align \in Nat \ {0}, NEW i \in BlockNr, NEW w \in RegionState
  PROVE  FitStepIs(md_blocks[i], bits, align, i, w, FitRegionStep(bits, align, i, w))
<1> DEFINE b == md_blocks[i]
           u == FitRegionStep(bits, align, i, w)
           pad == Pad(b, align)
           last == LastFit(b, align)
           base == i * BLOCK_BITS
           t == /\ b.contig_hint # 0 /\ b.contig_hint_start >= BlockOff(first_bit, i)
                /\ b.contig_hint >= pad + bits
           d == BLOCK_BITS - last >= bits
           rest == Rest(d, base + last, BLOCK_BITS - last)
           here == Here(base + b.first_free, bits)
<1>1. /\ b.contig_hint \in Int /\ b.contig_hint_start \in Int /\ b.left_free \in Int
      /\ b.right_free \in Int /\ b.first_free \in Int
  <2>1. b \in BlockMd
    OBVIOUS
  <2> QED BY <2>1 DEF BlockMd
<1>2. i \in Int /\ BLOCK_BITS \in Int /\ base \in Int
  BY Bases DEF BlockNr
<1>3. w.done \in BOOLEAN /\ w.off \in Int /\ w.bits \in Int
  BY DEF RegionState
<1>4. BlockOff(first_bit, i) \in Int
  <2>1. Off(first_bit) \in Int
    BY <1>2, Split
  <2> QED BY <2>1 DEF BlockOff
<1>5. pad \in Int /\ last \in Int
  <2>1. ALIGN(b.contig_hint_start, align) \in Int
    BY <1>1, AlignTyped
  <2>2. BLOCK_BITS - b.right_free \in Int
    BY <1>1, <1>2
  <2>3. last \in Int
    BY <2>2, AlignTyped DEF LastFit
  <2> QED BY <1>1, <2>1, <2>3 DEF Pad
<1>6. u = IF w.done THEN w
          ELSE IF w.bits # 0 /\ w.bits + b.left_free >= bits THEN Stop(w)
          ELSE IF w.bits # 0 /\ b.left_free = BLOCK_BITS THEN Longer(w)
          ELSE IF t THEN here ELSE rest
  BY DEF FitRegionStep, Stop, Longer, Here, Rest, Pad, LastFit
<1> HIDE DEF pad, last, u, b, base
<1>7. /\ here \in RegionState /\ here.done = TRUE /\ here.off = base + b.first_free
      /\ here.bits = bits
  <2>1. base + b.first_free \in Int /\ bits \in Int
    BY <1>1, <1>2
  <2> QED BY <2>1, HereIs
<1>8. /\ rest \in RegionState /\ rest.done = d /\ rest.off = base + last
      /\ rest.bits = BLOCK_BITS - last
  <2>1. base + last \in Int /\ BLOCK_BITS - last \in Int /\ d \in BOOLEAN
    BY <1>2, <1>5
  <2> HIDE DEF d
  <2> QED BY <2>1, RestIs
<1>9. t \in BOOLEAN /\ d \in BOOLEAN
  OBVIOUS
<1>10. ~t => \/ b.contig_hint = 0 \/ b.contig_hint_start < BlockOff(first_bit, i)
             \/ b.contig_hint < pad + bits
  BY <1>1, <1>2, <1>4, <1>5
<1>11. t => /\ b.contig_hint # 0 /\ b.contig_hint_start >= BlockOff(first_bit, i)
            /\ b.contig_hint >= pad + bits
  OBVIOUS
<1> HIDE DEF t, d, here, rest
<1>12. CASE w.done
  <2>1. u = w
    BY <1>6, <1>12
  <2> QED BY <1>12, <2>1 DEF FitStepIs, u
<1>13. CASE ~w.done /\ w.bits # 0 /\ w.bits + b.left_free >= bits
  <2>1. u = Stop(w)
    BY <1>6, <1>13
  <2>2. u \in RegionState /\ u.done = TRUE /\ u.off = w.off /\ u.bits = w.bits
    BY <2>1, StopIs
  <2>3. ~(w.bits + b.left_free < bits)
    BY <1>1, <1>3, <1>13
  <2> QED BY <1>13, <2>2, <2>3 DEF FitStepIs, u, b
<1>14. CASE ~w.done /\ w.bits # 0 /\ w.bits + b.left_free < bits /\ b.left_free = BLOCK_BITS
  <2>0. ~(w.bits + b.left_free >= bits)
    BY <1>1, <1>3, <1>14
  <2>1. u = Longer(w)
    BY <1>6, <1>14, <2>0
  <2>2. u \in RegionState /\ u.done = w.done /\ u.off = w.off /\ u.bits = w.bits + BLOCK_BITS
    BY <2>1, LongerIs
  <2> QED BY <1>14, <2>0, <2>2 DEF FitStepIs, u, b
<1>15. CASE ~w.done /\ (w.bits = 0 \/ (w.bits + b.left_free < bits /\ b.left_free # BLOCK_BITS))
  <2>0. /\ ~(w.bits # 0 /\ w.bits + b.left_free >= bits)
        /\ ~(w.bits # 0 /\ b.left_free = BLOCK_BITS)
    BY <1>1, <1>3, <1>15
  <2>1. u = IF t THEN here ELSE rest
    BY <1>6, <1>15, <2>0
  <2>2. CASE t
    <3>1. u = here
      BY <2>1, <2>2
    <3>2. /\ b.contig_hint # 0 /\ b.contig_hint_start >= BlockOff(first_bit, i)
          /\ b.contig_hint >= pad + bits
      BY <1>11, <2>2
    <3> QED BY <1>7, <1>15, <2>0, <3>1, <3>2 DEF FitStepIs, u, b, pad, base
  <2>3. CASE ~t
    <3>1. u = rest
      BY <2>1, <2>3
    <3>2. \/ b.contig_hint = 0 \/ b.contig_hint_start < BlockOff(first_bit, i)
          \/ b.contig_hint < pad + bits
      BY <1>10, <2>3
    <3>3. u.done <=> BLOCK_BITS - last >= bits
      BY <1>8, <3>1 DEF d
    <3> QED BY <1>8, <1>15, <2>0, <3>1, <3>2, <3>3 DEF FitStepIs, u, b, pad, last, base
  <2> QED BY <1>9, <2>2, <2>3
<1> QED BY <1>1, <1>3, <1>12, <1>13, <1>14, <1>15

\* The blocks pcpu_next_fit_region goes through.
LEMMA FitWalkIs ==
  ASSUME md_blocks \in [BlockNr -> BlockMd], first_bit \in Nat, NEW bits \in Nat,
         NEW align \in Nat \ {0}
  PROVE  LET walk == FitRegionWalk(bits, align)
         IN  /\ walk \in [0 .. NrBlocks -> RegionState]
             /\ \A i \in 0 .. NrBlocks :
                  walk[i] = IF i <= Index(first_bit)
                              THEN [done |-> FALSE, off |-> first_bit, bits |-> 0]
                              ELSE FitRegionStep(bits, align, i - 1, walk[i - 1])
<1> DEFINE init == [done |-> FALSE, off |-> first_bit, bits |-> 0]
           S(k, x) == IF k <= Index(first_bit) THEN init
                      ELSE FitRegionStep(bits, align, k - 1, x)
           step == [k \in 1 .. NrBlocks |-> [x \in RegionState |-> S(k, x)]]
           F(g) == [k \in 0 .. NrBlocks |->
                      IF k <= Index(first_bit) THEN init
                      ELSE FitRegionStep(bits, align, k - 1, g[k - 1])]
<1>0. NrBlocks \in Nat /\ Index(first_bit) \in Nat
  BY Bases, Split
<1>1. init \in RegionState
  BY DEF RegionState
<1>2. ASSUME NEW k \in 1 .. NrBlocks, NEW x \in RegionState PROVE S(k, x) \in RegionState
  <2>1. k - 1 \in BlockNr
    BY <1>0 DEF BlockNr
  <2>2. FitRegionStep(bits, align, k - 1, x) \in RegionState
    BY <2>1, FitStepTyped DEF FitStepIs
  <2> QED BY <1>1, <2>2
<1>a. FitRegionWalk(bits, align) = CHOOSE g : g = F(g)
  BY DEF FitRegionWalk
<1>b. \A k, x : S(k, x) = IF k <= Index(first_bit) THEN init
                          ELSE FitRegionStep(bits, align, k - 1, x)
  OBVIOUS
<1> HIDE DEF S
<1>3. step \in [1 .. NrBlocks -> [RegionState -> RegionState]]
  BY <1>2
<1>3a. \A k \in 1 .. NrBlocks, x \in RegionState : step[k][x] = S(k, x)
  OBVIOUS
<1> HIDE DEF step, init
<1>4. PICK f \in [0 .. NrBlocks -> RegionState] : Takes(f, NrBlocks, init, step)
  BY <1>0, <1>1, <1>3, Recursion
<1>4a. f[0] = init /\ \A k \in 1 .. NrBlocks : f[k] = step[k][f[k - 1]]
  BY <1>4 DEF Takes
<1>5. f = F(f)
  <2>1. ASSUME NEW k \in 0 .. NrBlocks
        PROVE  f[k] = IF k <= Index(first_bit) THEN init
                      ELSE FitRegionStep(bits, align, k - 1, f[k - 1])
    <3>1. CASE k = 0
      BY <1>0, <1>4a, <3>1
    <3>2. CASE k # 0
      <4>1. k \in 1 .. NrBlocks /\ f[k - 1] \in RegionState
        BY <1>0, <3>2
      <4> QED BY <1>3a, <1>4a, <1>b, <4>1
    <3> QED BY <3>1, <3>2
  <2> QED BY <2>1
<1> HIDE DEF F
<1>6. FitRegionWalk(bits, align) = F(FitRegionWalk(bits, align))
  BY <1>a, <1>5
<1> DEFINE walk == FitRegionWalk(bits, align)
<1>7. walk = [k \in 0 .. NrBlocks |-> IF k <= Index(first_bit) THEN init
                                      ELSE FitRegionStep(bits, align, k - 1, walk[k - 1])]
  BY <1>6 DEF F
<1> HIDE DEF walk
<1>8. \A k \in 0 .. NrBlocks : walk[k] = IF k <= Index(first_bit) THEN init
                                         ELSE FitRegionStep(bits, align, k - 1, walk[k - 1])
  BY <1>7
<1>9. \A k \in 0 .. NrBlocks : walk[k] \in RegionState
  <2> DEFINE P == {k \in 0 .. NrBlocks : walk[k] \in RegionState}
  <2>1. 0 \in P
    <3>1. 0 \in 0 .. NrBlocks /\ 0 <= Index(first_bit)
      BY <1>0
    <3> QED BY <1>1, <1>8, <3>1
  <2>2. ASSUME NEW k \in 0 .. NrBlocks - 1, k \in P PROVE k + 1 \in P
    <3>1. k + 1 \in 1 .. NrBlocks /\ (k + 1) - 1 = k /\ walk[k] \in RegionState
          /\ k + 1 \in 0 .. NrBlocks
      BY <1>0, <2>2
    <3>2. walk[k + 1] = S(k + 1, walk[k])
      BY <1>8, <1>b, <3>1
    <3>3. walk[k + 1] \in RegionState
      BY <1>2, <3>1, <3>2
    <3> QED BY <3>1, <3>3
  <2>3. 0 .. NrBlocks \subseteq P
    <3> HIDE DEF P
    <3> QED BY <1>0, <2>1, <2>2, Upwards
  <2> QED BY <2>3
<1>10. walk \in [0 .. NrBlocks -> RegionState]
  <2>1. walk = [k \in 0 .. NrBlocks |-> walk[k]]
    BY <1>7
  <2> QED BY <1>9, <2>1
<1> QED BY <1>8, <1>10 DEF walk, init

\* a divides x.
Divides(a, x) == x % a = 0

\* An aligned block offset plus an aligned offset is aligned.
LEMMA DividesSum ==
  ASSUME NEW x \in Nat, NEW y \in Nat, NEW a \in Nat \ {0}, Divides(a, x), Divides(a, y)
  PROVE  Divides(a, x + y)
BY SumOfMultiples DEF Divides

\* A run of a block is a run of the map.
LEMMA RunInMap ==
  ASSUME NEW map, NEW i \in Nat, NEW p \in 0 .. BLOCK_BITS, NEW q \in 0 .. BLOCK_BITS,
         ZeroRun(BlockMap(map, i), p, q)
  PROVE  ZeroRun(map, i * BLOCK_BITS + p, i * BLOCK_BITS + q)
<1> DEFINE base == i * BLOCK_BITS
<1>1. base \in Nat /\ BLOCK_BITS \in Nat
  BY Bases
<1>2. \A k \in 0 .. BLOCK_BITS - 1 : base + k \in map => k \in BlockMap(map, i)
  BY DEF BlockMap
<1> HIDE DEF base
<1>3. ASSUME NEW k \in base + p .. (base + q) - 1 PROVE k \notin map
  <2> DEFINE x == k - base
  <2>1. x \in p .. q - 1 /\ x \in 0 .. BLOCK_BITS - 1 /\ base + x = k
    BY <1>1
  <2> HIDE DEF x
  <2>2. x \notin BlockMap(map, i)
    BY <2>1 DEF ZeroRun
  <2> QED BY <1>2, <2>1, <2>2
<1> QED BY <1>3 DEF ZeroRun, base

\* There is room for an aligned area no more than a block behind off.
Room(map, off, bits, align) ==
  \E p \in Nat : /\ off <= p /\ p <= off + BLOCK_BITS /\ Divides(align, p)
                 /\ p + bits <= map_bits /\ ZeroRun(map, p, p + bits)

\* What the search knows when it comes to block i: a fit has room, and so has the
\* beginning of one as far as it reaches.
FitKnows(bits, align, i, w) ==
  /\ w.off \in Nat /\ w.bits \in Nat
  /\ ~w.done /\ w.bits # 0 =>
       /\ w.off + w.bits = i * BLOCK_BITS /\ Divides(align, w.off)
       /\ ZeroRun(alloc_map, w.off, i * BLOCK_BITS)
  /\ w.done => w.off < map_bits /\ Room(alloc_map, w.off, bits, align)

\* A step of the search keeps what it knows.
LEMMA FitStepKnows ==
  ASSUME AllFit(md_blocks, alloc_map), first_bit \in Nat, NEW bits \in Nat \ {0},
         NEW align \in Nat \ {0}, Divides(align, BLOCK_BITS), NEW i \in BlockNr,
         NEW w \in RegionState, FitKnows(bits, align, i, w)
  PROVE  FitKnows(bits, align, i + 1, FitRegionStep(bits, align, i, w))
<1> DEFINE b == md_blocks[i]
           u == FitRegionStep(bits, align, i, w)
           m == BlockMap(alloc_map, i)
           base == i * BLOCK_BITS
           hs == b.contig_hint_start
           h == b.contig_hint
           l == b.left_free
           f == b.first_free
           at == ALIGN(hs, align)
           last == LastFit(b, align)
<1>0. md_blocks \in [BlockNr -> BlockMd] /\ BlockFits(b, m) /\ bits \in Nat /\ bits >= 1
  BY DEF AllFit
<1>1. /\ i \in Nat /\ BLOCK_BITS \in Nat /\ BLOCK_BITS > 0 /\ base \in Nat
      /\ (i + 1) * BLOCK_BITS = base + BLOCK_BITS /\ map_bits \in Nat
      /\ base + BLOCK_BITS <= map_bits
  <2>1. i \in Int /\ i \in Nat /\ i < NrBlocks /\ NrBlocks \in Int
    BY Bases DEF BlockNr
  <2> QED BY <2>1, Bases
<1>2. /\ h \in 0 .. BLOCK_BITS /\ hs \in 0 .. BLOCK_BITS /\ hs + h <= BLOCK_BITS
      /\ l \in 0 .. BLOCK_BITS /\ b.right_free \in 0 .. BLOCK_BITS /\ f \in 0 .. BLOCK_BITS
      /\ ZeroRun(m, hs, hs + h) /\ ZeroRun(m, 0, l)
      /\ ZeroRun(m, BLOCK_BITS - b.right_free, BLOCK_BITS)
      /\ \A k \in 0 .. f - 1 : k \in m
  BY <1>0 DEF BlockFits, HintFits, LeftFits, RightFits, FirstFits
<1>3. Divides(align, base)
  BY <1>1, ProductOfMultiple DEF Divides
<1>4. FitStepIs(b, bits, align, i, w, u)
  BY <1>0, FitStepTyped
<1>5. w.done \in BOOLEAN
  BY DEF RegionState
<1>6. w.off \in Nat /\ w.bits \in Nat
  BY DEF FitKnows
<1>7. /\ at \in Nat /\ hs <= at /\ Divides(align, at) /\ Pad(b, align) = at - hs
  <2>1. hs \in Nat
    BY <1>1, <1>2
  <2> QED BY <2>1, AlignIs DEF Pad, Divides
<1>8. /\ last \in Nat /\ Divides(align, last) /\ BLOCK_BITS - b.right_free <= last
      /\ last <= BLOCK_BITS
  <2>1. BLOCK_BITS - b.right_free \in Nat /\ BLOCK_BITS - b.right_free <= BLOCK_BITS
    BY <1>1, <1>2
  <2> QED BY <1>1, <2>1, AlignIs DEF LastFit, Divides
<1> HIDE DEF u, base, m, hs, h, l, f, at, last
<1>9. CASE w.done
  <2>1. u = w
    BY <1>4, <1>9 DEF FitStepIs
  <2>2. FitKnows(bits, align, i + 1, w)
    BY <1>6, <1>9 DEF FitKnows
  <2> QED BY <2>1, <2>2 DEF u
<1>10. ASSUME ~w.done, w.bits # 0
       PROVE  /\ w.off + w.bits = base /\ Divides(align, w.off) /\ ZeroRun(alloc_map, w.off, base)
              /\ w.off < map_bits
  <2>1. w.off + w.bits = base /\ Divides(align, w.off) /\ ZeroRun(alloc_map, w.off, base)
    BY <1>10 DEF FitKnows, base
  <2> QED BY <1>1, <1>6, <1>10, <2>1
<1>11. CASE ~w.done /\ w.bits # 0 /\ w.bits + l >= bits
  <2>1. u.done /\ u.off = w.off /\ u.bits = w.bits
    BY <1>4, <1>11 DEF FitStepIs, l
  <2>2. ZeroRun(alloc_map, base, base + l)
    <3>1. 0 \in 0 .. BLOCK_BITS
      BY <1>1
    <3>2. ZeroRun(alloc_map, i * BLOCK_BITS + 0, i * BLOCK_BITS + l)
      BY <1>1, <1>2, <3>1, RunInMap DEF m
    <3>3. base + 0 = base
      BY <1>1
    <3> QED BY <3>2, <3>3 DEF base
  <2>3. w.off + bits <= base + l
    BY <1>0, <1>1, <1>2, <1>6, <1>10, <1>11
  <2>4. ZeroRun(alloc_map, w.off, w.off + bits)
    <3>1. ASSUME NEW k \in w.off .. (w.off + bits) - 1 PROVE k \notin alloc_map
      <4>1. k \in w.off .. base - 1 \/ k \in base .. (base + l) - 1
        BY <1>0, <1>1, <1>2, <1>6, <2>3
      <4> QED BY <1>10, <1>11, <2>2, <4>1 DEF ZeroRun
    <3> QED BY <3>1 DEF ZeroRun
  <2>5. /\ w.off <= w.off /\ w.off <= w.off + BLOCK_BITS
        /\ w.off + bits <= map_bits
    BY <1>0, <1>1, <1>2, <1>6, <2>3
  <2>6. Room(alloc_map, w.off, bits, align)
    BY <1>6, <1>10, <1>11, <2>4, <2>5 DEF Room
  <2>7. FitKnows(bits, align, i + 1, u)
    BY <1>6, <1>10, <1>11, <2>1, <2>6 DEF FitKnows
  <2> QED BY <2>7 DEF u
<1>12. CASE ~w.done /\ w.bits # 0 /\ w.bits + l < bits /\ l = BLOCK_BITS
  <2>1. ~u.done /\ u.off = w.off /\ u.bits = w.bits + BLOCK_BITS
    BY <1>4, <1>12 DEF FitStepIs, l
  <2>2. ZeroRun(alloc_map, base, base + BLOCK_BITS)
    <3>1. 0 \in 0 .. BLOCK_BITS /\ BLOCK_BITS \in 0 .. BLOCK_BITS
      BY <1>1
    <3>2. ZeroRun(alloc_map, i * BLOCK_BITS + 0, i * BLOCK_BITS + BLOCK_BITS)
      BY <1>1, <1>2, <1>12, <3>1, RunInMap DEF m
    <3>3. base + 0 = base
      BY <1>1
    <3> QED BY <3>2, <3>3 DEF base
  <2>3. ZeroRun(alloc_map, w.off, base + BLOCK_BITS)
    <3>1. ASSUME NEW k \in w.off .. (base + BLOCK_BITS) - 1 PROVE k \notin alloc_map
      <4>1. k \in w.off .. base - 1 \/ k \in base .. (base + BLOCK_BITS) - 1
        BY <1>1, <1>6
      <4> QED BY <1>10, <1>12, <2>2, <4>1 DEF ZeroRun
    <3> QED BY <3>1 DEF ZeroRun
  <2>4. u.bits \in Nat /\ u.off + u.bits = base + BLOCK_BITS
    BY <1>1, <1>6, <1>10, <1>12, <2>1
  <2>5. FitKnows(bits, align, i + 1, u)
    BY <1>1, <1>6, <1>10, <1>12, <2>1, <2>3, <2>4 DEF FitKnows
  <2> QED BY <2>5 DEF u
<1>13. CASE ~w.done /\ (w.bits = 0 \/ (w.bits + l < bits /\ l # BLOCK_BITS))
  <2>0. \/ /\ h # 0 /\ h >= Pad(b, align) + bits
           /\ u.done /\ u.off = base + f /\ u.bits = bits
        \/ /\ u.done <=> BLOCK_BITS - last >= bits
           /\ u.off = base + last /\ u.bits = BLOCK_BITS - last
    BY <1>4, <1>13 DEF FitStepIs, l, h, base, f, last
  <2>1. CASE /\ h # 0 /\ h >= Pad(b, align) + bits
             /\ u.done /\ u.off = base + f /\ u.bits = bits
    <3> DEFINE p == base + at
    <3>1. at + bits <= hs + h
      BY <1>0, <1>1, <1>2, <1>7, <2>1
    <3>2. f <= hs
      <4> SUFFICES ASSUME hs < f PROVE FALSE
        BY <1>1, <1>2
      <4>1. hs \in 0 .. f - 1 /\ hs \in hs .. hs + h - 1
        BY <1>1, <1>2, <2>1
      <4> QED BY <1>2, <4>1 DEF ZeroRun
    <3>3. p \in Nat /\ Divides(align, p)
      <4>1. base \in Nat /\ at \in Nat
        BY <1>1, <1>7
      <4> QED BY <1>3, <1>7, <4>1, DividesSum
    <3>4. base + f <= p /\ p <= base + f + BLOCK_BITS /\ p + bits <= map_bits
      BY <1>0, <1>1, <1>2, <1>7, <3>1, <3>2
    <3>5. ZeroRun(alloc_map, p, p + bits)
      <4>1. hs + h \in 0 .. BLOCK_BITS
        BY <1>1, <1>2
      <4>2. ZeroRun(alloc_map, i * BLOCK_BITS + hs, i * BLOCK_BITS + (hs + h))
        BY <1>1, <1>2, <4>1, RunInMap DEF m
      <4>3. ZeroRun(alloc_map, base + hs, base + (hs + h))
        BY <4>2 DEF base
      <4>4. ASSUME NEW k \in p .. (p + bits) - 1 PROVE k \notin alloc_map
        <5>1. k \in base + hs .. (base + (hs + h)) - 1
          BY <1>0, <1>1, <1>2, <1>7, <3>1
        <5> QED BY <4>3, <5>1 DEF ZeroRun
      <4> QED BY <4>4 DEF ZeroRun
    <3> HIDE DEF p
    <3>6. Room(alloc_map, base + f, bits, align)
      BY <3>3, <3>4, <3>5 DEF Room
    <3>7. u.off \in Nat /\ u.bits \in Nat /\ u.off < map_bits
      BY <1>0, <1>1, <1>2, <2>1, <3>2
    <3>8. FitKnows(bits, align, i + 1, u)
      BY <2>1, <3>6, <3>7 DEF FitKnows
    <3> QED BY <3>8 DEF u
  <2>2. CASE /\ u.done <=> BLOCK_BITS - last >= bits
             /\ u.off = base + last /\ u.bits = BLOCK_BITS - last
    <3>1. ZeroRun(alloc_map, base + last, base + BLOCK_BITS)
      <4>1. ZeroRun(m, last, BLOCK_BITS)
        <5>1. \A k \in last .. BLOCK_BITS - 1 : k \in BLOCK_BITS - b.right_free .. BLOCK_BITS - 1
          BY <1>1, <1>2, <1>8
        <5> QED BY <1>2, <5>1 DEF ZeroRun
      <4>2. last \in 0 .. BLOCK_BITS /\ BLOCK_BITS \in 0 .. BLOCK_BITS
        BY <1>1, <1>8
      <4>3. ZeroRun(alloc_map, i * BLOCK_BITS + last, i * BLOCK_BITS + BLOCK_BITS)
        BY <1>1, <4>1, <4>2, RunInMap DEF m
      <4> QED BY <4>3 DEF base
    <3>2. u.off \in Nat /\ u.bits \in Nat /\ u.off + u.bits = base + BLOCK_BITS
      BY <1>1, <1>8, <2>2
    <3>3. Divides(align, u.off)
      <4>1. base \in Nat /\ last \in Nat
        BY <1>1, <1>8
      <4> QED BY <1>3, <1>8, <2>2, <4>1, DividesSum
    <3>4. ZeroRun(alloc_map, u.off, base + BLOCK_BITS)
      BY <2>2, <3>1
    <3>5. u.done => u.off < map_bits /\ Room(alloc_map, u.off, bits, align)
      <4> SUFFICES ASSUME u.done PROVE u.off < map_bits /\ Room(alloc_map, u.off, bits, align)
        OBVIOUS
      <4>1. u.off + bits <= base + BLOCK_BITS
        BY <1>0, <1>1, <1>8, <2>2
      <4>2. u.off <= u.off /\ u.off <= u.off + BLOCK_BITS /\ u.off + bits <= map_bits
            /\ u.off < map_bits
        BY <1>0, <1>1, <3>2, <4>1
      <4>3. ZeroRun(alloc_map, u.off, u.off + bits)
        <5>1. \A k \in u.off .. (u.off + bits) - 1 : k \in u.off .. (base + BLOCK_BITS) - 1
          BY <1>0, <1>1, <3>2, <4>1
        <5> QED BY <3>4, <5>1 DEF ZeroRun
      <4> QED BY <3>2, <3>3, <4>2, <4>3 DEF Room
    <3>6. FitKnows(bits, align, i + 1, u)
      BY <1>1, <3>2, <3>3, <3>4, <3>5 DEF FitKnows
    <3> QED BY <3>6 DEF u
  <2> QED BY <2>0, <2>1, <2>2
<1> QED BY <1>0, <1>1, <1>2, <1>5, <1>6, <1>9, <1>11, <1>12, <1>13

\* What is known of the walk at every block.
LEMMA FitWalkKnows ==
  ASSUME AllFit(md_blocks, alloc_map), first_bit \in Nat, NEW bits \in Nat \ {0},
         NEW align \in Nat \ {0}, Divides(align, BLOCK_BITS), NEW k \in 0 .. NrBlocks
  PROVE  FitKnows(bits, align, k, FitRegionWalk(bits, align)[k])
<1> DEFINE walk == FitRegionWalk(bits, align)
           init == [done |-> FALSE, off |-> first_bit, bits |-> 0]
           P == {i \in 0 .. NrBlocks : FitKnows(bits, align, i, walk[i])}
<1>0. md_blocks \in [BlockNr -> BlockMd] /\ NrBlocks \in Nat /\ bits \in Nat
      /\ Index(first_bit) \in Nat
  BY Bases, Split DEF AllFit
<1>1. /\ walk \in [0 .. NrBlocks -> RegionState]
      /\ \A i \in 0 .. NrBlocks :
           walk[i] = IF i <= Index(first_bit) THEN init
                     ELSE FitRegionStep(bits, align, i - 1, walk[i - 1])
  BY <1>0, FitWalkIs
<1>2. init.done = FALSE /\ init.off = first_bit /\ init.bits = 0
  OBVIOUS
<1> HIDE DEF walk, init
<1>3. \A i : FitKnows(bits, align, i, init)
  BY <1>2 DEF FitKnows
<1>4. 0 \in P
  <2>1. 0 \in 0 .. NrBlocks /\ 0 <= Index(first_bit)
    BY <1>0
  <2> QED BY <1>1, <1>3, <2>1
<1>5. ASSUME NEW i \in 0 .. NrBlocks - 1, i \in P PROVE i + 1 \in P
  <2>1. i + 1 \in 0 .. NrBlocks /\ (i + 1) - 1 = i /\ i \in BlockNr /\ i \in 0 .. NrBlocks
    BY <1>0 DEF BlockNr
  <2>2. CASE i + 1 <= Index(first_bit)
    BY <1>1, <1>3, <2>1, <2>2
  <2>3. CASE ~(i + 1 <= Index(first_bit))
    <3>1. walk[i + 1] = FitRegionStep(bits, align, i, walk[i])
      BY <1>1, <2>1, <2>3
    <3>2. walk[i] \in RegionState /\ FitKnows(bits, align, i, walk[i])
      BY <1>1, <1>5, <2>1
    <3>3. FitKnows(bits, align, i + 1, FitRegionStep(bits, align, i, walk[i]))
      BY <2>1, <3>2, FitStepKnows
    <3> QED BY <2>1, <3>1, <3>3
  <2> QED BY <2>2, <2>3
<1>6. 0 .. NrBlocks \subseteq P
  <2>1. \A i \in 0 .. NrBlocks - 1 : i \in P => i + 1 \in P
    BY <1>5
  <2> HIDE DEF P
  <2> QED BY <1>0, <1>4, <2>1, Upwards
<1> QED BY <1>6 DEF walk

\* Where pcpu_next_fit_region says there is room there is.
LEMMA FitIsRoom ==
  ASSUME AllFit(md_blocks, alloc_map), first_bit \in Nat, NEW bits \in Nat \ {0},
         NEW align \in Nat \ {0}, Divides(align, BLOCK_BITS),
         NextFitRegion(bits, align) # map_bits
  PROVE  /\ NextFitRegion(bits, align) \in Nat
         /\ Room(alloc_map, NextFitRegion(bits, align), bits, align)
<1> DEFINE w == FitRegionWalk(bits, align)[NrBlocks]
<1>1. NrBlocks \in 0 .. NrBlocks
  BY Bases
<1>2. FitKnows(bits, align, NrBlocks, w)
  BY <1>1, FitWalkKnows
<1>3. NextFitRegion(bits, align) = IF w.done THEN w.off ELSE map_bits
  BY DEF NextFitRegion
<1> HIDE DEF w
<1>4. w.done /\ NextFitRegion(bits, align) = w.off
  BY <1>3
<1> QED BY <1>2, <1>4 DEF FitKnows

\* A block with the room to align the request in ends the search.
LEMMA RoomyBlockIsFit ==
  ASSUME AllFit(md_blocks, alloc_map), first_bit \in Nat, NoneBelow(first_bit, alloc_map),
         NEW bits \in Nat \ {0}, NEW align \in Nat \ {0}, Divides(align, BLOCK_BITS),
         NEW j \in BlockNr, md_blocks[j].contig_hint >= bits + align - 1
  PROVE  NextFitRegion(bits, align) \in Nat /\ NextFitRegion(bits, align) < map_bits
<1> DEFINE walk == FitRegionWalk(bits, align)
           init == [done |-> FALSE, off |-> first_bit, bits |-> 0]
           b == md_blocks[j]
           w == walk[j]
           u == walk[j + 1]
<1>0. /\ md_blocks \in [BlockNr -> BlockMd] /\ NrBlocks \in Nat /\ bits \in Nat /\ bits >= 1
      /\ Index(first_bit) \in Nat /\ BLOCK_BITS \in Nat
      /\ Off(first_bit) \in 0 .. BLOCK_BITS - 1
      /\ first_bit = Index(first_bit) * BLOCK_BITS + Off(first_bit)
  BY Bases, Split DEF AllFit
<1>1. /\ walk \in [0 .. NrBlocks -> RegionState]
      /\ \A i \in 0 .. NrBlocks :
           walk[i] = IF i <= Index(first_bit) THEN init
                     ELSE FitRegionStep(bits, align, i - 1, walk[i - 1])
  BY <1>0, FitWalkIs
<1>2. /\ j \in Nat /\ j \in 0 .. NrBlocks /\ j + 1 \in 0 .. NrBlocks /\ (j + 1) - 1 = j
      /\ j * BLOCK_BITS \in Nat
  BY <1>0, Bases DEF BlockNr
<1>3. /\ b.contig_hint \in 0 .. BLOCK_BITS /\ b.contig_hint_start \in 0 .. BLOCK_BITS
      /\ b.left_free \in 0 .. BLOCK_BITS /\ b.contig_hint_start + b.contig_hint <= BLOCK_BITS
  BY FieldsAgree DEF AllFit
<1>4. b.contig_hint >= bits /\ b.contig_hint # 0
  BY <1>0, <1>3
<1>5. first_bit <= j * BLOCK_BITS + b.contig_hint_start
  BY <1>4, HintIsFree DEF NoneBelow
<1>6. Index(first_bit) <= j
  <2> SUFFICES ASSUME j < Index(first_bit) PROVE FALSE
    BY <1>0, <1>2
  <2>1. j * BLOCK_BITS + BLOCK_BITS <= Index(first_bit) * BLOCK_BITS
    BY <1>0, <1>2, Bases
  <2>2. Index(first_bit) * BLOCK_BITS \in Nat
    BY <1>0, Bases
  <2> QED BY <1>0, <1>2, <1>3, <1>4, <1>5, <2>1, <2>2
<1>7. b.contig_hint_start >= BlockOff(first_bit, j)
  <2>1. CASE j = Index(first_bit)
    <3>1. BlockOff(first_bit, j) = Off(first_bit)
      BY <2>1 DEF BlockOff
    <3>2. first_bit = j * BLOCK_BITS + Off(first_bit)
      BY <1>0, <2>1
    <3> QED BY <1>0, <1>2, <1>3, <1>5, <3>1, <3>2
  <2>2. CASE j # Index(first_bit)
    BY <1>0, <1>3, <2>2 DEF BlockOff
  <2> QED BY <2>1, <2>2
<1>8. Pad(b, align) \in Int /\ Pad(b, align) <= align - 1
  <2>1. b.contig_hint_start \in Nat
    BY <1>0, <1>3
  <2> DEFINE at == ALIGN(b.contig_hint_start, align)
  <2>2. at \in Nat /\ at <= b.contig_hint_start + align - 1
    BY <2>1, AlignIs
  <2>3. Pad(b, align) = at - b.contig_hint_start
    BY DEF Pad
  <2> HIDE DEF at
  <2> QED BY <2>1, <2>2, <2>3
<1>9. b.contig_hint >= Pad(b, align) + bits
  BY <1>0, <1>3, <1>8
<1>10. BlockOff(first_bit, j) \in Int
  BY <1>0 DEF BlockOff
<1> HIDE DEF walk, init
<1>11. w \in RegionState /\ u = FitRegionStep(bits, align, j, w)
  <2>1. ~(j + 1 <= Index(first_bit))
    BY <1>0, <1>2, <1>6
  <2> QED BY <1>1, <1>2, <2>1
<1>12. FitStepIs(b, bits, align, j, w, u)
  BY <1>0, <1>11, FitStepTyped
<1>13. w.done \in BOOLEAN /\ w.bits \in Int
  BY <1>11 DEF RegionState
<1>a. w.bits \in Nat
  <2>1. FitKnows(bits, align, j, w)
    BY <1>2, FitWalkKnows DEF walk
  <2> QED BY <2>1 DEF FitKnows
<1> HIDE DEF w, u
<1>14. u.done
  <2>1. CASE w.done
    BY <1>12, <2>1 DEF FitStepIs
  <2>2. CASE ~w.done /\ w.bits # 0 /\ w.bits + b.left_free >= bits
    BY <1>12, <2>2 DEF FitStepIs
  <2>3. CASE ~w.done /\ w.bits # 0 /\ w.bits + b.left_free < bits /\ b.left_free = BLOCK_BITS
    BY <1>0, <1>3, <1>4, <1>a, <2>3
  <2>4. CASE ~w.done /\ (w.bits = 0 \/ (w.bits + b.left_free < bits /\ b.left_free # BLOCK_BITS))
    <3>1. ~(\/ b.contig_hint = 0 \/ b.contig_hint_start < BlockOff(first_bit, j)
            \/ b.contig_hint < Pad(b, align) + bits)
      BY <1>0, <1>3, <1>4, <1>7, <1>8, <1>9, <1>10
    <3> QED BY <1>12, <2>4, <3>1 DEF FitStepIs
  <2> QED BY <1>0, <1>3, <1>13, <2>1, <2>2, <2>3, <2>4
<1>15. walk[NrBlocks].done
  <2> DEFINE P == {i \in 0 .. NrBlocks : i >= j + 1 => walk[i].done}
  <2>1. 0 \in P
    BY <1>0, <1>2
  <2>2. ASSUME NEW i \in 0 .. NrBlocks - 1, i \in P PROVE i + 1 \in P
    <3>1. i + 1 \in 0 .. NrBlocks /\ (i + 1) - 1 = i /\ i \in BlockNr /\ i \in 0 .. NrBlocks
      BY <1>0 DEF BlockNr
    <3>2. CASE i = j
      BY <1>14, <3>1, <3>2 DEF u
    <3>3. CASE i >= j + 1
      <4>1. walk[i].done /\ walk[i] \in RegionState
        BY <1>1, <2>2, <3>1, <3>3
      <4>2. ~(i + 1 <= Index(first_bit))
        BY <1>0, <1>2, <1>6, <3>1, <3>3
      <4>3. walk[i + 1] = FitRegionStep(bits, align, i, walk[i])
        BY <1>1, <3>1, <4>2
      <4>4. walk[i + 1] = walk[i]
        BY <1>0, <3>1, <4>1, <4>3, FitStepTyped DEF FitStepIs
      <4> QED BY <3>1, <4>1, <4>4
    <3>4. CASE i < j
      BY <1>2, <3>1, <3>4
    <3> QED BY <1>2, <3>1, <3>2, <3>3, <3>4
  <2>3. \A i \in 0 .. NrBlocks - 1 : i \in P => i + 1 \in P
    BY <2>2
  <2>4. NrBlocks \in P
    <3> HIDE DEF P
    <3>1. 0 .. NrBlocks \subseteq P
      BY <1>0, <2>1, <2>3, Upwards
    <3> QED BY <1>0, <3>1
  <2>5. NrBlocks >= j + 1
    BY <1>0, <1>2
  <2> QED BY <2>4, <2>5
<1>16. NextFitRegion(bits, align) = walk[NrBlocks].off
  BY <1>15 DEF NextFitRegion, walk
<1>17. FitKnows(bits, align, NrBlocks, walk[NrBlocks])
  <2>1. NrBlocks \in 0 .. NrBlocks
    BY <1>0
  <2> QED BY <2>1, FitWalkKnows DEF walk
<1> QED BY <1>15, <1>16, <1>17 DEF FitKnows

-----------------------------------------------------------------------------
(***************************************************************************)
(* pcpu_find_block_fit, pcpu_alloc_area and the slots of the chunk lists.  *)
(***************************************************************************)
\* The free bits of the chunk.
FreeBits(map) == (0 .. map_bits - 1) \ map

\* pcpu_alloc_area finds the room there is, and never leaves the map.
LEMMA RoomIsArea ==
  ASSUME NEW start \in Nat, NEW bits \in Nat \ {0}, NEW align \in Nat \ {0},
         Room(alloc_map, start, bits, align)
  PROVE  LET off == AreaFrom(start, bits, align)
         IN  off \in Nat /\ off + bits <= map_bits /\ ZeroRun(alloc_map, off, off + bits)
<1> DEFINE end == start + bits + BLOCK_BITS
           T == {i \in start .. end - bits :
                   i % align = 0 /\ (i .. i + bits - 1) \cap alloc_map = {}}
           off == find_next_zero_area(alloc_map, end, start, bits, align)
<1>0. BLOCK_BITS \in Nat /\ map_bits \in Nat /\ bits \in Nat /\ bits >= 1
  BY Bases
<1>1. end \in Nat /\ end - bits = start + BLOCK_BITS /\ end >= start + BLOCK_BITS + 1
  BY <1>0
<1>2. off = FirstOf(T, end)
  BY DEF find_next_zero_area
<1>3. AreaFrom(start, bits, align) = IF off >= end THEN -1 ELSE off
  BY DEF AreaFrom
<1>4. PICK p \in Nat : /\ start <= p /\ p <= start + BLOCK_BITS /\ Divides(align, p)
                       /\ p + bits <= map_bits /\ ZeroRun(alloc_map, p, p + bits)
  BY DEF Room
<1>5. p \in T
  <2>1. p \in start .. end - bits
    BY <1>0, <1>1, <1>4
  <2>2. (p .. p + bits - 1) \cap alloc_map = {}
    <3>1. p + bits - 1 = (p + bits) - 1
      BY <1>0
    <3> QED BY <1>4, <3>1 DEF ZeroRun
  <2>3. p % align = 0
    BY <1>4 DEF Divides
  <2> QED BY <2>1, <2>2, <2>3
<1>6. T \subseteq Nat
  <2>1. start .. end - bits \subseteq Nat
    BY <1>0, <1>1
  <2> QED BY <2>1
<1>7. \A i \in T : (i .. i + bits - 1) \cap alloc_map = {}
  OBVIOUS
<1> HIDE DEF T, end, off
<1>8. off \in T \cup {end} /\ off <= p /\ off \in Nat
  <2>1. /\ FirstOf(T, end) \in T \cup {end} /\ FirstOf(T, end) \in Nat
        /\ \A y \in T : FirstOf(T, end) <= y
    BY <1>1, <1>6, FirstOfIs
  <2> QED BY <1>2, <1>5, <2>1
<1>9. off < end
  BY <1>0, <1>1, <1>4, <1>8
<1>10. off \in T
  BY <1>1, <1>8, <1>9
<1>11. AreaFrom(start, bits, align) = off
  <2>1. ~(off >= end)
    BY <1>1, <1>8, <1>9
  <2> QED BY <1>3, <2>1
<1>12. off + bits <= map_bits
  BY <1>0, <1>4, <1>8
<1>13. ZeroRun(alloc_map, off, off + bits)
  <2>1. off + bits - 1 = (off + bits) - 1
    BY <1>0, <1>8
  <2> QED BY <1>7, <1>10, <2>1 DEF ZeroRun
<1> QED BY <1>8, <1>11, <1>12, <1>13

\* Where pcpu_find_block_fit says there is a fit.
LEMMA FitIsArea ==
  ASSUME AllFit(md_blocks, alloc_map), first_bit \in Nat, NEW bits \in Nat \ {0},
         NEW align \in Nat \ {0}, Divides(align, BLOCK_BITS),
         pcpu_find_block_fit(bits, align) # -1
  PROVE  LET off == AreaFrom(pcpu_find_block_fit(bits, align), bits, align)
         IN  off \in Nat /\ off + bits <= map_bits /\ ZeroRun(alloc_map, off, off + bits)
<1> DEFINE start == NextFitRegion(bits, align)
<1>1. start # map_bits /\ pcpu_find_block_fit(bits, align) = start
  BY DEF pcpu_find_block_fit
<1>2. start \in Nat /\ Room(alloc_map, start, bits, align)
  BY <1>1, FitIsRoom
<1> HIDE DEF start
<1> QED BY <1>1, <1>2, RoomIsArea

\* What is found for a request lies free inside the map.
LEMMA FoundIsArea ==
  ASSUME AllFit(md_blocks, alloc_map), first_bit \in Nat, NEW bits \in Nat \ {0},
         NEW align \in Nat \ {0}, Divides(align, BLOCK_BITS), Found(bits, align) # -1
  PROVE  /\ Found(bits, align) \in Nat /\ Found(bits, align) + bits <= map_bits
         /\ ZeroRun(alloc_map, Found(bits, align), Found(bits, align) + bits)
<1> DEFINE start == pcpu_find_block_fit(bits, align)
<1>1. start # -1 /\ Found(bits, align) = AreaFrom(start, bits, align)
  BY DEF Found
<1>2. LET off == AreaFrom(start, bits, align)
      IN  off \in Nat /\ off + bits <= map_bits /\ ZeroRun(alloc_map, off, off + bits)
  BY <1>1, FitIsArea
<1> QED BY <1>1, <1>2

-----------------------------------------------------------------------------
\* fls yields a natural number.
LEMMA FlsTyped ==
  ASSUME NEW x \in Nat
  PROVE  fls(x) \in Nat
<1>1. 1 \in Int /\ x \in Int
  OBVIOUS
<1>2. IsFiniteSet(1 .. x)
  BY <1>1, FS_Interval
<1>3. {2 ^ k : k \in 0 .. 30} \cap (1 .. x) \in SUBSET (1 .. x)
  OBVIOUS
<1>4. IsFiniteSet({2 ^ k : k \in 0 .. 30} \cap (1 .. x))
  BY <1>2, <1>3, FS_Subset
<1> QED BY <1>4, FS_CardinalityType DEF fls

\* A larger size has no lower slot.
LEMMA BytesToSlots ==
  ASSUME NEW x \in Nat, NEW y \in Nat, x <= y
  PROVE  /\ bytes_to_slot(x) \in Int /\ bytes_to_slot(y) \in Int
         /\ bytes_to_slot(x) <= bytes_to_slot(y)
<1> DEFINE Pow == {2 ^ k : k \in 0 .. 30}
           X == Pow \cap (1 .. x)
           Y == Pow \cap (1 .. y)
<1>1. fls(x) = Cardinality(X) /\ fls(y) = Cardinality(Y)
  BY DEF fls
<1>2. fls(x) \in Nat /\ fls(y) \in Nat
  BY FlsTyped
<1> HIDE DEF Pow
<1>3. X \in SUBSET Y
  <2>1. 1 .. x \subseteq 1 .. y
    OBVIOUS
  <2> QED BY <2>1
<1>4. IsFiniteSet(Y)
  <2>1. 1 \in Int /\ y \in Int
    OBVIOUS
  <2>2. IsFiniteSet(1 .. y)
    BY <2>1, FS_Interval
  <2>3. Y \in SUBSET (1 .. y)
    OBVIOUS
  <2> HIDE DEF Y
  <2> QED BY <2>2, <2>3, FS_Subset
<1> HIDE DEF X, Y
<1>5. fls(x) <= fls(y)
  BY <1>1, <1>3, <1>4, FS_Subset
<1>6. /\ fls(x) - 5 + 2 \in Int /\ fls(y) - 5 + 2 \in Int /\ 1 \in Int
      /\ fls(x) - 5 + 2 <= fls(y) - 5 + 2
  BY <1>2, <1>5
<1> DEFINE p == fls(x) - 5 + 2
           q == fls(y) - 5 + 2
<1>7. /\ bytes_to_slot(x) = Max({p, 1}) /\ bytes_to_slot(y) = Max({q, 1})
      /\ p \in Int /\ q \in Int /\ p <= q
  BY <1>6 DEF bytes_to_slot
<1> HIDE DEF p, q
<1>8. Max({p, 1}) = (IF p <= 1 THEN 1 ELSE p) /\ Max({q, 1}) = (IF q <= 1 THEN 1 ELSE q)
  BY <1>6, <1>7, OfTwo
<1> QED BY <1>7, <1>8

\* Up to the size of a unit, which has a slot of its own.
LEMMA SlotsGrow ==
  ASSUME NEW x \in Nat, NEW y \in Nat, x <= y, y <= UnitSize
  PROVE  /\ size_to_slot(x) \in Int /\ size_to_slot(y) \in Int
         /\ size_to_slot(x) <= size_to_slot(y)
<1>0. UnitSize \in Nat /\ x <= UnitSize
  BY UnitAssumption
<1>1. /\ bytes_to_slot(x) \in Int /\ bytes_to_slot(y) \in Int /\ bytes_to_slot(UnitSize) \in Int
      /\ bytes_to_slot(x) <= bytes_to_slot(y) /\ bytes_to_slot(x) <= bytes_to_slot(UnitSize)
  BY <1>0, BytesToSlots
<1>2. nr_slots - 1 \in Int /\ bytes_to_slot(x) <= nr_slots - 1
  BY <1>1 DEF nr_slots
<1>3. /\ size_to_slot(x) = IF x = UnitSize THEN nr_slots - 1 ELSE bytes_to_slot(x)
      /\ size_to_slot(y) = IF y = UnitSize THEN nr_slots - 1 ELSE bytes_to_slot(y)
  BY DEF size_to_slot
<1>4. CASE y = UnitSize
  BY <1>1, <1>2, <1>3, <1>4
<1>5. CASE y # UnitSize
  <2>1. x # UnitSize
    BY <1>0, <1>5
  <2> QED BY <1>1, <1>3, <1>5, <2>1
<1> QED BY <1>4, <1>5

\* The free bits of a block are free bits of the map.
LEMMA HintIsCounted ==
  ASSUME NEW md, NEW map, AllFit(md, map), NEW j \in BlockNr
  PROVE  /\ IsFiniteSet(FreeBits(map)) /\ Cardinality(FreeBits(map)) \in Nat
         /\ md[j].contig_hint <= Cardinality(FreeBits(map))
         /\ Cardinality(FreeBits(map)) <= map_bits
<1> DEFINE b == md[j]
           h == b.contig_hint
           x == j * BLOCK_BITS + b.contig_hint_start
           R == x .. x + h - 1
<1>0. 0 \in Int /\ map_bits \in Nat /\ map_bits - 1 \in Int
  BY Bases
<1>1. IsFiniteSet(0 .. map_bits - 1)
  BY <1>0, FS_Interval
<1>2. IsFiniteSet(FreeBits(map))
  BY <1>1, FS_Difference DEF FreeBits
<1>3. Cardinality(FreeBits(map)) \in Nat
  BY <1>2, FS_CardinalityType
<1>4. /\ h \in 0 .. BLOCK_BITS /\ b.contig_hint_start \in 0 .. BLOCK_BITS
      /\ b.contig_hint_start + h <= BLOCK_BITS
      /\ ZeroRun(BlockMap(map, j), b.contig_hint_start, b.contig_hint_start + h)
  BY DEF AllFit, BlockFits, HintFits
<1>5. j \in Nat /\ j * BLOCK_BITS \in Nat /\ BLOCK_BITS \in Nat
      /\ j * BLOCK_BITS + BLOCK_BITS <= map_bits
  <2>1. j \in Int /\ j \in Nat /\ j < NrBlocks /\ NrBlocks \in Int
    BY Bases DEF BlockNr
  <2> QED BY <2>1, Bases
<1>6. ZeroRun(map, x, j * BLOCK_BITS + (b.contig_hint_start + h))
  <2>1. b.contig_hint_start + h \in 0 .. BLOCK_BITS
    BY <1>4, <1>5
  <2> QED BY <1>4, <1>5, <2>1, RunInMap
<1>7. x \in Nat /\ x + h <= map_bits /\ j * BLOCK_BITS + (b.contig_hint_start + h) = x + h
      /\ h \in Nat
  <2> DEFINE base == j * BLOCK_BITS
             hs == b.contig_hint_start
  <2>1. base \in Nat /\ base + BLOCK_BITS <= map_bits /\ hs \in 0 .. BLOCK_BITS
        /\ hs + h <= BLOCK_BITS /\ h \in 0 .. BLOCK_BITS /\ x = base + hs
    BY <1>4, <1>5
  <2> HIDE DEF base, hs, x, h
  <2>2. x \in Nat /\ x + h <= map_bits /\ base + (hs + h) = x + h /\ h \in Nat
    BY <1>0, <1>5, <2>1
  <2> QED BY <2>2 DEF base, hs
<1> HIDE DEF x, h
<1>8. R \in SUBSET FreeBits(map)
  <2>1. ASSUME NEW k \in R PROVE k \in 0 .. map_bits - 1 /\ k \notin map
    <3>1. k \in 0 .. map_bits - 1 /\ k \in x .. (x + h) - 1
      BY <1>0, <1>7
    <3> QED BY <1>6, <1>7, <3>1 DEF ZeroRun
  <2> QED BY <2>1 DEF FreeBits
<1>9. Cardinality(R) = h
  <2>1. x \in Int /\ x + h - 1 \in Int
    BY <1>7
  <2>2. Cardinality(R) = IF x > x + h - 1 THEN 0 ELSE (x + h - 1) - x + 1
    BY <2>1, FS_Interval
  <2> QED BY <1>7, <2>2
<1> HIDE DEF R
<1>10. Cardinality(R) <= Cardinality(FreeBits(map))
  BY <1>2, <1>8, FS_Subset
<1>11. Cardinality(FreeBits(map)) <= map_bits
  <2>1. Cardinality(0 .. map_bits - 1) = map_bits
    BY <1>0, FS_Interval
  <2>2. FreeBits(map) \in SUBSET (0 .. map_bits - 1)
    BY DEF FreeBits
  <2> QED BY <1>1, <2>1, <2>2, FS_Subset
<1> QED BY <1>2, <1>3, <1>9, <1>10, <1>11 DEF h

\* A block with the room to align the request in is found.
LEMMA RoomyBlockIsFound ==
  ASSUME AllFit(md_blocks, alloc_map), first_bit \in Nat, NoneBelow(first_bit, alloc_map),
         contig \in Contig, HintCovers(md_blocks, contig),
         free_bytes = MIN_ALLOC_SIZE * Cardinality(FreeBits(alloc_map)),
         NEW bits \in Nat \ {0}, NEW align \in Nat \ {0}, Divides(align, BLOCK_BITS),
         NEW j \in BlockNr, md_blocks[j].contig_hint >= bits + align - 1
  PROVE  Found(bits, align) # -1
<1> DEFINE start == pcpu_find_block_fit(bits, align)
           h == md_blocks[j].contig_hint
           n == Cardinality(FreeBits(alloc_map))
           at == ALIGN(contig.start, align)
<1>1. h \in Nat /\ h >= bits /\ h >= bits + align - 1 /\ bits \in Nat /\ bits >= 1
  <2>1. h \in 0 .. BLOCK_BITS
    BY FieldsAgree DEF AllFit
  <2> QED BY <2>1, Bases
<1>2. n \in Nat /\ h <= n /\ n <= map_bits
  BY HintIsCounted
<1>3. contig.bits \in Nat /\ contig.start \in Nat /\ contig.bits >= h
  BY DEF Contig, HintCovers
<1> HIDE DEF h, n
<1>4. NextFitRegion(bits, align) \in Nat /\ NextFitRegion(bits, align) < map_bits
  BY RoomyBlockIsFit
<1>5. at \in Nat /\ at <= contig.start + align - 1
  BY <1>3, AlignIs
<1>6. start = NextFitRegion(bits, align) /\ start # -1
  <2> HIDE DEF at
  <2>1. ~((at - contig.start) + bits > contig.bits)
    BY <1>1, <1>3, <1>5
  <2>2. NextFitRegion(bits, align) # map_bits /\ NextFitRegion(bits, align) # -1
    BY <1>4, Bases
  <2>3. start = NextFitRegion(bits, align)
    BY <2>1, <2>2 DEF pcpu_find_block_fit, at
  <2> QED BY <2>2, <2>3
<1>7. /\ free_bytes \in Nat /\ bits * MIN_ALLOC_SIZE \in Nat /\ free_bytes >= MIN_ALLOC_SIZE
      /\ bits * MIN_ALLOC_SIZE <= free_bytes /\ free_bytes <= UnitSize
  BY <1>1, <1>2, UnitAssumption, Bases DEF MIN_ALLOC_SIZE, n
<1>8. pcpu_chunk_slot = size_to_slot(free_bytes)
  <2>1. ~(free_bytes < MIN_ALLOC_SIZE) /\ contig.bits # 0
    BY <1>1, <1>3, <1>7 DEF MIN_ALLOC_SIZE
  <2> QED BY <2>1 DEF pcpu_chunk_slot
<1>9. ~(size_to_slot(bits * MIN_ALLOC_SIZE) > pcpu_chunk_slot)
  BY <1>7, <1>8, SlotsGrow
<1>10. Found(bits, align) = AreaFrom(start, bits, align)
  BY <1>6, <1>9 DEF Found
<1>11. AreaFrom(start, bits, align) \in Nat
  BY <1>6, FitIsArea
<1> QED BY <1>10, <1>11

-----------------------------------------------------------------------------
(***************************************************************************)
(* The inductive invariant.                                                *)
(***************************************************************************)
\* The inductive invariant, part by part.
MapFits(map, first, fb) ==
  /\ map \subseteq 0 .. map_bits - 1
  /\ first \in 0 .. map_bits /\ NoneBelow(first, map)
  /\ fb = MIN_ALLOC_SIZE * Cardinality(FreeBits(map))
\* Areas lie apart from each other in the usable part, and the bits in use are
\* theirs and the hidden ones.
AreasFit(held, map) ==
  /\ \A a \in held : /\ a.off \in Nat /\ a.bits \in Nat \ {0}
                     /\ Cells(a) \subseteq (0 .. map_bits - 1) \ Hidden
  /\ \A a, b \in held : a = b \/ Cells(a) \cap Cells(b) = {}
  /\ map = Hidden \cup UNION {Cells(a) : a \in held}
\* Every area has boundaries at its ends and none inside.
BoundsFit(held, bounds) ==
  \A a \in held : /\ a.off + a.bits \in bounds
                  /\ (a.off + 1 .. a.off + a.bits - 1) \cap bounds = {}
\* A request is started over only if no block has the room to align it in.
WantFits(w, md) ==
  w = Nothing \/ \A j \in BlockNr : md[j].contig_hint < w.bits + w.align - 1

\* The inductive invariant.
IInv ==
  /\ MapFits(alloc_map, first_bit, free_bytes)
  /\ AllFit(md_blocks, alloc_map)
  /\ contig \in Contig /\ HintCovers(md_blocks, contig)
  /\ AreasFit(areas, alloc_map) /\ BoundsFit(areas, bound_map)
  /\ WantFits(want, md_blocks)

\* What the assumptions say of the hidden ends.
LEMMA OffsetFacts ==
  /\ StartBits \in Nat /\ EndBits \in Nat /\ StartBits + EndBits < map_bits
  /\ map_bits \in Nat /\ BLOCK_BITS \in Nat
  /\ map_bits - EndBits \in Nat /\ map_bits - StartBits - EndBits \in Nat
  /\ StartBits <= map_bits - EndBits /\ map_bits - StartBits - EndBits > 0
<1>1. StartBits \in Nat /\ EndBits \in Nat /\ StartBits + EndBits < map_bits
      /\ map_bits \in Nat /\ BLOCK_BITS \in Nat
  BY OffsetAssumption, Bases
<1> QED BY <1>1

\* What the first chunk starts with.
LEMMA HiddenFits ==
  /\ Hidden \subseteq 0 .. map_bits - 1 /\ NoneBelow(StartBits, Hidden)
  /\ Cardinality(FreeBits(Hidden)) = map_bits - StartBits - EndBits
<1> DEFINE n == map_bits - StartBits - EndBits
<1>1. FreeBits(Hidden) = StartBits .. map_bits - EndBits - 1
  BY OffsetFacts DEF FreeBits, Hidden
<1>2. Hidden \subseteq 0 .. map_bits - 1 /\ NoneBelow(StartBits, Hidden)
  BY OffsetFacts DEF Hidden, NoneBelow
<1>3. StartBits \in Int /\ map_bits - EndBits - 1 \in Int
  BY OffsetFacts
<1>4. Cardinality(StartBits .. map_bits - EndBits - 1) =
        IF StartBits > map_bits - EndBits - 1 THEN 0
        ELSE (map_bits - EndBits - 1) - StartBits + 1
  BY <1>3, FS_Interval
<1>5. ~(StartBits > map_bits - EndBits - 1)
      /\ (map_bits - EndBits - 1) - StartBits + 1 = map_bits - StartBits - EndBits
  BY OffsetFacts
<1> QED BY <1>1, <1>2, <1>4, <1>5

\* The invariant holds once the first chunk is set up.
LEMMA InitFits ==
  ASSUME Init
  PROVE  IInv
<1> DEFINE fresh == [i \in 0 .. NrBlocks - 1 |-> EmptyBlock]
           n     == map_bits - StartBits - EndBits
           whole == [bits |-> n, start |-> 0]
           low   == 0 .. StartBits - 1
           md1   == IF StartBits = 0 THEN fresh ELSE BlocksAfterAlloc(fresh, low, 0, StartBits)
           c1    == IF StartBits = 0 THEN whole ELSE ContigAfterAlloc(md1, StartBits, whole, 0)
           at    == map_bits - EndBits
<1>1. /\ alloc_map = Hidden /\ first_bit = StartBits /\ free_bytes = n * MIN_ALLOC_SIZE
      /\ md_blocks = IF EndBits = 0 THEN md1 ELSE BlocksAfterAlloc(md1, Hidden, at, EndBits)
      /\ contig = IF EndBits = 0 THEN c1 ELSE ContigAfterAlloc(md_blocks, StartBits, c1, at)
      /\ areas = {} /\ want = Nothing
  BY DEF Init
<1>2. n \in Nat /\ n > 0 /\ at \in Nat /\ 0 \in Nat
  BY OffsetFacts
<1>3. whole \in Contig /\ whole.bits = n /\ whole.start = 0
  BY <1>2 DEF Contig
<1>4. AllFit(fresh, {})
  <2>1. ASSUME NEW i \in BlockNr PROVE BlockFits(EmptyBlock, BlockMap({}, i))
    <3>1. \A k \in 0 .. BLOCK_BITS - 1 : k \notin BlockMap({}, i)
      BY DEF BlockMap
    <3> QED BY <3>1, EmptyFits
  <2>2. ASSUME NEW i \in BlockNr PROVE EmptyBlock \in BlockMd
    BY <2>1 DEF BlockFits
  <2> QED BY <2>1, <2>2 DEF AllFit, BlockNr
<1> HIDE DEF fresh, whole
<1>5. AllFit(md1, low)
  <2>1. CASE StartBits = 0
    <3>1. low = {}
      BY <2>1
    <3> QED BY <1>4, <2>1, <3>1
  <2>2. CASE StartBits # 0
    <3>1. StartBits \in Nat \ {0} /\ 0 + StartBits <= map_bits
          /\ 0 + StartBits - 1 = StartBits - 1
      BY <2>2, OffsetFacts
    <3>2. low = {} \cup (0 .. 0 + StartBits - 1) /\ (0 .. 0 + StartBits - 1) \cap {} = {}
      BY <3>1
    <3>3. AllFit(BlocksAfterAlloc(fresh, low, 0, StartBits), low)
      BY <1>2, <1>4, <3>1, <3>2, AllocFits
    <3> QED BY <2>2, <3>3
  <2> QED BY <2>1, <2>2
<1>6. StartBits # 0 => c1 \in Contig /\ HintCovers(md1, c1)
  <2> SUFFICES ASSUME StartBits # 0 PROVE c1 \in Contig /\ HintCovers(md1, c1)
    OBVIOUS
  <2> HIDE DEF md1
  <2>1. c1 = ContigAfterAlloc(md1, StartBits, whole, 0)
    OBVIOUS
  <2>2. 0 >= whole.start /\ 0 < whole.start + whole.bits
    BY <1>2, <1>3
  <2>3. c1 = pcpu_chunk_refresh_hint(md1, StartBits, whole)
    BY <2>1, <2>2 DEF ContigAfterAlloc
  <2>4. NoneBelow(StartBits, low) /\ StartBits \in Nat
    BY OffsetFacts DEF NoneBelow
  <2> QED BY <1>3, <1>5, <2>3, <2>4, RefreshCovers
<1> HIDE DEF md1, c1
<1>7. AllFit(md_blocks, Hidden)
  <2>1. CASE EndBits = 0
    <3>1. Hidden = low
      BY <2>1, OffsetFacts DEF Hidden
    <3> QED BY <1>1, <1>5, <2>1, <3>1
  <2>2. CASE EndBits # 0
    <3>1. EndBits \in Nat \ {0} /\ at + EndBits <= map_bits /\ at + EndBits - 1 = map_bits - 1
      BY <2>2, OffsetFacts
    <3>2. Hidden = low \cup (at .. at + EndBits - 1)
      BY <3>1 DEF Hidden
    <3>3. (at .. at + EndBits - 1) \cap low = {}
      BY OffsetFacts
    <3> HIDE DEF low, at
    <3>4. AllFit(BlocksAfterAlloc(md1, Hidden, at, EndBits), Hidden)
      BY <1>2, <1>5, <3>1, <3>2, <3>3, AllocFits
    <3> QED BY <1>1, <2>2, <3>4
  <2> QED BY <2>1, <2>2
<1>8. contig \in Contig /\ HintCovers(md_blocks, contig)
  <2>1. CASE StartBits = 0
    <3>1. contig = whole
      <4>1. c1 = whole
        BY <2>1 DEF c1
      <4>2. ~(at < whole.start + whole.bits)
        BY <1>2, <1>3, <2>1, OffsetFacts
      <4>3. ContigAfterAlloc(md_blocks, StartBits, whole, at) = whole
        BY <4>2 DEF ContigAfterAlloc
      <4> QED BY <1>1, <4>1, <4>3
    <3>2. ASSUME NEW j \in BlockNr PROVE whole.bits >= md_blocks[j].contig_hint
      <4>1. md_blocks[j].contig_hint <= Cardinality(FreeBits(Hidden))
        BY <1>7, HintIsCounted
      <4>2. Cardinality(FreeBits(Hidden)) = n
        BY HiddenFits
      <4>3. md_blocks[j].contig_hint \in Int
        BY <1>7 DEF AllFit, BlockMd
      <4> QED BY <1>2, <1>3, <4>1, <4>2, <4>3
    <3> QED BY <1>3, <3>1, <3>2 DEF HintCovers
  <2>2. CASE StartBits # 0 /\ EndBits = 0
    BY <1>1, <1>6, <2>2
  <2>3. CASE StartBits # 0 /\ EndBits # 0
    <3>1. contig = ContigAfterAlloc(md_blocks, StartBits, c1, at)
      BY <1>1, <2>3
    <3>2. low \subseteq Hidden /\ StartBits \in Nat /\ NoneBelow(StartBits, Hidden)
      BY HiddenFits, OffsetFacts DEF Hidden
    <3> HIDE DEF low, at
    <3>3. /\ ContigAfterAlloc(md_blocks, StartBits, c1, at) \in Contig
          /\ HintCovers(md_blocks, ContigAfterAlloc(md_blocks, StartBits, c1, at))
      BY <1>2, <1>5, <1>6, <1>7, <2>3, <3>2, AllocCovers
    <3> QED BY <3>1, <3>3
  <2> QED BY <2>1, <2>2, <2>3
<1>9. MapFits(alloc_map, first_bit, free_bytes)
  <2>1. StartBits \in 0 .. map_bits
    BY OffsetFacts
  <2>2. n * MIN_ALLOC_SIZE = MIN_ALLOC_SIZE * n
    BY <1>2 DEF MIN_ALLOC_SIZE
  <2> QED BY <1>1, <2>1, <2>2, HiddenFits DEF MapFits
<1>10. AreasFit(areas, alloc_map) /\ BoundsFit(areas, bound_map)
  BY <1>1 DEF AreasFit, BoundsFit
<1>11. WantFits(want, md_blocks)
  BY <1>1 DEF WantFits
<1> QED BY <1>1, <1>7, <1>8, <1>9, <1>10, <1>11 DEF IInv

-----------------------------------------------------------------------------
(***************************************************************************)
(* What a step of alloc_percpu or free_percpu keeps.                       *)
(***************************************************************************)
\* What the assumptions say of a request.
LEMMA RequestFacts ==
  ASSUME NEW bits \in Requests, NEW align \in Aligns
  PROVE  bits \in Nat \ {0} /\ align \in Nat \ {0} /\ Divides(align, BLOCK_BITS)
<1>1. bits \in Nat \ {0} /\ align \in Nat \ {0}
  BY RequestAssumption
<1>2. BLOCK_BITS % align = 0
  BY RequestAssumption
<1> QED BY <1>1, <1>2 DEF Divides

\* Setting bits that were free.
LEMMA MapAfterAlloc ==
  ASSUME NEW map, NEW first, NEW fb, MapFits(map, first, fb), NEW off \in Nat,
         NEW n \in Nat \ {0}, off + n <= map_bits, ZeroRun(map, off, off + n),
         NEW new, new = map \cup (off .. off + n - 1), NEW f,
         f = IF off = first THEN find_next_zero_bit(new, map_bits, off + n) ELSE first
  PROVE  MapFits(new, f, fb - n * MIN_ALLOC_SIZE)
<1> DEFINE A == off .. off + n - 1
           S == FreeBits(map)
           z == find_next_zero_bit(new, map_bits, off + n)
<1>0. /\ map_bits \in Nat /\ map \subseteq 0 .. map_bits - 1 /\ first \in 0 .. map_bits
      /\ NoneBelow(first, map) /\ fb = MIN_ALLOC_SIZE * Cardinality(S) /\ n \in Nat /\ n >= 1
  BY Bases DEF MapFits
<1>1. A \subseteq 0 .. map_bits - 1 /\ A \cap map = {} /\ \A x : x \in A => x \in Int
  <2>1. (off + n) - 1 = off + n - 1
    BY <1>0
  <2> QED BY <1>0, <2>1 DEF ZeroRun
<1>2. new \subseteq 0 .. map_bits - 1
  BY <1>0, <1>1
<1>3. /\ z \in 0 .. map_bits /\ \A x \in off + n .. map_bits - 1 : x < z => x \in new
  <2>1. off + n \in Nat
    BY <1>0
  <2> QED BY <1>0, <2>1, NextZeroBit
<1> HIDE DEF z
<1>4. f \in 0 .. map_bits
  BY <1>0, <1>3 DEF z
<1>5. NoneBelow(f, new)
  <2> SUFFICES ASSUME NEW x \in 0 .. map_bits - 1, x \notin new PROVE f <= x
    BY DEF NoneBelow
  <2>1. x \notin map /\ x \notin A /\ first <= x
    BY <1>0 DEF NoneBelow
  <2>2. CASE off = first
    <3>1. x \in off + n .. map_bits - 1
      BY <1>0, <2>1, <2>2
    <3>2. ~(x < z)
      BY <1>3, <3>1
    <3>3. f = z
      BY <2>2 DEF z
    <3> QED BY <1>0, <1>3, <3>2, <3>3
  <2>3. CASE off # first
    BY <2>1, <2>3
  <2> QED BY <2>2, <2>3
<1>6. FreeBits(new) = S \ A /\ S \cap A = A
  BY <1>1 DEF FreeBits
<1>7. IsFiniteSet(S)
  <2>1. 0 \in Int /\ map_bits - 1 \in Int
    BY <1>0
  <2>2. IsFiniteSet(0 .. map_bits - 1)
    BY <2>1, FS_Interval
  <2> QED BY <2>2, FS_Difference DEF FreeBits
<1>8. Cardinality(A) = n
  <2>1. off \in Int /\ off + n - 1 \in Int
    BY <1>0
  <2>2. Cardinality(A) = IF off > off + n - 1 THEN 0 ELSE (off + n - 1) - off + 1
    BY <2>1, FS_Interval
  <2> QED BY <1>0, <2>2
<1> HIDE DEF A, S
<1>9. Cardinality(FreeBits(new)) = Cardinality(S) - n
  BY <1>6, <1>7, <1>8, FS_Difference
<1>10. Cardinality(S) \in Nat
  BY <1>7, FS_CardinalityType
<1>11. fb - n * MIN_ALLOC_SIZE = MIN_ALLOC_SIZE * Cardinality(FreeBits(new))
  BY <1>0, <1>9, <1>10 DEF MIN_ALLOC_SIZE
<1> QED BY <1>2, <1>4, <1>5, <1>11 DEF MapFits

\* Clearing bits that were set.
LEMMA MapAfterFree ==
  ASSUME NEW map, NEW first, NEW fb, MapFits(map, first, fb), NEW off \in Nat,
         NEW n \in Nat \ {0}, off + n <= map_bits, off .. off + n - 1 \subseteq map,
         NEW new, new = map \ (off .. off + n - 1)
  PROVE  MapFits(new, Min({first, off}), fb + n * MIN_ALLOC_SIZE)
<1> DEFINE A == off .. off + n - 1
           S == FreeBits(map)
           f == Min({first, off})
<1>0. /\ map_bits \in Nat /\ map \subseteq 0 .. map_bits - 1 /\ first \in 0 .. map_bits
      /\ NoneBelow(first, map) /\ fb = MIN_ALLOC_SIZE * Cardinality(S) /\ n \in Nat /\ n >= 1
  BY Bases DEF MapFits
<1>1. A \subseteq 0 .. map_bits - 1 /\ \A x \in A : off <= x
  BY <1>0
<1>2. new \subseteq 0 .. map_bits - 1
  BY <1>0
<1>3. f = (IF first <= off THEN first ELSE off) /\ first \in Int /\ off \in Int
  <2>1. first \in Int /\ off \in Int
    BY <1>0
  <2> QED BY <2>1, OfTwo
<1> HIDE DEF f
<1>4. f \in 0 .. map_bits /\ f <= first /\ f <= off
  BY <1>0, <1>3
<1>5. NoneBelow(f, new)
  <2> SUFFICES ASSUME NEW x \in 0 .. map_bits - 1, x \notin new PROVE f <= x
    BY DEF NoneBelow
  <2>1. CASE x \in A
    BY <1>1, <1>3, <1>4, <2>1
  <2>2. CASE x \notin map
    <3>1. first <= x
      BY <1>0, <2>2 DEF NoneBelow
    <3> QED BY <1>3, <1>4, <3>1
  <2> QED BY <2>1, <2>2
<1>6. FreeBits(new) = S \cup A /\ S \cap A = {}
  BY <1>1 DEF FreeBits
<1>7. IsFiniteSet(S)
  <2>1. 0 \in Int /\ map_bits - 1 \in Int
    BY <1>0
  <2>2. IsFiniteSet(0 .. map_bits - 1)
    BY <2>1, FS_Interval
  <2> QED BY <2>2, FS_Difference DEF FreeBits
<1>8. Cardinality(A) = n /\ IsFiniteSet(A)
  <2>1. off \in Int /\ off + n - 1 \in Int
    BY <1>0
  <2>2. Cardinality(A) = IF off > off + n - 1 THEN 0 ELSE (off + n - 1) - off + 1
    BY <2>1, FS_Interval
  <2>3. IsFiniteSet(A)
    BY <2>1, FS_Interval
  <2> QED BY <1>0, <2>2, <2>3
<1> HIDE DEF A, S
<1>9. Cardinality(S) \in Nat
  BY <1>7, FS_CardinalityType
<1>10. Cardinality(FreeBits(new)) = Cardinality(S) + n
  <2>1. Cardinality(S \cup A) = Cardinality(S) + Cardinality(A) - Cardinality(S \cap A)
    BY <1>7, <1>8, FS_Union
  <2>2. Cardinality(S \cap A) = 0
    BY <1>6, FS_EmptySet
  <2> DEFINE c == Cardinality(S)
  <2>3. Cardinality(S \cup A) = c + n - 0
    BY <1>8, <2>1, <2>2
  <2>4. c \in Nat
    BY <1>9
  <2> HIDE DEF c
  <2>5. c + n - 0 = c + n
    BY <1>0, <2>4
  <2> QED BY <1>6, <2>3, <2>5 DEF c
<1>11. fb + n * MIN_ALLOC_SIZE = MIN_ALLOC_SIZE * Cardinality(FreeBits(new))
  BY <1>0, <1>9, <1>10 DEF MIN_ALLOC_SIZE
<1> QED BY <1>2, <1>4, <1>5, <1>11 DEF MapFits, f

\* A new area lies apart from the others.
LEMMA AreasAfterAlloc ==
  ASSUME NEW held, NEW map, AreasFit(held, map), map \subseteq 0 .. map_bits - 1,
         NEW off \in Nat, NEW n \in Nat \ {0}, off + n <= map_bits,
         ZeroRun(map, off, off + n)
  PROVE  AreasFit(held \cup {[off |-> off, bits |-> n]}, map \cup (off .. off + n - 1))
<1> DEFINE a == [off |-> off, bits |-> n]
           A == off .. off + n - 1
           new == held \cup {a}
<1>0. map_bits \in Nat /\ n \in Nat /\ n >= 1
  BY Bases
<1>1. a.off = off /\ a.bits = n /\ Cells(a) = A
  BY DEF Cells
<1>2. A \cap map = {} /\ A \subseteq 0 .. map_bits - 1
  <2>1. (off + n) - 1 = off + n - 1
    BY <1>0
  <2> QED BY <1>0, <2>1 DEF ZeroRun
<1>3. /\ \A b \in held : /\ b.off \in Nat /\ b.bits \in Nat \ {0}
                         /\ Cells(b) \subseteq (0 .. map_bits - 1) \ Hidden
      /\ \A b, c \in held : b = c \/ Cells(b) \cap Cells(c) = {}
      /\ map = Hidden \cup UNION {Cells(b) : b \in held}
  BY DEF AreasFit
<1> HIDE DEF a, A
<1>4. \A b \in held : Cells(b) \subseteq map
  BY <1>3
<1>5. A \subseteq (0 .. map_bits - 1) \ Hidden
  BY <1>2, <1>3
<1>6. \A b \in new : /\ b.off \in Nat /\ b.bits \in Nat \ {0}
                     /\ Cells(b) \subseteq (0 .. map_bits - 1) \ Hidden
  BY <1>1, <1>3, <1>5
<1>7. \A b, c \in new : b = c \/ Cells(b) \cap Cells(c) = {}
  <2> SUFFICES ASSUME NEW b \in new, NEW c \in new, b # c
               PROVE  Cells(b) \cap Cells(c) = {}
    OBVIOUS
  <2>1. CASE b \in held /\ c \in held
    BY <1>3, <2>1
  <2>2. CASE b = a
    <3>1. c \in held
      BY <2>2
    <3> QED BY <1>1, <1>2, <1>4, <2>2, <3>1
  <2>3. CASE c = a
    <3>1. b \in held
      BY <2>3
    <3> QED BY <1>1, <1>2, <1>4, <2>3, <3>1
  <2> QED BY <2>1, <2>2, <2>3
<1>8. map \cup A = Hidden \cup UNION {Cells(b) : b \in new}
  <2>1. ASSUME NEW x \in map \cup A PROVE x \in Hidden \cup UNION {Cells(b) : b \in new}
    <3>1. CASE x \in A
      <4>1. a \in new /\ x \in Cells(a)
        BY <1>1, <3>1
      <4> QED BY <4>1
    <3>2. CASE x \in Hidden
      BY <3>2
    <3>3. CASE x \in map /\ x \notin Hidden
      <4>1. PICK b \in held : x \in Cells(b)
        BY <1>3, <3>3
      <4>2. b \in new
        OBVIOUS
      <4> QED BY <4>1, <4>2
    <3> QED BY <3>1, <3>2, <3>3
  <2>2. ASSUME NEW b \in new, NEW x \in Cells(b) PROVE x \in map \cup A
    <3>1. CASE b \in held
      BY <1>4, <3>1
    <3>2. CASE b = a
      BY <1>1, <3>2
    <3> QED BY <3>1, <3>2
  <2>3. ASSUME NEW x \in Hidden PROVE x \in map \cup A
    BY <1>3
  <2> HIDE DEF new
  <2> QED BY <2>1, <2>2, <2>3
<1> QED BY <1>6, <1>7, <1>8 DEF AreasFit, a, A

\* Without one area the others are as they were.
LEMMA AreasAfterFree ==
  ASSUME NEW held, NEW map, AreasFit(held, map), NEW a \in held
  PROVE  AreasFit(held \ {a}, map \ Cells(a))
<1> DEFINE new == held \ {a}
<1>1. /\ \A b \in held : /\ b.off \in Nat /\ b.bits \in Nat \ {0}
                         /\ Cells(b) \subseteq (0 .. map_bits - 1) \ Hidden
      /\ \A b, c \in held : b = c \/ Cells(b) \cap Cells(c) = {}
      /\ map = Hidden \cup UNION {Cells(b) : b \in held}
  BY DEF AreasFit
<1>2. map \ Cells(a) = Hidden \cup UNION {Cells(b) : b \in new}
  <2>1. ASSUME NEW x \in map \ Cells(a) PROVE x \in Hidden \cup UNION {Cells(b) : b \in new}
    <3>1. CASE x \in Hidden
      BY <3>1
    <3>2. CASE x \notin Hidden
      <4>1. PICK b \in held : x \in Cells(b)
        BY <1>1, <3>2
      <4>2. b \in new
        BY <4>1
      <4> QED BY <4>1, <4>2
    <3> QED BY <3>1, <3>2
  <2>2. ASSUME NEW x \in Hidden PROVE x \in map \ Cells(a)
    BY <1>1
  <2>3. ASSUME NEW b \in new, NEW x \in Cells(b) PROVE x \in map \ Cells(a)
    <3>1. b \in held /\ b # a
      OBVIOUS
    <3>2. x \in map
      BY <1>1, <3>1
    <3>3. Cells(b) \cap Cells(a) = {}
      BY <1>1, <3>1
    <3> QED BY <3>2, <3>3
  <2> QED BY <2>1, <2>2, <2>3
<1> QED BY <1>1, <1>2 DEF AreasFit

\* The boundaries of an area that is placed in free bits.
LEMMA BoundsAfterAlloc ==
  ASSUME NEW held, NEW map, AreasFit(held, map), NEW bounds, BoundsFit(held, bounds),
         NEW off \in Nat, NEW n \in Nat \ {0}, ZeroRun(map, off, off + n)
  PROVE  BoundsFit(held \cup {[off |-> off, bits |-> n]},
                   (bounds \ (off + 1 .. off + n - 1)) \cup {off, off + n})
<1> DEFINE a == [off |-> off, bits |-> n]
           new == (bounds \ (off + 1 .. off + n - 1)) \cup {off, off + n}
<1>0. n \in Nat /\ n >= 1
  OBVIOUS
<1>1. a.off = off /\ a.bits = n
  OBVIOUS
<1>2. /\ a.off + a.bits \in new
      /\ (a.off + 1 .. a.off + a.bits - 1) \cap new = {}
  BY <1>0, <1>1
<1>3. ASSUME NEW b \in held
      PROVE  /\ b.off + b.bits \in new
             /\ (b.off + 1 .. b.off + b.bits - 1) \cap new = {}
  <2>1. b.off \in Nat /\ b.bits \in Nat /\ b.bits >= 1
    BY DEF AreasFit
  <2>2. /\ b.off + b.bits \in bounds
        /\ (b.off + 1 .. b.off + b.bits - 1) \cap bounds = {}
    BY DEF BoundsFit
  <2>3. \A x \in b.off .. b.off + b.bits - 1 : x \in map
    <3>1. Cells(b) \subseteq map
      BY DEF AreasFit
    <3> QED BY <3>1 DEF Cells
  <2>4. \A x \in off .. off + n - 1 : x \notin map
    <3>1. (off + n) - 1 = off + n - 1
      BY <1>0
    <3> QED BY <3>1 DEF ZeroRun
  <2> DEFINE p == b.off
             q == b.off + b.bits
  <2>5. p \in Nat /\ q \in Nat /\ p < q /\ p = b.off /\ q = b.off + b.bits
        /\ q - 1 = b.off + b.bits - 1
    BY <2>1
  <2>6. \A x \in p .. q - 1 : x \in map
    BY <2>3, <2>5
  <2>7. (p + 1 .. q - 1) \cap bounds = {} /\ q \in bounds
    BY <2>2, <2>5
  <2> HIDE DEF p, q
  <2>8. q \notin off + 1 .. off + n - 1
    <3> SUFFICES ASSUME q \in off + 1 .. off + n - 1 PROVE FALSE
      OBVIOUS
    <3>1. q - 1 \in p .. q - 1 /\ q - 1 \in off .. off + n - 1
      BY <1>0, <2>5
    <3> QED BY <2>4, <2>6, <3>1
  <2>9. off \notin p + 1 .. q - 1
    <3> SUFFICES ASSUME off \in p + 1 .. q - 1 PROVE FALSE
      OBVIOUS
    <3>1. off \in p .. q - 1 /\ off \in off .. off + n - 1
      BY <1>0, <2>5
    <3> QED BY <2>4, <2>6, <3>1
  <2>10. off + n \notin p + 1 .. q - 1
    <3> SUFFICES ASSUME off + n \in p + 1 .. q - 1 PROVE FALSE
      OBVIOUS
    <3>1. off + n - 1 \in p .. q - 1 /\ off + n - 1 \in off .. off + n - 1
      BY <1>0, <2>5
    <3> QED BY <2>4, <2>6, <3>1
  <2>11. q \in new /\ (p + 1 .. q - 1) \cap new = {}
    BY <2>7, <2>8, <2>9, <2>10
  <2> QED BY <2>5, <2>11
<1> HIDE DEF new
<1>4. BoundsFit(held \cup {a}, new)
  <2> HIDE DEF a
  <2> QED BY <1>2, <1>3 DEF BoundsFit
<1> QED BY <1>4 DEF new, a

\* The boundary map tells the size.
LEMMA AreaBitsIs ==
  ASSUME AreasFit(areas, alloc_map), BoundsFit(areas, bound_map), NEW a \in areas
  PROVE  AreaBits(a.off) = a.bits /\ a.off + a.bits <= map_bits
<1> DEFINE p == a.off
           q == a.off + a.bits
           r == find_next_bit(bound_map, map_bits, p + 1)
<1>1. p \in Nat /\ a.bits \in Nat /\ a.bits >= 1 /\ Cells(a) \subseteq 0 .. map_bits - 1
  BY DEF AreasFit
<1>2. q \in bound_map /\ (p + 1 .. q - 1) \cap bound_map = {}
  <2>1. q - 1 = a.off + a.bits - 1
    BY <1>1
  <2> QED BY <2>1 DEF BoundsFit
<1>3. map_bits \in Nat
  BY Bases
<1>4. q <= map_bits /\ q \in Nat /\ p < q /\ q - p = a.bits
  <2>1. q - 1 \in Cells(a)
    BY <1>1 DEF Cells
  <2>2. q - 1 \in 0 .. map_bits - 1
    BY <1>1, <2>1
  <2> QED BY <1>1, <1>3, <2>2
<1>5. /\ r \in 0 .. map_bits /\ (r < map_bits => r \in bound_map /\ p + 1 <= r)
      /\ \A i \in p + 1 .. map_bits - 1 : i < r => i \notin bound_map
  <2>1. p + 1 \in Nat
    BY <1>1
  <2> QED BY <1>3, <2>1, NextBit
<1>6. AreaBits(a.off) = r - p
  BY DEF AreaBits
<1> HIDE DEF p, q, r
<1>7. r = q
  <2>1. ~(q < r)
    BY <1>1, <1>2, <1>3, <1>4, <1>5
  <2>2. ~(r < q)
    <3> SUFFICES ASSUME r < q PROVE FALSE
      OBVIOUS
    <3>1. r \in p + 1 .. q - 1 /\ r \in bound_map
      BY <1>1, <1>3, <1>4, <1>5
    <3> QED BY <1>2, <3>1
  <2> QED BY <1>3, <1>4, <1>5, <2>1, <2>2
<1> QED BY <1>4, <1>6, <1>7 DEF q, p

-----------------------------------------------------------------------------
(***************************************************************************)
(* The theorems.                                                           *)
(***************************************************************************)
\* alloc_percpu keeps the invariant,
LEMMA AllocStep ==
  ASSUME IInv, NEW bits \in Requests, NEW align \in Aligns, alloc_percpu(bits, align)
  PROVE  IInv'
<1> DEFINE off == Found(bits, align)
           map == alloc_map \cup (off .. off + bits - 1)
<1>1. /\ MapFits(alloc_map, first_bit, free_bytes) /\ AllFit(md_blocks, alloc_map)
      /\ contig \in Contig /\ HintCovers(md_blocks, contig)
      /\ AreasFit(areas, alloc_map) /\ BoundsFit(areas, bound_map)
  BY DEF IInv
<1>2. /\ off # -1 /\ alloc_map' = map /\ bound_map' = BoundsAround(off, bits)
      /\ free_bytes' = free_bytes - bits * MIN_ALLOC_SIZE
      /\ first_bit' = IF off = first_bit
                        THEN find_next_zero_bit(map, map_bits, off + bits) ELSE first_bit
      /\ md_blocks' = BlocksAfterAlloc(md_blocks, map, off, bits)
      /\ contig' = ContigAfterAlloc(md_blocks', first_bit', contig, off)
      /\ areas' = areas \cup {[off |-> off, bits |-> bits]}
      /\ want' = Nothing
  BY DEF alloc_percpu
<1>3. bits \in Nat \ {0} /\ align \in Nat \ {0} /\ Divides(align, BLOCK_BITS)
  BY RequestFacts
<1>4. first_bit \in Nat /\ alloc_map \subseteq 0 .. map_bits - 1
  <2>1. first_bit \in 0 .. map_bits /\ alloc_map \subseteq 0 .. map_bits - 1
    BY <1>1 DEF MapFits
  <2> QED BY <2>1, Bases
<1>5. off \in Nat /\ off + bits <= map_bits /\ ZeroRun(alloc_map, off, off + bits)
  BY <1>1, <1>2, <1>3, <1>4, FoundIsArea
<1> HIDE DEF off
<1>6. MapFits(map, first_bit', free_bytes')
  <2>1. MapFits(map, first_bit', free_bytes - bits * MIN_ALLOC_SIZE)
    BY <1>1, <1>2, <1>3, <1>5, MapAfterAlloc
  <2> QED BY <1>2, <2>1
<1>7. AllFit(md_blocks', map)
  <2>1. (off .. off + bits - 1) \cap alloc_map = {}
    <3>1. (off + bits) - 1 = off + bits - 1
      BY <1>3, <1>5
    <3> QED BY <1>5, <3>1 DEF ZeroRun
  <2>2. AllFit(BlocksAfterAlloc(md_blocks, map, off, bits), map)
    BY <1>1, <1>3, <1>5, <2>1, AllocFits
  <2> QED BY <1>2, <2>2
<1>8. contig' \in Contig /\ HintCovers(md_blocks', contig')
  <2>1. alloc_map \subseteq map
    OBVIOUS
  <2>2. first_bit' \in Nat /\ NoneBelow(first_bit', map)
    <3>1. first_bit' \in 0 .. map_bits /\ NoneBelow(first_bit', map)
      BY <1>6 DEF MapFits
    <3> QED BY <3>1, Bases
  <2> HIDE DEF map
  <2>3. /\ ContigAfterAlloc(md_blocks', first_bit', contig, off) \in Contig
        /\ HintCovers(md_blocks', ContigAfterAlloc(md_blocks', first_bit', contig, off))
    BY <1>1, <1>5, <1>7, <2>1, <2>2, AllocCovers
  <2> QED BY <1>2, <2>3
<1>9. AreasFit(areas', map)
  <2>1. AreasFit(areas \cup {[off |-> off, bits |-> bits]}, map)
    BY <1>1, <1>3, <1>4, <1>5, AreasAfterAlloc
  <2> QED BY <1>2, <2>1
<1>10. BoundsFit(areas', bound_map')
  <2>1. BoundsFit(areas \cup {[off |-> off, bits |-> bits]},
                  (bound_map \ (off + 1 .. off + bits - 1)) \cup {off, off + bits})
    BY <1>1, <1>3, <1>5, BoundsAfterAlloc
  <2> QED BY <1>2, <2>1 DEF BoundsAround
<1>11. WantFits(want', md_blocks')
  BY <1>2 DEF WantFits
<1> HIDE DEF map
<1> QED BY <1>2, <1>6, <1>7, <1>8, <1>9, <1>10, <1>11 DEF IInv

\* free_percpu keeps it,
LEMMA FreeStep ==
  ASSUME IInv, NEW a \in areas, free_percpu(a)
  PROVE  IInv'
<1> DEFINE off == a.off
           n == AreaBits(a.off)
           map == alloc_map \ (off .. off + n - 1)
<1>1. /\ MapFits(alloc_map, first_bit, free_bytes) /\ AllFit(md_blocks, alloc_map)
      /\ contig \in Contig /\ HintCovers(md_blocks, contig)
      /\ AreasFit(areas, alloc_map) /\ BoundsFit(areas, bound_map)
  BY DEF IInv
<1>2. /\ want' = Nothing /\ alloc_map' = map
      /\ free_bytes' = free_bytes + n * MIN_ALLOC_SIZE
      /\ first_bit' = Min({first_bit, off})
      /\ md_blocks' = BlocksAfterFree(map, off, n)
      /\ contig' = ContigAfterFree(map, md_blocks', first_bit', off, n)
      /\ areas' = areas \ {a} /\ bound_map' = bound_map
  BY DEF free_percpu, FirstAfterFree
<1>3. n = a.bits /\ off + n <= map_bits
  BY <1>1, AreaBitsIs
<1>4. off \in Nat /\ n \in Nat \ {0} /\ Cells(a) = off .. off + n - 1
      /\ off .. off + n - 1 \subseteq alloc_map
  <2>1. a.off \in Nat /\ a.bits \in Nat \ {0} /\ Cells(a) \subseteq alloc_map
    BY <1>1 DEF AreasFit
  <2>2. Cells(a) = off .. off + n - 1
    BY <1>3 DEF Cells
  <2> QED BY <1>3, <2>1, <2>2
<1> HIDE DEF off, n
<1>5. MapFits(map, first_bit', free_bytes')
  <2>1. MapFits(map, Min({first_bit, off}), free_bytes + n * MIN_ALLOC_SIZE)
    BY <1>1, <1>3, <1>4, MapAfterFree
  <2> QED BY <1>2, <2>1
<1>6. AllFit(BlocksAfterFree(map, off, n), map)
  BY <1>1, <1>3, <1>4, FreeFits
<1>7. contig' \in Contig /\ HintCovers(md_blocks', contig')
  <2>1. first_bit' \in Nat /\ NoneBelow(first_bit', map)
    <3>1. first_bit' \in 0 .. map_bits /\ NoneBelow(first_bit', map)
      BY <1>5 DEF MapFits
    <3> QED BY <3>1, Bases
  <2> HIDE DEF map
  <2>2. LET c == ContigAfterFree(map, BlocksAfterFree(map, off, n), first_bit', off, n)
        IN  c \in Contig /\ HintCovers(BlocksAfterFree(map, off, n), c)
    BY <1>1, <1>3, <1>4, <1>6, <2>1, FreeCovers
  <2> QED BY <1>2, <2>2
<1>8. AreasFit(areas', map)
  <2>1. AreasFit(areas \ {a}, alloc_map \ Cells(a))
    BY <1>1, AreasAfterFree
  <2> QED BY <1>2, <1>4, <2>1
<1>9. BoundsFit(areas', bound_map')
  BY <1>1, <1>2 DEF BoundsFit
<1>10. WantFits(want', md_blocks')
  BY <1>2 DEF WantFits
<1> HIDE DEF map
<1> QED BY <1>2, <1>5, <1>6, <1>7, <1>8, <1>9, <1>10 DEF IInv

\* and so does a request that is started over.
LEMMA NeedNewStep ==
  ASSUME IInv, NEW bits \in Requests, NEW align \in Aligns, NeedNew(bits, align)
  PROVE  IInv'
<1>1. /\ MapFits(alloc_map, first_bit, free_bytes) /\ AllFit(md_blocks, alloc_map)
      /\ contig \in Contig /\ HintCovers(md_blocks, contig)
      /\ AreasFit(areas, alloc_map) /\ BoundsFit(areas, bound_map)
  BY DEF IInv
<1>2. /\ Found(bits, align) = -1 /\ want' = [bits |-> bits, align |-> align]
      /\ UNCHANGED <<alloc_map, bound_map, md_blocks, contig, first_bit, free_bytes, areas>>
  BY DEF NeedNew
<1>3. bits \in Nat \ {0} /\ align \in Nat \ {0} /\ Divides(align, BLOCK_BITS)
  BY RequestFacts
<1>4. first_bit \in Nat /\ NoneBelow(first_bit, alloc_map)
      /\ free_bytes = MIN_ALLOC_SIZE * Cardinality(FreeBits(alloc_map))
  <2>1. first_bit \in 0 .. map_bits
    BY <1>1 DEF MapFits
  <2> QED BY <1>1, <2>1, Bases DEF MapFits
<1>5. ASSUME NEW j \in BlockNr PROVE md_blocks[j].contig_hint < bits + align - 1
  <2>1. ~(md_blocks[j].contig_hint >= bits + align - 1)
    BY <1>1, <1>2, <1>3, <1>4, RoomyBlockIsFound
  <2>2. md_blocks[j].contig_hint \in Int
    BY <1>1 DEF AllFit, BlockMd
  <2> QED BY <1>3, <2>1, <2>2
<1>6. WantFits(want', md_blocks')
  <2>1. want'.bits = bits /\ want'.align = align
    BY <1>2
  <2> QED BY <1>2, <1>5, <2>1 DEF WantFits
<1> QED BY <1>1, <1>2, <1>6 DEF IInv

\* The metadata of the blocks and the chunk fits the bitmap, and the areas that
\* are held lie in it, however often memory is allocated and freed.
THEOREM Invariance == Spec => []IInv
<1>1. Init => IInv
  BY InitFits
<1>2. IInv /\ [Next]_vars => IInv'
  <2> SUFFICES ASSUME IInv, [Next]_vars PROVE IInv'
    OBVIOUS
  <2>1. CASE Next
    <3>1. CASE \E bits \in Requests, align \in Aligns :
                 alloc_percpu(bits, align) \/ NeedNew(bits, align)
      BY <3>1, AllocStep, NeedNewStep
    <3>2. CASE \E a \in areas : free_percpu(a)
      BY <3>2, FreeStep
    <3> QED BY <2>1, <3>1, <3>2 DEF Next
  <2>2. CASE UNCHANGED vars
    BY <2>2 DEF vars, IInv
  <2> QED BY <2>1, <2>2
<1> QED BY <1>1, <1>2, PTL DEF Spec

\* The invariant implies each of the properties.
LEMMA IInvAreas ==
  ASSUME IInv
  PROVE  AreasExact
<1>1. MapFits(alloc_map, first_bit, free_bytes) /\ AreasFit(areas, alloc_map)
      /\ BoundsFit(areas, bound_map)
  BY DEF IInv
<1>2. \A a \in areas : AreaBits(a.off) = a.bits
  BY <1>1, AreaBitsIs
<1>3. \A i \in (0 .. map_bits - 1) \ alloc_map : first_bit <= i
  BY <1>1 DEF MapFits, NoneBelow
<1> QED BY <1>1, <1>2, <1>3 DEF AreasExact, AreasFit, MapFits, FreeBits

LEMMA IInvBlocks ==
  ASSUME IInv
  PROVE  BlocksExact
<1> SUFFICES ASSUME NEW i \in 0 .. NrBlocks - 1
    PROVE  LET b   == md_blocks[i]
               map == BlockMap(alloc_map, i)
           IN  /\ b.contig_hint = Longest(map, BLOCK_BITS)
               /\ (b.contig_hint_start .. b.contig_hint_start + b.contig_hint - 1) \cap map = {}
               /\ b.left_free = find_next_bit(map, BLOCK_BITS, 0)
               /\ b.right_free = BLOCK_BITS - 1 - Max({-1} \cup map)
               /\ b.first_free <= find_next_zero_bit(map, BLOCK_BITS, 0)
  BY DEF BlocksExact
<1>1. BlockFits(md_blocks[i], BlockMap(alloc_map, i))
  BY DEF IInv, AllFit, BlockNr
<1>2. BlockMap(alloc_map, i) \subseteq 0 .. BLOCK_BITS - 1
  BY DEF BlockMap
<1> QED BY <1>1, <1>2, FitsIsExact

LEMMA IInvFit ==
  ASSUME IInv
  PROVE  FitMeansArea
<1> SUFFICES ASSUME NEW bits \in Requests, NEW align \in Aligns,
                    pcpu_find_block_fit(bits, align) # -1
             PROVE  LET off == AreaFrom(pcpu_find_block_fit(bits, align), bits, align)
                    IN  off # -1 /\ off + bits <= map_bits
  BY DEF FitMeansArea
<1>1. AllFit(md_blocks, alloc_map) /\ first_bit \in 0 .. map_bits
  BY DEF IInv, MapFits
<1>2. first_bit \in Nat
  BY <1>1, Bases
<1>3. bits \in Nat \ {0} /\ align \in Nat \ {0} /\ Divides(align, BLOCK_BITS)
  BY RequestFacts
<1> DEFINE off == AreaFrom(pcpu_find_block_fit(bits, align), bits, align)
<1>4. off \in Nat /\ off + bits <= map_bits
  BY <1>1, <1>2, <1>3, FitIsArea
<1>5. off # -1
  BY <1>4
<1> QED BY <1>4, <1>5

LEMMA IInvWant ==
  ASSUME IInv
  PROVE  SpinsWithoutRoom
<1> SUFFICES ASSUME want # Nothing, NEW i \in 0 .. NrBlocks - 1
             PROVE  Longest(BlockMap(alloc_map, i), BLOCK_BITS) < want.bits + want.align - 1
  BY DEF SpinsWithoutRoom
<1>1. BlockFits(md_blocks[i], BlockMap(alloc_map, i))
  BY DEF IInv, AllFit, BlockNr
<1>2. md_blocks[i].contig_hint < want.bits + want.align - 1
  BY DEF IInv, WantFits, BlockNr
<1> QED BY <1>1, <1>2, HintIsLongest

\* In every state areas that are held lie apart inside the usable part of the
\* chunk, the boundary map that pcpu_free_area reads tells the size each was
\* allocated with, and bitmap, free_bytes and first_bit agree with the areas.
THEOREM AreasStayExact == Spec => []AreasExact
BY Invariance, IInvAreas, PTL

\* In every state the metadata that pcpu_block_update_hint_alloc and
\* pcpu_block_update_hint_free keep up from itself is what a scan of the bitmap
\* would give.
THEOREM BlocksStayExact == Spec => []BlocksExact
BY Invariance, IInvBlocks, PTL

\* In every state a fit that pcpu_find_block_fit promises is found by
\* pcpu_alloc_area, inside the map, whatever size and alignment are asked for.
THEOREM AFitIsAnArea == Spec => []FitMeansArea
BY Invariance, IInvFit, PTL

\* In every state contig_bits is at least the contig_hint of every block.
THEOREM TheHintCoversBlocks == Spec => []HintCoversBlocks
<1>1. IInv => HintCoversBlocks
  BY DEF IInv, HintCovers, HintCoversBlocks, BlockNr
<1> QED BY <1>1, Invariance, PTL

\* pcpu_alloc starts over for ever (NeedNew) only for a request no block has the
\* room to align.
THEOREM StartsOverWithoutRoom == Spec => []SpinsWithoutRoom
BY Invariance, IInvWant, PTL
=============================================================================
