--------------------------- MODULE MemblockProofs ---------------------------
(***************************************************************************)
(* Proofs about Memblock, for any memory, page size and size of the array, *)
(* and any requests but those LowAssumption excludes: through merging,     *)
(* splitting and the moves of the array in the middle of a call the        *)
(* reserved regions are what callers own and the memory of the array, the  *)
(* room that has been counted is enough, and the searches miss nothing.    *)
(***************************************************************************)
EXTENDS Memblock, FiniteSetTheorems, SequenceTheorems, WellFoundedInduction, TLAPS

-----------------------------------------------------------------------------
(***************************************************************************)
(* Sets of numbers, and walks: what a recursive function over an array is. *)
(***************************************************************************)
\* A set of naturals has a least element, and a bounded one a greatest.
LEMMA Least ==
  ASSUME NEW T, T \subseteq Nat, T # {}
  PROVE  \E x \in T : \A y \in T : x <= y
<1> DEFINE R == OpToRel(<, Nat)
<1>1. IsWellFoundedOn(R, Nat)
  BY NatLessThanWellFounded
<1>2. \A x, y \in Nat : y < x => <<y, x>> \in R
  BY DEF OpToRel
<1> HIDE DEF R
<1>3. PICK x \in T : \A y \in T : ~ (<<y, x>> \in R)
  BY <1>1, WFMin
<1>4. \A y \in T : x <= y
  <2> SUFFICES ASSUME NEW y \in T PROVE x <= y
    OBVIOUS
  <2>1. x \in Nat /\ y \in Nat
    OBVIOUS
  <2>2. ~(y < x)
    BY <1>2, <1>3, <2>1
  <2> QED BY <2>1, <2>2
<1> QED BY <1>4

\* Min is the least element,
LEMMA MinOf ==
  ASSUME NEW T, T \subseteq Nat, T # {}
  PROVE  Min(T) \in T /\ \A y \in T : Min(T) <= y
BY Least DEF Min

\* and Max the greatest.
LEMMA MaxOf ==
  ASSUME NEW T, T \subseteq Int, T # {}, NEW u \in Int, \A x \in T : x <= u
  PROVE  Max(T) \in T /\ \A y \in T : y <= Max(T)
<1> DEFINE D == {u - x : x \in T}
<1>1. D \subseteq Nat
  <2> SUFFICES ASSUME NEW x \in T PROVE u - x \in Nat
    OBVIOUS
  <2>1. x \in Int /\ x <= u
    OBVIOUS
  <2> QED BY <2>1
<1>a. D # {}
  OBVIOUS
<1>b. \A x \in T : u - x \in D
  OBVIOUS
<1>c. \A d \in D : \E x \in T : d = u - x
  OBVIOUS
<1> HIDE DEF D
<1>2. PICK d \in D : \A y \in D : d <= y
  BY <1>1, <1>a, Least
<1>3. PICK m \in T : d = u - m
  BY <1>c
<1>4. \A y \in T : m >= y
  <2> SUFFICES ASSUME NEW y \in T PROVE m >= y
    OBVIOUS
  <2>1. u - m <= u - y
    BY <1>2, <1>3, <1>b
  <2> QED BY <2>1
<1>5. \E x \in T : \A y \in T : x >= y
  BY <1>4
<1>6. Max(T) \in T /\ \A y \in T : Max(T) >= y
  BY <1>5 DEF Max
<1>7. Max(T) \in Int
  BY <1>6
<1> QED BY <1>6, <1>7

\* Min and Max of two numbers.
LEMMA MinTwo ==
  ASSUME NEW a \in Int, NEW b \in Int
  PROVE  Min({a, b}) = IF a <= b THEN a ELSE b
BY DEF Min

LEMMA MaxTwo ==
  ASSUME NEW a \in Int, NEW b \in Int
  PROVE  Max({a, b}) = IF a <= b THEN b ELSE a
BY DEF Max

\* Induction up to n.
LEMMA Upwards ==
  ASSUME NEW n \in Nat, NEW P, 0 \in P,
         \A k \in 0 .. n - 1 : k \in P => k + 1 \in P
  PROVE  0 .. n \subseteq P
<1> DEFINE T == {k \in 0 .. n : k \notin P}
<1> SUFFICES ASSUME T # {} PROVE FALSE
  OBVIOUS
<1>0. T \subseteq Nat /\ \A k : k \in T <=> k \in 0 .. n /\ k \notin P
  OBVIOUS
<1> HIDE DEF T
<1>1. PICK x \in T : \A y \in T : x <= y
  BY <1>0, Least
<1>2. x \in Nat /\ x # 0 /\ x - 1 \in 0 .. n - 1
  BY <1>0
<1>3. x - 1 \in P
  <2>1. x - 1 \notin T
    BY <1>1, <1>2
  <2> QED BY <1>0, <1>2, <2>1
<1>4. (x - 1) + 1 \in P
  BY <1>2, <1>3
<1> QED BY <1>0, <1>2, <1>4

\* f takes the steps from init on.
Takes(f, n, init, step) ==
  f[0] = init /\ \A k \in 1 .. n : f[k] = step[k][f[k - 1]]

\* A step that stays in S can be taken n times.
LEMMA Recursion ==
  ASSUME NEW n \in Nat, NEW S, NEW init \in S, NEW step \in [1 .. n -> [S -> S]]
  PROVE  \E f \in [0 .. n -> S] : Takes(f, n, init, step)
<1> DEFINE Is(f, m) == f[0] = init /\ \A k \in 1 .. m : f[k] = step[k][f[k - 1]]
           P == {m \in 0 .. n : \E f \in [0 .. m -> S] : Is(f, m)}
<1>1. 0 \in P
  <2> DEFINE f0 == [k \in 0 .. 0 |-> init]
  <2>1. f0 \in [0 .. 0 -> S] /\ Is(f0, 0)
    OBVIOUS
  <2>2. \E f \in [0 .. 0 -> S] : Is(f, 0)
    BY <2>1
  <2> QED BY <2>2
<1>2. ASSUME NEW k \in 0 .. n - 1, k \in P PROVE k + 1 \in P
  <2>1. PICK f \in [0 .. k -> S] : Is(f, k)
    BY <1>2
  <2> DEFINE g == [j \in 0 .. k + 1 |-> IF j = k + 1 THEN step[k + 1][f[k]] ELSE f[j]]
  <2>2. k + 1 \in 1 .. n /\ f[k] \in S
    OBVIOUS
  <2>3. step[k + 1][f[k]] \in S
    BY <2>2
  <2>4. g \in [0 .. k + 1 -> S]
    BY <2>3
  <2>5. g[0] = init /\ g[k + 1] = step[k + 1][f[k]] /\ \A j \in 0 .. k : g[j] = f[j]
    BY <2>1
  <2> HIDE DEF g
  <2>6. ASSUME NEW j \in 1 .. k + 1 PROVE g[j] = step[j][g[j - 1]]
    <3>1. CASE j = k + 1
      BY <3>1, <2>5
    <3>2. CASE j # k + 1
      <4>1. j \in 1 .. k /\ j \in 0 .. k /\ j - 1 \in 0 .. k
        BY <3>2
      <4> QED BY <4>1, <2>1, <2>5
    <3> QED BY <3>1, <3>2
  <2> QED BY <2>2, <2>4, <2>5, <2>6
<1> HIDE DEF P
<1>3. n \in P
  <2>1. 0 .. n \subseteq P
    BY <1>1, <1>2, Upwards
  <2> QED BY <2>1
<1> QED BY <1>3 DEF P, Takes

\* What the steps of a walk keep holds at every point of it.
LEMMA Along ==
  ASSUME NEW n \in Nat, NEW walk, NEW S, walk[0] \in S,
         \A k \in 1 .. n : walk[k - 1] \in S => walk[k] \in S
  PROVE  \A k \in 0 .. n : walk[k] \in S
<1> DEFINE P == {k \in 0 .. n : walk[k] \in S}
<1>1. 0 \in P
  OBVIOUS
<1>2. ASSUME NEW k \in 0 .. n - 1, k \in P PROVE k + 1 \in P
  <2>1. k + 1 \in 1 .. n /\ (k + 1) - 1 = k /\ walk[k] \in S /\ k + 1 \in 0 .. n
    BY <1>2
  <2> QED BY <2>1
<1>3. 0 .. n \subseteq P
  <2> HIDE DEF P
  <2> QED BY <1>1, <1>2, Upwards
<1> QED BY <1>3

-----------------------------------------------------------------------------
(***************************************************************************)
(* Regions, and the walks over an array of them.                           *)
(***************************************************************************)
\* A region, and a sequence of regions.
Reg == [base : Int, size : Int]

\* The fields of a region from b to e.
LEMMA RegionIs ==
  ASSUME NEW b \in Int, NEW e \in Int
  PROVE  /\ Region(b, e) \in Reg /\ Region(b, e).base = b /\ Region(b, e).size = e - b
         /\ End(Region(b, e)) = e
<1>1. e - b \in Int /\ b + (e - b) = e
  OBVIOUS
<1> QED BY <1>1 DEF Region, Reg, End

\* The end of a region is a number.
LEMMA EndTyped ==
  ASSUME NEW r \in Reg
  PROVE  r.base \in Int /\ r.size \in Int /\ End(r) \in Int /\ End(r) = r.base + r.size
<1>1. r.base \in Int /\ r.size \in Int
  BY DEF Reg
<1> QED BY <1>1 DEF End

\* The entries of an array are regions.
LEMMA SeqTyped ==
  ASSUME NEW rs \in Seq(Reg)
  PROVE  Len(rs) \in Nat /\ \A i \in 1 .. Len(rs) : rs[i] \in Reg
<1>1. Len(rs) \in Nat
  OBVIOUS
<1>2. \A i \in 1 .. Len(rs) : rs[i] \in Reg
  BY ElementOfSeq
<1> QED BY <1>1, <1>2

\* The sums of the sizes.
LEMMA SizeWalkIs ==
  ASSUME NEW rs \in Seq(Reg)
  PROVE  /\ SizeWalk(rs)[0] = 0
         /\ \A k \in 1 .. Len(rs) : SizeWalk(rs)[k] = SizeWalk(rs)[k - 1] + rs[k].size
         /\ \A k \in 0 .. Len(rs) : SizeWalk(rs)[k] \in Int
<1> DEFINE n == Len(rs)
           S(k, x) == x + rs[k].size
           init == 0
           step == [k \in 1 .. n |-> [x \in Int |-> S(k, x)]]
           F(g) == [k \in 0 .. n |-> IF k = 0 THEN init ELSE S(k, g[k - 1])]
<1>0. n \in Nat /\ init \in Int
  BY SeqTyped
<1>1. ASSUME NEW k \in 1 .. n, NEW x \in Int PROVE S(k, x) \in Int
  <2>1. rs[k] \in Reg
    BY SeqTyped
  <2>2. rs[k].size \in Int
    BY <2>1, EndTyped
  <2> QED BY <2>2
<1>2. SizeWalk(rs) = CHOOSE g : g = F(g)
  BY DEF SizeWalk
<1> DEFINE walk == SizeWalk(rs)
<1>3. \A k \in 1 .. n : S(k, walk[k - 1]) = SizeWalk(rs)[k - 1] + rs[k].size
  OBVIOUS
<1> HIDE DEF S, n, init, walk
<1>4. step \in [1 .. n -> [Int -> Int]] /\ \A k \in 1 .. n, x \in Int : step[k][x] = S(k, x)
  BY <1>1
<1> HIDE DEF step
<1>5. PICK f \in [0 .. n -> Int] : Takes(f, n, init, step)
  BY <1>0, <1>4, Recursion
<1>6. f = F(f)
  <2>1. ASSUME NEW k \in 0 .. n PROVE f[k] = IF k = 0 THEN init ELSE S(k, f[k - 1])
    <3>1. CASE k = 0
      BY <1>5, <3>1 DEF Takes
    <3>2. CASE k # 0
      <4>1. k \in 1 .. n /\ f[k - 1] \in Int
        BY <1>0, <3>2
      <4> QED BY <1>4, <1>5, <3>2, <4>1 DEF Takes
    <3> QED BY <3>1, <3>2
  <2> QED BY <2>1
<1> HIDE DEF F
<1>7. walk = F(walk)
  BY <1>2, <1>6 DEF walk
<1>8. walk[0] = init /\ \A k \in 1 .. n : walk[k] = S(k, walk[k - 1])
  <2>1. 0 \in 0 .. n /\ \A k \in 1 .. n : k \in 0 .. n /\ k # 0
    BY <1>0
  <2> QED BY <1>7, <2>1 DEF F
<1>9. \A k \in 1 .. n : walk[k - 1] \in Int => walk[k] \in Int
  BY <1>1, <1>8
<1>10. \A k \in 0 .. n : walk[k] \in Int
  BY <1>0, <1>8, <1>9, Along
<1> QED BY <1>3, <1>8, <1>10 DEF walk, init, n

\* A piece at the end of an array is one region, or none.
LEMMA PieceIs ==
  ASSUME NEW s \in Seq(Reg), NEW b \in Int, NEW e \in Int
  PROVE  /\ Piece(b, e) \in Seq(Reg) /\ s \o Piece(b, e) \in Seq(Reg)
         /\ ~(b < e) => s \o Piece(b, e) = s
         /\ b < e => s \o Piece(b, e) = Append(s, Region(b, e))
<1>1. Region(b, e) \in Reg
  BY RegionIs
<1>2. <<Region(b, e)>> \in Seq(Reg) /\ <<>> \in Seq(Reg)
  BY <1>1
<1>3. s \o <<>> = s
  BY ConcatEmptySeq
<1>4. s \o <<Region(b, e)>> = Append(s, Region(b, e))
  BY <1>1, AppendIsConcat
<1>5. Append(s, Region(b, e)) \in Seq(Reg)
  BY <1>1, AppendProperties
<1> QED BY <1>2, <1>3, <1>4, <1>5 DEF Piece

\* One step of merging.
LEMMA MergeStepTyped ==
  ASSUME NEW out \in Seq(Reg), NEW r \in Reg
  PROVE  MergeStep(out, r) \in Seq(Reg)
<1>1. CASE Len(out) > 0 /\ End(out[Len(out)]) = r.base
  <2>1. Len(out) \in 1 .. Len(out)
    BY <1>1
  <2>2. out[Len(out)] \in Reg
    BY <2>1, SeqTyped
  <2>3. out[Len(out)].base \in Int /\ End(r) \in Int
    BY <2>2, EndTyped
  <2>4. Region(out[Len(out)].base, End(r)) \in Reg
    BY <2>3, RegionIs
  <2>5. [out EXCEPT ![Len(out)] = Region(out[Len(out)].base, End(r))] \in Seq(Reg)
    BY <2>1, <2>4, ExceptSeq
  <2> QED BY <1>1, <2>5 DEF MergeStep
<1>2. CASE ~(Len(out) > 0 /\ End(out[Len(out)]) = r.base)
  BY <1>2, AppendProperties DEF MergeStep
<1> QED BY <1>1, <1>2

\* The loop of memblock_merge_regions.
LEMMA MergeWalkIs ==
  ASSUME NEW rs \in Seq(Reg)
  PROVE  /\ MergeWalk(rs)[0] = <<>>
         /\ \A k \in 1 .. Len(rs) : MergeWalk(rs)[k] = MergeStep(MergeWalk(rs)[k - 1], rs[k])
         /\ \A k \in 0 .. Len(rs) : MergeWalk(rs)[k] \in Seq(Reg)
<1> DEFINE n == Len(rs)
           S(k, x) == MergeStep(x, rs[k])
           init == <<>>
           step == [k \in 1 .. n |-> [x \in Seq(Reg) |-> S(k, x)]]
           F(g) == [k \in 0 .. n |-> IF k = 0 THEN init ELSE S(k, g[k - 1])]
<1>0. n \in Nat /\ init \in Seq(Reg)
  BY SeqTyped
<1>1. ASSUME NEW k \in 1 .. n, NEW x \in Seq(Reg) PROVE S(k, x) \in Seq(Reg)
  <2>1. rs[k] \in Reg
    BY SeqTyped
  <2> QED BY <2>1, MergeStepTyped
<1>2. MergeWalk(rs) = CHOOSE g : g = F(g)
  BY DEF MergeWalk
<1> DEFINE walk == MergeWalk(rs)
<1>3. \A k \in 1 .. n : S(k, walk[k - 1]) = MergeStep(MergeWalk(rs)[k - 1], rs[k])
  OBVIOUS
<1> HIDE DEF S, n, init, walk
<1>4. step \in [1 .. n -> [Seq(Reg) -> Seq(Reg)]] /\ \A k \in 1 .. n, x \in Seq(Reg) : step[k][x] = S(k, x)
  BY <1>1
<1> HIDE DEF step
<1>5. PICK f \in [0 .. n -> Seq(Reg)] : Takes(f, n, init, step)
  BY <1>0, <1>4, Recursion
<1>6. f = F(f)
  <2>1. ASSUME NEW k \in 0 .. n PROVE f[k] = IF k = 0 THEN init ELSE S(k, f[k - 1])
    <3>1. CASE k = 0
      BY <1>5, <3>1 DEF Takes
    <3>2. CASE k # 0
      <4>1. k \in 1 .. n /\ f[k - 1] \in Seq(Reg)
        BY <1>0, <3>2
      <4> QED BY <1>4, <1>5, <3>2, <4>1 DEF Takes
    <3> QED BY <3>1, <3>2
  <2> QED BY <2>1
<1> HIDE DEF F
<1>7. walk = F(walk)
  BY <1>2, <1>6 DEF walk
<1>8. walk[0] = init /\ \A k \in 1 .. n : walk[k] = S(k, walk[k - 1])
  <2>1. 0 \in 0 .. n /\ \A k \in 1 .. n : k \in 0 .. n /\ k # 0
    BY <1>0
  <2> QED BY <1>7, <2>1 DEF F
<1>9. \A k \in 1 .. n : walk[k - 1] \in Seq(Reg) => walk[k] \in Seq(Reg)
  BY <1>1, <1>8
<1>10. \A k \in 0 .. n : walk[k] \in Seq(Reg)
  BY <1>0, <1>8, <1>9, Along
<1> QED BY <1>3, <1>8, <1>10 DEF walk, init, n

\* What a region leaves outside of a range.
LEMMA OutsideTyped ==
  ASSUME NEW r \in Reg, NEW b \in Int, NEW e \in Int
  PROVE  Outside(r, b, e) \in Seq(Reg)
<1>1. r.base \in Int /\ End(r) \in Int
  BY EndTyped
<1>2. Piece(r.base, b) \in Seq(Reg)
  <2>1. <<>> \in Seq(Reg)
    OBVIOUS
  <2> QED BY <1>1, <2>1, PieceIs
<1>3. Piece(r.base, b) \o Piece(e, End(r)) \in Seq(Reg)
  BY <1>1, <1>2, PieceIs
<1>4. <<r>> \in Seq(Reg)
  OBVIOUS
<1> QED BY <1>3, <1>4, Zenon DEF Outside

\* The loop of memblock_isolate_range.
LEMMA CutWalkIs ==
  ASSUME NEW rs \in Seq(Reg), NEW b \in Int, NEW e \in Int
  PROVE  /\ CutWalk(rs, b, e)[0] = <<>>
         /\ \A k \in 1 .. Len(rs) : CutWalk(rs, b, e)[k] = CutWalk(rs, b, e)[k - 1] \o Outside(rs[k], b, e)
         /\ \A k \in 0 .. Len(rs) : CutWalk(rs, b, e)[k] \in Seq(Reg)
<1> DEFINE n == Len(rs)
           S(k, x) == x \o Outside(rs[k], b, e)
           init == <<>>
           step == [k \in 1 .. n |-> [x \in Seq(Reg) |-> S(k, x)]]
           F(g) == [k \in 0 .. n |-> IF k = 0 THEN init ELSE S(k, g[k - 1])]
<1>0. n \in Nat /\ init \in Seq(Reg)
  BY SeqTyped
<1>1. ASSUME NEW k \in 1 .. n, NEW x \in Seq(Reg) PROVE S(k, x) \in Seq(Reg)
  <2>1. rs[k] \in Reg
    BY SeqTyped
  <2>2. Outside(rs[k], b, e) \in Seq(Reg)
    BY <2>1, OutsideTyped
  <2> QED BY <2>2, ConcatProperties
<1>2. CutWalk(rs, b, e) = CHOOSE g : g = F(g)
  BY DEF CutWalk
<1> DEFINE walk == CutWalk(rs, b, e)
<1>3. \A k \in 1 .. n : S(k, walk[k - 1]) = CutWalk(rs, b, e)[k - 1] \o Outside(rs[k], b, e)
  OBVIOUS
<1> HIDE DEF S, n, init, walk
<1>4. step \in [1 .. n -> [Seq(Reg) -> Seq(Reg)]] /\ \A k \in 1 .. n, x \in Seq(Reg) : step[k][x] = S(k, x)
  BY <1>1
<1> HIDE DEF step
<1>5. PICK f \in [0 .. n -> Seq(Reg)] : Takes(f, n, init, step)
  BY <1>0, <1>4, Recursion
<1>6. f = F(f)
  <2>1. ASSUME NEW k \in 0 .. n PROVE f[k] = IF k = 0 THEN init ELSE S(k, f[k - 1])
    <3>1. CASE k = 0
      BY <1>5, <3>1 DEF Takes
    <3>2. CASE k # 0
      <4>1. k \in 1 .. n /\ f[k - 1] \in Seq(Reg)
        BY <1>0, <3>2
      <4> QED BY <1>4, <1>5, <3>2, <4>1 DEF Takes
    <3> QED BY <3>1, <3>2
  <2> QED BY <2>1
<1> HIDE DEF F
<1>7. walk = F(walk)
  BY <1>2, <1>6 DEF walk
<1>8. walk[0] = init /\ \A k \in 1 .. n : walk[k] = S(k, walk[k - 1])
  <2>1. 0 \in 0 .. n /\ \A k \in 1 .. n : k \in 0 .. n /\ k # 0
    BY <1>0
  <2> QED BY <1>7, <2>1 DEF F
<1>9. \A k \in 1 .. n : walk[k - 1] \in Seq(Reg) => walk[k] \in Seq(Reg)
  BY <1>1, <1>8
<1>10. \A k \in 0 .. n : walk[k] \in Seq(Reg)
  BY <1>0, <1>8, <1>9, Along
<1> QED BY <1>3, <1>8, <1>10 DEF walk, init, n

\* What the loop of memblock_add_range has built, and where it goes on.
AddState == [out : Seq(Reg), base : Int]

\* The cases of one step of memblock_add_range.
LEMMA AddStepIs ==
  ASSUME NEW e \in Int, NEW w \in AddState, NEW r \in Reg
  PROVE  /\ AddStep(e, w, r) \in AddState
         /\ End(r) <= w.base =>
              AddStep(e, w, r).out = Append(w.out, r) /\ AddStep(e, w, r).base = w.base
         /\ ~(End(r) <= w.base) =>
              /\ AddStep(e, w, r).out = Append(w.out \o Piece(w.base, Min({r.base, e})), r)
              /\ AddStep(e, w, r).base = Min({End(r), e})
<1>1. r.base \in Int /\ End(r) \in Int /\ w.out \in Seq(Reg) /\ w.base \in Int
  BY EndTyped DEF AddState
<1>2. Min({r.base, e}) \in Int /\ Min({End(r), e}) \in Int
  BY <1>1, MinTwo
<1> DEFINE q == w.out \o Piece(w.base, Min({r.base, e}))
<1>3. q \in Seq(Reg)
  BY <1>1, <1>2, PieceIs
<1> HIDE DEF q
<1>4. q \o <<r>> = Append(q, r) /\ Append(q, r) \in Seq(Reg) /\ Append(w.out, r) \in Seq(Reg)
  BY <1>1, <1>3, AppendIsConcat, AppendProperties
<1>5. AddStep(e, w, r) = IF End(r) <= w.base
                           THEN [out |-> Append(w.out, r), base |-> w.base]
                           ELSE [out |-> q \o <<r>>, base |-> Min({End(r), e})]
  BY DEF AddStep, q
<1> QED BY <1>1, <1>2, <1>4, <1>5 DEF AddState, q

\* The loop of memblock_add_range.
LEMMA AddWalkIs ==
  ASSUME NEW rs \in Seq(Reg), NEW b \in Int, NEW e \in Int
  PROVE  /\ AddWalk(rs, b, e)[0] = [out |-> <<>>, base |-> b]
         /\ \A k \in 1 .. Len(rs) : AddWalk(rs, b, e)[k] = AddStep(e, AddWalk(rs, b, e)[k - 1], rs[k])
         /\ \A k \in 0 .. Len(rs) : AddWalk(rs, b, e)[k] \in AddState
<1> DEFINE n == Len(rs)
           S(k, x) == AddStep(e, x, rs[k])
           init == [out |-> <<>>, base |-> b]
           step == [k \in 1 .. n |-> [x \in AddState |-> S(k, x)]]
           F(g) == [k \in 0 .. n |-> IF k = 0 THEN init ELSE S(k, g[k - 1])]
<1>0. n \in Nat /\ init \in AddState
  BY SeqTyped DEF AddState
<1>1. ASSUME NEW k \in 1 .. n, NEW x \in AddState PROVE S(k, x) \in AddState
  <2>1. rs[k] \in Reg
    BY SeqTyped
  <2> QED BY <2>1, AddStepIs
<1>2. AddWalk(rs, b, e) = CHOOSE g : g = F(g)
  BY DEF AddWalk
<1> DEFINE walk == AddWalk(rs, b, e)
<1>3. \A k \in 1 .. n : S(k, walk[k - 1]) = AddStep(e, AddWalk(rs, b, e)[k - 1], rs[k])
  OBVIOUS
<1> HIDE DEF S, n, init, walk
<1>4. step \in [1 .. n -> [AddState -> AddState]] /\ \A k \in 1 .. n, x \in AddState : step[k][x] = S(k, x)
  BY <1>1
<1> HIDE DEF step
<1>5. PICK f \in [0 .. n -> AddState] : Takes(f, n, init, step)
  BY <1>0, <1>4, Recursion
<1>6. f = F(f)
  <2>1. ASSUME NEW k \in 0 .. n PROVE f[k] = IF k = 0 THEN init ELSE S(k, f[k - 1])
    <3>1. CASE k = 0
      BY <1>5, <3>1 DEF Takes
    <3>2. CASE k # 0
      <4>1. k \in 1 .. n /\ f[k - 1] \in AddState
        BY <1>0, <3>2
      <4> QED BY <1>4, <1>5, <3>2, <4>1 DEF Takes
    <3> QED BY <3>1, <3>2
  <2> QED BY <2>1
<1> HIDE DEF F
<1>7. walk = F(walk)
  BY <1>2, <1>6 DEF walk
<1>8. walk[0] = init /\ \A k \in 1 .. n : walk[k] = S(k, walk[k - 1])
  <2>1. 0 \in 0 .. n /\ \A k \in 1 .. n : k \in 0 .. n /\ k # 0
    BY <1>0
  <2> QED BY <1>7, <2>1 DEF F
<1>9. \A k \in 1 .. n : walk[k - 1] \in AddState => walk[k] \in AddState
  BY <1>1, <1>8
<1>10. \A k \in 0 .. n : walk[k] \in AddState
  BY <1>0, <1>8, <1>9, Along
<1> QED BY <1>3, <1>8, <1>10 DEF walk, init, n

-----------------------------------------------------------------------------
(***************************************************************************)
(* The cells of an array, its order and the sum of its sizes.              *)
(***************************************************************************)
\* x is a cell of one of the regions.
Has(rs, x) == \E i \in 1 .. Len(rs) : rs[i].base <= x /\ x < End(rs[i])

\* The regions are in order and at least d apart.
Apart(rs, d) ==
  /\ \A i \in 1 .. Len(rs) : 0 <= rs[i].base /\ 0 < rs[i].size
  /\ \A i, j \in 1 .. Len(rs) : i < j => End(rs[i]) + d <= rs[j].base

\* No region reaches above x.
Below(rs, x) == \A i \in 1 .. Len(rs) : End(rs[i]) <= x

\* One more region at the end.
LEMMA AppendedIs ==
  ASSUME NEW s \in Seq(Reg), NEW r \in Reg, NEW t, t = Append(s, r)
  PROVE  /\ t \in Seq(Reg) /\ Len(t) = Len(s) + 1
         /\ \A i \in 1 .. Len(s) : t[i] = s[i]
         /\ t[Len(s) + 1] = r
         /\ \A x \in Int : Has(t, x) <=> Has(s, x) \/ (r.base <= x /\ x < End(r))
         /\ \A x \in Int : Below(t, x) <=> Below(s, x) /\ End(r) <= x
         /\ \A d \in Int : Apart(s, d) /\ Below(s, r.base - d) /\ 0 <= r.base /\ 0 < r.size
                              => Apart(t, d)
<1>1. /\ t \in Seq(Reg) /\ Len(t) = Len(s) + 1
      /\ \A i \in 1 .. Len(s) : t[i] = s[i]
      /\ t[Len(s) + 1] = r
  BY AppendProperties
<1>2. Len(s) \in Nat /\ \A i \in 1 .. Len(t) : i \in 1 .. Len(s) \/ i = Len(s) + 1
  BY <1>1
<1>3. Len(s) + 1 \in 1 .. Len(t) /\ \A i \in 1 .. Len(s) : i \in 1 .. Len(t)
  BY <1>1, <1>2
<1>4. ASSUME NEW x \in Int
      PROVE  Has(t, x) <=> Has(s, x) \/ (r.base <= x /\ x < End(r))
  BY <1>1, <1>2, <1>3 DEF Has
<1>5. ASSUME NEW x \in Int
      PROVE  Below(t, x) <=> Below(s, x) /\ End(r) <= x
  BY <1>1, <1>2, <1>3 DEF Below
<1>6. ASSUME NEW d \in Int, Apart(s, d), Below(s, r.base - d), 0 <= r.base, 0 < r.size
      PROVE  Apart(t, d)
  <2>1. ASSUME NEW i \in 1 .. Len(t) PROVE 0 <= t[i].base /\ 0 < t[i].size
    BY <1>1, <1>2, <1>6 DEF Apart
  <2>2. ASSUME NEW i \in 1 .. Len(t), NEW j \in 1 .. Len(t), i < j
        PROVE  End(t[i]) + d <= t[j].base
    <3>1. i \in 1 .. Len(s)
      BY <1>1, <1>2, <2>2
    <3>2. CASE j \in 1 .. Len(s)
      BY <1>1, <1>6, <2>2, <3>1, <3>2 DEF Apart
    <3>3. CASE j = Len(s) + 1
      <4>1. End(s[i]) <= r.base - d
        BY <1>6, <3>1 DEF Below
      <4>2. End(s[i]) \in Int /\ r.base \in Int
        BY <3>1, SeqTyped, EndTyped
      <4> QED BY <1>1, <3>1, <3>3, <4>1, <4>2
    <3> QED BY <1>2, <3>2, <3>3
  <2> QED BY <2>1, <2>2 DEF Apart
<1> QED BY <1>1, <1>4, <1>5, <1>6

\* Sums of sequences that agree.
LEMMA SizeAgree ==
  ASSUME NEW s \in Seq(Reg), NEW t \in Seq(Reg), NEW n \in Nat, n <= Len(s), n <= Len(t),
         \A i \in 1 .. n : s[i].size = t[i].size
  PROVE  SizeWalk(s)[n] = SizeWalk(t)[n]
<1> DEFINE P == {k \in 0 .. n : SizeWalk(s)[k] = SizeWalk(t)[k]}
<1>1. /\ SizeWalk(s)[0] = 0 /\ SizeWalk(t)[0] = 0
      /\ \A k \in 1 .. Len(s) : SizeWalk(s)[k] = SizeWalk(s)[k - 1] + s[k].size
      /\ \A k \in 1 .. Len(t) : SizeWalk(t)[k] = SizeWalk(t)[k - 1] + t[k].size
  BY SizeWalkIs
<1>2. 0 \in P
  BY <1>1
<1>3. ASSUME NEW k \in 0 .. n - 1, k \in P PROVE k + 1 \in P
  <2>1. /\ k + 1 \in 1 .. n /\ k + 1 \in 1 .. Len(s) /\ k + 1 \in 1 .. Len(t)
        /\ (k + 1) - 1 = k /\ k + 1 \in 0 .. n
    OBVIOUS
  <2>2. SizeWalk(s)[k] = SizeWalk(t)[k]
    BY <1>3
  <2>3. SizeWalk(s)[k + 1] = SizeWalk(t)[k + 1]
    BY <1>1, <2>1, <2>2
  <2> QED BY <2>1, <2>3
<1>4. 0 .. n \subseteq P
  <2> HIDE DEF P
  <2> QED BY <1>2, <1>3, Upwards
<1> QED BY <1>4

\* The sum of the sizes is a number.
LEMMA SizeTyped ==
  ASSUME NEW s \in Seq(Reg)
  PROVE  SizeOf(s) \in Int /\ (Len(s) = 0 => SizeOf(s) = 0)
<1>1. Len(s) \in 0 .. Len(s)
  BY SeqTyped
<1> QED BY <1>1, SizeWalkIs DEF SizeOf

\* The last region counts as what it is.
LEMMA SizeLast ==
  ASSUME NEW s \in Seq(Reg), NEW t \in Seq(Reg), NEW n \in Nat,
         Len(s) = n + 1, Len(t) = n + 1, \A i \in 1 .. n : s[i].size = t[i].size
  PROVE  SizeOf(t) = (SizeOf(s) + t[n + 1].size) - s[n + 1].size
<1>1. SizeWalk(s)[n] = SizeWalk(t)[n]
  BY SizeAgree
<1>2. n + 1 \in 1 .. Len(s) /\ n + 1 \in 1 .. Len(t) /\ (n + 1) - 1 = n /\ n \in 0 .. Len(s)
  OBVIOUS
<1>3. /\ SizeWalk(s)[n + 1] = SizeWalk(s)[n] + s[n + 1].size
      /\ SizeWalk(t)[n + 1] = SizeWalk(t)[n] + t[n + 1].size
      /\ SizeWalk(s)[n] \in Int
  BY <1>2, SizeWalkIs
<1>4. s[n + 1].size \in Int /\ t[n + 1].size \in Int
  BY <1>2, SeqTyped, EndTyped
<1>5. SizeOf(s) = SizeWalk(s)[n + 1] /\ SizeOf(t) = SizeWalk(t)[n + 1]
  BY DEF SizeOf
<1> QED BY <1>1, <1>3, <1>4, <1>5

\* One more region adds its size.
LEMMA SizeAppend ==
  ASSUME NEW s \in Seq(Reg), NEW r \in Reg, NEW t, t = Append(s, r)
  PROVE  SizeOf(t) = SizeOf(s) + r.size
<1>1. /\ t \in Seq(Reg) /\ Len(t) = Len(s) + 1 /\ t[Len(s) + 1] = r
      /\ \A i \in 1 .. Len(s) : t[i] = s[i]
  BY AppendedIs
<1>2. Len(s) \in Nat /\ Len(s) <= Len(t) /\ \A i \in 1 .. Len(s) : s[i].size = t[i].size
  BY <1>1
<1>3. ASSUME NEW n \in Nat, n = Len(s) PROVE SizeWalk(s)[n] = SizeWalk(t)[n]
  <2>1. n <= Len(s) /\ n <= Len(t) /\ t \in Seq(Reg)
    BY <1>1, <1>2, <1>3
  <2>2. \A i \in 1 .. n : s[i].size = t[i].size
    BY <1>2, <1>3
  <2> QED BY <2>1, <2>2, SizeAgree
<1>4. Len(s) + 1 \in 1 .. Len(t) /\ (Len(s) + 1) - 1 = Len(s)
  BY <1>1, <1>2
<1>5. SizeWalk(t)[Len(s) + 1] = SizeWalk(t)[(Len(s) + 1) - 1] + t[Len(s) + 1].size
  BY <1>1, <1>4, SizeWalkIs
<1>6. SizeWalk(s)[Len(s)] = SizeWalk(t)[Len(s)]
  BY <1>2, <1>3
<1> QED BY <1>1, <1>4, <1>5, <1>6 DEF SizeOf

\* The sum of one region.
LEMMA SizeOne ==
  ASSUME NEW r \in Reg
  PROVE  SizeOf(<<r>>) = r.size
<1>1. <<r>> \in Seq(Reg) /\ Len(<<r>>) = 1 /\ <<r>>[1] = r
  OBVIOUS
<1>2. 1 \in 1 .. Len(<<r>>) /\ 1 - 1 = 0
  BY <1>1
<1>3. SizeWalk(<<r>>)[1] = SizeWalk(<<r>>)[1 - 1] + <<r>>[1].size /\ SizeWalk(<<r>>)[0] = 0
  BY <1>1, <1>2, SizeWalkIs
<1>4. r.size \in Int
  BY EndTyped
<1> QED BY <1>1, <1>2, <1>3, <1>4 DEF SizeOf

-----------------------------------------------------------------------------
(***************************************************************************)
(* memblock_merge_regions.                                                 *)
(***************************************************************************)
\* One region more is merged with the last, or follows it.
LEMMA MergeStepIs ==
  ASSUME NEW out \in Seq(Reg), NEW r \in Reg, Apart(out, 1), Below(out, r.base),
         0 <= r.base, 0 < r.size, NEW t, t = MergeStep(out, r)
  PROVE  /\ t \in Seq(Reg) /\ Apart(t, 1)
         /\ 1 <= Len(t) /\ Len(t) <= Len(out) + 1
         /\ \A x \in Int : Has(t, x) <=> Has(out, x) \/ (r.base <= x /\ x < End(r))
         /\ Below(t, End(r))
         /\ SizeOf(t) = SizeOf(out) + r.size
<1> DEFINE n == Len(out)
<1>0. /\ n \in Nat /\ \A i \in 1 .. n : out[i] \in Reg /\ out[i].base \in Int /\ out[i].size \in Int
      /\ \A i \in 1 .. n : End(out[i]) \in Int /\ End(out[i]) = out[i].base + out[i].size
      /\ r.base \in Int /\ r.size \in Int /\ End(r) \in Int /\ End(r) = r.base + r.size
  BY SeqTyped, EndTyped
<1>1. CASE n > 0 /\ End(out[n]) = r.base
  <2> DEFINE q == Region(out[n].base, End(r))
  <2>1. n \in 1 .. n /\ out[n].base \in Int /\ n - 1 \in Nat /\ n = (n - 1) + 1
    BY <1>0, <1>1
  <2>2. q \in Reg /\ q.base = out[n].base /\ q.size = End(r) - out[n].base /\ End(q) = End(r)
    BY <1>0, <2>1, RegionIs
  <2>3. t = [out EXCEPT ![n] = q]
    BY <1>1 DEF MergeStep
  <2> HIDE DEF q
  <2>4. t \in Seq(Reg) /\ Len(t) = n /\ t[n] = q /\ \A i \in 1 .. n : i # n => t[i] = out[i]
    BY <2>1, <2>2, <2>3, ExceptSeq
  <2>5. \A i \in 1 .. n : 0 <= out[i].base /\ 0 < out[i].size /\ End(out[i]) <= r.base
    BY DEF Apart, Below
  <2>6. \A i, j \in 1 .. n : i < j => End(out[i]) + 1 <= out[j].base
    BY DEF Apart
  <2> HIDE DEF n
  <2>7. Apart(t, 1)
    <3>1. ASSUME NEW i \in 1 .. n PROVE 0 <= t[i].base /\ 0 < t[i].size
      <4>1. CASE i = n
        <5>1. t[i].base = out[n].base /\ t[i].size = End(r) - out[n].base
          BY <2>2, <2>4, <4>1
        <5>2. 0 <= out[n].base /\ 0 < out[n].size /\ out[n].base + out[n].size = r.base
          BY <1>0, <1>1, <2>1, <2>5 DEF n
        <5>3. out[n].base \in Int /\ out[n].size \in Int
          BY <1>0, <2>1 DEF n
        <5>4. r.base \in Int /\ r.size \in Int /\ 0 < r.size /\ End(r) = r.base + r.size
          BY <1>0
        <5>5. 0 < End(r) - out[n].base
          BY <5>2, <5>3, <5>4
        <5> QED BY <5>1, <5>2, <5>5
      <4>2. CASE i # n
        BY <2>4, <2>5, <4>2
      <4> QED BY <4>1, <4>2
    <3>2. ASSUME NEW i \in 1 .. n, NEW j \in 1 .. n, i < j PROVE End(t[i]) + 1 <= t[j].base
      <4>1. i # n /\ t[i] = out[i] /\ t[j].base = out[j].base
        <5>1. i # n
          BY <1>0, <3>2 DEF n
        <5>2. CASE j = n
          BY <2>2, <2>4, <5>1, <5>2
        <5>3. CASE j # n
          BY <2>4, <5>1, <5>3
        <5> QED BY <5>1, <5>2, <5>3, <2>4
      <4> QED BY <2>6, <3>2, <4>1
    <3> QED BY <2>4, <3>1, <3>2 DEF Apart
  <2>8. ASSUME NEW x \in Int PROVE Has(t, x) <=> Has(out, x) \/ (r.base <= x /\ x < End(r))
    <3>1. Has(t, x) <=> \E i \in 1 .. n : t[i].base <= x /\ x < End(t[i])
      BY <2>4 DEF Has
    <3>2. Has(out, x) <=> \E i \in 1 .. n : out[i].base <= x /\ x < End(out[i])
      BY DEF Has, n
    <3>3. \A i \in 1 .. n : i # n => t[i] = out[i]
      BY <2>4
    <3>4. t[n].base = out[n].base /\ End(t[n]) = End(r)
      BY <2>1, <2>2, <2>4
    <3>5. out[n].base <= r.base /\ r.base <= End(r) /\ End(out[n]) = r.base
      <4>1. 0 < out[n].size /\ out[n].base + out[n].size = r.base
        BY <1>0, <1>1, <2>1, <2>5 DEF n
      <4>2. out[n].base \in Int /\ out[n].size \in Int
        BY <1>0, <2>1 DEF n
      <4>3. r.base \in Int /\ r.size \in Int /\ 0 < r.size /\ End(r) = r.base + r.size
        BY <1>0
      <4>4. out[n].base <= r.base /\ r.base <= End(r)
        BY <4>1, <4>2, <4>3
      <4> QED BY <1>1, <4>4
    <3>6. \A i \in 1 .. n : out[i].base \in Int /\ End(out[i]) \in Int
      BY <1>0 DEF n
    <3>7. (t[n].base <= x /\ x < End(t[n])) <=>
            (out[n].base <= x /\ x < End(out[n])) \/ (r.base <= x /\ x < End(r))
      BY <1>0, <2>1, <3>4, <3>5, <3>6
    <3> QED BY <2>1, <3>1, <3>2, <3>3, <3>7
  <2>9. Below(t, End(r))
    <3>1. ASSUME NEW i \in 1 .. n PROVE End(t[i]) <= End(r)
      <4>1. CASE i = n
        BY <1>0, <2>2, <2>4, <4>1
      <4>2. CASE i # n
        <5>1. End(t[i]) = End(out[i]) /\ End(out[i]) <= r.base /\ End(out[i]) \in Int
          BY <1>0, <2>4, <2>5, <4>2 DEF n
        <5> QED BY <1>0, <5>1
      <4> QED BY <4>1, <4>2
    <3> QED BY <2>4, <3>1 DEF Below
  <2>10. SizeOf(t) = SizeOf(out) + r.size
    <3>1. \A i \in 1 .. n - 1 : out[i].size = t[i].size
      BY <2>1, <2>4
    <3>2. \A m \in Nat : m = n - 1 => SizeOf(t) = (SizeOf(out) + t[m + 1].size) - out[m + 1].size
      <4> SUFFICES ASSUME NEW m \in Nat, m = n - 1
                   PROVE SizeOf(t) = (SizeOf(out) + t[m + 1].size) - out[m + 1].size
        OBVIOUS
      <4>1. Len(out) = m + 1 /\ Len(t) = m + 1
        BY <2>1, <2>4 DEF n
      <4>2. \A i \in 1 .. m : out[i].size = t[i].size
        BY <3>1
      <4> QED BY <2>4, <4>1, <4>2, SizeLast
    <3>3. SizeOf(t) = (SizeOf(out) + t[n].size) - out[n].size
      BY <2>1, <3>2
    <3>4. t[n].size = End(r) - out[n].base /\ out[n].size \in Int /\ End(out[n]) = out[n].base + out[n].size
      BY <1>0, <2>1, <2>2, <2>4 DEF n
    <3>5. SizeOf(out) \in Int
      BY SizeTyped
    <3>a. r.base \in Int /\ r.size \in Int /\ End(r) = r.base + r.size /\ out[n].base \in Int
      BY <1>0, <2>1
    <3>b. out[n].base + out[n].size = r.base
      BY <1>1, <3>4
    <3>6. t[n].size = (out[n].size + r.size) /\ out[n].size \in Int /\ r.size \in Int
      BY <3>4, <3>a, <3>b
    <3> QED BY <3>3, <3>5, <3>6
  <2>11. 1 <= Len(t) /\ Len(t) <= Len(out) + 1
    BY <1>0, <1>1, <2>4 DEF n
  <2> QED BY <2>4, <2>7, <2>8, <2>9, <2>10, <2>11
<1>2. CASE ~(n > 0 /\ End(out[n]) = r.base)
  <2>1. t = Append(out, r)
    BY <1>2 DEF MergeStep
  <2>2. Below(out, r.base - 1)
    <3> SUFFICES ASSUME NEW i \in 1 .. n PROVE End(out[i]) <= r.base - 1
      BY DEF Below
    <3>1. n \in 1 .. n /\ n > 0
      BY <1>0
    <3>2. End(out[n]) <= r.base /\ End(out[n]) # r.base /\ End(out[n]) \in Int
      BY <1>0, <1>2, <3>1 DEF Below
    <3>3. CASE i = n
      BY <1>0, <3>2, <3>3
    <3>4. CASE i # n
      <4>1. i < n
        BY <1>0, <3>4
      <4>2. End(out[i]) + 1 <= out[n].base /\ 0 < out[n].size
        BY <3>1, <4>1 DEF Apart
      <4>3. End(out[i]) \in Int /\ out[n].base \in Int /\ out[n].size \in Int /\ End(out[n]) = out[n].base + out[n].size
        BY <1>0, <3>1
      <4> QED BY <1>0, <3>2, <4>2, <4>3
    <3> QED BY <3>3, <3>4
  <2>3. Below(t, End(r)) <=> Below(out, End(r)) /\ End(r) <= End(r)
    BY <1>0, <2>1, AppendedIs
  <2>4. Below(out, End(r))
    <3>1. ASSUME NEW i \in 1 .. n PROVE End(out[i]) <= End(r)
      <4>1. End(out[i]) <= r.base /\ End(out[i]) \in Int
        BY <1>0 DEF Below
      <4> QED BY <1>0, <4>1
    <3> QED BY <3>1 DEF Below
  <2>5. SizeOf(t) = SizeOf(out) + r.size
    BY <2>1, SizeAppend
  <2>6. /\ t \in Seq(Reg) /\ Len(t) = Len(out) + 1
        /\ \A x \in Int : Has(t, x) <=> Has(out, x) \/ (r.base <= x /\ x < End(r))
        /\ \A d \in Int : Apart(out, d) /\ Below(out, r.base - d) /\ 0 <= r.base /\ 0 < r.size
                              => Apart(t, d)
    BY <2>1, AppendedIs
  <2>7. Apart(t, 1)
    BY <2>2, <2>6
  <2>8. 1 <= Len(t) /\ Len(t) <= Len(out) + 1
    BY <1>0, <2>6
  <2>9. Below(t, End(r))
    BY <1>0, <2>3, <2>4
  <2> QED BY <2>5, <2>6, <2>7, <2>8, <2>9
<1> QED BY <1>1, <1>2

\* memblock_merge_regions: touching regions become one, and no cell is lost.
LEMMA Merged ==
  ASSUME NEW rs \in Seq(Reg), Apart(rs, 0), Len(rs) > 0, NEW t, t = memblock_merge_regions(rs)
  PROVE  /\ t \in Seq(Reg) /\ Apart(t, 1)
         /\ 1 <= Len(t) /\ Len(t) <= Len(rs)
         /\ \A x \in Int : Has(t, x) <=> Has(rs, x)
         /\ SizeOf(t) = SizeOf(rs)
<1> DEFINE n == Len(rs)
           walk == MergeWalk(rs)
           Ok(k) == /\ Apart(walk[k], 1) /\ Len(walk[k]) <= k /\ (k > 0 => 1 <= Len(walk[k]))
                    /\ \A x \in Int : Has(walk[k], x) <=>
                                        \E j \in 1 .. k : rs[j].base <= x /\ x < End(rs[j])
                    /\ (k > 0 => Below(walk[k], End(rs[k])))
                    /\ SizeOf(walk[k]) = SizeWalk(rs)[k]
           P == {k \in 0 .. n : Ok(k)}
<1>0. /\ n \in Nat /\ \A i \in 1 .. n : rs[i] \in Reg /\ rs[i].base \in Int /\ rs[i].size \in Int
      /\ \A i \in 1 .. n : End(rs[i]) \in Int /\ End(rs[i]) = rs[i].base + rs[i].size
  BY SeqTyped, EndTyped
<1>1. /\ walk[0] = <<>> /\ \A k \in 1 .. n : walk[k] = MergeStep(walk[k - 1], rs[k])
      /\ \A k \in 0 .. n : walk[k] \in Seq(Reg)
  BY MergeWalkIs
<1>2. /\ SizeWalk(rs)[0] = 0
      /\ \A k \in 1 .. n : SizeWalk(rs)[k] = SizeWalk(rs)[k - 1] + rs[k].size
  BY SizeWalkIs
<1>3. 0 \in P
  <2>1. Len(walk[0]) = 0 /\ walk[0] \in Seq(Reg)
    BY <1>1
  <2>2. SizeOf(walk[0]) = 0
    BY <2>1, SizeTyped
  <2>3. Ok(0)
    BY <1>2, <2>1, <2>2 DEF Apart, Has
  <2> QED BY <1>0, <2>3
<1>4. ASSUME NEW k \in 0 .. n - 1, k \in P PROVE k + 1 \in P
  <2> DEFINE r == rs[k + 1]
             u == walk[k + 1]
             out == walk[k]
  <2>1. k + 1 \in 1 .. n /\ (k + 1) - 1 = k /\ k + 1 \in 0 .. n /\ k \in 0 .. n /\ k \in Nat
    BY <1>0
  <2>2. /\ r \in Reg /\ r.base \in Int /\ End(r) \in Int /\ 0 <= r.base /\ 0 < r.size
        /\ out \in Seq(Reg) /\ u = MergeStep(out, r)
    BY <1>0, <1>1, <2>1 DEF Apart
  <2>3. /\ Apart(out, 1) /\ Len(out) <= k
        /\ \A x \in Int : Has(out, x) <=> \E j \in 1 .. k : rs[j].base <= x /\ x < End(rs[j])
        /\ (k > 0 => Below(out, End(rs[k])))
        /\ SizeOf(out) = SizeWalk(rs)[k]
    BY <1>4
  <2>4. Below(out, r.base)
    <3>1. CASE k = 0
      BY <1>1, <3>1 DEF Below
    <3>2. CASE k > 0
      <4>1. k \in 1 .. n /\ k < k + 1
        BY <2>1, <3>2
      <4>2. End(rs[k]) + 0 <= r.base
        BY <2>1, <4>1 DEF Apart
      <4>3. End(rs[k]) \in Int
        BY <1>0, <4>1
      <4>4. ASSUME NEW i \in 1 .. Len(out) PROVE End(out[i]) <= r.base
        <5>1. End(out[i]) <= End(rs[k])
          BY <2>3, <3>2 DEF Below
        <5>2. End(out[i]) \in Int
          <6>1. out[i] \in Reg
            BY <2>2, SeqTyped
          <6> QED BY <6>1, EndTyped
        <5> QED BY <2>2, <4>2, <4>3, <5>1, <5>2
      <4> QED BY <4>4 DEF Below
    <3> QED BY <2>1, <3>1, <3>2
  <2> HIDE DEF r, u, out, walk, n
  <2>5. /\ u \in Seq(Reg) /\ Apart(u, 1) /\ 1 <= Len(u) /\ Len(u) <= Len(out) + 1
        /\ \A x \in Int : Has(u, x) <=> Has(out, x) \/ (r.base <= x /\ x < End(r))
        /\ Below(u, End(r)) /\ SizeOf(u) = SizeOf(out) + r.size
    BY <2>2, <2>3, <2>4, MergeStepIs
  <2>6. Len(u) <= k + 1 /\ Len(out) \in Nat /\ Len(u) \in Nat
    BY <2>1, <2>2, <2>3, <2>5
  <2>7. ASSUME NEW x \in Int
        PROVE  Has(u, x) <=> \E j \in 1 .. k + 1 : rs[j].base <= x /\ x < End(rs[j])
    <3>1. \A j : j \in 1 .. k + 1 <=> j \in 1 .. k \/ j = k + 1
      BY <2>1
    <3> QED BY <2>3, <2>5, <3>1 DEF r
  <2>8. SizeOf(u) = SizeWalk(rs)[k + 1]
    BY <1>2, <2>1, <2>3, <2>5 DEF r
  <2>9. Ok(k + 1)
    BY <2>5, <2>6, <2>7, <2>8 DEF u, r
  <2> QED BY <2>1, <2>9
<1>5. n \in P
  <2>1. 0 .. n \subseteq P
    <3> HIDE DEF P
    <3> QED BY <1>0, <1>3, <1>4, Upwards
  <2>2. n \in 0 .. n
    BY <1>0
  <2> HIDE DEF P
  <2> QED BY <2>1, <2>2
<1>6. t = walk[n] /\ n \in 0 .. n
  BY <1>0 DEF memblock_merge_regions
<1>7. \A x \in Int : Has(rs, x) <=> \E j \in 1 .. n : rs[j].base <= x /\ x < End(rs[j])
  BY DEF Has
<1>8. SizeOf(rs) = SizeWalk(rs)[n]
  BY DEF SizeOf
<1> QED BY <1>1, <1>5, <1>6, <1>7, <1>8

-----------------------------------------------------------------------------
(***************************************************************************)
(* The loop of memblock_add_range.                                         *)
(***************************************************************************)
\* q is s and the cells from c to m.
Longer(q, s, c, m) ==
  /\ Len(q) = Len(s) + (IF c < m THEN 1 ELSE 0)
  /\ \A x \in Int : Has(q, x) <=> Has(s, x) \/ (c <= x /\ x < m)
  /\ \A y \in Int : Below(s, y) /\ m <= y => Below(q, y)

\* A region is added at the end, unless it is empty.
LEMMA PieceAdded ==
  ASSUME NEW s \in Seq(Reg), NEW c \in Int, NEW m \in Int, NEW d \in Int,
         Apart(s, d), 0 <= c, c < m => Below(s, c - d),
         NEW q, q = s \o Piece(c, m)
  PROVE  q \in Seq(Reg) /\ Apart(q, d) /\ Longer(q, s, c, m)
<1>1. CASE c < m
  <2> DEFINE r == Region(c, m)
  <2>1. r \in Reg /\ r.base = c /\ r.size = m - c /\ End(r) = m
    BY RegionIs
  <2>2. q = Append(s, r)
    BY <1>1, PieceIs
  <2> HIDE DEF r
  <2>3. /\ q \in Seq(Reg) /\ Len(q) = Len(s) + 1
        /\ \A x \in Int : Has(q, x) <=> Has(s, x) \/ (r.base <= x /\ x < End(r))
        /\ \A x \in Int : Below(q, x) <=> Below(s, x) /\ End(r) <= x
        /\ Apart(s, d) /\ Below(s, r.base - d) /\ 0 <= r.base /\ 0 < r.size => Apart(q, d)
    <3>1. r \in Reg /\ q = Append(s, r)
      BY <2>1, <2>2
    <3>2. /\ q \in Seq(Reg) /\ Len(q) = Len(s) + 1
          /\ \A x \in Int : Has(q, x) <=> Has(s, x) \/ (r.base <= x /\ x < End(r))
          /\ \A x \in Int : Below(q, x) <=> Below(s, x) /\ End(r) <= x
          /\ \A f \in Int : Apart(s, f) /\ Below(s, r.base - f) /\ 0 <= r.base /\ 0 < r.size
                                => Apart(q, f)
      BY <3>1, AppendedIs
    <3> QED BY <3>2
  <2>4. 0 < r.size
    BY <1>1, <2>1
  <2> QED BY <1>1, <2>1, <2>3, <2>4 DEF Longer
<1>2. CASE ~(c < m)
  <2>1. q = s
    BY <1>2, PieceIs
  <2>2. \A x \in Int : ~(c <= x /\ x < m)
    BY <1>2
  <2> QED BY <1>2, <2>1, <2>2 DEF Longer
<1> QED BY <1>1, <1>2

\* x is a cell of one of the first k regions.
HasTo(rs, k, x) == \E j \in 1 .. k : rs[j].base <= x /\ x < End(rs[j])

\* Where the parts of [b, e) that are missing in the cells C begin.
Starts(C, b, e) == {x \in b .. e - 1 : x \notin C /\ (x = b \/ x - 1 \in C)}

\* The number of missing parts,
LEMMA StartsFinite ==
  ASSUME NEW C, NEW b \in Int, NEW e \in Int
  PROVE  IsFiniteSet(Starts(C, b, e)) /\ Cardinality(Starts(C, b, e)) \in Nat
<1>1. IsFiniteSet(b .. e - 1)
  BY FS_Interval
<1>2. Starts(C, b, e) \subseteq b .. e - 1
  BY DEF Starts
<1>3. IsFiniteSet(Starts(C, b, e))
  BY <1>1, <1>2, FS_Subset
<1> QED BY <1>3, FS_CardinalityType

\* The walk goes on from c: nothing is there up to m, and all is from there to n.
LEMMA StartsStep ==
  ASSUME NEW C, NEW b \in Int, NEW c \in Int, NEW m \in Int, NEW n \in Int,
         b <= c, c <= m, m <= n,
         \A x \in c .. m - 1 : x \notin C,
         \A x \in m .. n - 1 : x \in C,
         c < m => c = b \/ c - 1 \in C
  PROVE  Cardinality(Starts(C, b, n)) =
           Cardinality(Starts(C, b, c)) + (IF c < m THEN 1 ELSE 0)
<1>1. \A x : x \in Starts(C, b, n) <=>
               x \in b .. n - 1 /\ x \notin C /\ (x = b \/ x - 1 \in C)
  BY DEF Starts
<1>2. \A x : x \in Starts(C, b, c) <=>
               x \in b .. c - 1 /\ x \notin C /\ (x = b \/ x - 1 \in C)
  BY DEF Starts
<1>3. IsFiniteSet(Starts(C, b, c)) /\ Cardinality(Starts(C, b, c)) \in Nat
  BY StartsFinite
<1>4. CASE c < m
  <2>1. c \notin Starts(C, b, c)
    BY <1>2
  <2>2. c \in Starts(C, b, n)
    <3>1. c \in b .. n - 1 /\ c \in c .. m - 1
      BY <1>4
    <3> QED BY <1>1, <1>4, <3>1
  <2>3. ASSUME NEW x \in Starts(C, b, n), x # c PROVE x \in Starts(C, b, c)
    <3>1. x \in Int /\ x \in b .. n - 1 /\ x \notin C /\ (x = b \/ x - 1 \in C)
      BY <1>1
    <3>2. x < m
      BY <3>1
    <3>3. ~(c < x)
      <4> SUFFICES ASSUME c < x PROVE FALSE
        OBVIOUS
      <4>1. x - 1 \in c .. m - 1 /\ x # b
        BY <3>1, <3>2
      <4> QED BY <3>1, <4>1
    <3>4. x \in b .. c - 1
      BY <3>1, <3>3, <2>3
    <3> QED BY <1>2, <3>1, <3>4
  <2>4. \A x \in Starts(C, b, c) : x \in Starts(C, b, n)
    BY <1>1, <1>2
  <2>5. Starts(C, b, n) = Starts(C, b, c) \cup {c}
    BY <2>2, <2>3, <2>4
  <2>6. Cardinality(Starts(C, b, c) \cup {c}) = Cardinality(Starts(C, b, c)) + 1
    BY <1>3, <2>1, FS_AddElement
  <2> QED BY <1>4, <2>5, <2>6
<1>5. CASE ~(c < m)
  <2>1. c = m
    BY <1>5
  <2>2. ASSUME NEW x \in Starts(C, b, n) PROVE x \in Starts(C, b, c)
    <3>1. x \in Int /\ x \in b .. n - 1 /\ x \notin C
      BY <1>1
    <3>2. x \in b .. c - 1
      BY <2>1, <3>1
    <3> QED BY <1>1, <1>2, <3>2
  <2>3. \A x \in Starts(C, b, c) : x \in Starts(C, b, n)
    BY <1>1, <1>2
  <2>4. Starts(C, b, n) = Starts(C, b, c)
    BY <2>2, <2>3
  <2> QED BY <1>3, <1>5, <2>4
<1> QED BY <1>4, <1>5

\* which an empty range has none of.
LEMMA StartsNone ==
  ASSUME NEW C, NEW b \in Int
  PROVE  Cardinality(Starts(C, b, b)) = 0
<1>1. b .. b - 1 = {}
  OBVIOUS
<1>2. Starts(C, b, b) = {}
  BY <1>1 DEF Starts
<1> QED BY <1>2, FS_EmptySet

\* Of a range that is free only the first cell is a start.
LEMMA StartsOne ==
  ASSUME NEW C, NEW b \in Int, NEW e \in Int, b < e, \A x \in b .. e - 1 : x \notin C
  PROVE  Cardinality(Starts(C, b, e)) = 1
<1>1. \A x \in e .. e - 1 : x \in C
  OBVIOUS
<1>2. Cardinality(Starts(C, b, e)) = Cardinality(Starts(C, b, b)) + (IF b < e THEN 1 ELSE 0)
  BY <1>1, StartsStep
<1> QED BY <1>2, StartsNone

\* What has been done when the first k regions have been looked at.
AddOk(rs, b, e, C, k, w) ==
  /\ b <= w.base /\ w.base <= e
  /\ Apart(w.out, 0)
  /\ \A j \in 1 .. Len(rs) : k < j => Below(w.out, rs[j].base)
  /\ w.base < e => /\ Below(w.out, w.base)
                   /\ \A j \in 1 .. k : End(rs[j]) <= w.base
                   /\ w.base = b \/ Has(rs, w.base - 1)
  /\ \A x \in Int : Has(w.out, x) <=> HasTo(rs, k, x) \/ (b <= x /\ x < w.base)
  /\ Len(w.out) = k + Cardinality(Starts(C, b, w.base))

\* The cells of one region more.
LEMMA HasToNext ==
  ASSUME NEW rs, NEW k \in Nat, NEW x
  PROVE  HasTo(rs, k + 1, x) <=> HasTo(rs, k, x) \/ (rs[k + 1].base <= x /\ x < End(rs[k + 1]))
<1>1. \A j : j \in 1 .. k + 1 <=> j \in 1 .. k \/ j = k + 1
  OBVIOUS
<1> QED BY <1>1 DEF HasTo

\* A step of the loop keeps that: the part of the range below the next region is
\* inserted, and no cell twice.
LEMMA AddStepKeeps ==
  ASSUME NEW rs \in Seq(Reg), Apart(rs, 1), NEW b \in Int, NEW e \in Int, 0 <= b, b <= e,
         NEW C, \A x \in b .. e - 1 : x \in C <=> Has(rs, x),
         NEW k \in Nat, k + 1 \in 1 .. Len(rs), NEW w \in AddState, AddOk(rs, b, e, C, k, w)
  PROVE  AddOk(rs, b, e, C, k + 1, AddStep(e, w, rs[k + 1]))
<1> DEFINE n == Len(rs)
           r == rs[k + 1]
           c == w.base
           out == w.out
           u == AddStep(e, w, r)
<1>0. /\ n \in Nat /\ k + 1 \in 1 .. n
      /\ \A i \in 1 .. n : rs[i] \in Reg /\ rs[i].base \in Int /\ End(rs[i]) \in Int
      /\ \A i \in 1 .. n : 0 <= rs[i].base /\ rs[i].base < End(rs[i])
      /\ \A i, j \in 1 .. n : i < j => End(rs[i]) + 1 <= rs[j].base
  <2>1. \A i \in 1 .. n : rs[i] \in Reg
    BY SeqTyped
  <2>2. ASSUME NEW i \in 1 .. n
        PROVE  rs[i].base \in Int /\ End(rs[i]) \in Int /\ rs[i].base < End(rs[i])
    <3>1. rs[i].base \in Int /\ rs[i].size \in Int /\ End(rs[i]) = rs[i].base + rs[i].size
      BY <2>1, EndTyped
    <3>2. 0 < rs[i].size
      BY DEF Apart
    <3> QED BY <3>1, <3>2
  <2> QED BY <2>1, <2>2, SeqTyped DEF Apart
<1>1. /\ r \in Reg /\ r.base \in Int /\ r.size \in Int /\ End(r) \in Int /\ 0 <= r.base /\ 0 < r.size
      /\ r.base < End(r) /\ c \in Int /\ out \in Seq(Reg)
  BY <1>0, EndTyped DEF Apart, AddState
<1>2. /\ b <= c /\ c <= e /\ Apart(out, 0)
      /\ \A j \in 1 .. n : k < j => Below(out, rs[j].base)
      /\ c < e => Below(out, c) /\ (\A j \in 1 .. k : End(rs[j]) <= c) /\ (c = b \/ Has(rs, c - 1))
      /\ \A x \in Int : Has(out, x) <=> HasTo(rs, k, x) \/ (b <= x /\ x < c)
      /\ Len(out) = k + Cardinality(Starts(C, b, c))
  BY DEF AddOk
<1>3. /\ u \in AddState
      /\ End(r) <= c => u.out = Append(out, r) /\ u.base = c
      /\ ~(End(r) <= c) => /\ u.out = Append(out \o Piece(c, Min({r.base, e})), r)
                           /\ u.base = Min({End(r), e})
  BY <1>1, AddStepIs
<1>4. \A j \in 1 .. n : k + 1 < j => k < j /\ End(r) + 1 <= rs[j].base /\ rs[j].base \in Int
  <2> SUFFICES ASSUME NEW j \in 1 .. n, k + 1 < j
               PROVE k < j /\ End(rs[k + 1]) + 1 <= rs[j].base /\ rs[j].base \in Int
    OBVIOUS
  <2>1. k < j
    BY <1>0
  <2> QED BY <1>0, <2>1
<1>5. Below(out, r.base) /\ r.base - 0 = r.base
  BY <1>0, <1>1, <1>2
<1>6. \A x \in Int : HasTo(rs, k + 1, x) <=> HasTo(rs, k, x) \/ (r.base <= x /\ x < End(r))
  BY HasToNext
<1>7. \A j \in 1 .. k + 1 : j \in 1 .. k \/ j = k + 1
  OBVIOUS
<1>8. Cardinality(Starts(C, b, c)) \in Nat
  BY <1>1, StartsFinite
<1> DEFINE uo == u.out
<1> HIDE DEF uo, u, out, c, r, n
<1>9. CASE End(r) <= c
  <2>1. uo = Append(out, r) /\ u.base = c
    BY <1>3, <1>9 DEF uo
  <2>2. /\ Len(uo) = Len(out) + 1
        /\ \A x \in Int : Has(uo, x) <=> Has(out, x) \/ (r.base <= x /\ x < End(r))
        /\ \A x \in Int : Below(uo, x) <=> Below(out, x) /\ End(r) <= x
        /\ \A d \in Int : Apart(out, d) /\ Below(out, r.base - d) /\ 0 <= r.base /\ 0 < r.size
                              => Apart(uo, d)
    BY <1>1, <2>1, AppendedIs
  <2>3. Apart(uo, 0)
    BY <1>1, <1>2, <1>5, <2>2
  <2>4. ASSUME NEW j \in 1 .. n, k + 1 < j PROVE Below(uo, rs[j].base)
    <3>1. Below(out, rs[j].base) /\ End(r) <= rs[j].base /\ rs[j].base \in Int
      BY <1>1, <1>2, <1>4, <2>4
    <3> QED BY <2>2, <3>1
  <2>5. ASSUME c < e
        PROVE  Below(uo, c) /\ (\A j \in 1 .. k + 1 : End(rs[j]) <= c) /\ (c = b \/ Has(rs, c - 1))
    BY <1>1, <1>2, <1>7, <1>9, <2>2, <2>5 DEF r
  <2>6. ASSUME NEW x \in Int PROVE Has(uo, x) <=> HasTo(rs, k + 1, x) \/ (b <= x /\ x < c)
    BY <1>2, <1>6, <2>2
  <2>7. Len(uo) = (k + 1) + Cardinality(Starts(C, b, c))
    BY <1>2, <1>8, <2>2
  <2>8. AddOk(rs, b, e, C, k + 1, u)
    BY <1>2, <2>1, <2>3, <2>4, <2>5, <2>6, <2>7 DEF AddOk, n, uo
  <2> QED BY <2>8 DEF u, r
<1>10. CASE ~(End(r) <= c)
  <2> DEFINE m == Min({r.base, e})
             v == Min({End(r), e})
             q == out \o Piece(c, m)
             a == IF c < m THEN m ELSE c
  <2>1. m \in Int /\ m = IF r.base <= e THEN r.base ELSE e
    BY <1>1, MinTwo
  <2>2. v \in Int /\ v = IF End(r) <= e THEN End(r) ELSE e
    BY <1>1, MinTwo
  <2>3. uo = Append(q, r) /\ u.base = v
    BY <1>3, <1>10 DEF uo
  <2>4. c - 0 = c /\ 0 <= c /\ (c < m => c < e)
    BY <1>1, <1>2, <2>1
  <2>5. c < m => Below(out, c - 0)
    BY <1>2, <2>4
  <2>6. q = out \o Piece(c, m)
    OBVIOUS
  <2> HIDE DEF m, v, q
  <2>7. /\ q \in Seq(Reg) /\ Apart(q, 0) /\ Len(q) = Len(out) + (IF c < m THEN 1 ELSE 0)
        /\ \A x \in Int : Has(q, x) <=> Has(out, x) \/ (c <= x /\ x < m)
        /\ \A y \in Int : Below(out, y) /\ m <= y => Below(q, y)
    <3>1. ASSUME NEW d \in Int, d = 0
          PROVE  q \in Seq(Reg) /\ Apart(q, d) /\ Longer(q, out, c, m)
      <4>1. Apart(out, d) /\ (c < m => Below(out, c - d))
        BY <1>2, <2>5, <3>1
      <4> QED BY <1>1, <2>1, <2>4, <2>6, <4>1, PieceAdded
    <3> QED BY <3>1 DEF Longer
  <2>8. /\ Len(uo) = Len(q) + 1
        /\ \A x \in Int : Has(uo, x) <=> Has(q, x) \/ (r.base <= x /\ x < End(r))
        /\ \A x \in Int : Below(uo, x) <=> Below(q, x) /\ End(r) <= x
        /\ \A d \in Int : Apart(q, d) /\ Below(q, r.base - d) /\ 0 <= r.base /\ 0 < r.size
                              => Apart(uo, d)
    BY <1>1, <2>3, <2>7, AppendedIs
  <2>9. m <= r.base /\ m <= v /\ v <= e /\ b <= v /\ c <= v
    BY <1>1, <1>2, <1>10, <2>1, <2>2
  <2>10. Below(q, r.base)
    BY <1>1, <1>5, <2>7, <2>9
  <2>11. Apart(uo, 0)
    BY <1>1, <1>5, <2>7, <2>8, <2>10
  <2>12. ASSUME NEW j \in 1 .. n, k + 1 < j PROVE Below(uo, rs[j].base)
    <3>1. Below(out, rs[j].base) /\ End(r) <= rs[j].base /\ rs[j].base \in Int /\ m <= rs[j].base
      <4>1. k < j /\ End(r) + 1 <= rs[j].base /\ rs[j].base \in Int
        BY <1>4, <2>12
      <4>2. Below(out, rs[j].base)
        BY <1>2, <4>1
      <4>3. m \in Int /\ r.base \in Int /\ End(r) \in Int /\ m <= r.base /\ r.base < End(r)
        BY <1>1, <2>1, <2>9
      <4> QED BY <4>1, <4>2, <4>3
    <3> QED BY <2>7, <2>8, <3>1
  <2>13. ASSUME v < e
         PROVE  Below(uo, v) /\ (\A j \in 1 .. k + 1 : End(rs[j]) <= v) /\ (v = b \/ Has(rs, v - 1))
    <3>1. v = End(r)
      BY <1>1, <2>2, <2>13
    <3>2. c < e
      BY <1>1, <1>2, <1>10, <2>13, <3>1
    <3>3. Below(uo, v)
      <4>1. Below(out, v)
        <5>1. ASSUME NEW i \in 1 .. Len(out) PROVE End(out[i]) <= v
          <6>1. End(out[i]) <= r.base
            BY <1>5 DEF Below
          <6>2. out[i] \in Reg
            BY <1>1, SeqTyped
          <6>3. End(out[i]) \in Int
            BY <6>2, EndTyped
          <6> QED BY <1>1, <3>1, <6>1, <6>3
        <5> QED BY <5>1 DEF Below
      <4>2. Below(q, v)
        BY <2>2, <2>7, <2>9, <4>1
      <4> QED BY <1>1, <2>2, <2>8, <3>1, <4>2
    <3>4. ASSUME NEW j \in 1 .. k + 1 PROVE End(rs[j]) <= v
      <4>1. CASE j = k + 1
        BY <1>1, <3>1, <4>1 DEF r
      <4>2. CASE j \in 1 .. k
        <5>1. End(rs[j]) <= c /\ End(rs[j]) \in Int
          BY <1>0, <1>2, <3>2, <4>2 DEF n
        <5> QED BY <1>1, <2>2, <2>9, <5>1
      <4> QED BY <1>7, <4>1, <4>2
    <3>5. Has(rs, v - 1)
      <4>1. r.base <= v - 1 /\ v - 1 < End(r)
        BY <1>1, <3>1
      <4> QED BY <1>0, <4>1 DEF Has, r, n
    <3> QED BY <3>3, <3>4, <3>5
  <2>14. ASSUME NEW x \in Int PROVE Has(uo, x) <=> HasTo(rs, k + 1, x) \/ (b <= x /\ x < v)
    <3>1. Has(uo, x) <=> \/ HasTo(rs, k, x) \/ (b <= x /\ x < c)
                            \/ (c <= x /\ x < m) \/ (r.base <= x /\ x < End(r))
      BY <1>2, <2>7, <2>8
    <3>2. (b <= x /\ x < c) \/ (c <= x /\ x < m) \/ (r.base <= x /\ x < End(r))
          <=> (b <= x /\ x < v) \/ (r.base <= x /\ x < End(r))
      BY <1>1, <1>2, <1>10, <2>1, <2>2, <2>9
    <3> QED BY <1>6, <3>1, <3>2
  <2>15. Len(uo) = (k + 1) + Cardinality(Starts(C, b, v))
    <3>1. a \in Int /\ c <= a /\ a <= v /\ (c < a <=> c < m)
      BY <1>1, <2>1, <2>2, <2>9
    <3>2. ASSUME NEW x \in c .. a - 1 PROVE x \notin C
      <4>0. b \in Int /\ c \in Int /\ e \in Int /\ m \in Int /\ b <= c /\ (c < m => c < e)
        BY <1>1, <1>2, <2>1, <2>4
      <4>a. c <= x /\ x < m /\ x \in Int
        BY <2>1, <4>0
      <4>b. m <= e
        BY <2>1
      <4>1. c < m /\ c < e /\ x \in Int /\ c <= x /\ x < m /\ x \in b .. e - 1
        BY <4>0, <4>a, <4>b
      <4>2. ~Has(rs, x)
        <5> SUFFICES ASSUME NEW j \in 1 .. n, rs[j].base <= x, x < End(rs[j]) PROVE FALSE
          BY DEF Has, n
        <5>1. rs[j].base \in Int /\ End(rs[j]) \in Int
          BY <1>0
        <5>2. CASE j \in 1 .. k
          BY <1>1, <1>2, <4>1, <5>1, <5>2
        <5>3. CASE ~(j \in 1 .. k)
          <6>1. j = k + 1 \/ k + 1 < j
            BY <1>0, <5>3
          <6>2. r.base \in Int /\ End(r) \in Int /\ r.base < End(r) /\ m \in Int /\ m <= r.base
            BY <1>1, <2>1, <2>9
          <6>3. CASE j = k + 1
            <7>1. r.base <= x
              BY <6>3 DEF r
            <7> QED BY <4>1, <6>2, <7>1
          <6>4. CASE k + 1 < j
            <7>1. End(r) + 1 <= rs[j].base
              BY <1>4, <6>4
            <7>a. m < End(r)
              BY <6>2
            <7>2. m \in Int /\ m <= rs[j].base
              BY <5>1, <6>2, <7>1, <7>a
            <7>3. x < m /\ x \in Int
              BY <4>1
            <7> QED BY <5>1, <7>2, <7>3
          <6> QED BY <6>1, <6>3, <6>4
        <5> QED BY <5>2, <5>3
      <4> QED BY <4>1, <4>2
    <3>3. ASSUME NEW x \in a .. v - 1 PROVE x \in C
      <4>1. x \in Int /\ x \in b .. e - 1 /\ r.base <= x /\ x < End(r)
        BY <1>1, <1>2, <2>1, <2>2, <2>9, <3>1
      <4>2. Has(rs, x)
        BY <1>0, <4>1 DEF Has, r, n
      <4> QED BY <4>1, <4>2
    <3>4. c < a => c = b \/ c - 1 \in C
      <4>1. ASSUME c < a, c # b PROVE c - 1 \in b .. e - 1 /\ Has(rs, c - 1)
        BY <1>1, <1>2, <2>4, <3>1, <4>1
      <4> QED BY <4>1
    <3> HIDE DEF a
    <3>5. Cardinality(Starts(C, b, v)) =
            Cardinality(Starts(C, b, c)) + (IF c < a THEN 1 ELSE 0)
      <4>1. c \in Int /\ a \in Int /\ v \in Int /\ b <= c /\ c <= a /\ a <= v
        BY <1>1, <1>2, <2>2, <3>1
      <4>2. (\A x \in c .. a - 1 : x \notin C) /\ (\A x \in a .. v - 1 : x \in C)
        BY <3>2, <3>3
      <4> QED BY <3>4, <4>1, <4>2, StartsStep
    <3>6. Cardinality(Starts(C, b, v)) = Cardinality(Starts(C, b, c)) + (IF c < m THEN 1 ELSE 0)
      BY <3>1, <3>5
    <3>7. /\ Len(uo) = Len(q) + 1 /\ Len(q) = Len(out) + (IF c < m THEN 1 ELSE 0)
          /\ Len(out) = k + Cardinality(Starts(C, b, c))
      BY <1>2, <2>7, <2>8
    <3>8. CASE c < m
      <4>1. Cardinality(Starts(C, b, v)) = Cardinality(Starts(C, b, c)) + 1
        BY <3>6, <3>8
      <4>2. Len(uo) = ((k + Cardinality(Starts(C, b, c))) + 1) + 1
        BY <3>7, <3>8
      <4> QED BY <1>8, <4>1, <4>2
    <3>9. CASE ~(c < m)
      BY <1>8, <3>6, <3>7, <3>9
    <3> QED BY <3>8, <3>9
  <2>16. AddOk(rs, b, e, C, k + 1, u)
    BY <2>3, <2>9, <2>11, <2>12, <2>13, <2>14, <2>15 DEF AddOk, n, uo
  <2> QED BY <2>16 DEF u, r
<1> QED BY <1>9, <1>10

\* t has the regions rs and those of [b, e) that the cells C lack.
Filled(t, rs, b, e, C) ==
  /\ Apart(t, 0)
  /\ Len(t) = Len(rs) + Cardinality(Starts(C, b, e))
  /\ \A x \in Int : Has(t, x) <=> Has(rs, x) \/ (b <= x /\ x < e)

\* The first pass of memblock_add_range: each missing part of the range is one region
\* more, and the array has the cells it had and those of the range.
LEMMA InsertedIs ==
  ASSUME NEW rs \in Seq(Reg), Apart(rs, 1), NEW b \in Int, NEW e \in Int, 0 <= b, b <= e,
         NEW C, \A x \in b .. e - 1 : x \in C <=> Has(rs, x),
         NEW t, t = Inserted(rs, b, e)
  PROVE  t \in Seq(Reg) /\ Filled(t, rs, b, e, C)
<1> DEFINE n == Len(rs)
           walk == AddWalk(rs, b, e)
           P == {k \in 0 .. n : AddOk(rs, b, e, C, k, walk[k])}
<1>0. n \in Nat /\ \A i \in 1 .. n : rs[i] \in Reg
  BY SeqTyped
<1>1. /\ walk[0] = [out |-> <<>>, base |-> b]
      /\ \A k \in 1 .. n : walk[k] = AddStep(e, walk[k - 1], rs[k])
      /\ \A k \in 0 .. n : walk[k] \in AddState
  BY AddWalkIs
<1>2. 0 \in P
  <2>1. walk[0].out = <<>> /\ walk[0].base = b /\ Len(<<>>) = 0
    BY <1>1
  <2>2. Cardinality(Starts(C, b, b)) = 0
    BY StartsNone
  <2>3. Apart(<<>>, 0) /\ (\A x : Below(<<>>, x)) /\ (\A x : ~Has(<<>>, x))
    BY DEF Apart, Below, Has
  <2>4. \A x : ~HasTo(rs, 0, x)
    BY DEF HasTo
  <2>5. \A x \in Int : ~(b <= x /\ x < b)
    OBVIOUS
  <2>6. AddOk(rs, b, e, C, 0, walk[0])
    BY <2>1, <2>2, <2>3, <2>4, <2>5 DEF AddOk
  <2> QED BY <1>0, <2>6
<1>3. ASSUME NEW k \in 0 .. n - 1, k \in P PROVE k + 1 \in P
  <2>1. k \in Nat /\ k + 1 \in 1 .. n /\ (k + 1) - 1 = k /\ k \in 0 .. n /\ k + 1 \in 0 .. n
    BY <1>0
  <2>2. walk[k] \in AddState /\ walk[k + 1] = AddStep(e, walk[k], rs[k + 1])
    BY <1>1, <2>1
  <2>3. AddOk(rs, b, e, C, k, walk[k])
    BY <1>3
  <2>4. k + 1 \in 1 .. Len(rs)
    BY <2>1
  <2> HIDE DEF walk
  <2>5. AddOk(rs, b, e, C, k + 1, AddStep(e, walk[k], rs[k + 1]))
    BY <2>1, <2>2, <2>3, <2>4, AddStepKeeps
  <2> QED BY <2>1, <2>2, <2>5
<1>4. n \in P
  <2>1. 0 .. n \subseteq P
    <3> HIDE DEF P
    <3> QED BY <1>0, <1>2, <1>3, Upwards
  <2>2. n \in 0 .. n
    BY <1>0
  <2> HIDE DEF P
  <2> QED BY <2>1, <2>2
<1> DEFINE w == walk[n]
           c == w.base
           out == w.out
<1>5. n \in 0 .. n
  BY <1>0
<1>6. w \in AddState /\ AddOk(rs, b, e, C, n, w)
  BY <1>1, <1>4, <1>5
<1>7. t = out \o Piece(c, e)
  BY DEF Inserted
<1>8. c \in Int /\ out \in Seq(Reg)
  BY <1>6 DEF AddState
<1> HIDE DEF walk
<1>9. /\ b <= c /\ c <= e /\ Apart(out, 0)
      /\ c < e => Below(out, c) /\ (\A j \in 1 .. n : End(rs[j]) <= c) /\ (c = b \/ Has(rs, c - 1))
      /\ \A x \in Int : Has(out, x) <=> HasTo(rs, n, x) \/ (b <= x /\ x < c)
      /\ Len(out) = n + Cardinality(Starts(C, b, c))
  BY <1>6 DEF AddOk
<1>10. \A x \in Int : HasTo(rs, n, x) <=> Has(rs, x)
  BY DEF HasTo, Has
<1> HIDE DEF w, c, out
<1>11. ASSUME NEW d \in Int, d = 0
       PROVE  t \in Seq(Reg) /\ Apart(t, d) /\ Longer(t, out, c, e)
  <2>1. Apart(out, d) /\ (c < e => Below(out, c - d)) /\ 0 <= c
    <3>1. c - d = c
      BY <1>8, <1>11
    <3> QED BY <1>8, <1>9, <1>11, <3>1
  <2> QED BY <1>7, <1>8, <2>1, PieceAdded
<1>12. t \in Seq(Reg) /\ Apart(t, 0) /\ Longer(t, out, c, e)
  BY <1>11
<1>13. ASSUME NEW x \in Int PROVE Has(t, x) <=> Has(rs, x) \/ (b <= x /\ x < e)
  <2>1. Has(t, x) <=> Has(out, x) \/ (c <= x /\ x < e)
    BY <1>12 DEF Longer
  <2>2. Has(out, x) <=> Has(rs, x) \/ (b <= x /\ x < c)
    BY <1>9, <1>10
  <2> QED BY <1>8, <1>9, <2>1, <2>2
<1>14. Len(t) = n + Cardinality(Starts(C, b, e))
  <2>1. Cardinality(Starts(C, b, e)) = Cardinality(Starts(C, b, c)) + (IF c < e THEN 1 ELSE 0)
    <3>1. \A x \in c .. e - 1 : x \notin C
      <4> SUFFICES ASSUME NEW x \in c .. e - 1 PROVE x \notin C
        OBVIOUS
      <4>1. c < e /\ x \in Int /\ c <= x /\ x \in b .. e - 1
        BY <1>8, <1>9
      <4>2. ~Has(rs, x)
        <5> SUFFICES ASSUME NEW j \in 1 .. n, rs[j].base <= x, x < End(rs[j]) PROVE FALSE
          BY DEF Has, n
        <5>1. End(rs[j]) <= c /\ End(rs[j]) \in Int
          BY <1>0, <1>9, <4>1, EndTyped
        <5> QED BY <1>8, <4>1, <5>1
      <4> QED BY <4>1, <4>2
    <3>2. \A x \in e .. e - 1 : x \in C
      OBVIOUS
    <3>3. c < e => c = b \/ c - 1 \in C
      <4> SUFFICES ASSUME c < e, c # b PROVE c - 1 \in C
        OBVIOUS
      <4>1. c - 1 \in b .. e - 1 /\ Has(rs, c - 1)
        BY <1>8, <1>9
      <4> QED BY <4>1
    <3>4. b <= c /\ c <= e /\ e <= e
      BY <1>9
    <3> QED BY <1>8, <3>1, <3>2, <3>3, <3>4, StartsStep
  <2>2. Len(t) = Len(out) + (IF c < e THEN 1 ELSE 0)
    BY <1>12 DEF Longer
  <2>3. Cardinality(Starts(C, b, c)) \in Nat /\ Len(out) = n + Cardinality(Starts(C, b, c))
    BY <1>8, <1>9, StartsFinite
  <2>4. CASE c < e
    BY <1>0, <2>1, <2>2, <2>3, <2>4
  <2>5. CASE ~(c < e)
    BY <1>0, <2>1, <2>2, <2>3, <2>5
  <2> QED BY <2>4, <2>5
<1> QED BY <1>12, <1>13, <1>14 DEF Filled

\* What is below y is below what is above y.
LEMMA BelowMore ==
  ASSUME NEW s \in Seq(Reg), NEW y \in Int, NEW z \in Int, Below(s, y), y <= z
  PROVE  Below(s, z)
<1> SUFFICES ASSUME NEW i \in 1 .. Len(s) PROVE End(s[i]) <= z
  BY DEF Below
<1>1. End(s[i]) <= y
  BY DEF Below
<1>2. s[i] \in Reg
  BY SeqTyped
<1>3. End(s[i]) \in Int
  BY <1>2, EndTyped
<1> QED BY <1>1, <1>3

\* Concatenation is associative.
LEMMA ConcatThree ==
  ASSUME NEW x \in Seq(Reg), NEW y \in Seq(Reg), NEW z \in Seq(Reg)
  PROVE  (x \o y) \o z = x \o (y \o z)
BY ConcatAssociative

\* What has been kept of the first k regions.
CutOk(rs, b, e, k, out) ==
  /\ Apart(out, 1)
  /\ \A j \in 1 .. Len(rs) : k < j => Below(out, rs[j].base - 1)
  /\ \A x \in Int : Has(out, x) <=> HasTo(rs, k, x) /\ ~(b <= x /\ x < e)
  /\ Len(out) <= k + 1
  /\ Len(out) = k + 1 => \E j \in 1 .. k : rs[j].base < b /\ e < End(rs[j])

\* A step of the loop of memblock_isolate_range keeps that; only one region can
\* reach out of the range on both sides.
LEMMA CutStepKeeps ==
  ASSUME NEW rs \in Seq(Reg), Apart(rs, 1), NEW b \in Int, NEW e \in Int, 0 <= b, b < e,
         NEW k \in Nat, k + 1 \in 1 .. Len(rs), NEW out \in Seq(Reg), CutOk(rs, b, e, k, out),
         NEW u, u = out \o Outside(rs[k + 1], b, e)
  PROVE  CutOk(rs, b, e, k + 1, u)
<1> DEFINE n == Len(rs)
           r == rs[k + 1]
<1>0. /\ n \in Nat /\ k + 1 \in 1 .. n
      /\ \A i \in 1 .. n : rs[i] \in Reg /\ rs[i].base \in Int /\ End(rs[i]) \in Int
      /\ \A i \in 1 .. n : 0 <= rs[i].base /\ rs[i].base < End(rs[i])
      /\ \A i, j \in 1 .. n : i < j => End(rs[i]) + 1 <= rs[j].base
  <2>1. \A i \in 1 .. n : rs[i] \in Reg
    BY SeqTyped
  <2>2. ASSUME NEW i \in 1 .. n
        PROVE  rs[i].base \in Int /\ End(rs[i]) \in Int /\ rs[i].base < End(rs[i])
    <3>1. rs[i].base \in Int /\ rs[i].size \in Int /\ End(rs[i]) = rs[i].base + rs[i].size
      BY <2>1, EndTyped
    <3>2. 0 < rs[i].size
      BY DEF Apart
    <3> QED BY <3>1, <3>2
  <2> QED BY <2>1, <2>2, SeqTyped DEF Apart
<1>1. /\ r \in Reg /\ r.base \in Int /\ r.size \in Int /\ End(r) \in Int /\ 0 <= r.base /\ 0 < r.size
      /\ r.base < End(r)
  BY <1>0, EndTyped DEF Apart
<1>2. /\ Apart(out, 1) /\ \A j \in 1 .. n : k < j => Below(out, rs[j].base - 1)
      /\ \A x \in Int : Has(out, x) <=> HasTo(rs, k, x) /\ ~(b <= x /\ x < e)
      /\ Len(out) <= k + 1 /\ Len(out) \in Nat
      /\ Len(out) = k + 1 => \E j \in 1 .. k : rs[j].base < b /\ e < End(rs[j])
  BY DEF CutOk
<1>3. \A j \in 1 .. n : k + 1 < j => k < j /\ End(r) + 1 <= rs[j].base /\ rs[j].base \in Int
  <2> SUFFICES ASSUME NEW j \in 1 .. n, k + 1 < j
               PROVE k < j /\ End(rs[k + 1]) + 1 <= rs[j].base /\ rs[j].base \in Int
    OBVIOUS
  <2>1. k < j
    BY <1>0
  <2> QED BY <1>0, <2>1
<1>4. Below(out, r.base - 1)
  BY <1>0, <1>2
<1>5. \A x \in Int : HasTo(rs, k + 1, x) <=> HasTo(rs, k, x) \/ (r.base <= x /\ x < End(r))
  BY HasToNext
<1>6. \A j \in 1 .. k : j \in 1 .. n /\ j \in 1 .. k + 1 /\ End(rs[j]) + 1 <= r.base
  BY <1>0
<1>7. u = out \o Outside(r, b, e)
  OBVIOUS
<1> HIDE DEF r, n
<1>8. CASE r.base >= e \/ End(r) <= b
  <2>1. u = Append(out, r)
    <3>1. Outside(r, b, e) = <<r>>
      BY <1>8 DEF Outside
    <3> QED BY <1>1, <1>7, <3>1, AppendIsConcat
  <2>2. /\ Len(u) = Len(out) + 1
        /\ \A x \in Int : Has(u, x) <=> Has(out, x) \/ (r.base <= x /\ x < End(r))
        /\ \A x \in Int : Below(u, x) <=> Below(out, x) /\ End(r) <= x
        /\ \A d \in Int : Apart(out, d) /\ Below(out, r.base - d) /\ 0 <= r.base /\ 0 < r.size
                              => Apart(u, d)
    BY <1>1, <2>1, AppendedIs
  <2>3. Apart(u, 1)
    BY <1>1, <1>2, <1>4, <2>2
  <2>4. ASSUME NEW j \in 1 .. n, k + 1 < j PROVE Below(u, rs[j].base - 1)
    <3>1. k < j /\ End(r) + 1 <= rs[j].base /\ rs[j].base \in Int
      BY <1>3, <2>4
    <3>2. Below(out, rs[j].base - 1) /\ End(r) <= rs[j].base - 1
      <4>1. Below(out, rs[j].base - 1)
        BY <1>2, <3>1
      <4>2. End(r) \in Int
        BY <1>1
      <4> QED BY <3>1, <4>1, <4>2
    <3> QED BY <2>2, <3>1, <3>2
  <2>5. ASSUME NEW x \in Int PROVE Has(u, x) <=> HasTo(rs, k + 1, x) /\ ~(b <= x /\ x < e)
    <3>1. ~((r.base <= x /\ x < End(r)) /\ (b <= x /\ x < e))
      BY <1>1, <1>8
    <3> QED BY <1>2, <1>5, <2>2, <3>1
  <2>6. /\ Len(u) <= (k + 1) + 1
        /\ Len(u) = (k + 1) + 1 => \E j \in 1 .. k + 1 : rs[j].base < b /\ e < End(rs[j])
    BY <1>2, <1>6, <2>2
  <2> QED BY <2>3, <2>4, <2>5, <2>6 DEF CutOk, n
<1>9. CASE ~(r.base >= e \/ End(r) <= b)
  <2> DEFINE q == out \o Piece(r.base, b)
             g == Piece(r.base, b)
             h == Piece(e, End(r))
  <2>1. r.base < e /\ b < End(r)
    BY <1>1, <1>9
  <2>2. q \in Seq(Reg) /\ u = q \o Piece(e, End(r))
    <3>1. Outside(r, b, e) = g \o h
      BY <1>9 DEF Outside
    <3>2. g \in Seq(Reg) /\ h \in Seq(Reg) /\ q \in Seq(Reg) /\ out \in Seq(Reg)
      BY <1>1, PieceIs
    <3> HIDE DEF g, h
    <3>4. (out \o g) \o h = out \o (g \o h)
      BY <3>2, ConcatThree
    <3> QED BY <1>7, <3>1, <3>2, <3>4 DEF g, h
  <2>3. q = out \o Piece(r.base, b)
    OBVIOUS
  <2> HIDE DEF q
  <2>4. Apart(q, 1) /\ Longer(q, out, r.base, b)
    <3>1. ASSUME NEW d \in Int, d = 1 PROVE Apart(q, d) /\ Longer(q, out, r.base, b)
      <4>1. Apart(out, d) /\ (r.base < b => Below(out, r.base - d))
        BY <1>2, <1>4, <3>1
      <4> QED BY <1>1, <2>3, <4>1, PieceAdded
    <3> QED BY <3>1
  <2>5. Apart(u, 1) /\ Longer(u, q, e, End(r))
    <3>1. Below(out, e - 1)
      <4>1. r.base - 1 \in Int /\ e - 1 \in Int /\ r.base - 1 <= e - 1
        BY <1>1, <2>1
      <4> QED BY <1>4, <4>1, BelowMore
    <3>2. Below(q, e - 1)
      <4>1. e - 1 \in Int /\ b <= e - 1
        OBVIOUS
      <4> QED BY <2>4, <3>1, <4>1 DEF Longer
    <3>3. ASSUME NEW d \in Int, d = 1 PROVE Apart(u, d) /\ Longer(u, q, e, End(r))
      <4>1. Apart(q, d) /\ (e < End(r) => Below(q, e - d)) /\ 0 <= e
        BY <2>4, <3>2, <3>3
      <4> QED BY <1>1, <2>2, <4>1, PieceAdded
    <3> QED BY <3>3
  <2>6. ASSUME NEW j \in 1 .. n, k + 1 < j PROVE Below(u, rs[j].base - 1)
    <3>1. k < j /\ End(r) + 1 <= rs[j].base /\ rs[j].base \in Int
      BY <1>3, <2>6
    <3>2. Below(out, rs[j].base - 1) /\ End(r) <= rs[j].base - 1 /\ b <= rs[j].base - 1
          /\ rs[j].base - 1 \in Int
      <4>1. Below(out, rs[j].base - 1)
        BY <1>2, <3>1
      <4>2. b \in Int /\ End(r) \in Int /\ b < End(r) /\ End(r) + 1 <= rs[j].base /\ rs[j].base \in Int
        BY <1>1, <2>1, <3>1
      <4>3. End(r) <= rs[j].base - 1 /\ b <= rs[j].base - 1 /\ rs[j].base - 1 \in Int
        BY <4>2
      <4> QED BY <4>1, <4>3
    <3>3. Below(q, rs[j].base - 1)
      BY <2>4, <3>2 DEF Longer
    <3> QED BY <2>5, <3>2, <3>3 DEF Longer
  <2>7. ASSUME NEW x \in Int PROVE Has(u, x) <=> HasTo(rs, k + 1, x) /\ ~(b <= x /\ x < e)
    <3>1. Has(u, x) <=> Has(out, x) \/ (r.base <= x /\ x < b) \/ (e <= x /\ x < End(r))
      BY <2>4, <2>5 DEF Longer
    <3>2. (r.base <= x /\ x < b) \/ (e <= x /\ x < End(r))
            <=> (r.base <= x /\ x < End(r)) /\ ~(b <= x /\ x < e)
      BY <1>1, <2>1
    <3> QED BY <1>2, <1>5, <3>1, <3>2
  <2>8. Len(u) = (Len(out) + (IF r.base < b THEN 1 ELSE 0)) + (IF e < End(r) THEN 1 ELSE 0)
    BY <2>4, <2>5 DEF Longer
  <2>9. /\ Len(u) <= (k + 1) + 1
        /\ Len(u) = (k + 1) + 1 => \E j \in 1 .. k + 1 : rs[j].base < b /\ e < End(rs[j])
    <3>1. CASE r.base < b /\ e < End(r)
      <4>1. ~(Len(out) = k + 1)
        <5> SUFFICES ASSUME NEW j \in 1 .. k, e < End(rs[j]) PROVE FALSE
          BY <1>2
        <5>1. End(rs[j]) + 1 <= r.base /\ End(rs[j]) \in Int
          BY <1>0, <1>6
        <5> QED BY <1>1, <3>1, <5>1
      <4>2. Len(u) = (Len(out) + 1) + 1
        BY <2>8, <3>1
      <4>3. k + 1 \in 1 .. k + 1 /\ rs[k + 1].base < b /\ e < End(rs[k + 1])
        BY <3>1 DEF r
      <4> QED BY <1>2, <4>1, <4>2, <4>3
    <3>2. CASE ~(r.base < b /\ e < End(r))
      <4>1. Len(u) <= Len(out) + 1 /\ Len(u) \in Nat
        <5>1. Len(u) = Len(out) \/ Len(u) = Len(out) + 1
          <6>1. CASE ~(r.base < b)
            BY <1>2, <2>8, <6>1
          <6>2. CASE ~(e < End(r))
            BY <1>2, <2>8, <6>2
          <6> QED BY <3>2, <6>1, <6>2
        <5> QED BY <1>2, <5>1
      <4> QED BY <1>2, <1>6, <4>1
    <3> QED BY <3>1, <3>2
  <2> QED BY <2>5, <2>6, <2>7, <2>9 DEF CutOk, n
<1> QED BY <1>8, <1>9

\* memblock_remove_range: the cells of the range go, and only a region on both sides
\* of it becomes two.
LEMMA CutIs ==
  ASSUME NEW rs \in Seq(Reg), Apart(rs, 1), NEW b \in Int, NEW e \in Int, 0 <= b, b < e,
         NEW t, t = Cut(rs, b, e)
  PROVE  /\ t \in Seq(Reg) /\ Apart(t, 1) /\ Len(t) <= Len(rs) + 1
         /\ \A x \in Int : Has(t, x) <=> Has(rs, x) /\ ~(b <= x /\ x < e)
<1> DEFINE n == Len(rs)
           walk == CutWalk(rs, b, e)
           P == {k \in 0 .. n : CutOk(rs, b, e, k, walk[k])}
<1>0. n \in Nat
  BY SeqTyped
<1>1. /\ walk[0] = <<>> /\ \A k \in 1 .. n : walk[k] = walk[k - 1] \o Outside(rs[k], b, e)
      /\ \A k \in 0 .. n : walk[k] \in Seq(Reg)
  BY CutWalkIs
<1>2. 0 \in P
  <2>1. Apart(<<>>, 1) /\ (\A x : Below(<<>>, x)) /\ (\A x : ~Has(<<>>, x)) /\ Len(<<>>) = 0
    BY DEF Apart, Below, Has
  <2>2. \A x : ~HasTo(rs, 0, x)
    BY DEF HasTo
  <2>3. CutOk(rs, b, e, 0, walk[0])
    BY <1>1, <2>1, <2>2 DEF CutOk
  <2> QED BY <1>0, <2>3
<1>3. ASSUME NEW k \in 0 .. n - 1, k \in P PROVE k + 1 \in P
  <2>1. k \in Nat /\ k + 1 \in 1 .. n /\ (k + 1) - 1 = k /\ k \in 0 .. n /\ k + 1 \in 0 .. n
    BY <1>0
  <2>2. walk[k] \in Seq(Reg) /\ walk[k + 1] = walk[k] \o Outside(rs[k + 1], b, e)
    BY <1>1, <2>1
  <2>3. CutOk(rs, b, e, k, walk[k])
    BY <1>3
  <2>4. k + 1 \in 1 .. Len(rs)
    BY <2>1
  <2> HIDE DEF walk
  <2>5. CutOk(rs, b, e, k + 1, walk[k + 1])
    BY <2>1, <2>2, <2>3, <2>4, CutStepKeeps
  <2> QED BY <2>1, <2>5
<1>4. n \in P
  <2>1. 0 .. n \subseteq P
    <3> HIDE DEF P
    <3> QED BY <1>0, <1>2, <1>3, Upwards
  <2>2. n \in 0 .. n
    BY <1>0
  <2> HIDE DEF P
  <2> QED BY <2>1, <2>2
<1>5. t = walk[n] /\ n \in 0 .. n
  BY <1>0 DEF Cut
<1>6. t \in Seq(Reg) /\ CutOk(rs, b, e, n, t)
  BY <1>1, <1>4, <1>5
<1>7. \A x \in Int : HasTo(rs, n, x) <=> Has(rs, x)
  BY DEF HasTo, Has
<1> QED BY <1>6, <1>7 DEF CutOk

-----------------------------------------------------------------------------
(***************************************************************************)
(* Searching: rounding, gaps, and the two directions.                      *)
(***************************************************************************)
\* Division with remainder.
LEMMA Quotient ==
  ASSUME NEW y \in Nat, NEW a \in Nat \ {0}
  PROVE  /\ y \div a \in Nat /\ y % a \in 0 .. a - 1
         /\ y = (y \div a) * a + (y % a)
OBVIOUS

\* A multiple leaves no remainder.
LEMMA MultipleOf ==
  ASSUME NEW q \in Int, NEW a \in Nat \ {0}
  PROVE  (q * a) % a = 0
OBVIOUS

\* A multiple below the next one.
LEMMA Less ==
  ASSUME NEW p \in Int, NEW q \in Int, NEW a \in Nat \ {0}, p * a < q * a + a
  PROVE  p * a <= q * a
OBVIOUS

\* round_down yields the greatest multiple that is not above,
LEMMA RoundDown ==
  ASSUME NEW x \in Nat, NEW a \in Nat \ {0}
  PROVE  /\ round_down(x, a) \in Nat /\ round_down(x, a) <= x /\ round_down(x, a) % a = 0
         /\ \A m \in Nat : m <= x /\ m % a = 0 => m <= round_down(x, a)
<1> DEFINE q == x \div a
           r == x % a
           t == q * a
<1>1. q \in Nat /\ r \in 0 .. a - 1 /\ x = t + r
  BY Quotient
<1>2. round_down(x, a) = x - r
  BY DEF round_down
<1>a. t = q * a
  OBVIOUS
<1> HIDE DEF q, r, t
<1>3. t \in Int
  BY <1>1 DEF t
<1>4. round_down(x, a) = t
  BY <1>1, <1>2, <1>3
<1>5. t \in Nat
  <2>1. 0 * a < q * a + a
    BY <1>1, <1>3, <1>a
  <2>2. 0 * a <= q * a
    BY <1>1, <2>1, Less
  <2>3. 0 * a = 0
    OBVIOUS
  <2> QED BY <1>3, <1>a, <2>2, <2>3
<1>6. t <= x
  BY <1>1, <1>3
<1>7. t % a = 0
  BY <1>1, <1>a, MultipleOf
<1>8. ASSUME NEW m \in Nat, m <= x, m % a = 0 PROVE m <= t
  <2> DEFINE p == m \div a
             z == p * a
  <2>1. p \in Nat /\ m = z + (m % a)
    BY Quotient
  <2>2. z \in Int
    BY <2>1
  <2>3. z = p * a
    OBVIOUS
  <2> HIDE DEF p, z
  <2>4. m = z
    BY <1>8, <2>1, <2>2
  <2>5. p * a < q * a + a
    BY <1>1, <1>3, <1>8, <1>a, <2>2, <2>3, <2>4
  <2>6. p * a <= q * a
    BY <1>1, <2>1, <2>5, Less
  <2> QED BY <1>a, <2>3, <2>4, <2>6
<1> QED BY <1>4, <1>5, <1>6, <1>7, <1>8

\* and round_up one that is not below.
LEMMA RoundUp ==
  ASSUME NEW x \in Nat, NEW a \in Nat \ {0}
  PROVE  round_up(x, a) \in Nat /\ x <= round_up(x, a) /\ round_up(x, a) % a = 0
<1> DEFINE y == x + a - 1
           q == y \div a
           r == y % a
           t == q * a
<1>1. y \in Nat
  OBVIOUS
<1>2. q \in Nat /\ r \in 0 .. a - 1 /\ y = t + r
  <2> HIDE DEF y
  <2> QED BY <1>1, Quotient
<1>3. round_up(x, a) = t
  BY DEF round_up
<1>4. y = x + a - 1 /\ t = q * a
  OBVIOUS
<1> HIDE DEF q, r, t, y
<1>5. t \in Int
  BY <1>2 DEF t
<1>6. t \in Nat /\ x <= t
  BY <1>1, <1>2, <1>4, <1>5
<1>7. t % a = 0
  BY <1>2, <1>4, MultipleOf
<1> QED BY <1>3, <1>6, <1>7

\* What the searches need of the array: it is in order, and only the entry of the
\* empty array is empty.
Ordered(rs) ==
  /\ \A i \in 1 .. Len(rs) : 0 <= rs[i].base /\ (0 < rs[i].size \/ (rs[i].base = 0 /\ rs[i].size = 0))
  /\ \A i, j \in 1 .. Len(rs) : i < j => End(rs[i]) <= rs[j].base

\* The borders of the regions.
LEMMA Places ==
  ASSUME NEW rs \in Seq(Reg), Ordered(rs)
  PROVE  /\ Len(rs) \in Nat
         /\ \A i \in 1 .. Len(rs) : /\ rs[i].base \in Nat /\ End(rs[i]) \in Nat
                                    /\ rs[i].base <= End(rs[i])
                                    /\ (rs[i].base < End(rs[i]) \/ End(rs[i]) = 0)
         /\ \A i, j \in 1 .. Len(rs) : i < j => End(rs[i]) <= rs[j].base
<1>1. ASSUME NEW i \in 1 .. Len(rs)
      PROVE  /\ rs[i].base \in Nat /\ End(rs[i]) \in Nat /\ rs[i].base <= End(rs[i])
             /\ (rs[i].base < End(rs[i]) \/ End(rs[i]) = 0)
  <2>1. rs[i] \in Reg
    BY SeqTyped
  <2>2. rs[i].base \in Int /\ rs[i].size \in Int /\ End(rs[i]) = rs[i].base + rs[i].size
    BY <2>1, EndTyped
  <2>3. 0 <= rs[i].base /\ (0 < rs[i].size \/ (rs[i].base = 0 /\ rs[i].size = 0))
    BY DEF Ordered
  <2> QED BY <2>2, <2>3
<1> QED BY <1>1, SeqTyped DEF Ordered

\* The borders of a gap.
LEMMA GapTyped ==
  ASSUME NEW rs \in Seq(Reg), Ordered(rs), NEW i \in 1 .. Len(rs) + 1
  PROVE  Gap(rs, i).start \in Nat /\ Gap(rs, i).end \in Nat
<1>1. i # 1 => i - 1 \in 1 .. Len(rs)
  BY Places
<1>2. Gap(rs, i).start = IF i = 1 THEN 0 ELSE End(rs[i - 1])
  BY DEF Gap
<1>3. Gap(rs, i).end = IF i <= Len(rs) THEN rs[i].base ELSE PHYS_ADDR_MAX
  BY DEF Gap
<1>4. i <= Len(rs) => i \in 1 .. Len(rs)
  BY Places
<1> QED BY <1>1, <1>2, <1>3, <1>4, Places, MemAssumption

\* No region lies in a gap.
LEMMA GapFree ==
  ASSUME NEW rs \in Seq(Reg), Ordered(rs), NEW i \in 1 .. Len(rs) + 1,
         NEW x \in Int, Gap(rs, i).start <= x, x < Gap(rs, i).end
  PROVE  ~Has(rs, x)
<1> SUFFICES ASSUME NEW j \in 1 .. Len(rs), rs[j].base <= x, x < End(rs[j]) PROVE FALSE
  BY DEF Has
<1>0. rs[j].base \in Nat /\ End(rs[j]) \in Nat /\ Len(rs) \in Nat
  BY Places
<1>1. CASE j < i
  <2>1. i # 1 /\ i - 1 \in 1 .. Len(rs) /\ Gap(rs, i).start = End(rs[i - 1])
    BY <1>0, <1>1 DEF Gap
  <2>2. End(rs[i - 1]) \in Nat /\ rs[i - 1].base \in Nat /\ rs[i - 1].base <= End(rs[i - 1])
    BY <2>1, Places
  <2>3. j = i - 1 \/ End(rs[j]) <= rs[i - 1].base
    <3>1. j = i - 1 \/ j < i - 1
      BY <1>0, <1>1
    <3> QED BY <2>1, <3>1, Places
  <2>4. j # i - 1
    BY <1>0, <2>1, <2>2
  <2> QED BY <1>0, <2>1, <2>2, <2>3, <2>4
<1>2. CASE ~(j < i)
  <2>1. i \in 1 .. Len(rs) /\ Gap(rs, i).end = rs[i].base
    BY <1>0, <1>2 DEF Gap
  <2>2. rs[i].base \in Nat /\ End(rs[i]) \in Nat /\ rs[i].base <= End(rs[i])
    BY <2>1, Places
  <2>3. j = i \/ End(rs[i]) <= rs[j].base
    <3>1. j = i \/ i < j
      BY <1>0, <1>2
    <3> QED BY <2>1, <3>1, Places
  <2>4. CASE j = i
    BY <1>0, <2>1, <2>4
  <2>5. CASE j # i
    BY <1>0, <2>1, <2>2, <2>3, <2>5
  <2> QED BY <2>4, <2>5
<1> QED BY <1>1, <1>2

\* Free memory lies in a gap.
LEMMA GapHolds ==
  ASSUME NEW rs \in Seq(Reg), Ordered(rs), NEW a \in Nat, NEW s \in Nat, 0 < s,
         a + s <= PHYS_ADDR_MAX,
         \A x \in Int : a <= x /\ x < a + s => ~Has(rs, x)
  PROVE  \E i \in 1 .. Len(rs) + 1 : Gap(rs, i).start <= a /\ a + s <= Gap(rs, i).end
<1> DEFINE T == {i \in 1 .. Len(rs) + 1 : i <= Len(rs) => a < End(rs[i])}
<1>0. Len(rs) \in Nat
  BY Places
<1>1. T \subseteq Nat /\ Len(rs) + 1 \in T
  BY <1>0
<1>2. PICK i \in T : \A y \in T : i <= y
  <2> HIDE DEF T
  <2>1. T # {}
    BY <1>1
  <2> QED BY <1>1, <2>1, Least
<1>3. i \in 1 .. Len(rs) + 1 /\ (i <= Len(rs) => a < End(rs[i]))
  BY <1>2
<1>4. Gap(rs, i).start <= a
  <2>1. CASE i = 1
    BY <2>1 DEF Gap
  <2>2. CASE i # 1
    <3>1. i - 1 \in 1 .. Len(rs) /\ i - 1 \notin T
      BY <1>0, <1>2, <1>3, <2>2
    <3>2. ~(a < End(rs[i - 1]))
      BY <1>0, <3>1
    <3>3. End(rs[i - 1]) \in Nat /\ Gap(rs, i).start = End(rs[i - 1])
      BY <2>2, <3>1, Places DEF Gap
    <3> QED BY <3>2, <3>3
  <2> QED BY <2>1, <2>2
<1>5. a + s <= Gap(rs, i).end
  <2>1. CASE i <= Len(rs)
    <3>1. i \in 1 .. Len(rs) /\ a < End(rs[i]) /\ Gap(rs, i).end = rs[i].base
      BY <1>0, <1>3, <2>1 DEF Gap
    <3>2. rs[i].base \in Nat /\ End(rs[i]) \in Nat /\ rs[i].base < End(rs[i])
      BY <3>1, Places
    <3>3. \A x \in Int : rs[i].base <= x /\ x < End(rs[i]) => Has(rs, x)
      BY <3>1 DEF Has
    <3>4. a < rs[i].base
      BY <3>1, <3>2, <3>3
    <3>5. ~(rs[i].base < a + s)
      BY <3>2, <3>3, <3>4
    <3> QED BY <3>1, <3>2, <3>5
  <2>2. CASE ~(i <= Len(rs))
    BY <2>2 DEF Gap
  <2> QED BY <2>1, <2>2
<1> QED BY <1>3, <1>4, <1>5

\* clamp, case by case.
LEMMA ClampIs ==
  ASSUME NEW x \in Int, NEW lo \in Int, NEW hi \in Int, lo <= hi
  PROVE  clamp(x, lo, hi) = IF x <= lo THEN lo ELSE IF x <= hi THEN x ELSE hi
<1>1. Max({x, lo}) = IF x <= lo THEN lo ELSE x
  BY MaxTwo
<1>2. Max({x, lo}) \in Int
  BY <1>1
<1>3. Min({Max({x, lo}), hi}) = IF Max({x, lo}) <= hi THEN Max({x, lo}) ELSE hi
  BY <1>2, MinTwo
<1> QED BY <1>1, <1>3 DEF clamp

\* What lies between clamped limits lies between the limits.
LEMMA Inside ==
  ASSUME NEW f \in Int, NEW g \in Int, NEW lo \in Int, NEW hi \in Int, lo <= hi,
         NEW c \in Int, NEW s \in Int, 0 < s, clamp(f, lo, hi) <= c, c + s <= clamp(g, lo, hi)
  PROVE  f <= c /\ c + s <= g /\ lo <= c /\ c + s <= hi
<1>1. clamp(f, lo, hi) = IF f <= lo THEN lo ELSE IF f <= hi THEN f ELSE hi
  BY ClampIs
<1>2. clamp(g, lo, hi) = IF g <= lo THEN lo ELSE IF g <= hi THEN g ELSE hi
  BY ClampIs
<1> QED BY <1>1, <1>2

\* A clamped number is one.
LEMMA ClampTyped ==
  ASSUME NEW x \in Int, NEW lo \in Nat, NEW hi \in Nat, lo <= hi
  PROVE  clamp(x, lo, hi) \in Nat /\ lo <= clamp(x, lo, hi)
<1>1. clamp(x, lo, hi) = IF x <= lo THEN lo ELSE IF x <= hi THEN x ELSE hi
  BY ClampIs
<1> QED BY <1>1

\* What __next_mem_range yields of a gap is the memory in it.
LEMMA FreeRangeIs ==
  ASSUME NEW rs \in Seq(Reg), Ordered(rs), NEW i \in 1 .. Len(rs) + 1
  PROVE  /\ FreeRange(rs, i).start \in Nat /\ FreeRange(rs, i).end \in Nat
         /\ Gap(rs, i).start <= FreeRange(rs, i).start /\ MemBase <= FreeRange(rs, i).start
         /\ FreeRange(rs, i).end <= Gap(rs, i).end /\ FreeRange(rs, i).end <= Limit
         /\ \A y \in Int : Gap(rs, i).start <= y /\ MemBase <= y => FreeRange(rs, i).start <= y
         /\ \A y \in Int : y <= Gap(rs, i).end /\ y <= Limit => y <= FreeRange(rs, i).end
<1> DEFINE g == Gap(rs, i).start
           h == Gap(rs, i).end
<1>1. g \in Nat /\ h \in Nat /\ MemBase \in Nat /\ Limit \in Nat
  BY GapTyped, MemAssumption DEF Limit
<1>2. FreeRange(rs, i).start = Max({g, MemBase}) /\ FreeRange(rs, i).end = Min({h, Limit})
  BY DEF FreeRange
<1> HIDE DEF g, h
<1>3. FreeRange(rs, i).start = IF g <= MemBase THEN MemBase ELSE g
  <2>1. Max({g, MemBase}) = IF g <= MemBase THEN MemBase ELSE g
    BY <1>1, MaxTwo
  <2> QED BY <1>2, <2>1
<1>4. FreeRange(rs, i).end = IF h <= Limit THEN h ELSE Limit
  BY <1>1, <1>2, MinTwo
<1> QED BY <1>1, <1>3, <1>4 DEF g, h

\* What a search has to find.
Found(rs, lo, hi, size, align, r) ==
  /\ r \in Nat /\ r % align = 0 /\ lo <= r
  /\ 0 < size => /\ MemBase <= r /\ r + size <= Limit /\ r + size <= hi
                 /\ \A x \in Int : r <= x /\ x < r + size => ~Has(rs, x)

\* The free range i as the searches clamp it.
ThisStart(rs, lo, hi, i) == clamp(FreeRange(rs, i).start, lo, hi)
ThisEnd(rs, lo, hi, i)   == clamp(FreeRange(rs, i).end, lo, hi)

\* Its borders.
LEMMA ThisTyped ==
  ASSUME NEW rs \in Seq(Reg), Ordered(rs), NEW lo \in Nat, NEW hi \in Nat, lo <= hi,
         NEW i \in 1 .. Len(rs) + 1
  PROVE  /\ ThisStart(rs, lo, hi, i) \in Nat /\ ThisEnd(rs, lo, hi, i) \in Nat
         /\ lo <= ThisStart(rs, lo, hi, i)
<1> DEFINE f == FreeRange(rs, i).start
           g == FreeRange(rs, i).end
<1>1. f \in Int /\ g \in Int
  BY FreeRangeIs
<1>2. ThisStart(rs, lo, hi, i) = clamp(f, lo, hi) /\ ThisEnd(rs, lo, hi, i) = clamp(g, lo, hi)
  BY DEF ThisStart, ThisEnd
<1> HIDE DEF f, g
<1>3. clamp(f, lo, hi) \in Nat /\ lo <= clamp(f, lo, hi)
  BY <1>1, ClampTyped
<1>4. clamp(g, lo, hi) \in Nat
  BY <1>1, ClampTyped
<1> QED BY <1>2, <1>3, <1>4

\* An aligned place inside a clamped range is one a search may find.
LEMMA InRange ==
  ASSUME NEW rs \in Seq(Reg), Ordered(rs), NEW lo \in Nat, NEW hi \in Nat, lo <= hi,
         NEW size \in Nat, NEW align \in Nat \ {0}, NEW i \in FreeRanges(rs), NEW r \in Nat,
         r % align = 0, ThisStart(rs, lo, hi, i) <= r, r + size <= ThisEnd(rs, lo, hi, i)
  PROVE  Found(rs, lo, hi, size, align, r)
<1>1. i \in 1 .. Len(rs) + 1
  BY DEF FreeRanges
<1> DEFINE f == FreeRange(rs, i).start
           g == FreeRange(rs, i).end
<1>2. f \in Nat /\ g \in Nat /\ Gap(rs, i).start <= f /\ MemBase <= f /\ g <= Gap(rs, i).end /\ g <= Limit
  BY <1>1, FreeRangeIs
<1>3. clamp(f, lo, hi) <= r /\ r + size <= clamp(g, lo, hi)
  BY DEF ThisStart, ThisEnd
<1>4. Gap(rs, i).start \in Nat /\ Gap(rs, i).end \in Nat /\ MemBase \in Nat /\ Limit \in Nat
  BY <1>1, GapTyped, MemAssumption DEF Limit
<1> HIDE DEF f, g
<1>5. lo <= r
  <2>1. clamp(f, lo, hi) \in Nat /\ lo <= clamp(f, lo, hi)
    BY <1>2, ClampTyped
  <2> QED BY <1>3, <2>1
<1>6. ASSUME 0 < size
      PROVE  /\ MemBase <= r /\ r + size <= Limit /\ r + size <= hi
             /\ \A x \in Int : r <= x /\ x < r + size => ~Has(rs, x)
  <2>1. f <= r /\ r + size <= g /\ r + size <= hi
    <3>1. f \in Int /\ g \in Int /\ r \in Int /\ size \in Int /\ lo \in Int /\ hi \in Int
      BY <1>2
    <3> QED BY <1>3, <1>6, <3>1, Inside
  <2>2. ASSUME NEW x \in Int, r <= x, x < r + size PROVE ~Has(rs, x)
    <3>1. Gap(rs, i).start <= x /\ x < Gap(rs, i).end
      BY <1>2, <1>4, <2>1, <2>2
    <3> QED BY <1>1, <3>1, GapFree
  <2> QED BY <1>2, <1>4, <2>1, <2>2
<1> QED BY <1>5, <1>6 DEF Found

\* There is a first and a last range.
LEMMA RangesFinite ==
  ASSUME NEW rs \in Seq(Reg), NEW T, T \subseteq FreeRanges(rs), T # {}
  PROVE  Min(T) \in T /\ Max(T) \in T
<1>1. Len(rs) \in Nat /\ Len(rs) + 1 \in Int
  BY SeqTyped
<1>2. T \subseteq Nat /\ T \subseteq Int /\ \A x \in T : x <= Len(rs) + 1
  BY <1>1 DEF FreeRanges
<1>3. Min(T) \in T
  BY <1>2, MinOf
<1>4. Max(T) \in T
  BY <1>1, <1>2, MaxOf
<1> QED BY <1>3, <1>4

\* __memblock_find_range_bottom_up.
LEMMA BottomUpIs ==
  ASSUME NEW rs \in Seq(Reg), Ordered(rs), NEW lo \in Nat, NEW hi \in Nat, lo <= hi,
         NEW size \in Nat, NEW align \in Nat \ {0},
         NEW r, r = find_range_bottom_up(rs, lo, hi, size, align), r # 0
  PROVE  Found(rs, lo, hi, size, align, r)
<1> DEFINE te(i) == ThisEnd(rs, lo, hi, i)
           cand(i) == round_up(ThisStart(rs, lo, hi, i), align)
           fits == {i \in FreeRanges(rs) : cand(i) < te(i) /\ te(i) - cand(i) >= size}
<1>1. r = IF fits = {} THEN 0 ELSE cand(Min(fits))
  BY DEF find_range_bottom_up, ThisEnd, ThisStart
<1>2. fits # {} /\ fits \subseteq FreeRanges(rs)
  BY <1>1
<1> DEFINE i == Min(fits)
<1>3. i \in fits
  <2> HIDE DEF fits
  <2> QED BY <1>2, RangesFinite
<1>4. i \in FreeRanges(rs) /\ cand(i) < te(i) /\ te(i) - cand(i) >= size /\ r = cand(i)
  BY <1>1, <1>2, <1>3
<1>5. i \in 1 .. Len(rs) + 1
  BY <1>4 DEF FreeRanges
<1> HIDE DEF i, fits
<1>6. ThisStart(rs, lo, hi, i) \in Nat /\ te(i) \in Nat
  BY <1>5, ThisTyped
<1>7. r \in Nat /\ ThisStart(rs, lo, hi, i) <= r /\ r % align = 0
  BY <1>4, <1>6, RoundUp
<1>8. r + size <= ThisEnd(rs, lo, hi, i)
  BY <1>4, <1>6, <1>7
<1> QED BY <1>4, <1>7, <1>8, InRange

\* __memblock_find_range_top_down.
LEMMA TopDownIs ==
  ASSUME NEW rs \in Seq(Reg), Ordered(rs), NEW lo \in Nat, NEW hi \in Nat, lo <= hi,
         NEW size \in Nat, NEW align \in Nat \ {0},
         NEW r, r = find_range_top_down(rs, lo, hi, size, align)
  PROVE  /\ r # 0 => Found(rs, lo, hi, size, align, r)
         /\ r = 0 /\ 0 < lo =>
              \A i \in FreeRanges(rs), a \in Nat :
                ~(/\ a % align = 0 /\ ThisStart(rs, lo, hi, i) <= a
                  /\ a + size <= ThisEnd(rs, lo, hi, i))
<1> DEFINE te(i) == ThisEnd(rs, lo, hi, i)
           cand(i) == round_down(te(i) - size, align)
           fits == {i \in FreeRanges(rs) : te(i) >= size /\ cand(i) >= ThisStart(rs, lo, hi, i)}
<1>1. r = IF fits = {} THEN 0 ELSE cand(Max(fits))
  BY DEF find_range_top_down, ThisEnd, ThisStart
<1>2. ASSUME NEW i \in FreeRanges(rs)
      PROVE  /\ ThisStart(rs, lo, hi, i) \in Nat /\ te(i) \in Nat /\ lo <= ThisStart(rs, lo, hi, i)
             /\ te(i) >= size => /\ cand(i) \in Nat /\ cand(i) + size <= te(i) /\ cand(i) % align = 0
                                 /\ \A a \in Nat : a + size <= te(i) /\ a % align = 0 => a <= cand(i)
  <2>0. i \in 1 .. Len(rs) + 1
    BY DEF FreeRanges
  <2>2. ThisStart(rs, lo, hi, i) \in Nat /\ te(i) \in Nat /\ lo <= ThisStart(rs, lo, hi, i)
    BY <2>0, ThisTyped
  <2>3. ASSUME te(i) >= size
        PROVE  /\ cand(i) \in Nat /\ cand(i) + size <= te(i) /\ cand(i) % align = 0
               /\ \A a \in Nat : a + size <= te(i) /\ a % align = 0 => a <= cand(i)
    <3> DEFINE x == te(i) - size
    <3>1. x \in Nat /\ x + size = te(i)
      BY <2>2, <2>3
    <3>2. cand(i) = round_down(x, align)
      OBVIOUS
    <3>3. \A a \in Nat : a + size <= te(i) => a <= x
      BY <2>2
    <3> HIDE DEF x, te
    <3>4. /\ round_down(x, align) \in Nat /\ round_down(x, align) <= x /\ round_down(x, align) % align = 0
          /\ \A m \in Nat : m <= x /\ m % align = 0 => m <= round_down(x, align)
      BY <3>1, RoundDown
    <3> HIDE DEF cand
    <3> QED BY <2>2, <3>1, <3>2, <3>3, <3>4
  <2> QED BY <2>2, <2>3
<1>3. ASSUME fits # {}
      PROVE  Found(rs, lo, hi, size, align, r) /\ lo <= r
  <2> DEFINE i == Max(fits)
  <2>1. fits \subseteq FreeRanges(rs)
    OBVIOUS
  <2>2. i \in fits
    <3> HIDE DEF fits
    <3> QED BY <1>3, <2>1, RangesFinite
  <2>3. i \in FreeRanges(rs) /\ te(i) >= size /\ cand(i) >= ThisStart(rs, lo, hi, i) /\ r = cand(i)
    BY <1>1, <1>3, <2>2
  <2> HIDE DEF i, fits, cand
  <2>4. r \in Nat /\ r % align = 0 /\ ThisStart(rs, lo, hi, i) <= r /\ r + size <= te(i)
    BY <1>2, <2>3
  <2>5. Found(rs, lo, hi, size, align, r)
    BY <2>3, <2>4, InRange
  <2> QED BY <2>5 DEF Found
<1>4. r # 0 => Found(rs, lo, hi, size, align, r)
  BY <1>1, <1>3
<1>5. ASSUME r = 0, 0 < lo, NEW i \in FreeRanges(rs), NEW a \in Nat,
             a % align = 0, ThisStart(rs, lo, hi, i) <= a, a + size <= ThisEnd(rs, lo, hi, i)
      PROVE  FALSE
  <2>1. fits = {}
    <3> HIDE DEF fits
    <3> QED BY <1>3, <1>5
  <2>2. te(i) >= size /\ te(i) \in Nat
    BY <1>2, <1>5
  <2>3. a <= cand(i) /\ cand(i) \in Nat
    <3> HIDE DEF cand
    <3> QED BY <1>2, <1>5, <2>2
  <2>4. ThisStart(rs, lo, hi, i) \in Nat
    BY <1>2
  <2>5. cand(i) >= ThisStart(rs, lo, hi, i)
    <3> HIDE DEF cand
    <3> QED BY <1>5, <2>3, <2>4
  <2> QED BY <2>1, <2>2, <2>5
<1> QED BY <1>4, <1>5

\* The two values of end that stand for all the memory.
LEMMA PumpUpIs ==
  ASSUME NEW end \in Nat
  PROVE  /\ PumpUp(end) \in Nat /\ (1 < end => PumpUp(end) = end)
         /\ PumpUp(MEMBLOCK_ALLOC_ACCESSIBLE) = Limit /\ MEMBLOCK_ALLOC_ACCESSIBLE \in Nat
BY MemAssumption DEF PumpUp, Limit, MEMBLOCK_ALLOC_ACCESSIBLE, MEMBLOCK_ALLOC_KASAN

\* memblock_find_in_range_node.
LEMMA FindIs ==
  ASSUME NEW rs \in Seq(Reg), Ordered(rs), NEW start \in Nat, NEW end \in Nat,
         NEW size \in Nat, NEW align \in Nat \ {0},
         NEW r, r = find_in_range(rs, start, end, size, align), r # 0
  PROVE  /\ r \in Nat /\ r % align = 0
         /\ 0 < size => /\ start <= r /\ MemBase <= r /\ r + size <= Limit /\ r + size <= PumpUp(end)
                        /\ \A x \in Int : r <= x /\ x < r + size => ~Has(rs, x)
<1> DEFINE top == PumpUp(end)
           from == Max({start, PAGE_SIZE})
           to == Max({from, top})
           low == Max({from, MemBase})
<1>0. PAGE_SIZE \in Nat /\ MemBase \in Nat /\ Limit \in Nat
  BY MemAssumption DEF Limit
<1>1. from \in Nat /\ start <= from
  BY <1>0, MaxTwo
<1>2. to \in Nat /\ from <= to /\ (to = top \/ to = from)
  <2>1. top \in Nat
    BY PumpUpIs
  <2> HIDE DEF from, top
  <2> QED BY <1>1, <2>1, MaxTwo
<1>3. low \in Nat /\ from <= low /\ (to > MemBase => low <= to)
  <2>1. low = IF from <= MemBase THEN MemBase ELSE from
    <3> HIDE DEF from
    <3> QED BY <1>0, <1>1, MaxTwo
  <2> HIDE DEF from, low, to
  <2> QED BY <1>0, <1>1, <1>2, <2>1
<1>4. \/ r = find_range_top_down(rs, from, to, size, align)
      \/ to > MemBase /\ r = find_range_bottom_up(rs, low, to, size, align)
  BY DEF find_in_range, OrElse
<1> HIDE DEF from, to, low, top
<1>5. Found(rs, from, to, size, align, r)
  <2>1. CASE r = find_range_top_down(rs, from, to, size, align)
    BY <1>1, <1>2, <2>1, TopDownIs
  <2>2. CASE to > MemBase /\ r = find_range_bottom_up(rs, low, to, size, align)
    <3>1. Found(rs, low, to, size, align, r)
      BY <1>2, <1>3, <2>2, BottomUpIs
    <3>2. from <= r
      BY <1>1, <1>3, <3>1 DEF Found
    <3> QED BY <3>1, <3>2 DEF Found
  <2> QED BY <1>4, <2>1, <2>2
<1>6. r \in Nat /\ r % align = 0 /\ from <= r
  BY <1>5 DEF Found
<1>7. ASSUME 0 < size
      PROVE  /\ start <= r /\ MemBase <= r /\ r + size <= Limit /\ r + size <= top
             /\ \A x \in Int : r <= x /\ x < r + size => ~Has(rs, x)
  <2>1. /\ MemBase <= r /\ r + size <= Limit /\ r + size <= to
        /\ \A x \in Int : r <= x /\ x < r + size => ~Has(rs, x)
    BY <1>5, <1>7 DEF Found
  <2>2. to = top
    BY <1>1, <1>2, <1>6, <1>7, <2>1
  <2> QED BY <1>1, <1>6, <2>1, <2>2
<1> QED BY <1>6, <1>7 DEF top

\* A search of all the memory that fails has passed over nothing.
LEMMA FindComplete ==
  ASSUME NEW rs \in Seq(Reg), Ordered(rs), NEW size \in Nat, 0 < size, NEW align \in Nat \ {0},
         find_in_range(rs, 0, MEMBLOCK_ALLOC_ACCESSIBLE, size, align) = 0,
         NEW a \in Nat, MemBase <= a, a % align = 0, a + size <= Limit,
         \A x \in Int : a <= x /\ x < a + size => ~Has(rs, x)
  PROVE  FALSE
<1>0. /\ PAGE_SIZE \in Nat /\ MemBase \in Nat /\ Limit \in Nat /\ MemBase <= Limit
      /\ 1 < PAGE_SIZE /\ PAGE_SIZE <= MemBase /\ PHYS_ADDR_MAX \in Nat /\ Limit <= PHYS_ADDR_MAX
  BY MemAssumption DEF Limit
<1>1. Max({0, PAGE_SIZE}) = PAGE_SIZE
  BY <1>0, MaxTwo
<1>2. Max({PAGE_SIZE, PumpUp(MEMBLOCK_ALLOC_ACCESSIBLE)}) = Limit
  <2>1. PumpUp(MEMBLOCK_ALLOC_ACCESSIBLE) = Limit
    BY <1>0, PumpUpIs
  <2>2. Max({PAGE_SIZE, Limit}) = Limit
    BY <1>0, MaxTwo
  <2> QED BY <2>1, <2>2
<1> DEFINE r == find_range_top_down(rs, PAGE_SIZE, Limit, size, align)
<1>3. r = 0
  BY <1>1, <1>2 DEF find_in_range, OrElse
<1>4. \A i \in FreeRanges(rs) : ~(/\ ThisStart(rs, PAGE_SIZE, Limit, i) <= a
                                  /\ a + size <= ThisEnd(rs, PAGE_SIZE, Limit, i))
  <2> HIDE DEF r
  <2>1. r = find_range_top_down(rs, PAGE_SIZE, Limit, size, align) /\ PAGE_SIZE <= Limit
    BY <1>0 DEF r
  <2> QED BY <1>0, <1>3, <2>1, TopDownIs
<1>5. PICK i \in 1 .. Len(rs) + 1 : Gap(rs, i).start <= a /\ a + size <= Gap(rs, i).end
  <2>1. a + size <= PHYS_ADDR_MAX
    BY <1>0
  <2> QED BY <2>1, GapHolds
<1>6. Gap(rs, i).start \in Nat /\ Gap(rs, i).end \in Nat
  BY GapTyped
<1>7. i \in FreeRanges(rs)
  <2>1. a < Limit /\ MemBase < a + size
    BY <1>0
  <2>2. Gap(rs, i).start < Limit /\ MemBase < Gap(rs, i).end
    BY <1>0, <1>5, <1>6, <2>1
  <2> QED BY <2>2 DEF FreeRanges
<1> DEFINE f == FreeRange(rs, i).start
           g == FreeRange(rs, i).end
<1>8. f \in Nat /\ g \in Nat /\ f <= a /\ a + size <= g
  BY <1>5, FreeRangeIs
<1>9. ThisStart(rs, PAGE_SIZE, Limit, i) = clamp(f, PAGE_SIZE, Limit) /\ ThisEnd(rs, PAGE_SIZE, Limit, i) = clamp(g, PAGE_SIZE, Limit)
  BY DEF ThisStart, ThisEnd
<1> HIDE DEF f, g
<1>10. clamp(f, PAGE_SIZE, Limit) = IF f <= PAGE_SIZE THEN PAGE_SIZE ELSE IF f <= Limit THEN f ELSE Limit
  BY <1>0, <1>8, ClampIs
<1>11. clamp(g, PAGE_SIZE, Limit) = IF g <= PAGE_SIZE THEN PAGE_SIZE ELSE IF g <= Limit THEN g ELSE Limit
  BY <1>0, <1>8, ClampIs
<1>12. clamp(f, PAGE_SIZE, Limit) <= a
  BY <1>0, <1>8, <1>10
<1>13. a + size <= clamp(g, PAGE_SIZE, Limit)
  BY <1>0, <1>8, <1>11
<1> QED BY <1>4, <1>7, <1>9, <1>12, <1>13

-----------------------------------------------------------------------------
(***************************************************************************)
(* memblock_add_range and memblock_remove_range, once there is room.       *)
(***************************************************************************)
\* The array of a type: regions that do not touch, or the entry of the empty array.
Good(rs) ==
  rs \in Seq(Reg) /\ (rs = <<Dummy>> \/ (Len(rs) >= 1 /\ Apart(rs, 1)))

\* The entry of the empty array has no cells.
LEMMA DummyIs ==
  /\ Dummy \in Reg /\ Dummy.base = 0 /\ Dummy.size = 0 /\ End(Dummy) = 0
  /\ <<Dummy>> \in Seq(Reg) /\ Len(<<Dummy>>) = 1 /\ <<Dummy>>[1] = Dummy
  /\ \A x \in Int : ~Has(<<Dummy>>, x)
  /\ SizeOf(<<Dummy>>) = 0 /\ Ordered(<<Dummy>>)
<1>1. Dummy \in Reg /\ Dummy.base = 0 /\ Dummy.size = 0 /\ End(Dummy) = 0
  BY RegionIs DEF Dummy
<1> DEFINE d == Dummy
<1>a. d \in Reg /\ d.base = 0 /\ d.size = 0 /\ End(d) = 0
  BY <1>1
<1> HIDE DEF d
<1>2. <<d>> \in Seq(Reg) /\ Len(<<d>>) = 1 /\ <<d>>[1] = d
  BY <1>a
<1>3. ASSUME NEW x \in Int PROVE ~Has(<<d>>, x)
  <2> SUFFICES ASSUME NEW i \in 1 .. 1, <<d>>[i].base <= x, x < End(<<d>>[i]) PROVE FALSE
    BY <1>2 DEF Has
  <2>1. <<d>>[i] = d
    BY <1>2
  <2> QED BY <1>a, <2>1
<1>4. SizeOf(<<d>>) = 0
  BY <1>a, SizeOne
<1>5. Ordered(<<d>>)
  <2>1. \A i \in 1 .. Len(<<d>>) : i = 1 /\ <<d>>[i] = d
    BY <1>2
  <2> QED BY <1>a, <1>2, <2>1 DEF Ordered
<1> QED BY <1>a, <1>2, <1>3, <1>4, <1>5 DEF d

\* Such an array is what the searches need; only the empty one begins with an
\* empty region.
LEMMA GoodOrdered ==
  ASSUME NEW rs, Good(rs)
  PROVE  /\ rs \in Seq(Reg) /\ Len(rs) \in Nat /\ 1 <= Len(rs) /\ Ordered(rs)
         /\ rs[1].size = 0 <=> rs = <<Dummy>>
         /\ rs # <<Dummy>> => Apart(rs, 1)
<1>1. CASE rs = <<Dummy>>
  BY <1>1, DummyIs
<1>2. CASE rs # <<Dummy>>
  <2>1. rs \in Seq(Reg) /\ Len(rs) >= 1 /\ Apart(rs, 1) /\ Len(rs) \in Nat
    BY <1>2 DEF Good
  <2>2. 1 \in 1 .. Len(rs)
    BY <2>1
  <2>3. rs[1].size # 0
    BY <2>1, <2>2 DEF Apart
  <2>4. ASSUME NEW i \in 1 .. Len(rs), NEW j \in 1 .. Len(rs), i < j
        PROVE  End(rs[i]) <= rs[j].base
    <3>1. End(rs[i]) + 1 <= rs[j].base
      BY <2>1, <2>4 DEF Apart
    <3>2. rs[i] \in Reg /\ rs[j] \in Reg
      BY <2>1, SeqTyped
    <3>3. End(rs[i]) \in Int /\ rs[j].base \in Int
      BY <3>2, EndTyped
    <3> QED BY <3>1, <3>3
  <2>5. Ordered(rs)
    BY <2>1, <2>4 DEF Ordered, Apart
  <2> QED BY <1>2, <2>1, <2>3, <2>5
<1> QED BY <1>1, <1>2

\* struct memblock_type.
Ty == [regions : Seq(Reg), max : Nat, total_size : Int, array : Nat]

\* total_size is the sum of the sizes.
Sound(t) == t \in Ty /\ Good(t.regions) /\ t.total_size = SizeOf(t.regions)

\* u is t with the range [b, e) added to it; C are the cells that t has of it.
Added(u, t, b, e, C) ==
  /\ u.max = t.max /\ u.array = t.array
  /\ Len(u.regions) <= Len(t.regions) + Cardinality(Starts(C, b, e))
  /\ t.regions = <<Dummy>> => Len(u.regions) <= 1
  /\ \A x \in Int : Has(u.regions, x) <=> Has(t.regions, x) \/ (b <= x /\ x < e)

\* memblock_add_range, once there is room.
LEMMA AddRangeIs ==
  ASSUME NEW t, Sound(t), NEW b \in Int, NEW e \in Int, 0 <= b, b <= e,
         NEW C, \A x \in b .. e - 1 : x \in C <=> Has(t.regions, x),
         NEW u, u = AddRange(t, b, e)
  PROVE  Sound(u) /\ Added(u, t, b, e, C)
<1> DEFINE rs == t.regions
<1>0. /\ t \in Ty /\ Good(rs) /\ t.total_size = SizeOf(rs)
      /\ t.max \in Nat /\ t.array \in Nat /\ t.total_size \in Int
  BY DEF Sound, Ty
<1>1. /\ rs \in Seq(Reg) /\ Len(rs) \in Nat /\ 1 <= Len(rs) /\ (rs[1].size = 0 <=> rs = <<Dummy>>)
      /\ rs # <<Dummy>> => Apart(rs, 1)
  BY <1>0, GoodOrdered
<1>2. Cardinality(Starts(C, b, e)) \in Nat
  BY StartsFinite
<1>3. CASE b = e
  <2>1. u = t
    BY <1>3 DEF AddRange
  <2>2. \A x \in Int : ~(b <= x /\ x < e)
    BY <1>3
  <2>3. rs = <<Dummy>> => Len(rs) <= 1
    BY DummyIs
  <2> HIDE DEF rs
  <2>4. Len(rs) <= Len(rs) + Cardinality(Starts(C, b, e))
    BY <1>1, <1>2
  <2> QED BY <2>1, <2>2, <2>3, <2>4 DEF Added, rs
<1>4. CASE b # e /\ rs = <<Dummy>>
  <2> DEFINE r == Region(b, e)
  <2>1. u = [t EXCEPT !.regions = <<r>>, !.total_size = e - b]
    BY <1>1, <1>4 DEF AddRange
  <2>2. r \in Reg /\ r.base = b /\ r.size = e - b /\ End(r) = e
    BY RegionIs
  <2> HIDE DEF r
  <2>3. <<r>> \in Seq(Reg) /\ Len(<<r>>) = 1 /\ <<r>>[1] = r
    BY <2>2
  <2>4. u \in Ty /\ u.regions = <<r>> /\ u.max = t.max /\ u.array = t.array /\ u.total_size = e - b
    <3> DEFINE s == <<r>>
    <3>1. s \in Seq(Reg) /\ e - b \in Int /\ u = [t EXCEPT !.regions = s, !.total_size = e - b]
      BY <2>1, <2>3
    <3> HIDE DEF s
    <3>2. u \in Ty /\ u.regions = s /\ u.max = t.max /\ u.array = t.array /\ u.total_size = e - b
      BY <1>0, <3>1 DEF Ty
    <3> QED BY <3>2 DEF s
  <2>5. SizeOf(<<r>>) = e - b
    BY <2>2, SizeOne
  <2>6. \A i \in 1 .. Len(<<r>>) : i = 1 /\ <<r>>[i] = r
    BY <2>3
  <2>7. Good(<<r>>)
    <3>1. 0 < r.size
      BY <1>4, <2>2
    <3>2. \A i, j \in 1 .. Len(<<r>>) : ~(i < j)
      BY <2>6
    <3> QED BY <2>2, <2>3, <2>6, <3>1, <3>2 DEF Good, Apart
  <2>8. ASSUME NEW x \in Int PROVE Has(<<r>>, x) <=> b <= x /\ x < e
    <3>1. 1 \in 1 .. Len(<<r>>)
      BY <2>3
    <3> QED BY <2>2, <2>3, <2>6, <3>1 DEF Has
  <2>9. \A x \in Int : ~Has(rs, x)
    BY <1>4, DummyIs
  <2>10. Len(<<r>>) <= Len(rs) + Cardinality(Starts(C, b, e))
    BY <1>1, <1>2, <2>3
  <2>11. Len(<<r>>) <= 1
    BY <2>3
  <2> QED BY <2>4, <2>5, <2>7, <2>8, <2>9, <2>10, <2>11 DEF Sound, Added
<1>5. CASE b # e /\ rs # <<Dummy>>
  <2> DEFINE i == Inserted(rs, b, e)
             m == memblock_merge_regions(i)
  <2>1. u = [t EXCEPT !.regions = m, !.total_size = t.total_size + SizeOf(i) - SizeOf(rs)]
    BY <1>1, <1>5 DEF AddRange
  <2>2. \A x \in b .. e - 1 : x \in C <=> Has(rs, x)
    OBVIOUS
  <2>3. i = Inserted(rs, b, e) /\ m = memblock_merge_regions(i)
    OBVIOUS
  <2> HIDE DEF i, m, rs
  <2>4. /\ i \in Seq(Reg) /\ Apart(i, 0) /\ Len(i) = Len(rs) + Cardinality(Starts(C, b, e))
        /\ \A x \in Int : Has(i, x) <=> Has(rs, x) \/ (b <= x /\ x < e)
    <3>1. rs \in Seq(Reg) /\ Apart(rs, 1)
      BY <1>1, <1>5
    <3>2. i = Inserted(rs, b, e)
      BY <2>3
    <3>3. i \in Seq(Reg) /\ Filled(i, rs, b, e, C)
      BY <2>2, <3>1, <3>2, InsertedIs
    <3> QED BY <3>3 DEF Filled
  <2>5. Len(i) > 0
    BY <1>1, <1>2, <2>4
  <2>6. /\ m \in Seq(Reg) /\ Apart(m, 1) /\ 1 <= Len(m) /\ Len(m) <= Len(i)
        /\ \A x \in Int : Has(m, x) <=> Has(i, x)
        /\ SizeOf(m) = SizeOf(i)
    BY <2>3, <2>4, <2>5, Merged
  <2>7. SizeOf(i) \in Int /\ SizeOf(rs) \in Int
    BY <1>1, <2>4, SizeTyped
  <2>8. t.total_size + SizeOf(i) - SizeOf(rs) = SizeOf(i)
    BY <1>0, <2>7
  <2>9. u \in Ty /\ u.regions = m /\ u.max = t.max /\ u.array = t.array /\ u.total_size = SizeOf(i)
    BY <1>0, <2>1, <2>6, <2>7, <2>8 DEF Ty
  <2>10. Good(m)
    BY <2>6 DEF Good
  <2>11. Len(m) <= Len(rs) + Cardinality(Starts(C, b, e))
    BY <2>4, <2>6
  <2>12. Sound(u)
    BY <2>6, <2>9, <2>10 DEF Sound
  <2> QED BY <1>5, <2>4, <2>6, <2>9, <2>11, <2>12 DEF rs, Added
<1> QED BY <1>3, <1>4, <1>5

\* A range that goes into the empty array.
LEMMA InsertedEmpty ==
  ASSUME NEW b \in Int, NEW e \in Int, 0 <= b
  PROVE  Inserted(<<Dummy>>, b, e) \in Seq(Reg) /\ Len(Inserted(<<Dummy>>, b, e)) <= 2
<1> DEFINE rs == <<Dummy>>
           walk == AddWalk(rs, b, e)
           w == walk[1]
<1>1. rs \in Seq(Reg) /\ Len(rs) = 1 /\ rs[1] = Dummy /\ End(Dummy) = 0 /\ Dummy \in Reg
  BY DummyIs
<1>2. 1 \in 1 .. Len(rs) /\ 1 - 1 = 0 /\ 0 \in 0 .. Len(rs) /\ 1 \in 0 .. Len(rs)
  BY <1>1
<1>3. /\ walk[0] = [out |-> <<>>, base |-> b] /\ w = AddStep(e, walk[0], Dummy)
      /\ walk[0] \in AddState /\ w \in AddState
  <2> HIDE DEF rs
  <2>1. /\ walk[0] = [out |-> <<>>, base |-> b]
        /\ \A k \in 1 .. Len(rs) : walk[k] = AddStep(e, walk[k - 1], rs[k])
        /\ \A k \in 0 .. Len(rs) : walk[k] \in AddState
    BY <1>1, AddWalkIs
  <2>2. walk[1] = AddStep(e, walk[1 - 1], rs[1])
    BY <1>2, <2>1
  <2> QED BY <1>1, <1>2, <2>1, <2>2
<1>4. walk[0].out = <<>> /\ walk[0].base = b
  BY <1>3
<1>5. w.out = Append(<<>>, Dummy) /\ w.base = b
  <2> DEFINE v == walk[0]
  <2>1. v \in AddState /\ w = AddStep(e, v, Dummy) /\ v.out = <<>> /\ v.base = b
    BY <1>3, <1>4
  <2> HIDE DEF v, w
  <2>2. End(Dummy) <= v.base
    BY <1>1, <2>1
  <2>3. AddStep(e, v, Dummy).out = Append(v.out, Dummy) /\ AddStep(e, v, Dummy).base = v.base
    BY <1>1, <2>1, <2>2, AddStepIs
  <2> QED BY <2>1, <2>3
<1>6. Inserted(rs, b, e) = w.out \o Piece(w.base, e)
  BY <1>1 DEF Inserted
<1> HIDE DEF rs, walk, w
<1>7. w.out \in Seq(Reg) /\ Len(w.out) = 1
  BY <1>1, <1>5
<1>8. ASSUME b < e PROVE Len(Inserted(rs, b, e)) <= 2
  <2>1. Inserted(rs, b, e) = Append(w.out, Region(b, e))
    BY <1>5, <1>6, <1>7, <1>8, PieceIs
  <2> QED BY <1>7, <2>1
<1>9. ASSUME ~(b < e) PROVE Len(Inserted(rs, b, e)) <= 2
  <2>1. Inserted(rs, b, e) = w.out
    BY <1>5, <1>6, <1>7, <1>9, PieceIs
  <2>2. Len(Inserted(rs, b, e)) = 1
    BY <1>7, <2>1, Zenon
  <2> QED BY <2>2
<1>10. Len(Inserted(rs, b, e)) <= 2
  BY <1>8, <1>9
<1>11. Inserted(rs, b, e) \in Seq(Reg)
  BY <1>5, <1>6, <1>7, PieceIs
<1> QED BY <1>10, <1>11 DEF rs

\* Nothing is cut out of the empty array.
LEMMA CutEmpty ==
  ASSUME NEW b \in Int, NEW e \in Int, 0 <= b, b < e
  PROVE  Cut(<<Dummy>>, b, e) = <<Dummy>>
<1> DEFINE rs == <<Dummy>>
           walk == CutWalk(rs, b, e)
<1>1. rs \in Seq(Reg) /\ Len(rs) = 1 /\ rs[1] = Dummy /\ End(Dummy) = 0 /\ Dummy.base = 0 /\ Dummy \in Reg
  BY DummyIs
<1>2. 1 \in 1 .. Len(rs) /\ 1 - 1 = 0
  BY <1>1
<1>3. walk[0] = <<>> /\ walk[1] = walk[0] \o Outside(Dummy, b, e)
  <2> HIDE DEF rs
  <2>1. /\ walk[0] = <<>>
        /\ \A k \in 1 .. Len(rs) : walk[k] = walk[k - 1] \o Outside(rs[k], b, e)
    BY <1>1, CutWalkIs
  <2>2. walk[1] = walk[1 - 1] \o Outside(rs[1], b, e)
    BY <1>2, <2>1
  <2> QED BY <1>1, <1>2, <2>1, <2>2
<1>4. Outside(Dummy, b, e) = <<Dummy>>
  BY <1>1 DEF Outside
<1>5. <<>> \o <<Dummy>> = <<Dummy>>
  <2>1. ASSUME NEW d \in Reg PROVE <<>> \o <<d>> = <<d>>
    OBVIOUS
  <2> QED BY <1>1, <2>1
<1>6. Cut(rs, b, e) = walk[1]
  BY <1>1 DEF Cut
<1> QED BY <1>3, <1>4, <1>5, <1>6

\* memblock_remove_range, once there is room.
LEMMA RemoveRangeIs ==
  ASSUME NEW t, Sound(t), NEW b \in Int, NEW e \in Int, 0 <= b, b <= e,
         NEW u, u = RemoveRange(t, b, e)
  PROVE  /\ Sound(u) /\ u.max = t.max /\ u.array = t.array
         /\ Len(u.regions) <= Len(t.regions) + 1
         /\ \A x \in Int : Has(u.regions, x) <=> Has(t.regions, x) /\ ~(b <= x /\ x < e)
<1> DEFINE rs == t.regions
           c == Cut(rs, b, e)
           n == IF c = <<>> THEN <<Dummy>> ELSE c
<1>0. /\ t \in Ty /\ Good(rs) /\ t.total_size = SizeOf(rs)
      /\ t.max \in Nat /\ t.array \in Nat /\ t.total_size \in Int
  BY DEF Sound, Ty
<1>1. /\ rs \in Seq(Reg) /\ Len(rs) \in Nat /\ 1 <= Len(rs)
      /\ rs # <<Dummy>> => Apart(rs, 1)
  BY <1>0, GoodOrdered
<1>2. CASE b = e
  <2>1. u = t
    BY <1>2 DEF RemoveRange
  <2>2. \A x \in Int : ~(b <= x /\ x < e)
    BY <1>2
  <2> QED BY <1>1, <2>1, <2>2
<1>3. CASE b # e
  <2>1. u = [t EXCEPT !.regions = n, !.total_size = t.total_size + SizeOf(c) - SizeOf(rs)]
    BY <1>3 DEF RemoveRange
  <2>2. b < e /\ c = Cut(rs, b, e)
    BY <1>3
  <2>3. /\ Good(n) /\ c \in Seq(Reg) /\ SizeOf(n) = SizeOf(c) /\ Len(n) <= Len(rs) + 1
        /\ \A x \in Int : Has(n, x) <=> Has(rs, x) /\ ~(b <= x /\ x < e)
    <3> HIDE DEF rs
    <3>1. CASE rs = <<Dummy>>
      <4>1. c = <<Dummy>>
        BY <2>2, <3>1, CutEmpty
      <4>2. n = <<Dummy>>
        BY <4>1
      <4>3. Good(<<Dummy>>)
        BY DummyIs DEF Good
      <4>4. c \in Seq(Reg) /\ SizeOf(n) = SizeOf(c)
        BY <4>1, <4>2, DummyIs
      <4>5. Len(n) <= Len(rs) + 1
        <5>1. Len(n) = 1 /\ Len(rs) = 1
          <6>1. Len(<<Dummy>>) = 1
            BY DummyIs
          <6> HIDE DEF n
          <6> QED BY <3>1, <4>2, <6>1, Zenon
        <5> HIDE DEF n, c
        <5> QED BY <5>1
      <4>6. \A x \in Int : Has(n, x) <=> Has(rs, x) /\ ~(b <= x /\ x < e)
        BY <3>1, <4>2, DummyIs
      <4> HIDE DEF n, c
      <4> QED BY <4>2, <4>3, <4>4, <4>5, <4>6
    <3>2. CASE rs # <<Dummy>>
      <4> HIDE DEF c
      <4>1. /\ c \in Seq(Reg) /\ Apart(c, 1) /\ Len(c) <= Len(rs) + 1
            /\ \A x \in Int : Has(c, x) <=> Has(rs, x) /\ ~(b <= x /\ x < e)
        BY <1>1, <2>2, <3>2, CutIs
      <4>2. CASE c = <<>>
        <5>1. n = <<Dummy>> /\ Len(c) = 0
          BY <4>2
        <5>2. \A x \in Int : ~Has(c, x)
          BY <5>1 DEF Has
        <5>3. SizeOf(c) = 0
          BY <4>1, <5>1, SizeTyped
        <5>4. Good(n) /\ SizeOf(n) = 0 /\ Len(n) = 1 /\ \A x \in Int : ~Has(n, x)
          BY <5>1, DummyIs DEF Good
        <5>5. Len(n) <= Len(rs) + 1
          BY <1>1, <5>4
        <5> QED BY <4>1, <5>2, <5>3, <5>4, <5>5
      <4>3. CASE c # <<>>
        <5>1. n = c
          BY <4>3
        <5>2. Len(c) >= 1
          BY <4>1, <4>3
        <5> QED BY <4>1, <5>1, <5>2 DEF Good
      <4> QED BY <4>2, <4>3
    <3> QED BY <3>1, <3>2
  <2> HIDE DEF n, c, rs
  <2>4. SizeOf(c) \in Int /\ SizeOf(rs) \in Int
    BY <1>1, <2>3, SizeTyped
  <2>5. t.total_size + SizeOf(c) - SizeOf(rs) = SizeOf(c)
    BY <1>0, <2>4
  <2>6. n \in Seq(Reg)
    BY <2>3 DEF Good
  <2>7. u \in Ty /\ u.regions = n /\ u.max = t.max /\ u.array = t.array /\ u.total_size = SizeOf(c)
    BY <1>0, <2>1, <2>4, <2>5, <2>6 DEF Ty
  <2>8. Sound(u)
    BY <2>3, <2>7 DEF Sound
  <2> QED BY <2>3, <2>7, <2>8 DEF rs
<1> QED BY <1>2, <1>3

-----------------------------------------------------------------------------
(***************************************************************************)
(* memblock_double_array, and the loop that makes room.                    *)
(***************************************************************************)
\* A remainder once round.
LEMMA Wraps ==
  ASSUME NEW z \in Nat, NEW a \in Nat \ {0}, z < a
  PROVE  (z + a) % a = z
OBVIOUS

\* The ALIGN of biscuitos.h is one below its argument, up to a page, and less above.
LEMMA AlignIs ==
  ASSUME NEW x \in Nat, NEW a \in Nat \ {0}, 0 < x
  PROVE  /\ ALIGN(x, a) \in Nat /\ ALIGN(x, a) <= x - 1
         /\ x <= a => ALIGN(x, a) = x - 1
<1>1. x + a - 1 \in Nat /\ x - 1 \in Nat /\ x + a - 1 = (x - 1) + a
  OBVIOUS
<1>2. ALIGN(x, a) \in 0 .. a - 1
  BY <1>1, Quotient DEF ALIGN
<1>3. ASSUME x <= a PROVE ALIGN(x, a) = x - 1
  <2>1. x - 1 < a
    BY <1>3
  <2>2. ((x - 1) + a) % a = x - 1
    BY <1>1, <2>1, Wraps
  <2> QED BY <1>1, <2>2 DEF ALIGN
<1> QED BY <1>2, <1>3

\* What is reserved for an array is less than its size, by one byte for an array
\* of at most a page.
LEMMA SizesTyped ==
  ASSUME NEW m \in Nat, 2 <= m
  PROVE  /\ m * RegionSize \in Nat /\ 2 <= m * RegionSize
         /\ ALIGN(m * RegionSize, PAGE_SIZE) \in Nat
         /\ ALIGN(m * RegionSize, PAGE_SIZE) <= m * RegionSize - 1
         /\ m * RegionSize <= PAGE_SIZE => ALIGN(m * RegionSize, PAGE_SIZE) = m * RegionSize - 1
<1> DEFINE x == m * RegionSize
<1>1. RegionSize \in Nat \ {0} /\ PAGE_SIZE \in Nat \ {0}
  BY ArrayAssumption, MemAssumption
<1>2. x \in Nat /\ 2 <= x
  BY <1>1
<1> HIDE DEF x
<1>3. /\ ALIGN(x, PAGE_SIZE) \in Nat /\ ALIGN(x, PAGE_SIZE) <= x - 1
      /\ x <= PAGE_SIZE => ALIGN(x, PAGE_SIZE) = x - 1
  BY <1>1, <1>2, AlignIs
<1> QED BY <1>2, <1>3 DEF x

\* x is reserved for the array.
InArr(t, x) == t.array # 0 /\ t.array <= x /\ x < t.array + ArraySize(t)

\* The type has what is owned and its array, and nothing twice.
Fits(t, own) ==
  /\ Sound(t) /\ 2 <= t.max /\ Len(t.regions) <= t.max
  /\ \A x \in Int : Has(t.regions, x) <=> x \in own \/ InArr(t, x)
  /\ \A x \in Int : ~(x \in own /\ InArr(t, x))

\* memblock_double_array.
LEMMA MoveArrayIs ==
  ASSUME NEW t, NEW own, Fits(t, own), NEW addr \in Nat, addr # 0,
         NEW need, need = ALIGN((2 * t.max) * RegionSize, PAGE_SIZE),
         \A x \in Int : addr <= x /\ x < addr + need => ~Has(t.regions, x),
         NEW u, u = MoveArray(t, addr)
  PROVE  /\ Fits(u, own) /\ u.max = 2 * t.max /\ Len(u.regions) <= Len(t.regions) + 2
         /\ u.max \in Nat /\ 4 <= u.max
         /\ \A x \in Int : InArr(u, x) => addr <= x /\ x < addr + need
<1> DEFINE moved == [t EXCEPT !.max = 2 * t.max, !.array = addr]
           freed == IF t.array = 0 THEN moved
                    ELSE RemoveRange(moved, t.array, t.array + ArraySize(t))
<1>0. /\ Sound(t) /\ 2 <= t.max /\ Len(t.regions) <= t.max /\ t \in Ty
      /\ t.max \in Nat /\ t.array \in Nat /\ Len(t.regions) \in Nat
      /\ \A x \in Int : Has(t.regions, x) <=> x \in own \/ InArr(t, x)
      /\ \A x \in Int : ~(x \in own /\ InArr(t, x))
  BY SeqTyped DEF Fits, Sound, Ty
<1>1. ArraySize(t) \in Nat
  BY <1>0, SizesTyped DEF ArraySize
<1>2. need \in Nat
  <2>1. 2 * t.max \in Nat /\ 2 <= 2 * t.max
    BY <1>0
  <2> QED BY <2>1, SizesTyped
<1>3. u = AddRange(freed, addr, addr + ArraySize(moved))
  BY DEF MoveArray
<1>4. /\ Sound(moved) /\ moved.max = 2 * t.max /\ moved.array = addr /\ moved.regions = t.regions
      /\ ArraySize(moved) = need
  <2>1. /\ moved \in Ty /\ moved.max = 2 * t.max /\ moved.array = addr
        /\ moved.regions = t.regions /\ moved.total_size = t.total_size
    <3>1. 2 * t.max \in Nat
      BY <1>0
    <3> QED BY <1>0, <3>1 DEF Ty
  <2> HIDE DEF moved
  <2> QED BY <1>0, <2>1 DEF Sound, ArraySize
<1>5. freed = IF t.array = 0 THEN moved ELSE RemoveRange(moved, t.array, t.array + ArraySize(t))
  OBVIOUS
<1> HIDE DEF moved, freed
<1>6. /\ Sound(freed) /\ freed.max = 2 * t.max /\ freed.array = addr
      /\ Len(freed.regions) <= Len(t.regions) + 1
      /\ \A x \in Int : Has(freed.regions, x) <=> x \in own
  <2>1. CASE t.array = 0
    <3>1. freed = moved
      BY <1>5, <2>1
    <3>2. \A x \in Int : ~InArr(t, x)
      BY <2>1 DEF InArr
    <3> QED BY <1>0, <1>4, <3>1, <3>2
  <2>2. CASE t.array # 0
    <3> DEFINE b == t.array
               e == t.array + ArraySize(t)
    <3>1. freed = RemoveRange(moved, b, e) /\ b \in Int /\ e \in Int /\ 0 <= b /\ b <= e
      BY <1>0, <1>1, <1>5, <2>2
    <3>2. \A x \in Int : InArr(t, x) <=> b <= x /\ x < e
      BY <2>2 DEF InArr
    <3> HIDE DEF b, e
    <3>3. /\ Sound(freed) /\ freed.max = moved.max /\ freed.array = moved.array
          /\ Len(freed.regions) <= Len(moved.regions) + 1
          /\ \A x \in Int : Has(freed.regions, x) <=> Has(moved.regions, x) /\ ~(b <= x /\ x < e)
      BY <1>4, <3>1, RemoveRangeIs
    <3> QED BY <1>0, <1>4, <3>2, <3>3
  <2> QED BY <2>1, <2>2
<1>7. \A x \in Int : addr <= x /\ x < addr + need => x \notin own
  BY <1>0
<1> DEFINE e == addr + need
<1>8. e \in Int /\ addr <= e /\ e = addr + need
  BY <1>2
<1> HIDE DEF e
<1>9. \A x \in addr .. e - 1 : x \in own <=> Has(freed.regions, x)
  BY <1>6, <1>8
<1>10. u = AddRange(freed, addr, e)
  BY <1>3, <1>4, <1>8
<1>11. /\ Sound(u) /\ u.max = freed.max /\ u.array = freed.array
       /\ Len(u.regions) <= Len(freed.regions) + Cardinality(Starts(own, addr, e))
       /\ \A x \in Int : Has(u.regions, x) <=> Has(freed.regions, x) \/ (addr <= x /\ x < e)
  <2>1. Sound(u) /\ Added(u, freed, addr, e, own)
    BY <1>6, <1>8, <1>9, <1>10, AddRangeIs
  <2> QED BY <2>1 DEF Added
<1>12. Cardinality(Starts(own, addr, e)) \in Nat /\ Cardinality(Starts(own, addr, e)) <= 1
  <2>1. CASE addr = e
    BY <1>8, <2>1, StartsNone
  <2>2. CASE addr < e
    <3>1. \A x \in addr .. e - 1 : x \notin own
      BY <1>7, <1>8
    <3> QED BY <1>8, <2>2, <3>1, StartsOne
  <2> QED BY <1>8, <2>1, <2>2
<1>13. Len(u.regions) \in Nat /\ Len(freed.regions) \in Nat
  BY <1>6, <1>11, SeqTyped DEF Sound, Ty
<1>14. Len(u.regions) <= Len(t.regions) + 2
  BY <1>0, <1>6, <1>11, <1>12, <1>13
<1>15. u.max = 2 * t.max /\ u.max \in Nat /\ 4 <= u.max /\ u.array = addr /\ Len(u.regions) <= u.max
  BY <1>0, <1>6, <1>11, <1>13, <1>14
<1>16. \A x \in Int : InArr(u, x) <=> addr <= x /\ x < e
  <2>1. ArraySize(u) = need
    BY <1>15 DEF ArraySize
  <2> QED BY <1>8, <1>15, <2>1 DEF InArr
<1>18. Fits(u, own)
  <2>1. \A x \in Int : Has(u.regions, x) <=> x \in own \/ InArr(u, x)
    BY <1>6, <1>11, <1>16
  <2>2. \A x \in Int : ~(x \in own /\ InArr(u, x))
    BY <1>7, <1>8, <1>16
  <2> QED BY <1>11, <1>15, <2>1, <2>2 DEF Fits
<1> QED BY <1>8, <1>14, <1>15, <1>16, <1>18

\* The place for the new array is free, and not in the range that is being reserved.
LEMMA FindForArrayIs ==
  ASSUME NEW rs \in Seq(Reg), Ordered(rs), NEW b \in Nat, NEW s \in Nat, NEW need \in Nat,
         Clear(b, s), NEW r, r = FindForArray(rs, b, s, need), r # 0
  PROVE  /\ r \in Nat
         /\ \A x \in Int : r <= x /\ x < r + need => ~Has(rs, x) /\ ~(b <= x /\ x < b + s)
<1>0. /\ PAGE_SIZE \in Nat \ {0} /\ Limit \in Nat /\ b + s \in Nat /\ MemBase \in Nat /\ 1 < Limit
      /\ b > 1 \/ b + s <= MemBase
  BY MemAssumption DEF Limit, Clear
<1> DEFINE m == Min({b, Limit})
           top == PumpUp(m)
<1>1. m \in Nat /\ m <= b /\ (m = b \/ m = Limit)
  BY <1>0, MinTwo
<1>2. \/ r = find_in_range(rs, b + s, Limit, need, PAGE_SIZE)
      \/ r = find_in_range(rs, 0, m, need, PAGE_SIZE)
  BY DEF FindForArray, OrElse
<1>a. top \in Nat /\ (top <= b \/ b + s <= MemBase)
  <2> HIDE DEF m
  <2>1. PumpUp(m) \in Nat /\ (1 < m => PumpUp(m) = m)
    BY <1>1, PumpUpIs
  <2> QED BY <1>0, <1>1, <2>1
<1> HIDE DEF m
<1>3. CASE r = find_in_range(rs, b + s, Limit, need, PAGE_SIZE)
  <2>1. /\ r \in Nat
        /\ 0 < need => b + s <= r /\ \A x \in Int : r <= x /\ x < r + need => ~Has(rs, x)
    BY <1>0, <1>3, FindIs
  <2>2. ASSUME NEW x \in Int, r <= x, x < r + need PROVE ~Has(rs, x) /\ ~(b <= x /\ x < b + s)
    <3>1. 0 < need
      BY <2>1, <2>2
    <3> QED BY <1>0, <2>1, <2>2, <3>1
  <2> QED BY <2>1, <2>2
<1>4. CASE r = find_in_range(rs, 0, m, need, PAGE_SIZE)
  <2>1. /\ r \in Nat
        /\ 0 < need => /\ r + need <= top /\ MemBase <= r
                       /\ \A x \in Int : r <= x /\ x < r + need => ~Has(rs, x)
    BY <1>0, <1>1, <1>4, FindIs
  <2>2. ASSUME NEW x \in Int, r <= x, x < r + need PROVE ~Has(rs, x) /\ ~(b <= x /\ x < b + s)
    <3>1. 0 < need
      BY <2>1, <2>2
    <3> HIDE DEF top
    <3> QED BY <1>0, <1>a, <2>1, <2>2, <3>1
  <2> QED BY <2>1, <2>2
<1> QED BY <1>2, <1>3, <1>4

\* What the loop that makes room for [b, e) may have made of a type.
Rooms(own, b, e) ==
  {w \in [ok : BOOLEAN, type : Ty] :
     Fits(w.type, own) /\ \A x \in Int : b <= x /\ x < e => ~InArr(w.type, x)}

\* The loop has room for more regions, or has made progress in its k rounds.
Progress(more, k, w) ==
  w.ok => \/ Len(w.type.regions) + more <= w.type.max
          \/ k = 0
          \/ 4 <= w.type.max /\ Len(w.type.regions) + 2 * (k - 1) <= w.type.max

\* The gain of the first doubling,
LEMMA DoublesFirst ==
  ASSUME NEW l \in Nat, NEW m \in Nat, NEW n \in Nat, l <= m, 2 <= m, n <= l + 2
  PROVE  n <= 2 * m
OBVIOUS

\* and of one more: the array has twice the room and at most two regions more.
LEMMA Doubles ==
  ASSUME NEW l \in Nat, NEW m \in Nat, NEW n \in Nat, NEW k \in Nat,
         4 <= m, l + 2 * (k - 1) <= m, n <= l + 2
  PROVE  n + 2 * ((k + 1) - 1) <= 2 * m
OBVIOUS

\* One round: the array stays what it was for its callers, away from the range,
\* and gets further.
LEMMA RoomStepIs ==
  ASSUME NEW own, NEW b \in Nat, NEW s \in Nat, Clear(b, s), NEW more \in Nat,
         NEW w \in Rooms(own, b, b + s), NEW v, v = RoomStep(more, b, s, w)
  PROVE  /\ v \in Rooms(own, b, b + s)
         /\ \A k \in Nat : Progress(more, k, w) => Progress(more, k + 1, v)
<1> DEFINE t == w.type
           need == ALIGN((2 * t.max) * RegionSize, PAGE_SIZE)
           addr == FindForArray(t.regions, b, s, need)
<1>0. /\ w \in [ok : BOOLEAN, type : Ty] /\ w.ok \in BOOLEAN /\ t \in Ty /\ Fits(t, own)
      /\ \A x \in Int : b <= x /\ x < b + s => ~InArr(t, x)
  BY DEF Rooms
<1>1. v = IF ~w.ok \/ Len(t.regions) + more <= t.max THEN w
          ELSE IF addr = 0 THEN [ok |-> FALSE, type |-> t]
          ELSE [ok |-> TRUE, type |-> MoveArray(t, addr)]
  BY DEF RoomStep, DoubleInto
<1>2. t.max \in Nat /\ Sound(t) /\ 2 <= t.max /\ Len(t.regions) <= t.max /\ Len(t.regions) \in Nat
  BY <1>0, SeqTyped DEF Fits, Ty
<1>3. need \in Nat
  <2>1. 2 * t.max \in Nat /\ 2 <= 2 * t.max
    BY <1>2
  <2> QED BY <2>1, SizesTyped
<1>4. CASE ~w.ok \/ Len(t.regions) + more <= t.max
  <2>1. v = w
    BY <1>1, <1>4
  <2>2. \A k \in Nat : Progress(more, k + 1, v)
    BY <1>4, <2>1 DEF Progress
  <2> QED BY <2>1, <2>2
<1>5. CASE ~(~w.ok \/ Len(t.regions) + more <= t.max) /\ addr = 0
  <2>1. v = [ok |-> FALSE, type |-> t]
    BY <1>1, <1>5
  <2> HIDE DEF t
  <2>2. v \in [ok : BOOLEAN, type : Ty] /\ v.type = t /\ v.ok = FALSE
    BY <1>0, <2>1
  <2>3. v \in Rooms(own, b, b + s)
    BY <1>0, <2>2 DEF Rooms
  <2> QED BY <2>2, <2>3 DEF Progress
<1>6. CASE ~(~w.ok \/ Len(t.regions) + more <= t.max) /\ addr # 0
  <2> DEFINE u == MoveArray(t, addr)
  <2>1. v = [ok |-> TRUE, type |-> u]
    BY <1>1, <1>6
  <2>2. t.regions \in Seq(Reg) /\ Ordered(t.regions)
    BY <1>2, GoodOrdered DEF Sound
  <2>3. u = MoveArray(t, addr) /\ need = ALIGN((2 * t.max) * RegionSize, PAGE_SIZE) /\ addr = FindForArray(t.regions, b, s, need)
    OBVIOUS
  <2> HIDE DEF t, u, need, addr
  <2>4. /\ addr \in Nat /\ addr # 0
        /\ \A x \in Int : addr <= x /\ x < addr + need => ~Has(t.regions, x) /\ ~(b <= x /\ x < b + s)
    BY <1>3, <1>6, <2>2, <2>3, FindForArrayIs
  <2>5. \A x \in Int : addr <= x /\ x < addr + need => ~Has(t.regions, x)
    BY <2>4
  <2>6. /\ Fits(u, own) /\ u.max = 2 * t.max /\ Len(u.regions) <= Len(t.regions) + 2
        /\ u.max \in Nat /\ 4 <= u.max
        /\ \A x \in Int : InArr(u, x) => addr <= x /\ x < addr + need
    BY <1>0, <2>3, <2>4, <2>5, MoveArrayIs
  <2>7. u \in Ty /\ Len(u.regions) \in Nat
    BY <2>6, SeqTyped DEF Fits, Sound, Ty
  <2>8. v \in [ok : BOOLEAN, type : Ty] /\ v.type = u /\ v.ok = TRUE
    BY <2>1, <2>7
  <2>9. \A x \in Int : b <= x /\ x < b + s => ~InArr(u, x)
    BY <2>4, <2>6
  <2>10. v \in Rooms(own, b, b + s)
    BY <2>6, <2>8, <2>9 DEF Rooms
  <2>11. ASSUME NEW k \in Nat, Progress(more, k, w) PROVE Progress(more, k + 1, v)
    <3>1. k = 0 \/ (4 <= t.max /\ Len(t.regions) + 2 * (k - 1) <= t.max)
      BY <1>6, <2>11 DEF Progress, t
    <3>2. Len(u.regions) + 2 * ((k + 1) - 1) <= u.max
      <4>1. CASE k = 0
        <5>1. Len(t.regions) \in Nat /\ t.max \in Nat /\ Len(t.regions) <= t.max /\ 2 <= t.max
          BY <1>2
        <5>2. Len(u.regions) <= 2 * t.max
          BY <2>6, <2>7, <5>1, DoublesFirst
        <5>3. Len(u.regions) + 2 * ((k + 1) - 1) = Len(u.regions)
          BY <2>7, <4>1
        <5>4. u.max = 2 * t.max
          BY <2>6
        <5> QED BY <5>2, <5>3, <5>4
      <4>2. CASE k # 0
        BY <1>2, <2>6, <2>7, <3>1, <4>2, Doubles
      <4> QED BY <4>1, <4>2
    <3> QED BY <2>6, <2>8, <3>2 DEF Progress
  <2> QED BY <2>10, <2>11
<1> QED BY <1>4, <1>5, <1>6

\* The loop of memblock_add_range that doubles the array until there is room.
LEMMA RoomWalkIs ==
  ASSUME NEW own, NEW b \in Nat, NEW s \in Nat, NEW more \in Nat, NEW t \in Ty, Fits(t, own),
         Clear(b, s), \A x \in Int : b <= x /\ x < b + s => ~InArr(t, x)
  PROVE  /\ RoomWalk(t, more, b, s)[0] = [ok |-> TRUE, type |-> t]
         /\ \A k \in 1 .. more + 1 : RoomWalk(t, more, b, s)[k] = RoomStep(more, b, s, RoomWalk(t, more, b, s)[k - 1])
         /\ \A k \in 0 .. more + 1 : RoomWalk(t, more, b, s)[k] \in Rooms(own, b, b + s)
<1> DEFINE n == more + 1
           S(k, x) == RoomStep(more, b, s, x)
           init == [ok |-> TRUE, type |-> t]
           step == [k \in 1 .. n |-> [x \in Rooms(own, b, b + s) |-> S(k, x)]]
           F(g) == [k \in 0 .. n |-> IF k = 0 THEN init ELSE S(k, g[k - 1])]
<1>0. n \in Nat /\ init \in Rooms(own, b, b + s)
  BY DEF Rooms
<1>1. ASSUME NEW k \in 1 .. n, NEW x \in Rooms(own, b, b + s) PROVE S(k, x) \in Rooms(own, b, b + s)
  BY RoomStepIs
<1>2. RoomWalk(t, more, b, s) = CHOOSE g : g = F(g)
  BY DEF RoomWalk
<1> DEFINE walk == RoomWalk(t, more, b, s)
<1>3. \A k \in 1 .. n : S(k, walk[k - 1]) = RoomStep(more, b, s, RoomWalk(t, more, b, s)[k - 1])
  OBVIOUS
<1> HIDE DEF S, n, init, walk
<1>4. step \in [1 .. n -> [Rooms(own, b, b + s) -> Rooms(own, b, b + s)]] /\ \A k \in 1 .. n, x \in Rooms(own, b, b + s) : step[k][x] = S(k, x)
  BY <1>1
<1> HIDE DEF step
<1>5. PICK f \in [0 .. n -> Rooms(own, b, b + s)] : Takes(f, n, init, step)
  BY <1>0, <1>4, Recursion
<1>6. f = F(f)
  <2>1. ASSUME NEW k \in 0 .. n PROVE f[k] = IF k = 0 THEN init ELSE S(k, f[k - 1])
    <3>1. CASE k = 0
      BY <1>5, <3>1 DEF Takes
    <3>2. CASE k # 0
      <4>1. k \in 1 .. n /\ f[k - 1] \in Rooms(own, b, b + s)
        BY <1>0, <3>2
      <4> QED BY <1>4, <1>5, <3>2, <4>1 DEF Takes
    <3> QED BY <3>1, <3>2
  <2> QED BY <2>1
<1> HIDE DEF F
<1>7. walk = F(walk)
  BY <1>2, <1>6 DEF walk
<1>8. walk[0] = init /\ \A k \in 1 .. n : walk[k] = S(k, walk[k - 1])
  <2>1. 0 \in 0 .. n /\ \A k \in 1 .. n : k \in 0 .. n /\ k # 0
    BY <1>0
  <2> QED BY <1>7, <2>1 DEF F
<1>9. \A k \in 1 .. n : walk[k - 1] \in Rooms(own, b, b + s) => walk[k] \in Rooms(own, b, b + s)
  BY <1>1, <1>8
<1>10. \A k \in 0 .. n : walk[k] \in Rooms(own, b, b + s)
  BY <1>0, <1>8, <1>9, Along
<1> QED BY <1>3, <1>8, <1>10 DEF walk, init, n

\* r is what the loop makes of t: with success there is room for so many more.
Made(r, t, own, b, s, more) ==
  /\ r \in Rooms(own, b, b + s)
  /\ r.ok => Len(r.type.regions) + more <= r.type.max
  /\ more = 0 => r.type = t

\* When the loop ends with success there is room, whatever it had to move; and it has
\* ended after its last round.
LEMMA MakeRoomIs ==
  ASSUME NEW own, NEW b \in Nat, NEW s \in Nat, NEW more \in Nat, NEW t \in Ty, Fits(t, own),
         Clear(b, s), \A x \in Int : b <= x /\ x < b + s => ~InArr(t, x),
         NEW r, r = MakeRoom(t, more, b, s)
  PROVE  Made(r, t, own, b, s, more)
<1> DEFINE walk == RoomWalk(t, more, b, s)
           n == more + 1
           P == {k \in 0 .. n : Progress(more, k, walk[k])}
<1>1. /\ walk[0] = [ok |-> TRUE, type |-> t]
      /\ \A k \in 1 .. n : walk[k] = RoomStep(more, b, s, walk[k - 1])
      /\ \A k \in 0 .. n : walk[k] \in Rooms(own, b, b + s)
  BY RoomWalkIs
<1>2. r = walk[n] /\ n \in 0 .. n /\ n \in Nat /\ 1 \in 1 .. n
  BY DEF MakeRoom
<1> HIDE DEF walk
<1>3. 0 \in P
  BY DEF Progress
<1>4. ASSUME NEW k \in 0 .. n - 1, k \in P PROVE k + 1 \in P
  <2>1. k \in Nat /\ k + 1 \in 1 .. n /\ (k + 1) - 1 = k /\ k \in 0 .. n /\ k + 1 \in 0 .. n
    BY <1>2
  <2>2. walk[k] \in Rooms(own, b, b + s) /\ walk[k + 1] = RoomStep(more, b, s, walk[k])
    BY <1>1, <2>1
  <2>3. Progress(more, k, walk[k])
    BY <1>4
  <2>4. Progress(more, k + 1, walk[k + 1])
    BY <2>1, <2>2, <2>3, RoomStepIs
  <2> QED BY <2>1, <2>4
<1>5. n \in P
  <2> HIDE DEF P
  <2>1. 0 .. n \subseteq P
    BY <1>2, <1>3, <1>4, Upwards
  <2> QED BY <1>2, <2>1
<1>6. r \in Rooms(own, b, b + s) /\ Progress(more, n, r)
  BY <1>1, <1>2, <1>5
<1>7. r.ok => Len(r.type.regions) + more <= r.type.max
  <2>1. Len(r.type.regions) \in Nat /\ r.type.max \in Nat
    BY <1>6, SeqTyped DEF Rooms, Ty
  <2>2. \A l, m \in Nat : l + 2 * (n - 1) <= m => l + more <= m
    OBVIOUS
  <2>3. n # 0
    OBVIOUS
  <2> QED BY <1>6, <2>1, <2>2, <2>3 DEF Progress
<1>8. ASSUME more = 0 PROVE r.type = t
  <2>1. n = 1 /\ r = walk[1] /\ 1 - 1 = 0
    BY <1>2, <1>8
  <2>2. walk[1] = RoomStep(more, b, s, walk[0])
    BY <1>1, <1>2, <2>1
  <2>3. walk[0].type = t /\ Len(t.regions) + more <= t.max
    <3>1. Len(t.regions) <= t.max /\ Len(t.regions) \in Nat /\ t.max \in Nat
      BY SeqTyped DEF Fits, Ty
    <3> QED BY <1>1, <1>8, <3>1
  <2>4. r = walk[0]
    BY <2>1, <2>2, <2>3 DEF RoomStep, DoubleInto
  <2> QED BY <2>3, <2>4
<1> QED BY <1>6, <1>7, <1>8 DEF Made

\* The missing parts of the range are counted.
Counts(t, own, b, e) ==
  /\ NrNew(t, b, e) \in Nat
  /\ t.regions = <<Dummy>> => NrNew(t, b, e) = 0
  /\ t.regions # <<Dummy>> => /\ NrNew(t, b, e) = Cardinality(Starts(own, b, e))
                              /\ Len(Inserted(t.regions, b, e)) =
                                   Len(t.regions) + Cardinality(Starts(own, b, e))
  /\ \A x \in b .. e - 1 : x \in own <=> Has(t.regions, x)

\* The first pass of memblock_add_range.
LEMMA NrNewIs ==
  ASSUME NEW own, NEW t, Fits(t, own), NEW b \in Nat, NEW e \in Nat, b <= e,
         \A x \in Int : b <= x /\ x < e => ~InArr(t, x)
  PROVE  Counts(t, own, b, e)
<1> DEFINE rs == t.regions
           i == Inserted(rs, b, e)
<1>0. Good(rs) /\ \A x \in Int : Has(rs, x) <=> x \in own \/ InArr(t, x)
  BY DEF Fits, Sound
<1>1. /\ rs \in Seq(Reg) /\ Len(rs) \in Nat /\ (rs[1].size = 0 <=> rs = <<Dummy>>)
      /\ rs # <<Dummy>> => Apart(rs, 1)
  BY <1>0, GoodOrdered
<1>2. \A x \in b .. e - 1 : x \in own <=> Has(rs, x)
  BY <1>0
<1>3. Cardinality(Starts(own, b, e)) \in Nat
  BY StartsFinite
<1>4. NrNew(t, b, e) = IF rs[1].size = 0 THEN 0 ELSE Len(i) - Len(rs)
  BY DEF NrNew
<1>5. i = Inserted(rs, b, e)
  OBVIOUS
<1> HIDE DEF rs, i
<1>6. CASE rs = <<Dummy>>
  <2>1. NrNew(t, b, e) = 0
    BY <1>1, <1>4, <1>6
  <2> QED BY <1>2, <1>6, <2>1 DEF rs, Counts
<1>7. CASE rs # <<Dummy>>
  <2>1. Apart(rs, 1)
    BY <1>1, <1>7
  <2>2. b \in Int /\ e \in Int /\ 0 <= b
    OBVIOUS
  <2>3. Filled(i, rs, b, e, own)
    BY <1>1, <1>2, <1>5, <2>1, <2>2, InsertedIs
  <2>4. Len(i) = Len(rs) + Cardinality(Starts(own, b, e))
    BY <2>3 DEF Filled
  <2>5. NrNew(t, b, e) = Cardinality(Starts(own, b, e))
    BY <1>1, <1>3, <1>4, <1>7, <2>4
  <2> QED BY <1>2, <1>3, <1>7, <2>4, <2>5 DEF rs, i, Counts
<1> QED BY <1>6, <1>7

\* What the second pass inserts fits, and so does what is left when it is merged.
LEMMA RoomCounts ==
  ASSUME NEW own, NEW t, Fits(t, own), NEW b \in Nat, NEW s \in Nat, Clear(b, s),
         \A x \in Int : b <= x /\ x < b + s => ~InArr(t, x),
         NEW r, r = MakeRoom(t, NrNew(t, b, b + s), b, s)
  PROVE  /\ r \in Rooms(own, b, b + s)
         /\ r.ok => /\ Len(Inserted(r.type.regions, b, b + s)) <= r.type.max
                    /\ Len(AddRange(r.type, b, b + s).regions) <= r.type.max
<1> DEFINE e == b + s
           more == NrNew(t, b, e)
           q == r.type
           u == AddRange(q, b, e)
<1>0. e \in Nat /\ b <= e /\ e = b + s /\ t \in Ty
  BY DEF Fits, Sound
<1>b. \A x \in Int : b <= x /\ x < e => ~InArr(t, x)
  OBVIOUS
<1> HIDE DEF e
<1>c. Counts(t, own, b, e)
  BY <1>0, <1>b, NrNewIs
<1>1. /\ more \in Nat
      /\ t.regions = <<Dummy>> => more = 0
      /\ t.regions # <<Dummy>> => more = Cardinality(Starts(own, b, e))
  BY <1>c DEF Counts
<1>a. r = MakeRoom(t, more, b, s) /\ u = AddRange(q, b, e)
  BY DEF e
<1> HIDE DEF more, u
<1>2. /\ r \in Rooms(own, b, e) /\ (more = 0 => q = t)
      /\ r.ok => Len(q.regions) + more <= q.max
  <2>1. \A x \in Int : b <= x /\ x < b + s => ~InArr(t, x)
    OBVIOUS
  <2>2. Made(r, t, own, b, s, more)
    <3>1. more \in Nat /\ t \in Ty /\ r = MakeRoom(t, more, b, s)
      BY <1>0, <1>1, <1>a
    <3> QED BY <2>1, <3>1, MakeRoomIs
  <2> QED BY <1>0, <2>2 DEF Made
<1>3. Fits(q, own) /\ q \in Ty /\ \A x \in Int : b <= x /\ x < e => ~InArr(q, x)
  BY <1>2 DEF Rooms
<1>4. Sound(q) /\ 2 <= q.max /\ q.max \in Nat /\ Len(q.regions) \in Nat
  BY <1>3, SeqTyped DEF Fits, Ty
<1> HIDE DEF q, e
<1>5. /\ q.regions # <<Dummy>> => Len(Inserted(q.regions, b, e)) =
                                    Len(q.regions) + Cardinality(Starts(own, b, e))
      /\ \A x \in b .. e - 1 : x \in own <=> Has(q.regions, x)
  <2>1. Counts(q, own, b, e)
    BY <1>0, <1>3, NrNewIs
  <2> QED BY <2>1 DEF Counts
<1>6. b \in Int /\ e \in Int /\ 0 <= b
  BY <1>0
<1>7. Added(u, q, b, e, own) /\ Sound(u)
  BY <1>0, <1>4, <1>5, <1>6, <1>a, AddRangeIs
<1>8. /\ Len(u.regions) <= Len(q.regions) + Cardinality(Starts(own, b, e))
      /\ q.regions = <<Dummy>> => Len(u.regions) <= 1
      /\ Len(u.regions) \in Nat
  BY <1>7, SeqTyped DEF Added, Sound, Ty
<1>9. Cardinality(Starts(own, b, e)) \in Nat
  BY <1>6, StartsFinite
<1>10. ASSUME r.ok PROVE Len(Inserted(q.regions, b, e)) <= q.max /\ Len(u.regions) <= q.max
  <2>1. CASE q.regions = <<Dummy>>
    <3>1. Len(Inserted(<<Dummy>>, b, e)) <= 2
      BY <1>6, InsertedEmpty
    <3>2. <<Dummy>> \in Seq(Reg)
      BY DummyIs
    <3>3. Len(Inserted(q.regions, b, e)) <= 2
      BY <2>1, <3>1, Zenon
    <3>4. Len(Inserted(q.regions, b, e)) \in Int
      <4>1. Inserted(<<Dummy>>, b, e) \in Seq(Reg)
        BY <1>6, InsertedEmpty
      <4>2. Inserted(q.regions, b, e) \in Seq(Reg)
        BY <2>1, <4>1, Zenon
      <4> QED BY <4>2, SeqTyped
    <3> QED BY <1>4, <1>8, <2>1, <3>3, <3>4
  <2>2. CASE q.regions # <<Dummy>>
    <3>1. t.regions # <<Dummy>>
      BY <1>1, <1>2, <2>2
    <3>2. more = Cardinality(Starts(own, b, e)) /\ Len(q.regions) + more <= q.max
      BY <1>1, <1>2, <1>10, <3>1
    <3> QED BY <1>4, <1>5, <1>8, <1>9, <2>2, <3>2
  <2> QED BY <2>1, <2>2
<1> QED BY <1>2, <1>10, <1>a DEF q, u, e

-----------------------------------------------------------------------------
(***************************************************************************)
(* memblock_reserve and memblock_free; the inductive invariant.            *)
(***************************************************************************)
\* memblock_cap_size keeps the range below PHYS_ADDR_MAX, and a range that fits
\* as it is.
LEMMA CapIs ==
  ASSUME NEW b \in 0 .. PHYS_ADDR_MAX, NEW size \in Nat, NEW s, s = memblock_cap_size(b, size)
  PROVE  s \in Nat /\ b \in Nat /\ b + s <= PHYS_ADDR_MAX /\ (b + size <= PHYS_ADDR_MAX => s = size)
<1>1. PHYS_ADDR_MAX \in Nat /\ b \in Nat /\ PHYS_ADDR_MAX - b \in Nat
  BY MemAssumption
<1>2. s = IF size <= PHYS_ADDR_MAX - b THEN size ELSE PHYS_ADDR_MAX - b
  BY <1>1, MinTwo DEF memblock_cap_size
<1> QED BY <1>1, <1>2

\* memblock_reserve.
LEMMA PlusIs ==
  ASSUME NEW own, Fits(reserved, own), NEW b \in 0 .. PHYS_ADDR_MAX, NEW size \in Nat,
         NEW s, s = memblock_cap_size(b, size), Clear(b, s),
         \A x \in Int : b <= x /\ x < b + s => ~InArr(reserved, x),
         NEW d, d = ReservedPlus(b, size)
  PROVE  IF d.ok THEN Fits(d.type, own \cup (b .. b + s - 1)) ELSE Fits(d.type, own)
<1> DEFINE r == MakeRoom(reserved, NrNew(reserved, b, b + s), b, s)
           q == r.type
           e == b + s
           u == AddRange(q, b, e)
<1>1. s \in Nat /\ b \in Nat
  BY CapIs
<1>2. d = IF r.ok THEN [r EXCEPT !.type = u] ELSE r
  BY DEF ReservedPlus
<1>3. r = MakeRoom(reserved, NrNew(reserved, b, b + s), b, s) /\ u = AddRange(q, b, b + s)
  OBVIOUS
<1>e. e = b + s
  OBVIOUS
<1> HIDE DEF r, u, e
<1>4. /\ r \in Rooms(own, b, b + s)
      /\ r.ok => Len(u.regions) <= q.max
  <2>1. /\ r \in Rooms(own, b, b + s)
        /\ r.ok => Len(AddRange(r.type, b, b + s).regions) <= r.type.max
    BY <1>1, <1>3, RoomCounts
  <2> QED BY <1>3, <2>1
<1>5. /\ r \in [ok : BOOLEAN, type : Ty] /\ Fits(q, own) /\ q \in Ty
      /\ \A x \in Int : b <= x /\ x < b + s => ~InArr(q, x)
  BY <1>4 DEF Rooms
<1> HIDE DEF q
<1>6. CASE ~r.ok
  <2>1. d = r
    BY <1>2, <1>6
  <2> QED BY <1>5, <1>6, <2>1 DEF q
<1>7. CASE r.ok
  <2>1. d.ok /\ d.type = u
    <3>1. d = [r EXCEPT !.type = u]
      BY <1>2, <1>7
    <3> QED BY <1>5, <1>7, <3>1
  <2> DEFINE own2 == own \cup (b .. b + s - 1)
  <2>2. Sound(u) /\ Added(u, q, b, e, own)
    <3>1. Sound(q) /\ b \in Int /\ e \in Int /\ 0 <= b /\ b <= e
      BY <1>1, <1>5, <1>e DEF Fits
    <3>2. \A x \in b .. e - 1 : x \in own <=> Has(q.regions, x)
      BY <1>1, <1>5, <1>e DEF Fits
    <3>3. u = AddRange(q, b, e)
      BY <1>3, <1>e
    <3> QED BY <3>1, <3>2, <3>3, AddRangeIs
  <2>3. u.max = q.max /\ u.array = q.array /\ ArraySize(u) = ArraySize(q)
    BY <2>2 DEF Added, ArraySize
  <2>4. \A x \in Int : InArr(u, x) <=> InArr(q, x)
    BY <2>3 DEF InArr
  <2>5. \A x \in Int : x \in own2 <=> x \in own \/ (b <= x /\ x < b + s)
    BY <1>1
  <2> HIDE DEF own2
  <2>6. \A x \in Int : Has(u.regions, x) <=> Has(q.regions, x) \/ (b <= x /\ x < b + s)
    BY <1>e, <2>2 DEF Added
  <2>7. /\ 2 <= q.max /\ (\A x \in Int : Has(q.regions, x) <=> x \in own \/ InArr(q, x))
        /\ (\A x \in Int : ~(x \in own /\ InArr(q, x)))
    BY <1>5 DEF Fits
  <2>8. \A x \in Int : Has(u.regions, x) <=> x \in own2 \/ InArr(u, x)
    BY <2>4, <2>5, <2>6, <2>7
  <2>9. \A x \in Int : ~(x \in own2 /\ InArr(u, x))
    BY <1>5, <2>4, <2>5, <2>7
  <2>10. Fits(u, own2)
    BY <1>4, <1>7, <2>2, <2>3, <2>7, <2>8, <2>9 DEF Fits
  <2> QED BY <2>1, <2>10 DEF own2
<1> QED BY <1>6, <1>7

\* memblock_free.
LEMMA MinusIs ==
  ASSUME NEW own, Fits(reserved, own), NEW b \in 0 .. PHYS_ADDR_MAX, NEW size \in Nat,
         NEW s, s = memblock_cap_size(b, size), Clear(b, s),
         \A x \in Int : b <= x /\ x < b + s => x \in own,
         NEW d, d = ReservedMinus(b, size)
  PROVE  IF d.ok THEN Fits(d.type, own \ (b .. b + s - 1)) ELSE Fits(d.type, own)
<1> DEFINE more == IF s = 0 THEN 0 ELSE 2
           r == MakeRoom(reserved, more, b, s)
           q == r.type
           e == b + s
           u == RemoveRange(q, b, e)
<1>1. s \in Nat /\ b \in Nat /\ more \in Nat /\ e \in Nat
  BY CapIs
<1>2. d = IF r.ok THEN [r EXCEPT !.type = u] ELSE r
  BY DEF ReservedMinus
<1>3. r = MakeRoom(reserved, more, b, s) /\ u = RemoveRange(q, b, e) /\ e = b + s
  OBVIOUS
<1>a. more = IF s = 0 THEN 0 ELSE 2
  OBVIOUS
<1>b. reserved \in Ty /\ \A x \in Int : b <= x /\ x < b + s => ~InArr(reserved, x)
  BY DEF Fits, Sound
<1> HIDE DEF more, r, u, e
<1>4. Made(r, reserved, own, b, s, more)
  BY <1>1, <1>3, <1>b, MakeRoomIs
<1>5. /\ r \in [ok : BOOLEAN, type : Ty] /\ Fits(q, own) /\ q \in Ty
      /\ r.ok => Len(q.regions) + more <= q.max
  BY <1>4 DEF Made, Rooms
<1> HIDE DEF q
<1>6. CASE ~r.ok
  <2>1. d = r
    BY <1>2, <1>6
  <2> QED BY <1>5, <1>6, <2>1 DEF q
<1>7. CASE r.ok
  <2>1. d.ok /\ d.type = u
    <3>1. d = [r EXCEPT !.type = u]
      BY <1>2, <1>7
    <3> QED BY <1>5, <1>7, <3>1
  <2>2. /\ Sound(u) /\ u.max = q.max /\ u.array = q.array
        /\ Len(u.regions) <= Len(q.regions) + 1
        /\ \A x \in Int : Has(u.regions, x) <=> Has(q.regions, x) /\ ~(b <= x /\ x < e)
    <3>1. Sound(q) /\ b \in Int /\ e \in Int /\ 0 <= b /\ b <= e
      BY <1>1, <1>3, <1>5 DEF Fits
    <3>2. u = RemoveRange(q, b, e)
      BY <1>3
    <3> QED BY <3>1, <3>2, RemoveRangeIs
  <2>3. Len(u.regions) <= u.max
    <3>1. Len(q.regions) \in Nat /\ Len(u.regions) \in Nat /\ q.max \in Nat /\ Len(q.regions) <= q.max
      BY <1>5, <2>2, SeqTyped DEF Fits, Sound, Ty
    <3>2. CASE s = 0
      <4>1. u = q
        BY <1>1, <1>3, <3>2 DEF RemoveRange
      <4> QED BY <3>1, <4>1
    <3>3. CASE s # 0
      BY <1>5, <1>7, <1>a, <2>2, <3>1, <3>3
    <3> QED BY <3>2, <3>3
  <2>4. \A x \in Int : InArr(u, x) <=> InArr(q, x)
    <3>1. ArraySize(u) = ArraySize(q)
      BY <2>2 DEF ArraySize
    <3> QED BY <2>2, <3>1 DEF InArr
  <2> DEFINE own2 == own \ (b .. b + s - 1)
  <2>5. \A x \in Int : x \in own2 <=> x \in own /\ ~(b <= x /\ x < e)
    BY <1>1, <1>3
  <2> HIDE DEF own2
  <2>6. /\ 2 <= q.max /\ (\A x \in Int : Has(q.regions, x) <=> x \in own \/ InArr(q, x))
        /\ (\A x \in Int : ~(x \in own /\ InArr(q, x)))
    BY <1>5 DEF Fits
  <2>7. \A x \in Int : b <= x /\ x < e => x \in own
    BY <1>3
  <2>8. \A x \in Int : Has(u.regions, x) <=> x \in own2 \/ InArr(u, x)
    BY <2>2, <2>4, <2>5, <2>6, <2>7
  <2>9. \A x \in Int : ~(x \in own2 /\ InArr(u, x))
    BY <2>4, <2>5, <2>6
  <2>10. Fits(u, own2)
    BY <2>2, <2>3, <2>6, <2>8, <2>9 DEF Fits
  <2> QED BY <2>1, <2>10 DEF own2
<1> QED BY <1>6, <1>7

\* The inductive invariant.
IInv ==
  /\ Fits(reserved, owned)
  /\ owned \subseteq 0 .. PHYS_ADDR_MAX - 1

\* The invariant holds at the start, with the static array.
LEMMA InitInv == Init => IInv
<1> SUFFICES ASSUME Init PROVE IInv
  OBVIOUS
<1> DEFINE t == [regions |-> <<Dummy>>, max |-> INIT_MEMBLOCK_REGIONS, total_size |-> 0, array |-> 0]
<1>1. reserved = t /\ owned = {}
  BY DEF Init
<1> DEFINE d == <<Dummy>>
<1>2. /\ d \in Seq(Reg) /\ Len(d) = 1 /\ SizeOf(d) = 0 /\ Good(d) /\ \A x \in Int : ~Has(d, x)
  BY DummyIs DEF Good
<1> HIDE DEF d
<1>3. t \in Ty /\ t.regions = d /\ t.max = INIT_MEMBLOCK_REGIONS /\ t.total_size = 0 /\ t.array = 0
  <2>1. t = [regions |-> d, max |-> INIT_MEMBLOCK_REGIONS, total_size |-> 0, array |-> 0]
    BY DEF d
  <2> HIDE DEF t
  <2> QED BY <1>2, <2>1, ArrayAssumption DEF Ty
<1> HIDE DEF t
<1>4. \A x \in Int : ~InArr(t, x)
  BY <1>3 DEF InArr
<1>5. Sound(t)
  BY <1>2, <1>3 DEF Sound
<1>6. 2 <= t.max /\ Len(t.regions) <= t.max /\ t.array = 0
  <2>1. 2 <= INIT_MEMBLOCK_REGIONS /\ 1 <= INIT_MEMBLOCK_REGIONS
    BY ArrayAssumption
  <2>2. Len(t.regions) = 1
    BY <1>2, <1>3
  <2> QED BY <1>3, <2>1, <2>2
<1>7. \A x \in Int : ~Has(t.regions, x)
  BY <1>2, <1>3
<1>8. Fits(t, {})
  BY <1>4, <1>5, <1>6, <1>7 DEF Fits
<1> QED BY <1>1, <1>8 DEF IInv

\* A range that callers leave to the array.
LEMMA ReserveKeeps ==
  ASSUME IInv, NEW b \in Bases, NEW size \in Sizes, memblock_reserve(b, size)
  PROVE  IInv'
<1> DEFINE s == memblock_cap_size(b, size)
           d == ReservedPlus(b, size)
<1>0. b \in 0 .. PHYS_ADDR_MAX /\ size \in Nat /\ PHYS_ADDR_MAX \in Nat
  BY RequestAssumption, MemAssumption
<1>1. s \in Nat /\ b \in Nat /\ b + s <= PHYS_ADDR_MAX
  BY <1>0, CapIs
<1>2. /\ (b .. b + s - 1) \cap ArrayCells = {}
      /\ reserved' = d.type
      /\ owned' = IF d.ok THEN owned \cup (b .. b + s - 1) ELSE owned
  BY DEF memblock_reserve
<1>3. Fits(reserved, owned) /\ owned \subseteq 0 .. PHYS_ADDR_MAX - 1
  BY DEF IInv
<1>4. s = memblock_cap_size(b, size) /\ d = ReservedPlus(b, size)
  OBVIOUS
<1>c. Clear(b, s)
  BY LowAssumption
<1> HIDE DEF s, d
<1>5. \A x \in Int : b <= x /\ x < b + s => ~InArr(reserved, x)
  <2> SUFFICES ASSUME NEW x \in Int, b <= x, x < b + s, InArr(reserved, x) PROVE FALSE
    OBVIOUS
  <2>1. reserved.max \in Nat /\ 2 <= reserved.max /\ reserved.array \in Nat
    BY <1>3 DEF Fits, Sound, Ty
  <2>2. /\ reserved.max * RegionSize \in Nat /\ ArraySize(reserved) \in Nat
        /\ ArraySize(reserved) <= reserved.max * RegionSize - 1
    BY <2>1, SizesTyped DEF ArraySize
  <2>3. x \in ArrayCells
    <3>1. ArrayCells = reserved.array .. reserved.array + reserved.max * RegionSize - 1
      BY DEF ArrayCells, InArr
    <3> DEFINE z == reserved.max * RegionSize
    <3>2. x < reserved.array + ArraySize(reserved) /\ reserved.array <= x
      BY DEF InArr
    <3> QED BY <2>1, <2>2, <3>1, <3>2
  <2>4. x \in b .. b + s - 1
    BY <1>1
  <2> QED BY <1>2, <2>3, <2>4
<1>6. IF d.ok THEN Fits(d.type, owned \cup (b .. b + s - 1)) ELSE Fits(d.type, owned)
  BY <1>0, <1>3, <1>4, <1>5, <1>c, PlusIs
<1>7. Fits(reserved', owned')
  BY <1>2, <1>6
<1>8. owned' \subseteq 0 .. PHYS_ADDR_MAX - 1
  BY <1>0, <1>1, <1>2, <1>3
<1> QED BY <1>7, <1>8 DEF IInv

\* memblock_free of memory that callers own.
LEMMA FreeKeeps ==
  ASSUME IInv, NEW b \in Bases, NEW size \in Sizes, memblock_free(b, size)
  PROVE  IInv'
<1> DEFINE s == memblock_cap_size(b, size)
           d == ReservedMinus(b, size)
<1>0. b \in 0 .. PHYS_ADDR_MAX /\ b \in Nat /\ size \in Nat /\ 0 < size /\ PHYS_ADDR_MAX \in Nat
  BY RequestAssumption, MemAssumption
<1>1. /\ (b .. b + size - 1) \subseteq owned
      /\ reserved' = d.type
      /\ owned' = IF d.ok THEN owned \ (b .. b + size - 1) ELSE owned
  BY DEF memblock_free
<1>2. Fits(reserved, owned) /\ owned \subseteq 0 .. PHYS_ADDR_MAX - 1
  BY DEF IInv
<1>3. b + size <= PHYS_ADDR_MAX
  <2>1. b + size - 1 \in b .. b + size - 1
    BY <1>0
  <2>2. b + size - 1 \in 0 .. PHYS_ADDR_MAX - 1
    BY <1>1, <1>2, <2>1
  <2> QED BY <1>0, <2>2
<1>4. s = size
  BY <1>0, <1>3, CapIs
<1>5. s = memblock_cap_size(b, size) /\ d = ReservedMinus(b, size)
  OBVIOUS
<1>c. Clear(b, s)
  BY LowAssumption
<1> HIDE DEF s, d
<1>6. \A x \in Int : b <= x /\ x < b + s => x \in owned
  BY <1>0, <1>1, <1>4
<1>7. IF d.ok THEN Fits(d.type, owned \ (b .. b + s - 1)) ELSE Fits(d.type, owned)
  BY <1>0, <1>2, <1>5, <1>6, <1>c, MinusIs
<1>8. Fits(reserved', owned')
  BY <1>1, <1>4, <1>7
<1>9. owned' \subseteq 0 .. PHYS_ADDR_MAX - 1
  BY <1>1, <1>2
<1> QED BY <1>8, <1>9 DEF IInv

\* What a search over the whole memory finds for a caller.
LEMMA FoundIs ==
  ASSUME IInv, NEW size \in Sizes, NEW align \in Aligns,
         NEW f, f = find_in_range(reserved.regions, 0, MEMBLOCK_ALLOC_ACCESSIBLE, size, align), f # 0
  PROVE  /\ f \in Nat /\ f % align = 0 /\ MemBase <= f /\ f + size <= Limit
         /\ f \in 0 .. PHYS_ADDR_MAX /\ f + size <= PHYS_ADDR_MAX
         /\ \A x \in Int : f <= x /\ x < f + size => ~Has(reserved.regions, x)
<1>0. size \in Nat /\ 0 < size /\ align \in Nat \ {0}
  BY RequestAssumption
<1>1. Limit \in Nat /\ 0 \in Nat /\ PHYS_ADDR_MAX \in Nat /\ Limit <= PHYS_ADDR_MAX /\ MemBase \in Nat
  BY MemAssumption DEF Limit
<1>2. reserved.regions \in Seq(Reg) /\ Ordered(reserved.regions)
  BY GoodOrdered DEF IInv, Fits, Sound
<1>3. ASSUME NEW z \in Nat, z = 0
      PROVE  /\ f \in Nat /\ f % align = 0
             /\ 0 < size => /\ MemBase <= f /\ f + size <= Limit
                            /\ \A x \in Int : f <= x /\ x < f + size => ~Has(reserved.regions, x)
  <2>1. f = find_in_range(reserved.regions, z, MEMBLOCK_ALLOC_ACCESSIBLE, size, align)
    BY <1>3
  <2>2. MEMBLOCK_ALLOC_ACCESSIBLE \in Nat
    BY <1>1, PumpUpIs
  <2> QED BY <1>0, <1>1, <1>2, <2>1, <2>2, FindIs
<1>4. /\ f \in Nat /\ f % align = 0 /\ MemBase <= f /\ f + size <= Limit
      /\ \A x \in Int : f <= x /\ x < f + size => ~Has(reserved.regions, x)
  BY <1>0, <1>3
<1> QED BY <1>0, <1>1, <1>4

\* memblock_alloc in either direction.
LEMMA AllocKeeps ==
  ASSUME IInv, NEW size \in Sizes, NEW align \in Aligns, memblock_alloc(size, align)
  PROVE  IInv'
<1> DEFINE f == find_in_range(reserved.regions, 0, MEMBLOCK_ALLOC_ACCESSIBLE, size, align)
           s == memblock_cap_size(f, size)
           d == ReservedPlus(f, size)
<1>0. size \in Nat /\ 0 < size /\ PHYS_ADDR_MAX \in Nat
  BY RequestAssumption, MemAssumption
<1>1. /\ f # 0 /\ reserved' = d.type
      /\ owned' = IF d.ok THEN owned \cup (f .. f + size - 1) ELSE owned
  BY DEF memblock_alloc
<1>2. Fits(reserved, owned) /\ owned \subseteq 0 .. PHYS_ADDR_MAX - 1
  BY DEF IInv
<1>3. s = memblock_cap_size(f, size) /\ d = ReservedPlus(f, size)
      /\ f = find_in_range(reserved.regions, 0, MEMBLOCK_ALLOC_ACCESSIBLE, size, align)
  OBVIOUS
<1> HIDE DEF f, s, d
<1>4. /\ f \in Nat /\ MemBase <= f /\ f \in 0 .. PHYS_ADDR_MAX /\ f + size <= PHYS_ADDR_MAX
      /\ \A x \in Int : f <= x /\ x < f + size => ~Has(reserved.regions, x)
  BY <1>1, <1>3, FoundIs
<1>5. s = size
  BY <1>0, <1>3, <1>4, CapIs
<1>c. Clear(f, s)
  BY <1>4, MemAssumption DEF Clear
<1>6. \A x \in Int : f <= x /\ x < f + s => ~InArr(reserved, x)
  <2>1. \A x \in Int : InArr(reserved, x) => Has(reserved.regions, x)
    BY <1>2 DEF Fits
  <2> QED BY <1>4, <1>5, <2>1
<1>7. IF d.ok THEN Fits(d.type, owned \cup (f .. f + s - 1)) ELSE Fits(d.type, owned)
  BY <1>0, <1>2, <1>3, <1>4, <1>6, <1>c, PlusIs
<1>8. Fits(reserved', owned')
  BY <1>1, <1>5, <1>7
<1>9. owned' \subseteq 0 .. PHYS_ADDR_MAX - 1
  BY <1>0, <1>1, <1>2, <1>4
<1> QED BY <1>8, <1>9 DEF IInv

\* Whatever the calls do, they keep the invariant.
LEMMA NextKeeps == IInv /\ [Next]_vars => IInv'
<1> SUFFICES ASSUME IInv, [Next]_vars PROVE IInv'
  OBVIOUS
<1>1. CASE \E b \in Bases, size \in Sizes : memblock_reserve(b, size)
  BY <1>1, ReserveKeeps
<1>2. CASE \E b \in Bases, size \in Sizes : memblock_free(b, size)
  BY <1>2, FreeKeeps
<1>3. CASE \E size \in Sizes, align \in Aligns : memblock_alloc(size, align)
  BY <1>3, AllocKeeps
<1>4. CASE UNCHANGED <<reserved, owned>>
  <2>1. reserved' = reserved /\ owned' = owned
    BY <1>4
  <2> QED BY <2>1 DEF IInv
<1>5. memblock_set_bottom_up => UNCHANGED <<reserved, owned>>
  BY DEF memblock_set_bottom_up
<1>6. UNCHANGED vars => UNCHANGED <<reserved, owned>>
  BY DEF vars
<1> QED BY <1>1, <1>2, <1>3, <1>4, <1>5, <1>6 DEF Next

\* For callers whose ranges at 0 or 1 end below the memory: in every state the
\* array of reserved regions has what callers own and its own memory, each cell
\* once, and no more regions than it has room for.
THEOREM Invariance == Spec => []IInv
<1>1. Init => IInv
  BY InitInv
<1>2. IInv /\ [Next]_vars => IInv'
  BY NextKeeps
<1> QED BY <1>1, <1>2, PTL DEF Spec

\* The cells of the regions.
LEMMA CellsAre ==
  ASSUME NEW rs \in Seq(Reg), NEW x
  PROVE  x \in CellsOf(rs) <=> x \in Int /\ Has(rs, x)
<1>1. \A i \in 1 .. Len(rs) : rs[i] \in Reg /\ rs[i].base \in Int /\ End(rs[i]) \in Int
  BY SeqTyped, EndTyped
<1>2. x \in CellsOf(rs) <=> \E i \in 1 .. Len(rs) : x \in rs[i].base .. End(rs[i]) - 1
  BY DEF CellsOf, Cells
<1>3. \A i \in 1 .. Len(rs) : x \in rs[i].base .. End(rs[i]) - 1
                                <=> x \in Int /\ rs[i].base <= x /\ x < End(rs[i])
  BY <1>1
<1> QED BY <1>2, <1>3 DEF Has

-----------------------------------------------------------------------------
(***************************************************************************)
(* The theorems.                                                           *)
(***************************************************************************)
\* The array of regions as callers see it.
LEMMA ArrayIs ==
  ASSUME IInv
  PROVE  /\ reserved \in Ty /\ Good(reserved.regions) /\ reserved.regions \in Seq(Reg)
         /\ Ordered(reserved.regions) /\ reserved.max \in Nat /\ 2 <= reserved.max
         /\ reserved.array \in Nat /\ ArraySize(reserved) \in Nat
         /\ \A x : x \in ArrayReserved <=> x \in Int /\ InArr(reserved, x)
<1>1. reserved \in Ty /\ Good(reserved.regions) /\ 2 <= reserved.max
  BY DEF IInv, Fits, Sound
<1>2. reserved.max \in Nat /\ reserved.array \in Nat
  BY <1>1 DEF Ty
<1>3. ArraySize(reserved) \in Nat
  BY <1>1, <1>2, SizesTyped DEF ArraySize
<1>4. \A x : x \in ArrayReserved <=> x \in Int /\ InArr(reserved, x)
  <2>1. CASE reserved.array = 0
    BY <2>1 DEF ArrayReserved, InArr
  <2>2. CASE reserved.array # 0
    <3>1. ArrayReserved = reserved.array .. reserved.array + ArraySize(reserved) - 1
      BY <2>2 DEF ArrayReserved
    <3> QED BY <1>2, <1>3, <2>2, <3>1 DEF InArr
  <2> QED BY <2>1, <2>2
<1> QED BY <1>1, <1>2, <1>3, <1>4, GoodOrdered

\* The invariant implies each of the properties.
LEMMA InvMinimal == IInv => Minimal
<1> SUFFICES ASSUME IInv PROVE Minimal
  OBVIOUS
<1> DEFINE rs == reserved.regions
<1>1. /\ rs \in Seq(Reg) /\ Len(rs) \in Nat /\ \A i \in 1 .. Len(rs) : rs[i] \in Reg
      /\ Good(rs) /\ (rs # <<Dummy>> => Apart(rs, 1))
  BY ArrayIs, SeqTyped, GoodOrdered
<1>2. CASE rs = <<Dummy>>
  <2>1. Len(rs) = 1
    BY <1>2, DummyIs, Zenon
  <2>2. 1 .. Len(rs) - 1 = {}
    BY <2>1
  <2> QED BY <1>2, <2>2 DEF Minimal
<1>3. CASE rs # <<Dummy>>
  <2>1. Apart(rs, 1)
    BY <1>1, <1>3
  <2> HIDE DEF rs
  <2>2. ASSUME NEW i \in 1 .. Len(rs) - 1 PROVE End(rs[i]) < rs[i + 1].base
    <3>1. i \in 1 .. Len(rs) /\ i + 1 \in 1 .. Len(rs) /\ i < i + 1
      BY <1>1
    <3>2. End(rs[i]) \in Int /\ rs[i + 1].base \in Int
      BY <1>1, <3>1, EndTyped
    <3>3. End(rs[i]) + 1 <= rs[i + 1].base
      BY <2>1, <3>1 DEF Apart
    <3> QED BY <3>2, <3>3
  <2>3. ASSUME NEW i \in 1 .. Len(rs) PROVE rs[i].size > 0
    <3>1. rs[i].size \in Int
      BY <1>1, EndTyped
    <3> QED BY <2>1, <3>1 DEF Apart
  <2> QED BY <2>2, <2>3 DEF Minimal, rs
<1> QED BY <1>2, <1>3

LEMMA InvReserved == IInv => ReservedIsOwned
<1> SUFFICES ASSUME IInv PROVE ReservedIsOwned
  OBVIOUS
<1>0. owned \subseteq Int
  BY MemAssumption DEF IInv
<1>1. /\ \A x \in Int : Has(reserved.regions, x) <=> x \in owned \/ InArr(reserved, x)
      /\ \A x \in Int : ~(x \in owned /\ InArr(reserved, x))
  BY DEF IInv, Fits
<1>2. \A x : x \in ArrayReserved <=> x \in Int /\ InArr(reserved, x)
  BY ArrayIs
<1>3. \A x : x \in CellsOf(reserved.regions) <=> x \in Int /\ Has(reserved.regions, x)
  BY ArrayIs, CellsAre
<1>4. CellsOf(reserved.regions) = owned \cup ArrayReserved
  <2> SUFFICES ASSUME NEW x PROVE x \in CellsOf(reserved.regions) <=> x \in owned \/ x \in ArrayReserved
    OBVIOUS
  <2> QED BY <1>0, <1>1, <1>2, <1>3
<1>5. owned \cap ArrayReserved = {}
  BY <1>0, <1>1, <1>2
<1> QED BY <1>4, <1>5 DEF ReservedIsOwned

LEMMA InvCounts == IInv => CountsFit
<1> SUFFICES ASSUME IInv PROVE CountsFit
  OBVIOUS
<1>1. /\ reserved.total_size = SizeOf(reserved.regions)
      /\ Len(reserved.regions) <= reserved.max
      /\ Fits(reserved, owned)
  BY DEF IInv, Fits, Sound
<1>2. ASSUME NEW base \in 0 .. PHYS_ADDR_MAX, NEW size \in Sizes,
             NEW s, s = memblock_cap_size(base, size),
             NEW room, room = MakeRoom(reserved, NrNew(reserved, base, base + s), base, s),
             room.ok, Clear(base, s), (base .. base + s - 1) \cap ArrayReserved = {}
      PROVE  Len(Inserted(room.type.regions, base, base + s)) <= room.type.max
  <2>0. size \in Nat
    BY RequestAssumption
  <2>1. s \in Nat /\ base \in Nat
    BY <1>2, <2>0, CapIs
  <2>2. \A x \in Int : base <= x /\ x < base + s => ~InArr(reserved, x)
    <3> SUFFICES ASSUME NEW x \in Int, base <= x, x < base + s, InArr(reserved, x) PROVE FALSE
      OBVIOUS
    <3>1. x \in ArrayReserved
      BY ArrayIs
    <3>2. x \in base .. base + s - 1
      BY <2>1
    <3> QED BY <1>2, <3>1, <3>2
  <2> QED BY <1>1, <1>2, <2>1, <2>2, RoomCounts
<1> QED BY <1>1, <1>2 DEF CountsFit

LEMMA InvFinds == IInv => FindsRoom
<1> SUFFICES ASSUME IInv PROVE FindsRoom
  OBVIOUS
<1> SUFFICES ASSUME NEW size \in Sizes, NEW align \in Aligns,
                    NEW f, f = find_in_range(reserved.regions, 0, MEMBLOCK_ALLOC_ACCESSIBLE, size, align)
             PROVE  IF f # 0
                      THEN /\ f >= MemBase /\ f % align = 0 /\ f + size <= Limit
                           /\ (f .. f + size - 1) \cap CellsOf(reserved.regions) = {}
                      ELSE \A a \in MemBase .. Limit - 1 :
                             ~(/\ a % align = 0 /\ a + size <= Limit
                               /\ (a .. a + size - 1) \cap CellsOf(reserved.regions) = {})
  BY DEF FindsRoom
<1>0. size \in Nat /\ 0 < size /\ align \in Nat \ {0} /\ MemBase \in Nat /\ Limit \in Nat
  BY RequestAssumption, MemAssumption DEF Limit
<1>1. reserved.regions \in Seq(Reg) /\ Ordered(reserved.regions)
  BY ArrayIs
<1>2. \A x : x \in CellsOf(reserved.regions) <=> x \in Int /\ Has(reserved.regions, x)
  BY <1>1, CellsAre
<1>3. CASE f # 0
  <2>1. /\ f \in Nat /\ f % align = 0 /\ MemBase <= f /\ f + size <= Limit
        /\ \A x \in Int : f <= x /\ x < f + size => ~Has(reserved.regions, x)
    BY <1>3, FoundIs
  <2>2. (f .. f + size - 1) \cap CellsOf(reserved.regions) = {}
    BY <1>0, <1>2, <2>1
  <2> QED BY <1>0, <1>3, <2>1, <2>2
<1>4. CASE f = 0
  <2>1. ASSUME NEW a \in MemBase .. Limit - 1, a % align = 0, a + size <= Limit,
               (a .. a + size - 1) \cap CellsOf(reserved.regions) = {}
        PROVE  FALSE
    <3>1. a \in Nat /\ MemBase <= a
      BY <1>0
    <3>2. \A x \in Int : a <= x /\ x < a + size => ~Has(reserved.regions, x)
      <4> SUFFICES ASSUME NEW x \in Int, a <= x, x < a + size, Has(reserved.regions, x) PROVE FALSE
        OBVIOUS
      <4>1. x \in a .. a + size - 1
        BY <1>0, <3>1
      <4>2. x \in CellsOf(reserved.regions)
        BY <1>2
      <4> QED BY <2>1, <4>1, <4>2
    <3>3. find_in_range(reserved.regions, 0, MEMBLOCK_ALLOC_ACCESSIBLE, size, align) = 0
      BY <1>4
    <3> QED BY <1>0, <1>1, <2>1, <3>1, <3>2, <3>3, FindComplete
  <2> QED BY <1>4, <2>1
<1> QED BY <1>3, <1>4

\* In every state memblock_add_range, memblock_remove_range and
\* memblock_double_array have left the regions sorted, apart, and not touching.
THEOREM ArrayMinimal == Spec => []Minimal
BY Invariance, InvMinimal, PTL

\* In every state the regions the second pass of memblock_add_range inserts fit
\* into the array that the first pass has counted them for, so that the BUG_ON of
\* memblock_insert_region is not met, for any range that leaves the memory of the
\* array alone and does not reach from 0 or 1 into the memory; total_size is the
\* sum of the sizes.
THEOREM RoomSuffices == Spec => []CountsFit
BY Invariance, InvCounts, PTL

\* In every state memblock_find_in_range_node finds, in the direction that is
\* set, free memory of the size and alignment asked for if and only if there is
\* any.
THEOREM SearchesComplete == Spec => []FindsRoom
BY Invariance, InvFinds, PTL

\* The byte that ALIGN leaves out of the reservation.
LEMMA InvExact == IInv => ReservedExact
<1> SUFFICES ASSUME IInv, ArrayInPage, NEW x \in ArrayCells, x \in owned
             PROVE  x = reserved.array + reserved.max * RegionSize - 1
  BY InvReserved DEF ReservedExact
<1> DEFINE n == reserved.max * RegionSize
           a == reserved.array
<1>1. a # 0
  BY DEF ArrayCells
<1>2. /\ a \in Nat /\ reserved.max \in Nat /\ 2 <= reserved.max
      /\ \A y \in Int : ~(y \in owned /\ InArr(reserved, y))
  BY ArrayIs DEF IInv, Fits
<1>3. n \in Nat /\ 2 <= n /\ ArraySize(reserved) = n - 1
  BY <1>1, <1>2, SizesTyped DEF ArraySize, ArrayInPage
<1>4. ArrayCells = a .. a + n - 1
  BY <1>1 DEF ArrayCells
<1>5. \A y \in Int : InArr(reserved, y) <=> a <= y /\ y < a + (n - 1)
  BY <1>1, <1>3 DEF InArr
<1> HIDE DEF n, a
<1>6. x \in Int /\ a <= x /\ x <= a + n - 1
  BY <1>2, <1>3, <1>4
<1>7. ~(x < a + (n - 1))
  BY <1>2, <1>5, <1>6
<1>8. x = a + n - 1
  BY <1>2, <1>3, <1>6, <1>7
<1> QED BY <1>8 DEF n, a

\* For callers whose ranges at 0 or 1 end below the memory: in every state what
\* is reserved is what callers have reserved or allocated and not freed, and the
\* memory memblock_double_array has reserved for the array, to the cell; nothing
\* is lost when the array moves in the middle of a call. And of an array that
\* fits into a page callers are given no byte but the last one, which ALIGN makes
\* memblock_double_array leave out of what it reserves.
THEOREM NothingLost == Spec => []ReservedExact
BY Invariance, InvExact, PTL
=============================================================================
