----------------------------- MODULE BuddyProofs -----------------------------
(***************************************************************************)
(* The invariants of Buddy for every size of the memory, every largest     *)
(* order, every PCP batch size and every content of the fresh memory, for  *)
(* a build in which page_is_buddy yields 0 when it falls off its end.      *)
(*                                                                         *)
(*   1. what the operations of KList do to the nodes of a list             *)
(*   2. the geometry of buddies, and what a step does to a tiling          *)
(*   3. the inductive invariant, kept by every action                      *)
(*   4. what it means for the callers                                      *)
(***************************************************************************)
EXTENDS Buddy, WellFoundedInduction, TLAPS

-----------------------------------------------------------------------------
(***************************************************************************)
(* 1. What the operations of KList do to the nodes of a list, to its       *)
(* length and to the absence of duplicates.                                *)
(***************************************************************************)

\* The nodes of a list of S are in S, and the list is empty iff it has none.
LEMMA NodesType ==
  ASSUME NEW S, NEW l \in Seq(S)
  PROVE  /\ Nodes(l) \subseteq S
         /\ Len(l) \in Nat
         /\ list_empty(l) <=> Nodes(l) = {}
         /\ ~list_empty(l) => /\ list_first_entry(l) \in Nodes(l)
                              /\ list_last_entry(l) \in Nodes(l)
BY DEF Nodes, list_empty, list_first_entry, list_last_entry

\* list_add adds its node and nothing else, and no duplicate if it is new.
LEMMA ListAdd ==
  ASSUME NEW S, NEW l \in Seq(S), NEW x \in S
  PROVE  /\ list_add(x, l) \in Seq(S)
         /\ Len(list_add(x, l)) = Len(l) + 1
         /\ Nodes(list_add(x, l)) = Nodes(l) \cup {x}
         /\ Distinct(l) /\ x \notin Nodes(l) => Distinct(list_add(x, l))
<1> DEFINE m == list_add(x, l)
<1>1. /\ m \in Seq(S) /\ Len(m) = Len(l) + 1
      /\ \A i \in 1 .. Len(l) + 1 : m[i] = IF i = 1 THEN x ELSE l[i - 1]
  BY DEF list_add
<1> HIDE DEF m
<1>2. Nodes(m) \subseteq Nodes(l) \cup {x}
  BY <1>1 DEF Nodes
<1>3. x \in Nodes(m)
  BY <1>1 DEF Nodes
<1>4. ASSUME NEW i \in 1 .. Len(l) PROVE l[i] \in Nodes(m)
  <2>1. i + 1 \in 1 .. Len(l) + 1 /\ m[i + 1] = l[i]
    BY <1>1
  <2> QED BY <2>1, <1>1 DEF Nodes
<1>5. Nodes(m) = Nodes(l) \cup {x}
  BY <1>2, <1>3, <1>4 DEF Nodes
<1>6. ASSUME Distinct(l), x \notin Nodes(l) PROVE Distinct(m)
  <2> SUFFICES ASSUME NEW i \in 1 .. Len(m), NEW j \in 1 .. Len(m), m[i] = m[j]
               PROVE  i = j
    BY DEF Distinct
  <2>1. \A n \in 2 .. Len(m) : n - 1 \in 1 .. Len(l) /\ m[n] = l[n - 1]
    BY <1>1
  <2>2. \A n \in 2 .. Len(m) : m[n] # x
    BY <1>6, <2>1 DEF Nodes
  <2>3. CASE i = 1 \/ j = 1
    BY <1>1, <2>2, <2>3
  <2>4. CASE i # 1 /\ j # 1
    <3>1. i \in 2 .. Len(m) /\ j \in 2 .. Len(m)
      BY <1>1, <2>4
    <3>2. l[i - 1] = l[j - 1]
      BY <2>1, <3>1
    <3>3. i - 1 = j - 1
      BY <1>6, <2>1, <3>1, <3>2 DEF Distinct
    <3> QED BY <1>1, <3>3
  <2> QED BY <2>3, <2>4
<1> QED BY <1>1, <1>5, <1>6 DEF m

\* So does list_add_tail.
LEMMA ListAddTail ==
  ASSUME NEW S, NEW l \in Seq(S), NEW x \in S
  PROVE  /\ list_add_tail(x, l) \in Seq(S)
         /\ Len(list_add_tail(x, l)) = Len(l) + 1
         /\ Nodes(list_add_tail(x, l)) = Nodes(l) \cup {x}
         /\ Distinct(l) /\ x \notin Nodes(l) => Distinct(list_add_tail(x, l))
<1> DEFINE m == list_add_tail(x, l)
<1>1. /\ m \in Seq(S) /\ Len(m) = Len(l) + 1
      /\ \A i \in 1 .. Len(l) + 1 : m[i] = IF i = Len(l) + 1 THEN x ELSE l[i]
  BY DEF list_add_tail
<1> HIDE DEF m
<1>2. Nodes(m) = Nodes(l) \cup {x}
  BY <1>1 DEF Nodes
<1>3. ASSUME Distinct(l), x \notin Nodes(l) PROVE Distinct(m)
  BY <1>1, <1>3 DEF Distinct, Nodes
<1> QED BY <1>1, <1>2, <1>3 DEF m

\* list_del takes a node off a list without duplicates, and only that node.
LEMMA ListDel ==
  ASSUME NEW S, NEW l \in Seq(S), NEW x \in Nodes(l), Distinct(l)
  PROVE  /\ list_del(x, l) \in Seq(S)
         /\ Len(list_del(x, l)) = Len(l) - 1
         /\ Nodes(list_del(x, l)) = Nodes(l) \ {x}
         /\ Distinct(list_del(x, l))
<1> DEFINE m == list_del(x, l)
           k == Position(x, l)
<1>1. k \in 1 .. Len(l) /\ l[k] = x
  BY DEF Position, Nodes
<1> HIDE DEF k
<1>2. /\ m \in Seq(S) /\ Len(m) = Len(l) - 1
      /\ \A i \in 1 .. Len(l) - 1 : m[i] = IF i < k THEN l[i] ELSE l[i + 1]
  BY <1>1 DEF list_del, k
<1> HIDE DEF m
<1>3. \A i \in 1 .. Len(l) : l[i] = x => i = k
  BY <1>1 DEF Distinct
<1>4. Nodes(m) \subseteq Nodes(l) \ {x}
  BY <1>1, <1>2, <1>3 DEF Nodes
<1>5. ASSUME NEW i \in 1 .. Len(l), l[i] # x PROVE l[i] \in Nodes(m)
  <2>1. CASE i < k
    BY <1>1, <1>2, <2>1 DEF Nodes
  <2>2. CASE i > k
    <3>1. i - 1 \in 1 .. Len(m) /\ m[i - 1] = l[i]
      BY <1>1, <1>2, <2>2
    <3> QED BY <3>1 DEF Nodes
  <2> QED BY <1>1, <1>5, <2>1, <2>2
<1>6. Nodes(m) = Nodes(l) \ {x}
  BY <1>4, <1>5 DEF Nodes
<1>7. Distinct(m)
  BY <1>1, <1>2 DEF Distinct
<1> QED BY <1>2, <1>6, <1>7 DEF m

\* list_del of a node that is not on the list does nothing.
LEMMA ListDelOther ==
  ASSUME NEW l, NEW x, x \notin Nodes(l)
  PROVE  list_del(x, l) = l
BY DEF list_del

-----------------------------------------------------------------------------
(***************************************************************************)
(* 2. The geometry of buddies: aligned blocks are nested or apart,         *)
(* buddies are the two halves of their parent, and giving a block to       *)
(* another owner, merging two buddies or halving a block turns a tiling of *)
(* the memory into a tiling of the memory.                                 *)
(***************************************************************************)

Owner == {"free", "pcp", "bulk", "held", "hand"}

\* B is a set of aligned blocks that tile the memory.
Tiling(B) == /\ B \subseteq Owner \X Page \X Orders
             /\ Aligned(B) /\ Disjoint(B) /\ Covers(B)

-----------------------------------------------------------------------------
\* Multiples of a positive number: a smaller multiple is smaller by at least one.
LEMMA Multiples ==
  ASSUME NEW A \in Nat \ {0}
  PROVE  /\ \A k, n \in Int : k < n => k * A + A <= n * A
         /\ \A k, n \in Int : k * A < n * A => k < n
         /\ \A k \in Nat : (k * A) % A = 0
         /\ \A p \in Nat : p % A = 0 => /\ p = (p \div A) * A
                                        /\ p \div A \in Nat
<1>1. ASSUME NEW k \in Int, NEW n \in Int, k < n PROVE k * A + A <= n * A
  BY <1>1
<1>2. ASSUME NEW k \in Int, NEW n \in Int, k * A < n * A PROVE k < n
  <2> SUFFICES ASSUME n <= k PROVE n * A <= k * A
    BY <1>2
  <2> QED OBVIOUS
<1>3. ASSUME NEW k \in Nat PROVE (k * A) % A = 0
  OBVIOUS
<1>4. ASSUME NEW p \in Nat, p % A = 0 PROVE p = (p \div A) * A /\ p \div A \in Nat
  BY <1>4
<1> QED BY <1>1, <1>2, <1>3, <1>4

\* The types of the constants.
LEMMA ConstTypes ==
  /\ MAX_ORDER \in Nat /\ MAX_ORDER > 1 /\ NrPages \in Nat
  /\ Orders \subseteq Nat /\ 0 \in Orders /\ MAX_ORDER - 1 \in Orders
  /\ \A o \in Orders : Pow2[o] \in Nat \ {0}
  /\ Pow2[0] = 1
  /\ \A o \in Orders : o + 1 \in Orders => Pow2[o + 1] = 2 * Pow2[o]
<1>1. /\ MAX_ORDER \in Nat /\ MAX_ORDER > 1 /\ NrPages \in Nat
      /\ \A o \in Orders : Pow2[o] \in Nat \ {0}
      /\ Pow2[0] = 1
  BY SizeAssumption
<1>2. Orders \subseteq Nat /\ 0 \in Orders /\ MAX_ORDER - 1 \in Orders
  BY <1>1 DEF Orders
<1>3. ASSUME NEW o \in Orders, o + 1 \in Orders PROVE Pow2[o + 1] = 2 * Pow2[o]
  <2>1. o + 1 > 0 /\ (o + 1) - 1 = o
    BY <1>2
  <2> QED BY <1>3, <2>1, SizeAssumption
<1> QED BY <1>1, <1>2, <1>3

\* Every order's size divides the size of a larger order and of the memory.
LEMMA Divides ==
  ASSUME NEW i \in Orders
  PROVE  /\ \A j \in Orders : i <= j => \E m \in Nat : Pow2[j] = m * Pow2[i]
         /\ \E m \in Nat : NrPages = m * Pow2[i]
<1>1. \A j \in Orders : i <= j => \E m \in Nat : Pow2[j] = m * Pow2[i]
  BY SizeAssumption
<1>2. PICK m \in Nat : NrPages = m * Pow2[MAX_ORDER - 1]
  BY SizeAssumption
<1>3. PICK n \in Nat : Pow2[MAX_ORDER - 1] = n * Pow2[i]
  BY <1>1, ConstTypes DEF Orders
<1>4. Pow2[i] \in Nat /\ m * (n * Pow2[i]) = (m * n) * Pow2[i] /\ m * n \in Nat
  BY ConstTypes
<1> QED BY <1>1, <1>2, <1>3, <1>4

\* Two aligned blocks are apart, or the smaller lies inside the larger.
LEMMA Nested ==
  ASSUME NEW i \in Orders, NEW j \in Orders, i <= j,
         NEW a \in Nat, NEW b \in Nat, a % Pow2[i] = 0, b % Pow2[j] = 0
  PROVE  Apart(a, i, b, j) \/ (b <= a /\ a + Pow2[i] <= b + Pow2[j])
<1> DEFINE A == Pow2[i]
           B == Pow2[j]
<1>1. A \in Nat \ {0} /\ B \in Nat \ {0}
  BY ConstTypes
<1>2. PICK m \in Nat : B = m * A
  BY Divides
<1> HIDE DEF A, B
<1>3. PICK k \in Nat : a = k * A
  BY <1>1, Multiples DEF A
<1>4. PICK l \in Nat : b = l * B
  BY <1>1, Multiples DEF B
<1>5. b = (l * m) * A /\ b + B = (l * m + m) * A /\ l * m \in Nat
  BY <1>1, <1>2, <1>4
<1>6. CASE k < l * m
  <2>1. k * A + A <= (l * m) * A
    BY <1>1, <1>5, <1>6, Multiples
  <2> QED BY <1>1, <1>3, <1>5, <2>1 DEF Apart, A, B
<1>7. CASE k >= l * m + m
  <2>1. (l * m + m) * A <= k * A
    BY <1>1, <1>5, <1>7
  <2> QED BY <1>1, <1>3, <1>5, <2>1 DEF Apart, A, B
<1>8. CASE k >= l * m /\ k < l * m + m
  <2>1. (l * m) * A <= k * A
    BY <1>1, <1>5, <1>8
  <2>2. k * A + A <= (l * m + m) * A
    BY <1>1, <1>5, <1>8, Multiples
  <2> QED BY <1>1, <1>3, <1>5, <2>1, <2>2 DEF A, B
<1> QED BY <1>5, <1>6, <1>7, <1>8

\* An aligned block that starts in the memory ends in it.
LEMMA InMemory ==
  ASSUME NEW p \in Page, NEW o \in Orders, p % Pow2[o] = 0
  PROVE  p + Pow2[o] <= NrPages
<1> DEFINE A == Pow2[o]
<1>1. A \in Nat \ {0} /\ p \in Nat /\ p < NrPages /\ NrPages \in Nat
  BY ConstTypes DEF Page
<1>2. PICK m \in Nat : NrPages = m * A
  BY Divides
<1> HIDE DEF A
<1>3. PICK k \in Nat : p = k * A
  BY <1>1, Multiples DEF A
<1>4. k < m
  BY <1>1, <1>2, <1>3, Multiples
<1>5. k * A + A <= m * A
  BY <1>1, <1>4, Multiples
<1> QED BY <1>2, <1>3, <1>5 DEF A

-----------------------------------------------------------------------------
\* A block and its buddy are the two halves of an aligned block.
LEMMA Buddies ==
  ASSUME NEW p \in Page, NEW o \in Orders, o < MAX_ORDER - 1, p % Pow2[o] = 0,
         NEW q, q = find_buddy_pfn(p, o),
         NEW m, m = combined_pfn(p, q)
  PROVE  /\ o + 1 \in Orders /\ Pow2[o + 1] = 2 * Pow2[o]
         /\ q \in Page /\ m \in Page
         /\ q % Pow2[o] = 0 /\ m % Pow2[o + 1] = 0
         /\ \/ m = p /\ q = p + Pow2[o]
            \/ m = q /\ p = q + Pow2[o]
         /\ find_buddy_pfn(q, o) = p
<1> DEFINE A == Pow2[o]
<1>1. /\ o + 1 \in Orders /\ Pow2[o + 1] = 2 * A /\ A \in Nat \ {0}
      /\ p \in Nat /\ p < NrPages /\ NrPages \in Nat
  BY ConstTypes DEF Page, Orders
<1> HIDE DEF A
<1>2. PICK k \in Nat : p = k * A /\ k = p \div A
  BY <1>1, Multiples DEF A
<1>3. ASSUME NEW n \in Nat PROVE (n * A) \div A = n /\ (n * A) % A = 0
  BY <1>1
<1>4. CASE k % 2 = 0
  <2>1. PICK h \in Nat : k = 2 * h
    BY <1>4
  <2>2. q = p + A /\ m = p
    BY <1>1, <1>2, <1>4 DEF find_buddy_pfn, combined_pfn, A
  <2>3. p = h * (2 * A) /\ q = (k + 1) * A
    BY <1>1, <1>2, <2>1, <2>2
  <2>4. q % A = 0 /\ q \div A = k + 1
    BY <1>3, <2>3
  <2>5. m % Pow2[o + 1] = 0
    <3>1. 2 * A \in Nat \ {0}
      BY <1>1
    <3>2. (h * (2 * A)) % (2 * A) = 0
      BY <3>1, Multiples
    <3> QED BY <1>1, <2>2, <2>3, <3>2
  <2>6. p + 2 * A <= NrPages
    BY <1>1, <2>2, <2>5, InMemory
  <2>7. q \in Page
    BY <1>1, <2>2, <2>6 DEF Page
  <2>8. (k + 1) % 2 # 0
    BY <1>4
  <2>9. find_buddy_pfn(q, o) = p
    BY <1>1, <2>2, <2>4, <2>8 DEF find_buddy_pfn, A
  <2> QED BY <1>1, <2>2, <2>4, <2>5, <2>7, <2>9 DEF A
<1>5. CASE k % 2 # 0
  <2>1. PICK h \in Nat : k = 2 * h + 1
    BY <1>5
  <2>2. q = p - A
    BY <1>1, <1>2, <1>5 DEF find_buddy_pfn, A
  <2>3. q = (2 * h) * A /\ q = h * (2 * A) /\ h * (2 * A) \in Nat
    BY <1>1, <1>2, <2>1, <2>2
  <2>4. m = q
    BY <1>1, <2>2 DEF combined_pfn
  <2>5. q % A = 0 /\ q \div A = 2 * h
    BY <1>3, <2>3
  <2>6. m % Pow2[o + 1] = 0
    <3>1. 2 * A \in Nat \ {0}
      BY <1>1
    <3>2. (h * (2 * A)) % (2 * A) = 0
      BY <3>1, Multiples
    <3> QED BY <1>1, <2>3, <2>4, <3>2
  <2>7. q \in Page
    BY <1>1, <2>2, <2>3 DEF Page
  <2>8. (2 * h) % 2 = 0
    OBVIOUS
  <2>9. find_buddy_pfn(q, o) = p
    BY <1>1, <2>2, <2>3, <2>5, <2>8 DEF find_buddy_pfn, A
  <2> QED BY <1>1, <2>2, <2>3, <2>4, <2>5, <2>6, <2>7, <2>9 DEF A
<1> QED BY <1>4, <1>5

\* The halves of an aligned block are aligned, and buddies of each other.
LEMMA Halves ==
  ASSUME NEW p \in Page, NEW o \in Orders, o > 0, p % Pow2[o] = 0
  PROVE  /\ o - 1 \in Orders /\ Pow2[o] = 2 * Pow2[o - 1]
         /\ p % Pow2[o - 1] = 0
         /\ p + Pow2[o - 1] \in Page
         /\ (p + Pow2[o - 1]) % Pow2[o - 1] = 0
         /\ find_buddy_pfn(p + Pow2[o - 1], o - 1) = p
<1> DEFINE A == Pow2[o - 1]
<1>1. /\ o - 1 \in Orders /\ o - 1 < MAX_ORDER - 1
      /\ Pow2[o] = 2 * A /\ A \in Nat \ {0}
      /\ p \in Nat /\ p < NrPages /\ NrPages \in Nat
  BY ConstTypes, SizeAssumption DEF Page, Orders
<1> HIDE DEF A
<1>2. PICK h \in Nat : p = h * (2 * A)
  BY <1>1, Multiples
<1>3. /\ p = (2 * h) * A /\ p + A = (2 * h + 1) * A
  BY <1>1, <1>2
<1>4. /\ p % A = 0 /\ p \div A = 2 * h
  BY <1>1, <1>3
<1>5. (p + A) % A = 0 /\ (p + A) \div A = 2 * h + 1
  BY <1>1, <1>3
<1>6. p + 2 * A <= NrPages
  BY <1>1, InMemory
<1>7. p + A \in Page
  BY <1>1, <1>6 DEF Page
<1>8. (2 * h + 1) % 2 # 0
  OBVIOUS
<1>9. find_buddy_pfn(p + A, o - 1) = p
  BY <1>1, <1>5, <1>8 DEF find_buddy_pfn, A
<1> QED BY <1>1, <1>4, <1>5, <1>7, <1>9 DEF A

-----------------------------------------------------------------------------
\* The parts of a block.
LEMMA BlockParts ==
  ASSUME NEW b \in Owner \X Page \X Orders
  PROVE  /\ b[1] \in Owner /\ b[2] \in Page /\ b[3] \in Orders
         /\ b[2] \in Nat /\ b[3] \in Nat /\ Pow2[b[3]] \in Nat \ {0}
         /\ b = <<b[1], b[2], b[3]>>
<1>1. b[1] \in Owner /\ b[2] \in Page /\ b[3] \in Orders
  OBVIOUS
<1>2. b[2] \in Nat /\ b[3] \in Nat /\ Pow2[b[3]] \in Nat \ {0}
  <2>1. Page \subseteq Nat /\ \A o \in Orders : o \in Nat /\ Pow2[o] \in Nat \ {0}
    BY ConstTypes DEF Page
  <2> QED BY <1>1, <2>1
<1>3. b = <<b[1], b[2], b[3]>>
  OBVIOUS
<1> QED BY <1>1, <1>2, <1>3

\* In a tiling two blocks with the same first page are the same block.
LEMMA SameHead ==
  ASSUME NEW B, Tiling(B), NEW b \in B, NEW c \in B, b[2] = c[2]
  PROVE  b = c
<1>1. b \in Owner \X Page \X Orders /\ c \in Owner \X Page \X Orders
  BY DEF Tiling
<1>2. b # c => Apart(b[2], b[3], c[2], c[3])
  BY DEF Tiling, Disjoint
<1> QED BY <1>1, <1>2, BlockParts DEF Apart

\* A block may change hands.
LEMMA Move ==
  ASSUME NEW B, Tiling(B), NEW b \in B, NEW k \in Owner
  PROVE  Tiling((B \ {b}) \cup {<<k, b[2], b[3]>>})
<1> DEFINE c == <<k, b[2], b[3]>>
           C == (B \ {b}) \cup {c}
<1>1. b \in Owner \X Page \X Orders
  BY DEF Tiling
<1>2. c \in Owner \X Page \X Orders /\ c[2] = b[2] /\ c[3] = b[3]
  BY <1>1, BlockParts
<1> HIDE DEF c
<1>3. C \subseteq Owner \X Page \X Orders
  BY <1>2 DEF Tiling
<1>4. Aligned(C)
  BY <1>2 DEF Tiling, Aligned
<1>5. Disjoint(C)
  <2> SUFFICES ASSUME NEW x \in C, NEW y \in C, x # y
               PROVE  Apart(x[2], x[3], y[2], y[3])
    BY DEF Disjoint
  <2>1. CASE x = c
    BY <1>2, <2>1 DEF Tiling, Disjoint, Apart
  <2>2. CASE y = c
    BY <1>2, <2>2 DEF Tiling, Disjoint, Apart
  <2>3. CASE x # c /\ y # c
    BY <2>3 DEF Tiling, Disjoint
  <2> QED BY <2>1, <2>2, <2>3
<1>6. Covers(C)
  <2> SUFFICES ASSUME NEW x \in Page
               PROVE  \E y \in C : Within(x, y[2], y[3])
    BY DEF Covers
  <2>1. PICK z \in B : Within(x, z[2], z[3])
    BY DEF Tiling, Covers
  <2>2. CASE z = b
    <3>1. Within(x, c[2], c[3])
      BY <1>2, <2>1, <2>2
    <3> QED BY <3>1
  <2>3. CASE z # b
    BY <2>1, <2>3
  <2> QED BY <2>2, <2>3
<1> QED BY <1>3, <1>4, <1>5, <1>6 DEF Tiling, c

\* Two buddies may be replaced by their parent.
LEMMA Join ==
  ASSUME NEW B, Tiling(B), NEW b \in B, NEW c \in B, NEW k \in Owner,
         b[3] = c[3], b[3] < MAX_ORDER - 1,
         c[2] = find_buddy_pfn(b[2], b[3])
  PROVE  Tiling((B \ {b, c}) \cup
                {<<k, combined_pfn(b[2], c[2]), b[3] + 1>>})
<1> DEFINE d == <<k, combined_pfn(b[2], c[2]), b[3] + 1>>
           D == (B \ {b, c}) \cup {d}
<1>1. b \in Owner \X Page \X Orders /\ c \in Owner \X Page \X Orders
  BY DEF Tiling
<1>2. b[2] % Pow2[b[3]] = 0
  BY DEF Tiling, Aligned
<1>3. /\ b[2] \in Page /\ b[3] \in Orders /\ b[2] \in Nat /\ c[2] \in Nat
      /\ Pow2[b[3]] \in Nat \ {0}
  BY <1>1, BlockParts
<1>4. /\ d \in Owner \X Page \X Orders /\ d[2] \in Nat
      /\ d[2] % Pow2[d[3]] = 0 /\ Pow2[d[3]] = 2 * Pow2[b[3]]
      /\ \/ d[2] = b[2] /\ c[2] = b[2] + Pow2[b[3]]
         \/ d[2] = c[2] /\ b[2] = c[2] + Pow2[b[3]]
  BY <1>2, <1>3, Buddies
<1> HIDE DEF d
<1>5. D \subseteq Owner \X Page \X Orders
  BY <1>4 DEF Tiling
<1>6. Aligned(D)
  BY <1>4 DEF Tiling, Aligned
<1>7. ASSUME NEW x \in B \ {b, c}
      PROVE  Apart(x[2], x[3], d[2], d[3]) /\ Apart(d[2], d[3], x[2], x[3])
  <2>1. Apart(x[2], x[3], b[2], b[3]) /\ Apart(x[2], x[3], c[2], c[3])
    BY DEF Tiling, Disjoint
  <2>2. x[2] \in Nat /\ Pow2[x[3]] \in Nat \ {0}
    BY BlockParts DEF Tiling
  <2> DEFINE A == Pow2[b[3]]
             X == Pow2[x[3]]
  <2>3. /\ x[2] + X <= b[2] \/ b[2] + A <= x[2]
        /\ x[2] + X <= c[2] \/ c[2] + A <= x[2]
    BY <2>1 DEF Apart
  <2>4. A \in Nat \ {0} /\ X \in Nat \ {0}
    BY <1>3, <2>2
  <2> HIDE DEF A, X
  <2>5. x[2] + X <= d[2] \/ d[2] + 2 * A <= x[2]
    BY <1>3, <1>4, <2>2, <2>3, <2>4 DEF A
  <2> QED BY <1>4, <2>5 DEF Apart, A, X
<1>8. Disjoint(D)
  BY <1>7 DEF Tiling, Disjoint
<1>9. Covers(D)
  <2> SUFFICES ASSUME NEW x \in Page
               PROVE  \E y \in D : Within(x, y[2], y[3])
    BY DEF Covers
  <2>1. PICK z \in B : Within(x, z[2], z[3])
    BY DEF Tiling, Covers
  <2>2. CASE z = b \/ z = c
    <3>1. x \in Int
      BY ConstTypes DEF Page
    <3>2. Within(x, d[2], d[3])
      BY <1>3, <1>4, <2>1, <2>2, <3>1 DEF Within
    <3> QED BY <3>2
  <2>3. CASE z # b /\ z # c
    BY <2>1, <2>3
  <2> QED BY <2>2, <2>3
<1> QED BY <1>5, <1>6, <1>8, <1>9 DEF Tiling, d

\* A block may be replaced by its halves.
LEMMA Halve ==
  ASSUME NEW B, Tiling(B), NEW b \in B, b[3] > 0,
         NEW j \in Owner, NEW k \in Owner
  PROVE  Tiling((B \ {b}) \cup {<<j, b[2], b[3] - 1>>,
                                <<k, b[2] + Pow2[b[3] - 1], b[3] - 1>>})
<1> DEFINE c == <<j, b[2], b[3] - 1>>
           d == <<k, b[2] + Pow2[b[3] - 1], b[3] - 1>>
           D == (B \ {b}) \cup {c, d}
<1>1. b \in Owner \X Page \X Orders
  BY DEF Tiling
<1>2. b[2] % Pow2[b[3]] = 0
  BY DEF Tiling, Aligned
<1>3. b[2] \in Page /\ b[3] \in Orders /\ b[2] \in Nat
  BY <1>1, BlockParts
<1>4. /\ c \in Owner \X Page \X Orders /\ d \in Owner \X Page \X Orders
      /\ c[2] % Pow2[c[3]] = 0 /\ d[2] % Pow2[d[3]] = 0
      /\ c[3] = d[3] /\ Pow2[b[3]] = 2 * Pow2[c[3]]
      /\ c[2] = b[2] /\ d[2] = b[2] + Pow2[c[3]]
  BY <1>2, <1>3, Halves
<1>5. Pow2[c[3]] \in Nat \ {0}
  BY <1>4, BlockParts
<1> HIDE DEF c, d
<1>6. D \subseteq Owner \X Page \X Orders
  BY <1>4 DEF Tiling
<1>7. Aligned(D)
  BY <1>4 DEF Tiling, Aligned
<1>8. ASSUME NEW x \in B \ {b}
      PROVE  /\ Apart(x[2], x[3], c[2], c[3]) /\ Apart(c[2], c[3], x[2], x[3])
             /\ Apart(x[2], x[3], d[2], d[3]) /\ Apart(d[2], d[3], x[2], x[3])
  <2>1. Apart(x[2], x[3], b[2], b[3])
    BY DEF Tiling, Disjoint
  <2>2. x[2] \in Nat /\ Pow2[x[3]] \in Nat \ {0}
    BY BlockParts DEF Tiling
  <2> QED BY <1>3, <1>4, <1>5, <2>1, <2>2 DEF Apart
<1>9. Apart(c[2], c[3], d[2], d[3]) /\ Apart(d[2], d[3], c[2], c[3])
  BY <1>3, <1>4, <1>5 DEF Apart
<1>10. Disjoint(D)
  BY <1>8, <1>9 DEF Tiling, Disjoint
<1>11. Covers(D)
  <2> SUFFICES ASSUME NEW x \in Page
               PROVE  \E y \in D : Within(x, y[2], y[3])
    BY DEF Covers
  <2>1. PICK z \in B : Within(x, z[2], z[3])
    BY DEF Tiling, Covers
  <2>2. CASE z = b
    <3>1. x \in Int
      BY ConstTypes DEF Page
    <3>2. Within(x, c[2], c[3]) \/ Within(x, d[2], d[3])
      BY <1>3, <1>4, <1>5, <2>1, <2>2, <3>1 DEF Within
    <3> QED BY <3>2
  <2>3. CASE z # b
    BY <2>1, <2>3
  <2> QED BY <2>2, <2>3
<1> QED BY <1>6, <1>7, <1>10, <1>11 DEF Tiling, c, d

\* The buddy of a block is the first page of some block, and not of a larger
\* one: a larger one would contain the block itself.
LEMMA BuddyIsHead ==
  ASSUME NEW B, Tiling(B), NEW b \in B, b[3] < MAX_ORDER - 1,
         NEW q, q = find_buddy_pfn(b[2], b[3])
  PROVE  \E c \in B : c[2] = q /\ c[3] <= b[3] /\ c # b
<1> DEFINE o == b[3]
           p == b[2]
<1>1. b \in Owner \X Page \X Orders /\ p % Pow2[o] = 0
  BY DEF Tiling, Aligned
<1>2. p \in Page /\ o \in Orders /\ p \in Nat /\ o \in Nat /\ Pow2[o] \in Nat \ {0}
  BY <1>1, BlockParts
<1>3. /\ q \in Page /\ q % Pow2[o] = 0 /\ q \in Nat
      /\ q = p + Pow2[o] \/ p = q + Pow2[o]
  BY <1>1, <1>2, Buddies DEF Page
<1>4. PICK c \in B : Within(q, c[2], c[3])
  BY <1>3 DEF Tiling, Covers
<1>5. /\ c[2] \in Nat /\ c[3] \in Orders /\ c[3] \in Nat
      /\ Pow2[c[3]] \in Nat \ {0} /\ c[2] % Pow2[c[3]] = 0
  BY BlockParts DEF Tiling, Aligned
<1>6. c # b
  BY <1>2, <1>3, <1>4 DEF Within
<1>7. Apart(p, o, c[2], c[3])
  BY <1>6 DEF Tiling, Disjoint
<1>8. c[3] <= o
  <2> SUFFICES ASSUME c[3] > o PROVE FALSE
    BY <1>2, <1>5
  <2>1. o + 1 \in Orders /\ Pow2[o + 1] = 2 * Pow2[o]
    BY <1>1, <1>2, Buddies
  <2> DEFINE m == combined_pfn(p, q)
  <2>2. /\ m \in Page /\ m \in Nat /\ m % Pow2[o + 1] = 0
        /\ \/ m = p /\ q = p + Pow2[o]
           \/ m = q /\ p = q + Pow2[o]
    BY <1>1, <1>2, Buddies DEF Page
  <2> HIDE DEF m
  <2>3. \/ Apart(m, o + 1, c[2], c[3])
        \/ c[2] <= m /\ m + Pow2[o + 1] <= c[2] + Pow2[c[3]]
    <3>1. o + 1 <= c[3]
      BY <1>2, <1>5
    <3> QED BY <1>5, <2>1, <2>2, <3>1, Nested
  <2> QED BY <1>2, <1>3, <1>4, <1>5, <1>7, <2>1, <2>2, <2>3 DEF Apart, Within
<1>9. c[2] = q
  <2>1. \/ Apart(c[2], c[3], q, o)
        \/ q <= c[2] /\ c[2] + Pow2[c[3]] <= q + Pow2[o]
    BY <1>2, <1>3, <1>5, <1>8, Nested
  <2> QED BY <1>2, <1>3, <1>4, <1>5, <2>1 DEF Apart, Within
<1> QED BY <1>6, <1>8, <1>9

-----------------------------------------------------------------------------
(***************************************************************************)
(* 3. The inductive invariant.                                             *)
(***************************************************************************)

\* No list holds a page twice.
Lists == /\ \A o \in Orders : Distinct(free_list[o])
         /\ Distinct(pcp_list) /\ Distinct(batch_head)

\* What the loops rely on when they go on.
Control ==
  /\ pc = "bulk" => left > 0 /\ ~list_empty(pcp_list)
  /\ pc = "drain" => ~list_empty(batch_head)
  /\ pc = "refill" => left <= batch
  /\ pc = "expand" => low <= hand.order /\ (low = 0 => left > 0 /\ left <= batch)
  /\ pc \in {"idle", "refill", "expand"} => list_empty(batch_head)

\* The inductive invariant.
IInv == /\ TypeOK /\ Lists /\ Control
        /\ Tiling(Blocks) /\ Marks /\ CountsAgree /\ Coalesced

-----------------------------------------------------------------------------
\* FreeBlocks as a function of the lists.
FreeSet(fl) == UNION {{<<"free", p, o>> : p \in Nodes(fl[o])} : o \in Orders}

LEMMA FreeSetDef ==
  ASSUME NEW fl, NEW x
  PROVE  x \in FreeSet(fl) <=>
           \E o \in Orders : \E p \in Nodes(fl[o]) : x = <<"free", p, o>>
BY DEF FreeSet

\* The list of order o gains, or loses, page p; the others keep their pages.
Gains(gl, fl, o, p) ==
  /\ Nodes(gl[o]) = Nodes(fl[o]) \cup {p}
  /\ \A i \in Orders : i # o => Nodes(gl[i]) = Nodes(fl[i])

Loses(gl, fl, o, p) ==
  /\ Nodes(gl[o]) = Nodes(fl[o]) \ {p}
  /\ \A i \in Orders : i # o => Nodes(gl[i]) = Nodes(fl[i])

\* A page put on the list of order o is one more free block.
LEMMA FreeAdd ==
  ASSUME NEW fl, NEW gl, NEW o \in Orders, NEW p, Gains(gl, fl, o, p)
  PROVE  FreeSet(gl) = FreeSet(fl) \cup {<<"free", p, o>>}
<1> USE DEF Gains
<1>1. ASSUME NEW x \in FreeSet(gl)
      PROVE  x \in FreeSet(fl) \cup {<<"free", p, o>>}
  <2>1. PICK i, q : /\ i \in Orders /\ q \in Nodes(gl[i])
                    /\ x = <<"free", q, i>>
    BY FreeSetDef
  <2>2. q \in Nodes(fl[i]) \/ (q = p /\ i = o)
    BY <2>1
  <2> QED BY <2>1, <2>2, FreeSetDef
<1>2. ASSUME NEW x \in FreeSet(fl) PROVE x \in FreeSet(gl)
  <2>1. PICK i, q : /\ i \in Orders /\ q \in Nodes(fl[i])
                    /\ x = <<"free", q, i>>
    BY FreeSetDef
  <2>2. q \in Nodes(gl[i])
    BY <2>1
  <2> QED BY <2>1, <2>2, FreeSetDef
<1>3. <<"free", p, o>> \in FreeSet(gl)
  <2>1. p \in Nodes(gl[o])
    OBVIOUS
  <2> QED BY <2>1, FreeSetDef
<1> QED BY <1>1, <1>2, <1>3

\* A page taken off the list of order o is one free block less.
LEMMA FreeDel ==
  ASSUME NEW fl, NEW gl, NEW o \in Orders, NEW p, Loses(gl, fl, o, p)
  PROVE  FreeSet(gl) = FreeSet(fl) \ {<<"free", p, o>>}
<1> USE DEF Loses
<1>1. ASSUME NEW x \in FreeSet(gl)
      PROVE  x \in FreeSet(fl) \ {<<"free", p, o>>}
  <2>1. PICK i, q : /\ i \in Orders /\ q \in Nodes(gl[i])
                    /\ x = <<"free", q, i>>
    BY FreeSetDef
  <2>2. q \in Nodes(fl[i]) /\ ~(q = p /\ i = o)
    BY <2>1
  <2>3. x # <<"free", p, o>>
    BY <2>1, <2>2
  <2> QED BY <2>1, <2>2, <2>3, FreeSetDef
<1>2. ASSUME NEW x \in FreeSet(fl) \ {<<"free", p, o>>} PROVE x \in FreeSet(gl)
  <2>1. PICK i, q : /\ i \in Orders /\ q \in Nodes(fl[i])
                    /\ x = <<"free", q, i>>
    BY FreeSetDef
  <2>2. q \in Nodes(gl[i])
    BY <2>1
  <2> QED BY <2>1, <2>2, FreeSetDef
<1> QED BY <1>1, <1>2

\* Which owner a block names is the set it is in.
LEMMA Tags ==
  /\ FreeBlocks = FreeSet(free_list)
  /\ \A x \in FreeBlocks : x[1] = "free"
  /\ \A x \in PcpBlocks : x[1] = "pcp"
  /\ \A x \in BulkBlocks : x[1] = "bulk"
  /\ \A x \in HeldBlocks : x[1] = "held"
  /\ \A x \in HandBlocks : x[1] = "hand"
<1>1. FreeBlocks = FreeSet(free_list)
  BY DEF FreeBlocks, FreeSet
<1>2. ASSUME NEW x \in FreeBlocks PROVE x[1] = "free"
  BY <1>1, FreeSetDef
<1> QED BY <1>1, <1>2 DEF PcpBlocks, BulkBlocks, HeldBlocks, HandBlocks

\* A block of the free list of order o is a block.
LEMMA FreeIn ==
  ASSUME NEW o \in Orders, NEW p
  PROVE  <<"free", p, o>> \in Blocks <=> p \in Nodes(free_list[o])
<1>1. <<"free", p, o>> \in FreeBlocks <=> p \in Nodes(free_list[o])
  BY Tags, FreeSetDef
<1>2. <<"free", p, o>> \in Blocks <=> <<"free", p, o>> \in FreeBlocks
  BY Tags DEF Blocks
<1> QED BY <1>1, <1>2

\* Move, Join and Halve for blocks written as triples.
LEMMA MoveTriple ==
  ASSUME NEW B, Tiling(B), NEW j, NEW k \in Owner, NEW p, NEW o,
         <<j, p, o>> \in B
  PROVE  Tiling((B \ {<<j, p, o>>}) \cup {<<k, p, o>>})
<1> DEFINE b == <<j, p, o>>
<1>1. b[2] = p /\ b[3] = o /\ b \in B
  OBVIOUS
<1> HIDE DEF b
<1>2. Tiling((B \ {b}) \cup {<<k, b[2], b[3]>>})
  BY <1>1, Move
<1> QED BY <1>1, <1>2 DEF b

LEMMA JoinTriple ==
  ASSUME NEW B, Tiling(B), NEW i, NEW j, NEW k \in Owner, NEW p, NEW q, NEW o,
         <<i, p, o>> \in B, <<j, q, o>> \in B, o < MAX_ORDER - 1,
         q = find_buddy_pfn(p, o)
  PROVE  Tiling((B \ {<<i, p, o>>, <<j, q, o>>}) \cup
                {<<k, combined_pfn(p, q), o + 1>>})
<1> DEFINE b == <<i, p, o>>
           c == <<j, q, o>>
<1>1. /\ b[2] = p /\ b[3] = o /\ b \in B
      /\ c[2] = q /\ c[3] = o /\ c \in B
  OBVIOUS
<1> HIDE DEF b, c
<1>2. Tiling((B \ {b, c}) \cup {<<k, combined_pfn(b[2], c[2]), b[3] + 1>>})
  BY <1>1, Join
<1> QED BY <1>1, <1>2 DEF b, c

LEMMA HalveTriple ==
  ASSUME NEW B, Tiling(B), NEW i, NEW j \in Owner, NEW k \in Owner,
         NEW p, NEW o, <<i, p, o>> \in B, o > 0
  PROVE  Tiling((B \ {<<i, p, o>>}) \cup
                {<<j, p, o - 1>>, <<k, p + Pow2[o - 1], o - 1>>})
<1> DEFINE b == <<i, p, o>>
<1>1. b[2] = p /\ b[3] = o /\ b \in B
  OBVIOUS
<1> HIDE DEF b
<1>2. Tiling((B \ {b}) \cup {<<j, b[2], b[3] - 1>>,
                            <<k, b[2] + Pow2[b[3] - 1], b[3] - 1>>})
  BY <1>1, Halve
<1> QED BY <1>1, <1>2 DEF b

-----------------------------------------------------------------------------
\* The other owners' blocks, like FreeIn.
LEMMA OwnerIn ==
  ASSUME NEW p, TypeOK
  PROVE  /\ <<"pcp", p, 0>> \in Blocks <=> p \in Nodes(pcp_list)
         /\ <<"bulk", p, 0>> \in Blocks <=> p \in Nodes(batch_head)
         /\ \A o : <<p, o>> \in held => <<"held", p, o>> \in Blocks
         /\ pc \in {"merge", "expand"} =>
              <<"hand", hand.pfn, hand.order>> \in Blocks
<1>1. /\ <<"pcp", p, 0>> \in PcpBlocks <=> p \in Nodes(pcp_list)
      /\ <<"bulk", p, 0>> \in BulkBlocks <=> p \in Nodes(batch_head)
      /\ \A o : <<p, o>> \in held => <<"held", p, o>> \in HeldBlocks
      /\ pc \in {"merge", "expand"} =>
           <<"hand", hand.pfn, hand.order>> \in HandBlocks
  BY DEF PcpBlocks, BulkBlocks, HeldBlocks, HandBlocks
<1>2. /\ <<"pcp", p, 0>> \in Blocks <=> <<"pcp", p, 0>> \in PcpBlocks
      /\ <<"bulk", p, 0>> \in Blocks <=> <<"bulk", p, 0>> \in BulkBlocks
  BY Tags DEF Blocks
<1>3. HeldBlocks \subseteq Blocks /\ HandBlocks \subseteq Blocks
  BY DEF Blocks
<1> QED BY <1>1, <1>2, <1>3

\* A page is the first page of at most one owner's block.
LEMMA OneOwner ==
  ASSUME NEW B, Tiling(B), NEW p, NEW j, NEW k, NEW o, NEW i,
         <<j, p, o>> \in B, <<k, p, i>> \in B
  PROVE  j = k /\ o = i
<1> DEFINE b == <<j, p, o>>
           c == <<k, p, i>>
<1>1. b \in B /\ c \in B /\ b[2] = c[2] /\ b[1] = j /\ b[3] = o /\ c[1] = k /\ c[3] = i
  OBVIOUS
<1> HIDE DEF b, c
<1>2. b = c
  BY <1>1, SameHead
<1> QED BY <1>1, <1>2

\* A block that goes from one owner to another, neither being a free list.
LEMMA MoveStep ==
  ASSUME IInv, UNCHANGED zone, NEW j, NEW k \in Owner, NEW p, NEW o,
         j # "free", k # "free", <<j, p, o>> \in Blocks,
         Blocks' = (Blocks \ {<<j, p, o>>}) \cup {<<k, p, o>>}
  PROVE  Tiling(Blocks') /\ Marks' /\ Coalesced'
<1>1. Tiling(Blocks')
  BY MoveTriple DEF IInv
<1>2. Marks'
  BY DEF IInv, Marks, zone
<1>3. Coalesced'
  BY DEF IInv, Coalesced, zone
<1> QED BY <1>1, <1>2, <1>3

-----------------------------------------------------------------------------
\* __free_pages of a block hands it to the merging loop.
LEMMA FreePagesOkStep ==
  ASSUME IInv, NEW p \in Page, NEW o \in Orders, FreePagesOk(p, o)
  PROVE  IInv'
<1> DEFINE b == <<"held", p, o>>
           c == <<"hand", p, o>>
<1>1. TypeOK'
  BY DEF IInv, TypeOK, FreePagesOk, zone, pcp, Block
<1>2. Lists' /\ Control' /\ CountsAgree'
  BY DEF IInv, Lists, Control, CountsAgree, FreePagesOk, zone, pcp, Fetched
<1>3. Blocks' = (Blocks \ {b}) \cup {c} /\ b \in Blocks
  <2>1. /\ FreeBlocks' = FreeBlocks /\ PcpBlocks' = PcpBlocks
        /\ BulkBlocks' = BulkBlocks
    BY DEF FreePagesOk, zone, pcp, FreeBlocks, PcpBlocks, BulkBlocks
  <2>2. HeldBlocks' = HeldBlocks \ {b}
    BY DEF FreePagesOk, HeldBlocks, IInv, TypeOK
  <2>3. HandBlocks' = {c} /\ HandBlocks = {}
    BY DEF FreePagesOk, HandBlocks
  <2>4. b \in HeldBlocks
    BY DEF FreePagesOk, HeldBlocks
  <2> QED BY <2>1, <2>2, <2>3, <2>4, Tags DEF Blocks
<1>4. UNCHANGED zone
  BY DEF FreePagesOk, zone
<1> QED BY <1>1, <1>2, <1>3, <1>4, MoveStep DEF IInv, Owner

\* __free_pages of a page puts it on the PCP list.
LEMMA FreeUnrefPageStep ==
  ASSUME IInv, NEW p \in Page, FreeUnrefPage(p)
  PROVE  IInv'
<1> DEFINE b == <<"held", p, 0>>
           c == <<"pcp", p, 0>>
<1>0. /\ batch \in Nat \ {0} /\ p \notin Nodes(pcp_list)
      /\ pcp_list \in Seq(Page) /\ Distinct(pcp_list)
  <2>1. b \in Blocks
    BY OwnerIn DEF IInv, FreeUnrefPage
  <2>2. p \notin Nodes(pcp_list)
    BY <2>1, OwnerIn, OneOwner DEF IInv
  <2> QED BY <2>2, PcpAssumption DEF IInv, TypeOK, Lists, batch
<1>1. /\ pcp_list' \in Seq(Page) /\ Len(pcp_list') = Len(pcp_list) + 1
      /\ Nodes(pcp_list') = Nodes(pcp_list) \cup {p} /\ Distinct(pcp_list')
      /\ ~list_empty(pcp_list')
  <2>1. pcp_list' = list_add(p, pcp_list)
    BY DEF FreeUnrefPage
  <2>2. Len(pcp_list) \in Nat
    BY <1>0
  <2>3. /\ pcp_list' \in Seq(Page) /\ Len(pcp_list') = Len(pcp_list) + 1
        /\ Nodes(pcp_list') = Nodes(pcp_list) \cup {p} /\ Distinct(pcp_list')
    BY <1>0, <2>1, ListAdd
  <2> QED BY <2>2, <2>3 DEF list_empty
<1>2. TypeOK'
  <2>1. pcp_count' \in Nat /\ held' \subseteq Page \X Orders
    BY DEF IInv, TypeOK, FreeUnrefPage
  <2>2. /\ pc' \in {"idle", "merge", "bulk", "drain", "expand", "refill"}
        /\ left' \in Nat
    BY <1>0 DEF IInv, TypeOK, FreeUnrefPage
  <2> QED BY <1>1, <2>1, <2>2 DEF IInv, TypeOK, FreeUnrefPage, zone
<1>3. Lists'
  BY <1>1 DEF IInv, Lists, FreeUnrefPage, zone
<1>4. Control'
  BY <1>0, <1>1 DEF IInv, Control, FreeUnrefPage
<1>5. CountsAgree'
  BY <1>1 DEF IInv, TypeOK, CountsAgree, FreeUnrefPage, zone, Fetched
<1>6. Blocks' = (Blocks \ {b}) \cup {c} /\ b \in Blocks
  <2>1. /\ FreeBlocks' = FreeBlocks /\ BulkBlocks' = BulkBlocks
    BY DEF FreeUnrefPage, zone, FreeBlocks, BulkBlocks
  <2>2. HeldBlocks' = HeldBlocks \ {b}
    BY ConstTypes DEF FreeUnrefPage, HeldBlocks, IInv, TypeOK
  <2>3. PcpBlocks' = PcpBlocks \cup {c}
    BY <1>1 DEF PcpBlocks
  <2>4. HandBlocks' = {} /\ HandBlocks = {}
    BY DEF FreeUnrefPage, HandBlocks
  <2>5. b \in HeldBlocks
    BY DEF FreeUnrefPage, HeldBlocks
  <2> QED BY <2>1, <2>2, <2>3, <2>4, <2>5, Tags DEF Blocks
<1>7. UNCHANGED zone
  BY DEF FreeUnrefPage, zone
<1> QED BY <1>2, <1>3, <1>4, <1>5, <1>6, <1>7, MoveStep DEF IInv, Owner

\* free_pcppages_bulk moves the last page of the PCP list to its own list.
LEMMA BulkTakeStep ==
  ASSUME IInv, BulkTake
  PROVE  IInv'
<1> DEFINE p == list_last_entry(pcp_list)
           b == <<"pcp", p, 0>>
           c == <<"bulk", p, 0>>
<1>0. /\ pcp_list \in Seq(Page) /\ Distinct(pcp_list) /\ ~list_empty(pcp_list)
      /\ batch_head \in Seq(Page) /\ Distinct(batch_head)
      /\ pc = "bulk" /\ left \in Nat /\ left > 0
      /\ pcp_count \in Nat /\ pcp_count = Len(pcp_list)
  BY NodesType DEF IInv, TypeOK, Lists, Control, CountsAgree, Fetched, BulkTake
<1>1. p \in Nodes(pcp_list) /\ p \in Page /\ Len(pcp_list) \in Nat \ {0}
  BY <1>0, NodesType DEF list_empty
<1>2. b \in Blocks /\ p \notin Nodes(batch_head)
  BY <1>1, OwnerIn, OneOwner DEF IInv
<1>3. /\ pcp_list' = list_del(p, pcp_list)
      /\ batch_head' = list_add_tail(p, batch_head)
      /\ pcp_count' = pcp_count - 1
  BY DEF BulkTake
<1> HIDE DEF p
<1>4. /\ pcp_list' \in Seq(Page) /\ Len(pcp_list') = Len(pcp_list) - 1
      /\ Nodes(pcp_list') = Nodes(pcp_list) \ {p} /\ Distinct(pcp_list')
  BY <1>0, <1>1, <1>3, ListDel
<1>5. /\ batch_head' \in Seq(Page) /\ Len(batch_head') = Len(batch_head) + 1
      /\ Nodes(batch_head') = Nodes(batch_head) \cup {p} /\ Distinct(batch_head')
      /\ ~list_empty(batch_head')
  <2>1. Len(batch_head) \in Nat
    BY <1>0
  <2>2. /\ batch_head' \in Seq(Page) /\ Len(batch_head') = Len(batch_head) + 1
        /\ Nodes(batch_head') = Nodes(batch_head) \cup {p} /\ Distinct(batch_head')
    BY <1>0, <1>1, <1>2, <1>3, ListAddTail
  <2> QED BY <2>1, <2>2 DEF list_empty
<1>6. \/ pc' = "drain" /\ left' = 0
      \/ pc' = "bulk" /\ left' = left - 1 /\ left' > 0 /\ ~list_empty(pcp_list')
  BY <1>0 DEF BulkTake
<1>7. TypeOK'
  <2>1. pcp_count' \in Nat
    BY <1>0, <1>1, <1>3
  <2>2. left' \in Nat
    BY <1>0, <1>6
  <2> QED BY <1>4, <1>5, <1>6, <2>1, <2>2 DEF IInv, TypeOK, BulkTake, zone
<1>8. Lists'
  BY <1>4, <1>5 DEF IInv, Lists, BulkTake, zone
<1>9. Control'
  BY <1>5, <1>6 DEF Control
<1>10. CountsAgree'
  BY <1>0, <1>3, <1>4, <1>6 DEF IInv, CountsAgree, BulkTake, zone, Fetched
<1>11. Blocks' = (Blocks \ {b}) \cup {c}
  <2>1. FreeBlocks' = FreeBlocks /\ HeldBlocks' = HeldBlocks
    BY DEF BulkTake, zone, FreeBlocks, HeldBlocks
  <2>2. PcpBlocks' = PcpBlocks \ {b}
    BY <1>4 DEF PcpBlocks
  <2>3. BulkBlocks' = BulkBlocks \cup {c}
    BY <1>5 DEF BulkBlocks
  <2>4. HandBlocks' = {} /\ HandBlocks = {}
    BY <1>0, <1>6 DEF HandBlocks
  <2> QED BY <2>1, <2>2, <2>3, <2>4, Tags DEF Blocks
<1>12. UNCHANGED zone
  BY DEF BulkTake, zone
<1> QED BY <1>2, <1>7, <1>8, <1>9, <1>10, <1>11, <1>12, MoveStep DEF IInv, Owner

\* free_pcppages_bulk hands the next page of its list to the merging loop.
LEMMA BulkFreeStep ==
  ASSUME IInv, BulkFree
  PROVE  IInv'
<1> DEFINE p == list_first_entry(batch_head)
           b == <<"bulk", p, 0>>
           c == <<"hand", p, 0>>
<1>0. /\ batch_head \in Seq(Page) /\ Distinct(batch_head)
      /\ ~list_empty(batch_head) /\ pc = "drain"
  BY DEF IInv, TypeOK, Lists, Control, BulkFree
<1>1. p \in Nodes(batch_head) /\ p \in Page
  BY <1>0, NodesType
<1>2. b \in Blocks
  BY <1>1, OwnerIn DEF IInv
<1>3. /\ batch_head' = list_del(p, batch_head) /\ pc' = "merge"
      /\ hand' = [pfn |-> p, order |-> 0]
  BY DEF BulkFree
<1> HIDE DEF p
<1>4. /\ batch_head' \in Seq(Page)
      /\ Nodes(batch_head') = Nodes(batch_head) \ {p} /\ Distinct(batch_head')
  BY <1>0, <1>1, <1>3, ListDel
<1>5. TypeOK'
  BY <1>1, <1>3, <1>4, ConstTypes DEF IInv, TypeOK, BulkFree, zone, pcp, Block
<1>6. Lists'
  BY <1>4 DEF IInv, Lists, BulkFree, zone, pcp
<1>7. Control'
  BY <1>3 DEF Control
<1>8. CountsAgree'
  BY <1>0, <1>3 DEF IInv, CountsAgree, BulkFree, zone, pcp, Fetched
<1>9. Blocks' = (Blocks \ {b}) \cup {c}
  <2>1. /\ FreeBlocks' = FreeBlocks /\ HeldBlocks' = HeldBlocks
        /\ PcpBlocks' = PcpBlocks
    BY DEF BulkFree, zone, pcp, FreeBlocks, HeldBlocks, PcpBlocks
  <2>2. BulkBlocks' = BulkBlocks \ {b}
    BY <1>4 DEF BulkBlocks
  <2>3. HandBlocks' = {c} /\ HandBlocks = {}
    BY <1>0, <1>3 DEF HandBlocks
  <2> QED BY <2>1, <2>2, <2>3, Tags DEF Blocks
<1>10. UNCHANGED zone
  BY DEF BulkFree, zone
<1> QED BY <1>2, <1>5, <1>6, <1>7, <1>8, <1>9, <1>10, MoveStep DEF IInv, Owner

\* rmqueue_pcplist gives the first page of the PCP list to the caller.
LEMMA AllocPcpStep ==
  ASSUME IInv, AllocPcp
  PROVE  IInv'
<1> DEFINE p == list_first_entry(pcp_list)
           b == <<"pcp", p, 0>>
           c == <<"held", p, 0>>
<1>0. /\ pcp_list \in Seq(Page) /\ Distinct(pcp_list) /\ ~list_empty(pcp_list)
      /\ pc = "idle" /\ pc' = "idle"
      /\ pcp_count \in Nat /\ pcp_count = Len(pcp_list)
  BY NodesType DEF IInv, TypeOK, Lists, CountsAgree, Fetched, AllocPcp
<1>1. p \in Nodes(pcp_list) /\ p \in Page /\ Len(pcp_list) \in Nat \ {0}
  BY <1>0, NodesType DEF list_empty
<1>2. b \in Blocks
  BY <1>1, OwnerIn DEF IInv
<1>3. /\ pcp_list' = list_del(p, pcp_list) /\ held' = held \cup {<<p, 0>>}
      /\ pcp_count' = pcp_count - 1
  BY DEF AllocPcp
<1> HIDE DEF p
<1>4. /\ pcp_list' \in Seq(Page) /\ Len(pcp_list') = Len(pcp_list) - 1
      /\ Nodes(pcp_list') = Nodes(pcp_list) \ {p} /\ Distinct(pcp_list')
  BY <1>0, <1>1, <1>3, ListDel
<1>5. TypeOK'
  <2>1. pcp_count' \in Nat
    BY <1>0, <1>1, <1>3
  <2>2. held' \subseteq Page \X Orders
    BY <1>1, <1>3, ConstTypes DEF IInv, TypeOK
  <2> QED BY <1>4, <2>1, <2>2 DEF IInv, TypeOK, AllocPcp, zone, local
<1>6. Lists'
  BY <1>4 DEF IInv, Lists, AllocPcp, zone, local
<1>7. Control'
  BY <1>0 DEF IInv, Control, AllocPcp, local
<1>8. CountsAgree'
  BY <1>0, <1>3, <1>4 DEF IInv, CountsAgree, AllocPcp, zone, Fetched
<1>9. Blocks' = (Blocks \ {b}) \cup {c}
  <2>1. FreeBlocks' = FreeBlocks /\ BulkBlocks' = BulkBlocks
    BY DEF AllocPcp, zone, local, FreeBlocks, BulkBlocks
  <2>2. PcpBlocks' = PcpBlocks \ {b}
    BY <1>4 DEF PcpBlocks
  <2>3. HeldBlocks' = HeldBlocks \cup {c}
    <3> DEFINE n == <<p, 0>>
    <3>1. n[1] = p /\ n[2] = 0 /\ held' = held \cup {n}
      BY <1>3
    <3> HIDE DEF n
    <3> QED BY <3>1 DEF HeldBlocks
  <2>4. HandBlocks' = {} /\ HandBlocks = {}
    BY <1>0 DEF HandBlocks
  <2> QED BY <2>1, <2>2, <2>3, <2>4, Tags DEF Blocks
<1>10. UNCHANGED zone
  BY DEF AllocPcp, zone
<1> QED BY <1>2, <1>5, <1>6, <1>7, <1>8, <1>9, <1>10, MoveStep DEF IInv, Owner

\* rmqueue_pcplist starts a refill.
LEMMA StartRefillStep ==
  ASSUME IInv, StartRefill
  PROVE  IInv'
<1>0. batch \in Nat
  BY PcpAssumption DEF batch
<1>1. TypeOK'
  BY <1>0 DEF IInv, TypeOK, StartRefill, zone, pcp
<1>2. Lists' /\ Coalesced' /\ Control'
  BY <1>0 DEF IInv, Lists, Coalesced, Control, StartRefill, zone, pcp
<1>3. CountsAgree'
  BY <1>0 DEF IInv, CountsAgree, StartRefill, zone, pcp, Fetched, TypeOK
<1>4. Blocks' = Blocks
  BY DEF Blocks, FreeBlocks, PcpBlocks, BulkBlocks, HeldBlocks, HandBlocks,
         StartRefill, zone, pcp
<1>5. Marks'
  BY <1>4 DEF IInv, Marks, StartRefill, zone
<1> QED BY <1>1, <1>2, <1>3, <1>4, <1>5 DEF IInv

\* rmqueue_pcplist ends a refill, with or without a page for the caller.
LEMMA RefillDoneStep ==
  ASSUME IInv, RefillDone
  PROVE  IInv'
<1> DEFINE p == list_first_entry(pcp_list)
           b == <<"pcp", p, 0>>
           c == <<"held", p, 0>>
<1>0. /\ pcp_list \in Seq(Page) /\ Distinct(pcp_list)
      /\ pc = "refill" /\ pc' = "idle" /\ left' = 0
      /\ pcp_count \in Nat /\ Len(pcp_list) = pcp_count + (batch - left)
      /\ UNCHANGED zone /\ UNCHANGED <<hand, low, batch_head>>
  BY DEF IInv, TypeOK, Lists, CountsAgree, Fetched, RefillDone
<1>a. batch \in Nat /\ left \in Nat
  BY PcpAssumption DEF batch, IInv, TypeOK
<1>1. CASE list_empty(pcp_list)
  <2>1. UNCHANGED <<pcp, held>> /\ Len(pcp_list) = 0
    BY <1>1 DEF RefillDone, list_empty
  <2>2. TypeOK'
    BY <1>0, <2>1 DEF IInv, TypeOK, zone, pcp
  <2>3. Lists' /\ Coalesced' /\ Control'
    BY <1>0, <2>1 DEF IInv, Lists, Coalesced, Control, zone, pcp
  <2>4. CountsAgree'
    <3>1. IInv => left <= batch
      BY <1>0 DEF IInv, Control
    <3>2. pcp_count = 0
      BY <1>0, <1>a, <2>1, <3>1
    <3> QED BY <1>0, <2>1, <3>2 DEF IInv, CountsAgree, zone, pcp, Fetched
  <2>5. Blocks' = Blocks
    BY <1>0, <2>1 DEF Blocks, FreeBlocks, PcpBlocks, BulkBlocks, HeldBlocks,
                      HandBlocks, zone, pcp
  <2>6. Marks'
    BY <1>0, <2>5 DEF IInv, Marks, zone
  <2> QED BY <2>2, <2>3, <2>4, <2>5, <2>6 DEF IInv
<1>2. CASE ~list_empty(pcp_list)
  <2>1. p \in Nodes(pcp_list) /\ p \in Page /\ Len(pcp_list) \in Nat \ {0}
    BY <1>0, <1>2, NodesType DEF list_empty
  <2>2. b \in Blocks
    BY <2>1, OwnerIn DEF IInv
  <2>3. /\ pcp_list' = list_del(p, pcp_list) /\ held' = held \cup {<<p, 0>>}
        /\ pcp_count' = pcp_count + (batch - left) - 1
    BY <1>2 DEF RefillDone
  <2> HIDE DEF p
  <2>4. /\ pcp_list' \in Seq(Page) /\ Len(pcp_list') = Len(pcp_list) - 1
        /\ Nodes(pcp_list') = Nodes(pcp_list) \ {p} /\ Distinct(pcp_list')
    BY <1>0, <2>1, <2>3, ListDel
  <2>5. TypeOK'
    <3>1. pcp_count' \in Nat
      BY <1>0, <1>a, <2>1, <2>3
    <3>2. held' \subseteq Page \X Orders
      BY <2>1, <2>3, ConstTypes DEF IInv, TypeOK
    <3> QED BY <1>0, <2>4, <3>1, <3>2 DEF IInv, TypeOK, zone
  <2>6. Lists' /\ Control'
    BY <1>0, <2>4 DEF IInv, Lists, Control, zone
  <2>7. CountsAgree'
    BY <1>0, <1>a, <2>3, <2>4 DEF IInv, CountsAgree, zone, Fetched
  <2>8. Blocks' = (Blocks \ {b}) \cup {c}
    <3>1. FreeBlocks' = FreeBlocks /\ BulkBlocks' = BulkBlocks
      BY <1>0 DEF zone, FreeBlocks, BulkBlocks
    <3>2. PcpBlocks' = PcpBlocks \ {b}
      BY <2>4 DEF PcpBlocks
    <3>3. HeldBlocks' = HeldBlocks \cup {c}
      <4> DEFINE n == <<p, 0>>
      <4>1. n[1] = p /\ n[2] = 0 /\ held' = held \cup {n}
        BY <2>3
      <4> HIDE DEF n
      <4> QED BY <4>1 DEF HeldBlocks
    <3>4. HandBlocks' = {} /\ HandBlocks = {}
      BY <1>0 DEF HandBlocks
    <3> QED BY <3>1, <3>2, <3>3, <3>4, Tags DEF Blocks
  <2> QED BY <1>0, <2>2, <2>5, <2>6, <2>7, <2>8, MoveStep DEF IInv, Owner
<1> QED BY <1>1, <1>2

\* expand is done: the block goes to the caller or to the PCP list.
LEMMA ExpandDoneStep ==
  ASSUME IInv, ExpandDone
  PROVE  IInv'
<1> DEFINE p == hand.pfn
           o == hand.order
           b == <<"hand", p, o>>
<1>0. /\ pc = "expand" /\ o = low /\ UNCHANGED zone
      /\ UNCHANGED <<pcp_count, batch_head>> /\ hand' = NoBlock /\ low' = 0
      /\ p \in Page /\ o \in Orders /\ NoBlock \in Block
      /\ pcp_list \in Seq(Page) /\ Distinct(pcp_list)
  <2>1. NoBlock \in Block
    BY SizeAssumption, ConstTypes DEF NoBlock, Block, Page
  <2> QED BY <2>1 DEF IInv, TypeOK, ExpandDone, Block, Lists
<1>1. b \in Blocks /\ <<"pcp", p, o>> \notin Blocks
  BY <1>0, OwnerIn, OneOwner DEF IInv
<1> HIDE DEF p, o
<1>2. CASE low = 0
  <2> DEFINE c == <<"pcp", p, 0>>
  <2>1. /\ pcp_list' = list_add_tail(p, pcp_list) /\ left' = left - 1
        /\ pc' = "refill" /\ UNCHANGED held
    BY <1>2 DEF ExpandDone, p
  <2>2. left > 0 /\ left <= batch /\ left \in Nat /\ batch \in Nat
    BY <1>0, <1>2, PcpAssumption DEF IInv, Control, TypeOK, batch
  <2>3. p \notin Nodes(pcp_list)
    BY <1>0, <1>1, <1>2, OwnerIn DEF IInv
  <2>4. /\ pcp_list' \in Seq(Page) /\ Len(pcp_list') = Len(pcp_list) + 1
        /\ Nodes(pcp_list') = Nodes(pcp_list) \cup {p} /\ Distinct(pcp_list')
    BY <1>0, <2>1, <2>3, ListAddTail
  <2>5. TypeOK'
    BY <1>0, <2>1, <2>2, <2>4, ConstTypes DEF IInv, TypeOK, zone
  <2>6. Lists'
    BY <1>0, <2>4 DEF IInv, Lists, zone
  <2>7. Control'
    BY <1>0, <2>1, <2>2 DEF IInv, Control
  <2>8. CountsAgree'
    <3>1. Len(pcp_list) = pcp_count + (batch - left) /\ pcp_count \in Nat
      BY <1>0, <1>2 DEF IInv, CountsAgree, Fetched, TypeOK
    <3> QED BY <1>0, <2>1, <2>2, <2>4, <3>1 DEF IInv, CountsAgree, zone, Fetched
  <2>9. Blocks' = (Blocks \ {b}) \cup {c}
    <3>1. /\ FreeBlocks' = FreeBlocks /\ BulkBlocks' = BulkBlocks
          /\ HeldBlocks' = HeldBlocks
      BY <1>0, <2>1 DEF zone, FreeBlocks, BulkBlocks, HeldBlocks
    <3>2. PcpBlocks' = PcpBlocks \cup {c}
      BY <2>4 DEF PcpBlocks
    <3>3. HandBlocks = {b} /\ HandBlocks' = {}
      BY <1>0, <2>1 DEF HandBlocks, p, o
    <3> QED BY <3>1, <3>2, <3>3, Tags DEF Blocks
  <2>10. <<"pcp", p, 0>> = <<"pcp", p, o>>
    BY <1>0, <1>2
  <2> QED BY <1>0, <1>1, <2>5, <2>6, <2>7, <2>8, <2>9, <2>10, MoveStep
          DEF IInv, Owner
<1>3. CASE low # 0
  <2> DEFINE c == <<"held", p, o>>
  <2>1. /\ held' = held \cup {<<p, o>>} /\ pc' = "idle"
        /\ UNCHANGED <<pcp_list, left>>
    BY <1>3 DEF ExpandDone, p, o
  <2>2. TypeOK'
    <3>1. held' \subseteq Page \X Orders
      BY <1>0, <2>1 DEF IInv, TypeOK
    <3> QED BY <1>0, <2>1, <3>1, ConstTypes DEF IInv, TypeOK, zone
  <2>3. Lists' /\ Control'
    BY <1>0, <2>1 DEF IInv, Lists, Control, zone
  <2>4. CountsAgree'
    BY <1>0, <1>3, <2>1 DEF IInv, CountsAgree, zone, Fetched
  <2>5. Blocks' = (Blocks \ {b}) \cup {c}
    <3>1. /\ FreeBlocks' = FreeBlocks /\ BulkBlocks' = BulkBlocks
          /\ PcpBlocks' = PcpBlocks
      BY <1>0, <2>1 DEF zone, FreeBlocks, BulkBlocks, PcpBlocks
    <3>2. HeldBlocks' = HeldBlocks \cup {c}
      <4> DEFINE n == <<p, o>>
      <4>1. n[1] = p /\ n[2] = o /\ held' = held \cup {n}
        BY <2>1
      <4> HIDE DEF n
      <4> QED BY <4>1 DEF HeldBlocks
    <3>3. HandBlocks = {b} /\ HandBlocks' = {}
      BY <1>0, <2>1 DEF HandBlocks, p, o
    <3> QED BY <3>1, <3>2, <3>3, Tags DEF Blocks
  <2> QED BY <1>0, <1>1, <2>2, <2>3, <2>4, <2>5, MoveStep DEF IInv, Owner
<1> QED BY <1>2, <1>3

-----------------------------------------------------------------------------
\* __rmqueue_smallest: the first block of a free list goes to expand.  `left' is
\* only read when a refill asks for the block (o = 0).
LEMMA RmqueueStep ==
  ASSUME IInv, NEW o \in Orders, NEW c \in Orders, RmqueueSmallest(o, c),
         pc \in {"idle", "refill"}, UNCHANGED <<pcp, held, left, batch_head>>,
         IF o = 0 THEN pc = "refill" /\ left > 0 ELSE pc = "idle"
  PROVE  IInv'
<1> DEFINE p == list_first_entry(free_list[c])
           b == <<"free", p, c>>
           d == <<"hand", p, c>>
<1>0. /\ free_list[c] \in Seq(Page) /\ Distinct(free_list[c])
      /\ ~list_empty(free_list[c]) /\ c >= o
      /\ nr_free[c] = Len(free_list[c])
      /\ free_list \in [Orders -> Seq(Page)] /\ nr_free \in [Orders -> Nat]
      /\ PageBuddy \in [Page -> BOOLEAN] /\ private \in [Page -> Nat]
  BY DEF IInv, TypeOK, Lists, CountsAgree, RmqueueSmallest, SmallestFrom
<1>1. /\ p \in Nodes(free_list[c]) /\ p \in Page
      /\ Len(free_list[c]) \in Nat \ {0}
  BY <1>0, NodesType DEF list_empty
<1>2. b \in Blocks
  BY <1>1, FreeIn
<1>3. /\ free_list' = [free_list EXCEPT ![c] = list_del(p, free_list[c])]
      /\ nr_free' = [nr_free EXCEPT ![c] = nr_free[c] - 1]
      /\ PageBuddy' = [PageBuddy EXCEPT ![p] = FALSE]
      /\ private' = [private EXCEPT ![p] = 0]
      /\ hand' = [pfn |-> p, order |-> c] /\ low' = o /\ pc' = "expand"
  BY DEF RmqueueSmallest
<1> HIDE DEF p
<1> DEFINE l == list_del(p, free_list[c])
<1>4. /\ l \in Seq(Page) /\ Len(l) = Len(free_list[c]) - 1
      /\ Nodes(l) = Nodes(free_list[c]) \ {p} /\ Distinct(l)
  BY <1>0, <1>1, ListDel
<1> HIDE DEF l
<1>5. /\ free_list'[c] = l
      /\ \A i \in Orders : i # c => free_list'[i] = free_list[i]
      /\ free_list' \in [Orders -> Seq(Page)]
  BY <1>0, <1>3, <1>4 DEF l
<1>6. /\ nr_free' \in [Orders -> Nat]
      /\ \A i \in Orders : nr_free'[i] = Len(free_list'[i])
  <2>1. nr_free[c] - 1 \in Nat /\ nr_free[c] - 1 = Len(l)
    BY <1>0, <1>1, <1>4
  <2>2. \A i \in Orders : nr_free[i] = Len(free_list[i])
    BY DEF IInv, CountsAgree
  <2> QED BY <1>0, <1>3, <1>5, <2>1, <2>2
<1>7. TypeOK'
  BY <1>0, <1>1, <1>3, <1>5, <1>6 DEF IInv, TypeOK, pcp, Block
<1>8. Lists'
  BY <1>4, <1>5 DEF IInv, Lists, pcp
<1>9. Control'
  <2>1. pc = "refill" => left <= batch
    BY DEF IInv, Control
  <2>2. list_empty(batch_head)
    BY DEF IInv, Control
  <2> QED BY <1>0, <1>3, <2>1, <2>2 DEF Control
<1>10. CountsAgree'
  <2>1. Fetched' = Fetched
    BY <1>3 DEF Fetched
  <2> QED BY <1>6, <2>1 DEF IInv, CountsAgree, pcp
<1>11. Coalesced'
  <2>1. \A i \in Orders : Nodes(free_list'[i]) \subseteq Nodes(free_list[i])
    BY <1>4, <1>5
  <2> QED BY <2>1 DEF IInv, Coalesced
<1>12. Blocks' = (Blocks \ {b}) \cup {d}
  <2>1. FreeBlocks' = FreeBlocks \ {b}
    <3>1. FreeBlocks = FreeSet(free_list) /\ FreeBlocks' = FreeSet(free_list')
      BY DEF FreeBlocks, FreeSet
    <3>2. Loses(free_list', free_list, c, p)
      BY <1>4, <1>5 DEF Loses
    <3>3. FreeSet(free_list') = FreeSet(free_list) \ {<<"free", p, c>>}
      BY <3>2, FreeDel
    <3> QED BY <3>1, <3>3
  <2>2. /\ PcpBlocks' = PcpBlocks /\ HeldBlocks' = HeldBlocks
        /\ BulkBlocks' = BulkBlocks
    BY DEF pcp, PcpBlocks, HeldBlocks, BulkBlocks
  <2>3. HandBlocks' = {d} /\ HandBlocks = {}
    BY <1>3 DEF HandBlocks
  <2> QED BY <2>1, <2>2, <2>3, Tags DEF Blocks
<1>13. Tiling(Blocks')
  BY <1>2, <1>12, MoveTriple DEF IInv, Owner
<1>14. Marks'
  <2> SUFFICES ASSUME NEW x \in Blocks'
               PROVE  /\ PageBuddy'[x[2]] <=> x[1] = "free"
                      /\ x[1] = "free" => private'[x[2]] = x[3]
    BY DEF Marks
  <2>1. CASE x = d
    BY <1>0, <1>1, <1>3, <2>1
  <2>2. CASE x # d
    <3>1. x \in Blocks /\ x # b
      BY <1>12, <2>2
    <3>2. b[2] = p
      OBVIOUS
    <3>3. x[2] # p
      BY <1>2, <3>1, <3>2, SameHead DEF IInv
    <3>4. x[2] \in Page
      BY <3>1, BlockParts DEF IInv, Tiling
    <3>5. PageBuddy'[x[2]] = PageBuddy[x[2]] /\ private'[x[2]] = private[x[2]]
      BY <1>0, <1>3, <3>3, <3>4
    <3> QED BY <3>1, <3>5 DEF IInv, Marks
  <2> QED BY <2>1, <2>2
<1> QED BY <1>7, <1>8, <1>9, <1>10, <1>11, <1>13, <1>14 DEF IInv

\* __alloc_pages of a block of order o > 0.
LEMMA AllocPagesStep ==
  ASSUME IInv, NEW o \in Orders, AllocPages(o)
  PROVE  IInv'
<1>1. PICK c \in Orders : RmqueueSmallest(o, c)
  BY DEF AllocPages
<1>2. /\ pc = "idle" /\ o # 0
      /\ UNCHANGED <<pcp, held, left, batch_head>>
  BY ConstTypes DEF AllocPages
<1> QED BY <1>1, <1>2, RmqueueStep

\* One iteration of rmqueue_bulk.
LEMMA RefillStep ==
  ASSUME IInv, Refill
  PROVE  IInv'
<1>1. PICK c \in Orders : RmqueueSmallest(0, c)
  BY DEF Refill
<1>2. /\ pc = "refill" /\ left > 0
      /\ UNCHANGED <<pcp, held, left, batch_head>>
  BY DEF Refill
<1> QED BY <1>1, <1>2, RmqueueStep, ConstTypes

\* One iteration of expand.
LEMMA ExpandStep ==
  ASSUME IInv, Expand
  PROVE  IInv'
<1> DEFINE p == hand.pfn
           o == hand.order
           h == o - 1
           q == p + Pow2[h]
           b == <<"hand", p, o>>
           c == <<"hand", p, h>>
           d == <<"free", q, h>>
<1>0. /\ pc = "expand" /\ o > low /\ low \in Orders /\ p \in Page /\ o \in Orders
      /\ UNCHANGED <<pcp, held, pc, low, left, batch_head>>
      /\ free_list \in [Orders -> Seq(Page)] /\ nr_free \in [Orders -> Nat]
      /\ PageBuddy \in [Page -> BOOLEAN] /\ private \in [Page -> Nat]
      /\ hand \in Block
  BY DEF IInv, TypeOK, Expand, Block
<1>1. b \in Blocks
  BY <1>0, OwnerIn DEF IInv
<1>2. o > 0 /\ o \in Nat /\ low \in Nat /\ h \in Nat
  <2>1. o \in Nat /\ low \in Nat /\ o > low
    BY <1>0, ConstTypes
  <2> HIDE DEF o
  <2> QED BY <2>1
<1>3. p % Pow2[o] = 0
  <2>1. b[2] = p /\ b[3] = o
    OBVIOUS
  <2> QED BY <1>1, <2>1 DEF IInv, Tiling, Aligned
<1>4. /\ h \in Orders /\ q \in Page /\ find_buddy_pfn(q, h) = p
      /\ q % Pow2[h] = 0
  BY <1>0, <1>2, <1>3, Halves
<1>5. /\ free_list' = [free_list EXCEPT ![h] = list_add(q, free_list[h])]
      /\ nr_free' = [nr_free EXCEPT ![h] = nr_free[h] + 1]
      /\ PageBuddy' = [PageBuddy EXCEPT ![q] = TRUE]
      /\ private' = [private EXCEPT ![q] = h]
      /\ hand' = [hand EXCEPT !.order = h]
  BY DEF Expand
<1>6. hand' \in Block /\ hand'.pfn = p /\ hand'.order = h
  BY <1>0, <1>4, <1>5 DEF Block
<1> HIDE DEF p, o, h, q
<1>7. Blocks' = (Blocks \ {b}) \cup {c, d}
  <2>1. FreeBlocks' = FreeBlocks \cup {d}
    <3>1. FreeBlocks = FreeSet(free_list) /\ FreeBlocks' = FreeSet(free_list')
      BY DEF FreeBlocks, FreeSet
    <3>2. free_list[h] \in Seq(Page) /\ h \in Orders
      BY <1>0, <1>4
    <3>3. Nodes(list_add(q, free_list[h])) = Nodes(free_list[h]) \cup {q}
      BY <1>4, <3>2, ListAdd
    <3>4. Gains(free_list', free_list, h, q)
      BY <1>0, <1>5, <3>2, <3>3 DEF Gains
    <3>5. FreeSet(free_list') = FreeSet(free_list) \cup {<<"free", q, h>>}
      BY <3>2, <3>4, FreeAdd
    <3> QED BY <3>1, <3>5
  <2>2. /\ PcpBlocks' = PcpBlocks /\ HeldBlocks' = HeldBlocks
        /\ BulkBlocks' = BulkBlocks
    BY <1>0 DEF pcp, PcpBlocks, HeldBlocks, BulkBlocks
  <2>3. HandBlocks' = {c} /\ HandBlocks = {b}
    BY <1>0, <1>6 DEF HandBlocks, p, o
  <2> QED BY <2>1, <2>2, <2>3, Tags DEF Blocks
<1>8. Tiling(Blocks')
  <2>1. Tiling((Blocks \ {b}) \cup
               {<<"hand", p, o - 1>>, <<"free", p + Pow2[o - 1], o - 1>>})
    BY <1>1, <1>2, HalveTriple DEF IInv, Owner
  <2> QED BY <1>7, <2>1 DEF h, q
<1>9. q \notin Nodes(free_list[h]) /\ p \notin Nodes(free_list[h])
  <2>1. p \notin Nodes(free_list[h])
    BY <1>1, <1>4, FreeIn, OneOwner DEF IInv
  <2>2. ASSUME q \in Nodes(free_list[h]) PROVE FALSE
    <3>1. d \in Blocks /\ b # d
      BY <1>4, <2>2, FreeIn
    <3>2. b[2] = p /\ b[3] = o /\ d[2] = q /\ d[3] = h
      OBVIOUS
    <3>3. Apart(p, o, q, h)
      BY <1>1, <3>1, <3>2 DEF IInv, Tiling, Disjoint
    <3>4. /\ q = p + Pow2[h] /\ Pow2[o] = 2 * Pow2[h] /\ Pow2[h] \in Nat \ {0}
          /\ p \in Nat
      <4>1. o - 1 = h
        BY DEF h
      <4>2. Pow2[o] = 2 * Pow2[h]
        BY <1>0, <1>2, <1>3, <4>1, Halves
      <4>3. p \in Nat
        BY <1>0 DEF Page
      <4> QED BY <1>4, <4>2, <4>3, ConstTypes DEF q
    <3> QED BY <3>3, <3>4 DEF Apart
  <2> QED BY <2>1, <2>2
<1>10. /\ free_list' \in [Orders -> Seq(Page)]
       /\ \A i \in Orders : i # h => free_list'[i] = free_list[i]
       /\ Distinct(free_list'[h]) /\ Len(free_list'[h]) = Len(free_list[h]) + 1
       /\ Nodes(free_list'[h]) = Nodes(free_list[h]) \cup {q}
  <2>1. free_list[h] \in Seq(Page) /\ Distinct(free_list[h])
    BY <1>0, <1>4 DEF IInv, Lists
  <2>2. /\ list_add(q, free_list[h]) \in Seq(Page)
        /\ Distinct(list_add(q, free_list[h]))
        /\ Len(list_add(q, free_list[h])) = Len(free_list[h]) + 1
        /\ Nodes(list_add(q, free_list[h])) = Nodes(free_list[h]) \cup {q}
    BY <1>4, <1>9, <2>1, ListAdd
  <2> QED BY <1>0, <1>4, <1>5, <2>2
<1>11. /\ nr_free' \in [Orders -> Nat]
       /\ \A i \in Orders : nr_free'[i] = Len(free_list'[i])
  <2>1. \A i \in Orders : nr_free[i] = Len(free_list[i])
    BY DEF IInv, CountsAgree
  <2> QED BY <1>0, <1>4, <1>5, <1>10, <2>1
<1>12. TypeOK'
  BY <1>0, <1>2, <1>4, <1>5, <1>6, <1>10, <1>11 DEF IInv, TypeOK, pcp
<1>13. Lists'
  BY <1>0, <1>10 DEF IInv, Lists, pcp
<1>14. Control'
  <2>1. low <= h
    BY <1>0, <1>2 DEF h
  <2> QED BY <1>0, <1>6, <2>1 DEF IInv, Control
<1>15. CountsAgree'
  <2>1. Fetched' = Fetched
    BY <1>0 DEF Fetched
  <2> QED BY <1>0, <1>11, <2>1 DEF IInv, CountsAgree, pcp
<1>16. Coalesced'
  <2> SUFFICES ASSUME NEW i \in Orders, i < MAX_ORDER - 1,
                      NEW x \in Nodes(free_list'[i])
               PROVE  find_buddy_pfn(x, i) \notin Nodes(free_list'[i])
    BY DEF Coalesced
  <2>1. CASE i # h
    BY <1>10, <2>1 DEF IInv, Coalesced
  <2>2. CASE i = h /\ x = q
    <3>1. p # q
      <4>1. Pow2[h] \in Nat \ {0} /\ p \in Nat
        BY <1>0, <1>4, ConstTypes DEF Page
      <4> QED BY <4>1 DEF q
    <3> QED BY <1>4, <1>9, <1>10, <2>2, <3>1
  <2>3. CASE i = h /\ x # q
    <3>1. x \in Nodes(free_list[h])
      BY <1>10, <2>3
    <3>2. find_buddy_pfn(x, h) \notin Nodes(free_list[h])
      BY <2>3, <3>1 DEF IInv, Coalesced
    <3>3. x \in Page /\ x % Pow2[h] = 0
      <4> DEFINE y == <<"free", x, h>>
      <4>1. y \in Blocks /\ y[2] = x /\ y[3] = h
        BY <1>4, <3>1, FreeIn
      <4> HIDE DEF y
      <4> QED BY <4>1, BlockParts DEF IInv, Tiling, Aligned
    <3>4. find_buddy_pfn(find_buddy_pfn(x, h), h) = x
      BY <1>4, <2>3, <3>3, Buddies
    <3>5. find_buddy_pfn(x, h) # q
      BY <1>4, <1>9, <3>1, <3>4
    <3> QED BY <1>10, <2>3, <3>2, <3>5
  <2> QED BY <2>1, <2>2, <2>3
<1>17. Marks'
  <2> SUFFICES ASSUME NEW x \in Blocks'
               PROVE  /\ PageBuddy'[x[2]] <=> x[1] = "free"
                      /\ x[1] = "free" => private'[x[2]] = x[3]
    BY DEF Marks
  <2>1. CASE x = d
    BY <1>0, <1>4, <1>5, <2>1
  <2>2. CASE x # d
    <3>1. d \in Blocks' /\ d[2] = q
      BY <1>7
    <3>2. x[2] # q
      BY <1>8, <2>2, <3>1, SameHead
    <3>3. x[2] \in Page
      BY <1>8, BlockParts DEF Tiling
    <3>4. PageBuddy'[x[2]] = PageBuddy[x[2]] /\ private'[x[2]] = private[x[2]]
      BY <1>0, <1>5, <3>2, <3>3
    <3>5. CASE x = c
      <4>1. ~PageBuddy[p]
        <5>1. b[2] = p /\ b[1] = "hand"
          OBVIOUS
        <5> QED BY <1>1, <5>1 DEF IInv, Marks
      <4> QED BY <3>4, <3>5, <4>1
    <3>6. CASE x # c
      <4>1. x \in Blocks
        BY <1>7, <2>2, <3>6
      <4> QED BY <3>4, <4>1 DEF IInv, Marks
    <3> QED BY <3>5, <3>6
  <2> QED BY <2>1, <2>2
<1> QED BY <1>8, <1>12, <1>13, <1>14, <1>15, <1>16, <1>17 DEF IInv

-----------------------------------------------------------------------------
\* What the merging loop sees: the buddy's mark tells whether it is free.
LEMMA BuddyMark ==
  ASSUME IInv, pc = "merge", FellOff = "zero", hand.order < MAX_ORDER - 1
  PROVE  page_is_buddy(find_buddy_pfn(hand.pfn, hand.order), hand.order) <=>
           find_buddy_pfn(hand.pfn, hand.order) \in Nodes(free_list[hand.order])
<1> DEFINE p == hand.pfn
           o == hand.order
           q == find_buddy_pfn(p, o)
           b == <<"hand", p, o>>
<1>1. b \in Blocks /\ o \in Orders /\ o < MAX_ORDER - 1
  BY OwnerIn DEF IInv, TypeOK, Block
<1>2. b[2] = p /\ b[3] = o
  OBVIOUS
<1>3. page_is_buddy(q, o) <=> PageBuddy[q] /\ private[q] = o
  BY DEF page_is_buddy
<1> HIDE DEF p, o, q, b
<1>4. q = find_buddy_pfn(b[2], b[3])
  BY <1>2 DEF q
<1>5. PICK c \in Blocks : c[2] = q /\ c[3] <= b[3] /\ c # b
  BY <1>1, <1>2, <1>4, BuddyIsHead DEF IInv
<1>6. c = <<c[1], q, c[3]>>
  BY <1>5, BlockParts DEF IInv, Tiling
<1>7. ASSUME PageBuddy[q], private[q] = o PROVE q \in Nodes(free_list[o])
  <2>1. c[1] = "free" /\ c[3] = o
    BY <1>5, <1>7 DEF IInv, Marks
  <2>2. <<"free", q, o>> \in Blocks
    BY <1>6, <2>1
  <2> QED BY <1>1, <2>2, FreeIn
<1>8. ASSUME q \in Nodes(free_list[o]) PROVE PageBuddy[q] /\ private[q] = o
  <2> DEFINE d == <<"free", q, o>>
  <2>1. d \in Blocks /\ d[1] = "free" /\ d[2] = q /\ d[3] = o
    BY <1>1, <1>8, FreeIn
  <2> HIDE DEF d
  <2> QED BY <2>1 DEF IInv, Marks
<1> QED BY <1>3, <1>7, <1>8 DEF p, o, q

\* One iteration of the merging loop of __free_one_page.
LEMMA MergeStep ==
  ASSUME IInv, FellOff = "zero", Merge
  PROVE  IInv'
<1> DEFINE p == hand.pfn
           o == hand.order
           q == find_buddy_pfn(p, o)
           m == combined_pfn(p, q)
           b == <<"hand", p, o>>
           c == <<"free", q, o>>
           d == <<"hand", m, o + 1>>
<1>0. /\ pc = "merge" /\ o < MAX_ORDER - 1 /\ p \in Page /\ o \in Orders
      /\ UNCHANGED <<pcp, held, pc, low, left, batch_head>>
      /\ free_list \in [Orders -> Seq(Page)] /\ nr_free \in [Orders -> Nat]
      /\ PageBuddy \in [Page -> BOOLEAN] /\ private \in [Page -> Nat]
      /\ free_list[o] \in Seq(Page) /\ Distinct(free_list[o])
  BY DEF IInv, TypeOK, Merge, CanMerge, Block, Lists
<1>1. b \in Blocks
  BY <1>0, OwnerIn DEF IInv
<1>2. q \in Nodes(free_list[o])
  BY <1>0, BuddyMark DEF Merge, CanMerge
<1>3. c \in Blocks
  BY <1>0, <1>2, FreeIn
<1>4. /\ free_list' = [i \in Orders |-> list_del(q, free_list[i])]
      /\ nr_free' = [nr_free EXCEPT ![o] = nr_free[o] - 1]
      /\ PageBuddy' = [PageBuddy EXCEPT ![q] = FALSE]
      /\ private' = [private EXCEPT ![q] = 0]
      /\ hand' = [pfn |-> m, order |-> o + 1]
  BY DEF Merge
<1>5. p % Pow2[o] = 0
  <2>1. b[2] = p /\ b[3] = o
    OBVIOUS
  <2> QED BY <1>1, <2>1 DEF IInv, Tiling, Aligned
<1>6. /\ o + 1 \in Orders /\ q \in Page /\ m \in Page /\ (m = p \/ m = q)
  BY <1>0, <1>5, Buddies
<1>7. Tiling((Blocks \ {b, c}) \cup {d})
  BY <1>0, <1>1, <1>3, JoinTriple DEF IInv, Owner
<1> HIDE DEF p, o, q, m
<1>8. \A i \in Orders : i # o => q \notin Nodes(free_list[i])
  <2> SUFFICES ASSUME NEW i \in Orders, i # o, q \in Nodes(free_list[i])
               PROVE  FALSE
    OBVIOUS
  <2>1. <<"free", q, i>> \in Blocks /\ Tiling(Blocks)
    BY FreeIn DEF IInv
  <2> QED BY <1>3, <2>1, OneOwner
<1>9. /\ free_list' \in [Orders -> Seq(Page)]
      /\ \A i \in Orders : i # o => free_list'[i] = free_list[i]
      /\ Distinct(free_list'[o]) /\ Len(free_list'[o]) = Len(free_list[o]) - 1
      /\ Nodes(free_list'[o]) = Nodes(free_list[o]) \ {q}
  <2>1. \A i \in Orders : i # o => list_del(q, free_list[i]) = free_list[i]
    BY <1>8, ListDelOther
  <2>2. /\ list_del(q, free_list[o]) \in Seq(Page)
        /\ Distinct(list_del(q, free_list[o]))
        /\ Len(list_del(q, free_list[o])) = Len(free_list[o]) - 1
        /\ Nodes(list_del(q, free_list[o])) = Nodes(free_list[o]) \ {q}
    BY <1>0, <1>2, ListDel
  <2> QED BY <1>0, <1>4, <2>1, <2>2
<1>10. /\ nr_free' \in [Orders -> Nat]
       /\ \A i \in Orders : nr_free'[i] = Len(free_list'[i])
  <2>1. \A i \in Orders : nr_free[i] = Len(free_list[i])
    BY DEF IInv, CountsAgree
  <2>2. Len(free_list[o]) \in Nat \ {0}
    BY <1>0, <1>2, NodesType DEF list_empty
  <2>3. nr_free[o] - 1 \in Nat
    BY <1>0, <2>1, <2>2
  <2> QED BY <1>0, <1>4, <1>9, <2>1, <2>3
<1>11. hand' \in Block /\ hand'.pfn = m /\ hand'.order = o + 1
  BY <1>4, <1>6 DEF Block
<1>12. TypeOK'
  BY <1>0, <1>4, <1>6, <1>9, <1>10, <1>11 DEF IInv, TypeOK, pcp
<1>13. Lists'
  BY <1>0, <1>9 DEF IInv, Lists, pcp
<1>14. Control'
  BY <1>0 DEF Control
<1>15. CountsAgree'
  <2>1. Fetched' = Fetched
    BY <1>0 DEF Fetched
  <2> QED BY <1>0, <1>10, <2>1 DEF IInv, CountsAgree, pcp
<1>16. Coalesced'
  <2>1. \A i \in Orders : Nodes(free_list'[i]) \subseteq Nodes(free_list[i])
    BY <1>9
  <2> QED BY <2>1 DEF IInv, Coalesced
<1>17. Blocks' = (Blocks \ {b, c}) \cup {d}
  <2>1. FreeBlocks' = FreeBlocks \ {c}
    <3>1. FreeBlocks = FreeSet(free_list) /\ FreeBlocks' = FreeSet(free_list')
      BY DEF FreeBlocks, FreeSet
    <3>2. Loses(free_list', free_list, o, q)
      BY <1>9 DEF Loses
    <3>3. FreeSet(free_list') = FreeSet(free_list) \ {<<"free", q, o>>}
      BY <1>0, <3>2, FreeDel
    <3> QED BY <3>1, <3>3
  <2>2. /\ PcpBlocks' = PcpBlocks /\ HeldBlocks' = HeldBlocks
        /\ BulkBlocks' = BulkBlocks
    BY <1>0 DEF pcp, PcpBlocks, HeldBlocks, BulkBlocks
  <2>3. HandBlocks' = {d} /\ HandBlocks = {b}
    BY <1>0, <1>11 DEF HandBlocks, p, o
  <2> QED BY <2>1, <2>2, <2>3, Tags DEF Blocks
<1>18. Marks'
  <2> SUFFICES ASSUME NEW x \in Blocks'
               PROVE  /\ PageBuddy'[x[2]] <=> x[1] = "free"
                      /\ x[1] = "free" => private'[x[2]] = x[3]
    BY DEF Marks
  <2>1. CASE x = d
    <3>1. ~PageBuddy[p]
      <4>1. b[2] = p /\ b[1] = "hand"
        OBVIOUS
      <4> QED BY <1>1, <4>1 DEF IInv, Marks
    <3>2. ~PageBuddy'[m]
      BY <1>0, <1>4, <1>6, <3>1
    <3> QED BY <2>1, <3>2
  <2>2. CASE x # d
    <3>1. x \in Blocks /\ x # c
      BY <1>17, <2>2
    <3>2. c[2] = q
      OBVIOUS
    <3>3. x[2] # q
      BY <1>3, <3>1, <3>2, SameHead DEF IInv
    <3>4. x[2] \in Page
      BY <3>1, BlockParts DEF IInv, Tiling
    <3>5. PageBuddy'[x[2]] = PageBuddy[x[2]] /\ private'[x[2]] = private[x[2]]
      BY <1>0, <1>4, <3>3, <3>4
    <3> QED BY <3>1, <3>5 DEF IInv, Marks
  <2> QED BY <2>1, <2>2
<1> QED BY <1>7, <1>12, <1>13, <1>14, <1>15, <1>16, <1>17, <1>18 DEF IInv

\* The end of __free_one_page: the block goes on the free list of its order.
LEMMA MergeDoneStep ==
  ASSUME IInv, FellOff = "zero", MergeDone
  PROVE  IInv'
<1> DEFINE p == hand.pfn
           o == hand.order
           b == <<"hand", p, o>>
           c == <<"free", p, o>>
<1>0. /\ pc = "merge" /\ p \in Page /\ o \in Orders
      /\ UNCHANGED <<pcp, held, low, left, batch_head>>
      /\ free_list \in [Orders -> Seq(Page)] /\ nr_free \in [Orders -> Nat]
      /\ PageBuddy \in [Page -> BOOLEAN] /\ private \in [Page -> Nat]
      /\ free_list[o] \in Seq(Page) /\ Distinct(free_list[o])
      /\ hand' = NoBlock /\ NoBlock \in Block
  <2>1. NoBlock \in Block
    BY SizeAssumption, ConstTypes DEF NoBlock, Block, Page
  <2> QED BY <2>1 DEF IInv, TypeOK, MergeDone, Block, Lists
<1>1. b \in Blocks
  BY <1>0, OwnerIn DEF IInv
<1>2. p \notin Nodes(free_list[o])
  BY <1>0, <1>1, FreeIn, OneOwner DEF IInv
<1>3. o < MAX_ORDER - 1 => find_buddy_pfn(p, o) \notin Nodes(free_list[o])
  BY <1>0, BuddyMark DEF MergeDone, CanMerge
<1>4. PICK l : /\ free_list' = [free_list EXCEPT ![o] = l]
               /\ l = list_add_tail(p, free_list[o]) \/ l = list_add(p, free_list[o])
  BY DEF MergeDone
<1>5. /\ nr_free' = [nr_free EXCEPT ![o] = nr_free[o] + 1]
      /\ PageBuddy' = [PageBuddy EXCEPT ![p] = TRUE]
      /\ private' = [private EXCEPT ![p] = o]
      /\ pc' = IF list_empty(batch_head) THEN "idle" ELSE "drain"
  BY DEF MergeDone
<1>6. p % Pow2[o] = 0
  <2>1. b[2] = p /\ b[3] = o
    OBVIOUS
  <2> QED BY <1>1, <2>1 DEF IInv, Tiling, Aligned
<1>7. Tiling((Blocks \ {b}) \cup {c})
  BY <1>1, MoveTriple DEF IInv, Owner
<1> HIDE DEF p, o
<1>8. /\ free_list' \in [Orders -> Seq(Page)]
      /\ \A i \in Orders : i # o => free_list'[i] = free_list[i]
      /\ Distinct(free_list'[o]) /\ Len(free_list'[o]) = Len(free_list[o]) + 1
      /\ Nodes(free_list'[o]) = Nodes(free_list[o]) \cup {p}
  <2>1. /\ l \in Seq(Page) /\ Distinct(l) /\ Len(l) = Len(free_list[o]) + 1
        /\ Nodes(l) = Nodes(free_list[o]) \cup {p}
    <3>1. CASE l = list_add_tail(p, free_list[o])
      BY <1>0, <1>2, <3>1, ListAddTail
    <3>2. CASE l = list_add(p, free_list[o])
      BY <1>0, <1>2, <3>2, ListAdd
    <3> QED BY <1>4, <3>1, <3>2
  <2> QED BY <1>0, <1>4, <2>1
<1>9. /\ nr_free' \in [Orders -> Nat]
      /\ \A i \in Orders : nr_free'[i] = Len(free_list'[i])
  <2>1. \A i \in Orders : nr_free[i] = Len(free_list[i])
    BY DEF IInv, CountsAgree
  <2> QED BY <1>0, <1>5, <1>8, <2>1
<1>10. TypeOK'
  <2>1. o \in Nat
    BY <1>0, ConstTypes
  <2>2. PageBuddy' \in [Page -> BOOLEAN] /\ private' \in [Page -> Nat]
    BY <1>0, <1>5, <2>1
  <2> QED BY <1>0, <1>5, <1>8, <1>9, <2>2 DEF IInv, TypeOK, pcp
<1>11. Lists'
  BY <1>0, <1>8 DEF IInv, Lists, pcp
<1>12. Control'
  BY <1>0, <1>5 DEF Control
<1>13. CountsAgree'
  <2>1. Fetched' = 0 /\ Fetched = 0
    BY <1>0, <1>5 DEF Fetched
  <2> QED BY <1>0, <1>9, <2>1 DEF IInv, CountsAgree, pcp
<1>14. Coalesced'
  <2> SUFFICES ASSUME NEW i \in Orders, i < MAX_ORDER - 1,
                      NEW x \in Nodes(free_list'[i])
               PROVE  find_buddy_pfn(x, i) \notin Nodes(free_list'[i])
    BY DEF Coalesced
  <2>1. CASE i # o
    BY <1>8, <2>1 DEF IInv, Coalesced
  <2>2. CASE i = o /\ x = p
    <3>1. find_buddy_pfn(p, o) # p
      <4>1. p \in Nat /\ Pow2[o] \in Nat \ {0}
        BY <1>0, ConstTypes DEF Page
      <4> QED BY <4>1 DEF find_buddy_pfn
    <3> QED BY <1>3, <1>8, <2>2, <3>1
  <2>3. CASE i = o /\ x # p
    <3>1. x \in Nodes(free_list[o])
      BY <1>8, <2>3
    <3>2. find_buddy_pfn(x, o) \notin Nodes(free_list[o])
      BY <1>0, <2>3, <3>1 DEF IInv, Coalesced
    <3>3. x \in Page /\ x % Pow2[o] = 0
      <4> DEFINE y == <<"free", x, o>>
      <4>1. y \in Blocks /\ y[2] = x /\ y[3] = o
        BY <1>0, <3>1, FreeIn
      <4> HIDE DEF y
      <4> QED BY <4>1, BlockParts DEF IInv, Tiling, Aligned
    <3>4. find_buddy_pfn(find_buddy_pfn(x, o), o) = x
      BY <1>0, <2>3, <3>3, Buddies
    <3>5. find_buddy_pfn(x, o) # p
      BY <1>3, <2>3, <3>1, <3>4
    <3> QED BY <1>8, <2>3, <3>2, <3>5
  <2> QED BY <2>1, <2>2, <2>3
<1>15. Blocks' = (Blocks \ {b}) \cup {c}
  <2>1. FreeBlocks' = FreeBlocks \cup {c}
    <3>1. FreeBlocks = FreeSet(free_list) /\ FreeBlocks' = FreeSet(free_list')
      BY DEF FreeBlocks, FreeSet
    <3>2. Gains(free_list', free_list, o, p)
      BY <1>8 DEF Gains
    <3>3. FreeSet(free_list') = FreeSet(free_list) \cup {<<"free", p, o>>}
      BY <1>0, <3>2, FreeAdd
    <3> QED BY <3>1, <3>3
  <2>2. /\ PcpBlocks' = PcpBlocks /\ HeldBlocks' = HeldBlocks
        /\ BulkBlocks' = BulkBlocks
    BY <1>0 DEF pcp, PcpBlocks, HeldBlocks, BulkBlocks
  <2>3. HandBlocks' = {} /\ HandBlocks = {b}
    BY <1>0, <1>5 DEF HandBlocks, p, o
  <2> QED BY <2>1, <2>2, <2>3, Tags DEF Blocks
<1>16. Marks'
  <2> SUFFICES ASSUME NEW x \in Blocks'
               PROVE  /\ PageBuddy'[x[2]] <=> x[1] = "free"
                      /\ x[1] = "free" => private'[x[2]] = x[3]
    BY DEF Marks
  <2>1. CASE x = c
    BY <1>0, <1>5, <2>1
  <2>2. CASE x # c
    <3>1. x \in Blocks /\ x # b
      BY <1>15, <2>2
    <3>2. b[2] = p
      OBVIOUS
    <3>3. x[2] # p
      BY <1>1, <3>1, <3>2, SameHead DEF IInv
    <3>4. x[2] \in Page
      BY <3>1, BlockParts DEF IInv, Tiling
    <3>5. PageBuddy'[x[2]] = PageBuddy[x[2]] /\ private'[x[2]] = private[x[2]]
      BY <1>0, <1>5, <3>3, <3>4
    <3> QED BY <3>1, <3>5 DEF IInv, Marks
  <2> QED BY <2>1, <2>2
<1> QED BY <1>7, <1>10, <1>11, <1>12, <1>13, <1>14, <1>15, <1>16 DEF IInv

-----------------------------------------------------------------------------
\* memory_init leaves one free block of the largest order after the other.
LEMMA InitialBlocks ==
  /\ InitialList \in Seq(Page) /\ Distinct(InitialList)
  /\ Nodes(InitialList) = BlockHeads
  /\ \A x \in Page : \E p \in BlockHeads : Within(x, p, MAX_ORDER - 1)
<1> DEFINE M == Pow2[MAX_ORDER - 1]
<1>1. M \in Nat \ {0} /\ NrPages \in Nat /\ MAX_ORDER - 1 \in Orders
  BY ConstTypes
<1>2. PICK m \in Nat : NrPages = m * M
  BY <1>1, Divides
<1> HIDE DEF M
<1>3. NrPages \div M = m
  BY <1>1, <1>2
<1>4. ASSUME NEW i \in 1 .. m
      PROVE  /\ NrPages - i * M = (m - i) * M /\ m - i \in 0 .. m - 1
             /\ (m - i) * M \in Page /\ ((m - i) * M) % M = 0
  <2>1. NrPages - i * M = (m - i) * M /\ m - i \in Nat /\ m - i < m
    BY <1>1, <1>2
  <2>2. (m - i) * M + M <= m * M
    BY <1>1, <2>1, Multiples
  <2>3. (m - i) * M \in Nat /\ ((m - i) * M) % M = 0
    BY <1>1, <2>1, Multiples
  <2>4. (m - i) * M \in Page
    BY <1>1, <1>2, <2>2, <2>3 DEF Page
  <2> QED BY <2>1, <2>3, <2>4
<1>5. /\ InitialList = [i \in 1 .. m |-> NrPages - i * M]
      /\ BlockHeads = {p \in Page : p % M = 0}
  BY <1>3 DEF InitialList, BlockHeads, M
<1>6. /\ InitialList \in Seq(Page) /\ Len(InitialList) = m
      /\ \A i \in 1 .. m : InitialList[i] = NrPages - i * M
  BY <1>4, <1>5
<1>7. Distinct(InitialList)
  <2> SUFFICES ASSUME NEW i \in 1 .. m, NEW j \in 1 .. m, i < j
               PROVE  NrPages - i * M # NrPages - j * M
    BY <1>6 DEF Distinct
  <2>1. i * M + M <= j * M
    BY <1>1, Multiples
  <2> QED BY <1>1, <2>1
<1>8. ASSUME NEW p \in BlockHeads PROVE p \in Nodes(InitialList)
  <2>1. p \in Nat /\ p < NrPages /\ p % M = 0
    BY <1>1, <1>5 DEF Page
  <2>2. PICK k \in Nat : p = k * M
    BY <1>1, <2>1, Multiples
  <2>3. k < m
    BY <1>1, <1>2, <2>1, <2>2, Multiples
  <2>4. m - k \in 1 .. m /\ NrPages - (m - k) * M = p
    BY <1>1, <1>2, <2>2, <2>3
  <2> QED BY <1>6, <2>4 DEF Nodes
<1>9. Nodes(InitialList) = BlockHeads
  BY <1>4, <1>5, <1>6, <1>8 DEF Nodes
<1>10. ASSUME NEW x \in Page
       PROVE  \E p \in BlockHeads : Within(x, p, MAX_ORDER - 1)
  <2>1. x \in Nat /\ x < NrPages
    BY <1>1 DEF Page
  <2> DEFINE p == (x \div M) * M
  <2>2. p \in Nat /\ p <= x /\ x < p + M /\ p % M = 0
    <3>1. x \div M \in Nat /\ (x \div M) * M <= x /\ x < (x \div M) * M + M
      BY <1>1, <2>1
    <3>2. ((x \div M) * M) % M = 0
      BY <1>1, <3>1, Multiples
    <3> QED BY <1>1, <2>1, <3>1, <3>2
  <2> HIDE DEF p
  <2>3. p \in BlockHeads
    BY <1>1, <1>5, <2>1, <2>2 DEF Page
  <2> QED BY <2>2, <2>3 DEF Within, M
<1> QED BY <1>6, <1>7, <1>9, <1>10

\* The state memory_init leaves satisfies the inductive invariant.
LEMMA InitInv == Init => IInv
<1> SUFFICES ASSUME Init PROVE IInv
  OBVIOUS
<1> DEFINE o == MAX_ORDER - 1
<1>0. o \in Orders /\ 0 \in Orders /\ <<>> \in Seq(Page) /\ Len(InitialList) \in Nat
  BY InitialBlocks, ConstTypes
<1>1. /\ free_list[o] = InitialList
      /\ \A i \in Orders : i # o => free_list[i] = <<>>
      /\ free_list \in [Orders -> Seq(Page)]
      /\ nr_free \in [Orders -> Nat]
      /\ \A i \in Orders : nr_free[i] = Len(free_list[i])
      /\ batch_head = <<>> /\ pcp_list = <<>> /\ held = {} /\ pc = "idle"
      /\ pcp_count = 0
  BY <1>0, InitialBlocks DEF Init
<1>2. PICK stale \in [Page -> StalePage] :
        /\ PageBuddy = [p \in Page |-> p \in BlockHeads \/ stale[p].PageBuddy]
        /\ private = [p \in Page |-> IF p \in BlockHeads THEN MAX_ORDER - 1
                                                         ELSE stale[p].private]
  BY DEF Init
<1>3. PageBuddy \in [Page -> BOOLEAN] /\ private \in [Page -> Nat]
  <2>1. \A p \in Page : stale[p].PageBuddy \in BOOLEAN /\ stale[p].private \in Nat
    BY StaleAssumption
  <2>2. MAX_ORDER - 1 \in Nat
    BY ConstTypes
  <2>3. PageBuddy \in [Page -> BOOLEAN]
    BY <1>2
  <2>4. private \in [Page -> Nat]
    BY <1>2, <2>1, <2>2
  <2> QED BY <2>3, <2>4
<1>4. TypeOK
  <2>1. hand \in Block
    BY SizeAssumption, ConstTypes DEF Init, NoBlock, Block, Page
  <2> QED BY <1>0, <1>1, <1>3, <2>1 DEF TypeOK, Init
<1>5. Lists /\ Control /\ CountsAgree
  BY <1>1, InitialBlocks
     DEF Lists, Control, CountsAgree, Fetched, Distinct, list_empty
<1>6. Coalesced
  <2>1. ASSUME NEW i \in Orders, i < MAX_ORDER - 1 PROVE Nodes(free_list[i]) = {}
    <3>1. free_list[i] = <<>>
      BY <1>1, <2>1, ConstTypes
    <3> QED BY <3>1 DEF Nodes
  <2> QED BY <2>1 DEF Coalesced
<1>7. Blocks = {<<"free", p, o>> : p \in BlockHeads}
  <2>1. PcpBlocks = {} /\ BulkBlocks = {} /\ HeldBlocks = {} /\ HandBlocks = {}
    BY <1>1 DEF PcpBlocks, BulkBlocks, HeldBlocks, HandBlocks, Nodes
  <2>2. \A i \in Orders : i # o => Nodes(free_list[i]) = {}
    BY <1>1 DEF Nodes
  <2>3. Nodes(free_list[o]) = BlockHeads
    BY <1>1, InitialBlocks
  <2> HIDE DEF o
  <2>4. FreeSet(free_list) = {<<"free", p, o>> : p \in BlockHeads}
    <3>1. ASSUME NEW x \in FreeSet(free_list)
          PROVE  x \in {<<"free", p, o>> : p \in BlockHeads}
      <4>1. PICK i, q : /\ i \in Orders /\ q \in Nodes(free_list[i])
                        /\ x = <<"free", q, i>>
        BY FreeSetDef
      <4> QED BY <2>2, <2>3, <4>1
    <3>2. ASSUME NEW p \in BlockHeads PROVE <<"free", p, o>> \in FreeSet(free_list)
      BY <1>0, <2>3, FreeSetDef
    <3> QED BY <3>1, <3>2
  <2> QED BY <2>1, <2>4, Tags DEF Blocks
<1>8. Tiling(Blocks)
  <2>1. ASSUME NEW b \in Blocks
        PROVE  /\ b \in Owner \X Page \X Orders /\ b[2] \in BlockHeads /\ b[3] = o
               /\ b[1] = "free" /\ b[2] % Pow2[b[3]] = 0 /\ b = <<"free", b[2], o>>
    BY <1>0, <1>7 DEF Owner, BlockHeads
  <2>2. Disjoint(Blocks)
    <3> SUFFICES ASSUME NEW b \in Blocks, NEW c \in Blocks, b # c
                 PROVE  Apart(b[2], b[3], c[2], c[3])
      BY DEF Disjoint
    <3>1. b[2] # c[2] /\ b[3] = o /\ c[3] = o /\ b[2] \in Nat /\ c[2] \in Nat
      BY <2>1, BlockParts
    <3>2. \/ Apart(b[2], o, c[2], o)
          \/ c[2] <= b[2] /\ b[2] + Pow2[o] <= c[2] + Pow2[o]
      <4>1. b[2] % Pow2[o] = 0 /\ c[2] % Pow2[o] = 0 /\ o <= o
        BY <1>0, <2>1, <3>1, ConstTypes
      <4> QED BY <1>0, <3>1, <4>1, Nested
    <3>3. Pow2[o] \in Nat
      BY <1>0, ConstTypes
    <3>4. Apart(b[2], o, c[2], o)
      BY <3>1, <3>2, <3>3
    <3> QED BY <3>1, <3>4
  <2>3. Covers(Blocks)
    <3> SUFFICES ASSUME NEW x \in Page
                 PROVE  \E b \in Blocks : Within(x, b[2], b[3])
      BY DEF Covers
    <3>1. PICK p \in BlockHeads : Within(x, p, o)
      BY InitialBlocks
    <3> DEFINE b == <<"free", p, o>>
    <3>2. b \in Blocks /\ b[2] = p /\ b[3] = o
      BY <1>7
    <3> HIDE DEF b
    <3> QED BY <3>1, <3>2
  <2> QED BY <2>1, <2>2, <2>3 DEF Tiling, Aligned
<1>9. Marks
  <2> SUFFICES ASSUME NEW b \in Blocks
               PROVE  /\ PageBuddy[b[2]] <=> b[1] = "free"
                      /\ b[1] = "free" => private[b[2]] = b[3]
    BY DEF Marks
  <2>1. PICK p \in BlockHeads : b = <<"free", p, o>>
    BY <1>7
  <2>2. p \in Page
    BY DEF BlockHeads
  <2>3. PageBuddy[p] /\ private[p] = o
    BY <1>2, <2>2
  <2> QED BY <2>1, <2>3
<1> QED BY <1>4, <1>5, <1>6, <1>8, <1>9 DEF IInv

-----------------------------------------------------------------------------
\* Every step preserves the inductive invariant.
LEMMA NextInv ==
  ASSUME FellOff = "zero", IInv, [Next]_vars
  PROVE  IInv'
<1>1. CASE UNCHANGED vars
  <2>1. TypeOK' /\ Lists' /\ Control' /\ CountsAgree' /\ Coalesced'
    BY <1>1 DEF vars, IInv, TypeOK, Lists, Control, CountsAgree, Coalesced, Fetched
  <2>2. Blocks' = Blocks
    BY <1>1 DEF vars, Blocks, FreeBlocks, PcpBlocks, BulkBlocks, HeldBlocks,
                HandBlocks
  <2>3. Marks'
    BY <1>1, <2>2 DEF vars, IInv, Marks
  <2> QED BY <2>1, <2>2, <2>3 DEF IInv
<1>2. CASE Step
  <2>1. CASE BulkTake
    BY <2>1, BulkTakeStep
  <2>2. CASE BulkFree
    BY <2>2, BulkFreeStep
  <2>3. CASE Merge
    BY <2>3, MergeStep
  <2>4. CASE MergeDone
    BY <2>4, MergeDoneStep
  <2>5. CASE Refill
    BY <2>5, RefillStep
  <2>6. CASE RefillDone
    BY <2>6, RefillDoneStep
  <2>7. CASE Expand
    BY <2>7, ExpandStep
  <2>8. CASE ExpandDone
    BY <2>8, ExpandDoneStep
  <2> QED BY <1>2, <2>1, <2>2, <2>3, <2>4, <2>5, <2>6, <2>7, <2>8 DEF Step
<1>3. CASE Call
  <2>1. ASSUME NEW p \in Page, NEW o \in Orders, FreePagesOk(p, o) PROVE IInv'
    BY <2>1, FreePagesOkStep
  <2>2. ASSUME NEW p \in Page, FreeUnrefPage(p) PROVE IInv'
    BY <2>2, FreeUnrefPageStep
  <2>3. ASSUME NEW o \in Orders, AllocPages(o) PROVE IInv'
    BY <2>3, AllocPagesStep
  <2>4. CASE AllocPcp
    BY <2>4, AllocPcpStep
  <2>5. CASE StartRefill
    BY <2>5, StartRefillStep
  <2> QED BY <1>3, <2>1, <2>2, <2>3, <2>4, <2>5 DEF Call
<1> QED BY <1>1, <1>2, <1>3 DEF Next

\* The inductive invariant holds throughout: the blocks of __free_one_page,
\* expand, rmqueue_bulk and free_pcppages_bulk tile the memory, marks, counters
\* and lists agree, and free buddies are merged.
THEOREM Invariance ==
  ASSUME FellOff = "zero"
  PROVE  Spec => []IInv
<1>1. IInv /\ [Next]_vars => IInv'
  BY NextInv
<1> QED BY <1>1, InitInv, PTL DEF Spec

\* Type correctness: no counter of the allocator underflows, no list links
\* anything but pages.
THEOREM TypeCorrect ==
  ASSUME FellOff = "zero"
  PROVE  Spec => []TypeOK
<1>1. IInv => TypeOK
  BY DEF IInv
<1> QED BY <1>1, Invariance, PTL

\* Whatever callers do, the blocks tile the memory: no page of the zone is lost
\* or given to two owners by __alloc_pages and __free_pages.
THEOREM Partitioned ==
  ASSUME FellOff = "zero"
  PROVE  Spec => []Partition
<1>1. IInv => Partition
  BY DEF IInv, Tiling, Partition
<1> QED BY <1>1, Invariance, PTL

\* PG_buddy and private agree with the free lists wherever page_is_buddy reads
\* them, whatever malloc'd memory held before.
THEOREM MarksCorrect ==
  ASSUME FellOff = "zero"
  PROVE  Spec => []Marks
<1>1. IInv => Marks
  BY DEF IInv
<1> QED BY <1>1, Invariance, PTL

\* No two free buddies ever stay apart on the free lists.
THEOREM AlwaysCoalesced ==
  ASSUME FellOff = "zero"
  PROVE  Spec => []Coalesced
<1>1. IInv => Coalesced
  BY DEF IInv
<1> QED BY <1>1, Invariance, PTL

\* nr_free and pcp->count count what is on the lists.
THEOREM CountsCorrect ==
  ASSUME FellOff = "zero"
  PROVE  Spec => []CountsAgree
<1>1. IInv => CountsAgree
  BY DEF IInv
<1> QED BY <1>1, Invariance, PTL

-----------------------------------------------------------------------------
(***************************************************************************)
(* 4. What the inductive invariant means for the callers: what they see    *)
(* is PageAllocator, memory given back is whole again, one page is refused *)
(* only when none is left, and the PCP list stays bounded.                 *)
(***************************************************************************)

\* A block that leaves another owner for a caller is one PageAllocator may give.
LEMMA GiveStep ==
  ASSUME IInv, NEW k, NEW p, NEW o, <<k, p, o>> \in Blocks, k # "held",
         held' = held \cup {<<p, o>>}
  PROVE  Abs!Next
<1> DEFINE b == <<k, p, o>>
<1>1. b[1] = k /\ b[2] = p /\ b[3] = o /\ b \in Blocks
  OBVIOUS
<1> HIDE DEF b
<1>2. p \in Page /\ o \in Orders /\ p % Pow2[o] = 0
  BY <1>1, BlockParts DEF IInv, Tiling, Aligned
<1>3. p + Pow2[o] <= NrPages
  BY <1>2, InMemory
<1>4. ASSUME NEW h \in held
      PROVE  p + Pow2[o] <= h[1] \/ h[1] + Pow2[h[2]] <= p
  <2> DEFINE c == <<"held", h[1], h[2]>>
  <2>1. c[1] = "held" /\ c[2] = h[1] /\ c[3] = h[2]
    OBVIOUS
  <2>2. c \in Blocks
    BY DEF Blocks, HeldBlocks
  <2> HIDE DEF c
  <2>3. Apart(b[2], b[3], c[2], c[3])
    BY <1>1, <2>1, <2>2 DEF IInv, Tiling, Disjoint
  <2> QED BY <1>1, <2>1, <2>3 DEF Apart
<1>5. Abs!Alloc(p, o)
  BY <1>2, <1>3, <1>4 DEF Abs!Alloc
<1> QED BY <1>2, <1>5 DEF Abs!Next, Page, Orders

\* Every step is one of PageAllocator's, or one that callers do not see.
LEMMA StepRefines ==
  ASSUME IInv, [Next]_vars
  PROVE  [Abs!Next]_held
<1> SUFFICES ASSUME held' # held PROVE Abs!Next
  OBVIOUS
<1>1. ASSUME NEW p, NEW o, <<p, o>> \in held, held' = held \ {<<p, o>>}
      PROVE  Abs!Next
  BY <1>1 DEF Abs!Next, Abs!Free
<1>2. ASSUME NEW p \in Page, NEW o \in Orders, FreePagesOk(p, o) PROVE Abs!Next
  BY <1>1, <1>2 DEF FreePagesOk
<1>3. ASSUME NEW p \in Page, FreeUnrefPage(p) PROVE Abs!Next
  BY <1>1, <1>3 DEF FreeUnrefPage
<1>4. ASSUME ~list_empty(pcp_list),
             held' = held \cup {<<list_first_entry(pcp_list), 0>>}
      PROVE  Abs!Next
  <2> DEFINE p == list_first_entry(pcp_list)
  <2>1. p \in Nodes(pcp_list)
    BY <1>4, NodesType DEF IInv, TypeOK
  <2>2. <<"pcp", p, 0>> \in Blocks
    BY <2>1, OwnerIn DEF IInv
  <2> QED BY <1>4, <2>2, GiveStep
<1>5. CASE AllocPcp
  BY <1>4, <1>5 DEF AllocPcp
<1>6. CASE RefillDone
  <2>1. ~list_empty(pcp_list)
    BY <1>6 DEF RefillDone
  <2> QED BY <1>4, <1>6, <2>1 DEF RefillDone
<1>7. CASE ExpandDone
  <2>1. held' = held \cup {<<hand.pfn, hand.order>>} /\ pc = "expand"
    BY <1>7 DEF ExpandDone
  <2>2. <<"hand", hand.pfn, hand.order>> \in Blocks
    BY <2>1, OwnerIn DEF IInv
  <2> QED BY <2>1, <2>2, GiveStep
<1>8. CASE UNCHANGED vars
  BY <1>8 DEF vars
<1>9. CASE BulkTake \/ BulkFree \/ Merge \/ MergeDone \/ Expand
  BY <1>9 DEF BulkTake, BulkFree, Merge, MergeDone, Expand
<1>10. CASE Refill \/ StartRefill
  BY <1>10 DEF Refill, StartRefill
<1>11. ASSUME NEW o \in Orders, AllocPages(o) PROVE Abs!Next
  BY <1>11 DEF AllocPages
<1> QED BY <1>2, <1>3, <1>5, <1>6, <1>7, <1>8, <1>9, <1>10, <1>11
        DEF Next, Step, Call

\* The allocator implements PageAllocator: blocks handed out by __alloc_pages
\* are aligned, inside the memory and apart from all blocks in use, and only
\* __free_pages takes one away.
THEOREM Refinement ==
  ASSUME FellOff = "zero"
  PROVE  Spec => ImplementsPageAllocator
<1>1. Init => Abs!Init
  BY DEF Init, Abs!Init
<1>2. IInv /\ [Next]_vars => [Abs!Next]_held
  BY StepRefines
<1> QED BY <1>1, <1>2, Invariance, PTL DEF Spec, ImplementsPageAllocator, Abs!Spec

-----------------------------------------------------------------------------
\* A non-empty set of naturals has a least element.
LEMMA Least ==
  ASSUME NEW T, T \subseteq Nat, T # {}
  PROVE  \E x \in T : \A y \in T : x <= y
<1> DEFINE R == OpToRel(<, Nat)
<1>1. IsWellFoundedOn(R, Nat)
  BY NatLessThanWellFounded
<1>2. \A x, y \in Nat : y < x => <<y, x>> \in R
  BY DEF OpToRel
<1> HIDE DEF R
<1>3. PICK x \in T : \A y \in T : ~ (<<y, x>> \in R)
  BY <1>1, WFMin
<1>4. \A y \in T : x <= y
  <2> SUFFICES ASSUME NEW y \in T PROVE x <= y
    OBVIOUS
  <2>1. x \in Nat /\ y \in Nat
    OBVIOUS
  <2>2. ~(y < x)
    BY <1>2, <1>3, <2>1
  <2> QED BY <2>1, <2>2
<1> QED BY <1>4

\* If all blocks are free, none is smaller than the largest order: the buddy of
\* a smallest one would be free, and of the same order.
LEMMA AllFreeIsWhole ==
  ASSUME IInv, \A b \in Blocks : b[1] = "free"
  PROVE  \A b \in Blocks : b[3] = MAX_ORDER - 1
<1> SUFFICES ASSUME NEW e \in Blocks, e[3] # MAX_ORDER - 1 PROVE FALSE
  OBVIOUS
<1> DEFINE T == {b[3] : b \in Blocks}
<1>1. \A b \in Blocks : b[3] \in Orders /\ b[3] \in Nat
  BY BlockParts DEF IInv, Tiling
<1>2. PICK o \in T : \A i \in T : o <= i
  <2>1. T \subseteq Nat /\ T # {}
    BY <1>1
  <2> HIDE DEF T
  <2> QED BY <2>1, Least
<1>3. PICK b \in Blocks : b[3] = o
  BY <1>2
<1>4. o \in Orders /\ o < MAX_ORDER - 1
  <2>1. o <= e[3] /\ e[3] \in Orders /\ o \in Orders
    BY <1>1, <1>2, <1>3
  <2> QED BY <2>1, ConstTypes DEF Orders
<1> DEFINE q == find_buddy_pfn(b[2], b[3])
<1>5. PICK c \in Blocks : c[2] = q /\ c[3] <= b[3] /\ c # b
  BY <1>3, <1>4, BuddyIsHead DEF IInv
<1>6. c[3] = o
  <2>1. o <= c[3] /\ c[3] \in Nat /\ o \in Nat
    BY <1>1, <1>2, <1>3
  <2> QED BY <1>3, <1>5, <2>1
<1>7. b = <<"free", b[2], o>> /\ c = <<"free", q, o>>
  BY <1>3, <1>5, <1>6, BlockParts DEF IInv, Tiling
<1>8. b[2] \in Nodes(free_list[o]) /\ q \in Nodes(free_list[o])
  BY <1>4, <1>7, FreeIn
<1> QED BY <1>3, <1>4, <1>8 DEF IInv, Coalesced

\* After every page came back, __free_one_page has restored the state that
\* memory_init set up: blocks of the largest order only.
THEOREM AlwaysRestored ==
  ASSUME FellOff = "zero"
  PROVE  Spec => []Restored
<1>1. ASSUME IInv PROVE Restored
  <2> SUFFICES ASSUME pc = "idle", held = {}, list_empty(pcp_list)
               PROVE  Nodes(free_list[MAX_ORDER - 1]) = BlockHeads
    BY DEF Restored
  <2> DEFINE o == MAX_ORDER - 1
  <2>1. o \in Orders /\ Pow2[o] \in Nat \ {0}
    BY ConstTypes
  <2>2. Blocks = FreeBlocks
    <3>1. PcpBlocks = {} /\ BulkBlocks = {} /\ HeldBlocks = {} /\ HandBlocks = {}
      BY <1>1, NodesType
         DEF PcpBlocks, BulkBlocks, HeldBlocks, HandBlocks, IInv, TypeOK, Control
    <3> QED BY <3>1 DEF Blocks
  <2>3. \A b \in Blocks : b[1] = "free" /\ b[3] = o
    BY <1>1, <2>2, Tags, AllFreeIsWhole
  <2>4. ASSUME NEW p \in Nodes(free_list[o]) PROVE p \in BlockHeads
    <3> DEFINE b == <<"free", p, o>>
    <3>1. b \in Blocks /\ b[2] = p /\ b[3] = o
      BY <2>1, FreeIn
    <3> HIDE DEF b
    <3> QED BY <1>1, <3>1, BlockParts DEF IInv, Tiling, Aligned, BlockHeads
  <2>5. ASSUME NEW p \in BlockHeads PROVE p \in Nodes(free_list[o])
    <3>1. p \in Page /\ p \in Nat /\ p % Pow2[o] = 0
      BY DEF BlockHeads, Page
    <3>2. PICK b \in Blocks : Within(p, b[2], b[3])
      BY <1>1, <3>1 DEF IInv, Tiling, Covers
    <3>3. /\ b[3] = o /\ b = <<"free", b[2], o>> /\ b[2] \in Nat
          /\ b[2] % Pow2[o] = 0
      BY <1>1, <2>3, BlockParts DEF IInv, Tiling, Aligned
    <3>4. b[2] = p
      <4>1. \/ Apart(p, o, b[2], o)
            \/ b[2] <= p /\ p + Pow2[o] <= b[2] + Pow2[o]
        <5>1. o <= o
          BY <2>1, ConstTypes
        <5> QED BY <2>1, <3>1, <3>3, <5>1, Nested
      <4> QED BY <2>1, <3>1, <3>2, <3>3, <4>1 DEF Apart, Within
    <3> QED BY <2>1, <3>3, <3>4, FreeIn
  <2> QED BY <2>4, <2>5
<1> QED BY <1>1, Invariance, PTL

-----------------------------------------------------------------------------
\* A request for one page is refused (rmqueue_bulk found nothing and the PCP
\* list is empty) only if callers hold all the memory.
THEOREM NullOnlyWhenFull ==
  ASSUME FellOff = "zero"
  PROVE  Spec => NullMeansFull
<1> DEFINE Full == \A x \in Page : \E b \in held : Within(x, b[1], b[2])
           Refused == pc = "refill" /\ pc' = "idle" /\ held' = held
<1>1. ASSUME IInv, Next, Refused PROVE Full
  <2>1. RefillDone
    BY <1>1 DEF Next, Step, Call, BulkTake, BulkFree, Merge, MergeDone, Refill,
                Expand, ExpandDone, FreePagesOk, FreeUnrefPage, AllocPages,
                AllocPcp, StartRefill, RmqueueSmallest
  <2>2. list_empty(pcp_list)
    <3> SUFFICES ASSUME ~list_empty(pcp_list) PROVE FALSE
      OBVIOUS
    <3> DEFINE p == list_first_entry(pcp_list)
    <3>1. <<p, 0>> \in held
      BY <1>1, <2>1 DEF RefillDone
    <3>2. <<"held", p, 0>> \in Blocks
      BY <1>1, <3>1, OwnerIn DEF IInv
    <3>3. p \in Nodes(pcp_list)
      BY <1>1, NodesType DEF IInv, TypeOK
    <3>4. <<"pcp", p, 0>> \in Blocks
      BY <1>1, <3>3, OwnerIn DEF IInv
    <3> HIDE DEF p
    <3> QED BY <1>1, <3>2, <3>4, OneOwner DEF IInv
  <2>3. left # 0
    <3>1. batch \in Nat \ {0}
      BY PcpAssumption DEF batch
    <3>2. Len(pcp_list) = 0 /\ Len(pcp_list) = pcp_count + (batch - left)
      BY <1>1, <2>2 DEF IInv, CountsAgree, Fetched, list_empty
    <3>3. pcp_count \in Nat /\ left \in Nat
      BY <1>1 DEF IInv, TypeOK
    <3> QED BY <3>1, <3>2, <3>3
  <2>4. \A o \in Orders : list_empty(free_list[o])
    BY <2>1, <2>3 DEF RefillDone
  <2>5. Blocks = HeldBlocks
    <3>1. \A o \in Orders : Nodes(free_list[o]) = {}
      BY <1>1, <2>4, NodesType DEF IInv, TypeOK
    <3>2. FreeBlocks = {}
      BY <3>1 DEF FreeBlocks
    <3>3. list_empty(batch_head)
      BY <1>1 DEF IInv, Control
    <3>4. PcpBlocks = {} /\ BulkBlocks = {} /\ HandBlocks = {}
      BY <1>1, <2>2, <3>3, NodesType
         DEF PcpBlocks, BulkBlocks, HandBlocks, IInv, TypeOK
    <3> QED BY <3>2, <3>4 DEF Blocks
  <2> SUFFICES ASSUME NEW x \in Page
               PROVE  \E b \in held : Within(x, b[1], b[2])
    OBVIOUS
  <2>6. PICK c \in HeldBlocks : Within(x, c[2], c[3])
    BY <1>1, <2>5 DEF IInv, Tiling, Covers
  <2>7. PICK b \in held : c = <<"held", b[1], b[2]>>
    BY DEF HeldBlocks
  <2> QED BY <2>6, <2>7
<1>2. IInv /\ [Next]_vars => [Refused => Full]_vars
  BY <1>1
<1> QED BY <1>2, Invariance, PTL DEF Spec, NullMeansFull

-----------------------------------------------------------------------------
\* How far the PCP list is from its high mark in every loop.
PcpLow == pcp_count < high \/ pcp_count = 0

PcpInv ==
  /\ pc \in {"idle", "merge", "drain"} => PcpLow
  /\ pc = "expand" /\ low # 0 => PcpLow
  /\ pc = "refill" \/ (pc = "expand" /\ low = 0) => pcp_count = 0
  /\ pc = "bulk" => pcp_count <= high \/ pcp_count <= 1

\* Every step keeps it.
LEMMA PcpStep ==
  ASSUME IInv, PcpInv, [Next]_vars
  PROVE  PcpInv'
<1>0. /\ high \in Nat /\ batch \in Nat \ {0} /\ pcp_count \in Nat /\ left \in Nat
      /\ batch - 1 < high \/ batch - 1 = 0
  <2>1. BATCH_SIZE \in Nat /\ HIGH_FACTOR \in Nat \ {0}
    BY PcpAssumption
  <2>2. high \in Nat /\ BATCH_SIZE <= high
    BY <2>1 DEF high
  <2> QED BY <2>1, <2>2 DEF batch, IInv, TypeOK
<1>1. CASE BulkTake
  <2>1. pcp_count' = pcp_count - 1 /\ pc = "bulk" /\ pc' \in {"bulk", "drain"}
    BY <1>1 DEF BulkTake
  <2>2. pcp_count > 0
    <3>1. ~list_empty(pcp_list) /\ Len(pcp_list) = pcp_count
      BY <1>0, <2>1 DEF IInv, Control, CountsAgree, Fetched
    <3> QED BY <1>0, <3>1 DEF list_empty
  <2> QED BY <1>0, <2>1, <2>2 DEF PcpInv, PcpLow, high
<1>2. CASE RefillDone
  <2>1. pc = "refill" /\ pc' = "idle" /\ pcp_count = 0 /\ left <= batch
    BY <1>2 DEF RefillDone, PcpInv, IInv, Control
  <2>2. \/ pcp_count' = pcp_count
        \/ pcp_count' = pcp_count + (batch - left) - 1 /\ ~list_empty(pcp_list)
    BY <1>2 DEF RefillDone, pcp
  <2>3. PcpLow'
    BY <1>0, <2>1, <2>2 DEF PcpLow, high
  <2> QED BY <2>1, <2>3 DEF PcpInv
<1>3. ASSUME NEW p \in Page, FreeUnrefPage(p) PROVE PcpInv'
  BY <1>0, <1>3 DEF FreeUnrefPage, PcpInv, PcpLow, high
<1>4. CASE AllocPcp
  <2>1. pcp_count' = pcp_count - 1 /\ pc = "idle" /\ pc' = "idle"
    BY <1>4 DEF AllocPcp
  <2>2. pcp_count > 0
    <3>1. ~list_empty(pcp_list) /\ Len(pcp_list) = pcp_count
      BY <1>0, <1>4, <2>1 DEF IInv, CountsAgree, Fetched, AllocPcp
    <3> QED BY <1>0, <3>1 DEF list_empty
  <2> QED BY <1>0, <2>1, <2>2 DEF PcpInv, PcpLow, high
<1>5. CASE StartRefill
  <2>1. list_empty(pcp_list) /\ pc = "idle" /\ pc' = "refill"
        /\ pcp_count' = pcp_count
    BY <1>5 DEF StartRefill, pcp
  <2>2. pcp_count = 0
    BY <1>0, <2>1 DEF IInv, CountsAgree, Fetched, list_empty
  <2> QED BY <2>1, <2>2 DEF PcpInv
<1>6. CASE BulkFree \/ Merge \/ MergeDone \/ Expand
  BY <1>6 DEF BulkFree, Merge, MergeDone, Expand, pcp, PcpInv, PcpLow
<1>7. CASE ExpandDone
  BY <1>7 DEF ExpandDone, PcpInv, PcpLow
<1>8. ASSUME NEW p \in Page, NEW o \in Orders, FreePagesOk(p, o) PROVE PcpInv'
  BY <1>8 DEF FreePagesOk, pcp, PcpInv, PcpLow
<1>9. CASE Refill
  BY <1>9 DEF Refill, RmqueueSmallest, pcp, PcpInv, PcpLow
<1>10. ASSUME NEW o \in Orders, AllocPages(o) PROVE PcpInv'
  <2>1. o # 0 /\ pc = "idle" /\ pc' = "expand" /\ low' = o
        /\ pcp_count' = pcp_count
    BY <1>10, ConstTypes DEF AllocPages, RmqueueSmallest, pcp
  <2> QED BY <2>1 DEF PcpInv, PcpLow
<1>11. CASE UNCHANGED vars
  BY <1>11 DEF vars, PcpInv, PcpLow
<1> QED BY <1>1, <1>2, <1>3, <1>4, <1>5, <1>6, <1>7, <1>8, <1>9, <1>10, <1>11
        DEF Next, Step, Call

\* Between calls pcp->count is below pcp->high, for every batch size.
THEOREM PcpBounded ==
  ASSUME FellOff = "zero"
  PROVE  Spec => []PcpBelowHigh
<1>1. Init => PcpInv
  BY DEF Init, PcpInv, PcpLow
<1>2. IInv /\ PcpInv /\ [Next]_vars => PcpInv'
  BY PcpStep
<1>3. PcpInv => PcpBelowHigh
  BY DEF PcpInv, PcpLow, PcpBelowHigh
<1> QED BY <1>1, <1>2, <1>3, Invariance, PTL DEF Spec
=============================================================================
