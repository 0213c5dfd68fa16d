----------------------------- MODULE VmapProofs -----------------------------
(***************************************************************************)
(* Proofs about Vmap, for any address space, requests and page frames: the *)
(* areas stay apart, the cached area and hole are what the search takes    *)
(* them for, and pages and page table agree.                               *)
(***************************************************************************)
EXTENDS Vmap, FiniteSetTheorems, WellFoundedInduction, TLAPS

Types ==
  /\ areas \subseteq Area /\ cache \in Area /\ hole_size \in Nat
  /\ pages \in [VPage -> Frames \cup {NoFrame}]
  /\ pte \in [VPage -> Frames \cup {NoFrame}]
  /\ free_frames \subseteq Frames
  /\ pc \in {"idle", "retry", "walk", "found", "array", "pages", "map"}
  /\ size \in Nat /\ addr \in Nat /\ first \in Area /\ area \in Area

\* The search has come to `addr', which is where the space or a hole begins, and
\* hole_size bounds the holes below, none of which is larger than the request.
Reached ==
  /\ hole_size <= size
  /\ addr = 0 \/ \E a \in areas : a.va_end = addr
  /\ \A x, y \in Nat : x < y /\ y <= addr /\ IsFree(x, y) => y - x <= hole_size

\* No area lies between `addr' and `first', which is the next area, or the cached
\* one that ends at `addr'.
AtNext ==
  /\ first \in areas
  /\ addr <= first.va_start \/ addr = first.va_end
  /\ \A a \in areas : a.va_end <= addr \/ first.va_start <= a.va_start

Searching ==
  /\ pc \in {"retry", "walk", "found"} => size > 0
  /\ pc \in {"walk", "found"} => Reached
  /\ pc = "walk" => AtNext
  /\ pc = "found" /\ addr + size <= VMALLOC_END => IsFree(addr, addr + size)

\* The area of the call in progress; it has no pages before there is an array.
Building ==
  /\ pc \in {"array", "pages", "map"} => area \in areas
  /\ pc = "array" => \A v \in Mapped(area) : v \in VPage => pages[v] = NoFrame

IInv == Types /\ Disjoint /\ CacheSound /\ Searching /\ Building /\ Owned

LEMMA InitIInv == Init => IInv
<1> SUFFICES ASSUME Init PROVE IInv
  OBVIOUS
<1>1. Types
  BY FrameAssumption DEF Init, Types, Area, NoArea
<1>2. Disjoint /\ CacheSound /\ Searching /\ Building
  BY DEF Init, Disjoint, CacheSound, Searching, Building
<1>3. Owned
  BY DEF Init, Owned
<1> QED
  BY <1>1, <1>2, <1>3 DEF IInv

\* A non-empty set of naturals below a bound has a greatest element.
LEMMA Greatest ==
  ASSUME NEW T, NEW m \in Nat, T \subseteq 0 .. m, T # {}
  PROVE  \E x \in T : \A y \in T : y <= x
<1> DEFINE R == OpToRel(<, Nat)
           D == {m - x : x \in T}
<1>1. IsWellFoundedOn(R, Nat)
  BY NatLessThanWellFounded
<1>2. \A x, y \in Nat : y < x => <<y, x>> \in R
  BY DEF OpToRel
<1> HIDE DEF R
<1>3. D \subseteq Nat /\ D # {}
  <2>1. \A x \in T : x \in 0 .. m /\ m - x \in Nat
    OBVIOUS
  <2>2. PICK x \in T : TRUE
    OBVIOUS
  <2>3. m - x \in D
    OBVIOUS
  <2> QED
    BY <2>1, <2>3
<1>4. PICK d \in D : \A e \in D : ~ (<<e, d>> \in R)
  <2> HIDE DEF D
  <2> QED
    BY <1>1, <1>3, WFMin
<1>5. PICK x \in T : d = m - x
  OBVIOUS
<1>6. \A y \in T : y <= x
  <2> SUFFICES ASSUME NEW y \in T PROVE y <= x
    OBVIOUS
  <2>1. x \in 0 .. m /\ y \in 0 .. m /\ m - y \in D /\ m - y \in Nat /\ m - x \in Nat
    OBVIOUS
  <2>2. ~ (m - y < m - x)
    BY <1>2, <1>4, <1>5, <2>1
  <2> QED
    BY <2>1, <2>2
<1> QED
  BY <1>6

\* rb_prev returns the area before the given one, or NULL if there is none.
LEMMA PrevIsBefore ==
  ASSUME IInv, NEW a \in areas
  PROVE  \/ rb_prev(a) = NoArea
         \/ rb_prev(a) \in areas /\ rb_prev(a).va_end <= a.va_start
<1>1. CASE \E b \in areas : b.va_end <= a.va_start
  <2> DEFINE T == {b.va_end : b \in {c \in areas : c.va_end <= a.va_start}}
  <2>1. \A b \in areas : b.va_start \in Nat /\ b.va_end \in Nat
    BY DEF IInv, Types, Area
  <2>2. T \subseteq 0 .. a.va_start /\ T # {} /\ a.va_start \in Nat
    BY <1>1, <2>1
  <2>3. PICK e \in T : \A f \in T : f <= e
    <3> HIDE DEF T
    <3> QED
      BY <2>2, Greatest
  <2>4. \E b \in areas : IsPrev(a, b)
    BY <2>3 DEF IsPrev
  <2>5. IsPrev(a, rb_prev(a))
    BY <1>1, <2>4 DEF rb_prev
  <2> QED
    BY <2>5 DEF IsPrev
<1>2. CASE ~ \E b \in areas : b.va_end <= a.va_start
  BY <1>2 DEF rb_prev
<1> QED
  BY <1>1, <1>2

-----------------------------------------------------------------------------
(* The search for address space. *)

\* The parts of the state that only the pages of an area are about.
LEMMA PagesUntouched ==
  ASSUME IInv, UNCHANGED <<pages, pte, free_frames>>, areas \subseteq areas'
  PROVE  Owned'
BY DEF IInv, Owned, Mapped

\* `retry': a search that starts at the cached area has seen the holes below it.
LEMMA RetryStep == ASSUME IInv, Retry PROVE CacheSound' /\ Searching'
<1>1. /\ pc = "retry" /\ pc' \in {"walk", "found"} /\ size > 0 /\ size \in Nat
      /\ UNCHANGED <<areas, size>>
  BY DEF Retry, IInv, Searching, Types
<1>2. \A a \in areas : a.va_start \in Nat /\ a.va_end \in Nat /\ a.va_start < a.va_end
                       /\ a.va_end <= VMALLOC_END
  BY DEF IInv, Types, Area, Disjoint
<1>3. CASE UseCache
  <2>1. /\ addr' = cache.va_end /\ first' = cache /\ pc' = "walk"
        /\ UNCHANGED <<cache, hole_size>>
    BY <1>3 DEF Retry
  <2>2. cache \in areas /\ cache # NoArea /\ hole_size <= size /\ hole_size \in Nat
    BY <1>1, <1>3 DEF UseCache, IInv, CacheSound, Types
  <2>3. CacheSound'
    BY <1>1, <2>1 DEF IInv, CacheSound, IsFree
  <2>4. ASSUME NEW x \in Nat, NEW y \in Nat, x < y, y <= cache.va_end, IsFree(x, y)
        PROVE  y - x <= hole_size
    <3>1. y <= cache.va_start
      BY <1>2, <2>2, <2>4 DEF IsFree
    <3>2. x \in VPage /\ y \in VPage
      BY <1>2, <2>2, <2>4, <3>1, SpaceAssumption DEF VPage
    <3> QED
      BY <2>2, <2>4, <3>1, <3>2 DEF IInv, CacheSound
  <2>5. Reached'
    BY <1>1, <2>1, <2>2, <2>4 DEF Reached, IsFree
  <2>6. AtNext'
    <3>1. \A a \in areas : a.va_end <= cache.va_end \/ cache.va_start <= a.va_start
      BY <1>2, <2>2 DEF IInv, Disjoint
    <3> QED
      BY <1>1, <2>1, <2>2, <3>1 DEF AtNext
  <2> QED
    BY <1>1, <2>1, <2>3, <2>5, <2>6 DEF Searching
<1>4. CASE ~UseCache
  <2>1. /\ hole_size' = 0 /\ cache' = NoArea /\ addr' = 0
        /\ \/ areas = {} /\ pc' = "found"
           \/ /\ pc' = "walk" /\ first' \in areas
              /\ \A b \in areas : first'.va_start <= b.va_start
    BY <1>4 DEF Retry
  <2>2. CacheSound'
    BY <2>1 DEF CacheSound
  <2>3. Reached'
    BY <1>1, <2>1 DEF Reached
  <2>4. pc' = "walk" => AtNext'
    BY <1>1, <1>2, <2>1 DEF AtNext
  <2>5. pc' = "found" => IsFree(addr, addr + size)'
    BY <1>1, <2>1 DEF IsFree
  <2> QED
    BY <1>1, <2>2, <2>3, <2>4, <2>5 DEF Searching
<1> QED
  BY <1>3, <1>4

\* A free stretch of addresses does not straddle the point the search is at.
LEMMA NoStraddle ==
  ASSUME IInv, Reached, NEW x \in Nat, NEW y \in Nat, x < y, IsFree(x, y)
  PROVE  y <= addr \/ addr <= x
<1>1. addr \in Nat /\ \A a \in areas : a.va_start \in Nat /\ a.va_end \in Nat
                                         /\ a.va_start < a.va_end
  BY DEF IInv, Types, Area, Disjoint
<1>2. CASE addr = 0
  BY <1>2
<1>3. CASE \E a \in areas : a.va_end = addr
  BY <1>1, <1>3 DEF IsFree
<1> QED
  BY <1>2, <1>3 DEF Reached

\* A round of the walk: the hole below `first', too small for the request, is
\* noted and the search goes on behind `first'.
LEMMA WalkStep == ASSUME IInv, Walk PROVE hole_size' \in Nat /\ CacheSound' /\ Searching'
<1>1. /\ pc = "walk" /\ size > 0 /\ Reached /\ AtNext /\ first \in areas
      /\ size \in Nat /\ addr \in Nat /\ hole_size \in Nat /\ hole_size <= size
  BY DEF Walk, IInv, Searching, Types, AtNext, Reached
<1>2. \A a \in areas : a.va_start \in Nat /\ a.va_end \in Nat /\ a.va_start < a.va_end
  BY DEF IInv, Types, Area, Disjoint
<1>3. /\ hole_size' = NoteHole /\ addr' = first.va_end
      /\ UNCHANGED <<areas, cache, size>>
      /\ addr + size > first.va_start
      /\ \/ IsLast(first) /\ pc' = "found" /\ UNCHANGED first
         \/ \E b \in areas : IsNext(first, b) /\ first' = b /\ UNCHANGED pc
  BY DEF Walk, GoOn
<1>4. /\ NoteHole \in Nat /\ hole_size <= NoteHole /\ NoteHole <= size
      /\ first.va_start - addr <= NoteHole
  BY <1>1, <1>2, <1>3 DEF NoteHole
<1>5. CacheSound'
  <2> SUFFICES ASSUME cache # NoArea PROVE CacheSound'
    BY <1>3 DEF CacheSound
  <2>1. \A x, y \in VPage :
          x < y /\ y <= cache.va_start /\ IsFree(x, y) => y - x <= NoteHole
    <3> SUFFICES ASSUME NEW x \in VPage, NEW y \in VPage,
                        x < y, y <= cache.va_start, IsFree(x, y)
                 PROVE  y - x <= NoteHole
      OBVIOUS
    <3>1. y - x <= hole_size /\ y - x \in Int
      BY SpaceAssumption DEF IInv, CacheSound, VPage
    <3> QED
      BY <1>1, <1>4, <3>1
  <2> QED
    BY <1>3, <2>1 DEF IInv, CacheSound, IsFree
<1>6. ASSUME NEW x \in Nat, NEW y \in Nat, x < y, y <= first.va_end, IsFree(x, y)
      PROVE  y - x <= NoteHole
  <2>1. y <= first.va_start
    BY <1>1, <1>2, <1>6 DEF IsFree
  <2>2. CASE y <= addr
    <3>1. y - x <= hole_size
      BY <1>1, <1>6, <2>2 DEF Reached
    <3> QED
      BY <1>1, <1>4, <3>1
  <2>3. CASE addr <= x
    BY <1>1, <1>2, <1>4, <2>1, <2>3
  <2> QED
    BY <1>1, <1>6, <2>2, <2>3, NoStraddle
<1>7. Reached'
  BY <1>1, <1>3, <1>4, <1>6 DEF Reached, IsFree
<1>8. \A a \in areas : a = first \/ a.va_end <= first.va_start \/ first.va_end <= a.va_start
  BY <1>1 DEF IInv, Disjoint
<1>9. CASE IsLast(first) /\ pc' = "found" /\ UNCHANGED first
  <2>1. \A a \in areas : a.va_end <= first.va_end
    BY <1>1, <1>2, <1>8, <1>9 DEF IsLast
  <2>2. IsFree(addr, addr + size)'
    BY <1>3, <2>1 DEF IsFree
  <2> QED
    BY <1>1, <1>3, <1>4, <1>5, <1>7, <1>9, <2>2 DEF Searching
<1>10. ASSUME NEW b \in areas, IsNext(first, b), first' = b, UNCHANGED pc
       PROVE  hole_size' \in Nat /\ CacheSound' /\ Searching'
  <2>1. first.va_end <= b.va_start
        /\ \A a \in areas : first.va_end <= a.va_start => b.va_start <= a.va_start
    BY <1>10 DEF IsNext
  <2>2. \A a \in areas : a.va_end <= first.va_end \/ b.va_start <= a.va_start
    BY <1>1, <1>2, <1>8, <2>1
  <2>3. AtNext'
    BY <1>3, <1>10, <2>1, <2>2 DEF AtNext
  <2> QED
    BY <1>1, <1>3, <1>4, <1>5, <1>7, <1>10, <2>3 DEF Searching
<1> QED
  BY <1>3, <1>9, <1>10

\* The walk ends at room for the request, or at the end of the space.
LEMMA WalkEndsStep == ASSUME IInv, WalkEnds PROVE CacheSound' /\ Searching'
<1>1. /\ pc = "walk" /\ size > 0 /\ Reached /\ AtNext /\ ~GoOn /\ pc' = "found"
      /\ size \in Nat /\ addr \in Nat
      /\ UNCHANGED <<areas, cache, hole_size, size, addr, first>>
  BY DEF WalkEnds, IInv, Searching, Types, search
<1>2. \A a \in areas : a.va_start \in Nat /\ a.va_end \in Nat
  BY DEF IInv, Types, Area
<1>3. addr + size <= VMALLOC_END => IsFree(addr, addr + size)
  BY <1>1, <1>2 DEF GoOn, AtNext, IsFree
<1>4. CacheSound'
  BY <1>1 DEF IInv, CacheSound, IsFree
<1>5. Reached'
  BY <1>1 DEF Reached, IsFree
<1>6. (addr + size <= VMALLOC_END => IsFree(addr, addr + size))'
  BY <1>1, <1>3 DEF IsFree
<1> QED
  BY <1>1, <1>4, <1>5, <1>6 DEF Searching

\* `found': the new area lies in free space and every hole below it was seen.
LEMMA FoundStep ==
  ASSUME IInv, Found
  PROVE  area' \in Area /\ Disjoint' /\ CacheSound' /\ Building' /\ Owned'
<1>1. /\ pc = "found" /\ size > 0 /\ Reached /\ IsFree(addr, addr + size)
      /\ addr + size <= VMALLOC_END
      /\ size \in Nat /\ addr \in Nat /\ hole_size \in Nat
      /\ area' = [va_start |-> addr, va_end |-> addr + size]
      /\ areas' = areas \cup {area'} /\ cache' = area' /\ pc' = "array"
      /\ UNCHANGED <<hole_size, pages, pte, free_frames>>
  BY DEF Found, IInv, Searching, Types, memory
<1>2. area' \in Area /\ area'.va_start = addr /\ area'.va_end = addr + size
  BY <1>1 DEF Area
<1>3. \A a \in areas : a.va_start \in Nat /\ a.va_end \in Nat
  BY DEF IInv, Types, Area
<1>4. \A a \in areas : a.va_end <= area'.va_start \/ area'.va_end <= a.va_start
  BY <1>1, <1>2 DEF IsFree
<1>5. Disjoint'
  <2>1. \A a \in areas' : a.va_start < a.va_end /\ a.va_end <= VMALLOC_END
    BY <1>1, <1>2 DEF IInv, Disjoint
  <2>2. \A a, b \in areas' : a = b \/ a.va_end <= b.va_start \/ b.va_end <= a.va_start
    BY <1>1, <1>4 DEF IInv, Disjoint
  <2> QED
    BY <2>1, <2>2 DEF Disjoint
<1>6. CacheSound'
  <2>1. \A x, y \in VPage :
          x < y /\ y <= addr /\ IsFree(x, y)' => y - x <= hole_size
    <3>1. VPage \subseteq Nat
      BY SpaceAssumption DEF VPage
    <3>2. \A x, y \in VPage : IsFree(x, y)' => IsFree(x, y)
      BY <1>1 DEF IsFree
    <3> QED
      BY <1>1, <3>1, <3>2 DEF Reached
  <2> QED
    BY <1>1, <1>2, <2>1 DEF CacheSound
<1>7. Building'
  <2> SUFFICES ASSUME NEW v \in Mapped(area'), v \in VPage, pages[v] # NoFrame PROVE FALSE
    BY <1>1 DEF Building, Mapped
  <2>1. PICK a \in areas : v \in Mapped(a)
    BY DEF IInv, Owned
  <2>2. v \in Nat /\ a.va_start <= v /\ v < a.va_end /\ area'.va_start <= v /\ v < area'.va_end
    BY <1>1, <1>2, <1>3, <2>1 DEF Mapped
  <2> QED
    BY <1>1, <1>2, <1>3, <1>4, <2>2
<1>8. Owned'
  BY <1>1, PagesUntouched
<1> QED
  BY <1>2, <1>5, <1>6, <1>7, <1>8

-----------------------------------------------------------------------------
(* Pages and areas that come and go. *)

\* __free_vmap_area: the cache moves down, so the hole size still bounds the
\* holes below it; the hole the freed area leaves lies above.
LEMMA RemoveStep ==
  ASSUME IInv, NEW a \in areas, RemoveVmArea(a), UNCHANGED hole_size
  PROVE  /\ areas' \subseteq areas /\ cache' \in Area /\ Disjoint' /\ CacheSound'
         /\ pte' \in [VPage -> Frames \cup {NoFrame}]
<1>1. /\ areas' = areas \ {a} /\ cache' = CacheAfterFree(a)
      /\ pte' = [v \in VPage |-> IF v \in a.va_start .. a.va_end - 1 THEN NoFrame ELSE pte[v]]
  BY DEF RemoveVmArea
<1>2. \A b \in areas : b \in Area /\ b.va_start \in Nat /\ b.va_end \in Nat
                       /\ b.va_start < b.va_end /\ b.va_end <= VMALLOC_END
  BY DEF IInv, Types, Area, Disjoint
<1>3. Disjoint'
  BY <1>1 DEF IInv, Disjoint
<1>4. pte' \in [VPage -> Frames \cup {NoFrame}]
  BY <1>1 DEF IInv, Types
<1>5. NoArea \in Area
  BY DEF NoArea, Area
<1>6. \/ cache' = NoArea
      \/ /\ cache' \in areas' /\ cache # NoArea /\ cache \in areas
         /\ cache'.va_start < a.va_start /\ cache'.va_start <= cache.va_start
  <2>1. CASE cache # NoArea /\ a.va_start <= cache.va_start
    <3>1. cache' = rb_prev(a) /\ cache \in areas
      BY <1>1, <2>1 DEF CacheAfterFree, IInv, CacheSound
    <3>2. CASE rb_prev(a) \in areas /\ rb_prev(a).va_end <= a.va_start
      <4> DEFINE b == rb_prev(a)
      <4>1. b \in areas /\ b.va_end <= a.va_start
        BY <3>2
      <4>2. cache' = b
        BY <3>1
      <4> HIDE DEF b
      <4>3. b # a /\ b.va_start < a.va_start /\ b.va_start <= cache.va_start
        BY <1>2, <2>1, <3>1, <4>1
      <4> QED
        BY <1>1, <2>1, <3>1, <4>1, <4>2, <4>3
    <3> QED
      BY <3>1, <3>2, PrevIsBefore
  <2>2. CASE cache # NoArea /\ ~(a.va_start <= cache.va_start)
    <3>1. cache' = cache /\ cache \in areas
      BY <1>1, <2>2 DEF CacheAfterFree, IInv, CacheSound
    <3> QED
      BY <1>1, <1>2, <2>2, <3>1
  <2>3. CASE cache = NoArea
    BY <1>1, <2>3 DEF CacheAfterFree
  <2> QED
    BY <2>1, <2>2, <2>3
<1>7. CacheSound'
  <2> SUFFICES ASSUME cache' # NoArea,
                      NEW x \in VPage, NEW y \in VPage,
                      x < y, y <= cache'.va_start, IsFree(x, y)'
               PROVE  y - x <= hole_size
    BY <1>1, <1>6 DEF CacheSound
  <2>1. /\ cache # NoArea /\ cache \in areas /\ cache' \in areas
        /\ cache'.va_start < a.va_start /\ cache'.va_start <= cache.va_start
    BY <1>1, <1>6
  <2>2. x \in Nat /\ y \in Nat
    BY SpaceAssumption DEF VPage
  <2>3. y <= a.va_start /\ y <= cache.va_start
    BY <1>2, <2>1, <2>2
  <2>4. IsFree(x, y)
    BY <1>1, <2>3 DEF IsFree
  <2> QED
    BY <2>1, <2>3, <2>4 DEF IInv, CacheSound
<1> QED
  BY <1>1, <1>2, <1>3, <1>4, <1>5, <1>6, <1>7

\* __vunmap gives back the pages of the area, and those only.
LEMMA VunmapStep ==
  ASSUME IInv, NEW a \in areas, Vunmap(a)
  PROVE  /\ pages' \in [VPage -> Frames \cup {NoFrame}] /\ free_frames' \subseteq Frames
         /\ Owned'
<1> DEFINE Back == {pages[v] : v \in Mapped(a)} \ {NoFrame}
<1>1. /\ areas' = areas \ {a}
      /\ pte' = [v \in VPage |-> IF v \in a.va_start .. a.va_end - 1 THEN NoFrame ELSE pte[v]]
      /\ free_frames' = free_frames \cup Back
      /\ pages' = [v \in VPage |-> IF v \in Mapped(a) THEN NoFrame ELSE pages[v]]
  BY DEF Vunmap, RemoveVmArea
<1>2. /\ pages \in [VPage -> Frames \cup {NoFrame}]
      /\ pte \in [VPage -> Frames \cup {NoFrame}] /\ free_frames \subseteq Frames
      /\ a.va_start \in Nat /\ a.va_end \in Nat /\ a.va_end <= VMALLOC_END
  BY DEF IInv, Types, Area, Disjoint
<1>3. Mapped(a) \subseteq a.va_start .. a.va_end - 1 /\ Mapped(a) \subseteq VPage
  BY <1>2, SpaceAssumption DEF Mapped, VPage
<1>4. /\ \A v \in VPage : pte[v] # NoFrame => pte[v] = pages[v]
      /\ \A v \in VPage : pages[v] # NoFrame =>
           pages[v] \notin free_frames /\ \E b \in areas : v \in Mapped(b)
      /\ \A v, w \in VPage : pages[v] # NoFrame /\ pages[v] = pages[w] => v = w
  BY DEF IInv, Owned
<1>5. Back \subseteq Frames
  BY <1>2, <1>3
<1>6. \A v \in VPage : pte'[v] # NoFrame => pte'[v] = pages'[v]
  BY <1>1, <1>3, <1>4
<1>7. ASSUME NEW v \in VPage, pages'[v] # NoFrame
      PROVE  pages'[v] \notin free_frames' /\ \E b \in areas' : v \in Mapped(b)
  <2>1. v \notin Mapped(a) /\ pages'[v] = pages[v] /\ pages[v] # NoFrame
    BY <1>1, <1>7
  <2>2. pages[v] \notin Back
    BY <1>3, <1>4, <2>1
  <2>3. PICK b \in areas : v \in Mapped(b)
    BY <1>4, <2>1
  <2>4. b \in areas'
    BY <1>1, <2>1, <2>3
  <2> HIDE DEF Back
  <2> QED
    BY <1>1, <1>4, <2>1, <2>2, <2>3, <2>4
<1>8. \A v, w \in VPage : pages'[v] # NoFrame /\ pages'[v] = pages'[w] => v = w
  BY <1>1, <1>4
<1>9. pages' \in [VPage -> Frames \cup {NoFrame}]
  BY <1>1, <1>2
<1>10. Owned'
  BY <1>6, <1>7, <1>8 DEF Owned, Mapped
<1> HIDE DEF Back
<1> QED
  BY <1>1, <1>2, <1>5, <1>9, <1>10

\* An area without pages leaves nothing behind.
LEMMA ArrayFailsStep == ASSUME IInv, ArrayFails PROVE Owned'
<1>1. /\ pc = "array" /\ area \in areas
      /\ \A v \in Mapped(area) : v \in VPage => pages[v] = NoFrame
      /\ areas' = areas \ {area} /\ UNCHANGED <<pages, free_frames>>
      /\ pte' = [v \in VPage |-> IF v \in area.va_start .. area.va_end - 1 THEN NoFrame
                                                                         ELSE pte[v]]
  BY DEF ArrayFails, RemoveVmArea, IInv, Building
<1>2. \A v \in VPage : pte'[v] # NoFrame => pte'[v] = pages'[v]
  BY <1>1 DEF IInv, Owned
<1>3. ASSUME NEW v \in VPage, pages[v] # NoFrame
      PROVE  pages[v] \notin free_frames /\ \E b \in areas' : v \in Mapped(b)
  <2>1. pages[v] \notin free_frames /\ v \notin Mapped(area)
    BY <1>1, <1>3 DEF IInv, Owned
  <2>2. PICK b \in areas : v \in Mapped(b)
    BY <1>3 DEF IInv, Owned
  <2> QED
    BY <1>1, <2>1, <2>2
<1>4. \A v, w \in VPage : pages[v] # NoFrame /\ pages[v] = pages[w] => v = w
  BY DEF IInv, Owned
<1> QED
  BY <1>1, <1>2, <1>3, <1>4 DEF Owned, Mapped

\* alloc_page: a free frame for a page of the area that has none yet.
LEMMA AllocPageStep ==
  ASSUME IInv, NEW v \in VPage, NEW f \in Frames, AllocPage(v, f)
  PROVE  pages' \in [VPage -> Frames \cup {NoFrame}] /\ Owned'
<1>1. /\ pc = "pages" /\ area \in areas /\ v \in Mapped(area) /\ f \in free_frames
      /\ pages[v] = NoFrame /\ pages' = [pages EXCEPT ![v] = f]
      /\ free_frames' = free_frames \ {f} /\ UNCHANGED <<areas, pte>>
  BY DEF AllocPage, IInv, Building
<1>2. pages \in [VPage -> Frames \cup {NoFrame}] /\ f # NoFrame
  BY FrameAssumption DEF IInv, Types
<1>3. pages'[v] = f /\ \A w \in VPage : w # v => pages'[w] = pages[w]
  BY <1>1, <1>2
<1>4. /\ \A w \in VPage : pte[w] # NoFrame => pte[w] = pages[w]
      /\ \A w \in VPage : pages[w] # NoFrame =>
           pages[w] \notin free_frames /\ \E b \in areas : w \in Mapped(b)
      /\ \A u, w \in VPage : pages[u] # NoFrame /\ pages[u] = pages[w] => u = w
  BY DEF IInv, Owned
<1>5. \A w \in VPage : pte[w] # NoFrame => pte[w] = pages'[w]
  BY <1>1, <1>3, <1>4
<1>6. \A w \in VPage : pages'[w] # NoFrame =>
        pages'[w] \notin free_frames' /\ \E b \in areas : w \in Mapped(b)
  BY <1>1, <1>3, <1>4
<1>7. \A u, w \in VPage : pages'[u] # NoFrame /\ pages'[u] = pages'[w] => u = w
  BY <1>1, <1>2, <1>3, <1>4
<1>8. pages' \in [VPage -> Frames \cup {NoFrame}]
  BY <1>1, <1>2
<1> QED
  BY <1>1, <1>5, <1>6, <1>7, <1>8 DEF Owned, Mapped

-----------------------------------------------------------------------------
(* The invariant. *)

\* Steps that leave the areas, the cache and the frames of the areas alone.
LEMMA AreasUntouched ==
  ASSUME IInv, UNCHANGED <<areas, cache, hole_size>>
  PROVE  Disjoint' /\ CacheSound'
BY DEF IInv, Disjoint, CacheSound, IsFree

\* Every step keeps what the invariant says.
LEMMA NextIInv == ASSUME IInv, [Next]_vars PROVE IInv'
<1>0. /\ areas \subseteq Area /\ cache \in Area /\ hole_size \in Nat
      /\ pages \in [VPage -> Frames \cup {NoFrame}]
      /\ pte \in [VPage -> Frames \cup {NoFrame}]
      /\ free_frames \subseteq Frames
      /\ size \in Nat /\ addr \in Nat /\ first \in Area /\ area \in Area
      /\ pc \in {"idle", "retry", "walk", "found", "array", "pages", "map"}
  BY DEF IInv, Types
<1>00. NoArea \in Area /\ \A a \in Area : a.va_end \in Nat
  BY DEF NoArea, Area
<1>1. CASE UNCHANGED vars
  <2>1. UNCHANGED <<areas, cache, hole_size>> /\ UNCHANGED <<pages, pte, free_frames>>
        /\ UNCHANGED <<pc, size, addr, first, area>>
    BY <1>1 DEF vars
  <2>2. Disjoint' /\ CacheSound' /\ Owned'
    BY <2>1, AreasUntouched, PagesUntouched
  <2>3. Searching' /\ Building' /\ Types'
    BY <2>1 DEF IInv, Searching, Building, Types, Reached, AtNext, IsFree, Mapped
  <2> QED
    BY <2>2, <2>3 DEF IInv
<1>2. ASSUME NEW n \in Requests, Vmalloc(n) PROVE IInv'
  <2>1. /\ UNCHANGED <<areas, cache, hole_size>> /\ UNCHANGED <<pages, pte, free_frames>>
        /\ UNCHANGED <<addr, first, area>> /\ size' = n + 1 /\ pc' = "retry" /\ n \in Nat
    BY <1>2, RequestAssumption DEF Vmalloc, memory
  <2>2. Disjoint' /\ CacheSound' /\ Owned'
    BY <2>1, AreasUntouched, PagesUntouched
  <2>3. Types'
    BY <1>0, <2>1 DEF Types
  <2>4. Searching' /\ Building'
    BY <2>1 DEF Searching, Building
  <2> QED
    BY <2>2, <2>3, <2>4 DEF IInv
<1>3. CASE Retry
  <2>1. /\ UNCHANGED areas /\ UNCHANGED <<pages, pte, free_frames>> /\ UNCHANGED <<size, area>>
        /\ pc' \in {"walk", "found"}
    BY <1>3 DEF Retry, memory
  <2>2. cache' \in Area /\ hole_size' \in Nat /\ addr' \in Nat /\ first' \in Area
    BY <1>0, <1>00, <1>3 DEF Retry
  <2>3. Types'
    BY <1>0, <2>1, <2>2 DEF Types
  <2>4. Disjoint' /\ Owned' /\ Building'
    BY <2>1, PagesUntouched DEF IInv, Disjoint, Building
  <2> QED
    BY <1>3, <2>3, <2>4, RetryStep DEF IInv
<1>4. CASE Walk
  <2>1. /\ UNCHANGED <<areas, cache>> /\ UNCHANGED <<pages, pte, free_frames>>
        /\ UNCHANGED <<size, area>> /\ pc' \in {"walk", "found"} /\ addr' = first.va_end
        /\ first' \in areas \cup {first}
    BY <1>4 DEF Walk, memory
  <2>2. hole_size' \in Nat /\ CacheSound' /\ Searching'
    BY <1>4, WalkStep
  <2>3. Types'
    BY <1>0, <1>00, <2>1, <2>2 DEF Types
  <2>4. Disjoint' /\ Owned' /\ Building'
    BY <2>1, PagesUntouched DEF IInv, Disjoint, Building
  <2> QED
    BY <2>2, <2>3, <2>4 DEF IInv
<1>5. CASE WalkEnds
  <2>1. /\ UNCHANGED <<areas, cache, hole_size>> /\ UNCHANGED <<pages, pte, free_frames>>
        /\ UNCHANGED <<size, addr, first, area>> /\ pc' = "found"
    BY <1>5 DEF WalkEnds, memory, search
  <2>2. Types'
    BY <1>0, <2>1 DEF Types
  <2>3. Disjoint' /\ Owned' /\ Building'
    BY <2>1, PagesUntouched DEF IInv, Disjoint, Building
  <2> QED
    BY <1>5, <2>2, <2>3, WalkEndsStep DEF IInv
<1>6. CASE Overflow
  <2>1. /\ UNCHANGED <<areas, cache, hole_size>> /\ UNCHANGED <<pages, pte, free_frames>>
        /\ UNCHANGED <<size, addr, first, area>> /\ pc' = "retry" /\ pc = "found"
    BY <1>6 DEF Overflow, memory, search
  <2>2. Types'
    BY <1>0, <2>1 DEF Types
  <2>3. Disjoint' /\ CacheSound' /\ Owned'
    BY <2>1, AreasUntouched, PagesUntouched
  <2>4. Searching' /\ Building'
    BY <2>1 DEF IInv, Searching, Building
  <2> QED
    BY <2>2, <2>3, <2>4 DEF IInv
<1>7. CASE Found
  <2>1. /\ areas' = areas \cup {area'} /\ cache' = area' /\ pc' = "array"
        /\ UNCHANGED hole_size /\ UNCHANGED <<pages, pte, free_frames>>
        /\ UNCHANGED <<size, addr, first>>
    BY <1>7 DEF Found, memory, search
  <2>2. area' \in Area /\ Disjoint' /\ CacheSound' /\ Building' /\ Owned'
    BY <1>7, FoundStep
  <2>3. Types'
    BY <1>0, <2>1, <2>2 DEF Types
  <2>4. Searching'
    BY <2>1 DEF Searching
  <2> QED
    BY <2>2, <2>3, <2>4 DEF IInv
<1>8. CASE AllocArray
  <2>1. /\ UNCHANGED <<areas, cache, hole_size>> /\ UNCHANGED <<pages, pte, free_frames>>
        /\ UNCHANGED <<size, addr, first, area>> /\ pc' = "pages" /\ pc = "array"
    BY <1>8 DEF AllocArray, memory, search
  <2>2. Types'
    BY <1>0, <2>1 DEF Types
  <2>3. Disjoint' /\ CacheSound' /\ Owned'
    BY <2>1, AreasUntouched, PagesUntouched
  <2>4. Searching' /\ Building'
    BY <2>1 DEF IInv, Searching, Building
  <2> QED
    BY <2>2, <2>3, <2>4 DEF IInv
<1>9. CASE ArrayFails
  <2>1. /\ RemoveVmArea(area) /\ area \in areas /\ UNCHANGED hole_size
        /\ UNCHANGED <<pages, free_frames>>
        /\ pc' = "idle" /\ size' = 0 /\ addr' = 0 /\ first' = NoArea /\ area' = NoArea
    BY <1>9 DEF ArrayFails, Return, IInv, Building
  <2>2. /\ areas' \subseteq areas /\ cache' \in Area /\ Disjoint' /\ CacheSound'
        /\ pte' \in [VPage -> Frames \cup {NoFrame}]
    BY <2>1, RemoveStep
  <2>3. Types'
    BY <1>0, <1>00, <2>1, <2>2 DEF Types
  <2>4. Searching' /\ Building'
    BY <2>1 DEF Searching, Building
  <2> QED
    BY <1>9, <2>2, <2>3, <2>4, ArrayFailsStep DEF IInv
<1>10. CASE Fail
  <2>1. /\ Vunmap(area) /\ RemoveVmArea(area) /\ area \in areas /\ UNCHANGED hole_size
        /\ pc' = "idle" /\ size' = 0 /\ addr' = 0 /\ first' = NoArea /\ area' = NoArea
    BY <1>10 DEF Fail, Vunmap, Return, IInv, Building
  <2>2. /\ areas' \subseteq areas /\ cache' \in Area /\ Disjoint' /\ CacheSound'
        /\ pte' \in [VPage -> Frames \cup {NoFrame}]
    BY <2>1, RemoveStep
  <2>3. /\ pages' \in [VPage -> Frames \cup {NoFrame}] /\ free_frames' \subseteq Frames
        /\ Owned'
    BY <2>1, VunmapStep
  <2>4. Types'
    BY <1>0, <1>00, <2>1, <2>2, <2>3 DEF Types
  <2>5. Searching' /\ Building'
    BY <2>1 DEF Searching, Building
  <2> QED
    BY <2>2, <2>3, <2>4, <2>5 DEF IInv
<1>11. ASSUME NEW a \in areas, Vfree(a) PROVE IInv'
  <2>1. /\ Vunmap(a) /\ RemoveVmArea(a) /\ UNCHANGED hole_size
        /\ pc = "idle" /\ UNCHANGED <<pc, size, addr, first, area>>
    BY <1>11 DEF Vfree, Vunmap, search
  <2>2. /\ areas' \subseteq areas /\ cache' \in Area /\ Disjoint' /\ CacheSound'
        /\ pte' \in [VPage -> Frames \cup {NoFrame}]
    BY <2>1, RemoveStep
  <2>3. /\ pages' \in [VPage -> Frames \cup {NoFrame}] /\ free_frames' \subseteq Frames
        /\ Owned'
    BY <2>1, VunmapStep
  <2>4. Types'
    BY <1>0, <2>1, <2>2, <2>3 DEF Types
  <2>5. Searching' /\ Building'
    BY <2>1 DEF Searching, Building
  <2> QED
    BY <2>2, <2>3, <2>4, <2>5 DEF IInv
<1>12. ASSUME NEW v \in VPage, NEW f \in Frames, AllocPage(v, f) PROVE IInv'
  <2>1. /\ UNCHANGED <<areas, cache, hole_size>> /\ UNCHANGED pte
        /\ UNCHANGED <<size, addr, first, area>> /\ pc' \in {"pages", "map"} /\ pc = "pages"
        /\ free_frames' \subseteq free_frames
    BY <1>12 DEF AllocPage, search
  <2>2. pages' \in [VPage -> Frames \cup {NoFrame}] /\ Owned'
    BY <1>12, AllocPageStep
  <2>3. Types'
    BY <1>0, <2>1, <2>2 DEF Types
  <2>4. Disjoint' /\ CacheSound'
    BY <2>1, AreasUntouched
  <2>5. Searching' /\ Building'
    BY <2>1 DEF IInv, Searching, Building
  <2> QED
    BY <2>2, <2>3, <2>4, <2>5 DEF IInv
<1>13. ASSUME NEW v \in VPage, MapPage(v) PROVE IInv'
  <2>1. /\ UNCHANGED <<areas, cache, hole_size>> /\ UNCHANGED <<pages, free_frames>>
        /\ pte' = [pte EXCEPT ![v] = pages[v]] /\ pc = "map"
        /\ \/ /\ pc' = "idle" /\ size' = 0 /\ addr' = 0 /\ first' = NoArea /\ area' = NoArea
           \/ UNCHANGED <<pc, size, addr, first, area>>
    BY <1>13 DEF MapPage, Return, search
  <2>2. pte' \in [VPage -> Frames \cup {NoFrame}]
    BY <1>0, <2>1
  <2>3. Types'
    BY <1>0, <1>00, <2>1, <2>2 DEF Types
  <2>4. Disjoint' /\ CacheSound'
    BY <2>1, AreasUntouched
  <2>5. Owned'
    <3>1. \A w \in VPage : pte'[w] # NoFrame => pte'[w] = pages[w]
      BY <1>0, <2>1 DEF IInv, Owned
    <3> QED
      BY <2>1, <3>1 DEF IInv, Owned, Mapped
  <2>6. Searching' /\ Building'
    BY <2>1 DEF IInv, Searching, Building
  <2> QED
    BY <2>3, <2>4, <2>5, <2>6 DEF IInv
<1> QED
  BY <1>1, <1>2, <1>3, <1>4, <1>5, <1>6, <1>7, <1>8, <1>9, <1>10, <1>11, <1>12, <1>13
     DEF Next, Step

\* The inductive invariant of vmalloc and vfree holds in every state.
THEOREM Invariance == Spec => []IInv
<1>1. Init => IInv
  BY InitIInv
<1>2. IInv /\ [Next]_vars => IInv'
  BY NextIInv
<1> QED
  BY <1>1, <1>2, PTL DEF Spec

\* alloc_vmap_area never hands out addresses, guard page included, that another
\* area has, whatever it was led to by the cached area.
THEOREM AreasApart == Spec => []Disjoint
<1>1. IInv => Disjoint
  BY DEF IInv
<1> QED
  BY <1>1, Invariance, PTL

\* free_vmap_cache points to an area there is, and cached_hole_size bounds the
\* holes below it, after any sequence of vmalloc and vfree.
THEOREM CacheIsSound == Spec => []CacheSound
<1>1. IInv => CacheSound
  BY DEF IInv
<1> QED
  BY <1>1, Invariance, PTL

\* A search that reaches the end of the space has missed no hole that is larger
\* than the request.
THEOREM NothingMissed == Spec => []NoSpaceMissed
<1>1. IInv => NoSpaceMissed
  <2> SUFFICES ASSUME IInv, pc = "found", addr + size > VMALLOC_END,
                      NEW x \in VPage, NEW y \in 1 .. VMALLOC_END, x < y, IsFree(x, y)
               PROVE  y - x <= size
    BY DEF NoSpaceMissed
  <2>1. /\ Reached /\ hole_size <= size /\ hole_size \in Nat /\ size \in Nat /\ addr \in Nat
        /\ x \in Nat /\ y \in Nat /\ y <= VMALLOC_END /\ VMALLOC_END \in Nat
    BY SpaceAssumption DEF IInv, Searching, Reached, Types, VPage
  <2>2. CASE y <= addr
    <3>1. y - x <= hole_size
      BY <2>1, <2>2 DEF Reached
    <3> QED
      BY <2>1, <3>1
  <2>3. CASE addr <= x
    BY <2>1, <2>3
  <2> QED
    BY <2>1, <2>2, <2>3, NoStraddle
<1> QED
  BY <1>1, Invariance, PTL

\* Every page table entry leads to a page of the area it lies in, and no page is
\* in two areas, or in an area and free.
THEOREM PagesAreOwned == Spec => []Owned
<1>1. IInv => Owned
  BY DEF IInv
<1> QED
  BY <1>1, Invariance, PTL

-----------------------------------------------------------------------------
(* What a call leaves behind. *)

\* The area of the call in progress may still lack pages; the others are mapped.
InProgress(a) == pc \in {"array", "pages", "map"} /\ a = area
MappedWhole ==
  /\ \A a \in areas : InProgress(a) \/ \A v \in Mapped(a) : pte[v] # NoFrame
  /\ pc = "map" => \A v \in Mapped(area) : pages[v] # NoFrame

\* A frame is free or in an area.
NoFrameLost == free_frames = Frames \ {pages[v] : v \in VPage}

\* Three objects for an area, and what the call in progress has got so far.
Extra == IF pc \in {"retry", "walk", "found"} THEN 2 ELSE IF pc = "array" THEN -1 ELSE 0
NoObjectLost == IsFiniteSet(areas) /\ objects = 3 * Cardinality(areas) + Extra

Account == MappedWhole /\ NoFrameLost /\ NoObjectLost

LEMMA InitAccount == Init => Account
<1> SUFFICES ASSUME Init PROVE Account
  OBVIOUS
<1>1. MappedWhole
  BY DEF Init, MappedWhole
<1>2. NoFrameLost
  BY FrameAssumption DEF Init, NoFrameLost
<1>3. NoObjectLost
  BY FS_EmptySet DEF Init, NoObjectLost, Extra
<1> QED
  BY <1>1, <1>2, <1>3 DEF Account

\* The addresses of an area are addresses of the space.
LEMMA MappedInSpace ==
  ASSUME IInv, NEW a \in areas
  PROVE  /\ Mapped(a) \subseteq VPage /\ Mapped(a) \subseteq a.va_start .. a.va_end - 1
         /\ a.va_start \in Nat /\ a.va_end \in Nat
BY SpaceAssumption DEF IInv, Types, Area, Disjoint, Mapped, VPage

\* Removing an area leaves the others mapped.
LEMMA RemoveKeepsOthers ==
  ASSUME IInv, MappedWhole, NEW a \in areas, RemoveVmArea(a), pc' = "idle",
         \A b \in areas : InProgress(b) => b = a
  PROVE  MappedWhole'
<1>1. /\ areas' = areas \ {a}
      /\ pte' = [v \in VPage |-> IF v \in a.va_start .. a.va_end - 1 THEN NoFrame ELSE pte[v]]
  BY DEF RemoveVmArea
<1> SUFFICES ASSUME NEW b \in areas, b # a, NEW v \in Mapped(b) PROVE pte'[v] # NoFrame
  BY <1>1 DEF MappedWhole, Mapped
<1>2. pte[v] # NoFrame /\ v \in VPage
  BY MappedInSpace DEF MappedWhole
<1>3. v \notin a.va_start .. a.va_end - 1
  <2>1. b.va_end <= a.va_start \/ a.va_end <= b.va_start
    BY DEF IInv, Disjoint
  <2>2. v \in b.va_start .. b.va_end - 1 /\ b.va_start \in Nat /\ b.va_end \in Nat
        /\ a.va_start \in Nat /\ a.va_end \in Nat
    BY MappedInSpace
  <2> QED
    BY <2>1, <2>2
<1> QED
  BY <1>1, <1>2, <1>3

\* One area less.
LEMMA RemoveCounts ==
  ASSUME IsFiniteSet(areas), NEW a \in areas, areas' = areas \ {a}
  PROVE  /\ IsFiniteSet(areas') /\ Cardinality(areas') = Cardinality(areas) - 1
         /\ Cardinality(areas) \in Nat
<1>1. IsFiniteSet(areas \ {a}) /\ Cardinality(areas \ {a}) = Cardinality(areas) - 1
  BY FS_RemoveElement
<1>2. Cardinality(areas) \in Nat
  BY FS_CardinalityType
<1> QED
  BY <1>1, <1>2

\* __vunmap gives back all the frames of the area.
LEMMA VunmapKeepsFrames ==
  ASSUME IInv, NoFrameLost, NEW a \in areas, Vunmap(a) PROVE NoFrameLost'
<1> DEFINE Back == {pages[v] : v \in Mapped(a)} \ {NoFrame}
<1>1. /\ free_frames' = free_frames \cup Back
      /\ pages' = [v \in VPage |-> IF v \in Mapped(a) THEN NoFrame ELSE pages[v]]
  BY DEF Vunmap
<1>2. Mapped(a) \subseteq VPage /\ pages \in [VPage -> Frames \cup {NoFrame}]
  BY MappedInSpace DEF IInv, Types
<1>3. \A v, w \in VPage : pages[v] # NoFrame /\ pages[v] = pages[w] => v = w
  BY DEF IInv, Owned
<1>4. ASSUME NEW f \in Frames
      PROVE  f \in free_frames' <=> \A v \in VPage : pages'[v] # f
  <2>1. f # NoFrame /\ (f \in free_frames <=> \A v \in VPage : pages[v] # f)
    BY FrameAssumption DEF NoFrameLost
  <2>2. CASE f \in Back
    <3>1. PICK u \in Mapped(a) : pages[u] = f
      BY <2>2
    <3> HIDE DEF Back
    <3> QED
      BY <1>1, <1>2, <1>3, <2>1, <2>2, <3>1
  <2>3. CASE f \notin Back
    <3>1. \A u \in Mapped(a) : pages[u] # f
      BY <2>1, <2>3
    <3> HIDE DEF Back
    <3> QED
      BY <1>1, <1>2, <2>1, <2>3, <3>1
  <2> QED
    BY <2>2, <2>3
<1>5. free_frames' \subseteq Frames
  BY VunmapStep
<1> QED
  BY <1>4, <1>5 DEF NoFrameLost

\* Every step keeps the account.
LEMMA NextAccount == ASSUME IInv, Account, [Next]_vars PROVE Account'
<1>0. /\ MappedWhole /\ NoFrameLost /\ IsFiniteSet(areas)
      /\ objects = 3 * Cardinality(areas) + Extra /\ Cardinality(areas) \in Nat
  BY FS_CardinalityType DEF Account, NoObjectLost
<1>1. CASE UNCHANGED vars
  <2>1. /\ UNCHANGED <<areas, pages, pte, free_frames>> /\ UNCHANGED <<objects, pc, area>>
    BY <1>1 DEF vars
  <2> QED
    BY <1>0, <2>1 DEF Account, MappedWhole, InProgress, NoFrameLost, NoObjectLost, Extra, Mapped
<1>2. ASSUME UNCHANGED <<areas, pages, pte, free_frames>>,
             pc \in {"idle", "retry", "walk", "found"}, pc' \in {"retry", "walk", "found"},
             objects' = IF pc = "idle" THEN objects + 2 ELSE objects
      PROVE  Account'
  <2>1. MappedWhole'
    BY <1>0, <1>2 DEF MappedWhole, InProgress, Mapped
  <2>2. NoFrameLost'
    BY <1>0, <1>2 DEF NoFrameLost
  <2>3. NoObjectLost'
    BY <1>0, <1>2 DEF NoObjectLost, Extra
  <2> QED
    BY <2>1, <2>2, <2>3 DEF Account
<1>3. ASSUME NEW n \in Requests, Vmalloc(n) PROVE Account'
  BY <1>3, <1>2 DEF Vmalloc, memory
<1>4. CASE Retry \/ Walk \/ WalkEnds \/ Overflow
  <2>1. /\ UNCHANGED <<areas, pages, pte, free_frames>> /\ UNCHANGED objects
        /\ pc \in {"retry", "walk", "found"} /\ pc' \in {"retry", "walk", "found"}
    BY <1>4 DEF Retry, Walk, WalkEnds, Overflow, memory
  <2> QED
    BY <2>1, <1>2
<1>5. CASE Found
  <2>1. /\ pc = "found" /\ pc' = "array" /\ area' = [va_start |-> addr, va_end |-> addr + size]
        /\ areas' = areas \cup {area'} /\ UNCHANGED <<pages, pte, free_frames>>
        /\ UNCHANGED objects /\ addr + size <= VMALLOC_END
    BY <1>5 DEF Found, memory
  <2>2. area' \notin areas
    <3>1. IsFree(addr, addr + size) /\ size > 0 /\ size \in Nat /\ addr \in Nat
      BY <2>1 DEF IInv, Searching, Types
    <3>2. area'.va_start = addr /\ area'.va_end = addr + size
      BY <2>1
    <3> QED
      BY <3>1, <3>2 DEF IsFree
  <2>3. MappedWhole'
    BY <1>0, <2>1 DEF MappedWhole, InProgress, Mapped
  <2>4. NoFrameLost'
    BY <1>0, <2>1 DEF NoFrameLost
  <2>5. IsFiniteSet(areas') /\ Cardinality(areas') = Cardinality(areas) + 1
    BY <1>0, <2>1, <2>2, FS_AddElement
  <2>6. NoObjectLost'
    BY <1>0, <2>1, <2>5 DEF NoObjectLost, Extra
  <2> QED
    BY <2>3, <2>4, <2>6 DEF Account
<1>6. CASE AllocArray
  <2>1. /\ UNCHANGED <<areas, pages, pte, free_frames>> /\ UNCHANGED area
        /\ objects' = objects + 1 /\ pc' = "pages" /\ pc = "array"
    BY <1>6 DEF AllocArray, memory
  <2>2. MappedWhole' /\ NoFrameLost'
    BY <1>0, <2>1 DEF MappedWhole, InProgress, Mapped, NoFrameLost
  <2>3. NoObjectLost'
    BY <1>0, <2>1 DEF NoObjectLost, Extra
  <2> QED
    BY <2>2, <2>3 DEF Account
<1>7. CASE ArrayFails
  <2>1. /\ RemoveVmArea(area) /\ area \in areas /\ UNCHANGED <<pages, free_frames>>
        /\ pc = "array" /\ pc' = "idle" /\ objects' = objects - 2 /\ areas' = areas \ {area}
    BY <1>7 DEF ArrayFails, RemoveVmArea, Return, IInv, Building
  <2>2. MappedWhole'
    BY <1>0, <2>1, RemoveKeepsOthers DEF InProgress
  <2>3. NoFrameLost'
    BY <1>0, <2>1 DEF NoFrameLost
  <2>4. IsFiniteSet(areas') /\ Cardinality(areas') = Cardinality(areas) - 1
    BY <1>0, <2>1, RemoveCounts
  <2>5. NoObjectLost'
    BY <1>0, <2>1, <2>4 DEF NoObjectLost, Extra
  <2> QED
    BY <2>2, <2>3, <2>5 DEF Account
<1>8. ASSUME NEW a \in areas, Vunmap(a), pc' = "idle", pc \in {"idle", "pages", "map"},
             \A b \in areas : InProgress(b) => b = a
      PROVE  Account'
  <2>1. RemoveVmArea(a) /\ areas' = areas \ {a} /\ objects' = objects - 3
    BY <1>8 DEF Vunmap, RemoveVmArea
  <2>2. MappedWhole'
    BY <1>0, <1>8, <2>1, RemoveKeepsOthers
  <2>3. NoFrameLost'
    BY <1>0, <1>8, VunmapKeepsFrames
  <2>4. IsFiniteSet(areas') /\ Cardinality(areas') = Cardinality(areas) - 1
    BY <1>0, <2>1, RemoveCounts
  <2>5. NoObjectLost'
    BY <1>0, <1>8, <2>1, <2>4 DEF NoObjectLost, Extra
  <2> QED
    BY <2>2, <2>3, <2>5 DEF Account
<1>9. CASE Fail
  <2>1. area \in areas /\ Vunmap(area) /\ pc' = "idle" /\ pc \in {"pages", "map"}
    BY <1>9 DEF Fail, Return, IInv, Building
  <2> QED
    BY <2>1, <1>8 DEF InProgress
<1>10. ASSUME NEW a \in areas, Vfree(a) PROVE Account'
  BY <1>8, <1>10 DEF Vfree, InProgress
<1>11. ASSUME NEW v \in VPage, NEW f \in Frames, AllocPage(v, f) PROVE Account'
  <2>1. /\ pc = "pages" /\ area \in areas /\ v \in Mapped(area) /\ f \in free_frames
        /\ pages[v] = NoFrame /\ \A w \in Mapped(area) : w < v => pages[w] # NoFrame
        /\ pages' = [pages EXCEPT ![v] = f] /\ free_frames' = free_frames \ {f}
        /\ pc' = IF v = area.va_end - 2 THEN "map" ELSE "pages"
        /\ UNCHANGED <<areas, pte, area>> /\ UNCHANGED objects
    BY <1>11 DEF AllocPage, IInv, Building
  <2>2. pages \in [VPage -> Frames \cup {NoFrame}] /\ f # NoFrame
    BY FrameAssumption DEF IInv, Types
  <2>3. pages'[v] = f /\ \A w \in VPage : w # v => pages'[w] = pages[w]
    BY <2>1, <2>2
  <2>4. NoFrameLost'
    <3>1. \A g \in Frames : g \in free_frames <=> \A w \in VPage : pages[w] # g
      BY <1>0 DEF NoFrameLost
    <3>2. ASSUME NEW g \in Frames
          PROVE  g \in free_frames' <=> \A w \in VPage : pages'[w] # g
      <4>1. g # NoFrame
        BY FrameAssumption
      <4> QED
        BY <2>1, <2>3, <3>1, <4>1
    <3>3. free_frames' \subseteq Frames
      BY <2>1 DEF IInv, Types
    <3> QED
      BY <3>2, <3>3 DEF NoFrameLost
  <2>5. pc' = "map" => \A w \in Mapped(area) : pages'[w] # NoFrame
    <3> SUFFICES ASSUME v = area.va_end - 2, NEW w \in Mapped(area) PROVE pages'[w] # NoFrame
      BY <2>1
    <3>1. w \in VPage /\ area.va_start \in Nat /\ area.va_end \in Nat
      BY <2>1, MappedInSpace
    <3>2. w = v \/ w < v
      BY <3>1 DEF Mapped
    <3> QED
      BY <2>1, <2>2, <2>3, <3>1, <3>2
  <2>6. MappedWhole'
    BY <1>0, <2>1, <2>5 DEF MappedWhole, InProgress, Mapped
  <2>7. NoObjectLost'
    BY <1>0, <2>1 DEF NoObjectLost, Extra
  <2> QED
    BY <2>4, <2>6, <2>7 DEF Account
<1>12. ASSUME NEW v \in VPage, MapPage(v) PROVE Account'
  <2>1. /\ pc = "map" /\ area \in areas /\ v \in Mapped(area)
        /\ \A w \in Mapped(area) : w < v => pte[w] # NoFrame
        /\ \A w \in Mapped(area) : pages[w] # NoFrame
        /\ pte' = [pte EXCEPT ![v] = pages[v]]
        /\ UNCHANGED <<areas, pages, free_frames>> /\ UNCHANGED objects
        /\ IF v = area.va_end - 2 THEN pc' = "idle" ELSE UNCHANGED <<pc, area>>
    BY <1>0, <1>12 DEF MapPage, Return, IInv, Building, MappedWhole
  <2>2. pte \in [VPage -> Frames \cup {NoFrame}]
    BY DEF IInv, Types
  <2>3. pte'[v] # NoFrame /\ \A w \in VPage : pte[w] # NoFrame => pte'[w] # NoFrame
    BY <2>1, <2>2
  <2>4. ASSUME v = area.va_end - 2, NEW w \in Mapped(area) PROVE pte'[w] # NoFrame
    <3>1. w \in VPage /\ area.va_start \in Nat /\ area.va_end \in Nat
      BY <2>1, MappedInSpace
    <3>2. w = v \/ w < v
      BY <2>4, <3>1 DEF Mapped
    <3> QED
      BY <2>1, <2>3, <3>1, <3>2
  <2>5. \A a \in areas : (\A w \in Mapped(a) : pte[w] # NoFrame) =>
                            \A w \in Mapped(a) : pte'[w] # NoFrame
    BY <2>3, MappedInSpace
  <2>6. MappedWhole'
    <3>1. CASE v = area.va_end - 2
      <4>1. \A a \in areas : \A w \in Mapped(a) : pte'[w] # NoFrame
        BY <1>0, <2>4, <2>5, <3>1 DEF MappedWhole, InProgress
      <4> QED
        BY <2>1, <3>1, <4>1 DEF MappedWhole, Mapped
    <3>2. CASE v # area.va_end - 2
      <4>1. \A a \in areas : a = area \/ \A w \in Mapped(a) : pte'[w] # NoFrame
        BY <1>0, <2>5 DEF MappedWhole, InProgress
      <4> QED
        BY <2>1, <3>2, <4>1 DEF MappedWhole, InProgress, Mapped
    <3> QED
      BY <3>1, <3>2
  <2>7. NoFrameLost'
    BY <1>0, <2>1 DEF NoFrameLost
  <2>8. NoObjectLost'
    BY <1>0, <2>1 DEF NoObjectLost, Extra
  <2> QED
    BY <2>6, <2>7, <2>8 DEF Account
<1> QED
  BY <1>1, <1>3, <1>4, <1>5, <1>6, <1>7, <1>9, <1>10, <1>11, <1>12 DEF Next, Step

\* A call that fails on the way, wherever it does, keeps no page and no object,
\* and what vmalloc has returned stays mapped as a whole until vfree.
THEOREM NothingKept == Spec => []Settled
<1>1. Init => Account
  BY InitAccount
<1>2. IInv /\ Account /\ [Next]_vars => Account'
  BY NextAccount
<1>3. Account => Settled
  <2> SUFFICES ASSUME Account, pc = "idle"
               PROVE  /\ \A a \in areas : \A v \in Mapped(a) : pte[v] # NoFrame
                      /\ free_frames = Frames \ {pages[v] : v \in VPage}
                      /\ objects = 3 * Cardinality(areas)
    BY DEF Settled
  <2>1. \A a \in areas : \A v \in Mapped(a) : pte[v] # NoFrame
    BY DEF Account, MappedWhole, InProgress
  <2>2. free_frames = Frames \ {pages[v] : v \in VPage}
    BY DEF Account, NoFrameLost
  <2>3. objects = 3 * Cardinality(areas)
    BY FS_CardinalityType DEF Account, NoObjectLost, Extra
  <2> QED
    BY <2>1, <2>2, <2>3
<1> QED
  BY <1>1, <1>2, <1>3, Invariance, PTL DEF Spec
=============================================================================
