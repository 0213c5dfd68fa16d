-------------------------------- MODULE Vmap --------------------------------
(***************************************************************************)
(* vmalloc in user space, from Memory-Allocator/vmalloc.  Addresses are    *)
(* counted in pages from VMALLOC_START.  vmalloc and vfree are the only    *)
(* callers of what lies below them, so the alignment is always 1, the      *)
(* search always begins at VMALLOC_START and every area has a guard page;  *)
(* an address that wraps around 2^32 is above VMALLOC_END and is treated   *)
(* the same.  The red-black tree and the list of areas are the set of      *)
(* areas in the order of their addresses, which Disjoint makes well        *)
(* defined.  Requests whose array of page pointers is larger than a page   *)
(* are left out: their array comes from vmalloc and goes to kfree.         *)
(*                                                                         *)
(* The program is sequential; `pc' is the loop the call in progress is in. *)
(***************************************************************************)
EXTENDS Integers, FiniteSets

CONSTANTS
  VMALLOC_END,   \* pages between VMALLOC_START and VMALLOC_END
  Requests,      \* the sizes vmalloc is called with, in pages
  Frames,        \* the pages alloc_page gives out
  NoFrame,       \* an empty page table entry
  PTRS_PER_PTE   \* pages one page table describes

ASSUME SpaceAssumption ==
  VMALLOC_END \in Nat /\ PTRS_PER_PTE \in Nat \ {0}
ASSUME RequestAssumption == Requests \subseteq Nat \ {0}
ASSUME FrameAssumption == NoFrame \notin Frames

VPage == 0 .. VMALLOC_END - 1
Area  == [va_start : Nat, va_end : Nat]
NoArea == [va_start |-> 0, va_end |-> 0]  \* NULL

VARIABLES
  areas,        \* vmap_area_root and vmap_area_list
  cache,        \* free_vmap_cache
  hole_size,    \* cached_hole_size
  pages,        \* area->pages[], at the address each page is meant for
  pte,          \* the page table entries
  tables,       \* the page tables there are
  free_frames,  \* what alloc_page can still give out
  objects,      \* vm_structs, vmap_areas and page arrays kmalloc gave out
  pc, size, addr, first, area  \* locals of the call in progress

search == <<size, addr, first>>
memory == <<pages, pte, tables, free_frames>>
vars   == <<areas, cache, hole_size, pages, pte, tables, free_frames, objects,
            pc, size, addr, first, area>>

\* The addresses of an area that are mapped: all but the guard page.
Mapped(a) == a.va_start .. a.va_end - 2

\* rb_prev and list_next_entry.
IsPrev(a, b) ==
  /\ b \in areas /\ b.va_end <= a.va_start
  /\ \A c \in areas : c.va_end <= a.va_start => c.va_end <= b.va_end
rb_prev(a) ==
  IF \E b \in areas : b.va_end <= a.va_start THEN CHOOSE b \in areas : IsPrev(a, b)
                                             ELSE NoArea
IsLast(a) == \A b \in areas : b.va_start <= a.va_start
IsNext(a, b) ==
  /\ b \in areas /\ a.va_end <= b.va_start
  /\ \A c \in areas : a.va_end <= c.va_start => b.va_start <= c.va_start

-----------------------------------------------------------------------------
Init ==
  /\ areas = {} /\ cache = NoArea /\ hole_size = 0
  /\ pages = [v \in VPage |-> NoFrame] /\ pte = pages
  /\ tables = {} /\ free_frames = Frames /\ objects = 0
  /\ pc = "idle" /\ size = 0 /\ addr = 0 /\ first = NoArea /\ area = NoArea

\* vmalloc of n pages up to the label retry: the vm_struct and the vmap_area are
\* there, and the guard page is added.  If kmalloc refuses one of them, NULL is
\* returned and nothing has changed.
Vmalloc(n) ==
  /\ pc = "idle"
  /\ n <= Cardinality(Frames)
  /\ size' = n + 1
  /\ objects' = objects + 2
  /\ pc' = "retry"
  /\ UNCHANGED <<areas, cache, hole_size, memory, addr, first, area>>

\* Mutant: the cache is kept although a hole below it is large enough.
UsesCacheAlways == cache # NoArea

\* May the search start at the cached area?
UseCache == cache # NoArea /\ ~(size < hole_size)

\* retry: where the search starts.
Retry ==
  /\ pc = "retry"
  /\ IF UseCache
       THEN /\ addr' = cache.va_end /\ first' = cache /\ pc' = "walk"
            /\ UNCHANGED <<cache, hole_size>>
       ELSE /\ hole_size' = 0 /\ cache' = NoArea /\ addr' = 0
            /\ \/ areas = {} /\ first' = NoArea /\ pc' = "found"
               \/ /\ pc' = "walk" /\ first' \in areas
                  /\ \A b \in areas : first'.va_start <= b.va_start
  /\ UNCHANGED <<areas, memory, objects, size, area>>

\* The largest hole seen so far.
NoteHole == IF addr + hole_size < first.va_start THEN first.va_start - addr
                                                 ELSE hole_size

\* Mutant: the guard page is not asked to fit.
GoOnNoGuard == addr + size - 1 > first.va_start /\ addr + size <= VMALLOC_END

\* The condition of the walk: the request does not fit below the next area.
GoOn == addr + size > first.va_start /\ addr + size <= VMALLOC_END

\* One round of the walk over the areas.
Walk ==
  /\ pc = "walk" /\ GoOn
  /\ hole_size' = NoteHole
  /\ addr' = first.va_end
  /\ \/ IsLast(first) /\ pc' = "found" /\ UNCHANGED first
     \/ \E b \in areas : IsNext(first, b) /\ first' = b /\ UNCHANGED pc
  /\ UNCHANGED <<areas, cache, memory, objects, size, area>>

WalkEnds ==
  /\ pc = "walk" /\ ~GoOn
  /\ pc' = "found"
  /\ UNCHANGED <<areas, cache, hole_size, memory, objects, search, area>>

\* overflow: `purged' is never set, so the search starts over.
Overflow ==
  /\ pc = "found" /\ addr + size > VMALLOC_END
  /\ pc' = "retry"
  /\ UNCHANGED <<areas, cache, hole_size, memory, objects, search, area>>

\* found: the new area is inserted and becomes the cached one.
Found ==
  /\ pc = "found" /\ addr + size <= VMALLOC_END
  /\ area' = [va_start |-> addr, va_end |-> addr + size]
  /\ areas' = areas \cup {area'}
  /\ cache' = area'
  /\ pc' = "array"
  /\ UNCHANGED <<hole_size, memory, objects, search>>

-----------------------------------------------------------------------------
\* Mutant: the cache moves to the area above.
CacheAbove(a) ==
  IF cache # NoArea /\ a = cache
    THEN IF \E b \in areas : IsNext(a, b) THEN CHOOSE b \in areas : IsNext(a, b)
                                          ELSE NoArea
    ELSE cache

\* __free_vmap_area: the cache moves down to the area before the freed one.
CacheAfterFree(a) ==
  IF cache # NoArea /\ a.va_start <= cache.va_start THEN rb_prev(a) ELSE cache

\* Mutant: the page table entries stay.
RemoveOnly(a) ==
  /\ areas' = areas \ {a}
  /\ cache' = CacheAfterFree(a)
  /\ UNCHANGED pte

\* remove_vm_area: unmap_vmap_area clears the entries, guard page included.
RemoveVmArea(a) ==
  /\ areas' = areas \ {a}
  /\ cache' = CacheAfterFree(a)
  /\ pte' = [v \in VPage |-> IF v \in a.va_start .. a.va_end - 1 THEN NoFrame
                                                                ELSE pte[v]]

\* __vunmap of an area with its array of pages: area->nr_pages of them go back.
Vunmap(a) ==
  /\ RemoveVmArea(a)
  /\ free_frames' = free_frames \cup ({pages[v] : v \in Mapped(a)} \ {NoFrame})
  /\ pages' = [v \in VPage |-> IF v \in Mapped(a) THEN NoFrame ELSE pages[v]]
  /\ objects' = objects - 3
  /\ UNCHANGED tables

\* vfree(addr) of an area vmalloc has returned.
Vfree(a) ==
  /\ pc = "idle"
  /\ Vunmap(a)
  /\ UNCHANGED <<hole_size, pc, search, area>>

\* The locals of a call are gone when it returns.
Return ==
  /\ pc' = "idle" /\ size' = 0 /\ addr' = 0 /\ first' = NoArea /\ area' = NoArea

\* __vmalloc_area_node: the array of page pointers, or the way back without it.
AllocArray ==
  /\ pc = "array"
  /\ objects' = objects + 1
  /\ pc' = "pages"
  /\ UNCHANGED <<areas, cache, hole_size, memory, search, area>>

\* Mutant: the vm_struct is not given back.
ArrayFailsLeaking ==
  /\ pc = "array"
  /\ RemoveVmArea(area)
  /\ objects' = objects - 1
  /\ Return
  /\ UNCHANGED <<hole_size, pages, tables, free_frames>>

ArrayFails ==
  /\ pc = "array"
  /\ RemoveVmArea(area)
  /\ objects' = objects - 2
  /\ Return
  /\ UNCHANGED <<hole_size, pages, tables, free_frames>>

\* One page of the loop over area->pages; after the last one they are mapped.
AllocPage(v, f) ==
  /\ pc = "pages" /\ v \in Mapped(area) /\ f \in free_frames
  /\ pages[v] = NoFrame /\ \A w \in Mapped(area) : w < v => pages[w] # NoFrame
  /\ pages' = [pages EXCEPT ![v] = f]
  /\ free_frames' = free_frames \ {f}
  /\ pc' = IF v = area.va_end - 2 THEN "map" ELSE "pages"
  /\ UNCHANGED <<areas, cache, hole_size, pte, tables, objects, search, area>>

\* map_vm_area, one entry; its page table is made if it is missing.
MapPage(v) ==
  /\ pc = "map" /\ v \in Mapped(area)
  /\ pte[v] = NoFrame /\ \A w \in Mapped(area) : w < v => pte[w] # NoFrame
  /\ pte' = [pte EXCEPT ![v] = pages[v]]
  /\ tables' = tables \cup {v \div PTRS_PER_PTE}
  /\ IF v = area.va_end - 2
       THEN Return
       ELSE UNCHANGED <<pc, search, area>>
  /\ UNCHANGED <<areas, cache, hole_size, pages, free_frames, objects>>

\* A missing page table that cannot be made, or an entry that is in use (-EBUSY).
CannotMap(v) ==
  /\ v \in Mapped(area)
  /\ \A w \in Mapped(area) : w < v => pte[w] = pages[w]
  /\ pte[v] # pages[v]
  /\ pte[v] # NoFrame \/ v \div PTRS_PER_PTE \notin tables

\* Mutant: a call that failed tries again instead of returning NULL.
FailRetries ==
  /\ \/ pc = "pages"
     \/ pc = "map" /\ \E v \in Mapped(area) : CannotMap(v)
  /\ RemoveVmArea(area)
  /\ free_frames' = free_frames \cup ({pages[v] : v \in Mapped(area)} \ {NoFrame})
  /\ pages' = [v \in VPage |-> IF v \in Mapped(area) THEN NoFrame ELSE pages[v]]
  /\ objects' = objects - 1
  /\ pc' = "retry"
  /\ UNCHANGED <<hole_size, tables, search, area>>

\* fail: alloc_page returned NULL or mapping failed; vfree takes back what there
\* is and vmalloc returns NULL.
Fail ==
  /\ \/ pc = "pages"
     \/ pc = "map" /\ \E v \in Mapped(area) : CannotMap(v)
  /\ Vunmap(area)
  /\ Return
  /\ UNCHANGED hole_size

Step ==
  \/ Retry \/ Walk \/ WalkEnds \/ Overflow \/ Found
  \/ AllocArray \/ ArrayFails \/ Fail
  \/ \E v \in VPage, f \in Frames : AllocPage(v, f)
  \/ \E v \in VPage : MapPage(v)

Next ==
  \/ \E n \in Requests : Vmalloc(n)
  \/ \E a \in areas : Vfree(a)
  \/ Step

\* A call in progress goes on: there is no one else it waits for.
Spec == Init /\ [][Next]_vars /\ WF_vars(Step)

-----------------------------------------------------------------------------
TypeOK ==
  /\ areas \subseteq Area /\ cache \in Area /\ hole_size \in Nat
  /\ pages \in [VPage -> Frames \cup {NoFrame}]
  /\ pte \in [VPage -> Frames \cup {NoFrame}]
  /\ tables \subseteq Nat /\ free_frames \subseteq Frames /\ objects \in Nat
  /\ pc \in {"idle", "retry", "walk", "found", "array", "pages", "map"}
  /\ size \in Nat /\ addr \in Nat /\ first \in Area /\ area \in Area

\* Areas, guard pages included, lie in the space and never overlap: the order
\* the tree and the list are kept in is well defined, and the page behind every
\* area stays unmapped.
Disjoint ==
  /\ \A a \in areas : a.va_start < a.va_end /\ a.va_end <= VMALLOC_END
  /\ \A a, b \in areas : \/ a = b
                         \/ a.va_end <= b.va_start
                         \/ b.va_end <= a.va_start

\* [x, y) is free address space.
IsFree(x, y) == \A a \in areas : a.va_end <= x \/ y <= a.va_start

\* free_vmap_cache never outlives the area it points to, whichever areas are
\* freed in whichever order, and cached_hole_size bounds every hole below it, so
\* that a search that starts there skips no hole larger than the request.
CacheSound ==
  cache # NoArea =>
    /\ cache \in areas
    /\ \A x, y \in VPage :
         x < y /\ y <= cache.va_start /\ IsFree(x, y) => y - x <= hole_size

\* The search gives up (and starts over) only if no hole is larger than the
\* request.  A hole of exactly that size may be overlooked.
NoSpaceMissed ==
  pc = "found" /\ addr + size > VMALLOC_END =>
    \A x \in VPage : \A y \in 1 .. VMALLOC_END :
      x < y /\ IsFree(x, y) => y - x <= size

\* The soft MMU: every entry in use belongs to an area and leads to a page that
\* area owns; a page is in one area only, or free.
Owned ==
  /\ \A v \in VPage : pte[v] # NoFrame => pte[v] = pages[v]
  /\ \A v \in VPage : pages[v] # NoFrame =>
       pages[v] \notin free_frames /\ \E a \in areas : v \in Mapped(a)
  /\ \A v, w \in VPage : pages[v] # NoFrame /\ pages[v] = pages[w] => v = w

\* What vmalloc returned is mapped from its first page to its last until vfree,
\* and nothing that failed on the way has kept a page or an object.
Settled ==
  pc = "idle" =>
    /\ \A a \in areas : \A v \in Mapped(a) : pte[v] # NoFrame
    /\ free_frames = Frames \ {pages[v] : v \in VPage}
    /\ objects = 3 * Cardinality(areas)

\* A call returns if some hole is larger than its request: it does not start
\* over for ever.
CallReturns ==
  (pc = "retry" /\ \E x, y \in VPage : y - x > size /\ IsFree(x, y))
    ~> (pc = "idle")
=============================================================================
