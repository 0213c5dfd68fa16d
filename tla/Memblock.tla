------------------------------ MODULE Memblock ------------------------------
(***************************************************************************)
(* The boot memory allocator in user space, from                           *)
(* Memory-Allocator/Memblock-allocator.  memory_init adds one region to    *)
(* memblock.memory and nothing adds another, so that array is the constant *)
(* [MemBase, MemBase + MemSize); memblock.reserved is the state.  Flags    *)
(* and nodes are the same for all regions.  A loop over the array is a     *)
(* recursive function: what it has done after its first k regions.         *)
(*                                                                         *)
(* The array of reserved regions lies in the memory it describes once it   *)
(* has been doubled.  What callers write into the memory they own is not   *)
(* modelled.                                                               *)
(***************************************************************************)
EXTENDS Integers, Sequences, FiniteSetsExt

CONSTANTS
  MemBase, MemSize,       \* CONFIG_MEMBLOCK_BASE, CONFIG_MEMBLOCK_SIZE
  PHYS_ADDR_MAX,
  PAGE_SIZE,
  RegionSize,             \* sizeof(struct memblock_region)
  INIT_MEMBLOCK_REGIONS,
  Bases, Sizes, Aligns,   \* what callers ask for
  MaxRegions              \* bound: calls are made while there are at most so many

ASSUME MemAssumption ==
  /\ MemBase \in Nat /\ MemSize \in Nat /\ PHYS_ADDR_MAX \in Nat /\ PAGE_SIZE \in Nat
  /\ 1 < PAGE_SIZE /\ PAGE_SIZE <= MemBase
  /\ MemBase + MemSize <= PHYS_ADDR_MAX
ASSUME ArrayAssumption ==
  /\ INIT_MEMBLOCK_REGIONS \in Nat /\ INIT_MEMBLOCK_REGIONS >= 2
  /\ RegionSize \in Nat \ {0}
ASSUME RequestAssumption ==
  /\ Bases \subseteq 0 .. PHYS_ADDR_MAX
  /\ Sizes \subseteq Nat \ {0} /\ Aligns \subseteq Nat \ {0}

VARIABLES
  reserved,   \* memblock.reserved
  bottom_up,  \* memblock.bottom_up
  owned       \* the addresses callers have reserved and not freed

vars == <<reserved, bottom_up, owned>>

Region(b, e) == [base |-> b, size |-> e - b]
End(r)       == r.base + r.size
Cells(r)     == r.base .. End(r) - 1
Dummy        == Region(0, 0)  \* the entry of an empty array
Limit        == MemBase + MemSize  \* current_limit

\* ((x) + (a) - 1) & ((a) - 1): the mask is not inverted.
ALIGN(x, a) == (x + a - 1) % a
round_up(x, a)   == ((x + a - 1) \div a) * a
round_down(x, a) == x - (x % a)

memblock_cap_size(base, size) == Min({size, PHYS_ADDR_MAX - base})

\* A range that begins at 0 or 1 ends below the memory.  For another one
\* memblock_double_array, which has found no room above the range, searches below
\* it with an end that memblock_find_in_range_node takes for "all memory", and puts
\* the new array into the range that is about to be reserved.
Clear(base, size) == base > 1 \/ base + size <= MemBase

ASSUME LowAssumption ==
  \A base \in Bases, size \in Sizes : Clear(base, memblock_cap_size(base, size))

Init ==
  /\ reserved = [regions |-> <<Dummy>>, max |-> INIT_MEMBLOCK_REGIONS,
                 total_size |-> 0,
                 array |-> 0]  \* 0: memblock_reserved_init_regions
  /\ bottom_up = FALSE
  /\ owned = {}

-----------------------------------------------------------------------------
(***************************************************************************)
(* Finding free memory.                                                    *)
(***************************************************************************)

\* The range before region i of the array, or behind the last one.
Gap(rs, i) == [start |-> IF i = 1 THEN 0 ELSE End(rs[i - 1]),
               end   |-> IF i <= Len(rs) THEN rs[i].base ELSE PHYS_ADDR_MAX]

\* for_each_free_mem_range and its reverse: the ranges that meet the memory, and
\* what is memory of such a range.
FreeRanges(rs) ==
  {i \in 1 .. Len(rs) + 1 : Gap(rs, i).start < Limit /\ MemBase < Gap(rs, i).end}
FreeRange(rs, i) == [start |-> Max({Gap(rs, i).start, MemBase}),
                     end   |-> Min({Gap(rs, i).end, Limit})]

clamp(x, lo, hi) == Min({Max({x, lo}), hi})

find_range_bottom_up(rs, start, end, size, align) ==
  LET this_end(i) == clamp(FreeRange(rs, i).end, start, end)
      cand(i)     == round_up(clamp(FreeRange(rs, i).start, start, end), align)
      fits == {i \in FreeRanges(rs) : cand(i) < this_end(i) /\ this_end(i) - cand(i) >= size}
  IN  IF fits = {} THEN 0 ELSE cand(Min(fits))

\* Mutant: a range of exactly the size is passed over.
TopDownStrict(rs, start, end, size, align) ==
  LET this_end(i) == clamp(FreeRange(rs, i).end, start, end)
      cand(i)     == round_down(this_end(i) - size, align)
      fits == {i \in FreeRanges(rs) : /\ this_end(i) >= size
                                      /\ cand(i) > clamp(FreeRange(rs, i).start, start, end)}
  IN  IF fits = {} THEN 0 ELSE cand(Max(fits))

find_range_top_down(rs, start, end, size, align) ==
  LET this_end(i) == clamp(FreeRange(rs, i).end, start, end)
      cand(i)     == round_down(this_end(i) - size, align)
      fits == {i \in FreeRanges(rs) : /\ this_end(i) >= size
                                      /\ cand(i) >= clamp(FreeRange(rs, i).start, start, end)}
  IN  IF fits = {} THEN 0 ELSE cand(Max(fits))

\* The second search is made when the first has found nothing.
OrElse(first, second) == IF first # 0 THEN first ELSE second

MEMBLOCK_ALLOC_ACCESSIBLE == 0
MEMBLOCK_ALLOC_KASAN      == 1

\* Two values of end stand for all the memory.
PumpUp(end) ==
  IF end \in {MEMBLOCK_ALLOC_ACCESSIBLE, MEMBLOCK_ALLOC_KASAN} THEN Limit ELSE end

\* memblock_find_in_range_node, with the kernel ending where the memory begins.
find_in_range(rs, start, end, size, align) ==
  LET from == Max({start, PAGE_SIZE})
      to   == Max({from, PumpUp(end)})
  IN  OrElse(IF bottom_up /\ to > MemBase
               THEN find_range_bottom_up(rs, Max({from, MemBase}), to, size, align)
               ELSE 0,
             find_range_top_down(rs, from, to, size, align))

-----------------------------------------------------------------------------
(***************************************************************************)
(* The region array.                                                       *)
(***************************************************************************)

\* Mutant: regions that touch are not merged.
MergeNothing(rs) == rs

MergeStep(out, r) ==
  LET n == Len(out)
  IN  IF n > 0 /\ End(out[n]) = r.base
        THEN [out EXCEPT ![n] = Region(out[n].base, End(r))]
        ELSE Append(out, r)
MergeWalk(rs) ==
  LET walk[k \in 0 .. Len(rs)] ==
        IF k = 0 THEN <<>> ELSE MergeStep(walk[k - 1], rs[k])
  IN  walk
memblock_merge_regions(rs) == MergeWalk(rs)[Len(rs)]

\* A region, unless it would be empty.
Piece(base, end) == IF base < end THEN <<Region(base, end)>> ELSE <<>>

\* The loop of memblock_add_range: what the new range adds goes between the regions
\* r; base is what is still to be dealt with.  The rest goes before the first region
\* that begins behind the range, or behind all.
AddStep(end, w, r) ==
  IF End(r) <= w.base
    THEN [out |-> Append(w.out, r), base |-> w.base]
    ELSE [out  |-> w.out \o Piece(w.base, Min({r.base, end})) \o <<r>>,
          base |-> Min({End(r), end})]
AddWalk(rs, base, end) ==
  LET walk[k \in 0 .. Len(rs)] ==
        IF k = 0 THEN [out |-> <<>>, base |-> base] ELSE AddStep(end, walk[k - 1], rs[k])
  IN  walk

\* The array with the missing parts of [base, end) inserted, not yet merged.
Inserted(rs, base, end) ==
  LET w == AddWalk(rs, base, end)[Len(rs)] IN w.out \o Piece(w.base, end)

SizeWalk(rs) ==
  LET sum[k \in 0 .. Len(rs)] == IF k = 0 THEN 0 ELSE sum[k - 1] + rs[k].size
  IN  sum
SizeOf(rs) == SizeWalk(rs)[Len(rs)]

\* memblock_add_range once there is room for the new regions.
AddRange(type, base, end) ==
  IF base = end THEN type
  ELSE IF type.regions[1].size = 0
    THEN [type EXCEPT !.regions = <<Region(base, end)>>,
                      !.total_size = end - base]
    ELSE LET rs == Inserted(type.regions, base, end)
         IN  [type EXCEPT !.regions = memblock_merge_regions(rs),
                          !.total_size = @ + SizeOf(rs) - SizeOf(type.regions)]

\* Mutant: the part of a region above the range is lost with it.
OutsideBelow(r, base, end) ==
  IF r.base >= end \/ End(r) <= base THEN <<r>> ELSE Piece(r.base, base)

\* memblock_isolate_range splits the regions that cross the borders of the range,
\* and what lies inside is removed.
Outside(r, base, end) ==
  IF r.base >= end \/ End(r) <= base THEN <<r>>
  ELSE Piece(r.base, base) \o Piece(end, End(r))
CutWalk(rs, base, end) ==
  LET walk[k \in 0 .. Len(rs)] ==
        IF k = 0 THEN <<>> ELSE walk[k - 1] \o Outside(rs[k], base, end)
  IN  walk
Cut(rs, base, end) == CutWalk(rs, base, end)[Len(rs)]

\* memblock_remove_range once there is room for two more regions.
RemoveRange(type, base, end) ==
  LET rs == Cut(type.regions, base, end)
  IN  IF base = end THEN type ELSE
      [type EXCEPT !.regions = IF rs = <<>> THEN <<Dummy>> ELSE rs,
                   !.total_size = @ + SizeOf(rs) - SizeOf(type.regions)]

\* Where memblock_double_array puts the new array: above the range [base, base +
\* size) that is about to be reserved, or else below it.
FindForArray(rs, base, size, need) ==
  OrElse(find_in_range(rs, base + size, Limit, need, PAGE_SIZE),
         IF size # 0
           THEN find_in_range(rs, 0, Min({base, Limit}), need, PAGE_SIZE)
           ELSE 0)

ArraySize(type) == ALIGN(type.max * RegionSize, PAGE_SIZE)

\* The new array at addr: the old one is freed, unless it is the static one, and the
\* new one reserved.  Neither call doubles the array again, for which
\* max + 2 <= 2 * max.
MoveArray(type, addr) ==
  LET moved == [type EXCEPT !.max = 2 * @, !.array = addr]
      freed == IF type.array = 0
                 THEN moved
                 ELSE RemoveRange(moved, type.array, type.array + ArraySize(type))
  IN  AddRange(freed, addr, addr + ArraySize(moved))

\* No room for the new array is ok = FALSE.
DoubleInto(type, addr) ==
  IF addr = 0 THEN [ok |-> FALSE, type |-> type]
              ELSE [ok |-> TRUE, type |-> MoveArray(type, addr)]

\* while (type->cnt + more > type->max)
RoomStep(more, base, size, w) ==
  IF ~w.ok \/ Len(w.type.regions) + more <= w.type.max
    THEN w
    ELSE DoubleInto(w.type,
           FindForArray(w.type.regions, base, size,
                        ALIGN(2 * w.type.max * RegionSize, PAGE_SIZE)))

\* Each round but the first makes room for two more regions at least.
RoomWalk(type, more, base, size) ==
  LET walk[k \in 0 .. more + 1] ==
        IF k = 0 THEN [ok |-> TRUE, type |-> type]
        ELSE RoomStep(more, base, size, walk[k - 1])
  IN  walk
MakeRoom(type, more, base, size) == RoomWalk(type, more, base, size)[more + 1]

\* Mutant: a range that fills several gaps is counted as one region.
NrNewAtMostOne(type, base, end) ==
  IF type.regions[1].size = 0
    THEN 0
    ELSE Min({1, Len(Inserted(type.regions, base, end)) - Len(type.regions)})

\* The number of regions the first pass of memblock_add_range counts.
NrNew(type, base, end) ==
  IF type.regions[1].size = 0
    THEN 0
    ELSE Len(Inserted(type.regions, base, end)) - Len(type.regions)

\* memblock_add_range(&memblock.reserved, base, size): 0 is ok = TRUE.
ReservedPlus(base, size) ==
  LET s    == memblock_cap_size(base, size)
      room == MakeRoom(reserved, NrNew(reserved, base, base + s), base, s)
  IN  IF room.ok THEN [room EXCEPT !.type = AddRange(@, base, base + s)] ELSE room

\* memblock_remove_range(&memblock.reserved, base, size).
ReservedMinus(base, size) ==
  LET s    == memblock_cap_size(base, size)
      room == MakeRoom(reserved, IF s = 0 THEN 0 ELSE 2, base, s)
  IN  IF room.ok THEN [room EXCEPT !.type = RemoveRange(@, base, base + s)]
                 ELSE room

-----------------------------------------------------------------------------
(***************************************************************************)
(* The calls.  Callers do not reserve memory the array lies in.            *)
(***************************************************************************)
ArrayCells ==
  IF reserved.array = 0 THEN {}
  ELSE reserved.array .. reserved.array + reserved.max * RegionSize - 1

Bounded == Len(reserved.regions) <= MaxRegions

memblock_reserve(base, size) ==
  LET range == base .. base + memblock_cap_size(base, size) - 1
      done  == ReservedPlus(base, size)
  IN  /\ Bounded /\ range \cap ArrayCells = {}
      /\ reserved' = done.type
      /\ owned' = IF done.ok THEN owned \cup range ELSE owned
      /\ UNCHANGED bottom_up

memblock_free(base, size) ==
  LET range == base .. base + size - 1
      done  == ReservedMinus(base, size)
  IN  /\ Bounded /\ range \subseteq owned
      /\ reserved' = done.type
      /\ owned' = IF done.ok THEN owned \ range ELSE owned
      /\ UNCHANGED bottom_up

\* memblock_alloc and memblock_phys_alloc; NULL changes nothing.  The inline
\* memblock_alloc has no return statement: its caller has the address only in a
\* build that leaves memblock_alloc_try_nid's result in place.  What is recorded is
\* the range that has been reserved for it.
memblock_alloc(size, align) ==
  LET found == find_in_range(reserved.regions, 0, MEMBLOCK_ALLOC_ACCESSIBLE, size, align)
      done  == ReservedPlus(found, size)
  IN  /\ Bounded /\ found # 0
      /\ reserved' = done.type
      /\ owned' = IF done.ok THEN owned \cup (found .. found + size - 1) ELSE owned
      /\ UNCHANGED bottom_up

memblock_set_bottom_up ==
  /\ bottom_up' = ~bottom_up
  /\ UNCHANGED <<reserved, owned>>

Next ==
  \/ \E base \in Bases, size \in Sizes :
       memblock_reserve(base, size) \/ memblock_free(base, size)
  \/ \E size \in Sizes, align \in Aligns : memblock_alloc(size, align)
  \/ memblock_set_bottom_up

Spec == Init /\ [][Next]_vars

-----------------------------------------------------------------------------
CellsOf(rs) == UNION {Cells(rs[i]) : i \in 1 .. Len(rs)}

\* The memory that is reserved for the array.
ArrayReserved ==
  IF reserved.array = 0 THEN {}
  ELSE reserved.array .. reserved.array + ArraySize(reserved) - 1

\* The array is in order, without overlaps, and minimal as its comment promises:
\* regions that touch are one region.
Minimal ==
  LET rs == reserved.regions
  IN  /\ \A i \in 1 .. Len(rs) - 1 : End(rs[i]) < rs[i + 1].base
      /\ \A i \in 1 .. Len(rs) : rs[i].size > 0 \/ rs = <<Dummy>>

\* After any mix of overlapping reservations, allocations and partial frees, what
\* is reserved is what callers own and the memory reserved for the array, to the
\* cell and without an overlap: nothing is lost when the array moves in the middle
\* of a call.
ReservedIsOwned ==
  CellsOf(reserved.regions) = owned \cup ArrayReserved /\ owned \cap ArrayReserved = {}

\* The array is the static one, or fits into a page.
ArrayInPage == reserved.array = 0 \/ reserved.max * RegionSize <= PAGE_SIZE

\* Also, of an array that fits into a page callers are given the last byte at most,
\* which ALIGN leaves out of what memblock_double_array reserves.  (Of a larger one
\* ALIGN reserves less than a page, and callers are given the rest.)
ReservedExact ==
  /\ ReservedIsOwned
  /\ ArrayInPage =>
       ArrayCells \cap owned \subseteq {reserved.array + reserved.max * RegionSize - 1}

\* total_size is the sum of the sizes, and the regions the second pass of
\* memblock_add_range inserts, before they are merged, fit into the array the
\* first pass has made room in: the BUG_ON of memblock_insert_region is never met
\* by a range outside of the array that is not one of those LowAssumption excludes.
CountsFit ==
  /\ reserved.total_size = SizeOf(reserved.regions)
  /\ Len(reserved.regions) <= reserved.max
  /\ \A base \in 0 .. PHYS_ADDR_MAX, size \in Sizes :
       LET s    == memblock_cap_size(base, size)
           room == MakeRoom(reserved, NrNew(reserved, base, base + s), base, s)
       IN  room.ok /\ Clear(base, s) /\ (base .. base + s - 1) \cap ArrayReserved = {} =>
             Len(Inserted(room.type.regions, base, base + s)) <= room.type.max

\* The search in the direction that is set finds free memory of the size and
\* alignment asked for if and only if there is any.
FindsRoom ==
  \A size \in Sizes, align \in Aligns :
    LET found   == find_in_range(reserved.regions, 0, MEMBLOCK_ALLOC_ACCESSIBLE, size, align)
        free(a) == /\ a % align = 0 /\ a + size <= Limit
                   /\ (a .. a + size - 1) \cap CellsOf(reserved.regions) = {}
    IN  IF found # 0 THEN found >= MemBase /\ free(found)
                     ELSE \A a \in MemBase .. Limit - 1 : ~free(a)
=============================================================================
