------------------------------- MODULE Percpu -------------------------------
(***************************************************************************)
(* The per-CPU allocator in user space, from Memory-Allocator/PERCPU-MEMAT *)
(* (the SMP and the UP program share it): the first chunk, a bitmap with   *)
(* metadata per block of bits, which alloc_percpu and free_percpu keep up  *)
(* to date without looking at the whole map.  Sizes, offsets and           *)
(* alignments are in bits, units of PCPU_MIN_ALLOC_SIZE bytes; a block is  *)
(* a page.  All pages of the chunk are populated, nothing reads the        *)
(* statistics, and nothing asks for reserved memory, so that the second    *)
(* chunk never changes.  A size or an alignment that is not legal returns  *)
(* NULL and changes nothing.                                               *)
(***************************************************************************)
EXTENDS Integers, FiniteSets, FiniteSetsExt

CONSTANTS
  BLOCK_BITS,           \* PCPU_BITMAP_BLOCK_BITS, also PCPU_BITS_PER_PAGE
  NrBlocks,             \* pcpu_chunk_nr_blocks
  StartBits, EndBits,   \* start_offset and end_offset of the chunk
  UnitSize,             \* pcpu_unit_size, in bytes
  Requests, Aligns      \* what alloc_percpu is called with

map_bits == BLOCK_BITS * NrBlocks

ASSUME BlockAssumption == BLOCK_BITS \in Nat \ {0} /\ NrBlocks \in Nat \ {0}
ASSUME OffsetAssumption ==
  /\ StartBits \in 0 .. BLOCK_BITS - 1 /\ EndBits \in 0 .. BLOCK_BITS - 1
  /\ StartBits + EndBits < map_bits
ASSUME RequestAssumption ==
  /\ Requests \subseteq Nat \ {0} /\ Aligns \subseteq Nat \ {0}
  /\ \A a \in Aligns : BLOCK_BITS % a = 0

MIN_ALLOC_SIZE == 4

\* The chunk lies in one unit.
ASSUME UnitAssumption == UnitSize \in Nat /\ map_bits * MIN_ALLOC_SIZE <= UnitSize

VARIABLES
  alloc_map,   \* the bits in use
  bound_map,   \* the bits at which areas begin or end
  md_blocks,   \* the metadata of the blocks
  contig,      \* contig_bits and contig_bits_start
  first_bit,
  free_bytes,
  areas,       \* what callers hold
  want         \* the request pcpu_alloc starts over for, again and again

vars == <<alloc_map, bound_map, md_blocks, contig, first_bit, free_bytes, areas, want>>

Nothing  == [bits |-> 0, align |-> 1]

ALIGN(x, a)      == ((x + a - 1) \div a) * a
ALIGN_DOWN(x, a) == (x \div a) * a
Index(off) == off \div BLOCK_BITS
Off(off)   == off % BLOCK_BITS

-----------------------------------------------------------------------------
(***************************************************************************)
(* Bitmaps are the sets of the bits that are set.                          *)
(***************************************************************************)
FirstOf(S, size) == Min(S \cup {size})
find_next_bit(map, size, off) == FirstOf({i \in off .. size - 1 : i \in map}, size)
find_next_zero_bit(map, size, off) ==
  FirstOf({i \in off .. size - 1 : i \notin map}, size)
find_last_bit(map, size) ==
  LET S == {i \in 0 .. size - 1 : i \in map} IN IF S = {} THEN size ELSE Max(S)

\* bitmap_find_next_zero_area: the first aligned area of n zero bits, or `size'.
find_next_zero_area(map, size, start, n, align) ==
  FirstOf({i \in start .. size - n : i % align = 0 /\ (i .. i + n - 1) \cap map = {}},
          size)

\* The lowest bit that is set, and the highest one, counted from 1: as many powers
\* of 2 as an int has are not above x.
ffs(x) == CHOOSE k \in 0 .. x : x % 2 ^ k = 0 /\ x % 2 ^ (k + 1) # 0
fls(x) == Cardinality({2 ^ k : k \in 0 .. 30} \cap (1 .. x))

\* pcpu_index_alloc_map: the bits of one block.
BlockMap(map, index) == {k \in 0 .. BLOCK_BITS - 1 : index * BLOCK_BITS + k \in map}

\* pcpu_for_each_unpop_region from `start' on: a run of zero bits begins at k.
RunBegins(map, start, k) ==
  start <= k /\ k \notin map /\ (k = start \/ k - 1 \in map)

-----------------------------------------------------------------------------
(***************************************************************************)
(* Metadata.                                                               *)
(***************************************************************************)

\* Of two areas of the same size the one with the better alignment is kept.
BetterStart(old, new) == old # 0 /\ (new = 0 \/ ffs(new) > ffs(old))

\* Mutant: the space along the right side of the block is not noted.
BlockUpdateNoRight(b, start, end) ==
  LET n    == end - start
      take == n > b.contig_hint \/ (n = b.contig_hint /\ BetterStart(b.contig_hint_start, start))
  IN  [contig_hint       |-> IF take THEN n ELSE b.contig_hint,
       contig_hint_start |-> IF take THEN start ELSE b.contig_hint_start,
       left_free         |-> IF start = 0 THEN n ELSE b.left_free,
       right_free        |-> b.right_free,
       first_free        |-> Min({b.first_free, start})]

pcpu_block_update(b, start, end) ==
  LET n    == end - start
      take == n > b.contig_hint \/ (n = b.contig_hint /\ BetterStart(b.contig_hint_start, start))
  IN  [contig_hint       |-> IF take THEN n ELSE b.contig_hint,
       contig_hint_start |-> IF take THEN start ELSE b.contig_hint_start,
       left_free         |-> IF start = 0 THEN n ELSE b.left_free,
       right_free        |-> IF end = BLOCK_BITS THEN n ELSE b.right_free,
       first_free        |-> Min({b.first_free, start})]

Full(b) == [b EXCEPT !.contig_hint = 0, !.left_free = 0, !.right_free = 0]

\* The block after the runs that begin below k.
RefreshScan(b, map) ==
  LET scan[k \in 0 .. BLOCK_BITS] ==
        IF k = 0 THEN Full(b)
        ELSE IF RunBegins(map, b.first_free, k - 1)
          THEN pcpu_block_update(scan[k - 1], k - 1, find_next_bit(map, BLOCK_BITS, k))
          ELSE scan[k - 1]
  IN  scan
pcpu_block_refresh_hint(b, map) == RefreshScan(b, map)[BLOCK_BITS]

EmptyBlock == [contig_hint |-> BLOCK_BITS, contig_hint_start |-> 0,
               left_free |-> BLOCK_BITS, right_free |-> BLOCK_BITS, first_free |-> 0]

pcpu_chunk_update(c, off, n) ==
  IF n > c.bits \/ (n = c.bits /\ BetterStart(c.start, off))
    THEN [bits |-> n, start |-> off] ELSE c

\* block_off, which is reset once the first block has been looked at.
BlockOff(off, i) == IF i = Index(off) THEN Off(off) ELSE 0

\* pcpu_next_md_free_region: w is what it knows when it comes to block i.
FreeRegionStep(md, off, i, w) ==
  LET b == md[i]
  IN  IF w.done THEN w
      ELSE IF w.bits # 0
        THEN [w EXCEPT !.bits = @ + b.left_free, !.done = b.left_free # BLOCK_BITS]
      ELSE IF /\ b.contig_hint # 0 /\ b.contig_hint_start >= BlockOff(off, i)
              /\ b.contig_hint + b.contig_hint_start < BLOCK_BITS
        THEN [done |-> TRUE, off |-> i * BLOCK_BITS + b.contig_hint_start,
              bits |-> b.contig_hint]
        ELSE [done |-> FALSE, off |-> (i + 1) * BLOCK_BITS - b.right_free,
              bits |-> b.right_free]
FreeRegionWalk(md, off) ==
  LET walk[i \in 0 .. NrBlocks] ==
        IF i <= Index(off) THEN [done |-> FALSE, off |-> off, bits |-> 0]
        ELSE FreeRegionStep(md, off, i - 1, walk[i - 1])
  IN  walk
NextFreeRegion(md, off) == FreeRegionWalk(md, off)[NrBlocks]

\* pcpu_for_each_md_free_region: one round, which does nothing behind the map.
BestRegionStep(md, w) ==
  LET r == NextFreeRegion(md, w.off)
  IN  IF r.off >= map_bits THEN [w EXCEPT !.off = r.off]
      ELSE [off |-> r.off + r.bits + 1, best |-> pcpu_chunk_update(w.best, r.off, r.bits)]
BestRegionWalk(md, off, c) ==
  LET walk[k \in 0 .. map_bits] ==
        IF k = 0 THEN [off |-> off, best |-> c] ELSE BestRegionStep(md, walk[k - 1])
  IN  walk

pcpu_chunk_refresh_hint(md, first, c) ==
  BestRegionWalk(md, first, [c EXCEPT !.bits = 0])[map_bits].best

\* pcpu_block_update_hint_alloc: the blocks, with the n bits at off set in map.
BlocksAfterAlloc(md, map, off, n) ==
  LET s == Index(off)  e == Index(off + n - 1)
      s_off == Off(off)  e_off == Off(off + n - 1) + 1
      sb == IF s_off = md[s].first_free
              THEN [md[s] EXCEPT !.first_free =
                      find_next_zero_bit(BlockMap(map, s), BLOCK_BITS, s_off + n)]
              ELSE md[s]
      eb == [md[e] EXCEPT !.first_free =
               find_next_zero_bit(BlockMap(map, e), BLOCK_BITS, e_off)]
      broken == /\ s_off >= sb.contig_hint_start
                /\ s_off < sb.contig_hint_start + sb.contig_hint
      left(b)  == [b EXCEPT !.left_free = Min({@, s_off}),
                            !.right_free = IF s = e THEN Min({@, BLOCK_BITS - e_off}) ELSE 0]
      right(b) == [b EXCEPT !.left_free = 0,
                            !.right_free = Min({@, BLOCK_BITS - e_off})]
  IN  [i \in 0 .. NrBlocks - 1 |->
         CASE i = s         -> IF broken THEN pcpu_block_refresh_hint(sb, BlockMap(map, s))
                                         ELSE left(sb)
           [] s < i /\ i < e -> Full(md[i])
           [] s < i /\ i = e -> IF e_off = BLOCK_BITS THEN Full(eb)
                                ELSE IF e_off > eb.contig_hint_start
                                  THEN pcpu_block_refresh_hint(eb, BlockMap(map, e))
                                  ELSE right(eb)
           [] OTHER         -> md[i]]

ContigAfterAlloc(md, first, c, off) ==
  IF off >= c.start /\ off < c.start + c.bits
    THEN pcpu_chunk_refresh_hint(md, first, c) ELSE c

-----------------------------------------------------------------------------
(***************************************************************************)
(* pcpu_alloc_first_chunk hides the bits before the first and behind the   *)
(* last byte of the region.                                                *)
(***************************************************************************)
Hidden == (0 .. StartBits - 1) \cup (map_bits - EndBits .. map_bits - 1)

Init ==
  LET fresh == [i \in 0 .. NrBlocks - 1 |-> EmptyBlock]
      n     == map_bits - StartBits - EndBits
      whole == [bits |-> n, start |-> 0]
      md1   == IF StartBits = 0 THEN fresh
               ELSE BlocksAfterAlloc(fresh, 0 .. StartBits - 1, 0, StartBits)
      c1    == IF StartBits = 0 THEN whole
               ELSE ContigAfterAlloc(md1, StartBits, whole, 0)
  IN  /\ alloc_map = Hidden
      /\ bound_map = (IF StartBits = 0 THEN {} ELSE {0, StartBits})
                     \cup (IF EndBits = 0 THEN {} ELSE {map_bits - EndBits, map_bits})
      /\ first_bit = StartBits
      /\ free_bytes = n * MIN_ALLOC_SIZE
      /\ md_blocks = IF EndBits = 0 THEN md1
                     ELSE BlocksAfterAlloc(md1, Hidden, map_bits - EndBits, EndBits)
      /\ contig = IF EndBits = 0 THEN c1
                  ELSE ContigAfterAlloc(md_blocks, StartBits, c1, map_bits - EndBits)
      /\ areas = {} /\ want = Nothing

-----------------------------------------------------------------------------
(***************************************************************************)
(* Allocating.                                                             *)
(***************************************************************************)

\* Mutant: block_off, which is about the first block, is kept for the next ones.
FitRegionStepNoReset(bits, align, i, w) ==
  LET b    == md_blocks[i]
      pad  == ALIGN(b.contig_hint_start, align) - b.contig_hint_start
      last == ALIGN(BLOCK_BITS - b.right_free, align)
  IN  IF w.done THEN w
      ELSE IF w.bits # 0 /\ w.bits + b.left_free >= bits THEN [w EXCEPT !.done = TRUE]
      ELSE IF w.bits # 0 /\ b.left_free = BLOCK_BITS
        THEN [w EXCEPT !.bits = @ + BLOCK_BITS]
      ELSE IF /\ b.contig_hint # 0 /\ b.contig_hint_start >= Off(first_bit)
              /\ b.contig_hint >= pad + bits
        THEN [done |-> TRUE, off |-> i * BLOCK_BITS + b.first_free, bits |-> bits]
        ELSE [done |-> BLOCK_BITS - last >= bits, off |-> i * BLOCK_BITS + last,
              bits |-> BLOCK_BITS - last]

\* pcpu_next_fit_region, in the same way.
FitRegionStep(bits, align, i, w) ==
  LET b    == md_blocks[i]
      pad  == ALIGN(b.contig_hint_start, align) - b.contig_hint_start
      last == ALIGN(BLOCK_BITS - b.right_free, align)
  IN  IF w.done THEN w
      ELSE IF w.bits # 0 /\ w.bits + b.left_free >= bits THEN [w EXCEPT !.done = TRUE]
      ELSE IF w.bits # 0 /\ b.left_free = BLOCK_BITS
        THEN [w EXCEPT !.bits = @ + BLOCK_BITS]
      ELSE IF /\ b.contig_hint # 0 /\ b.contig_hint_start >= BlockOff(first_bit, i)
              /\ b.contig_hint >= pad + bits
        THEN [done |-> TRUE, off |-> i * BLOCK_BITS + b.first_free, bits |-> bits]
        ELSE [done |-> BLOCK_BITS - last >= bits, off |-> i * BLOCK_BITS + last,
              bits |-> BLOCK_BITS - last]
FitRegionWalk(bits, align) ==
  LET walk[i \in 0 .. NrBlocks] ==
        IF i <= Index(first_bit) THEN [done |-> FALSE, off |-> first_bit, bits |-> 0]
        ELSE FitRegionStep(bits, align, i - 1, walk[i - 1])
  IN  walk
NextFitRegion(bits, align) ==
  LET w == FitRegionWalk(bits, align)[NrBlocks]
  IN  IF w.done THEN w.off ELSE map_bits

\* Where to look for an area, or -1.
pcpu_find_block_fit(bits, align) ==
  LET pad == ALIGN(contig.start, align) - contig.start
      off == NextFitRegion(bits, align)
  IN  IF pad + bits > contig.bits \/ off = map_bits THEN -1 ELSE off

\* Mutant: only the place itself is looked at.
AreaAt(start, bits, align) ==
  LET end == start + bits
      off == find_next_zero_area(alloc_map, end, start, bits, align)
  IN  IF off >= end THEN -1 ELSE off

\* The area pcpu_alloc_area finds from there, or -1; the map is not the limit.
AreaFrom(start, bits, align) ==
  LET end == start + bits + BLOCK_BITS
      off == find_next_zero_area(alloc_map, end, start, bits, align)
  IN  IF off >= end THEN -1 ELSE off

\* The list the chunk is on; pcpu_chunk_relocate follows every change.
bytes_to_slot(size) == Max({fls(size) - 5 + 2, 1})  \* __pcpu_size_to_slot
nr_slots == bytes_to_slot(UnitSize) + 2
size_to_slot(size) == IF size = UnitSize THEN nr_slots - 1 ELSE bytes_to_slot(size)
pcpu_chunk_slot ==
  IF free_bytes < MIN_ALLOC_SIZE \/ contig.bits = 0 THEN 0 ELSE size_to_slot(free_bytes)

\* What pcpu_alloc finds in the one chunk there is.
Found(bits, align) ==
  LET start == pcpu_find_block_fit(bits, align)
  IN  IF size_to_slot(bits * MIN_ALLOC_SIZE) > pcpu_chunk_slot \/ start = -1
        THEN -1 ELSE AreaFrom(start, bits, align)

\* Mutant: the boundaries of earlier areas inside the new one stay.
BoundsKept(off, bits) == bound_map \cup {off, off + bits}

BoundsAround(off, bits) ==
  (bound_map \ (off + 1 .. off + bits - 1)) \cup {off, off + bits}

alloc_percpu(bits, align) ==
  LET off == Found(bits, align)
      map == alloc_map \cup (off .. off + bits - 1)
  IN  /\ want = Nothing /\ off # -1
      /\ alloc_map' = map
      /\ bound_map' = BoundsAround(off, bits)
      /\ free_bytes' = free_bytes - bits * MIN_ALLOC_SIZE
      /\ first_bit' = IF off = first_bit
                        THEN find_next_zero_bit(map, map_bits, off + bits) ELSE first_bit
      /\ md_blocks' = BlocksAfterAlloc(md_blocks, map, off, bits)
      /\ contig' = ContigAfterAlloc(md_blocks', first_bit', contig, off)
      /\ areas' = areas \cup {[off |-> off, bits |-> bits]}
      /\ UNCHANGED want

\* There is no other chunk and none is made: pcpu_alloc starts over for ever.
NeedNew(bits, align) ==
  /\ want = Nothing /\ Found(bits, align) = -1
  /\ want' = [bits |-> bits, align |-> align]
  /\ UNCHANGED <<alloc_map, bound_map, md_blocks, contig, first_bit, free_bytes, areas>>

-----------------------------------------------------------------------------
(***************************************************************************)
(* Freeing.                                                                *)
(***************************************************************************)

\* The free area around the n bits at off, which are cleared in map, as far as it
\* reaches in the blocks they begin and end in.
FreeStart(map, off) ==
  LET b     == md_blocks[Index(off)]
      l_bit == find_last_bit(BlockMap(map, Index(off)), Off(off))
  IN  IF Off(off) = b.contig_hint + b.contig_hint_start THEN b.contig_hint_start
      ELSE IF l_bit = Off(off) THEN 0 ELSE l_bit + 1
FreeEnd(map, last) ==
  LET b     == md_blocks[Index(last)]
      e_off == Off(last) + 1
  IN  IF e_off = b.contig_hint_start THEN b.contig_hint_start + b.contig_hint
      ELSE find_next_bit(BlockMap(map, Index(last)), BLOCK_BITS, e_off)

\* pcpu_block_update_hint_free: the blocks.
BlocksAfterFree(map, off, n) ==
  LET s == Index(off)  e == Index(off + n - 1)
      start == FreeStart(map, off)  end == FreeEnd(map, off + n - 1)
  IN  [i \in 0 .. NrBlocks - 1 |->
         CASE i = s             -> pcpu_block_update(md_blocks[s], start,
                                                     IF s = e THEN end ELSE BLOCK_BITS)
           [] s < i /\ i < e    -> EmptyBlock
           [] s < i /\ i = e    -> pcpu_block_update(md_blocks[e], 0, end)
           [] i < s \/ e < i    -> md_blocks[i]]

\* Mutant: the chunk is not looked through when areas grow across blocks.
ContigNotRefreshed(map, md, first, off, n) ==
  pcpu_chunk_update(contig, Index(off) * BLOCK_BITS + FreeStart(map, off),
                    md[Index(off)].contig_hint)

\* pcpu_block_update_hint_free: the chunk, with the blocks as they are then.
ContigAfterFree(map, md, first, off, n) ==
  LET s == Index(off)  e == Index(off + n - 1)
      start == FreeStart(map, off)  end == FreeEnd(map, off + n - 1)
  IN  IF s # e \/ ALIGN_DOWN(end, BLOCK_BITS) > ALIGN(start, BLOCK_BITS)
        THEN pcpu_chunk_refresh_hint(md, first, contig)
        ELSE pcpu_chunk_update(contig, s * BLOCK_BITS + start, md[s].contig_hint)

FirstAfterFree(off) == Min({first_bit, off})

\* The bits pcpu_free_area takes for the area at off.
AreaBits(off) == find_next_bit(bound_map, map_bits, off + 1) - off

free_percpu(a) ==
  LET n   == AreaBits(a.off)
      map == alloc_map \ (a.off .. a.off + n - 1)
  IN  /\ want = Nothing
      /\ alloc_map' = map
      /\ free_bytes' = free_bytes + n * MIN_ALLOC_SIZE
      /\ first_bit' = FirstAfterFree(a.off)
      /\ md_blocks' = BlocksAfterFree(map, a.off, n)
      /\ contig' = ContigAfterFree(map, md_blocks', first_bit', a.off, n)
      /\ areas' = areas \ {a}
      /\ UNCHANGED <<bound_map, want>>

Next ==
  \/ \E bits \in Requests, align \in Aligns : alloc_percpu(bits, align) \/ NeedNew(bits, align)
  \/ \E a \in areas : free_percpu(a)

Spec == Init /\ [][Next]_vars

-----------------------------------------------------------------------------
Cells(a) == a.off .. a.off + a.bits - 1

\* Areas that are held never overlap nor leave the usable part of the chunk, and
\* the boundary map, which keeps the boundaries of areas long freed, tells the
\* size each was allocated with.  The bits in use are those of the areas and of
\* the hidden ends, free_bytes counts the others, and none of them lies below
\* first_bit, where every search begins.
AreasExact ==
  LET free == (0 .. map_bits - 1) \ alloc_map
  IN  /\ \A a \in areas : Cells(a) \subseteq (0 .. map_bits - 1) \ Hidden
      /\ \A a, b \in areas : a = b \/ Cells(a) \cap Cells(b) = {}
      /\ \A a \in areas : AreaBits(a.off) = a.bits
      /\ alloc_map = Hidden \cup UNION {Cells(a) : a \in areas}
      /\ free_bytes = MIN_ALLOC_SIZE * Cardinality(free)
      /\ \A i \in free : first_bit <= i

\* The length of the longest run of zero bits.
Runs(map, size) ==
  {r \in (0 .. size - 1) \X (0 .. size - 1) : (r[1] .. r[2]) \cap map = {}}
Longest(map, size) == Max({0} \cup {r[2] - r[1] + 1 : r \in Runs(map, size)})

\* The metadata of every block, updated from the metadata alone in most cases,
\* agrees with the bitmap: the longest free run and a place where there is one,
\* the runs at both sides, and a position no free bit is below.
BlocksExact ==
  \A i \in 0 .. NrBlocks - 1 :
    LET b   == md_blocks[i]
        map == BlockMap(alloc_map, i)
    IN  /\ b.contig_hint = Longest(map, BLOCK_BITS)
        /\ (b.contig_hint_start .. b.contig_hint_start + b.contig_hint - 1) \cap map = {}
        /\ b.left_free = find_next_bit(map, BLOCK_BITS, 0)
        /\ b.right_free = BLOCK_BITS - 1 - Max({-1} \cup map)
        /\ b.first_free <= find_next_zero_bit(map, BLOCK_BITS, 0)

\* Where pcpu_find_block_fit says there is a fit, pcpu_alloc_area, which stops a
\* block further on but not at the end of the map, finds one inside the map.
FitMeansArea ==
  \A bits \in Requests, align \in Aligns :
    LET start == pcpu_find_block_fit(bits, align)
        off   == AreaFrom(start, bits, align)
    IN  start # -1 => off # -1 /\ off + bits <= map_bits

\* contig_bits, which is kept up to date without a look at the blocks in most
\* cases, is never below what a single block has.
HintCoversBlocks ==
  \A i \in 0 .. NrBlocks - 1 : contig.bits >= md_blocks[i].contig_hint

\* pcpu_alloc starts over for ever only if no block has the room to align the
\* request in.
SpinsWithoutRoom ==
  want # Nothing =>
    \A i \in 0 .. NrBlocks - 1 :
      Longest(BlockMap(alloc_map, i), BLOCK_BITS) < want.bits + want.align - 1
=============================================================================
