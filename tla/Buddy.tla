-------------------------------- MODULE Buddy --------------------------------
(***************************************************************************)
(* The buddy page allocator with its per-cpu page list (PCP), from         *)
(* Memory-Allocator/Buddy/PCP_userspace.                                   *)
(*                                                                         *)
(* A page is its index in mem_map[], 0 .. NrPages-1: PFN_OFFSET is a       *)
(* multiple of the largest block, so `page_pfn ^ (1 << order)' on frame    *)
(* numbers and on indices agree.  A block is a first page and an order.    *)
(*                                                                         *)
(* The program is sequential.  A call of __alloc_pages or __free_pages is  *)
(* the sequence of steps its loops take (merging, expanding, refilling and *)
(* draining the PCP list); `pc' says in which loop the call in progress    *)
(* is.  Every state between two iterations is a state of the model, so the *)
(* invariants below speak of the loops too and not only of their results.  *)
(***************************************************************************)
EXTENDS KList

CONSTANTS
  MAX_ORDER,    \* orders are 0 .. MAX_ORDER-1 (11 in the code)
  Pow2,         \* Pow2[order] is 1 << order
  NrPages,      \* nr_pages, MEMORY_SIZE / PAGE_SIZE
  BATCH_SIZE,   \* CONFIG_BATCH_SIZE
  HIGH_FACTOR,  \* pcp->high is HIGH_FACTOR * batch (6 in the code)
  StalePage,    \* what a struct page nobody has written may hold
  FellOff       \* what page_is_buddy yields when it reaches its closing brace

Orders == 0 .. MAX_ORDER - 1
Page   == 0 .. NrPages - 1

(***************************************************************************)
(* The powers of two up to the largest block, and a memory that is made of *)
(* whole largest blocks (16 MiB in the Makefile, of 4 MiB blocks).         *)
(***************************************************************************)
ASSUME SizeAssumption ==
  /\ MAX_ORDER \in Nat /\ MAX_ORDER > 1
  /\ NrPages \in Nat \ {0}
  /\ Pow2 \in [Orders -> Nat \ {0}]
  /\ Pow2[0] = 1
  /\ \A o \in Orders : o > 0 => Pow2[o] = 2 * Pow2[o - 1]
  /\ \A i, j \in Orders : i <= j =>
        \E m \in 1 .. Pow2[j] : Pow2[j] = m * Pow2[i]
  /\ \E m \in 1 .. NrPages : NrPages = m * Pow2[MAX_ORDER - 1]

ASSUME PcpAssumption == BATCH_SIZE \in Nat /\ HIGH_FACTOR \in Nat \ {0}

\* memory_init only sets the bits of PAGE_TYPE_BASE: PG_buddy and private keep
\* what malloc returned.  (Pages fresh from the system are zero, which reads as
\* PageBuddy with order 0.)
ASSUME StaleAssumption ==
  /\ StalePage # {}
  /\ StalePage \subseteq [PageBuddy : BOOLEAN, private : Nat]

\* page_is_buddy has no `return 0'.  "zero": the caller sees 0.  "register": it
\* sees what the last call left in the return register, PageBuddy(buddy) or
\* page_order(buddy), which is what an unoptimised build does: also the one of the
\* allocator's own Makefile, which gives no -O.
ASSUME FellOffAssumption == FellOff \in {"zero", "register"}

VARIABLES
  free_list,  \* zone->free_area[order].free_list[0]
  nr_free,    \* zone->free_area[order].nr_free
  PageBuddy,  \* the PG_buddy mark of every page
  private,    \* page_private, the order of a marked page
  pcp_list,   \* pcp->lists[0]
  pcp_count,  \* pcp->count
  held,       \* the blocks callers got and did not give back, <<page, order>>
  pc,         \* the loop the call in progress is in
  hand,       \* the block that loop works on
  low,        \* order wanted by the allocation in progress
  left,       \* pages the bulk loop in progress has still to move
  batch_head  \* `head', the local list of free_pcppages_bulk

zone  == <<free_list, nr_free, PageBuddy, private>>
pcp   == <<pcp_list, pcp_count>>
local == <<hand, low, left, batch_head>>
vars  == <<free_list, nr_free, PageBuddy, private, pcp_list, pcp_count, held,
           pc, hand, low, left, batch_head>>

\* pageset_init and pageset_update.
high  == HIGH_FACTOR * BATCH_SIZE
batch == IF BATCH_SIZE > 1 THEN BATCH_SIZE ELSE 1

Block == [pfn : Page, order : Orders]

\* `hand' outside the loops: the locals of a call are gone when it returns.
NoBlock == [pfn |-> 0, order |-> 0]

-----------------------------------------------------------------------------
(***************************************************************************)
(* Buddies.                                                                *)
(***************************************************************************)

\* page_pfn ^ (1 << order): flip the bit of that order.
find_buddy_pfn(pfn, order) ==
  IF (pfn \div Pow2[order]) % 2 = 0 THEN pfn + Pow2[order]
                                    ELSE pfn - Pow2[order]

\* Mutant: the merged block keeps the page it was reached from.
CombinedKeepsPfn(pfn, buddy) == pfn

\* buddy_pfn & pfn: the two differ in one bit only, so this clears it.
combined_pfn(pfn, buddy) == IF buddy < pfn THEN buddy ELSE pfn

\* Is the block of that order starting at buddy free?
page_is_buddy(buddy, order) ==
  /\ PageBuddy[buddy]
  /\ \/ private[buddy] = order
     \/ FellOff = "register" /\ private[buddy] # 0

-----------------------------------------------------------------------------
(***************************************************************************)
(* memory_init followed by pageset_init: the blocks of the largest order   *)
(* are freed one after the other, each to the front of its list.           *)
(***************************************************************************)
BlockHeads == {p \in Page : p % Pow2[MAX_ORDER - 1] = 0}

InitialList ==
  [i \in 1 .. NrPages \div Pow2[MAX_ORDER - 1] |->
     NrPages - i * Pow2[MAX_ORDER - 1]]

\* mem_map[] lies at the beginning of the memory it describes, and memory_init
\* frees that memory too: a caller that writes to one of the first pages overwrites
\* struct pages.  No caller here writes to its pages.
Init ==
  /\ free_list = [o \in Orders |-> IF o = MAX_ORDER - 1 THEN InitialList
                                                        ELSE <<>>]
  /\ nr_free = [o \in Orders |-> IF o = MAX_ORDER - 1 THEN Len(InitialList)
                                                      ELSE 0]
  /\ \E stale \in [Page -> StalePage] :
       /\ PageBuddy = [p \in Page |-> \/ p \in BlockHeads
                                      \/ stale[p].PageBuddy]
       /\ private = [p \in Page |-> IF p \in BlockHeads THEN MAX_ORDER - 1
                                                        ELSE stale[p].private]
  /\ pcp_list = <<>> /\ pcp_count = 0
  /\ held = {}
  /\ pc = "idle"
  /\ hand = NoBlock
  /\ low = 0 /\ left = 0
  /\ batch_head = <<>>

-----------------------------------------------------------------------------
(***************************************************************************)
(* __free_pages(page, order).                                              *)
(***************************************************************************)

\* free_the_page for order > 0: __free_pages_ok, __free_one_page.
FreePagesOk(p, o) ==
  /\ pc = "idle" /\ o > 0 /\ <<p, o>> \in held
  /\ held' = held \ {<<p, o>>}
  /\ hand' = [pfn |-> p, order |-> o]
  /\ pc' = "merge"
  /\ UNCHANGED <<zone, pcp, low, left, batch_head>>

\* Mutant: the high mark is tested with >.
FreeUnrefAbove(p) ==
  /\ pc = "idle" /\ <<p, 0>> \in held
  /\ held' = held \ {<<p, 0>>}
  /\ pcp_list' = list_add(p, pcp_list)
  /\ pcp_count' = pcp_count + 1
  /\ IF pcp_count + 1 > high THEN pc' = "bulk" /\ left' = batch
                             ELSE UNCHANGED <<pc, left>>
  /\ UNCHANGED <<zone, hand, low, batch_head>>

\* free_the_page for order 0: free_unref_page puts the page first on the PCP
\* list and drains a batch once the list has reached its high mark.
FreeUnrefPage(p) ==
  /\ pc = "idle" /\ <<p, 0>> \in held
  /\ held' = held \ {<<p, 0>>}
  /\ pcp_list' = list_add(p, pcp_list)
  /\ pcp_count' = pcp_count + 1
  /\ IF pcp_count + 1 >= high THEN pc' = "bulk" /\ left' = batch
                              ELSE UNCHANGED <<pc, left>>
  /\ UNCHANGED <<zone, hand, low, batch_head>>

\* free_pcppages_bulk, the do loop: the coldest page moves to `head'.
BulkTake ==
  /\ pc = "bulk"
  /\ LET page == list_last_entry(pcp_list)
         rest == list_del(page, pcp_list)
     IN  /\ pcp_list' = rest
         /\ batch_head' = list_add_tail(page, batch_head)
         /\ IF left - 1 # 0 /\ ~list_empty(rest)
              THEN left' = left - 1 /\ UNCHANGED pc
              ELSE left' = 0 /\ pc' = "drain"
  /\ pcp_count' = pcp_count - 1
  /\ UNCHANGED <<zone, held, hand, low>>

\* free_pcppages_bulk, the loop over `head': __free_one_page at order 0.
BulkFree ==
  /\ pc = "drain"
  /\ LET page == list_first_entry(batch_head)
     IN  /\ hand' = [pfn |-> page, order |-> 0]
         /\ batch_head' = list_del(page, batch_head)
  /\ pc' = "merge"
  /\ UNCHANGED <<zone, pcp, held, low, left>>

\* Mutant: merging stops one order too early.
CanMergeTooLow(b) ==
  /\ b.order < MAX_ORDER - 2
  /\ page_is_buddy(find_buddy_pfn(b.pfn, b.order), b.order)

\* The test of the merging loop: not yet the largest block and the buddy is free.
CanMerge(b) ==
  /\ b.order < MAX_ORDER - 1
  /\ page_is_buddy(find_buddy_pfn(b.pfn, b.order), b.order)

\* __free_one_page, one iteration: the buddy leaves its list and loses its mark.
Merge ==
  /\ pc = "merge" /\ CanMerge(hand)
  /\ LET buddy == find_buddy_pfn(hand.pfn, hand.order)
     IN  /\ free_list' = [o \in Orders |-> list_del(buddy, free_list[o])]
         /\ nr_free' = [nr_free EXCEPT ![hand.order] = @ - 1]
         /\ PageBuddy' = [PageBuddy EXCEPT ![buddy] = FALSE]
         /\ private' = [private EXCEPT ![buddy] = 0]
         /\ hand' = [pfn   |-> combined_pfn(hand.pfn, buddy),
                     order |-> hand.order + 1]
  /\ UNCHANGED <<pcp, held, pc, low, left, batch_head>>

\* Would the block merge again if its own buddy came back?  Then it is put last.
HigherBuddyFree(b) ==
  /\ b.order # 0 /\ b.order < MAX_ORDER - 2
  /\ LET parent == combined_pfn(b.pfn, find_buddy_pfn(b.pfn, b.order))
     IN  page_is_buddy(find_buddy_pfn(parent, b.order + 1), b.order + 1)

\* Mutant: the order of the block is not recorded.
MergeDoneNoOrder ==
  /\ pc = "merge" /\ ~CanMerge(hand)
  /\ PageBuddy' = [PageBuddy EXCEPT ![hand.pfn] = TRUE]
  /\ free_list' = [free_list EXCEPT ![hand.order] = list_add(hand.pfn, @)]
  /\ nr_free' = [nr_free EXCEPT ![hand.order] = @ + 1]
  /\ pc' = IF list_empty(batch_head) THEN "idle" ELSE "drain"
  /\ hand' = NoBlock
  /\ UNCHANGED <<private, pcp, held, low, left, batch_head>>

\* done_merging: mark the block and queue it, then go on with the batch if any.
MergeDone ==
  /\ pc = "merge" /\ ~CanMerge(hand)
  /\ PageBuddy' = [PageBuddy EXCEPT ![hand.pfn] = TRUE]
  /\ private' = [private EXCEPT ![hand.pfn] = hand.order]
  /\ free_list' = [free_list EXCEPT ![hand.order] =
                     IF HigherBuddyFree(hand) THEN list_add_tail(hand.pfn, @)
                                              ELSE list_add(hand.pfn, @)]
  /\ nr_free' = [nr_free EXCEPT ![hand.order] = @ + 1]
  /\ pc' = IF list_empty(batch_head) THEN "idle" ELSE "drain"
  /\ hand' = NoBlock
  /\ UNCHANGED <<pcp, held, low, left, batch_head>>

-----------------------------------------------------------------------------
(***************************************************************************)
(* __alloc_pages(gfp_mask, order).  A call that returns NULL changes       *)
(* nothing, except that it may have tried to refill the PCP list.          *)
(***************************************************************************)

\* The smallest order, at least o, whose free list is not empty.
SmallestFrom(o, c) ==
  /\ c >= o /\ ~list_empty(free_list[c])
  /\ \A d \in Orders : d >= o /\ d < c => list_empty(free_list[d])

\* Mutant: rmv_page_order is forgotten.
RmqueueKeepsMark(o, c) ==
  /\ SmallestFrom(o, c)
  /\ LET page == list_first_entry(free_list[c])
     IN  /\ free_list' = [free_list EXCEPT ![c] = list_del(page, @)]
         /\ nr_free' = [nr_free EXCEPT ![c] = @ - 1]
         /\ hand' = [pfn |-> page, order |-> c]
  /\ low' = o
  /\ pc' = "expand"
  /\ UNCHANGED <<PageBuddy, private>>

\* __rmqueue_smallest: the first block of the smallest sufficient order leaves
\* its list; expand then cuts it down to order o.
RmqueueSmallest(o, c) ==
  /\ SmallestFrom(o, c)
  /\ LET page == list_first_entry(free_list[c])
     IN  /\ free_list' = [free_list EXCEPT ![c] = list_del(page, @)]
         /\ nr_free' = [nr_free EXCEPT ![c] = @ - 1]
         /\ PageBuddy' = [PageBuddy EXCEPT ![page] = FALSE]
         /\ private' = [private EXCEPT ![page] = 0]
         /\ hand' = [pfn |-> page, order |-> c]
  /\ low' = o
  /\ pc' = "expand"

\* rmqueue for order > 0.
AllocPages(o) ==
  /\ pc = "idle" /\ o > 0
  /\ \E c \in Orders : RmqueueSmallest(o, c)
  /\ UNCHANGED <<pcp, held, left, batch_head>>

\* rmqueue_pcplist with a page on the PCP list: the hottest one.
AllocPcp ==
  /\ pc = "idle" /\ ~list_empty(pcp_list)
  /\ LET page == list_first_entry(pcp_list)
     IN  /\ pcp_list' = list_del(page, pcp_list)
         /\ held' = held \cup {<<page, 0>>}
  /\ pcp_count' = pcp_count - 1
  /\ UNCHANGED <<zone, pc, local>>

\* rmqueue_pcplist with an empty PCP list: rmqueue_bulk fetches a batch.
StartRefill ==
  /\ pc = "idle" /\ list_empty(pcp_list)
  /\ pc' = "refill"
  /\ left' = batch
  /\ UNCHANGED <<zone, pcp, held, hand, low, batch_head>>

\* rmqueue_bulk, one iteration: a page of order 0.
Refill ==
  /\ pc = "refill" /\ left > 0
  /\ \E c \in Orders : RmqueueSmallest(0, c)
  /\ UNCHANGED <<pcp, held, left, batch_head>>

\* Mutants of RefillDone: the pages fetched are not added to pcp->count; the
\* refill gives up when the list of order 0 is empty; it is tried again forever.
RefillUncounted ==
  /\ pc = "refill"
  /\ left = 0 \/ \A o \in Orders : list_empty(free_list[o])
  /\ pc' = "idle"
  /\ left' = 0
  /\ IF list_empty(pcp_list)
       THEN UNCHANGED <<pcp, held>>
       ELSE LET page == list_first_entry(pcp_list)
            IN  /\ pcp_list' = list_del(page, pcp_list)
                /\ pcp_count' = pcp_count - 1
                /\ held' = held \cup {<<page, 0>>}
  /\ UNCHANGED <<zone, hand, low, batch_head>>

RefillGivesUp ==
  /\ pc = "refill"
  /\ list_empty(free_list[0]) /\ list_empty(pcp_list)
  /\ pc' = "idle"
  /\ left' = 0
  /\ UNCHANGED <<zone, pcp, held, hand, low, batch_head>>

RefillRetries ==
  /\ pc = "refill"
  /\ left = 0 \/ \A o \in Orders : list_empty(free_list[o])
  /\ IF list_empty(pcp_list)
       THEN left' = batch /\ UNCHANGED <<pc, pcp, held>>
       ELSE LET page == list_first_entry(pcp_list)
            IN  /\ pcp_list' = list_del(page, pcp_list)
                /\ pcp_count' = pcp_count + (batch - left) - 1
                /\ held' = held \cup {<<page, 0>>}
                /\ pc' = "idle"
                /\ left' = 0
  /\ UNCHANGED <<zone, hand, low, batch_head>>

\* rmqueue_bulk is done or found no page: pcp->count grows by what was fetched
\* and the first page goes to the caller, who gets NULL if there is none.
RefillDone ==
  /\ pc = "refill"
  /\ left = 0 \/ \A o \in Orders : list_empty(free_list[o])
  /\ pc' = "idle"
  /\ left' = 0
  /\ IF list_empty(pcp_list)
       THEN UNCHANGED <<pcp, held>>
       ELSE LET page == list_first_entry(pcp_list)
            IN  /\ pcp_list' = list_del(page, pcp_list)
                /\ pcp_count' = pcp_count + (batch - left) - 1
                /\ held' = held \cup {<<page, 0>>}
  /\ UNCHANGED <<zone, hand, low, batch_head>>

\* Mutant: the lower half is put on the free list and used as well.
ExpandLowerHalf ==
  /\ pc = "expand" /\ hand.order > low
  /\ LET h == hand.order - 1
     IN  /\ free_list' = [free_list EXCEPT ![h] = list_add(hand.pfn, @)]
         /\ nr_free' = [nr_free EXCEPT ![h] = @ + 1]
         /\ PageBuddy' = [PageBuddy EXCEPT ![hand.pfn] = TRUE]
         /\ private' = [private EXCEPT ![hand.pfn] = h]
         /\ hand' = [hand EXCEPT !.order = h]
  /\ UNCHANGED <<pcp, held, pc, low, left, batch_head>>

\* expand, one iteration: the upper half of the block becomes a free block.
Expand ==
  /\ pc = "expand" /\ hand.order > low
  /\ LET h    == hand.order - 1
         half == hand.pfn + Pow2[h]
     IN  /\ free_list' = [free_list EXCEPT ![h] = list_add(half, @)]
         /\ nr_free' = [nr_free EXCEPT ![h] = @ + 1]
         /\ PageBuddy' = [PageBuddy EXCEPT ![half] = TRUE]
         /\ private' = [private EXCEPT ![half] = h]
         /\ hand' = [hand EXCEPT !.order = h]
  /\ UNCHANGED <<pcp, held, pc, low, left, batch_head>>

\* expand is done: the block goes to the caller, or, in a refill (the only
\* allocation of order 0), last on the PCP list.
ExpandDone ==
  /\ pc = "expand" /\ hand.order = low
  /\ IF low = 0
       THEN /\ pcp_list' = list_add_tail(hand.pfn, pcp_list)
            /\ left' = left - 1
            /\ pc' = "refill"
            /\ UNCHANGED held
       ELSE /\ held' = held \cup {<<hand.pfn, hand.order>>}
            /\ pc' = "idle"
            /\ UNCHANGED <<pcp_list, left>>
  /\ hand' = NoBlock
  /\ low' = 0
  /\ UNCHANGED <<zone, pcp_count, batch_head>>

-----------------------------------------------------------------------------
\* The steps of a call in progress.
Step == \/ BulkTake \/ BulkFree \/ Merge \/ MergeDone
        \/ Refill \/ RefillDone \/ Expand \/ ExpandDone

\* A caller calls.
Call == \/ \E p \in Page, o \in Orders : FreePagesOk(p, o)
        \/ \E p \in Page : FreeUnrefPage(p)
        \/ \E o \in Orders : AllocPages(o)
        \/ AllocPcp
        \/ StartRefill

Next == Step \/ Call

Spec == Init /\ [][Next]_vars

\* The program runs: a call in progress goes on.
FairSpec == Spec /\ WF_vars(Step)

-----------------------------------------------------------------------------
(***************************************************************************)
(* Who owns which block.  A block is <<owner, first page, order>>.         *)
(***************************************************************************)
FreeBlocks == UNION {{<<"free", p, o>> : p \in Nodes(free_list[o])} :
                       o \in Orders}
PcpBlocks  == {<<"pcp", p, 0>> : p \in Nodes(pcp_list)}
BulkBlocks == {<<"bulk", p, 0>> : p \in Nodes(batch_head)}
HeldBlocks == {<<"held", b[1], b[2]>> : b \in held}
HandBlocks == IF pc \in {"merge", "expand"}
                THEN {<<"hand", hand.pfn, hand.order>>} ELSE {}

Blocks == FreeBlocks \cup PcpBlocks \cup BulkBlocks \cup HeldBlocks
          \cup HandBlocks

\* The block of order o at p ends before the one of order r at q starts, or
\* the other way round.
Apart(p, o, q, r) == p + Pow2[o] <= q \/ q + Pow2[r] <= p

Within(x, p, o) == p <= x /\ x < p + Pow2[o]

Aligned(B) == \A b \in B : b[2] % Pow2[b[3]] = 0

Disjoint(B) == \A b, c \in B : b # c => Apart(b[2], b[3], c[2], c[3])

Covers(B) == \A x \in Page : \E b \in B : Within(x, b[2], b[3])

-----------------------------------------------------------------------------
(***************************************************************************)
(* Properties.                                                             *)
(***************************************************************************)

\* The variables have the types their C declarations give them: no counter
\* underflows, lists link pages, and orders are in range.
TypeOK ==
  /\ free_list \in [Orders -> Seq(Page)]
  /\ nr_free \in [Orders -> Nat]
  /\ PageBuddy \in [Page -> BOOLEAN]
  /\ private \in [Page -> Nat]
  /\ pcp_list \in Seq(Page) /\ pcp_count \in Nat
  /\ held \subseteq Page \X Orders
  /\ pc \in {"idle", "merge", "bulk", "drain", "expand", "refill"}
  /\ hand \in Block
  /\ low \in Orders /\ left \in Nat
  /\ batch_head \in Seq(Page)

\* No two owners share a page: whatever order callers allocate and free in, and
\* at every step of the merging, expanding, refilling and draining loops, a page
\* is in one block only, so nobody is given memory somebody else holds.
NoOverlap == Disjoint(Blocks)

\* No page is ever lost either, and every block is aligned to its size: the
\* blocks tile the memory at every step of every loop of __free_one_page,
\* expand, rmqueue_bulk and free_pcppages_bulk.
Partition == Aligned(Blocks) /\ Disjoint(Blocks) /\ Covers(Blocks)

\* The PG_buddy mark and the private field agree with the free lists on the
\* first page of every block, whoever owns it (the marks of other pages are
\* whatever they were): page_is_buddy reads nothing else to decide on a merge.
Marks ==
  \A b \in Blocks : /\ PageBuddy[b[2]] <=> b[1] = "free"
                    /\ b[1] = "free" => private[b[2]] = b[3]

\* Freeing coalesces: at no time are a block and its buddy both on the free
\* list of their order, not even when pages come back in batches from the PCP.
Coalesced ==
  \A o \in Orders : o < MAX_ORDER - 1 =>
    \A p \in Nodes(free_list[o]) :
      find_buddy_pfn(p, o) \notin Nodes(free_list[o])

\* The pages rmqueue_bulk has fetched and pcp->count does not count yet.
Fetched ==
  IF pc = "refill" \/ (pc = "expand" /\ low = 0) THEN batch - left ELSE 0

\* nr_free and pcp->count are the lengths of the lists they count; while
\* rmqueue_bulk runs, pcp->count lags behind by the pages it has fetched.
CountsAgree ==
  /\ \A o \in Orders : nr_free[o] = Len(free_list[o])
  /\ Len(pcp_list) = pcp_count + Fetched

\* Between calls the PCP list stays below its high mark, whatever mix of
\* frees, refills and partial refills led there; with a batch size of zero it
\* holds nothing at all.
PcpBelowHigh == pc = "idle" => pcp_count < high \/ pcp_count = 0

\* Once callers have given everything back and the PCP list is empty, the
\* memory is again in blocks of the largest order: nothing stays fragmented.
Restored ==
  pc = "idle" /\ held = {} /\ list_empty(pcp_list) =>
    Nodes(free_list[MAX_ORDER - 1]) = BlockHeads

\* __alloc_pages of one page returns NULL (a refill ends and nobody got
\* anything) only if callers hold every single page.
NullMeansFull ==
  [][pc = "refill" /\ pc' = "idle" /\ held' = held =>
       \A x \in Page : \E b \in held : Within(x, b[1], b[2])]_vars

\* Every call returns: none of the loops runs forever.
CallReturns == pc # "idle" ~> pc = "idle"

\* What callers see of the allocator is what PageAllocator promises.
Abs == INSTANCE PageAllocator
ImplementsPageAllocator == Abs!Spec
==============================================================================
