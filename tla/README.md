# HardStack: TLA+ models, model checking and proofs

HardStack (BiscuitOS) is a large collection of re-implementations and samples of
Linux subsystems: memory allocators rebuilt as user-space programs, drivers
together with the emulated devices they drive, a small kernfs, copies of the
kernel's data structures, and thousands of one-function demonstrations. This
project models the parts that carry logic of their own, checks them with TLC on
small instances, and proves the main results with TLAPS for every size.

Modelled: five allocators that run as user-space programs (the **buddy page
allocator with its PCP list**, **vmalloc**, **kmap** with the fixmap,
**memblock**, the **per-CPU allocator**) and the **DMA stack** (QEMU device,
Linux driver, user program, loading and unloading).
Sections 1 and 2 are the inventory and the plan, 3 to 6 what has been done.

## 1. Inventory

### Modelled

**Buddy page allocator** (`Memory-Allocator/Buddy/PCP_userspace`).
*State*: `free_area[order]` (a list and `nr_free`) per order, the `PG_buddy` mark
and `private` of every `struct page`, the PCP list and its count. *Operations*:
`memory_init`, `pageset_init`, `__alloc_pages`, `__free_pages`. It is sequential;
what is hard is the sequence of legal calls: merging and splitting decide from
marks left by earlier calls in memory that was never cleared, the PCP list keeps
single pages away from merging and gives them back in batches, and a counter is
updated after the list it counts. *Correct* when the blocks of all owners tile
the memory at every step, buddies merge, counters agree, a page is refused only
when there is none, and every call returns.

**DMA device** (`Device-Driver/DMA/BiscuitOS-dma-device-QEMU-emulate`).
*State*: registers SRC, DST, CNT, RUN, the timer, interrupt status and line, the
device's memory, a thread with its mutex and condition variable. *Operations*:
register writes, timer expiry, interrupt raise and lower, thread, `uninit`.
*Correct* when a running transfer keeps its descriptor and ends, the line follows
the status, and unplugging always joins the thread.

**DMA driver** (`Device-Driver/DMA/BiscuitOS-dma-device-driver`).
*State*: `bds` with the coherent buffer and `dma_finish`; what probe has
acquired. *Operations*: the three ioctls (`transmit` in two directions, `dump`),
the interrupt handler, probe and remove. There is no lock: the device's timer,
the interrupt and other callers come between any two register accesses. *Correct*
when an accepted request is carried out as asked, nothing but the buffer is
written, and loading and unloading leak nothing. Unloading waits for open files;
unbinding the driver by sysfs and unplugging the device do not.

**DMA user program** (`Device-Driver/DMA/BiscuitOS-dma-userland`). Sends a string,
sleeps, asks for the firmware string and polls `dma_finish`. *Correct* when the
string arrives, it prints the firmware, and it ends.

The user program calls the driver by ioctl; the driver writes the device's
registers over MMIO; the device moves memory when its timer expires and answers
with a message signalled interrupt, whose handler sets the flag that `dump` reads.

**vmalloc** (`Memory-Allocator/vmalloc/vmalloc_userspace/mm/vmalloc.c`).
*State*: vmap areas in the order of their addresses, `free_vmap_cache`,
`cached_hole_size`, page tables, the pages of each area. *Operations*: `vmalloc`,
`vfree`. The search starts at a cached area and skips what lies below it; the
cache moves with every free while the hole size does not; a page, a page table
or the page array may be refused in the middle of a call; `purged` is never set,
so a search without result starts over. *Correct* when areas with their guard
pages are apart, the search misses no room, a failed call leaves nothing behind,
and a call returns if there is room.

**Kmap** (`Memory-Allocator/KMAP-MEMAT/kmap_userspace/mm/highmem.c`). *State*:
`pkmap_count`, the page table, the hash table of page addresses,
`last_pkmap_nr`, the stack of fixmap slots. *Operations*: `kmap`, `kunmap`,
`kmap_atomic`, `kunmap_atomic`. An unmapped page stays in the table until a flush
that happens only when the search index wraps. *Correct* when an address leads to
the page it was given out for, and a search ends if an entry is unused.

**Memblock** (`Memory-Allocator/Memblock-allocator`). *State*: the array of
reserved regions, sorted and merged, and the direction of the search.
*Operations*: `memblock_reserve`, `memblock_free`, the allocation functions,
`memblock_set_bottom_up`. The array lies in the memory it describes, and doubling
it reserves and frees memory through the same array in the middle of a call.
*Correct* when what is reserved is what callers own plus the array.

**Per-CPU allocator** (`Memory-Allocator/PERCPU-MEMAT`). *State*: a bitmap,
boundaries of areas, metadata per block of bits, a hint for the whole chunk.
*Operations*: the first chunk, `alloc_percpu`, `free_percpu`. The metadata is
updated from itself, without a look at the bitmap where that can be avoided, and
a search trusts it. *Correct* when it agrees with the bitmap, and an allocation
is refused only when there is hardly room.

The allocators are separate programs: each brings its own copies of what it is
built on. vmalloc and kmap take pages from a buddy allocator without PCP list and
objects from SLUB; in the models these are a set of free pages and a count of
objects that may be refused at any time.

### Not modelled

* *bsfs* (`fs/kernfs/module/bsfs`). What would be hard is draining a node while
  others hold references. The module never creates a node below its root, and
  the root is not removed: no sequence of calls reaches `bsfs_drain` with a
  reference that somebody holds, so a model would have to invent the callers.
* *Shared FIFO* (`bus/fifo/share_fifo/fifo.c`). Despite its name one thread and
  `malloc`ed memory: `main` pushes 20 elements and pops 20. `GetHeadElement`,
  whose comment says head, reads the rear.
* *SLUB*. A copy of the kernel allocator made single-threaded and cut down: the
  paths where it is hard (flush, deactivation, partial lists) are not reached,
  and what remains is a free list per slab.
* The first stages of the buddy allocator (same algorithm without PCP list; with
  two zones).
* rb-tree, radix tree, xarray, IDR, bitmap and list: sequential copies of Linux
  code.
* API demonstrations, system call and I/O samples (one call each, no state); the
  other driver samples (registration through kernel interfaces, device not in
  the repository); minix and ramfs (copied); KVM samples (their behaviour is the
  processor's); games, boards, drawings and scripts.

These make up nearly all of the 6500 files of the repository, most of them the
same kernel headers and sources copied once per sample, which is why the mapped
share of its lines is small. Each part is listed in `PROJECT.json` with its
reason; hazards are listed there at the line where they bite.

## 2. Plan

1. *Done.* `KList`, `Buddy`, `PageAllocator`; proof of the inductive invariant
   and of refinement.
2. *Done.* `DmaDevice`, `DmaMachine`, `DmaDriver`, `DmaTransfer`, `DmaUserland`,
   `DmaProbe`; proofs that driver and device implement `DmaTransfer`, and of all
   safety invariants of the user program, of probe and of remove.
3. *Done.* `Vmap`, with proofs of all its safety invariants.
4. *Done.* `Kmap`, with proofs of both of its safety invariants.
5. *Done.* `Percpu`, with proofs of all its invariants.
6. *Done.* `Memblock`, with proofs of all its invariants.
7. Left: nothing of the safety properties; liveness stays with TLC (section 6).

Modules that are proved about declare their parameters as constants with named
assumptions and use no RECURSIVE operator; proofs are in modules of their own.

## 3. Modules and the code

| module | code | what it holds |
|---|---|---|
| `KList` | `include/linux/list.h` | lists as sequences: `list_add`, `list_add_tail`, `list_del`, first and last entry |
| `Buddy` | `mm/buddy.c`, `buddy.h` | the allocator |
| `PageAllocator` | | what callers of `Buddy` are promised |
| `MCBuddy` | | constants of the runs |
| `DmaDevice` | `BiscuitOS-DMA.c` | effect of a register write, of the interrupt functions and of a timer expiry |
| `DmaMachine` | `BiscuitOS-DMA.c` | `DmaDevice` under any guest, with the thread and `uninit` |
| `DmaDriver` | driver `main.c` 71-219 | the ioctls and the interrupt handler over `DmaDevice` |
| `DmaTransfer` | | what callers of `DmaDriver` are promised |
| `DmaUserland` | userland `main.c` | `main()` over `DmaDriver` |
| `DmaProbe` | driver `main.c` 221-327 | probe, its error labels, remove, open files, a transfer in flight |
| `MCDmaDriver` | | constants of the runs |
| `Vmap` | `vmalloc_userspace/mm/vmalloc.c`, `vmalloc.h` | `vmalloc` and `vfree`, loop by loop |
| `Kmap` | `kmap_userspace/mm/highmem.c`, `highmem.h` | the KMAP table and the fixmap slots |
| `Memblock` | `memblock_userspace/mm/memblock.c`, `biscuitos.h` | the array of reserved regions and the searches |
| `Percpu` | `SMP_PERCPU_userspace/mm/percpu.c` | the first chunk, its bitmap and metadata |
| `BuddyProofs`, `DmaProofs` (`DmaDriver` and `DmaUserland`), `DmaMachineProofs`, `DmaProbeProofs`, `VmapProofs`, `KmapProofs`, `PercpuProofs`, `MemblockProofs` | | proofs |

`PROJECT.json` maps each definition to its lines.

**Buddy.** A page is its index in `mem_map`, a block a first page and an order. A
call is not one step: `pc` says in which loop it is (`merge`, `bulk`, `drain`,
`expand`, `refill`), and each iteration of a loop is an action, so invariants
hold in the middle of loops too. `FreePagesOk` and `FreeUnrefPage` are the two
branches of `__free_pages`; `Merge` and `MergeDone` are `__free_one_page`;
`BulkTake` and `BulkFree` are `free_pcppages_bulk`; `AllocPages`, `AllocPcp`,
`StartRefill`, `Refill` and `RefillDone` are `rmqueue`, `rmqueue_pcplist` and
`rmqueue_bulk`; `Expand` and `ExpandDone` are `expand`. Two things the C text
leaves open are constants. `StalePage` is what memory nobody wrote may hold
(`memory_init` only ORs a bit pattern into it; zeroed memory reads as a free
block of order 0). `FellOff` is what `page_is_buddy` yields when it reaches its
closing brace without a return: `"zero"`, or `"register"`, the value of the last
call, which is what an unoptimised build gives. The allocator's own Makefile gives
no `-O`, so the program as it is built here is the `"register"` one: the run
`buddy_fell_off` is about it, while the run `buddy` and all of `BuddyProofs` are
about the `"zero"` build, that is, about the function its comment describes.
`mem_map` is placed at the beginning of the memory it describes (buddy.c:514), and
that memory is freed to the allocator with the rest: a caller that writes to one of
the first pages overwrites the marks and the lists. Callers of the model do not
write to their pages.

**DMA.** A memory cell is a page and its value the string that starts there.
Registers and address arithmetic are modulo `M`, so requests that wrap are
included. The register write, the timer and the interrupt are atomic (QEMU's
global lock); the driver's accesses are one action each. `hw_error` ends QEMU:
`aborted` stops everything. Constants for what the code leaves open: `Waits` (do
callers wait for one transfer before asking for the next, as the user program
does with `sleep(1)` against 100 ms; the driver does not enforce it). `dump` names
`bds->dma_finish`, a plain int the handler writes, on two lines: a build may load it
twice, or once and use that value on both, so `TestFinish` takes either value.
`DmaTransfer` asks that an accepted request is started with the addresses and the
size the caller gave, with one exception: `transmit` ignores the `pci_base` of a
request to the device (main.c:112), so where such a request goes is promised only if
it asks for the base of the device's memory (`Places`), and otherwise only that it
stays inside. In `DmaMachine` the computing
branch of the thread does not appear because nothing sets its bit.
In `DmaProbe` each acquisition of probe is one step that may fail; `Steps` and
`RemoveOrder` are the orders in the source. `Unload` waits for an open file, which
holds a reference to the module; `Unbind` does not, and an ioctl through a file that
is still open then uses what is gone (`oops`).

**Vmap.** Addresses are pages from `VMALLOC_START`. `pc` is the loop of the call
in progress: `Retry`, `Walk`, `WalkEnds`, `Overflow` and `Found` are
`alloc_vmap_area`; `AllocArray`, `AllocPage`, `MapPage` are
`__vmalloc_area_node` and `map_vm_area`, page by page; `ArrayFails` and `Fail`
are the ways back. The tree and the list of areas are one set: `rb_prev` and the
next entry are found by address, which is what `Disjoint` justifies. `objects`
counts what `kmalloc` gave out.

**Kmap.** An address is the number of its entry. `KmapNew`, `TakeEntry` and
`SkipEntry` are `map_new_virtual`, one round of its loop per step, with the flush
in the round in which the index wraps. `users` are the callers that hold an
address: what the counts are checked against. `kunmap_atomic` pops the top slot
whichever address it is given, and pushing checks no limit; `Nested` and
`atomic_idx < KM_TYPE_NR` are assumptions on callers that the code does not enforce.

**Memblock.** A loop over the array is a recursive function from the number of
regions it has passed to what it has built by then, with its body in an operator of
its own: `MergeWalk` and `MergeStep` (`memblock_merge_regions`), `AddWalk` and
`AddStep` (`memblock_add_range`), `CutWalk` and `Outside`
(`memblock_isolate_range`). The free ranges that `__next_mem_range` and its reverse
yield are the gaps between regions, by their number (`Gap`, `FreeRanges`), so that
the searches are a least and a greatest number. A call is one step: nothing can come
between, and the doublings in the middle of it are in `MakeRoom`, whose `RoomWalk`
has as many rounds as regions are asked for and one more, which is enough
(`MakeRoomIs`). `ALIGN` is modelled as it is written: its mask is not inverted,
so it yields a remainder. `PumpUp` is the replacement of an end of 0 or 1 by the
limit of the memory; `LowAssumption` keeps callers from the ranges for which that
goes wrong (section 4). The inline `memblock_alloc` (memblock.h:157) has no return
statement, so what its caller gets depends on the build; the model records the range
that is reserved for the caller, and nothing else depends on it.

**Percpu.** Offsets and sizes are bits of the map; a bitmap is the set of its set
bits. Each call is one step. A loop over the bits or the blocks is a recursive
function from the number of the iteration to what the loop knows by then:
`RefreshScan` (`pcpu_block_refresh_hint`), `FreeRegionWalk`
(`pcpu_next_md_free_region`), `BestRegionWalk` (`pcpu_chunk_refresh_hint`) and
`FitRegionWalk` (`pcpu_next_fit_region`); each has its body in an operator of its
own (`FreeRegionStep` and so on). `BlocksAfterAlloc` and `BlocksAfterFree` follow
the cases of `pcpu_block_update_hint_alloc` and `pcpu_block_update_hint_free`. `want` is a
request for which `pcpu_alloc` starts over for ever.

## 4. Runs

| run | what it checks and shows |
|---|---|
| `buddy` | Every sequence of calls on 8 pages, orders 0 to 3, batch 2, high 4: `Partition`, `Marks`, `Coalesced`, `CountsAgree`, `PcpBelowHigh`, `Restored`, `NullMeansFull`, refinement of `PageAllocator`, and every call returns (`CallReturns`). 347 749 states. |
| `buddy_fell_off` | Violation: with `FellOff = "register"` blocks of different orders merge and `NoOverlap` fails. |
| `dma_machine` | Any guest at any time: `LineFollowsStatus`, `DescriptorFrozen`, `TransferEnds`, and `UninitReturns` (the signal after the mutex is released is never missed). 142 080 states. |
| `dma_driver` | Every request that 32-bit fields can express, from a caller that waits: `RestUntouched`, `AbortsOnlyAtEdge` (QEMU ends only for a request that ends with the device memory) and refinement of `DmaTransfer`. 30 187 states. |
| `dma_userland` | The user program run again and again, whichever value the second read of `dma_finish` yields: `StringArrives`, `FinishMeansOver`, `PrintsFirmware`. 263 states. |
| `dma_lost_finish` | Violation: the program does not end (`MainEnds`) when the interrupt comes between the two reads of `dma_finish`. |
| `dma_probe` | A failure at every step of probe, unloading with a transfer in flight, unbinding with the file open: `UsersFindAll` (no file is opened on a driver half set up or half torn down, and the handler has its `bds`) and `NothingLeaks`. 696 states. |
| `dma_overtaken` | Violation of `RestUntouched` when a caller does not wait. |
| `vmap` | Every order of `vmalloc` and `vfree` with a refusal at every point: `Disjoint`, `CacheSound`, `NoSpaceMissed`, `Owned`, `Settled`, and `CallReturns` for a call for which there is more than enough room. 103 039 states. |
| `kmap` | More pages than entries, several users, flushes at every point: `KeepsItsPage`, `AtomicKeepsPage`, `SearchEnds`. 79 205 states. |
| `memblock` | Overlapping reservations, partial frees, allocations in both directions, odd sizes, a range at 0, the array moving and growing beyond a page: `Minimal`, `ReservedExact`, `CountsFit`, `FindsRoom`. 20 968 states. |
| `percpu` | Every order of allocations and frees on a chunk with hidden ends: `AreasExact`, `BlocksExact`, `FitMeansArea`, `HintCoversBlocks`, `SpinsWithoutRoom`. 135 458 states. |

**Bounds.** Eight pages with orders 0 to 3 is one largest block that can be split
and merged through every order, with both positions of the test for a higher
buddy; a batch of 2 with a high mark of 4 lets partial refills, partial drains
and a full list occur, so that the merge and expand loops run up to three rounds and
the refill, bulk and drain loops two. Fresh memory is zero in the run (it reads as
marked with order 0); other stale content, several largest blocks and other batches,
0 among them, are left to the proofs, which remove these bounds. For the DMA stack, `M` is
just large enough for a device memory of 3 cells, a buffer of 2 and ranges that
wrap or lie outside; `dma_machine` needs no buffer, and one string because its
properties do not look at data. One caller is enough in `dma_driver` because
`Waits` lets one caller in at a time; the proof is for any set of callers. The
small state counts of `dma_userland` and `dma_probe` are complete: these programs
have few choices. `vmap` has 9 pages of address space, requests of 1 to 3 pages
and 4 frames: several areas with holes of different sizes below the cached one,
three page tables, and requests the frames do not suffice for. `kmap` has 2 entries
and 4 pages, so that every flush has something to remove, 2 users of an address
and 2 slots. `memblock` starts with an array of 2 regions in a memory of 24
cells and pages of 8, and a region takes 2: it moves to an array of a page, of which
a caller is given the last cell, and to one of two pages, of which callers are given
more; calls are made while there are at most 5 regions.
`percpu` has 3 blocks of 4 bits of which the first begins and the last ends
inside, and requests of 1 to 6 bits, so that areas cross one block and two, and one
of the size of a unit, which has a slot of its own. The proofs remove these bounds.

**Fairness.** `Buddy`: weak fairness of the steps of a call, as a sequential
program goes on; callers need not call. `DmaMachine`: the clock runs, so an armed
timer expires, and the host schedules the thread and an `uninit` that has begun;
neither guest writes nor spurious wake-ups are fair. `DmaUserland`: the process
is scheduled, the clock runs, and messages arrive; nobody has to start it again
(the violation of `MainEnds` is one under this fairness).
`Vmap` and `Kmap`: weak fairness of the steps of a call (`Step`, `Search`), again
because the program is sequential; a call that starts over takes such steps too,
so fairness alone does not make it return.
Deadlock is not checked where the system may stop: after `hw_error` or unplugging
(`dma_machine`, `dma_driver`), and once `pcpu_alloc` spins (`percpu`).

**What the violations show.**

* `page_is_buddy` (buddy.c:112) has no final return. In a build that yields the
  register, pages a caller holds become part of a free block (`buddy_fell_off`).
* `transmit` does not look whether a transfer runs, and the device silently drops
  register writes while one does. A timer that fires between two writes leaves a
  descriptor with the old count and the new addresses, which writes behind the
  buffer (`dma_overtaken`).
* `dump` (driver main.c:157-161) reads `dma_finish` to report it and again to
  clear it. A completion in between is cleared without being reported, no other
  comes, and the program polls for ever (`dma_lost_finish`). A build that loads the
  flag once would not show it; nothing in the source asks for one.

**Other deviations met on the way**, which the passing runs state their properties
around:

* `check_range` of the device asks that one past the last cell be below the end,
  so a request that ends with the memory, which the driver accepts, aborts QEMU;
  `AbortsOnlyAtEdge` says that no other does.
* When `dma_alloc_coherent` fails, probe unwinds and returns 0; remove later uses
  a NULL `bds` (`DmaProbe` follows this, and stops there).
* vmalloc.c:127 compares `size < cached_hole_size`, so a hole of exactly the size
  asked for does not make the search start below the cached area: such a call
  starts over for ever. `NoSpaceMissed` and `CallReturns` are therefore about
  larger holes.
* Unbinding the driver runs remove under an open file; an ioctl through it then uses
  `bds`, the registers and the buffer when they are gone. `UsersFindAll` says what is
  left in that case.
* `ALIGN` in memblock's `biscuitos.h:39` does not invert its mask. For an array of
  regions of at most a page one byte too few is reserved, and a caller may be given
  that byte; for a larger one less than a page is reserved, and callers may be given
  the rest. Both happen in the run `memblock`, and `ReservedExact` allows exactly
  that. What the caller and the array then write over each other is not modelled.
* `memblock_double_array` searches below the range that is being reserved when there
  is no room above. If the range begins at 0 or 1, the end of that search is a value
  that `memblock_find_in_range_node` takes for "all the memory" (memblock.c:433-436),
  and the new array may be put into the range itself; the caller then owns the array,
  and the second pass of `memblock_add_range` may insert a region more than the first
  has counted. `LowAssumption` excludes ranges that reach from 0 or 1 into the
  memory; the run has a range at 0 that ends where the memory begins.
* The comment on `contig_bits` of the per-CPU chunk (percpu.c:1474) says that it
  "may be off by up to a page, but it will never be more than the available
  space". Neither holds. An allocation that starts before the hint and reaches
  into it leaves it larger than any free area; and it can be short of the largest
  one by more than a page (3 blocks of 4 bits, no hidden ends, requests of 1, 2, 3
  and 5 bits aligned to 1, 2 and 4). What does hold is that it is never below what
  a single block has (`HintCoversBlocks`); `FitMeansArea` and `SpinsWithoutRoom`
  say what it can lead to.

Two more are recorded as hazards. A transfer to the device ignores `pci_base`
and puts the string at the start of the buffer whatever `dma_base` is:
`StringArrives` holds for the requests of the user program only, and `DmaTransfer`
promises the place only for the base. And `dma_finish`
belongs to no transfer in particular: `FinishMeansOver` holds for a caller that
polls until the completion is reported, not for one that starts the next
transfer without having fetched the flag.

## 5. Proofs

**Buddy** (`BuddyProofs`; it begins with lemmas on lists and on aligned blocks).
For every `MAX_ORDER`, memory of whole largest
blocks, batch size, high factor and stale content, with `FellOff = "zero"`:
`TypeOK`, `Partition`, `Marks`, `Coalesced`, `CountsAgree`, `Restored`,
`NullMeansFull`, `PcpBelowHigh`, and the refinement of `PageAllocator`.

The inductive invariant is

    IInv == TypeOK /\ Lists /\ Control /\ Tiling(Blocks) /\ Marks
            /\ CountsAgree /\ Coalesced

None of the parts is inductive alone. A merge is safe for the tiling only because
the mark it reads belongs to a free block of that order (`Marks`), and a mark can
be trusted only on the first page of a block, hence only because an aligned buddy
is either such a first page or inside a larger block or in front of a smaller one
(`Tiling`). `Lists` (no page twice on a list) makes `list_del` remove exactly one
block and keeps `CountsAgree`; `Control` says what each loop may rely on (the
locals that are set, `left` against the batch, an empty local list). `Coalesced`
needs `Marks` at the end of merging and, in `expand`, that the other half is in
hand. Refinement follows because an allocated block lies in the tiling, so apart
from every held one; `Restored` because a tiling with coalesced blocks and
nothing held has only largest blocks.

Assumptions: `SizeAssumption` (powers of two, memory of whole largest blocks, as
in the Makefile), `PcpAssumption`, `StaleAssumption`, `FellOffAssumption`; the
theorems add `FellOff = "zero"`, without which `Partition` is false
(`buddy_fell_off`).

**DMA** (`DmaProofs`). For every word size, layout of device memory and buffer,
set of requests and of callers that wait: `RestIsUntouched` and `Refinement` (driver
and device implement `DmaTransfer`, with the request as the caller made it), and
`OnlyAtEdge` (an accepted request ends QEMU only if it ends with the device
memory). For callers of any kind: `TypeCorrect` and
`Frozen` (a running transfer keeps its descriptor).

    IInv == TypeOK /\ RunHasTimer /\ Alone /\ Asking /\ Written /\ Running
            /\ RestUntouched

`Alone`: at most one caller is in the driver. `Asking`: while one is in transmit
no transfer runs, and its request lies in the buffer and in the device's memory.
`Written`: the registers it has written so far hold its own values, which is what
fails without `Waits`. `Running`: the descriptor of a running transfer lies there
as well. The arithmetic lemmas `WithinIsSound`, `CheckIsSound` and
`ClampIsIdentity` show that the modular comparisons of driver and device reject
every range that wraps. Assumptions: `DeviceAssumption`, `DriverAssumption`
(memory and buffer do not wrap themselves).

The last part of the module is about the user program over that driver, for every
size of the device's memory and of the buffer, every message, whichever value the
second read of `dma_finish` yields, and under `Waits`: `PrintsTheFirmware`
(`PrintsFirmware`), `TheStringArrives` (`StringArrives`) and `FinishIsOver`
(`FinishMeansOver`). `IInv` says that transfers are legal; `MainInv` says which
one is under way:

    MainInv == Place /\ Match /\ Sent /\ Fetched /\ InFetch /\ Dumped
               /\ PrintsFirmware

`Place`: where `main` is, and which of its transfers may then still run or have an
interrupt or a flag outstanding; after the string has been sent none has, which is
what makes the flag that ends the polling the one of the fetch. `Match`: outside of
`transmit` the registers hold the last accepted request, and only a fetch asks for
an interrupt. `Sent` and `Fetched` follow the string and the firmware; `InFetch`
says that an accepted fetch has its place in the buffer; `Dumped` says what `dump`
has read so far and that it is still true. `OthersIdle` says that no other process
has come into the driver, so that what holds of `Main` holds of all.

`DmaProbeProofs`: `NobodyFindsAHalf` (`UsersFindAll`) and `EverythingIsGivenBack`
(`NothingLeaks`), for unloading and for unbinding under an open file. The
invariant (`HeldFits`) says what is held at each step of probe, at each error
label and at each step of remove; it takes the step lists from the source, so it
speaks of this driver and has no parameters.

`DmaMachineProofs` is about the device under any guest: `LineIsRight`
(`LineFollowsStatus`), `Frozen`, and `SignalIsMet`, the safety half of
`UninitReturns`: `stopping` is set under the mutex, so it finds no thread between
its test and its wait, and once uninit has signalled no thread waits. The mutex
(`Held`) is what makes it inductive.

**vmalloc** (`VmapProofs`). For every address space, set of requests and of
frames: `AreasApart` (`Disjoint`), `CacheIsSound`, `NothingMissed`
(`NoSpaceMissed`), `PagesAreOwned` (`Owned`) and `NothingKept` (`Settled`).

    IInv == Types /\ Disjoint /\ CacheSound /\ Searching /\ Building /\ Owned

`Searching` says what the search knows at each step. `Reached`: it is at the
beginning of the space or at the end of an area, so no hole straddles the point
it has reached, every hole below is bounded by `cached_hole_size`, and that is
not larger than the request. `AtNext`: no area lies between that point and
`first`. When the search starts at the cached area, `Reached` is what `CacheSound`
promises; when it ends, it is what makes the new area a sound cache. The part that
is easy to get wrong is `RemoveStep`: freeing an area makes a new hole, and the
cached hole size stays as it is, which is sound only because the cache moves to
the area below the freed one. `Building`: the area of the call is in the set and
has no pages before it has an array, so that taking it back leaks none.
`NothingKept` rests on a second invariant, `Account`: at every step, not only
between calls, each area but the one in progress is mapped as a whole, each frame
is free or in an area, and the objects are three per area, two more during the
search and one less before the array.
Assumptions: `SpaceAssumption`, `RequestAssumption`, `FrameAssumption`.

**Kmap** (`KmapProofs`). For any number of entries, pages, slots and callers:
`PagesAreKept` (`KeepsItsPage`) and `SlotsAreKept` (`AtomicKeepsPage`).

    IInv == TypeOK /\ KeepsItsPage /\ Searching /\ Counting
    FixInv == TypeOK /\ IndexCounts /\ AtomicKeepsPage

`Searching`: the page a search is for has no entry, so taking one makes no second.
`Counting`: its countdown never reaches 0. `IndexCounts`: the index is the number
of slots held, so that it does not fall below 0. Assumptions: `EntryAssumption`,
`PageAssumption`, `BoundAssumption`, and in the model that callers of
`kmap_atomic` nest.

**Per-CPU** (`PercpuProofs`). For every size and number of blocks, hidden ends, set
of sizes and of alignments that divide a block: `AreasStayExact` (`AreasExact`),
`BlocksStayExact` (`BlocksExact`), `AFitIsAnArea` (`FitMeansArea`),
`TheHintCoversBlocks` (`HintCoversBlocks`) and `StartsOverWithoutRoom`
(`SpinsWithoutRoom`).

    IInv == /\ MapFits(alloc_map, first_bit, free_bytes)
            /\ AllFit(md_blocks, alloc_map)
            /\ contig \in Contig /\ HintCovers(md_blocks, contig)
            /\ AreasFit(areas, alloc_map) /\ BoundsFit(areas, bound_map)
            /\ WantFits(want, md_blocks)

`AllFit` says of every block that its five fields are the truth about its part of
the bitmap. It is the part that is hard to keep, because most updates read the
fields and not the map. `UpdateFits` and `TakeFits` are the two ways in which a
block changes without a scan, by a run that becomes free and by one that is taken;
`RefreshFits` is the scan; `AllocFits` and `FreeFits` put together the first, the
inner and the last block of an area. The point at which it could fail is an area
taken in front of the hint of its block: the hint then stays. That is right because
the hint is the longest run of the block, so a free area that begins before it
cannot reach into it. Of the chunk, where an area may do just that, no more is kept
than `HintCovers`: a refresh looks at regions that may span blocks, and each block's
longest run is not longer than one of them (`RegionKnows`, `BestKnows`,
`RefreshCovers`).

`FitMeansArea` rests on the search for a fit (`FitKnows`): whatever it returns has
room for the request, aligned, inside the map and starting less than a block further
on (`Room`), which is why the search of `pcpu_alloc_area` succeeds and ends before
it could leave the map (`FoundIsArea`). This uses that alignments divide a block.
`SpinsWithoutRoom` is the converse for one block (`RoomyBlockIsFound`); it needs
that the hint covers blocks, that first_bit hides nothing, and that the chunk is on
a list that is searched, since slots grow with the size (`SlotsGrow`). `BoundsFit`
says that an area has boundaries at its ends and none inside, whatever older
boundaries lie in free space; from it `AreaBits` is the size of the area.

The loops are recursive functions, about which the prover needs to be told that
they exist: `Recursion` shows it by induction over an interval (`Upwards`, from the
least counterexample), and one lemma per loop (`ScanIs`, `FreeWalkIs`, `BestWalkIs`,
`FitWalkIs`) turns it into a first value and a step.
Assumptions: `BlockAssumption`, `OffsetAssumption`, `RequestAssumption`,
`UnitAssumption` (the chunk lies in one unit).

**Memblock** (`MemblockProofs`). For every memory, page size, size of a region and of
the static array, and any requests `LowAssumption` admits: `ArrayMinimal`
(`Minimal`), `NothingLost` (`ReservedExact`), `RoomSuffices` (`CountsFit`) and
`SearchesComplete` (`FindsRoom`).

    IInv == Fits(reserved, owned) /\ owned \subseteq 0 .. PHYS_ADDR_MAX - 1

`Fits(t, own)` says of a region array, which need not be the one between two calls:
its regions are in order and do not touch (or it is the one empty entry), there are no
more of them than it has room for, `total_size` is their sum, their cells are those in
`own` and those of the array's own reservation, and these two do not meet. What makes
it hard to keep is that `memblock_double_array` frees and reserves through the same
array in the middle of a call; so everything is proved of `Fits` for any array and
used for the intermediate ones.

* Each loop has a lemma for its step and one for all its steps, which says what has
  become of the first k regions: `Merged` (touching regions become one and no cell is
  lost), `AddOk` and `InsertedIs`, `CutOk` and `CutIs` (one region more at most, and
  only if the range lies inside a region).
* `InsertedIs` counts: the array grows by exactly one region for each maximal part of
  the range that was missing, and these are counted by the cells at which one begins
  (`Starts`). That number depends on the cells only and not on how they are divided
  into regions. It is why the count of the first pass is still right when the array
  has been moved in between and has other regions than before (`RoomCounts`).
* A search is right because free memory lies in one gap (`GapHolds`), and
  `round_down` gives the highest aligned place in it (`TopDownIs`); the bottom-up
  search is followed by the top-down one when it finds nothing, so completeness is
  needed of that one only (`FindComplete`).
* The loop that doubles ends: a doubling adds at least two places and at most two
  regions (`MoveArrayIs`, `Progress`), so after the first, each further one
  gains two (`MakeRoomIs`).
* The new array is kept out of the range that is being reserved (`FindForArrayIs`):
  above it by the start of the first search, below it by the end of the second, unless
  that end is 0 or 1. The range then ends below the memory (`Clear`), so that it cannot
  meet an array that lies in it.
* `ALIGN` of at most a page is one less (`AlignIs`), so that of such an array all but
  the last byte is reserved (`InvExact`).

Assumptions: `MemAssumption`, `ArrayAssumption`, `RequestAssumption` (sizes are not 0),
`LowAssumption`, and in the model that callers free what they own and do not reserve
the array. `IInv` itself quantifies over all
addresses and is not a formula for TLC; `Minimal`, `ReservedExact` and `CountsFit`, which
the run checks, say the same of the addresses there are.

## 6. What is only model-checked, and what is left open

Liveness (`CallReturns` of `Buddy` and `Vmap`, `TransferEnds`, `UninitReturns`,
`SearchEnds`) is beyond TLAPS and is checked by TLC on the instances
above. Every invariant, refinement and action property that a run checks is stated by
a theorem. Callers that do not wait are explored only as far
as the violation they lead to.

Abstractions: strings are values and not characters, so the copies of `transmit` and
`dump` with `sprintf`, which know neither the size of the buffer nor that of
`data[128]`, are copies of a value whatever its length; `kmalloc` and the PCI core
are modelled from how the driver uses them; the 100 ms delay is an event that may
come at any time, except where `Waits` says that callers let it pass; a transfer
that is in flight when remove frees the buffer is modelled, but what it then
overwrites is not. Left out of the allocators are requests vmalloc
takes its page array from itself for (more than 1024 pages), regions of different
flags or nodes in memblock (the program has one kind), and reserved per-CPU memory
(nothing asks for it).
