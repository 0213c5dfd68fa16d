-------------------------------- MODULE Kmap --------------------------------
(***************************************************************************)
(* kmap and kmap_atomic in user space, from Memory-Allocator/KMAP-MEMAT:   *)
(* LAST_PKMAP page table entries through which highmem pages are reached,  *)
(* and a stack of fixmap slots for short uses.  Pages of the normal zone   *)
(* need no mapping and change no state; they are left out.                 *)
(*                                                                         *)
(* An address of the KMAP area is the number of its entry (PKMAP_NR and    *)
(* PKMAP_ADDR are inverse).  The hash table of page_address_maps is one    *)
(* function: maps[nr] is the page whose list page_address_maps[nr] is on.  *)
(***************************************************************************)
EXTENDS Integers, FiniteSets

CONSTANTS
  LAST_PKMAP,   \* entries of the KMAP area, PTRS_PER_PTE in the code
  HighPages,    \* highmem pages
  NoPage,       \* an empty entry
  KM_TYPE_NR,   \* bound on the nesting of kmap_atomic; the code has no check
  MaxUsers      \* bound on the callers that hold the same address

ASSUME EntryAssumption == LAST_PKMAP \in Nat \ {0}
ASSUME PageAssumption == NoPage \notin HighPages
ASSUME BoundAssumption == KM_TYPE_NR \in Nat /\ MaxUsers \in Nat

Entries == 0 .. LAST_PKMAP - 1
Slots   == 0 .. KM_TYPE_NR - 1
None    == LAST_PKMAP  \* a NULL address

VARIABLES
  pkmap_count, \* 0: empty, 1: mapped and unused, 1 + n: n callers use it
  pte,         \* pkmap_page_table
  maps,        \* page_address_maps that are on a list of the hash table
  last,        \* last_pkmap_nr of get_next_pkmap_nr
  pc, page, count,  \* map_new_virtual in progress
  users,       \* callers that hold the address of an entry for a page
  atomic_idx,  \* __kmap_atomic_idx
  fix_pte,     \* the page a fixmap slot leads to
  fix_users    \* the slots whose address callers hold, with the page they mapped

table == <<pkmap_count, pte, maps>>
fixed == <<atomic_idx, fix_pte, fix_users>>
local == <<pc, page, count>>
vars  == <<pkmap_count, pte, maps, last, pc, page, count, users, atomic_idx,
           fix_pte, fix_users>>

Init ==
  /\ pkmap_count = [nr \in Entries |-> 0]
  /\ pte = [nr \in Entries |-> NoPage] /\ maps = pte
  /\ last = 0
  /\ pc = "idle" /\ page = NoPage /\ count = 0
  /\ users = [p \in HighPages |-> [nr \in Entries |-> 0]]
  /\ atomic_idx = 0
  /\ fix_pte = [s \in Slots |-> NoPage] /\ fix_users = {}

page_address(p) ==
  IF \E nr \in Entries : maps[nr] = p THEN CHOOSE nr \in Entries : maps[nr] = p
                                      ELSE None

AddUser(p, nr) == users' = [users EXCEPT ![p][nr] = @ + 1]

-----------------------------------------------------------------------------
\* kmap or kmap_atomic of a page that has an address: kmap_high, kmap_high_get.
KmapMapped(p) ==
  LET nr == page_address(p)
  IN  /\ pc = "idle" /\ nr # None /\ users[p][nr] < MaxUsers
      /\ pkmap_count' = [pkmap_count EXCEPT ![nr] = @ + 1]
      /\ AddUser(p, nr)
      /\ UNCHANGED <<pte, maps, last, local, fixed>>

\* kmap of a page without address, up to the label start of map_new_virtual.
KmapNew(p) ==
  /\ pc = "idle" /\ page_address(p) = None
  /\ pc' = "search" /\ page' = p /\ count' = LAST_PKMAP
  /\ UNCHANGED <<table, last, users, fixed>>

get_next_pkmap_nr == (last + 1) % LAST_PKMAP
no_more_pkmaps == get_next_pkmap_nr = 0

\* The entries flush_all_zero_pkmaps clears: those that are mapped and unused.
Flushable == {nr \in Entries : pkmap_count[nr] = 1}

\* Mutant: an entry loses its page but stays in the hash table.
KeepMaps(cleared) == maps

\* set_page_address(page, NULL) for every cleared entry finds the map by page.
MapsWithout(cleared) ==
  [nr \in Entries |->
     IF \E i \in cleared : maps[nr] = pte[i] THEN NoPage ELSE maps[nr]]

\* The entries this round of the search clears.
Cleared == IF no_more_pkmaps THEN Flushable ELSE {}
CountNow(nr) == IF nr \in Cleared THEN 0 ELSE pkmap_count[nr]
PteNow(nr)   == IF nr \in Cleared THEN NoPage ELSE pte[nr]

\* An empty entry: map_new_virtual fills it, kmap_high adds the first user.
TakeEntry ==
  LET nr == get_next_pkmap_nr
  IN  /\ pc = "search" /\ CountNow(nr) = 0
      /\ last' = nr
      /\ pkmap_count' = [[i \in Entries |-> CountNow(i)] EXCEPT ![nr] = 2]
      /\ pte' = [[i \in Entries |-> PteNow(i)] EXCEPT ![nr] = page]
      /\ maps' = [MapsWithout(Cleared) EXCEPT ![nr] = page]
      /\ AddUser(page, nr)
      /\ pc' = "idle" /\ page' = NoPage /\ count' = 0
      /\ UNCHANGED fixed

\* Mutant: the entries are flushed only when the countdown is over.
SkipNoFlush ==
  LET nr == get_next_pkmap_nr
  IN  /\ pc = "search" /\ pkmap_count[nr] # 0
      /\ last' = nr
      /\ count' = IF count - 1 # 0 THEN count - 1 ELSE LAST_PKMAP
      /\ UNCHANGED <<table, pc, page, users, fixed>>

\* An entry in use.  A flush starts the countdown anew; when it is over, the
\* code, which has nobody to wait for, starts over as well.
SkipEntry ==
  LET nr == get_next_pkmap_nr
      n  == IF no_more_pkmaps THEN LAST_PKMAP ELSE count
  IN  /\ pc = "search" /\ CountNow(nr) # 0
      /\ last' = nr
      /\ pkmap_count' = [i \in Entries |-> CountNow(i)]
      /\ pte' = [i \in Entries |-> PteNow(i)]
      /\ maps' = MapsWithout(Cleared)
      /\ count' = IF n - 1 # 0 THEN n - 1 ELSE LAST_PKMAP
      /\ UNCHANGED <<pc, page, users, fixed>>

\* kunmap(page), or kunmap_atomic of an address of the KMAP area: kunmap_high of
\* the page, found by its address or in the entry of the address.
Kunmap(p, nr) ==
  /\ pc = "idle" /\ users[p][nr] > 0
  /\ page_address(p) # None
  /\ pkmap_count' = [pkmap_count EXCEPT ![page_address(p)] = @ - 1]
  /\ users' = [users EXCEPT ![p][nr] = @ - 1]
  /\ UNCHANGED <<pte, maps, last, local, fixed>>

KunmapAtomicPkmap(p, nr) ==
  /\ pc = "idle" /\ users[p][nr] > 0
  /\ page_address(pte[nr]) # None
  /\ pkmap_count' = [pkmap_count EXCEPT ![page_address(pte[nr])] = @ - 1]
  /\ users' = [users EXCEPT ![p][nr] = @ - 1]
  /\ UNCHANGED <<pte, maps, last, local, fixed>>

-----------------------------------------------------------------------------
\* Callers map a new slot only when the slots in use are the lowest ones: they
\* may give slots back in any order, as main does, but all those above first.
Nested == {u[1] : u \in fix_users} = 0 .. atomic_idx - 1

\* Mutant: kmap_atomic uses the slot below the one it reserves.
SlotBelow == IF atomic_idx > 0 THEN atomic_idx - 1 ELSE 0

\* kmap_atomic_idx_push.
SlotPushed == atomic_idx

\* kmap_atomic of a page without address.
KmapAtomicFixed(p) ==
  /\ pc = "idle" /\ page_address(p) = None
  /\ Nested /\ atomic_idx < KM_TYPE_NR
  /\ atomic_idx' = atomic_idx + 1
  /\ fix_pte' = [fix_pte EXCEPT ![SlotPushed] = p]
  /\ fix_users' = fix_users \cup {<<SlotPushed, p>>}
  /\ UNCHANGED <<table, last, local, users>>

\* kunmap_atomic of a fixmap address: the entry stays, the index goes down by
\* one whichever slot the address belongs to.
KunmapAtomicFixed(u) ==
  /\ pc = "idle"
  /\ atomic_idx' = atomic_idx - 1
  /\ fix_users' = fix_users \ {u}
  /\ UNCHANGED <<table, last, local, users, fix_pte>>

Search == TakeEntry \/ SkipEntry

Next ==
  \/ \E p \in HighPages :
       \/ KmapMapped(p) \/ KmapNew(p) \/ KmapAtomicFixed(p)
       \/ \E nr \in Entries : Kunmap(p, nr) \/ KunmapAtomicPkmap(p, nr)
  \/ \E u \in fix_users : KunmapAtomicFixed(u)
  \/ Search

\* A search goes on: the program has one thread.
Spec == Init /\ [][Next]_vars /\ WF_vars(Search)

-----------------------------------------------------------------------------
TypeOK ==
  /\ pkmap_count \in [Entries -> Nat]
  /\ pte \in [Entries -> HighPages \cup {NoPage}]
  /\ maps \in [Entries -> HighPages \cup {NoPage}]
  /\ last \in Entries
  /\ pc \in {"idle", "search"} /\ page \in HighPages \cup {NoPage}
  /\ count \in 0 .. LAST_PKMAP
  /\ users \in [HighPages -> [Entries -> Nat]]
  /\ atomic_idx \in 0 .. KM_TYPE_NR
  /\ fix_pte \in [Slots -> HighPages \cup {NoPage}]
  /\ fix_users \subseteq Slots \X HighPages

\* A caller that holds an address reaches the page it mapped until it unmaps it,
\* however often the table has been flushed since.  That takes the page table,
\* the hash table and the counts to tell the same: an entry is empty with count 0
\* or maps a page, under one address only, with one more than its users.
KeepsItsPage ==
  /\ \A p \in HighPages, nr \in Entries : users[p][nr] > 0 => pte[nr] = p
  /\ maps = pte
  /\ \A nr \in Entries :
       IF pte[nr] = NoPage THEN pkmap_count[nr] = 0
                           ELSE pkmap_count[nr] = 1 + users[pte[nr]][nr]
  /\ \A i, j \in Entries : pte[i] = pte[j] /\ pte[i] # NoPage => i = j

\* A fixmap slot leads to the page its holder mapped.
AtomicKeepsPage ==
  \A u \in fix_users : fix_pte[u[1]] = u[2]

\* The search ends if some entry is not in use when it starts.
SearchEnds ==
  (pc = "search" /\ \E nr \in Entries : pkmap_count[nr] <= 1) ~> (pc = "idle")
=============================================================================
