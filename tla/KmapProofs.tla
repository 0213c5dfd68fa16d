----------------------------- MODULE KmapProofs -----------------------------
(***************************************************************************)
(* Proofs about Kmap, for any number of entries, pages, slots and callers: *)
(* an address keeps leading to the page it was given out for.              *)
(***************************************************************************)
EXTENDS Kmap, FiniteSetTheorems, TLAPS

\* The index of the fixmap counts the slots callers hold.
IndexCounts == IsFiniteSet(fix_users) /\ Cardinality(fix_users) = atomic_idx

\* A search is for a page that has no address.
Searching == pc = "search" => page \in HighPages /\ \A nr \in Entries : maps[nr] # page

\* The countdown of a search is never over: it starts anew instead.
Counting == pc = "search" => count > 0

IInv == TypeOK /\ KeepsItsPage /\ Searching /\ Counting

FixInv == TypeOK /\ IndexCounts /\ AtomicKeepsPage

\* Initially no entry is mapped and no slot in use.
LEMMA InitIInv == Init => IInv /\ FixInv
<1> SUFFICES ASSUME Init PROVE IInv /\ FixInv
  OBVIOUS
<1> USE EntryAssumption, BoundAssumption DEF Init
<1>1. TypeOK
  BY DEF TypeOK, Entries
<1>2. KeepsItsPage
  BY DEF KeepsItsPage, Entries
<1>3. Searching /\ Counting /\ AtomicKeepsPage
  BY DEF Searching, Counting, AtomicKeepsPage
<1>4. IndexCounts
  BY FS_EmptySet DEF IndexCounts
<1> QED
  BY <1>1, <1>2, <1>3, <1>4 DEF IInv, FixInv

\* page_address returns the entry that maps the page, if there is one.
LEMMA AddressMaps ==
  ASSUME NEW p
  PROVE  /\ page_address(p) # None => page_address(p) \in Entries
                                      /\ maps[page_address(p)] = p
         /\ page_address(p) = None => \A nr \in Entries : maps[nr] # p
<1>1. CASE \E nr \in Entries : maps[nr] = p
  <2>1. page_address(p) \in Entries /\ maps[page_address(p)] = p
    BY <1>1 DEF page_address
  <2>2. None \notin Entries
    BY EntryAssumption DEF None, Entries
  <2> QED
    BY <2>1, <2>2
<1>2. CASE ~ \E nr \in Entries : maps[nr] = p
  BY <1>2 DEF page_address
<1> QED
  BY <1>1, <1>2

\* The next entry is an entry.
LEMMA NextEntry == ASSUME TypeOK PROVE get_next_pkmap_nr \in Entries
<1>1. last \in Nat /\ last < LAST_PKMAP /\ LAST_PKMAP \in Nat \ {0}
  BY EntryAssumption DEF TypeOK, Entries
<1> QED
  BY <1>1 DEF get_next_pkmap_nr, Entries

\* A user more or less of one entry, everything else as it was.
LEMMA OneUser ==
  ASSUME IInv, NEW p \in HighPages, NEW nr \in Entries, pte[nr] = p,
         NEW d \in {1, -1}, pkmap_count[nr] + d \in Nat, users[p][nr] + d \in Nat,
         pkmap_count' = [pkmap_count EXCEPT ![nr] = @ + d],
         users' = [users EXCEPT ![p][nr] = @ + d],
         UNCHANGED <<pte, maps, pc, page>>
  PROVE  KeepsItsPage' /\ Searching'
<1>1. p # NoPage
  BY PageAssumption
<1>2. /\ pkmap_count \in [Entries -> Nat]
      /\ users \in [HighPages -> [Entries -> Nat]]
      /\ pte \in [Entries -> HighPages \cup {NoPage}]
  BY DEF IInv, TypeOK
<1>3. /\ users'[p][nr] = users[p][nr] + d
      /\ \A q \in HighPages, i \in Entries : <<q, i>> # <<p, nr>> => users'[q][i] = users[q][i]
  BY <1>2
<1>4. /\ pkmap_count'[nr] = pkmap_count[nr] + d
      /\ \A i \in Entries : i # nr => pkmap_count'[i] = pkmap_count[i]
  BY <1>2
<1>5. \A q \in HighPages, i \in Entries : users'[q][i] > 0 => pte'[i] = q
  BY <1>3 DEF IInv, KeepsItsPage
<1>6. \A i \in Entries :
        IF pte'[i] = NoPage THEN pkmap_count'[i] = 0
                            ELSE pkmap_count'[i] = 1 + users'[pte'[i]][i]
  <2> TAKE i \in Entries
  <2>1. IF pte[i] = NoPage THEN pkmap_count[i] = 0
                           ELSE pkmap_count[i] = 1 + users[pte[i]][i]
    BY DEF IInv, KeepsItsPage
  <2>2. CASE i = nr
    BY <1>1, <1>2, <1>3, <1>4, <2>1, <2>2
  <2>3. CASE i # nr
    <3>1. pte[i] # NoPage => users'[pte[i]][i] = users[pte[i]][i]
      BY <1>2, <1>3, <2>3
    <3> QED
      BY <1>4, <2>1, <2>3, <3>1
  <2> QED
    BY <2>2, <2>3
<1>7. maps' = pte' /\ \A i, j \in Entries : pte'[i] = pte'[j] /\ pte'[i] # NoPage => i = j
  BY DEF IInv, KeepsItsPage
<1>8. Searching'
  BY DEF IInv, Searching
<1> QED
  BY <1>5, <1>6, <1>7, <1>8 DEF KeepsItsPage

\* A round of the search leaves the entries that are in use alone.
LEMMA RoundKeeps ==
  ASSUME IInv
  PROVE  /\ Cleared \subseteq Entries
         /\ MapsWithout(Cleared) = [nr \in Entries |-> PteNow(nr)]
         /\ \A nr \in Entries :
              /\ CountNow(nr) \in Nat /\ PteNow(nr) \in HighPages \cup {NoPage}
              /\ PteNow(nr) \in {pte[nr], NoPage}
              /\ IF PteNow(nr) = NoPage THEN CountNow(nr) = 0
                                        ELSE CountNow(nr) = 1 + users[PteNow(nr)][nr]
              /\ \A p \in HighPages : users[p][nr] > 0 => PteNow(nr) = p
<1>1. /\ pkmap_count \in [Entries -> Nat]
      /\ users \in [HighPages -> [Entries -> Nat]]
      /\ pte \in [Entries -> HighPages \cup {NoPage}]
      /\ maps = pte
  BY DEF IInv, TypeOK, KeepsItsPage
<1>2. Cleared \subseteq Entries /\ \A nr \in Cleared : pkmap_count[nr] = 1
  BY DEF Cleared, Flushable
<1>3. \A nr \in Entries : IF pte[nr] = NoPage THEN pkmap_count[nr] = 0
                                             ELSE pkmap_count[nr] = 1 + users[pte[nr]][nr]
  BY DEF IInv, KeepsItsPage
<1>4. \A nr \in Cleared : pte[nr] \in HighPages /\ users[pte[nr]][nr] = 0
  <2> TAKE nr \in Cleared
  <2>1. nr \in Entries /\ pte[nr] # NoPage /\ 1 = 1 + users[pte[nr]][nr]
    BY <1>2, <1>3
  <2>2. pte[nr] \in HighPages
    BY <1>1, <2>1
  <2>3. users[pte[nr]][nr] \in Nat
    BY <1>1, <2>1, <2>2
  <2> QED
    BY <2>1, <2>2, <2>3
<1>5. \A i, j \in Entries : pte[i] = pte[j] /\ pte[i] # NoPage => i = j
  BY DEF IInv, KeepsItsPage
<1>6. MapsWithout(Cleared) = [nr \in Entries |-> PteNow(nr)]
  <2>1. \A nr \in Entries : (\E i \in Cleared : maps[nr] = pte[i]) <=> nr \in Cleared
    BY <1>1, <1>2, <1>4, <1>5, PageAssumption
  <2> QED
    BY <1>1, <2>1 DEF MapsWithout, PteNow
<1>7. ASSUME NEW nr \in Entries
      PROVE  /\ CountNow(nr) \in Nat /\ PteNow(nr) \in HighPages \cup {NoPage}
             /\ PteNow(nr) \in {pte[nr], NoPage}
             /\ IF PteNow(nr) = NoPage THEN CountNow(nr) = 0
                                       ELSE CountNow(nr) = 1 + users[PteNow(nr)][nr]
             /\ \A p \in HighPages : users[p][nr] > 0 => PteNow(nr) = p
  <2>1. \A p \in HighPages : users[p][nr] > 0 => pte[nr] = p
    BY DEF IInv, KeepsItsPage
  <2>2. CASE nr \in Cleared
    BY <1>1, <1>4, <2>1, <2>2 DEF CountNow, PteNow
  <2>3. CASE nr \notin Cleared
    BY <1>1, <1>3, <2>1, <2>3 DEF CountNow, PteNow
  <2> QED
    BY <2>2, <2>3
<1> QED
  BY <1>2, <1>6, <1>7

\* An entry given out is empty, and no other has the page.
LEMMA TakeStep == ASSUME IInv, TakeEntry PROVE KeepsItsPage' /\ Searching'
<1> DEFINE nr == get_next_pkmap_nr
<1>1. nr \in Entries
  BY NextEntry DEF IInv
<1>2. /\ users \in [HighPages -> [Entries -> Nat]] /\ page \in HighPages
      /\ page # NoPage /\ maps = pte /\ \A i \in Entries : pte[i] # page
  BY PageAssumption DEF IInv, TypeOK, KeepsItsPage, Searching, TakeEntry
<1>3. /\ CountNow(nr) = 0 /\ pc' = "idle"
      /\ pkmap_count' = [[i \in Entries |-> CountNow(i)] EXCEPT ![nr] = 2]
      /\ pte' = [[i \in Entries |-> PteNow(i)] EXCEPT ![nr] = page]
      /\ maps' = [MapsWithout(Cleared) EXCEPT ![nr] = page]
      /\ users' = [users EXCEPT ![page][nr] = @ + 1]
  BY DEF TakeEntry, AddUser
<1> HIDE DEF nr
<1>4. /\ MapsWithout(Cleared) = [i \in Entries |-> PteNow(i)]
      /\ \A i \in Entries :
           /\ PteNow(i) \in HighPages \cup {NoPage}
           /\ PteNow(i) \in {pte[i], NoPage}
           /\ IF PteNow(i) = NoPage THEN CountNow(i) = 0
                                    ELSE CountNow(i) = 1 + users[PteNow(i)][i]
           /\ \A p \in HighPages : users[p][i] > 0 => PteNow(i) = p
  BY RoundKeeps
<1>5. PteNow(nr) = NoPage
  <2>1. PteNow(nr) # NoPage => users[PteNow(nr)][nr] \in Nat /\ CountNow(nr) = 1 + users[PteNow(nr)][nr]
    BY <1>1, <1>2, <1>4
  <2> QED
    BY <1>3, <2>1
<1>6. \A p \in HighPages : users[p][nr] = 0
  <2>1. \A p \in HighPages : users[p][nr] \in Nat /\ ~ (users[p][nr] > 0)
    BY <1>1, <1>2, <1>4, <1>5, PageAssumption
  <2> QED
    BY <2>1
<1>7. /\ users'[page][nr] = 1
      /\ \A q \in HighPages, i \in Entries : <<q, i>> # <<page, nr>> => users'[q][i] = users[q][i]
  BY <1>1, <1>2, <1>3, <1>6
<1>8. /\ pkmap_count'[nr] = 2 /\ pte'[nr] = page
      /\ \A i \in Entries : i # nr => pkmap_count'[i] = CountNow(i) /\ pte'[i] = PteNow(i)
  BY <1>1, <1>3
<1>9. maps' = pte'
  BY <1>3, <1>4
<1>10. \A q \in HighPages, i \in Entries : users'[q][i] > 0 => pte'[i] = q
  <2> SUFFICES ASSUME NEW q \in HighPages, NEW i \in Entries, users'[q][i] > 0
               PROVE  pte'[i] = q
    OBVIOUS
  <2>1. CASE i = nr
    BY <1>6, <1>7, <1>8, <2>1
  <2>2. CASE i # nr
    BY <1>4, <1>7, <1>8, <2>2
  <2> QED
    BY <2>1, <2>2
<1>11. \A i \in Entries :
        IF pte'[i] = NoPage THEN pkmap_count'[i] = 0
                            ELSE pkmap_count'[i] = 1 + users'[pte'[i]][i]
  <2> TAKE i \in Entries
  <2>1. CASE i = nr
    BY <1>2, <1>7, <1>8, <2>1
  <2>2. CASE i # nr
    <3>1. PteNow(i) # NoPage => users'[PteNow(i)][i] = users[PteNow(i)][i]
      BY <1>4, <1>7, <2>2
    <3> QED
      BY <1>4, <1>8, <2>2, <3>1
  <2> QED
    BY <2>1, <2>2
<1>12. \A i, j \in Entries : pte'[i] = pte'[j] /\ pte'[i] # NoPage => i = j
  <2>1. \A i, j \in Entries : pte[i] = pte[j] /\ pte[i] # NoPage => i = j
    BY DEF IInv, KeepsItsPage
  <2>2. \A i \in Entries : i # nr => pte'[i] \in {pte[i], NoPage}
    BY <1>4, <1>8
  <2> QED
    BY <1>2, <1>8, <2>1, <2>2
<1>13. Searching'
  BY <1>3 DEF Searching
<1> QED
  BY <1>9, <1>10, <1>11, <1>12, <1>13 DEF KeepsItsPage

\* An entry passed over stays as it is; others may be flushed.
LEMMA SkipStep == ASSUME IInv, SkipEntry PROVE KeepsItsPage' /\ Searching'
<1>1. /\ pkmap_count' = [i \in Entries |-> CountNow(i)]
      /\ pte' = [i \in Entries |-> PteNow(i)]
      /\ maps' = MapsWithout(Cleared)
      /\ UNCHANGED <<pc, page, users>>
  BY DEF SkipEntry
<1>2. /\ MapsWithout(Cleared) = [i \in Entries |-> PteNow(i)]
      /\ \A i \in Entries :
           /\ PteNow(i) \in {pte[i], NoPage}
           /\ IF PteNow(i) = NoPage THEN CountNow(i) = 0
                                    ELSE CountNow(i) = 1 + users[PteNow(i)][i]
           /\ \A p \in HighPages : users[p][i] > 0 => PteNow(i) = p
  BY RoundKeeps
<1>3. \A i, j \in Entries : pte'[i] = pte'[j] /\ pte'[i] # NoPage => i = j
  <2>1. \A i, j \in Entries : pte[i] = pte[j] /\ pte[i] # NoPage => i = j
    BY DEF IInv, KeepsItsPage
  <2> QED
    BY <1>1, <1>2, <2>1
<1>4. KeepsItsPage'
  BY <1>1, <1>2, <1>3 DEF KeepsItsPage
<1>5. Searching'
  <2>1. maps = pte /\ (pc = "search" => page \in HighPages /\ \A i \in Entries : maps[i] # page)
    BY DEF IInv, KeepsItsPage, Searching
  <2> QED
    BY <1>1, <1>2, <2>1, PageAssumption DEF Searching
<1> QED
  BY <1>4, <1>5

-----------------------------------------------------------------------------
(* The slots of the fixmap. *)

\* A new slot is one that nobody holds.
LEMMA PushStep ==
  ASSUME FixInv, NEW p \in HighPages, KmapAtomicFixed(p)
  PROVE  /\ atomic_idx' \in 0 .. KM_TYPE_NR
         /\ fix_pte' \in [Slots -> HighPages \cup {NoPage}]
         /\ fix_users' \subseteq Slots \X HighPages
         /\ IndexCounts' /\ AtomicKeepsPage'
<1>1. /\ {u[1] : u \in fix_users} = 0 .. atomic_idx - 1
      /\ atomic_idx < KM_TYPE_NR /\ atomic_idx' = atomic_idx + 1
      /\ fix_pte' = [fix_pte EXCEPT ![atomic_idx] = p]
      /\ fix_users' = fix_users \cup {<<atomic_idx, p>>}
  BY DEF KmapAtomicFixed, Nested, SlotPushed
<1>2. /\ atomic_idx \in Nat /\ atomic_idx \in Slots
      /\ fix_pte \in [Slots -> HighPages \cup {NoPage}]
      /\ fix_users \subseteq Slots \X HighPages
  BY <1>1, BoundAssumption DEF FixInv, TypeOK, Slots
<1>3. atomic_idx \notin 0 .. atomic_idx - 1
  BY <1>2
<1>4. \A u \in fix_users : u[1] # atomic_idx
  BY <1>1, <1>3
<1>5. <<atomic_idx, p>> \notin fix_users
  BY <1>4
<1>6. IndexCounts'
  BY <1>1, <1>2, <1>5, FS_AddElement DEF FixInv, IndexCounts
<1>7. AtomicKeepsPage'
  <2>1. \A u \in fix_users : u[1] \in Slots /\ fix_pte'[u[1]] = fix_pte[u[1]]
    BY <1>1, <1>2, <1>4
  <2>2. fix_pte'[atomic_idx] = p
    BY <1>1, <1>2
  <2> QED
    BY <1>1, <2>1, <2>2 DEF FixInv, AtomicKeepsPage
<1> QED
  BY <1>1, <1>2, <1>6, <1>7, BoundAssumption

\* Giving a slot back pops one, whichever it was.
LEMMA PopStep ==
  ASSUME FixInv, NEW u \in fix_users, KunmapAtomicFixed(u)
  PROVE  /\ atomic_idx' \in 0 .. KM_TYPE_NR
         /\ fix_pte' \in [Slots -> HighPages \cup {NoPage}]
         /\ fix_users' \subseteq Slots \X HighPages
         /\ IndexCounts' /\ AtomicKeepsPage'
<1>1. /\ atomic_idx' = atomic_idx - 1 /\ fix_users' = fix_users \ {u}
      /\ fix_pte' = fix_pte
  BY DEF KunmapAtomicFixed
<1>2. /\ atomic_idx \in 0 .. KM_TYPE_NR
      /\ fix_pte \in [Slots -> HighPages \cup {NoPage}]
      /\ fix_users \subseteq Slots \X HighPages
      /\ IsFiniteSet(fix_users) /\ Cardinality(fix_users) = atomic_idx
  BY DEF FixInv, TypeOK, IndexCounts
<1>3. IsFiniteSet(fix_users') /\ Cardinality(fix_users') = atomic_idx'
  BY <1>1, <1>2, FS_RemoveElement
<1>4. atomic_idx > 0
  <2>1. Cardinality(fix_users') \in Nat
    BY <1>3, FS_CardinalityType
  <2> QED
    BY <1>1, <1>2, <1>3, <2>1, BoundAssumption
<1>5. AtomicKeepsPage'
  BY <1>1 DEF FixInv, AtomicKeepsPage
<1> QED
  BY <1>1, <1>2, <1>3, <1>4, <1>5, BoundAssumption DEF IndexCounts

-----------------------------------------------------------------------------
(* The invariant. *)

\* Every step keeps what the invariants say.
LEMMA NextIInv == ASSUME IInv, FixInv, [Next]_vars PROVE IInv' /\ FixInv'
<1>0. /\ pkmap_count \in [Entries -> Nat]
      /\ pte \in [Entries -> HighPages \cup {NoPage}]
      /\ maps \in [Entries -> HighPages \cup {NoPage}]
      /\ last \in Entries
      /\ pc \in {"idle", "search"} /\ page \in HighPages \cup {NoPage}
      /\ count \in 0 .. LAST_PKMAP
      /\ users \in [HighPages -> [Entries -> Nat]]
      /\ pc = "search" => count > 0
      /\ LAST_PKMAP \in Nat \ {0}
  BY EntryAssumption DEF IInv, TypeOK, Counting
<1> DEFINE Table ==
      /\ pkmap_count \in [Entries -> Nat]
      /\ pte \in [Entries -> HighPages \cup {NoPage}]
      /\ maps \in [Entries -> HighPages \cup {NoPage}]
      /\ last \in Entries
      /\ pc \in {"idle", "search"} /\ page \in HighPages \cup {NoPage}
      /\ count \in 0 .. LAST_PKMAP
      /\ users \in [HighPages -> [Entries -> Nat]]
      /\ pc = "search" => count > 0
<1>a. ASSUME UNCHANGED fixed, Table', KeepsItsPage', Searching'
      PROVE  IInv' /\ FixInv'
  BY <1>a DEF fixed, IInv, FixInv, TypeOK, Counting, IndexCounts, AtomicKeepsPage
<1>b. ASSUME UNCHANGED <<table, last, local, users>>,
             atomic_idx' \in 0 .. KM_TYPE_NR,
             fix_pte' \in [Slots -> HighPages \cup {NoPage}],
             fix_users' \subseteq Slots \X HighPages, IndexCounts', AtomicKeepsPage'
      PROVE  IInv' /\ FixInv'
  BY <1>b DEF table, local, IInv, FixInv, TypeOK, KeepsItsPage, Searching, Counting
<1>1. CASE UNCHANGED vars
  <2>1. UNCHANGED <<pkmap_count, pte, maps, last, pc, page, count, users>> /\ UNCHANGED fixed
    BY <1>1 DEF vars, fixed
  <2>2. Table'
    BY <1>0, <2>1
  <2>3. KeepsItsPage' /\ Searching'
    BY <2>1 DEF IInv, KeepsItsPage, Searching
  <2> QED
    BY <1>a, <2>1, <2>2, <2>3
<1>2. ASSUME NEW p \in HighPages, KmapMapped(p) PROVE IInv' /\ FixInv'
  <2> DEFINE nr == page_address(p)
  <2>1. nr \in Entries /\ pte[nr] = p
    BY <1>2, AddressMaps DEF KmapMapped, IInv, KeepsItsPage
  <2>2. /\ pkmap_count' = [pkmap_count EXCEPT ![nr] = @ + 1]
        /\ users' = [users EXCEPT ![p][nr] = @ + 1]
        /\ UNCHANGED <<pte, maps, last, pc, page, count>> /\ UNCHANGED fixed
    BY <1>2 DEF KmapMapped, AddUser, local
  <2> HIDE DEF nr
  <2>3. pkmap_count[nr] + 1 \in Nat /\ users[p][nr] + 1 \in Nat
    BY <1>0, <2>1
  <2>4. KeepsItsPage' /\ Searching'
    <3>1. 1 \in {1, -1} /\ UNCHANGED <<pte, maps, pc, page>>
      BY <2>2
    <3> HIDE DEF Table
    <3> QED
      BY <2>1, <2>2, <2>3, <3>1, OneUser
  <2>5. Table'
    BY <1>0, <2>1, <2>2, <2>3
  <2> QED
    BY <1>a, <2>2, <2>4, <2>5
<1>3. ASSUME NEW p \in HighPages, KmapNew(p) PROVE IInv' /\ FixInv'
  <2>1. /\ UNCHANGED <<table, last, users>> /\ UNCHANGED fixed
        /\ pc' = "search" /\ page' = p /\ count' = LAST_PKMAP
        /\ \A nr \in Entries : maps[nr] # p
    BY <1>3, AddressMaps DEF KmapNew
  <2>2. Table'
    BY <1>0, <2>1 DEF table
  <2>3. KeepsItsPage' /\ Searching'
    BY <2>1 DEF table, IInv, KeepsItsPage, Searching
  <2> QED
    BY <1>a, <2>1, <2>2, <2>3
<1>4. ASSUME NEW p \in HighPages, NEW i \in Entries, Kunmap(p, i) \/ KunmapAtomicPkmap(p, i)
      PROVE  IInv' /\ FixInv'
  <2>1. pc = "idle" /\ users[p][i] > 0 /\ pte[i] = p /\ maps = pte
    BY <1>4 DEF Kunmap, KunmapAtomicPkmap, IInv, KeepsItsPage
  <2>2. page_address(p) = i
    <3>1. page_address(p) # None
      BY <2>1, AddressMaps
    <3>2. page_address(p) \in Entries /\ pte[page_address(p)] = p /\ p # NoPage
      BY <2>1, <3>1, AddressMaps, PageAssumption
    <3> QED
      BY <2>1, <3>2 DEF IInv, KeepsItsPage
  <2>3. /\ pkmap_count' = [pkmap_count EXCEPT ![i] = @ - 1]
        /\ users' = [users EXCEPT ![p][i] = @ - 1]
        /\ UNCHANGED <<pte, maps, last, pc, page, count>> /\ UNCHANGED fixed
    BY <1>4, <2>1, <2>2 DEF Kunmap, KunmapAtomicPkmap, local
  <2>4. /\ pkmap_count[i] \in Nat /\ users[p][i] \in Nat
        /\ pkmap_count[i] = 1 + users[p][i]
    BY <1>0, <2>1, PageAssumption DEF IInv, KeepsItsPage
  <2>5. pkmap_count[i] + (-1) \in Nat /\ users[p][i] + (-1) \in Nat
    BY <2>1, <2>4
  <2>6. /\ pkmap_count' = [pkmap_count EXCEPT ![i] = @ + (-1)]
        /\ users' = [users EXCEPT ![p][i] = @ + (-1)]
    <3>1. pkmap_count[i] - 1 = pkmap_count[i] + (-1) /\ users[p][i] - 1 = users[p][i] + (-1)
      BY <2>4
    <3> QED
      BY <2>3, <3>1
  <2>7. KeepsItsPage' /\ Searching'
    BY <2>1, <2>3, <2>5, <2>6, OneUser
  <2>8. Table'
    BY <1>0, <2>3, <2>5, <2>6
  <2> QED
    BY <1>a, <2>3, <2>7, <2>8
<1>5. ASSUME TakeEntry PROVE IInv' /\ FixInv'
  <2> DEFINE nr == get_next_pkmap_nr
  <2>1. nr \in Entries /\ page \in HighPages
    BY <1>5, NextEntry DEF IInv, Searching, TakeEntry
  <2>2. /\ last' = nr /\ pc' = "idle" /\ page' = NoPage /\ count' = 0
        /\ pkmap_count' = [[i \in Entries |-> CountNow(i)] EXCEPT ![nr] = 2]
        /\ pte' = [[i \in Entries |-> PteNow(i)] EXCEPT ![nr] = page]
        /\ maps' = [MapsWithout(Cleared) EXCEPT ![nr] = page]
        /\ users' = [users EXCEPT ![page][nr] = @ + 1]
        /\ UNCHANGED fixed
    BY <1>5 DEF TakeEntry, AddUser
  <2> HIDE DEF nr
  <2>3. /\ MapsWithout(Cleared) = [i \in Entries |-> PteNow(i)]
        /\ \A i \in Entries : CountNow(i) \in Nat /\ PteNow(i) \in HighPages \cup {NoPage}
    BY RoundKeeps
  <2>4. users[page][nr] + 1 \in Nat
    BY <1>0, <2>1
  <2>5. Table'
    BY <1>0, <2>1, <2>2, <2>3, <2>4
  <2>6. KeepsItsPage' /\ Searching'
    BY <1>5, TakeStep
  <2> QED
    BY <1>a, <2>2, <2>5, <2>6
<1>6. ASSUME SkipEntry PROVE IInv' /\ FixInv'
  <2>1. get_next_pkmap_nr \in Entries
    BY NextEntry DEF IInv
  <2>2. /\ last' = get_next_pkmap_nr
        /\ pkmap_count' = [i \in Entries |-> CountNow(i)]
        /\ pte' = [i \in Entries |-> PteNow(i)]
        /\ maps' = MapsWithout(Cleared)
        /\ UNCHANGED <<pc, page, users>> /\ UNCHANGED fixed
    BY <1>6 DEF SkipEntry
  <2>3. count' \in 1 .. LAST_PKMAP
    <3>1. PICK n \in {LAST_PKMAP, count} :
            count' = IF n - 1 # 0 THEN n - 1 ELSE LAST_PKMAP
      BY <1>6 DEF SkipEntry
    <3>2. n \in 1 .. LAST_PKMAP
      BY <1>0, <1>6 DEF SkipEntry
    <3> QED
      BY <1>0, <3>1, <3>2
  <2>4. /\ MapsWithout(Cleared) = [i \in Entries |-> PteNow(i)]
        /\ \A i \in Entries : CountNow(i) \in Nat /\ PteNow(i) \in HighPages \cup {NoPage}
    BY RoundKeeps
  <2>5. Table'
    BY <1>0, <2>1, <2>2, <2>3, <2>4
  <2>6. KeepsItsPage' /\ Searching'
    BY <1>6, SkipStep
  <2> QED
    BY <1>a, <2>2, <2>5, <2>6
<1>7. ASSUME NEW p \in HighPages, KmapAtomicFixed(p) PROVE IInv' /\ FixInv'
  <2>1. UNCHANGED <<table, last, local, users>>
    BY <1>7 DEF KmapAtomicFixed
  <2> QED
    BY <1>7, <1>b, <2>1, PushStep
<1>8. ASSUME NEW u \in fix_users, KunmapAtomicFixed(u) PROVE IInv' /\ FixInv'
  <2>1. UNCHANGED <<table, last, local, users>>
    BY <1>8 DEF KunmapAtomicFixed
  <2> QED
    BY <1>8, <1>b, <2>1, PopStep
<1> QED
  BY <1>1, <1>2, <1>3, <1>4, <1>5, <1>6, <1>7, <1>8 DEF Next, Search

\* The invariants hold in every state of every behaviour of the allocator.
THEOREM Invariance == Spec => [](IInv /\ FixInv)
<1>1. Init => IInv /\ FixInv
  BY InitIInv
<1>2. (IInv /\ FixInv) /\ [Next]_vars => (IInv /\ FixInv)'
  BY NextIInv
<1> QED
  BY <1>1, <1>2, PTL DEF Spec

\* However often kmap, kunmap and the flushes of map_new_virtual come, a caller
\* reaches the page it mapped, and the counts are the numbers of users.
THEOREM PagesAreKept == Spec => []KeepsItsPage
<1>1. IInv => KeepsItsPage
  BY DEF IInv
<1> QED
  BY <1>1, Invariance, PTL

\* kmap_atomic never gives out a slot that somebody holds, as long as callers
\* nest as Nested says.
THEOREM SlotsAreKept == Spec => []AtomicKeepsPage
<1>1. FixInv => AtomicKeepsPage
  BY DEF FixInv
<1> QED
  BY <1>1, Invariance, PTL
=============================================================================
