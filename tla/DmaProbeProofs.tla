--------------------------- MODULE DmaProbeProofs ---------------------------
(***************************************************************************)
(* Loading and unloading, proved for every run of DmaProbe: what the       *)
(* driver holds is, at every step of probe, of its unwinding and of        *)
(* remove, exactly what the position says.                                 *)
(***************************************************************************)
EXTENDS DmaProbe, TLAPS

\* What the first n steps of probe acquire, and what remove releases from its
\* step n on.
Before(n) == {Steps[i] : i \in 1 .. n}
From(n)   == {RemoveOrder[i] : i \in n .. Len(RemoveOrder)}

\* After a probe that returned 0 although dma_alloc_coherent had failed, remove
\* runs with nothing held.
HeldFits ==
  /\ pc = "out"    => held = {}
  /\ pc = "probe"  => at \in 1 .. 9 /\ held = Before(at - 1) /\ ret = 0
  /\ pc = "unwind" => at \in 0 .. 7 /\ held = Before(at)
  /\ pc = "loaded" => held = {} \/ (bound /\ held = All)
  /\ pc = "remove" => at \in 1 .. 9 /\ (held = From(at) \/ (at = 1 /\ held = {}))

IInv ==
  /\ TypeOK /\ HeldFits
  /\ bound = TRUE <=> (pc = "remove" \/ (pc = "loaded" /\ ret = 0))

\* Both orders name every resource once.
LEMMA Orders ==
  /\ Len(Steps) = 8 /\ Len(RemoveOrder) = 8
  /\ \A i, j \in 1 .. 8 : Steps[i] = Steps[j] => i = j
  /\ \A i, j \in 1 .. 8 : RemoveOrder[i] = RemoveOrder[j] => i = j
  /\ \A i \in 1 .. 8 : Steps[i] \in All
<1>1. Len(Steps) = 8 /\ Len(RemoveOrder) = 8
  BY DEF Steps, RemoveOrder
<1>2. \A i, j \in 1 .. 8 : Steps[i] = Steps[j] => i = j
  BY DEF Steps
<1>3. \A i, j \in 1 .. 8 : RemoveOrder[i] = RemoveOrder[j] => i = j
  BY DEF RemoveOrder
<1> QED
  BY <1>1, <1>2, <1>3 DEF All

LEMMA Wholes == Before(0) = {} /\ Before(8) = All /\ From(1) = All /\ From(9) = {}
<1>1. Before(0) = {} /\ Before(8) = All
  BY Orders DEF Before, All
<1>2. From(9) = {}
  BY Orders DEF From
<1>3. \A i \in 1 .. 8 : \E j \in 1 .. 8 : Steps[i] = RemoveOrder[j]
  BY DEF Steps, RemoveOrder
<1>4. \A j \in 1 .. 8 : \E i \in 1 .. 8 : Steps[i] = RemoveOrder[j]
  BY DEF Steps, RemoveOrder
<1>5. From(1) = All
  BY <1>3, <1>4, Orders DEF From, All
<1> QED
  BY <1>1, <1>2, <1>5

\* One more step of each of the three walks.
LEMMA Walks ==
  ASSUME NEW n \in 1 .. 8
  PROVE  /\ Before(n - 1) \cup {Steps[n]} = Before(n)
         /\ Before(n) \ {Steps[n]} = Before(n - 1)
         /\ From(n) \ {RemoveOrder[n]} = From(n + 1)
         /\ Before(n) \subseteq All /\ From(n) \subseteq All
<1>1. Before(n - 1) \cup {Steps[n]} = Before(n)
  BY DEF Before
<1>2. Before(n) \ {Steps[n]} = Before(n - 1)
  BY Orders DEF Before
<1>3. From(n) \ {RemoveOrder[n]} = From(n + 1)
  BY Orders DEF From
<1>4. Before(n) \subseteq All
  BY Orders DEF Before
<1>5. From(n) \subseteq From(1)
  BY DEF From
<1> QED
  BY <1>1, <1>2, <1>3, <1>4, <1>5, Wholes

\* The interface is the last to come and the first to go, bds the first to come
\* and the last to go.
LEMMA Ends ==
  /\ \A n \in 0 .. 7 : "misc" \notin Before(n)
  /\ \A n \in 2 .. 9 : "misc" \notin From(n)
  /\ \A n \in 0 .. 8 : "irq" \in Before(n) => "bds" \in Before(n)
  /\ \A n \in 1 .. 9 : "irq" \in From(n) => "bds" \in From(n)
  /\ "misc" \in All
<1>1. /\ \A i \in 1 .. 7 : Steps[i] # "misc"
      /\ \A i \in 1 .. 8 : Steps[i] = "irq" => i = 6
      /\ Steps[1] = "bds" /\ Steps[8] = "misc"
  BY DEF Steps
<1>2. /\ \A i \in 2 .. 8 : RemoveOrder[i] # "misc"
      /\ RemoveOrder[8] = "bds"
  BY DEF RemoveOrder
<1>3. \A n \in 0 .. 7 : "misc" \notin Before(n)
  BY <1>1 DEF Before
<1>4. \A n \in 2 .. 9 : "misc" \notin From(n)
  BY <1>2, Orders DEF From
<1>5. \A n \in 0 .. 8 : "irq" \in Before(n) => "bds" \in Before(n)
  BY <1>1 DEF Before
<1>6. \A n \in 1 .. 9 : "irq" \in From(n) => "bds" \in From(n)
  BY <1>2, Orders DEF From
<1>7. "misc" \in All
  BY <1>1, Orders DEF All
<1> QED
  BY <1>3, <1>4, <1>5, <1>6, <1>7

-----------------------------------------------------------------------------
LEMMA InitIInv == Init => IInv
<1> SUFFICES ASSUME Init PROVE IInv
  OBVIOUS
<1>1. 0 \in 0 .. Len(Steps) + 1
  BY Orders
<1>2. {bound, going, fd, busy, msg, oops} \subseteq BOOLEAN
  BY DEF Init
<1>3. TypeOK
  BY <1>1, <1>2 DEF Init, TypeOK
<1> QED
  BY <1>3 DEF Init, IInv, HeldFits

\* The steps of users and of the device leave what is held alone.
LEMMA UserStep ==
  ASSUME IInv, Open \/ Close \/ Transmit \/ Complete \/ Interrupt
  PROVE  IInv'
<1>1. UNCHANGED <<pc, at, ret, bound, held>>
  BY DEF Open, Close, Transmit, Complete, Interrupt
<1>2. HeldFits'
  BY <1>1 DEF IInv, HeldFits
<1>3. TypeOK'
  BY <1>1 DEF IInv, TypeOK, Open, Close, Transmit, Complete, Interrupt
<1> QED
  BY <1>1, <1>2, <1>3 DEF IInv

\* Every step keeps the invariant.
LEMMA NextIInv == ASSUME IInv, [Next]_vars PROVE IInv'
<1> USE Orders
<1>0. /\ pc \in {"out", "probe", "unwind", "loaded", "remove"}
      /\ at \in 0 .. 9 /\ ret \in {0, -1} /\ held \subseteq All
      /\ bound \in BOOLEAN /\ going \in BOOLEAN /\ oops \in BOOLEAN /\ busy \in BOOLEAN
  BY DEF IInv, TypeOK
<1>1. CASE Load
  <2>1. at' - 1 = 0 /\ held = {}
    BY <1>1 DEF Load, IInv, HeldFits
  <2> QED
    BY <1>0, <1>1, <2>1, Wholes DEF Load, IInv, TypeOK, HeldFits
<1>2. CASE Acquire
  <2>1. at \in 1 .. 8 /\ held = Before(at - 1) /\ at' = at + 1 /\ pc' = "probe"
    BY <1>2 DEF Acquire, IInv, HeldFits
  <2>2. held' = Before(at) /\ at' - 1 = at
    BY <1>2, <2>1, Walks DEF Acquire
  <2>3. held' = Before(at' - 1) /\ held' \subseteq All
    BY <2>1, <2>2, Walks
  <2> QED
    BY <1>0, <1>2, <2>1, <2>3 DEF Acquire, IInv, TypeOK, HeldFits
<1>3. CASE ProbeSucceeds
  <2>1. at - 1 = 8 /\ held = Before(at - 1)
    BY <1>3 DEF ProbeSucceeds, IInv, HeldFits
  <2>2. held = All
    BY <2>1, Wholes
  <2> QED
    BY <1>0, <1>3, <2>2 DEF ProbeSucceeds, IInv, TypeOK, HeldFits
<1>4. CASE Fail
  <2>1. at \in 1 .. 8 /\ held = Before(at - 1) /\ at' = at - 1 /\ pc' = "unwind"
    BY <1>4 DEF Fail, IInv, HeldFits
  <2> QED
    BY <1>0, <1>4, <2>1 DEF Fail, IInv, TypeOK, HeldFits
<1>5. CASE Unwind
  <2>1. at \in 1 .. 7 /\ held = Before(at) /\ at' = at - 1 /\ pc' = "unwind"
    BY <1>5 DEF Unwind, IInv, HeldFits
  <2>2. held' = Before(at')
    BY <1>5, <2>1, Walks DEF Unwind
  <2> QED
    BY <1>0, <1>5, <2>1, <2>2 DEF Unwind, IInv, TypeOK, HeldFits
<1>6. CASE ProbeReturns
  <2>1. held = {}
    BY <1>6, Wholes DEF ProbeReturns, IInv, HeldFits
  <2> QED
    BY <1>0, <1>6, <2>1 DEF ProbeReturns, IInv, TypeOK, HeldFits
<1>7. CASE Unload \/ Unbind
  BY <1>0, <1>7, Wholes DEF Unload, Unbind, Leave, IInv, TypeOK, HeldFits
<1>8. CASE Release
  <2>1. at \in 1 .. 8 /\ (held = From(at) \/ (at = 1 /\ held = {})) /\ pc' = "remove"
    BY <1>8 DEF Release, IInv, HeldFits
  <2>2. CASE "bds" \in held
    <3>1. held = From(at) /\ held' = From(at') /\ at' = at + 1
      BY <1>8, <2>1, <2>2, Walks DEF Release
    <3> QED
      BY <1>0, <1>8, <2>1, <2>2, <3>1 DEF Release, IInv, TypeOK, HeldFits
  <2>3. CASE "bds" \notin held
    BY <1>0, <1>8, <2>1, <2>3 DEF Release, IInv, TypeOK, HeldFits
  <2> QED
    BY <2>2, <2>3
<1>9. CASE Removed
  <2>1. held = {}
    BY <1>9, Wholes DEF Removed, IInv, HeldFits
  <2>2. TypeOK'
    <3>1. 0 \in 0 .. Len(Steps) + 1
      OBVIOUS
    <3>2. {bound, going, fd, busy, msg, oops}' \subseteq BOOLEAN
      BY <1>9 DEF Removed, IInv, TypeOK
    <3> QED
      BY <1>9, <3>1, <3>2 DEF Removed, IInv, TypeOK
  <2> QED
    BY <1>9, <2>1, <2>2 DEF Removed, IInv, HeldFits
<1>10. CASE Open \/ Close \/ Transmit \/ Complete \/ Interrupt
  BY <1>10, UserStep
<1>11. CASE UNCHANGED vars
  BY <1>11 DEF vars, IInv, TypeOK, HeldFits
<1> QED
  BY <1>1, <1>2, <1>3, <1>4, <1>5, <1>6, <1>7, <1>8, <1>9, <1>10, <1>11 DEF Next

\* What the driver holds is told by where it is (see HeldFits).
THEOREM Invariance == Spec => []IInv
  BY InitIInv, NextIInv, PTL DEF Spec

\* Whatever fails in probe, whoever calls remove and whenever an interrupt comes, a
\* file can be opened only while everything is there, and the interrupt handler finds
\* its bds (the order of probe, lines 222 to 293, and of remove, lines 313 to 327).
THEOREM NobodyFindsAHalf == Spec => []UsersFindAll
<1>1. IInv => UsersFindAll
  <2> SUFFICES ASSUME IInv PROVE UsersFindAll
    OBVIOUS
  <2>1. "misc" \in held => held = All
    <3> SUFFICES ASSUME "misc" \in held PROVE held = All
      OBVIOUS
    <3>1. CASE pc = "probe"
      <4>1. at - 1 \in 0 .. 8 /\ held = Before(at - 1)
        BY <3>1 DEF IInv, HeldFits
      <4>2. at - 1 = 8
        BY <4>1, Ends
      <4> QED
        BY <4>1, <4>2, Wholes
    <3>2. CASE pc = "unwind"
      BY <3>2, Ends DEF IInv, HeldFits
    <3>3. CASE pc = "remove"
      <4>1. at \in 1 .. 9 /\ held = From(at)
        BY <3>3 DEF IInv, HeldFits
      <4>2. at = 1
        BY <4>1, Ends
      <4> QED
        BY <4>1, <4>2, Wholes
    <3>4. CASE pc = "out" \/ pc = "loaded"
      BY <3>4 DEF IInv, HeldFits
    <3> QED
      BY <3>1, <3>2, <3>3, <3>4 DEF IInv, TypeOK
  <2>2. "irq" \in held => "bds" \in held
    <3>1. CASE pc = "probe"
      <4>1. at - 1 \in 0 .. 8 /\ held = Before(at - 1)
        BY <3>1 DEF IInv, HeldFits
      <4> QED
        BY <4>1, Ends
    <3>2. CASE pc = "unwind"
      BY <3>2, Ends DEF IInv, HeldFits
    <3>3. CASE pc = "remove"
      BY <3>3, Ends DEF IInv, HeldFits
    <3>4. CASE pc = "out" \/ pc = "loaded"
      BY <3>4, Ends, Wholes DEF IInv, HeldFits
    <3> QED
      BY <3>1, <3>2, <3>3, <3>4 DEF IInv, TypeOK
  <2> QED
    BY <2>1, <2>2 DEF UsersFindAll
<1> QED
  BY <1>1, Invariance, PTL

\* Whichever step of probe fails, everything is given back, and so it is by
\* remove (the err_ labels, lines 295 to 311).
THEOREM EverythingIsGivenBack == Spec => []NothingLeaks
<1>1. IInv => NothingLeaks
  BY DEF IInv, TypeOK, HeldFits, NothingLeaks
<1> QED
  BY <1>1, Invariance, PTL
=============================================================================
