------------------------------ MODULE DmaProofs ------------------------------
(***************************************************************************)
(* Proofs about DmaDriver: to callers that wait, for any number of         *)
(* callers, any requests and any placement of the two memories, the driver *)
(* and the device implement DmaTransfer, and no transfer touches memory    *)
(* outside the driver's buffer.  Then about DmaUserland, the program that  *)
(* is such a caller.                                                       *)
(***************************************************************************)
EXTENDS DmaUserland, TLAPS

-----------------------------------------------------------------------------
(* The checks of the driver, with their 32-bit arithmetic. *)

\* The driver's within() accepts only ranges that are not empty and lie in
\* the second range, although its sums may wrap.
LEMMA WithinIsSound ==
  ASSUME NEW base0 \in Addr, NEW size0 \in Addr,
         NEW base1 \in Nat, NEW size1 \in Nat, base1 + size1 <= M,
         driver_within(base0, size0, base1, size1)
  PROVE  /\ base1 <= base0
         /\ base0 + size0 <= base1 + size1
         /\ size0 > 0
<1>1. M \in Nat
  BY DeviceAssumption
<1>2. /\ base0 \in Nat /\ size0 \in Nat /\ base0 < M /\ size0 < M
  BY <1>1 DEF Addr
<1> DEFINE end0 == (base0 + size0) % M
           end1 == (base1 + size1) % M
<1>3. base0 >= base1 /\ end0 <= end1 /\ base0 < end0
  BY DEF driver_within
<1>4. end0 = IF base0 + size0 < M THEN base0 + size0 ELSE (base0 + size0) - M
  <2> DEFINE s == base0 + size0
  <2>1. s \in Nat /\ s < 2 * M
    BY <1>1, <1>2
  <2> HIDE DEF s
  <2>2. s % M = IF s < M THEN s ELSE s - M
    <3>1. CASE s < M
      BY <3>1, <2>1, <1>1
    <3>2. CASE M <= s
      BY <3>2, <2>1, <1>1
    <3> QED
      BY <3>1, <3>2, <2>1, <1>1
  <2> QED
    BY <2>2 DEF s
<1>5. base0 + size0 < M /\ end0 = base0 + size0
  BY <1>1, <1>2, <1>3, <1>4
<1>6. end1 = IF base1 + size1 < M THEN base1 + size1 ELSE 0
  <2>1. CASE base1 + size1 < M
    BY <2>1, <1>1
  <2>2. CASE base1 + size1 = M
    <3>1. M % M = M - M
      BY <1>1, <1>2
    <3> QED
      BY <3>1, <2>2, <1>1
  <2> QED
    BY <2>1, <2>2, <1>1
<1> HIDE DEF end0, end1
<1> QED
  BY <1>1, <1>2, <1>3, <1>5, <1>6

\* Any struct dma_desc_userspace.
Request == [dma_base: Addr, pci_base: Addr, size: Addr, data: Data]

\* What transmit accepts lies in the device's memory and in the buffer.
LEMMA AcceptedIsLegal ==
  ASSUME NEW r \in Request, Accepted(r), NEW bus, bus = (r.dma_base + dma_addr) % M
  PROVE  /\ bus \in Addr
         /\ DMA_BASE <= r.pci_base /\ r.pci_base + r.size <= DMA_BASE + DMA_SIZE
         /\ dma_addr <= bus /\ bus + r.size <= dma_addr + buffer_size
         /\ r.size > 0
<1>1. /\ r.pci_base \in Addr /\ r.size \in Addr /\ r.dma_base \in Addr
      /\ M \in Nat /\ DMA_BASE \in Nat /\ DMA_SIZE \in Nat /\ DMA_BASE + DMA_SIZE <= M
      /\ dma_addr \in Nat /\ buffer_size \in Nat /\ dma_addr + buffer_size <= M
  BY DeviceAssumption, DriverAssumption DEF Request
<1>2. bus \in Addr
  <2>1. r.dma_base \in Nat /\ r.dma_base < M /\ M > 0
    BY <1>1 DEF Addr
  <2> QED
    BY <2>1, <1>1 DEF Addr
<1>3. /\ driver_within(r.pci_base, r.size, DMA_BASE, DMA_SIZE)
      /\ driver_within(bus, r.size, dma_addr, buffer_size)
  BY DEF Accepted
<1>4. /\ DMA_BASE <= r.pci_base /\ r.pci_base + r.size <= DMA_BASE + DMA_SIZE
      /\ r.size > 0
  BY <1>1, <1>3, WithinIsSound
<1>5. dma_addr <= bus /\ bus + r.size <= dma_addr + buffer_size
  BY <1>1, <1>2, <1>3, WithinIsSound
<1> QED
  BY <1>2, <1>4, <1>5

-----------------------------------------------------------------------------
(* The inductive invariant. *)

\* A range of cnt cells of the device's memory and of the buffer.
LegalRange(pci_at, host_at, cnt) ==
  /\ DMA_BASE <= pci_at /\ pci_at + cnt <= DMA_BASE + DMA_SIZE
  /\ dma_addr <= host_at /\ host_at + cnt <= dma_addr + buffer_size
  /\ cnt > 0

SrcOf(p) == IF req[p].dir = TO_PCI THEN req[p].dma_base ELSE req[p].pci_base
DstOf(p) == IF req[p].dir = TO_PCI THEN DMA_BASE ELSE req[p].dma_base

\* The request of p with the place the driver gives it in the device's memory.
CarriedBy(p) ==
  [AskedBy(p) EXCEPT !.pci_at = IF req[p].dir = TO_PCI THEN DMA_BASE ELSE @]

\* Callers wait for one another.
Alone == \A p, q \in Procs : pc[p] # "user" /\ pc[q] # "user" => p = q

\* A caller in transmit has a legal request, also where the driver puts it, and
\* no transfer runs.
Asking ==
  \A p \in Procs : pc[p] \in Transmitting =>
    /\ ~dma.cmd.RUN
    /\ LegalRange(AskedBy(p).pci_at, AskedBy(p).host_at, AskedBy(p).cnt)
    /\ LegalRange(CarriedBy(p).pci_at, CarriedBy(p).host_at, CarriedBy(p).cnt)

\* The registers a caller in transmit has written hold what it wrote.
Written ==
  \A p \in Procs :
    /\ pc[p] \in {"copy", "src", "dst", "run"} => dma.cnt = req[p].size
    /\ pc[p] = "copy" => req[p].dir = TO_PCI
    /\ pc[p] \in {"dst", "run"} => dma.src = SrcOf(p)
    /\ pc[p] = "run" => dma.dst = DstOf(p)

\* The transfer that runs is legal.
Running == dma.cmd.RUN => LegalRange(InRegisters.pci_at, InRegisters.host_at, InRegisters.cnt)

IInv == TypeOK /\ RunHasTimer /\ Alone /\ Asking /\ Written /\ Running /\ RestUntouched

\* The initial states have it.
LEMMA InitIInv == Init => IInv
<1> SUFFICES ASSUME Init PROVE IInv
  OBVIOUS
<1> USE DeviceAssumption, DriverAssumption DEF Init, DeviceInit
<1>1. 0 \in Addr
  BY DEF Addr
<1>2. DeviceTypeOK
  BY <1>1 DEF DeviceTypeOK, Registers, Command, TO_PCI, Interrupts, Bus
<1>3. TypeOK
  BY <1>1, <1>2 DEF TypeOK, Job, Registers, Command, TO_PCI, FROM_PCI, NoRegisters
<1>4. RunHasTimer /\ Running /\ RestUntouched
  BY DEF RunHasTimer, Running, RestUntouched
<1>5. Alone /\ Asking /\ Written
  BY DEF Alone, Asking, Written, Transmitting
<1> QED
  BY <1>3, <1>4, <1>5 DEF IInv

\* A write to src, dst or cnt when no transfer runs.
LEMMA WriteRegTypes ==
  ASSUME DeviceTypeOK, NEW val \in Addr, NEW reg \in {"src", "dst", "cnt"}, WriteReg(reg, val)
  PROVE  /\ DeviceTypeOK'
         /\ dma'.cmd = dma.cmd
         /\ ~dma.cmd.RUN =>
              /\ dma'[reg] = val
              /\ \A r \in {"src", "dst", "cnt"} \ {reg} : dma'[r] = dma[r]
         /\ UNCHANGED <<dma_timer, irq_status, irq_line, msi, dma_buf, mem, aborted>>
  BY DEF DeviceTypeOK, WriteReg, Registers

LEMMA WriteRunTypes ==
  ASSUME DeviceTypeOK, NEW val \in Command, WriteRun(val)
  PROVE  DeviceTypeOK'
  BY DEF DeviceTypeOK, WriteRun, Registers, Command

LEMMA RaiseTypes ==
  ASSUME DeviceTypeOK, NEW val \in SUBSET Interrupts, raise_irq(val)
  PROVE  /\ irq_status' \subseteq Interrupts
         /\ irq_line' \in BOOLEAN /\ msi' \in BOOLEAN
  BY DEF DeviceTypeOK, raise_irq

\* A copy whose source range exists keeps the type of its target.
LEMMA CopyTypes ==
  ASSUME NEW S, NEW T, NEW to \in [S -> Data], NEW from \in [T -> Data],
         S \subseteq Int,
         NEW j \in Int, NEW i \in Int, NEW n \in Int,
         \A k \in 0 .. n - 1 : i + k \in T
  PROVE  Copy(to, j, from, i, n) \in [S -> Data]
<1> SUFFICES ASSUME NEW c \in S, within(c, j, j + n)
             PROVE  from[i + (c - j)] \in Data
  BY DEF Copy
<1>1. c - j \in 0 .. n - 1
  BY DEF within
<1> QED
  BY <1>1

\* The device's own check: what it carries out lies in its memory.
LEMMA CheckIsSound ==
  ASSUME NEW d \in Registers, InRange(d), NEW a,
         a = IF d.cmd.DIR = FROM_PCI THEN d.src ELSE d.dst
  PROVE  DMA_BASE <= a /\ a + d.cnt <= DMA_BASE + DMA_SIZE /\ d.cnt > 0
<1>1. /\ M \in Nat /\ DMA_BASE \in Nat /\ DMA_SIZE \in Nat /\ DMA_BASE + DMA_SIZE < M
  BY DeviceAssumption
<1>2. a \in Nat /\ a < M /\ d.cnt \in Nat /\ d.cnt < M
  BY <1>1 DEF Registers, Addr
<1> DEFINE end1 == (a + d.cnt) % M
           end2 == (DMA_BASE + DMA_SIZE) % M
<1>3. DMA_BASE <= a /\ end1 > a /\ end1 < end2
  BY DEF InRange, check_range, within
<1>4. end2 = DMA_BASE + DMA_SIZE
  BY <1>1
<1>5. end1 = IF a + d.cnt < M THEN a + d.cnt ELSE (a + d.cnt) - M
  <2> DEFINE s == a + d.cnt
  <2>1. s \in Nat /\ s < 2 * M
    BY <1>1, <1>2
  <2> HIDE DEF s
  <2>2. s % M = IF s < M THEN s ELSE s - M
    <3>1. CASE s < M
      BY <3>1, <2>1, <1>1
    <3>2. CASE M <= s
      BY <3>2, <2>1, <1>1
    <3> QED
      BY <3>1, <3>2, <2>1, <1>1
  <2> QED
    BY <2>2 DEF s
<1> HIDE DEF end1, end2
<1> QED
  BY <1>1, <1>2, <1>3, <1>4, <1>5

\* A bus address is not clamped.
LEMMA ClampIsIdentity == ASSUME NEW a \in Addr PROVE clamp_addr(a) = a
  BY DeviceAssumption DEF clamp_addr, Addr

\* What an expiry of the timer does, by its three outcomes.
LEMMA TimerOutcomes ==
  ASSUME DeviceTypeOK, TimerFires
  PROVE  /\ DeviceTypeOK'
         /\ dma_timer /\ dma_timer' = FALSE
         /\ \/ UNCHANGED <<dma, dma_buf, mem, aborted>> /\ ~dma.cmd.RUN
            \/ UNCHANGED <<dma, dma_buf, mem>> /\ aborted'
            \/ /\ dma.cmd.RUN /\ InRange(dma)
               /\ dma' = [dma EXCEPT !.cmd.RUN = FALSE]
               /\ Transfer(dma)
               /\ UNCHANGED aborted
<1>1. dma_timer /\ dma_timer' = FALSE
  BY DEF TimerFires
<1>2. CASE ~dma.cmd.RUN
  BY <1>1, <1>2 DEF TimerFires, DeviceTypeOK
<1>3. CASE dma.cmd.RUN /\ ~InRange(dma)
  BY <1>1, <1>3 DEF TimerFires, DeviceTypeOK
<1>4. CASE dma.cmd.RUN /\ InRange(dma)
  <2>1. Transfer(dma) /\ Finish /\ UNCHANGED aborted
    BY <1>4 DEF TimerFires
  <2>2. dma' = [dma EXCEPT !.cmd.RUN = FALSE]
    BY <2>1 DEF Finish
  <2>3. dma' \in Registers
    BY <2>2 DEF DeviceTypeOK, Registers, Command
  <2>4. irq_status' \subseteq Interrupts /\ irq_line' \in BOOLEAN /\ msi' \in BOOLEAN
    <3>1. CASE dma.cmd.IRQ
      BY <2>1, <3>1, RaiseTypes DEF Finish, Interrupts
    <3>2. CASE ~dma.cmd.IRQ
      BY <2>1, <3>2 DEF Finish, DeviceTypeOK
    <3> QED
      BY <3>1, <3>2
  <2>5. /\ M \in Nat /\ DMA_BASE \in Nat /\ DMA_SIZE \in Nat /\ DMA_BASE + DMA_SIZE < M
    BY DeviceAssumption
  <2>6. /\ dma \in Registers
        /\ dma.src \in Addr /\ dma.dst \in Addr /\ dma.cnt \in Addr
    BY DEF DeviceTypeOK, Registers
  <2>7. /\ dma.src \in 0 .. M - 1 /\ dma.dst \in 0 .. M - 1 /\ dma.cnt \in 0 .. M - 1
    BY <2>6 DEF Addr
  <2>8. dma_buf' \in [0 .. DMA_SIZE - 1 -> Data] /\ mem' \in [Bus -> Data]
    <3>1. CASE dma.cmd.DIR = FROM_PCI
      <4> DEFINE first == dma.src - DMA_BASE
      <4>1. /\ mem' = Copy(mem, dma.dst, dma_buf, first, dma.cnt)
            /\ dma_buf' = dma_buf
        BY <2>1, <2>6, <3>1, ClampIsIdentity DEF Transfer
      <4>2. DMA_BASE <= dma.src /\ dma.src + dma.cnt <= DMA_BASE + DMA_SIZE
        BY <1>4, <2>6, <3>1, CheckIsSound
      <4>3. \A k \in 0 .. dma.cnt - 1 : first + k \in 0 .. DMA_SIZE - 1
        BY <4>2, <2>5, <2>7
      <4>4. mem \in [Bus -> Data] /\ dma_buf \in [0 .. DMA_SIZE - 1 -> Data] /\ Bus \subseteq Int
        BY <2>5 DEF DeviceTypeOK, Bus
      <4>5. dma.dst \in Int /\ first \in Int /\ dma.cnt \in Int
        BY <2>5, <2>7
      <4> HIDE DEF first
      <4>6. mem' \in [Bus -> Data]
        BY <4>1, <4>3, <4>4, <4>5, CopyTypes
      <4> QED
        BY <4>1, <4>4, <4>6
    <3>2. CASE dma.cmd.DIR # FROM_PCI
      <4>1. /\ dma_buf' = Copy(dma_buf, dma.dst - DMA_BASE, mem, dma.src, dma.cnt)
            /\ mem' = mem
        BY <2>1, <2>6, <3>2, ClampIsIdentity DEF Transfer
      <4>3. \A k \in 0 .. dma.cnt - 1 : dma.src + k \in Bus
        BY <2>5, <2>7 DEF Bus
      <4>4. mem \in [Bus -> Data] /\ dma_buf \in [0 .. DMA_SIZE - 1 -> Data]
            /\ 0 .. DMA_SIZE - 1 \subseteq Int
        BY <2>5 DEF DeviceTypeOK
      <4>5. dma.src \in Int /\ dma.dst - DMA_BASE \in Int /\ dma.cnt \in Int
        BY <2>5, <2>7
      <4>6. dma_buf' \in [0 .. DMA_SIZE - 1 -> Data]
        BY <4>1, <4>3, <4>4, <4>5, CopyTypes
      <4> QED
        BY <4>1, <4>4, <4>6
    <3> QED
      BY <3>1, <3>2
  <2>9. DeviceTypeOK'
    BY <1>1, <2>1, <2>3, <2>4, <2>8 DEF DeviceTypeOK
  <2> QED
    BY <1>1, <1>4, <2>1, <2>2, <2>9
<1> QED
  BY <1>2, <1>3, <1>4

-----------------------------------------------------------------------------
(* Each step keeps the types. *)

\* A request of any caller.
LEMMA CallTypes ==
  ASSUME TypeOK, NEW p \in Procs, NEW dir \in {TO_PCI, FROM_PCI}, NEW r \in Request,
         Transmit(p, dir, r)
  PROVE  TypeOK'
<1>1. DeviceTypeOK'
  BY DEF TypeOK, Transmit, device, DeviceTypeOK
<1>2. CASE Accepted(r)
  <2>1. (r.dma_base + dma_addr) % M \in Addr
    BY <1>2, AcceptedIsLegal
  <2>2. [dir |-> dir, dma_base |-> (r.dma_base + dma_addr) % M,
         pci_base |-> r.pci_base, size |-> r.size, data |-> r.data] \in Job
    BY <2>1 DEF Job, Request
  <2> QED
    BY <1>1, <1>2, <2>2 DEF TypeOK, Transmit, Goto, Transmitting
<1>3. CASE ~Accepted(r)
  BY <1>1, <1>3 DEF TypeOK, Transmit
<1> QED
  BY <1>2, <1>3

\* Any step.
LEMMA TypeStep == TypeOK /\ [Next]_vars => TypeOK'
<1> SUFFICES ASSUME TypeOK, [Next]_vars PROVE TypeOK'
  OBVIOUS
<1> USE DEF TypeOK, Goto, Transmitting, Dumping
<1>0. /\ DeviceTypeOK
      /\ dma \in Registers /\ mem \in [Bus -> Data] /\ dma_finish \in BOOLEAN
  BY DEF DeviceTypeOK
<1>1. ASSUME NEW p \in Procs, NEW dir \in {TO_PCI, FROM_PCI}, NEW r \in Requests,
             Transmit(p, dir, r)
      PROVE  TypeOK'
  <2>1. r \in Request
    BY DriverAssumption DEF Request
  <2> QED
    BY <1>1, <2>1, CallTypes
<1>2. ASSUME NEW p \in Procs, Dump(p) PROVE TypeOK'
  <2>1. DeviceTypeOK'
    BY <1>2 DEF Dump, device, DeviceTypeOK
  <2>2. [dma_finish |-> FALSE, data |-> Empty] \in [dma_finish: BOOLEAN, data: Data]
    BY DeviceAssumption
  <2> QED
    BY <1>2, <2>1, <2>2 DEF Dump
<1>3. ASSUME NEW p \in Procs, Inside(p) PROVE TypeOK'
  <2>0. /\ req[p].size \in Addr /\ req[p].dma_base \in Addr /\ req[p].pci_base \in Addr
        /\ req[p].data \in Data /\ req[p].dir \in {TO_PCI, FROM_PCI}
    BY DEF Job
  <2>a. DMA_BASE \in Addr
    BY DeviceAssumption DEF Addr
  <2>b. NoRegisters \in Registers
    BY DeviceAssumption DEF NoRegisters, Registers, Command, TO_PCI, Addr
  <2>1. CASE WriteCnt(p)
    <3>1. DeviceTypeOK'
      BY <1>0, <2>0, <2>1, WriteRegTypes DEF WriteCnt
    <3> QED
      BY <2>1, <3>1 DEF WriteCnt
  <2>2. CASE CopyData(p)
    <3>1. DeviceTypeOK'
      BY <2>0, <2>2 DEF CopyData, DeviceTypeOK
    <3> QED
      BY <2>2, <3>1 DEF CopyData
  <2>3. CASE WriteSrc(p)
    <3>1. DeviceTypeOK'
      BY <1>0, <2>0, <2>3, WriteRegTypes DEF WriteSrc
    <3> QED
      BY <2>3, <3>1 DEF WriteSrc
  <2>4. CASE WriteDst(p)
    <3>1. DeviceTypeOK'
      BY <1>0, <2>0, <2>a, <2>4, WriteRegTypes DEF WriteDst
    <3> QED
      BY <2>4, <3>1 DEF WriteDst
  <2>5. CASE StartTransfer(p)
    <3>1. [RUN |-> TRUE, DIR |-> req[p].dir, IRQ |-> req[p].dir = FROM_PCI] \in Command
      BY <2>0 DEF Command
    <3>2. DeviceTypeOK'
      BY <1>0, <2>5, <3>1, WriteRunTypes DEF StartTransfer
    <3> QED
      BY <2>5, <3>2 DEF StartTransfer
  <2>6. CASE ReadRegisters(p)
    <3>1. DeviceTypeOK'
      BY <2>6 DEF ReadRegisters, ReadReg, device, DeviceTypeOK
    <3>2. loc' \in [Procs -> Registers]
      <4>1. loc[p] \in Registers
        OBVIOUS
      <4>2. /\ [loc[p] EXCEPT !["src"] = dma["src"]] \in Registers
            /\ [loc[p] EXCEPT !["dst"] = dma["dst"]] \in Registers
            /\ [loc[p] EXCEPT !["cnt"] = dma["cnt"]] \in Registers
            /\ [loc[p] EXCEPT !["cmd"] = dma["cmd"]] \in Registers
        BY <1>0, <4>1 DEF Registers
      <4>3. \A v \in Registers : [loc EXCEPT ![p] = v] \in [Procs -> Registers]
        OBVIOUS
      <4> QED
        BY <2>6, <4>2, <4>3 DEF ReadRegisters, ReadReg
    <3> QED
      BY <2>6, <3>1, <3>2 DEF ReadRegisters, ReadReg
  <2>7. CASE LoadFinish(p)
    <3>1. DeviceTypeOK'
      BY <2>7 DEF LoadFinish, device, DeviceTypeOK
    <3> QED
      BY <2>7, <3>1 DEF LoadFinish
  <2>8. CASE TestFinish(p)
    <3>1. DeviceTypeOK'
      BY <2>8 DEF TestFinish, device, DeviceTypeOK
    <3> QED
      BY <2>8, <2>b, <3>1 DEF TestFinish, Forget
  <2>9. CASE GiveData(p)
    <3>1. DeviceTypeOK'
      BY <2>9 DEF GiveData, device, DeviceTypeOK
    <3> DEFINE a == IF loc[p].cmd.DIR = TO_PCI THEN loc[p].src ELSE loc[p].dst
    <3>2. a \in Bus
      BY DeviceAssumption DEF Registers, Addr, Bus
    <3>3. (IF InBuffer(a) THEN {mem[a]} ELSE Data) \subseteq Data
      BY <1>0, <3>2
    <3> HIDE DEF a
    <3>4. PICK s \in Data : got' = [got EXCEPT ![p].data = s]
      BY <2>9, <3>3 DEF GiveData, a
    <3>5. got' \in [Procs -> [dma_finish: BOOLEAN, data: Data]]
      BY <3>4
    <3> QED
      BY <2>9, <3>1, <3>5 DEF GiveData
  <2>10. CASE ResetFinish(p)
    <3>1. DeviceTypeOK'
      BY <2>10 DEF ResetFinish, device, DeviceTypeOK
    <3> QED
      BY <2>10, <2>b, <3>1 DEF ResetFinish, Forget
  <2> QED
    BY <1>3, <2>1, <2>2, <2>3, <2>4, <2>5, <2>6, <2>7, <2>8, <2>9, <2>10 DEF Inside
<1>4. CASE Timer
  <2>1. DeviceTypeOK'
    BY <1>0, <1>4, TimerOutcomes DEF Timer
  <2> QED
    BY <1>4, <2>1 DEF Timer, driver
<1>5. CASE IrqHandler
  <2>1. DeviceTypeOK'
    BY <1>5 DEF IrqHandler, DeviceTypeOK
  <2> QED
    BY <1>5, <2>1 DEF IrqHandler
<1>6. CASE UNCHANGED vars
  BY <1>6 DEF vars, device, driver, DeviceTypeOK
<1> QED
  BY <1>1, <1>2, <1>3, <1>4, <1>5, <1>6 DEF Next

-----------------------------------------------------------------------------
(* Each step keeps the rest of the invariant. *)

\* What the invariant says of the device depends on dma, dma_timer, aborted
\* and mem alone; of a caller, on dma, pc and req.
LEMMA CallStep ==
  ASSUME Waits, IInv, NEW p \in Procs, NEW dir \in {TO_PCI, FROM_PCI}, NEW r \in Request,
         Transmit(p, dir, r)
  PROVE  RunHasTimer' /\ Alone' /\ Asking' /\ Written' /\ Running' /\ RestUntouched'
<1>1. /\ \A q \in Procs : pc[q] = "user"
      /\ ~dma.cmd.RUN
      /\ UNCHANGED <<dma, dma_timer, aborted, mem>>
  BY DEF Transmit, MayCall, device
<1>2. RunHasTimer' /\ Running' /\ RestUntouched'
  BY <1>1 DEF IInv, RunHasTimer, Running, RestUntouched, InRegisters
<1>3. CASE ~Accepted(r)
  <2>1. UNCHANGED <<req, pc>>
    BY <1>3 DEF Transmit
  <2> QED
    BY <1>1, <1>2, <2>1 DEF IInv, Alone, Asking, Written, Transmitting
<1>4. CASE Accepted(r)
  <2> DEFINE bus == (r.dma_base + dma_addr) % M
  <2>1. /\ bus \in Addr
        /\ DMA_BASE <= r.pci_base /\ r.pci_base + r.size <= DMA_BASE + DMA_SIZE
        /\ dma_addr <= bus /\ bus + r.size <= dma_addr + buffer_size
        /\ r.size > 0
    BY <1>4, AcceptedIsLegal
  <2>2. /\ req' = [req EXCEPT ![p] = [dir |-> dir, dma_base |-> bus,
                     pci_base |-> r.pci_base, size |-> r.size, data |-> r.data]]
        /\ pc' = [pc EXCEPT ![p] = "cnt"]
    BY <1>4 DEF Transmit, Goto
  <2> HIDE DEF bus
  <2>3. pc \in [Procs -> {"user"} \cup Transmitting \cup Dumping] /\ req \in [Procs -> Job]
    BY DEF IInv, TypeOK
  <2>4. pc'[p] = "cnt" /\ \A q \in Procs \ {p} : pc'[q] = "user"
    BY <1>1, <2>2, <2>3
  <2>5. /\ req'[p].dir = dir /\ req'[p].dma_base = bus
        /\ req'[p].pci_base = r.pci_base /\ req'[p].size = r.size
    BY <2>2, <2>3
  <2>6. Alone'
    BY <2>4 DEF Alone
  <2>7. Written'
    BY <2>4 DEF Written
  <2>8. r.pci_base \in Nat /\ r.size \in Nat /\ DMA_BASE \in Nat /\ DMA_SIZE \in Nat
    BY DeviceAssumption DEF Addr, Request
  <2>9. /\ LegalRange(IF dir = TO_PCI THEN DMA_BASE ELSE r.pci_base, bus, r.size)
        /\ LegalRange(r.pci_base, bus, r.size)
    BY <2>1, <2>8 DEF LegalRange
  <2>10. Asking'
    BY <1>1, <2>4, <2>5, <2>9 DEF Asking, AskedBy, CarriedBy, Transmitting
  <2> QED
    BY <1>2, <2>6, <2>7, <2>10
<1> QED
  BY <1>3, <1>4

\* The steps of transmit.
LEMMA TransmitStep ==
  ASSUME Waits, IInv, NEW p \in Procs,
         \/ WriteCnt(p) \/ CopyData(p) \/ WriteSrc(p) \/ WriteDst(p) \/ StartTransfer(p)
  PROVE  RunHasTimer' /\ Alone' /\ Asking' /\ Written' /\ Running' /\ RestUntouched'
<1>0. /\ DeviceTypeOK /\ dma \in Registers /\ dma_timer \in BOOLEAN /\ mem \in [Bus -> Data]
      /\ pc \in [Procs -> {"user"} \cup Transmitting \cup Dumping]
      /\ req \in [Procs -> Job]
      /\ req[p].size \in Addr /\ req[p].dma_base \in Addr /\ req[p].pci_base \in Addr
      /\ req[p].dir \in {TO_PCI, FROM_PCI}
      /\ DMA_BASE \in Addr /\ M \in Nat
  BY DeviceAssumption DEF IInv, TypeOK, DeviceTypeOK, Job, Addr
<1>1. pc[p] \in Transmitting
  BY DEF WriteCnt, CopyData, WriteSrc, WriteDst, StartTransfer, Transmitting
<1>2. \A q \in Procs \ {p} : pc[q] = "user"
  BY <1>1 DEF IInv, Alone, Transmitting
<1>3. /\ ~dma.cmd.RUN /\ LegalRange(AskedBy(p).pci_at, AskedBy(p).host_at, AskedBy(p).cnt)
      /\ LegalRange(CarriedBy(p).pci_at, CarriedBy(p).host_at, CarriedBy(p).cnt)
  BY <1>1 DEF IInv, Asking
<1>4. UNCHANGED req
  BY DEF WriteCnt, CopyData, WriteSrc, WriteDst, StartTransfer
<1>5. \A q \in Procs \ {p} : pc'[q] = "user"
  BY <1>0, <1>2 DEF WriteCnt, CopyData, WriteSrc, WriteDst, StartTransfer, Goto
<1>6. Alone'
  BY <1>5 DEF Alone
<1>7. CarriedBy(p)' = CarriedBy(p) /\ AskedBy(p)' = AskedBy(p)
  BY <1>4 DEF CarriedBy, AskedBy
<1>8. ASSUME dma.cmd = dma'.cmd, UNCHANGED <<dma_timer, aborted>>
      PROVE  RunHasTimer' /\ Asking' /\ Running'
  BY <1>3, <1>5, <1>7, <1>8 DEF RunHasTimer, IInv, Asking, Running, Transmitting
<1>9. CASE WriteCnt(p)
  <2>1. /\ dma'.cmd = dma.cmd /\ dma'.cnt = req[p].size
        /\ UNCHANGED <<dma_timer, mem, aborted>>
    BY <1>0, <1>3, <1>9, WriteRegTypes DEF WriteCnt
  <2>2. pc'[p] = IF req[p].dir = TO_PCI THEN "copy" ELSE "src"
    BY <1>0, <1>9 DEF WriteCnt, Goto
  <2>3. Written'
    BY <1>4, <1>5, <2>1, <2>2 DEF Written
  <2>4. RestUntouched'
    BY <2>1 DEF IInv, RestUntouched
  <2> QED
    BY <1>6, <1>8, <2>1, <2>3, <2>4
<1>10. CASE CopyData(p)
  <2>1. UNCHANGED <<dma, dma_timer, aborted>> /\ pc'[p] = "src" /\ pc[p] = "copy"
    BY <1>0, <1>10 DEF CopyData, Goto
  <2>2. Written'
    BY <1>4, <1>5, <2>1 DEF Written, IInv
  <2>3. InBuffer(dma_addr)
    BY DriverAssumption DEF InBuffer, within
  <2>4. RestUntouched'
    BY <1>0, <1>10, <2>3 DEF CopyData, RestUntouched, IInv
  <2> QED
    BY <1>6, <1>8, <2>1, <2>2, <2>4
<1>11. CASE WriteSrc(p)
  <2>1. /\ dma'.cmd = dma.cmd /\ dma'.src = SrcOf(p) /\ dma'.cnt = dma.cnt
        /\ UNCHANGED <<dma_timer, mem, aborted>>
    BY <1>0, <1>3, <1>11, WriteRegTypes DEF WriteSrc, SrcOf
  <2>2. pc'[p] = "dst" /\ pc[p] = "src"
    BY <1>0, <1>11 DEF WriteSrc, Goto
  <2>3. Written'
    BY <1>4, <1>5, <2>1, <2>2 DEF Written, IInv, SrcOf
  <2>4. RestUntouched'
    BY <2>1 DEF IInv, RestUntouched
  <2> QED
    BY <1>6, <1>8, <2>1, <2>3, <2>4
<1>12. CASE WriteDst(p)
  <2>1. /\ dma'.cmd = dma.cmd /\ dma'.dst = DstOf(p)
        /\ dma'.src = dma.src /\ dma'.cnt = dma.cnt
        /\ UNCHANGED <<dma_timer, mem, aborted>>
    BY <1>0, <1>3, <1>12, WriteRegTypes DEF WriteDst, DstOf
  <2>2. pc'[p] = "run" /\ pc[p] = "dst"
    BY <1>0, <1>12 DEF WriteDst, Goto
  <2>3. Written'
    BY <1>4, <1>5, <2>1, <2>2 DEF Written, IInv, SrcOf, DstOf
  <2>4. RestUntouched'
    BY <2>1 DEF IInv, RestUntouched
  <2> QED
    BY <1>6, <1>8, <2>1, <2>3, <2>4
<1>13. CASE StartTransfer(p)
  <2>1. /\ dma' = [dma EXCEPT !.cmd = [RUN |-> TRUE, DIR |-> req[p].dir,
                                       IRQ |-> req[p].dir = FROM_PCI]]
        /\ dma_timer' = TRUE
        /\ UNCHANGED <<mem, aborted>>
    BY <1>3, <1>13 DEF StartTransfer, WriteRun
  <2>2. pc'[p] = "user" /\ pc[p] = "run"
    BY <1>0, <1>13 DEF StartTransfer, Goto
  <2>3. /\ dma'.cmd.RUN /\ dma'.cmd.DIR = req[p].dir
        /\ dma'.src = dma.src /\ dma'.dst = dma.dst /\ dma'.cnt = dma.cnt
    BY <1>0, <2>1 DEF Registers
  <2>4. dma.cnt = req[p].size /\ dma.src = SrcOf(p) /\ dma.dst = DstOf(p)
    BY <2>2 DEF IInv, Written
  <2>5. Running'
    BY <1>3, <2>3, <2>4 DEF Running, InRegisters, CarriedBy, AskedBy, SrcOf, DstOf
  <2>6. RunHasTimer' /\ RestUntouched'
    BY <2>1, <2>3 DEF IInv, RunHasTimer, RestUntouched
  <2>7. Asking' /\ Written'
    BY <1>5, <2>2 DEF Asking, Written, Transmitting
  <2> QED
    BY <1>6, <2>5, <2>6, <2>7
<1> QED
  BY <1>9, <1>10, <1>11, <1>12, <1>13

\* The steps of dump: the device is only read.
LEMMA DumpStep ==
  ASSUME Waits, IInv, NEW p \in Procs,
         \/ Dump(p) \/ ReadRegisters(p) \/ LoadFinish(p) \/ TestFinish(p)
         \/ GiveData(p) \/ ResetFinish(p)
  PROVE  /\ UNCHANGED <<device, req>>
         /\ pc[p] \notin Transmitting /\ pc'[p] \notin Transmitting
         /\ \A q \in Procs \ {p} : pc[q] = "user" /\ pc'[q] = "user"
         /\ RunHasTimer' /\ Alone' /\ Asking' /\ Written' /\ Running' /\ RestUntouched'
<1>0. pc \in [Procs -> {"user"} \cup Transmitting \cup Dumping]
  BY DEF IInv, TypeOK
<1>1. UNCHANGED <<device, req>>
  BY DEF Dump, ReadRegisters, ReadReg, LoadFinish, TestFinish, GiveData, ResetFinish
<1>2. pc[p] \notin Transmitting /\ pc'[p] \notin Transmitting
  BY <1>0 DEF Dump, MayCall, ReadRegisters, ReadReg, LoadFinish, TestFinish, GiveData,
     ResetFinish, Goto, Transmitting
<1>3. \A q \in Procs \ {p} : pc[q] = "user"
  <2>1. CASE Dump(p)
    BY <2>1 DEF Dump, MayCall
  <2>2. CASE pc[p] # "user"
    BY <2>2 DEF IInv, Alone
  <2> QED
    BY <2>1, <2>2 DEF ReadRegisters, ReadReg, LoadFinish, TestFinish, GiveData, ResetFinish
<1>4. \A q \in Procs \ {p} : pc'[q] = pc[q]
  BY <1>0 DEF Dump, ReadRegisters, ReadReg, LoadFinish, TestFinish, GiveData,
     ResetFinish, Goto
<1>5. RunHasTimer' /\ Running' /\ RestUntouched'
  BY <1>1 DEF device, IInv, RunHasTimer, Running, InRegisters, RestUntouched
<1>6. Alone' /\ Asking' /\ Written'
  BY <1>2, <1>3, <1>4 DEF Alone, Asking, Written, Transmitting
<1> QED
  BY <1>1, <1>2, <1>3, <1>4, <1>5, <1>6

\* The timer: a legal transfer writes inside the buffer only.
LEMMA TimerStep ==
  ASSUME Waits, IInv, Timer
  PROVE  RunHasTimer' /\ Alone' /\ Asking' /\ Written' /\ Running' /\ RestUntouched'
<1>0. DeviceTypeOK /\ dma \in Registers /\ mem \in [Bus -> Data]
  BY DEF IInv, TypeOK, DeviceTypeOK
<1>1. UNCHANGED <<pc, req>> /\ ~aborted /\ TimerFires
  BY DEF Timer, driver
<1>2. /\ dma_timer /\ dma_timer' = FALSE
      /\ \/ UNCHANGED <<dma, dma_buf, mem, aborted>> /\ ~dma.cmd.RUN
         \/ UNCHANGED <<dma, dma_buf, mem>> /\ aborted'
         \/ /\ dma.cmd.RUN /\ InRange(dma)
            /\ dma' = [dma EXCEPT !.cmd.RUN = FALSE]
            /\ Transfer(dma)
            /\ UNCHANGED aborted
  BY <1>0, <1>1, TimerOutcomes
<1>3. dma.cmd.RUN = TRUE
  BY <1>1, <1>2 DEF IInv, RunHasTimer
<1>4. \A q \in Procs : pc[q] \notin Transmitting
  BY <1>3 DEF IInv, Asking
<1>5. Alone' /\ Asking' /\ Written'
  BY <1>1, <1>4 DEF IInv, Alone, Asking, Written, Transmitting
<1>6. CASE UNCHANGED <<dma, dma_buf, mem>> /\ aborted'
  BY <1>5, <1>6 DEF IInv, RunHasTimer, Running, InRegisters, RestUntouched
<1>7. CASE /\ dma' = [dma EXCEPT !.cmd.RUN = FALSE]
           /\ Transfer(dma)
  <2>1. dma'.cmd.RUN = FALSE
    BY <1>0, <1>7 DEF Registers, Command
  <2>2. RunHasTimer' /\ Running'
    BY <1>2, <2>1 DEF RunHasTimer, Running
  <2>3. RestUntouched'
    <3>1. CASE dma.cmd.DIR = FROM_PCI
      <4>1. dma.dst \in Addr
        BY <1>0 DEF Registers
      <4>2. mem' = Copy(mem, dma.dst, dma_buf, dma.src - DMA_BASE, dma.cnt)
        BY <1>7, <3>1, <4>1, ClampIsIdentity DEF Transfer
      <4>3. dma_addr <= dma.dst /\ dma.dst + dma.cnt <= dma_addr + buffer_size
        BY <1>3, <3>1 DEF IInv, Running, LegalRange, InRegisters, TO_PCI, FROM_PCI
      <4>4. \A a \in Bus : within(a, dma.dst, dma.dst + dma.cnt) => InBuffer(a)
        BY <1>0, <4>3, DeviceAssumption, DriverAssumption
           DEF within, InBuffer, Bus, Registers, Addr
      <4>5. \A a \in Bus : ~within(a, dma.dst, dma.dst + dma.cnt) => mem'[a] = mem[a]
        BY <1>0, <4>2 DEF Copy
      <4> QED
        BY <4>4, <4>5 DEF IInv, RestUntouched
    <3>2. CASE dma.cmd.DIR # FROM_PCI
      BY <1>7, <3>2 DEF Transfer, IInv, RestUntouched
    <3> QED
      BY <3>1, <3>2
  <2> QED
    BY <1>5, <2>2, <2>3
<1> QED
  BY <1>2, <1>3, <1>6, <1>7

\* Every step keeps the invariant.
LEMMA NextIInv == ASSUME Waits, IInv, [Next]_vars PROVE IInv'
<1>0. TypeOK'
  BY TypeStep DEF IInv
<1>1. ASSUME NEW p \in Procs, NEW dir \in {TO_PCI, FROM_PCI}, NEW r \in Requests,
             Transmit(p, dir, r)
      PROVE  IInv'
  <2>1. r \in Request
    BY DriverAssumption DEF Request
  <2> QED
    BY <1>0, <1>1, <2>1, CallStep DEF IInv
<1>2. ASSUME NEW p \in Procs, Dump(p) PROVE IInv'
  BY <1>0, <1>2, DumpStep DEF IInv
<1>3. ASSUME NEW p \in Procs, Inside(p) PROVE IInv'
  <2>1. CASE \/ WriteCnt(p) \/ CopyData(p) \/ WriteSrc(p) \/ WriteDst(p) \/ StartTransfer(p)
    BY <1>0, <2>1, TransmitStep DEF IInv
  <2>2. CASE \/ ReadRegisters(p) \/ LoadFinish(p) \/ TestFinish(p)
             \/ GiveData(p) \/ ResetFinish(p)
    BY <1>0, <2>2, DumpStep DEF IInv
  <2> QED
    BY <1>3, <2>1, <2>2 DEF Inside
<1>4. CASE Timer
  BY <1>0, <1>4, TimerStep DEF IInv
<1>5. CASE IrqHandler
  <2>1. UNCHANGED <<dma, dma_timer, mem, aborted, pc, req>>
    BY <1>5 DEF IrqHandler
  <2> QED
    BY <1>0, <2>1 DEF IInv, RunHasTimer, Alone, Asking, Written, Running, RestUntouched,
       AskedBy, CarriedBy, InRegisters, SrcOf, DstOf
<1>6. CASE UNCHANGED vars
  BY <1>0, <1>6 DEF vars, device, driver, IInv, RunHasTimer, Alone, Asking, Written,
     Running, RestUntouched, AskedBy, CarriedBy, InRegisters, SrcOf, DstOf
<1> QED
  BY <1>1, <1>2, <1>3, <1>4, <1>5, <1>6 DEF Next

-----------------------------------------------------------------------------
\* The registers of a running transfer are those of one accepted request, so
\* it is legal, for callers that wait (see IInv).
THEOREM Invariance == ASSUME Waits PROVE Spec => []IInv
  BY InitIInv, NextIInv, PTL DEF Spec

\* Types are kept whatever the callers do: a copy never leaves the device's
\* memory, because check_range holds even for a mixed descriptor.
THEOREM TypeCorrect == Spec => []TypeOK
<1>1. Init => TypeOK
  BY InitIInv DEF IInv
<1> QED
  BY <1>1, TypeStep, PTL DEF Spec

\* Callers that wait never make the device write outside the buffer
\* (transmit's checks and check_range).
THEOREM RestIsUntouched == ASSUME Waits PROVE Spec => []RestUntouched
<1>1. IInv => RestUntouched
  BY DEF IInv
<1> QED
  BY <1>1, Invariance, PTL

-----------------------------------------------------------------------------
(* Where the device gives up. *)

\* check_range refuses a legal range only if it ends with the memory.
LEMMA RefusedIsEdge ==
  ASSUME NEW pci_at \in Addr, NEW cnt \in Addr, NEW host_at, LegalRange(pci_at, host_at, cnt),
         ~check_range(pci_at, cnt, DMA_BASE, DMA_SIZE)
  PROVE  pci_at + cnt = DMA_BASE + DMA_SIZE
<1>1. /\ M \in Nat /\ DMA_BASE \in Nat /\ DMA_SIZE \in Nat /\ DMA_BASE + DMA_SIZE < M
      /\ pci_at \in Nat /\ cnt \in Nat
  BY DeviceAssumption DEF Addr
<1>2. DMA_BASE <= pci_at /\ pci_at + cnt <= DMA_BASE + DMA_SIZE /\ cnt > 0
  BY DEF LegalRange
<1>3. (pci_at + cnt) % M = pci_at + cnt /\ (DMA_BASE + DMA_SIZE) % M = DMA_BASE + DMA_SIZE
  <2>1. pci_at + cnt \in 0 .. M - 1 /\ DMA_BASE + DMA_SIZE \in 0 .. M - 1
    BY <1>1, <1>2
  <2>2. \A x \in 0 .. M - 1 : x % M = x
    BY <1>1
  <2> QED
    BY <2>1, <2>2
<1> QED
  BY <1>1, <1>2, <1>3 DEF check_range, within

\* For callers that wait, QEMU ends only for a transfer that reaches the end
\* of the device's memory (check_range, line 138 of the device).
THEOREM OnlyAtEdge == ASSUME Waits PROVE Spec => []AbortsOnlyAtEdge
<1>1. Init => AbortsOnlyAtEdge
  BY DEF Init, DeviceInit, AbortsOnlyAtEdge
<1>2. IInv /\ AbortsOnlyAtEdge /\ [Next]_vars => AbortsOnlyAtEdge'
  <2> SUFFICES ASSUME IInv, AbortsOnlyAtEdge, [Next]_vars PROVE AbortsOnlyAtEdge'
    OBVIOUS
  <2>1. CASE UNCHANGED vars
    BY <2>1 DEF vars, device, AbortsOnlyAtEdge, InRegisters
  <2>2. CASE Timer
    <3>1. /\ ~aborted /\ TimerFires
      BY <2>2 DEF Timer
    <3>2. CASE UNCHANGED aborted
      BY <3>1, <3>2 DEF AbortsOnlyAtEdge
    <3>3. CASE dma.cmd.RUN /\ ~InRange(dma) /\ UNCHANGED dma
      <4>1. LegalRange(InRegisters.pci_at, InRegisters.host_at, InRegisters.cnt)
        BY <3>3 DEF IInv, Running
      <4>2. dma.src \in Addr /\ dma.dst \in Addr /\ dma.cnt \in Addr
            /\ dma.cmd.DIR \in {TO_PCI, FROM_PCI}
        BY DEF IInv, TypeOK, DeviceTypeOK, Registers, Command
      <4>3. /\ InRegisters.cnt = dma.cnt
            /\ InRegisters.pci_at = IF dma.cmd.DIR = FROM_PCI THEN dma.src ELSE dma.dst
        BY <4>2 DEF InRegisters, TO_PCI, FROM_PCI
      <4>4. /\ InRegisters.pci_at \in Addr /\ InRegisters.cnt \in Addr
            /\ ~check_range(InRegisters.pci_at, InRegisters.cnt, DMA_BASE, DMA_SIZE)
        BY <3>3, <4>2, <4>3 DEF InRange
      <4>5. InRegisters.pci_at + InRegisters.cnt = DMA_BASE + DMA_SIZE
        BY <4>1, <4>4, RefusedIsEdge
      <4>6. InRegisters' = InRegisters
        BY <3>3 DEF InRegisters
      <4> QED
        BY <4>5, <4>6 DEF AbortsOnlyAtEdge
    <3> QED
      BY <3>1, <3>2, <3>3 DEF TimerFires
  <2>3. CASE ~Timer /\ Next
    <3>1. ~aborted /\ UNCHANGED aborted
      BY <2>3 DEF Next, Transmit, MayCall, Dump, Inside, WriteCnt, CopyData, WriteSrc,
           WriteDst, StartTransfer, WriteReg, WriteRun, ReadRegisters, ReadReg,
           LoadFinish, TestFinish, GiveData, ResetFinish, IrqHandler, device
    <3> QED
      BY <3>1 DEF AbortsOnlyAtEdge
  <2> QED
    BY <2>1, <2>2, <2>3
<1> QED
  BY <1>1, <1>2, Invariance, PTL DEF Spec

-----------------------------------------------------------------------------
(* The refinement. *)

AskedSet == {AskedBy(p) : p \in {q \in Procs : pc[q] \in Transmitting}}
RunningSet == IF dma.cmd.RUN THEN {InRegisters} ELSE {}

\* A legal range is a request of DmaTransfer.
LEMMA LegalIsRequest ==
  ASSUME NEW b \in BOOLEAN, NEW pci_at \in Addr, NEW host_at \in Addr, NEW cnt \in Addr,
         LegalRange(pci_at, host_at, cnt)
  PROVE  [to_pci |-> b, pci_at |-> pci_at, host_at |-> host_at, cnt |-> cnt] \in Abs!Request
  BY DeviceAssumption, DriverAssumption DEF LegalRange, Abs!Request, Addr

\* A step of transmit is one of Accept, Fill and Start, or changes nothing.
LEMMA RefineCall ==
  ASSUME Waits, IInv, NEW p \in Procs, NEW dir \in {TO_PCI, FROM_PCI}, NEW r \in Requests,
         Transmit(p, dir, r), IInv'
  PROVE  [Abs!Next]_(Abs!vars)
<1>1. /\ \A q \in Procs : pc[q] = "user"
      /\ ~dma.cmd.RUN
      /\ UNCHANGED <<dma, dma_buf, mem>>
  BY DEF Transmit, MayCall, device
<1>2. pc \in [Procs -> {"user"} \cup Transmitting \cup Dumping]
  BY DEF IInv, TypeOK
<1>3. RunningSet = {} /\ RunningSet' = {}
  BY <1>1 DEF RunningSet
<1>4. AskedSet = {}
  BY <1>1 DEF AskedSet, Transmitting
<1>5. CASE ~Accepted(r)
  <2>1. UNCHANGED <<req, pc>>
    BY <1>5 DEF Transmit
  <2>2. AskedSet' = AskedSet
    BY <2>1 DEF AskedSet, AskedBy
  <2> QED
    BY <1>1, <1>3, <2>2 DEF Abs!vars, AskedSet, RunningSet
<1>6. CASE Accepted(r)
  <2>1. pc'[p] = "cnt" /\ \A q \in Procs \ {p} : pc'[q] = "user"
    BY <1>1, <1>2, <1>6 DEF Transmit, Goto
  <2>2. AskedSet' = {AskedBy(p)'}
    BY <2>1 DEF AskedSet, Transmitting
  <2>3. LegalRange(AskedBy(p).pci_at, AskedBy(p).host_at, AskedBy(p).cnt)'
    BY <2>1 DEF IInv, Asking, Transmitting
  <2>4. req'[p] \in Job /\ DMA_BASE \in Addr
    BY DeviceAssumption DEF IInv, TypeOK, Addr
  <2>4a. /\ (req'[p].dir = TO_PCI) \in BOOLEAN
        /\ AskedBy(p)'.pci_at \in Addr /\ AskedBy(p)'.host_at \in Addr
        /\ AskedBy(p)'.cnt \in Addr
    BY <2>4 DEF Job, AskedBy
  <2>5. AskedBy(p)' \in Abs!Request
    BY <2>3, <2>4a, LegalIsRequest DEF AskedBy
  <2>6. PICK d : d = AskedBy(p)'
    OBVIOUS
  <2>7. d \in Abs!Request /\ Abs!Accept(d)
    BY <1>1, <1>3, <1>4, <2>2, <2>5, <2>6 DEF Abs!Accept, AskedSet, RunningSet
  <2> QED
    BY <2>7 DEF Abs!Next
<1> QED
  BY <1>5, <1>6

LEMMA RefineTransmit ==
  ASSUME Waits, IInv, NEW p \in Procs,
         \/ WriteCnt(p) \/ CopyData(p) \/ WriteSrc(p) \/ WriteDst(p) \/ StartTransfer(p)
  PROVE  [Abs!Next]_(Abs!vars)
<1>0. /\ DeviceTypeOK /\ dma \in Registers /\ mem \in [Bus -> Data]
      /\ pc \in [Procs -> {"user"} \cup Transmitting \cup Dumping]
      /\ req[p] \in Job /\ DMA_BASE \in Addr
  BY DeviceAssumption DEF IInv, TypeOK, DeviceTypeOK, Addr
<1>1. pc[p] \in Transmitting
  BY DEF WriteCnt, CopyData, WriteSrc, WriteDst, StartTransfer, Transmitting
<1>2. \A q \in Procs \ {p} : pc[q] = "user"
  BY <1>1 DEF IInv, Alone, Transmitting
<1>3. ~dma.cmd.RUN
  BY <1>1 DEF IInv, Asking
<1>4. \A q \in Procs \ {p} : pc'[q] = "user"
  BY <1>0, <1>2 DEF WriteCnt, CopyData, WriteSrc, WriteDst, StartTransfer, Goto
<1>5. AskedBy(p)' = AskedBy(p)
  BY DEF WriteCnt, CopyData, WriteSrc, WriteDst, StartTransfer, AskedBy
<1>6. AskedSet = {AskedBy(p)} /\ RunningSet = {}
  BY <1>1, <1>2, <1>3 DEF AskedSet, RunningSet, Transmitting
<1>7. AskedSet' = IF pc'[p] \in Transmitting THEN {AskedBy(p)} ELSE {}
  BY <1>4, <1>5 DEF AskedSet, Transmitting
<1>8. CASE WriteCnt(p) \/ WriteSrc(p) \/ WriteDst(p)
  <2>1. dma'.cmd = dma.cmd /\ UNCHANGED <<dma_buf, mem>>
    BY <1>0, <1>8, WriteRegTypes DEF WriteCnt, WriteSrc, WriteDst, Job
  <2>2. pc'[p] \in Transmitting
    BY <1>0, <1>8 DEF WriteCnt, WriteSrc, WriteDst, Goto, Transmitting
  <2>3. AskedSet' = AskedSet /\ RunningSet' = RunningSet
    BY <1>3, <1>6, <1>7, <2>1, <2>2 DEF RunningSet
  <2> QED
    BY <2>1, <2>3 DEF Abs!vars, AskedSet, RunningSet
<1>9. CASE CopyData(p)
  <2>1. /\ UNCHANGED <<dma, dma_buf>> /\ mem' = [mem EXCEPT ![dma_addr] = req[p].data]
        /\ pc'[p] = "src" /\ pc[p] = "copy"
    BY <1>0, <1>9 DEF CopyData, Goto
  <2>2. AskedBy(p).to_pci /\ req[p].data \in Data
    BY <1>0, <2>1 DEF IInv, Written, AskedBy, Job
  <2>3. AskedSet' = AskedSet /\ RunningSet' = RunningSet
    BY <1>6, <1>7, <2>1 DEF RunningSet, InRegisters, Transmitting
  <2>4. Abs!Fill
    BY <1>6, <2>1, <2>2, <2>3 DEF Abs!Fill, AskedSet, RunningSet
  <2> QED
    BY <2>4 DEF Abs!Next
<1>10. CASE StartTransfer(p)
  <2>1. /\ dma' = [dma EXCEPT !.cmd = [RUN |-> TRUE, DIR |-> req[p].dir,
                                       IRQ |-> req[p].dir = FROM_PCI]]
        /\ UNCHANGED <<mem, dma_buf>>
    BY <1>3, <1>10 DEF StartTransfer, WriteRun
  <2>2. pc'[p] = "user" /\ pc[p] = "run"
    BY <1>0, <1>10 DEF StartTransfer, Goto
  <2>3. /\ dma'.cmd.RUN /\ dma'.cmd.DIR = req[p].dir
        /\ dma'.src = dma.src /\ dma'.dst = dma.dst /\ dma'.cnt = dma.cnt
    BY <1>0, <2>1 DEF Registers
  <2>4. dma.cnt = req[p].size /\ dma.src = SrcOf(p) /\ dma.dst = DstOf(p)
    BY <2>2 DEF IInv, Written
  <2>5. InRegisters' = CarriedBy(p)
    BY <2>3, <2>4 DEF InRegisters, AskedBy, CarriedBy, SrcOf, DstOf
  <2>6. RunningSet' = {CarriedBy(p)} /\ AskedSet' = {}
    BY <1>7, <2>2, <2>3, <2>5 DEF RunningSet, Transmitting
  <2>7. PICK c : c = CarriedBy(p).pci_at
    OBVIOUS
  <2>8. CarriedBy(p) = [AskedBy(p) EXCEPT !.pci_at = c]
    BY <2>7 DEF CarriedBy, AskedBy
  <2>9. c \in Abs!Places(AskedBy(p))
    <3>1. LegalRange(c, req[p].dma_base, req[p].size)
      BY <1>1, <2>7 DEF IInv, Asking, CarriedBy, AskedBy
    <3>2. c \in Nat /\ req[p].size \in Nat /\ DMA_BASE \in Nat /\ DMA_SIZE \in Nat
      BY <1>0, <2>7, DeviceAssumption DEF CarriedBy, AskedBy, Job, Addr
    <3>3. c \in DMA_BASE .. DMA_BASE + DMA_SIZE - req[p].size
      BY <3>1, <3>2 DEF LegalRange
    <3>4. c = IF req[p].dir = TO_PCI THEN DMA_BASE ELSE req[p].pci_base
      BY <2>7 DEF CarriedBy, AskedBy
    <3> QED
      BY <3>3, <3>4 DEF Abs!Places, AskedBy
  <2>10. Abs!Start
    BY <1>6, <2>1, <2>6, <2>8, <2>9 DEF Abs!Start, AskedSet, RunningSet
  <2> QED
    BY <2>10 DEF Abs!Next
<1> QED
  BY <1>8, <1>9, <1>10

\* An expiry of the timer completes the running request, or changes nothing
\* that DmaTransfer speaks of.
LEMMA RefineTimer ==
  ASSUME Waits, IInv, Timer
  PROVE  [Abs!Next]_(Abs!vars)
<1>0. /\ DeviceTypeOK /\ dma \in Registers /\ mem \in [Bus -> Data]
      /\ dma_buf \in [0 .. DMA_SIZE - 1 -> Data]
      /\ dma.src \in Addr /\ dma.dst \in Addr /\ dma.cnt \in Addr
  BY DEF IInv, TypeOK, DeviceTypeOK, Registers
<1>1. UNCHANGED <<pc, req>> /\ TimerFires
  BY DEF Timer, driver
<1>2. \/ UNCHANGED <<dma, dma_buf, mem>>
      \/ /\ dma.cmd.RUN
         /\ dma' = [dma EXCEPT !.cmd.RUN = FALSE]
         /\ Transfer(dma)
  BY <1>0, <1>1, TimerOutcomes
<1>3. AskedSet' = AskedSet
  BY <1>1 DEF AskedSet, AskedBy
<1>4. CASE UNCHANGED <<dma, dma_buf, mem>>
  <2>1. RunningSet' = RunningSet
    BY <1>4 DEF RunningSet, InRegisters
  <2> QED
    BY <1>3, <1>4, <2>1 DEF Abs!vars, AskedSet, RunningSet
<1>5. CASE /\ dma.cmd.RUN
           /\ dma' = [dma EXCEPT !.cmd.RUN = FALSE]
           /\ Transfer(dma)
  <2>1. RunningSet = {InRegisters} /\ RunningSet' = {}
    BY <1>0, <1>5 DEF RunningSet, Registers, Command
  <2>2. M \in Nat /\ DMA_BASE \in Nat /\ DMA_SIZE \in Nat
    BY DeviceAssumption
  <2>3. dma.src \in Nat /\ dma.dst \in Nat /\ dma.cnt \in Nat
    BY <1>0, <2>2 DEF Addr
  <2>4. Abs!Complete(InRegisters)
    <3>1. CASE dma.cmd.DIR = FROM_PCI
      <4>1. /\ mem' = Copy(mem, dma.dst, dma_buf, dma.src - DMA_BASE, dma.cnt)
            /\ dma_buf' = dma_buf
        BY <1>0, <1>5, <3>1, ClampIsIdentity DEF Transfer
      <4>2. /\ ~InRegisters.to_pci /\ InRegisters.pci_at = dma.src
            /\ InRegisters.host_at = dma.dst /\ InRegisters.cnt = dma.cnt
        <5>1. FROM_PCI # TO_PCI
          BY DEF TO_PCI, FROM_PCI
        <5> QED
          BY <3>1, <5>1 DEF InRegisters
      <4>3. \A a \in Bus : within(a, dma.dst, dma.dst + dma.cnt)
                             <=> a - dma.dst \in 0 .. dma.cnt - 1
        BY <2>2, <2>3 DEF within, Bus
      <4>4. mem' = [a \in Bus |-> LET i == a - dma.dst
                                  IN  IF i \in 0 .. dma.cnt - 1
                                        THEN dma_buf[(dma.src - DMA_BASE) + i] ELSE mem[a]]
        BY <1>0, <4>1, <4>3 DEF Copy
      <4> QED
        BY <1>3, <2>1, <4>1, <4>2, <4>4 DEF Abs!Complete, AskedSet, RunningSet
    <3>2. CASE dma.cmd.DIR # FROM_PCI
      <4>1. /\ dma_buf' = Copy(dma_buf, dma.dst - DMA_BASE, mem, dma.src, dma.cnt)
            /\ mem' = mem
        BY <1>0, <1>5, <3>2, ClampIsIdentity DEF Transfer
      <4>2. /\ InRegisters.to_pci /\ InRegisters.pci_at = dma.dst
            /\ InRegisters.host_at = dma.src /\ InRegisters.cnt = dma.cnt
        BY <1>0, <3>2 DEF InRegisters, Registers, Command
      <4>3. \A c \in 0 .. DMA_SIZE - 1 :
              /\ within(c, dma.dst - DMA_BASE, (dma.dst - DMA_BASE) + dma.cnt)
                   <=> (DMA_BASE + c) - dma.dst \in 0 .. dma.cnt - 1
              /\ c - (dma.dst - DMA_BASE) = (DMA_BASE + c) - dma.dst
        BY <2>2, <2>3 DEF within
      <4>4. dma_buf' = [c \in 0 .. DMA_SIZE - 1 |->
                          LET i == (DMA_BASE + c) - dma.dst
                          IN  IF i \in 0 .. dma.cnt - 1
                                THEN mem[dma.src + i] ELSE dma_buf[c]]
        BY <1>0, <4>1, <4>3 DEF Copy
      <4> QED
        BY <1>3, <2>1, <4>1, <4>2, <4>4 DEF Abs!Complete, AskedSet, RunningSet
    <3> QED
      BY <3>1, <3>2
  <2> QED
    BY <2>1, <2>4 DEF Abs!Next, RunningSet
<1> QED
  BY <1>2, <1>4, <1>5

\* Every step is a step of DmaTransfer or changes nothing of it.
LEMMA RefineNext ==
  ASSUME Waits, IInv, [Next]_vars
  PROVE  [Abs!Next]_(Abs!vars)
<1>1. ASSUME NEW p \in Procs, NEW dir \in {TO_PCI, FROM_PCI}, NEW r \in Requests,
             Transmit(p, dir, r)
      PROVE  [Abs!Next]_(Abs!vars)
  BY <1>1, NextIInv, RefineCall
<1>2. ASSUME NEW p \in Procs,
             \/ Dump(p) \/ ReadRegisters(p) \/ LoadFinish(p) \/ TestFinish(p)
             \/ GiveData(p) \/ ResetFinish(p)
      PROVE  [Abs!Next]_(Abs!vars)
  <2>1. /\ UNCHANGED <<device, req>>
        /\ pc[p] \notin Transmitting /\ pc'[p] \notin Transmitting
        /\ \A q \in Procs \ {p} : pc[q] = "user" /\ pc'[q] = "user"
    BY <1>2, DumpStep
  <2>2. AskedSet' = AskedSet
    BY <2>1 DEF AskedSet, Transmitting
  <2>3. RunningSet' = RunningSet /\ UNCHANGED <<dma_buf, mem>>
    BY <2>1 DEF device, RunningSet, InRegisters
  <2> QED
    BY <2>2, <2>3 DEF Abs!vars, AskedSet, RunningSet
<1>3. ASSUME NEW p \in Procs, Inside(p) PROVE [Abs!Next]_(Abs!vars)
  BY <1>2, <1>3, RefineTransmit DEF Inside
<1>4. CASE Timer
  BY <1>4, RefineTimer
<1>5. CASE IrqHandler \/ UNCHANGED vars
  <2>1. UNCHANGED <<dma, dma_buf, mem, pc, req>>
    BY <1>5 DEF IrqHandler, vars, device, driver
  <2>2. AskedSet' = AskedSet /\ RunningSet' = RunningSet
    BY <2>1 DEF AskedSet, AskedBy, RunningSet, InRegisters
  <2> QED
    BY <2>1, <2>2 DEF Abs!vars, AskedSet, RunningSet
<1> QED
  BY <1>1, <1>2, <1>3, <1>4, <1>5 DEF Next

\* For callers that wait, each accepted request is started unmixed, where it was
\* asked for unless it sends to another place than the base of the device's memory
\* (see Places), and moves exactly its own cells (transmit, dma_rw and dma_timer
\* together).
THEOREM Refinement == ASSUME Waits PROVE Spec => ImplementsDmaTransfer
<1>1. Init => Abs!Init
  <2> SUFFICES ASSUME Init PROVE Abs!Init
    OBVIOUS
  <2>1. AskedSet = {} /\ RunningSet = {}
    BY DEF Init, DeviceInit, AskedSet, RunningSet, Transmitting
  <2>2. dma_buf \in [0 .. DMA_SIZE - 1 -> Data] /\ mem \in [Bus -> Data]
    BY InitIInv DEF IInv, TypeOK, DeviceTypeOK
  <2> QED
    BY <2>1, <2>2 DEF Abs!Init, AskedSet, RunningSet
<1>2. IInv /\ [Next]_vars => [Abs!Next]_(Abs!vars)
  BY RefineNext
<1> QED
  BY <1>1, <1>2, Invariance, PTL DEF Spec, ImplementsDmaTransfer, Abs!Spec

-----------------------------------------------------------------------------
(* What the device guarantees whatever the callers do. *)

\* A transfer's descriptor is frozen while it runs: the early return of
\* dma_rw, for any number of callers that do not wait.
THEOREM Frozen == Spec => DescriptorFrozen
<1> DEFINE Same == dma' \in {dma, [dma EXCEPT !.cmd.RUN = FALSE]}
<1>1. ASSUME TypeOK, dma.cmd.RUN, [Next]_vars PROVE Same
  <2>1. ASSUME NEW p \in Procs, Inside(p) PROVE Same
    <3>1. CASE WriteCnt(p) \/ WriteSrc(p) \/ WriteDst(p)
      BY <1>1, <3>1 DEF WriteCnt, WriteSrc, WriteDst, WriteReg
    <3>2. CASE StartTransfer(p)
      BY <1>1, <3>2 DEF StartTransfer, WriteRun
    <3>3. CASE \/ CopyData(p) \/ ReadRegisters(p) \/ LoadFinish(p) \/ TestFinish(p)
               \/ GiveData(p) \/ ResetFinish(p)
      BY <3>3 DEF CopyData, ReadRegisters, ReadReg, LoadFinish, TestFinish, GiveData,
         ResetFinish, device
    <3> QED
      BY <2>1, <3>1, <3>2, <3>3 DEF Inside
  <2>2. CASE Timer
    <3>1. DeviceTypeOK /\ TimerFires
      BY <1>1, <2>2 DEF TypeOK, Timer
    <3> QED
      BY <3>1, TimerOutcomes
  <2>3. ASSUME NEW p \in Procs, NEW dir \in {TO_PCI, FROM_PCI}, NEW r \in Requests,
               Transmit(p, dir, r)
        PROVE  Same
    BY <2>3 DEF Transmit, device
  <2>4. ASSUME NEW p \in Procs, Dump(p) PROVE Same
    BY <2>4 DEF Dump, device
  <2>5. CASE IrqHandler \/ UNCHANGED vars
    BY <2>5 DEF IrqHandler, vars, device
  <2> QED
    BY <1>1, <2>1, <2>2, <2>3, <2>4, <2>5 DEF Next
<1>2. TypeOK /\ [Next]_vars => [dma.cmd.RUN => Same]_device
  BY <1>1
<1> QED
  BY <1>2, TypeCorrect, PTL DEF Spec, DescriptorFrozen
-----------------------------------------------------------------------------
(***************************************************************************)
(* The repository's DMA program, for every size of the device's memory and *)
(* of the buffer, every message and both builds of dump: for a program     *)
(* that waits, the driver's flag, the registers and the buffer fit         *)
(* together in every interleaving with the timer and the interrupt.  IInv  *)
(* says that transfers are legal; MainInv says which transfer is under way *)
(* where main() is.                                                        *)
(***************************************************************************)

\* The requests the driver may have accepted last.
NoJob == [dir |-> FROM_PCI, dma_base |-> 0, pci_base |-> 0, size |-> 0, data |-> Empty]
SendJob(s) == [dir |-> TO_PCI, dma_base |-> dma_addr, pci_base |-> DMA_BASE,
               size |-> 1, data |-> s]
FetchJob == [dir |-> FROM_PCI, dma_base |-> dma_addr + 1, pci_base |-> DMA_BASE + FW_OFFSET,
             size |-> 1, data |-> Empty]
Jobs == {NoJob, FetchJob} \cup {SendJob(s) : s \in Messages}

\* Nothing of a transfer is still to come.
Quiet == dma.cmd.RUN = FALSE /\ msi = FALSE /\ dma_finish = FALSE

\* Where main() is, and what of its transfers may still be under way there.
Place ==
  /\ at \in {"start", "sent", "poll", "look", "end"}
  /\ at \in {"start", "end"} => pc[Main] = "user" /\ Quiet
  /\ at = "sent" =>
       /\ pc[Main] \in {"user"} \cup Transmitting /\ msi = FALSE /\ dma_finish = FALSE
       /\ pc[Main] \in Transmitting \/ dma.cmd.RUN => req[Main].dir = TO_PCI
  /\ at = "poll" =>
       /\ pc[Main] \in {"user"} \cup Transmitting
       /\ pc[Main] \in Transmitting => req[Main] = FetchJob /\ Quiet
  /\ at = "look" => pc[Main] \in {"user"} \cup Dumping
  /\ at \in {"poll", "look"} /\ ~Quiet => req[Main] = FetchJob

\* Outside of transmit the registers hold the last accepted request, and only a
\* transfer from the device asks for an interrupt.
Match ==
  /\ req[Main] \in Jobs
  /\ pc[Main] \notin Transmitting =>
       /\ dma.cnt = req[Main].size /\ dma.src = SrcOf(Main) /\ dma.dst = DstOf(Main)
       /\ req[Main].size = 0 \/ dma.cmd.DIR = req[Main].dir
       /\ dma.cmd.RUN => dma.cmd.IRQ = (req[Main].dir = FROM_PCI) /\ req[Main].size # 0

\* The string on its way: in the buffer, and then in the device's memory.
Sent ==
  req[Main].dir = TO_PCI =>
    /\ pc[Main] \in {"src", "dst", "run"} \/ dma.cmd.RUN => mem[dma_addr] = req[Main].data
    /\ pc[Main] \notin Transmitting /\ ~dma.cmd.RUN => dma_buf[0] = req[Main].data

\* The firmware stays where it is, and the interrupt of a transfer tells, once,
\* that the buffer has it.
Fetched ==
  /\ dma_buf[FW_OFFSET] = FW
  /\ msi \/ dma_finish => dma.cmd.RUN = FALSE /\ mem[dma_addr + 1] = FW
  /\ ~(msi /\ dma_finish)

\* A request that was accepted has its place in the buffer.
InFetch == req[Main] = FetchJob => InBuffer(dma_addr + 1)

\* What dump has read so far.
Dumped ==
  /\ pc[Main] \in {"read_cnt", "read_cmd", "finish", "test", "give"} =>
       loc[Main].dst = dma.dst
  /\ pc[Main] \in {"finish", "test", "give"} => loc[Main].cmd.DIR = dma.cmd.DIR
  /\ pc[Main] \in {"read_src", "read_dst", "read_cnt", "read_cmd", "finish"} =>
       got[Main].dma_finish = FALSE
  /\ pc[Main] = "test" /\ got[Main].dma_finish => dma_finish = TRUE
  /\ pc[Main] \in {"give", "reset"} => dma_finish = TRUE
  /\ pc[Main] = "reset" => got[Main].data = FW
  /\ at = "look" /\ pc[Main] = "user" /\ got[Main].dma_finish => got[Main].data = FW /\ Quiet

MainInv == Place /\ Match /\ Sent /\ Fetched /\ InFetch /\ Dumped /\ PrintsFirmware

-----------------------------------------------------------------------------
(* Sizes and types. *)

\* What the assumptions say of sizes and constants.
LEMMA Sizes ==
  /\ M \in Nat /\ DMA_BASE \in Nat /\ DMA_SIZE \in Nat \ {0} /\ DMA_BASE + DMA_SIZE < M
  /\ dma_addr \in Nat /\ buffer_size \in Nat \ {0} /\ dma_addr + buffer_size <= M
  /\ FW_OFFSET \in Nat /\ FW_OFFSET < DMA_SIZE /\ (DMA_SIZE > 1 => FW_OFFSET > 0)
  /\ dma_addr \in Bus /\ dma_addr + 1 \in Bus
  /\ Empty \in Data /\ FW \in Data /\ Messages \subseteq Data /\ Main \in Procs
<1>1. /\ M \in Nat /\ DMA_BASE \in Nat /\ DMA_SIZE \in Nat \ {0} /\ DMA_BASE + DMA_SIZE < M
      /\ dma_addr \in Nat /\ buffer_size \in Nat \ {0} /\ dma_addr + buffer_size <= M
      /\ Empty \in Data /\ FW \in Data /\ Messages \subseteq Data /\ Main \in Procs
  BY DeviceAssumption, DriverAssumption, MainAssumption
<1>2. FW_OFFSET \in Nat /\ FW_OFFSET < DMA_SIZE /\ (DMA_SIZE > 1 => FW_OFFSET > 0)
  BY <1>1 DEF FW_OFFSET
<1>3. dma_addr \in Bus /\ dma_addr + 1 \in Bus
  BY <1>1 DEF Bus
<1> QED
  BY <1>1, <1>2, <1>3

\* What main() asks for, and how the driver takes it.
LEMMA Asked ==
  /\ \A s \in Messages : ToPci(s) \in Request
  /\ FromPci \in Request
  /\ \A s \in Messages : (ToPci(s).dma_base + dma_addr) % M = dma_addr
  /\ Accepted(FromPci) => (FromPci.dma_base + dma_addr) % M = dma_addr + 1
<1>1. 0 \in Addr /\ 1 \in Addr /\ DMA_BASE \in Addr /\ DMA_BASE + FW_OFFSET \in Addr
  BY Sizes DEF Addr
<1>2. \A s \in Messages : ToPci(s) \in Request
  BY <1>1, Sizes DEF ToPci, Request
<1>3. FromPci \in Request
  BY <1>1, Sizes DEF FromPci, Request
<1>4. \A s \in Messages : (ToPci(s).dma_base + dma_addr) % M = dma_addr
  <2>1. dma_addr % M = dma_addr /\ 0 + dma_addr = dma_addr
    BY Sizes
  <2> QED
    BY <2>1 DEF ToPci
<1>5. ASSUME Accepted(FromPci) PROVE (FromPci.dma_base + dma_addr) % M = dma_addr + 1
  <2> DEFINE bus == (FromPci.dma_base + dma_addr) % M
  <2>1. dma_addr <= bus /\ bus + FromPci.size <= dma_addr + buffer_size
    BY <1>3, <1>5, AcceptedIsLegal
  <2>2. bus = (1 + dma_addr) % M
    BY DEF FromPci
  <2>3. CASE 1 + dma_addr < M
    BY <2>2, <2>3, Sizes
  <2>4. CASE 1 + dma_addr = M
    <3>1. bus = 0
      BY <2>2, <2>4, Sizes
    <3> QED
      BY <2>1, <2>4, <3>1, Sizes
  <2> QED
    BY <2>3, <2>4, Sizes
<1> QED
  BY <1>2, <1>3, <1>4, <1>5

\* The device takes a transfer to its first cell only if it has another.
LEMMA OneCell == check_range(DMA_BASE, 1, DMA_BASE, DMA_SIZE) => DMA_SIZE > 1
<1>1. DMA_BASE + 1 \in 0 .. M - 1 /\ DMA_BASE + DMA_SIZE \in 0 .. M - 1
  BY Sizes
<1>2. \A x \in 0 .. M - 1 : x % M = x
  BY Sizes
<1>3. (DMA_BASE + 1) % M = DMA_BASE + 1 /\ (DMA_BASE + DMA_SIZE) % M = DMA_BASE + DMA_SIZE
  BY <1>1, <1>2
<1> QED
  BY <1>3, Sizes DEF check_range, within

LEMMA MainTypes ==
  ASSUME IInv
  PROVE  /\ dma \in Registers /\ dma.cmd \in Command /\ dma.cmd.RUN \in BOOLEAN
         /\ msi \in BOOLEAN /\ dma_finish \in BOOLEAN
         /\ mem \in [Bus -> Data] /\ dma_buf \in [0 .. DMA_SIZE - 1 -> Data]
         /\ pc \in [Procs -> {"user"} \cup Transmitting \cup Dumping]
         /\ req \in [Procs -> Job] /\ loc \in [Procs -> Registers]
         /\ got \in [Procs -> [dma_finish: BOOLEAN, data: Data]]
  BY DEF IInv, TypeOK, DeviceTypeOK, Registers, Command

-----------------------------------------------------------------------------
LEMMA MainInitInv == MainInit => MainInv
<1> SUFFICES ASSUME MainInit PROVE MainInv
  OBVIOUS
<1> USE Sizes DEF MainInit, Init, DeviceInit
<1>1. pc[Main] = "user" /\ req[Main] = NoJob /\ got[Main].dma_finish = FALSE
  BY DEF NoJob
<1>2. Place
  BY <1>1 DEF Place, Quiet
<1>3. Match
  BY <1>1 DEF Match, Jobs, NoJob, SrcOf, DstOf, TO_PCI, FROM_PCI, Transmitting
<1>4. Sent
  BY <1>1 DEF Sent, NoJob, TO_PCI, FROM_PCI
<1>5. Fetched
  BY DEF Fetched
<1>6. Dumped /\ PrintsFirmware /\ InFetch
  <2>1. NoJob.size # FetchJob.size
    BY DEF NoJob, FetchJob
  <2> QED
    BY <1>1, <2>1 DEF Dumped, PrintsFirmware, InFetch
<1> QED
  BY <1>2, <1>3, <1>4, <1>5, <1>6 DEF MainInv

\* main() calls transmit: nothing is under way.
LEMMA MainCalls ==
  ASSUME Waits, IInv, MainInv, Send \/ Fetch
  PROVE  IInv' /\ MainInv'
<1> USE Sizes
<1>1. PICK dir \in {TO_PCI, FROM_PCI}, r \in Request :
        /\ Transmit(Main, dir, r)
        /\ \/ /\ at = "start" /\ at' = "sent" /\ dir = TO_PCI
              /\ \E s \in Messages : r = ToPci(s)
           \/ /\ at = "sent" /\ at' = "poll" /\ dir = FROM_PCI
              /\ r = FromPci
  BY Asked DEF Send, Fetch
<1>2. IInv'
  <2>1. TypeOK'
    BY <1>1, CallTypes DEF IInv
  <2> QED
    BY <1>1, <2>1, CallStep DEF IInv
<1>3. /\ UNCHANGED <<dma, msi, dma_buf, mem, loc, got, dma_finish, printed>>
      /\ dma.cmd.RUN = FALSE /\ pc[Main] = "user"
  BY <1>1, MainTypes DEF Transmit, MayCall, device, Send, Fetch
<1>4. Quiet /\ Quiet'
  BY <1>1, <1>3 DEF Quiet, MainInv, Place
<1>5. PrintsFirmware'
  BY <1>1 DEF PrintsFirmware
<1>6. Fetched'
  BY <1>3 DEF MainInv, Fetched
<1>7. CASE ~Accepted(r)
  <2>1. UNCHANGED <<req, pc>>
    BY <1>1, <1>7 DEF Transmit
  <2>2. Place'
    BY <1>1, <1>3, <1>4, <2>1 DEF Place, Quiet, Transmitting
  <2>3. Match' /\ Sent' /\ InFetch'
    BY <1>3, <2>1 DEF MainInv, Match, Sent, SrcOf, DstOf, InFetch
  <2>4. Dumped'
    BY <1>1, <1>3, <2>1 DEF Dumped
  <2> QED
    BY <1>2, <1>5, <1>6, <2>2, <2>3, <2>4 DEF MainInv
<1>8. CASE Accepted(r)
  <2>1. /\ req'[Main] = [dir |-> dir, dma_base |-> (r.dma_base + dma_addr) % M,
                         pci_base |-> r.pci_base, size |-> r.size, data |-> r.data]
        /\ pc'[Main] = "cnt"
    BY <1>1, <1>8, MainTypes DEF Transmit, Goto
  <2>2. \/ at' = "sent" /\ req'[Main].dir = TO_PCI /\ \E s \in Messages : req'[Main] = SendJob(s)
        \/ at' = "poll" /\ req'[Main] = FetchJob
    <3>1. ASSUME NEW s \in Messages, r = ToPci(s), dir = TO_PCI
          PROVE  req'[Main] = SendJob(s) /\ req'[Main].dir = TO_PCI
      BY <2>1, <3>1, Asked DEF ToPci, SendJob
    <3>2. ASSUME r = FromPci, dir = FROM_PCI PROVE req'[Main] = FetchJob
      BY <1>8, <2>1, <3>2, Asked DEF FromPci, FetchJob
    <3> QED
      BY <1>1, <3>1, <3>2
  <2>3. Place'
    BY <1>3, <1>4, <2>1, <2>2 DEF Place, Quiet, Transmitting
  <2>4. Match'
    BY <2>1, <2>2 DEF Match, Jobs, Transmitting
  <2>5. Sent'
    BY <1>3, <2>1 DEF Sent, Transmitting
  <2>6. Dumped'
    BY <2>1 DEF Dumped
  <2>7. InFetch'
    <3>1. ASSUME req'[Main] = FetchJob PROVE InBuffer(dma_addr + 1)
      <4>1. /\ dma_addr <= (r.dma_base + dma_addr) % M /\ r.size > 0 /\ r.size \in Nat
            /\ ((r.dma_base + dma_addr) % M) + r.size <= dma_addr + buffer_size
        BY <1>8, AcceptedIsLegal DEF Request, Addr
      <4>2. (r.dma_base + dma_addr) % M = dma_addr + 1
        BY <2>1, <3>1 DEF FetchJob
      <4> QED
        BY <4>1, <4>2 DEF InBuffer, within
    <3> QED
      BY <3>1 DEF InFetch
  <2> QED
    BY <1>2, <1>5, <1>6, <2>3, <2>4, <2>5, <2>6, <2>7 DEF MainInv
<1> QED
  BY <1>7, <1>8

\* The steps inside transmit.
LEMMA MainTransmits ==
  ASSUME IInv, MainInv, UNCHANGED <<at, printed>>,
         \/ WriteCnt(Main) \/ CopyData(Main) \/ WriteSrc(Main) \/ WriteDst(Main)
         \/ StartTransfer(Main)
  PROVE  MainInv'
<1> USE Sizes, MainTypes
<1>1. pc[Main] \in Transmitting
  BY DEF WriteCnt, CopyData, WriteSrc, WriteDst, StartTransfer, Transmitting
<1>2. /\ UNCHANGED <<msi, dma_buf, req, loc, got, dma_finish>>
      /\ \A a \in Bus : a # dma_addr => mem'[a] = mem[a]
  <2>1. CASE CopyData(Main)
    BY <2>1 DEF CopyData
  <2>2. CASE ~CopyData(Main)
    BY <2>2 DEF WriteCnt, WriteSrc, WriteDst, WriteReg, StartTransfer, WriteRun
  <2> QED
    BY <2>1, <2>2
<1>3. at \in {"sent", "poll"} /\ Quiet
  <2>1. dma.cmd.RUN = FALSE
    BY <1>1 DEF IInv, Asking
  <2> QED
    BY <1>1, <2>1 DEF MainInv, Place, Quiet, Transmitting, Dumping
<1>4. pc'[Main] \in {"user"} \cup Transmitting
  BY DEF WriteCnt, CopyData, WriteSrc, WriteDst, StartTransfer, Goto, Transmitting
<1>5. req[Main].dir = TO_PCI \/ req[Main] = FetchJob
  BY <1>1, <1>3 DEF MainInv, Place
<1>6. Fetched'
  BY <1>2, <1>3 DEF MainInv, Fetched, Quiet
<1>7. Dumped'
  BY <1>3, <1>4 DEF Dumped, Transmitting
<1>8. PrintsFirmware' /\ InFetch'
  BY <1>2 DEF MainInv, PrintsFirmware, InFetch
<1>9. CASE StartTransfer(Main)
  <2>1. pc[Main] = "run" /\ pc'[Main] = "user" /\ UNCHANGED mem
    BY <1>9 DEF StartTransfer, Goto, WriteRun
  <2>2. dma' = [dma EXCEPT !.cmd = [RUN |-> TRUE, DIR |-> req[Main].dir,
                                    IRQ |-> req[Main].dir = FROM_PCI]]
    BY <1>3, <1>9 DEF StartTransfer, WriteRun, Quiet
  <2>3. /\ dma'.cmd.RUN = TRUE /\ dma'.cmd.DIR = req[Main].dir
        /\ dma'.cmd.IRQ = (req[Main].dir = FROM_PCI)
        /\ dma'.src = dma.src /\ dma'.dst = dma.dst /\ dma'.cnt = dma.cnt
    BY <2>2 DEF Registers
  <2>4. dma.cnt = req[Main].size /\ dma.src = SrcOf(Main) /\ dma.dst = DstOf(Main)
    BY <2>1 DEF IInv, Written
  <2>5. req[Main].size # 0
    BY <1>1 DEF IInv, Asking, LegalRange, AskedBy, CarriedBy
  <2>6. Match'
    BY <1>2, <2>3, <2>4, <2>5 DEF MainInv, Match, SrcOf, DstOf
  <2>7. Sent'
    BY <1>2, <2>1, <2>3 DEF MainInv, Sent, Transmitting
  <2>8. Place'
    BY <1>1, <1>2, <1>3, <2>1 DEF MainInv, Place, Quiet, Transmitting
  <2> QED
    BY <1>6, <1>7, <1>8, <2>6, <2>7, <2>8 DEF MainInv
<1>10. CASE ~StartTransfer(Main)
  <2>1. pc'[Main] \in Transmitting
    BY <1>10 DEF WriteCnt, CopyData, WriteSrc, WriteDst, Goto, Transmitting
  <2>2. dma'.cmd = dma.cmd
    <3>1. CASE CopyData(Main)
      BY <3>1 DEF CopyData
    <3>2. CASE ~CopyData(Main)
      BY <1>10, <3>2, WriteRegTypes DEF WriteCnt, WriteSrc, WriteDst, WriteReg, Registers
    <3> QED
      BY <3>1, <3>2
  <2>3. Match'
    BY <1>2, <2>1 DEF MainInv, Match
  <2>4. Place'
    BY <1>1, <1>2, <1>3, <2>1, <2>2 DEF MainInv, Place, Quiet, Transmitting
  <2>5. Sent'
    <3>1. CASE CopyData(Main)
      <4>1. mem'[dma_addr] = req[Main].data
        BY <3>1 DEF CopyData
      <4> QED
        BY <1>2, <2>1, <4>1 DEF Sent
    <3>2. CASE WriteCnt(Main)
      <4>1. pc'[Main] \in {"copy", "src"} /\ (req[Main].dir = TO_PCI => pc'[Main] = "copy")
        BY <3>2 DEF WriteCnt, Goto
      <4> QED
        BY <1>2, <1>3, <2>1, <2>2, <4>1 DEF Sent, Quiet
    <3>3. CASE WriteSrc(Main) \/ WriteDst(Main)
      <4>1. UNCHANGED mem /\ pc[Main] \in {"src", "dst"}
        BY <3>3 DEF WriteSrc, WriteDst, WriteReg
      <4> QED
        BY <1>2, <2>1, <4>1 DEF MainInv, Sent
    <3> QED
      BY <1>10, <3>1, <3>2, <3>3
  <2> QED
    BY <1>6, <1>7, <1>8, <2>3, <2>4, <2>5 DEF MainInv
<1> QED
  BY <1>9, <1>10

\* What MainInv says of the device and of the last request does not change with
\* the steps of dump, but for the flag at the end.
LEMMA DumpLeaves ==
  ASSUME MainInv, UNCHANGED <<device, req, printed>>,
         pc[Main] \notin Transmitting, pc'[Main] \notin Transmitting,
         at' = "end" => at = "end"
  PROVE  /\ Match' /\ Sent' /\ InFetch' /\ PrintsFirmware'
         /\ UNCHANGED dma_finish => Fetched'
<1>1. UNCHANGED <<dma, msi, dma_buf, mem, req, printed>>
  BY DEF device
<1>2. Match'
  BY <1>1 DEF MainInv, Match, SrcOf, DstOf
<1>3. Sent'
  BY <1>1 DEF MainInv, Sent, Transmitting
<1>4. UNCHANGED dma_finish => Fetched'
  BY <1>1 DEF MainInv, Fetched
<1>5. PrintsFirmware' /\ InFetch'
  BY <1>1 DEF MainInv, PrintsFirmware, InFetch
<1> QED
  BY <1>2, <1>3, <1>4, <1>5

\* main() calls dump.
LEMMA MainPolls == ASSUME IInv, MainInv, Poll PROVE MainInv'
<1> USE Sizes, MainTypes
<1>1. /\ at = "poll" /\ at' = "look" /\ pc[Main] = "user" /\ pc'[Main] = "read_src"
      /\ UNCHANGED <<device, req, loc, dma_finish, printed>>
      /\ got'[Main].dma_finish = FALSE
  BY DEF Poll, Dump, MayCall, Goto
<1>2. Match' /\ Sent' /\ Fetched' /\ InFetch' /\ PrintsFirmware'
  BY <1>1, DumpLeaves DEF Transmitting
<1>3. Place'
  BY <1>1 DEF MainInv, Place, Quiet, device, Dumping
<1>4. Dumped'
  BY <1>1 DEF Dumped
<1> QED
  BY <1>2, <1>3, <1>4 DEF MainInv

\* The steps inside dump.
LEMMA MainDumps ==
  ASSUME IInv, MainInv, UNCHANGED <<at, printed>>,
         \/ ReadRegisters(Main) \/ LoadFinish(Main) \/ TestFinish(Main)
         \/ GiveData(Main) \/ ResetFinish(Main)
  PROVE  MainInv'
<1> USE Sizes, MainTypes
<1>1. /\ pc[Main] \in Dumping /\ pc'[Main] \in {"user"} \cup Dumping
      /\ UNCHANGED <<device, req>>
  BY DEF ReadRegisters, ReadReg, LoadFinish, TestFinish, GiveData, ResetFinish, Goto, Dumping
<1>2. /\ Match' /\ Sent' /\ InFetch' /\ PrintsFirmware'
      /\ UNCHANGED dma_finish => Fetched'
  <2>1. pc[Main] \notin Transmitting /\ pc'[Main] \notin Transmitting
    BY <1>1 DEF Transmitting, Dumping
  <2> QED
    BY <1>1, <2>1, DumpLeaves
<1>3. at = "look"
  BY <1>1 DEF MainInv, Place, Dumping, Transmitting
<1>4. UNCHANGED dma_finish => Place'
  BY <1>1, <1>3 DEF MainInv, Place, Quiet, device
<1>5. UNCHANGED dma
  BY <1>1 DEF device
<1>6. CASE ReadRegisters(Main)
  <2>1. UNCHANGED <<got, dma_finish>>
    BY <1>6 DEF ReadRegisters, ReadReg
  <2>2. \/ pc[Main] = "read_src" /\ pc'[Main] = "read_dst"
        \/ pc[Main] = "read_dst" /\ pc'[Main] = "read_cnt" /\ loc'[Main].dst = dma.dst
        \/ pc[Main] = "read_cnt" /\ pc'[Main] = "read_cmd" /\ loc'[Main].dst = loc[Main].dst
        \/ /\ pc[Main] = "read_cmd" /\ pc'[Main] = "finish"
           /\ loc'[Main].dst = loc[Main].dst /\ loc'[Main].cmd = dma.cmd
    BY <1>6 DEF ReadRegisters, ReadReg, Goto, Registers
  <2>3. Dumped'
    BY <1>5, <2>1, <2>2 DEF MainInv, Dumped
  <2> QED
    BY <1>2, <1>4, <2>1, <2>3 DEF MainInv
<1>7. CASE LoadFinish(Main)
  <2>1. /\ pc[Main] = "finish" /\ pc'[Main] = "test" /\ UNCHANGED <<loc, dma_finish>>
        /\ got'[Main].dma_finish = dma_finish
    BY <1>7 DEF LoadFinish, Goto
  <2>2. Dumped'
    BY <1>5, <2>1 DEF MainInv, Dumped
  <2> QED
    BY <1>2, <1>4, <2>1, <2>2 DEF MainInv
<1>8. CASE TestFinish(Main)
  <2>1. pc[Main] = "test" /\ UNCHANGED <<got, dma_finish>>
    BY <1>8 DEF TestFinish
  <2>2. \/ pc'[Main] = "give" /\ UNCHANGED loc /\ dma_finish = TRUE
        \/ pc'[Main] = "user" /\ got[Main].dma_finish = FALSE
    BY <1>8, <2>1 DEF TestFinish, Goto, MainInv, Dumped
  <2>3. Dumped'
    BY <1>5, <2>1, <2>2 DEF MainInv, Dumped
  <2> QED
    BY <1>2, <1>4, <2>1, <2>3 DEF MainInv
<1>9. CASE GiveData(Main)
  <2>1. /\ pc[Main] = "give" /\ pc'[Main] = "reset" /\ UNCHANGED <<loc, dma_finish>>
        /\ dma_finish = TRUE
    BY <1>9 DEF GiveData, Goto, MainInv, Dumped
  <2>2. req[Main] = FetchJob /\ mem[dma_addr + 1] = FW
    BY <1>3, <2>1 DEF MainInv, Place, Quiet, Fetched
  <2>3. /\ dma.dst = dma_addr + 1 /\ dma.cnt = 1 /\ dma.cmd.DIR = FROM_PCI
        /\ dma.src = DMA_BASE + FW_OFFSET
    BY <1>1, <2>1, <2>2 DEF MainInv, Match, FetchJob, SrcOf, DstOf, TO_PCI, FROM_PCI,
       Transmitting
  <2>4. loc[Main].dst = dma_addr + 1 /\ loc[Main].cmd.DIR = FROM_PCI
    BY <2>1, <2>3 DEF MainInv, Dumped
  <2>5. InBuffer(dma_addr + 1)
    BY <2>2 DEF MainInv, InFetch
  <2>6. got'[Main].data = FW
    BY <1>9, <2>2, <2>4, <2>5 DEF GiveData, TO_PCI, FROM_PCI
  <2>7. Dumped'
    BY <1>5, <2>1, <2>6 DEF MainInv, Dumped
  <2> QED
    BY <1>2, <1>4, <2>1, <2>7 DEF MainInv
<1>10. CASE ResetFinish(Main)
  <2>1. /\ pc[Main] = "reset" /\ pc'[Main] = "user" /\ UNCHANGED got
        /\ dma_finish' = FALSE /\ dma_finish = TRUE /\ got[Main].data = FW
    BY <1>10 DEF ResetFinish, Goto, MainInv, Dumped
  <2>2. UNCHANGED <<msi, dma, dma_buf, mem>> /\ msi = FALSE /\ dma.cmd.RUN = FALSE
    BY <1>1, <2>1 DEF device, MainInv, Fetched
  <2>3. Quiet'
    BY <2>1, <2>2 DEF Quiet
  <2>4. Fetched'
    BY <2>1, <2>2 DEF MainInv, Fetched
  <2>5. Place'
    BY <1>3, <2>1, <2>3 DEF Place, Quiet
  <2>6. Dumped'
    BY <2>1, <2>3 DEF Dumped, Quiet
  <2> QED
    BY <1>2, <2>4, <2>5, <2>6 DEF MainInv
<1> QED
  BY <1>6, <1>7, <1>8, <1>9, <1>10

-----------------------------------------------------------------------------
\* The timer: the transfer to the device leaves the firmware alone, and the one
\* from the device has moved it before the flag is set.
LEMMA MainTimer ==
  ASSUME Waits, IInv, MainInv, TimerSteps
  PROVE  MainInv'
<1> USE Sizes, MainTypes
<1>0. /\ UNCHANGED <<pc, req, loc, got, dma_finish, at, printed>>
      /\ TimerFires /\ ~aborted /\ DeviceTypeOK
  BY DEF TimerSteps, Timer, driver, IInv, TypeOK
<1>1. dma.cmd.RUN = TRUE
  BY <1>0 DEF IInv, RunHasTimer, TimerFires
<1>2. pc[Main] \notin Transmitting /\ ~Quiet
  BY <1>1 DEF IInv, Asking, Quiet
<1>3. PrintsFirmware' /\ InFetch'
  BY <1>0 DEF MainInv, PrintsFirmware, InFetch
<1>4. /\ dma.cnt = req[Main].size /\ dma.src = SrcOf(Main) /\ dma.dst = DstOf(Main)
      /\ dma.cmd.DIR = req[Main].dir
      /\ dma.cmd.IRQ = (req[Main].dir = FROM_PCI) /\ req[Main].size # 0
  BY <1>1, <1>2 DEF MainInv, Match
<1>5. msi = FALSE /\ dma_finish = FALSE
  BY <1>1 DEF MainInv, Fetched
<1>6. CASE ~InRange(dma)
  <2>1. UNCHANGED <<dma, msi, dma_buf, mem>>
    BY <1>0, <1>1, <1>6 DEF TimerFires
  <2> QED
    BY <1>0, <1>3, <2>1 DEF MainInv, Place, Match, Sent, Fetched, Dumped, Quiet, SrcOf, DstOf
<1>7. CASE InRange(dma)
  <2>1. /\ dma' = [dma EXCEPT !.cmd.RUN = FALSE] /\ Transfer(dma)
        /\ dma.cmd.IRQ => msi' \in BOOLEAN
        /\ ~dma.cmd.IRQ => msi' = msi
    BY <1>0, <1>1, <1>7 DEF TimerFires, Finish, raise_irq
  <2>2. /\ dma'.cmd.RUN = FALSE /\ dma'.cmd.DIR = dma.cmd.DIR /\ dma'.cmd.IRQ = dma.cmd.IRQ
        /\ dma'.src = dma.src /\ dma'.dst = dma.dst /\ dma'.cnt = dma.cnt
    BY <2>1 DEF Registers, Command
  <2>3. Match'
    BY <1>0, <1>4, <2>2 DEF MainInv, Match, SrcOf, DstOf
  <2>4. pc[Main] \notin {"give", "reset"} /\ ~(pc[Main] = "test" /\ got[Main].dma_finish)
    BY <1>5 DEF MainInv, Dumped
  <2>5. ~(at = "look" /\ pc[Main] = "user" /\ got[Main].dma_finish)
    BY <1>2 DEF MainInv, Dumped
  <2>6. Dumped'
    BY <1>0, <2>2, <2>4, <2>5 DEF MainInv, Dumped
  <2>7. at \notin {"start", "end"}
    BY <1>2 DEF MainInv, Place
  <2>8. CASE req[Main].dir = TO_PCI
    <3>1. PICK s \in Messages : req[Main] = SendJob(s)
      BY <1>4, <2>8 DEF MainInv, Match, Jobs, NoJob, FetchJob, TO_PCI, FROM_PCI
    <3>2. dma.src = dma_addr /\ dma.dst = DMA_BASE /\ dma.cnt = 1 /\ dma.cmd.DIR = TO_PCI
      BY <1>4, <2>8, <3>1 DEF SrcOf, DstOf, SendJob
    <3>3. DMA_SIZE > 1
      <4>1. check_range(DMA_BASE, 1, DMA_BASE, DMA_SIZE)
        BY <1>7, <3>2 DEF InRange, TO_PCI, FROM_PCI
      <4> QED
        BY <4>1, OneCell
    <3>5. clamp_addr(dma.src) = dma_addr
      BY <3>2, ClampIsIdentity DEF Registers
    <3>6. dma_buf' = Copy(dma_buf, DMA_BASE - DMA_BASE, mem, dma_addr, 1) /\ UNCHANGED mem
      BY <2>1, <3>2, <3>5 DEF Transfer, TO_PCI, FROM_PCI
    <3>7. dma_buf' = [c \in 0 .. DMA_SIZE - 1 |->
                        IF within(c, 0, 1) THEN mem[dma_addr + (c - 0)] ELSE dma_buf[c]]
      <4>1. DMA_BASE - DMA_BASE = 0 /\ 0 + 1 = 1
        OBVIOUS
      <4> QED
        BY <3>6, <4>1 DEF Copy
    <3>8. dma_buf'[0] = mem[dma_addr] /\ dma_buf'[FW_OFFSET] = dma_buf[FW_OFFSET]
      BY <3>3, <3>7 DEF within
    <3>9. Sent'
      BY <1>0, <1>1, <1>2, <2>2, <2>8, <3>8 DEF MainInv, Sent, Transmitting
    <3>10. msi' = FALSE
      BY <1>4, <1>5, <2>1, <2>8 DEF TO_PCI, FROM_PCI
    <3>11. Fetched'
      BY <1>0, <1>5, <3>8, <3>10 DEF MainInv, Fetched
    <3>12. Place'
      BY <1>0, <1>5, <2>2, <2>7, <3>10 DEF MainInv, Place, Quiet
    <3> QED
      BY <1>3, <2>3, <2>6, <3>9, <3>11, <3>12 DEF MainInv
  <2>9. CASE req[Main].dir # TO_PCI
    <3>1. req[Main] = FetchJob
      BY <1>4, <2>9 DEF MainInv, Match, Jobs, NoJob, SendJob
    <3>2. /\ dma.dst = dma_addr + 1 /\ dma.cnt = 1 /\ dma.cmd.DIR = FROM_PCI
          /\ dma.src = DMA_BASE + FW_OFFSET
      BY <1>4, <3>1 DEF FetchJob, SrcOf, DstOf, TO_PCI, FROM_PCI
    <3>3. clamp_addr(dma.dst) = dma_addr + 1
      BY <3>2, ClampIsIdentity DEF Registers
    <3>4. (DMA_BASE + FW_OFFSET) - DMA_BASE = FW_OFFSET
      OBVIOUS
    <3>5. mem' = Copy(mem, dma_addr + 1, dma_buf, FW_OFFSET, 1) /\ UNCHANGED dma_buf
      BY <2>1, <3>2, <3>3, <3>4 DEF Transfer
    <3>6. within(dma_addr + 1, dma_addr + 1, (dma_addr + 1) + 1)
      BY DEF within
    <3>7. mem'[dma_addr + 1] = dma_buf[FW_OFFSET + ((dma_addr + 1) - (dma_addr + 1))]
      BY <3>5, <3>6 DEF Copy
    <3>8. mem'[dma_addr + 1] = FW
      <4>1. FW_OFFSET + ((dma_addr + 1) - (dma_addr + 1)) = FW_OFFSET
        OBVIOUS
      <4> QED
        BY <3>7, <4>1 DEF MainInv, Fetched
    <3>9. Sent'
      BY <1>0, <2>9 DEF Sent
    <3>10. Fetched'
      BY <1>0, <1>5, <2>2, <3>5, <3>8 DEF MainInv, Fetched
    <3>11. at \in {"poll", "look"}
      BY <1>1, <2>7, <2>9 DEF MainInv, Place
    <3>12. Place'
      BY <1>0, <1>2, <3>1, <3>11 DEF MainInv, Place
    <3> QED
      BY <1>3, <2>3, <2>6, <3>9, <3>10, <3>12 DEF MainInv
  <2> QED
    BY <2>8, <2>9
<1> QED
  BY <1>6, <1>7

\* The interrupt handler sets the flag.
LEMMA MainIrq == ASSUME IInv, MainInv, IrqSteps PROVE MainInv'
<1> USE Sizes, MainTypes
<1>1. /\ UNCHANGED <<dma, dma_buf, mem, pc, req, loc, got, at, printed>>
      /\ msi = TRUE /\ msi' = FALSE /\ dma_finish' = TRUE
  BY DEF IrqSteps, IrqHandler
<1>2. ~Quiet
  BY <1>1 DEF Quiet
<1>3. at \in {"poll", "look"} /\ req[Main] = FetchJob /\ pc[Main] \notin Transmitting
  BY <1>1, <1>2 DEF MainInv, Place, Transmitting, Dumping
<1>4. Place'
  <2>1. /\ at = "poll" => pc[Main] \in {"user"} \cup Transmitting
        /\ at = "look" => pc[Main] \in {"user"} \cup Dumping
    BY DEF MainInv, Place
  <2> QED
    BY <1>1, <1>3, <2>1 DEF Place
<1>5. Match' /\ Sent' /\ PrintsFirmware' /\ InFetch'
  BY <1>1 DEF MainInv, Match, Sent, PrintsFirmware, InFetch, SrcOf, DstOf
<1>6. Fetched'
  BY <1>1 DEF MainInv, Fetched
<1>7. Dumped'
  BY <1>1, <1>2 DEF MainInv, Dumped
<1> QED
  BY <1>4, <1>5, <1>6, <1>7 DEF MainInv

\* main() looks at what dump gave it, and starts again.
LEMMA MainLooks == ASSUME IInv, MainInv, Look \/ StartAgain PROVE MainInv'
<1> USE MainTypes
<1>1. /\ UNCHANGED <<dma, msi, dma_buf, mem, pc, req, loc, got, dma_finish>>
      /\ pc[Main] = "user"
  BY DEF Look, Returned, StartAgain, vars, device, driver, MainInv, Place
<1>2. Match' /\ Sent' /\ Fetched' /\ InFetch'
  BY <1>1 DEF MainInv, Match, Sent, Fetched, InFetch, SrcOf, DstOf
<1>3. CASE Look
  <2>1. at = "look"
    BY <1>3 DEF Look
  <2>2. CASE got[Main].dma_finish
    <3>1. at' = "end" /\ printed' = FW /\ Quiet
      BY <1>1, <1>3, <2>1, <2>2 DEF Look, MainInv, Dumped
    <3>2. Place' /\ Dumped' /\ PrintsFirmware'
      BY <1>1, <3>1 DEF Place, Dumped, PrintsFirmware, Quiet
    <3> QED
      BY <1>2, <3>2 DEF MainInv
  <2>3. CASE ~got[Main].dma_finish
    <3>1. at' = "poll"
      BY <1>3, <2>3 DEF Look
    <3>2. Place' /\ Dumped' /\ PrintsFirmware'
      BY <1>1, <2>1, <3>1 DEF MainInv, Place, Dumped, PrintsFirmware, Quiet, Transmitting
    <3> QED
      BY <1>2, <3>2 DEF MainInv
  <2> QED
    BY <2>2, <2>3
<1>4. CASE StartAgain
  <2>1. at = "end" /\ at' = "start" /\ Quiet
    BY <1>4 DEF StartAgain, MainInv, Place
  <2>2. Place' /\ Dumped' /\ PrintsFirmware'
    BY <1>1, <2>1 DEF Place, Dumped, PrintsFirmware, Quiet
  <2> QED
    BY <1>2, <2>2 DEF MainInv
<1> QED
  BY <1>3, <1>4

\* Every step keeps both invariants.
LEMMA MainNextInv ==
  ASSUME Waits, IInv, MainInv, [MainNext]_mainVars
  PROVE  IInv' /\ MainInv'
<1>1. CASE Send \/ Fetch
  BY <1>1, MainCalls
<1>2. CASE ~(Send \/ Fetch)
  <2>1. [Next]_vars
    BY <1>2, Sizes DEF MainNext, mainVars, Poll, Look, StartAgain, DriverSteps, TimerSteps,
       IrqSteps, Next
  <2>2. IInv'
    BY <2>1, NextIInv
  <2>3. CASE Poll
    BY <2>2, <2>3, MainPolls
  <2>4. CASE Look \/ StartAgain
    BY <2>2, <2>4, MainLooks
  <2>5. CASE DriverSteps
    BY <2>2, <2>5, MainTransmits, MainDumps DEF DriverSteps, Inside
  <2>6. CASE TimerSteps
    BY <2>2, <2>6, MainTimer
  <2>7. CASE IrqSteps
    BY <2>2, <2>7, MainIrq
  <2>8. CASE UNCHANGED mainVars
    <3>1. UNCHANGED <<dma, msi, dma_buf, mem, pc, req, loc, got, dma_finish, at, printed>>
      BY <2>8 DEF mainVars, vars, device, driver
    <3> QED
      BY <2>2, <3>1 DEF MainInv, Place, Quiet, Match, Sent, Fetched, InFetch, Dumped,
         PrintsFirmware, SrcOf, DstOf
  <2> QED
    BY <1>2, <2>3, <2>4, <2>5, <2>6, <2>7, <2>8 DEF MainNext
<1> QED
  BY <1>1, <1>2

\* Where main() is tells which of its transfers may still be under way and what
\* the buffer, the registers and the flag then hold (see MainInv).
THEOREM MainInvariance == ASSUME Waits PROVE MainSpec => [](IInv /\ MainInv)
<1>1. MainInit => IInv /\ MainInv
  BY InitIInv, MainInitInv DEF MainInit
<1> QED
  BY <1>1, MainNextInv, PTL DEF MainSpec

\* The program that waits prints the firmware string and nothing else, in both
\* builds of dump, with and without MSI, in its first run and in later ones
\* (main.c lines 92 to 105, dump, irq_handler).
THEOREM PrintsTheFirmware == ASSUME Waits PROVE MainSpec => []PrintsFirmware
<1>1. MainInv => PrintsFirmware
  BY DEF MainInv
<1> QED
  BY <1>1, MainInvariance, PTL

\* Nobody but the program has called the driver.
Idle == \A p \in Procs : p = Main \/ (pc[p] = "user" /\ req[p].dir = FROM_PCI)

\* A step of the program, of the device or of the handler is none of another caller.
LEMMA MainMovesOnlyMain ==
  ASSUME IInv, [MainNext]_mainVars, NEW p \in Procs, p # Main
  PROVE  pc'[p] = pc[p] /\ req'[p] = req[p]
<1>0. pc \in [Procs -> {"user"} \cup Transmitting \cup Dumping] /\ req \in [Procs -> Job]
  BY MainTypes
<1>1. \A l : pc' = [pc EXCEPT ![Main] = l] => pc'[p] = pc[p]
  BY <1>0
<1>2. \A r : req' = [req EXCEPT ![Main] = r] => req'[p] = req[p]
  BY <1>0
<1>3. CASE Send \/ Fetch
  BY <1>1, <1>2, <1>3 DEF Send, Fetch, Transmit, Goto
<1>4. CASE Poll
  BY <1>1, <1>4 DEF Poll, Dump, Goto
<1>5. CASE DriverSteps
  BY <1>1, <1>5 DEF DriverSteps, Inside, WriteCnt, CopyData, WriteSrc, WriteDst, StartTransfer,
     ReadRegisters, ReadReg, LoadFinish, TestFinish, GiveData, ResetFinish, Goto
<1>6. CASE Look \/ StartAgain \/ TimerSteps \/ IrqSteps \/ UNCHANGED mainVars
  BY <1>6 DEF Look, StartAgain, TimerSteps, Timer, IrqSteps, IrqHandler, mainVars, vars, driver
<1> QED
  BY <1>3, <1>4, <1>5, <1>6 DEF MainNext

\* So the driver's state of other callers stays as init left it.
LEMMA OthersIdle == ASSUME Waits PROVE MainSpec => []Idle
<1>1. MainInit => Idle
  BY DEF MainInit, Init, Idle
<1>2. IInv /\ Idle /\ [MainNext]_mainVars => Idle'
  BY MainMovesOnlyMain DEF Idle
<1> QED
  BY <1>1, <1>2, MainInvariance, PTL DEF MainSpec

\* Its string has arrived when its transfer to the device is over (transmit lines
\* 108 to 115, the timer of the device).
THEOREM TheStringArrives == ASSUME Waits PROVE MainSpec => []StringArrives
<1>1. IInv /\ MainInv /\ Idle => StringArrives
  <2> SUFFICES ASSUME IInv, MainInv, pc[Main] = "user", req[Main].dir = TO_PCI,
                      ~dma.cmd.RUN
               PROVE  dma_buf[req[Main].pci_base - DMA_BASE] = req[Main].data
    BY DEF StringArrives, Idle, TO_PCI, FROM_PCI
  <2>1. dma_buf[0] = req[Main].data
    BY DEF MainInv, Sent, Transmitting
  <2>2. req[Main].pci_base = DMA_BASE
    BY DEF MainInv, Match, Jobs, NoJob, FetchJob, SendJob, TO_PCI, FROM_PCI
  <2>3. DMA_BASE - DMA_BASE = 0
    BY Sizes
  <2> QED
    BY <2>1, <2>2, <2>3
<1> QED
  BY <1>1, MainInvariance, OthersIdle, PTL

\* dump hands data out only when the transfer is over (dump line 158), although
\* the flag, the registers and the buffer are read in separate steps.
THEOREM FinishIsOver == ASSUME Waits PROVE MainSpec => []FinishMeansOver
<1>1. MainInv /\ Idle => FinishMeansOver
  BY DEF FinishMeansOver, MainInv, Dumped, Fetched, Idle
<1> QED
  BY <1>1, MainInvariance, OthersIdle, PTL
==============================================================================
