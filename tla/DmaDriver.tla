------------------------------ MODULE DmaDriver ------------------------------
(***************************************************************************)
(* The Linux driver of the DMA device, driving DmaDevice: the two ioctls   *)
(* that start a transfer (BiscuitOS_DMA_transmit), the one that asks for   *)
(* its result (BiscuitOS_DMA_dump) and the interrupt handler.              *)
(*                                                                         *)
(* The driver takes no lock.  Every access to a register and every access  *)
(* to bds that another party can see is a step of its own; the device's    *)
(* timer, the interrupt and the other callers come in between.             *)
(***************************************************************************)
EXTENDS DmaDevice

CONSTANTS Procs,        \* the callers
          Requests,     \* what they ask for: struct dma_desc_userspace
          dma_addr,     \* the bus address of the coherent buffer
          buffer_size,
          Waits         \* do callers wait for one another and for transfers?

(***************************************************************************)
(* Waits: TRUE stands for callers such as the repository's user program,   *)
(* that sleep longer than a transfer takes before they start the next.     *)
(* The driver does not enforce it.                                         *)
(***************************************************************************)
ASSUME DriverAssumption ==
  /\ dma_addr \in Nat /\ buffer_size \in Nat \ {0}
  /\ dma_addr + buffer_size <= M
  /\ Requests \subseteq [dma_base: Addr, pci_base: Addr, size: Addr, data: Data]
  /\ Waits \in BOOLEAN

VARIABLES pc,          \* where each caller is; "user" is outside the driver
          req,         \* its last accepted request, dma_base as a bus address
          loc,         \* what dump has read of the registers
          got,         \* what dump hands to it: dma_finish and data
          dma_finish   \* bds->dma_finish

driver == <<pc, req, loc, got, dma_finish>>
vars == <<device, driver>>

Job == [dir: {TO_PCI, FROM_PCI}, dma_base: Addr, pci_base: Addr, size: Addr, data: Data]

Transmitting == {"cnt", "copy", "src", "dst", "run"}
Dumping == {"read_src", "read_dst", "read_cnt", "read_cmd", "finish", "test", "give", "reset"}

TypeOK ==
  /\ DeviceTypeOK
  /\ pc \in [Procs -> {"user"} \cup Transmitting \cup Dumping]
  /\ req \in [Procs -> Job]
  /\ loc \in [Procs -> Registers]
  /\ got \in [Procs -> [dma_finish: BOOLEAN, data: Data]]
  /\ dma_finish \in BOOLEAN

NoRegisters == [src |-> 0, dst |-> 0, cnt |-> 0,
                cmd |-> [RUN |-> FALSE, DIR |-> TO_PCI, IRQ |-> FALSE]]

Init ==
  /\ DeviceInit
  /\ pc = [p \in Procs |-> "user"]
  /\ req = [p \in Procs |-> [dir |-> FROM_PCI, dma_base |-> 0, pci_base |-> 0,
                             size |-> 0, data |-> Empty]]
  /\ loc = [p \in Procs |-> NoRegisters]
  /\ got = [p \in Procs |-> [dma_finish |-> FALSE, data |-> Empty]]
  /\ dma_finish = FALSE

Goto(p, label) == pc' = [pc EXCEPT ![p] = label]

MayCall(p) ==
  /\ ~aborted /\ pc[p] = "user"
  /\ Waits => \A q \in Procs : pc[q] = "user"

-----------------------------------------------------------------------------
(* BiscuitOS_DMA_transmit *)

\* Mutant: within does not ask that the range end after it begins.
DriverWithinNoWrap(base0, size0, base1, size1) ==
  LET end0 == (base0 + size0) % M
      end1 == (base1 + size1) % M
  IN  base0 >= base1 /\ end0 <= end1

\* within of the driver, where 0 is TRUE.
driver_within(base0, size0, base1, size1) ==
  LET end0 == (base0 + size0) % M
      end1 == (base1 + size1) % M
  IN  base0 >= base1 /\ end0 <= end1 /\ base0 < end0

\* Mutant: the range in the device's memory is not checked.
AcceptedBufferOnly(r) ==
  driver_within((r.dma_base + dma_addr) % M, r.size, dma_addr, buffer_size)

\* Mutant: the range in the buffer is not checked.
AcceptedPciOnly(r) == driver_within(r.pci_base, r.size, DMA_BASE, DMA_SIZE)

\* The checks: the request lies in the device's memory and in the buffer.
Accepted(r) ==
  /\ driver_within(r.pci_base, r.size, DMA_BASE, DMA_SIZE)
  /\ driver_within((r.dma_base + dma_addr) % M, r.size, dma_addr, buffer_size)

\* A request that is not accepted returns -EINVAL and changes nothing.
Transmit(p, dir, r) ==
  /\ MayCall(p)
  /\ Waits => ~dma.cmd.RUN
  /\ IF Accepted(r)
       THEN /\ req' = [req EXCEPT ![p] =
                         [dir |-> dir, dma_base |-> (r.dma_base + dma_addr) % M,
                          pci_base |-> r.pci_base, size |-> r.size, data |-> r.data]]
            /\ Goto(p, "cnt")
       ELSE UNCHANGED <<req, pc>>
  /\ UNCHANGED <<device, loc, got, dma_finish>>

WriteCnt(p) ==
  /\ ~aborted /\ pc[p] = "cnt"
  /\ WriteReg("cnt", req[p].size)
  /\ Goto(p, IF req[p].dir = TO_PCI THEN "copy" ELSE "src")
  /\ UNCHANGED <<req, loc, got, dma_finish>>

\* Mutant: the string is not put into the buffer.
CopySkipped(p) ==
  /\ ~aborted /\ pc[p] = "copy"
  /\ Goto(p, "src")
  /\ UNCHANGED <<device, req, loc, got, dma_finish>>

\* sprintf(bds->buffer, "%s", data->data)
CopyData(p) ==
  /\ ~aborted /\ pc[p] = "copy"
  /\ mem' = [mem EXCEPT ![dma_addr] = req[p].data]
  /\ Goto(p, "src")
  /\ UNCHANGED <<dma, dma_timer, irq_status, irq_line, msi, dma_buf, aborted,
                 req, loc, got, dma_finish>>

WriteSrc(p) ==
  /\ ~aborted /\ pc[p] = "src"
  /\ WriteReg("src", IF req[p].dir = TO_PCI THEN req[p].dma_base ELSE req[p].pci_base)
  /\ Goto(p, "dst")
  /\ UNCHANGED <<req, loc, got, dma_finish>>

\* To the device, the destination is the base of its memory, not pci_base.
WriteDst(p) ==
  /\ ~aborted /\ pc[p] = "dst"
  /\ WriteReg("dst", IF req[p].dir = TO_PCI THEN DMA_BASE ELSE req[p].dma_base)
  /\ Goto(p, "run")
  /\ UNCHANGED <<req, loc, got, dma_finish>>

\* Only a transfer from the device asks for an interrupt.  The ioctl returns
\* 0 whether or not the device took the writes.
StartTransfer(p) ==
  /\ ~aborted /\ pc[p] = "run"
  /\ WriteRun([RUN |-> TRUE, DIR |-> req[p].dir, IRQ |-> req[p].dir = FROM_PCI])
  /\ Goto(p, "user")
  /\ UNCHANGED <<req, loc, got, dma_finish>>

-----------------------------------------------------------------------------
(* BiscuitOS_DMA_dump *)

Dump(p) ==
  /\ MayCall(p)
  /\ got' = [got EXCEPT ![p] = [dma_finish |-> FALSE, data |-> Empty]]
  /\ Goto(p, "read_src")
  /\ UNCHANGED <<device, req, loc, dma_finish>>

\* dump returns: its locals are gone.
Forget(p) == loc' = [loc EXCEPT ![p] = NoRegisters]

ReadReg(p, at, reg, next) ==
  /\ ~aborted /\ pc[p] = at
  /\ loc' = [loc EXCEPT ![p][reg] = dma[reg]]
  /\ Goto(p, next)
  /\ UNCHANGED <<device, req, got, dma_finish>>

ReadRegisters(p) ==
  \/ ReadReg(p, "read_src", "src", "read_dst")
  \/ ReadReg(p, "read_dst", "dst", "read_cnt")
  \/ ReadReg(p, "read_cnt", "cnt", "read_cmd")
  \/ ReadReg(p, "read_cmd", "cmd", "finish")

\* data->dma_finish = bds->dma_finish
LoadFinish(p) ==
  /\ ~aborted /\ pc[p] = "finish"
  /\ got' = [got EXCEPT ![p].dma_finish = dma_finish]
  /\ Goto(p, "test")
  /\ UNCHANGED <<device, req, loc, dma_finish>>

\* if (bds->dma_finish).  Lines 157 and 158 both read the flag, a plain int that
\* the interrupt handler writes: a build may load it again or use the first load.
TestFinish(p) ==
  /\ ~aborted /\ pc[p] = "test"
  /\ \E finish \in {dma_finish, got[p].dma_finish} :
       IF finish THEN Goto(p, "give") /\ UNCHANGED loc
                 ELSE Goto(p, "user") /\ Forget(p)
  /\ UNCHANGED <<device, req, got, dma_finish>>

InBuffer(a) == within(a, dma_addr, dma_addr + buffer_size)

\* Mutant: dump reads the beginning of the buffer.
GiveFromStart(p) ==
  /\ ~aborted /\ pc[p] = "give"
  /\ got' = [got EXCEPT ![p].data = mem[dma_addr]]
  /\ Goto(p, "reset")
  /\ UNCHANGED <<device, req, loc, dma_finish>>

\* sprintf(data->data, "%s", bds->buffer + offset): outside the buffer it
\* reads what happens to be there.
GiveData(p) ==
  LET a == IF loc[p].cmd.DIR = TO_PCI THEN loc[p].src ELSE loc[p].dst IN
  /\ ~aborted /\ pc[p] = "give"
  /\ \E s \in IF InBuffer(a) THEN {mem[a]} ELSE Data : got' = [got EXCEPT ![p].data = s]
  /\ Goto(p, "reset")
  /\ UNCHANGED <<device, req, loc, dma_finish>>

\* Mutant: dump does not clear dma_finish.
ResetSkipped(p) ==
  /\ ~aborted /\ pc[p] = "reset"
  /\ Goto(p, "user") /\ Forget(p)
  /\ UNCHANGED <<device, req, got, dma_finish>>

ResetFinish(p) ==
  /\ ~aborted /\ pc[p] = "reset"
  /\ dma_finish' = FALSE
  /\ Goto(p, "user") /\ Forget(p)
  /\ UNCHANGED <<device, req, got>>

-----------------------------------------------------------------------------
Timer == ~aborted /\ TimerFires /\ UNCHANGED driver

\* The message arrives and BiscuitOS_DMA_irq_handler runs.
IrqHandler ==
  /\ ~aborted /\ msi
  /\ msi' = FALSE
  /\ dma_finish' = TRUE
  /\ UNCHANGED <<dma, dma_timer, irq_status, irq_line, dma_buf, mem, aborted,
                 pc, req, loc, got>>

\* What a caller does once it is inside the driver.
Inside(p) ==
  \/ WriteCnt(p) \/ CopyData(p) \/ WriteSrc(p) \/ WriteDst(p) \/ StartTransfer(p)
  \/ ReadRegisters(p) \/ LoadFinish(p) \/ TestFinish(p) \/ GiveData(p) \/ ResetFinish(p)

Next ==
  \/ \E p \in Procs, dir \in {TO_PCI, FROM_PCI}, r \in Requests : Transmit(p, dir, r)
  \/ \E p \in Procs : Dump(p)
  \/ \E p \in Procs : Inside(p)
  \/ Timer
  \/ IrqHandler

Spec == Init /\ [][Next]_vars

-----------------------------------------------------------------------------
\* A transfer changes no memory but the driver's buffer: whatever is asked
\* for, device writes stay inside what within() checked (transmit line 101).
RestUntouched == \A a \in Bus : InBuffer(a) \/ mem[a] = Empty

\* When a transfer to the device is over, the caller's string is where the
\* caller asked it to be (transmit lines 108 to 115).
StringArrives ==
  \A p \in Procs :
    /\ pc[p] = "user" /\ req[p].dir = TO_PCI
    /\ ~dma.cmd.RUN /\ ~aborted
    => dma_buf[req[p].pci_base - DMA_BASE] = req[p].data

\* A dump that hands data out does so when the transfer it reads the
\* registers of is over (dump line 158, the flag of irq_handler).
FinishMeansOver == \A p \in Procs : pc[p] = "give" => ~dma.cmd.RUN

(***************************************************************************)
(* To callers that wait, the driver and the device together carry out      *)
(* transfers as DmaTransfer says.  A request is asked for while its caller *)
(* is in transmit, and it is running while the device has RUN set: then it *)
(* is read from the registers, so a mixed descriptor is not a step of it.  *)
(***************************************************************************)
AskedBy(p) ==
  [to_pci |-> req[p].dir = TO_PCI, pci_at |-> req[p].pci_base,
   host_at |-> req[p].dma_base, cnt |-> req[p].size]

InRegisters ==
  [to_pci |-> dma.cmd.DIR = TO_PCI,
   pci_at |-> IF dma.cmd.DIR = TO_PCI THEN dma.dst ELSE dma.src,
   host_at |-> IF dma.cmd.DIR = TO_PCI THEN dma.src ELSE dma.dst, cnt |-> dma.cnt]

\* What the driver accepts (transmit line 95) the device carries out, wrapped
\* sums and empty ranges included, but for one case: check_range (line 138)
\* wants the cell behind the range in its memory too, and hw_error ends QEMU
\* when a range ends exactly where the memory does.
AbortsOnlyAtEdge ==
  aborted => InRegisters.pci_at + InRegisters.cnt = DMA_BASE + DMA_SIZE

Abs == INSTANCE DmaTransfer WITH
         asked <- {AskedBy(p) : p \in {q \in Procs : pc[q] \in Transmitting}},
         running <- IF dma.cmd.RUN THEN {InRegisters} ELSE {},
         pci <- dma_buf, host <- mem

\* The driver and the device implement DmaTransfer (see above): requests from the
\* device are started as they were asked for, requests to it with the cells they
\* were asked for and, if they name the base of its memory, there (line 112 of
\* transmit takes pci_base of the device, not of the request), and move exactly
\* their own cells.
ImplementsDmaTransfer == Abs!Spec
==============================================================================
