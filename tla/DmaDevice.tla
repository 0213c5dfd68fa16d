------------------------------ MODULE DmaDevice ------------------------------
(***************************************************************************)
(* The registers, the timer and the interrupt of the BiscuitOS DMA device  *)
(* (Device-Driver/DMA, the QEMU device).  The module defines what one      *)
(* access of the guest and one expiry of the timer do; DmaMachine drives   *)
(* it by any guest, DmaDriver by the Linux driver.  QEMU runs both under   *)
(* its global lock, so each is one step.                                   *)
(*                                                                         *)
(* Memory is a function from addresses to strings: a cell is one page, and *)
(* its value is the C string that starts there.  Addresses and counts are  *)
(* 32-bit registers: arithmetic is modulo M.                               *)
(***************************************************************************)
EXTENDS Integers

CONSTANTS M,          \* the number of values of a 32-bit register
          DMA_BASE,   \* where the device's memory begins, as the guest names it
          DMA_SIZE,   \* its size
          Data,       \* the strings a cell may hold
          Empty, FW,  \* the empty string, and BISCUITOS_FW
          MSI         \* has the guest enabled message signalled interrupts?

ASSUME DeviceAssumption ==
  /\ M \in Nat /\ DMA_BASE \in Nat /\ DMA_SIZE \in Nat \ {0}
  /\ DMA_BASE + DMA_SIZE < M
  /\ Empty \in Data /\ FW \in Data
  /\ MSI \in BOOLEAN

VARIABLES dma,          \* the registers src, dst, cnt and cmd
          dma_timer,    \* is the timer armed?
          irq_status,   \* the set bits of REG_INT_STATUS
          irq_line,     \* the level pci_set_irq drives
          msi,          \* a message is on its way to the guest
          dma_buf,      \* the device's own memory
          mem,          \* the guest's memory
          aborted       \* hw_error has ended QEMU

device == <<dma, dma_timer, irq_status, irq_line, msi, dma_buf, mem, aborted>>

Addr == 0 .. M - 1

\* A transfer of M - 1 cells to the last address stays inside Bus.
Bus == 0 .. 2 * M - 1

TO_PCI == 0
FROM_PCI == 1

Command == [RUN: BOOLEAN, DIR: {TO_PCI, FROM_PCI}, IRQ: BOOLEAN]
Registers == [src: Addr, dst: Addr, cnt: Addr, cmd: Command]
Interrupts == {"FACT_IRQ", "DMA_IRQ"}
FW_OFFSET == DMA_SIZE \div 2

DeviceTypeOK ==
  /\ dma \in Registers
  /\ dma_timer \in BOOLEAN
  /\ irq_status \subseteq Interrupts
  /\ irq_line \in BOOLEAN /\ msi \in BOOLEAN
  /\ dma_buf \in [0 .. DMA_SIZE - 1 -> Data]
  /\ mem \in [Bus -> Data]
  /\ aborted \in BOOLEAN

\* QEMU allocates the device zeroed; realize writes the firmware string.
DeviceInit ==
  /\ dma = [src |-> 0, dst |-> 0, cnt |-> 0,
            cmd |-> [RUN |-> FALSE, DIR |-> TO_PCI, IRQ |-> FALSE]]
  /\ dma_timer = FALSE
  /\ irq_status = {} /\ irq_line = FALSE /\ msi = FALSE
  /\ dma_buf = [i \in 0 .. DMA_SIZE - 1 |-> IF i = FW_OFFSET THEN FW ELSE Empty]
  /\ mem = [a \in Bus |-> Empty]
  /\ aborted = FALSE

-----------------------------------------------------------------------------
(* The interrupt. *)

\* BiscuitOS_raise_irq and BiscuitOS_lower_irq: a message or the line.
raise_irq(val) ==
  /\ irq_status' = irq_status \cup val
  /\ msi' = (msi \/ (MSI /\ irq_status' # {}))
  /\ irq_line' = (irq_line \/ (~MSI /\ irq_status' # {}))

\* Mutant: the line goes down with the first bit that is cleared.
LowersAlways(val) ==
  /\ irq_status' = irq_status \ val
  /\ irq_line' = (irq_line /\ MSI)

lower_irq(val) ==
  /\ irq_status' = irq_status \ val
  /\ irq_line' = (irq_line /\ (irq_status' # {} \/ MSI))

-----------------------------------------------------------------------------
(* Writes of the guest. *)

\* Mutant: the early return while a transfer runs is missing.
WriteRegDuringRun(reg, val) ==
  /\ dma' = [dma EXCEPT ![reg] = val]
  /\ UNCHANGED <<dma_timer, irq_status, irq_line, msi, dma_buf, mem, aborted>>

\* dma_rw for REG_TRANS_SRC, _DST and _CNT: a write is dropped, with no
\* sign to the guest, while a transfer runs.
WriteReg(reg, val) ==
  /\ dma' = IF dma.cmd.RUN THEN dma ELSE [dma EXCEPT ![reg] = val]
  /\ UNCHANGED <<dma_timer, irq_status, irq_line, msi, dma_buf, mem, aborted>>

\* Mutant: RUN is set and the timer not armed.
WriteRunNoTimer(val) ==
  /\ dma' = IF val.RUN /\ ~dma.cmd.RUN THEN [dma EXCEPT !.cmd = val] ELSE dma
  /\ UNCHANGED <<dma_timer, irq_status, irq_line, msi, dma_buf, mem, aborted>>

\* REG_TRANS_RUN: sets cmd and arms the timer.
WriteRun(val) ==
  /\ IF val.RUN /\ ~dma.cmd.RUN
       THEN dma' = [dma EXCEPT !.cmd = val] /\ dma_timer' = TRUE
       ELSE UNCHANGED <<dma, dma_timer>>
  /\ UNCHANGED <<irq_status, irq_line, msi, dma_buf, mem, aborted>>

-----------------------------------------------------------------------------
(* The transfer. *)

within(addr, start, end) == start <= addr /\ addr < end

check_range(addr, size1, start, size2) ==
  LET end1 == (addr + size1) % M
      end2 == (start + size2) % M
  IN  within(addr, start, end2) /\ end1 > addr /\ within(end1, start, end2)

\* dma_mask is 2^32 - 1.
clamp_addr(addr) == addr % M

\* n cells of from, from cell i on, copied over to from its cell j on.
Copy(to, j, from, i, n) ==
  [c \in DOMAIN to |-> IF within(c, j, j + n) THEN from[i + (c - j)] ELSE to[c]]

InRange(d) ==
  check_range(IF d.cmd.DIR = FROM_PCI THEN d.src ELSE d.dst, d.cnt, DMA_BASE, DMA_SIZE)

Transfer(d) ==
  IF d.cmd.DIR = FROM_PCI
    THEN /\ mem' = Copy(mem, clamp_addr(d.dst), dma_buf, d.src - DMA_BASE, d.cnt)
         /\ UNCHANGED dma_buf
    ELSE /\ dma_buf' = Copy(dma_buf, d.dst - DMA_BASE, mem, clamp_addr(d.src), d.cnt)
         /\ UNCHANGED mem

Finish ==
  /\ dma' = [dma EXCEPT !.cmd.RUN = FALSE]
  /\ IF dma.cmd.IRQ THEN raise_irq({"DMA_IRQ"})
                    ELSE UNCHANGED <<irq_status, irq_line, msi>>

\* The timer expires, 100ms after it was armed.  The range the transfer
\* names in the device's memory is checked only now.
TimerFires ==
  /\ dma_timer
  /\ dma_timer' = FALSE
  /\ IF ~dma.cmd.RUN
       THEN UNCHANGED <<dma, irq_status, irq_line, msi, dma_buf, mem, aborted>>
       ELSE \/ /\ ~InRange(dma)
               /\ aborted' = TRUE
               /\ UNCHANGED <<dma, irq_status, irq_line, msi, dma_buf, mem>>
            \/ /\ InRange(dma)
               /\ Transfer(dma)
               /\ Finish
               /\ UNCHANGED aborted

-----------------------------------------------------------------------------
(* Properties of the device, whoever drives it. *)

\* The timer is armed exactly while a transfer runs: a running transfer
\* always has its completion ahead of it, and no expiry comes twice or finds
\* cmd without RUN (dma_rw sets one with the other, dma_timer ends both).
RunHasTimer == aborted \/ dma.cmd.RUN = dma_timer

\* While a transfer runs its descriptor is frozen: whatever the guest writes
\* (the early return of dma_rw), what the timer finds is what was started.
DescriptorFrozen ==
  [][dma.cmd.RUN => dma' \in {dma, [dma EXCEPT !.cmd.RUN = FALSE]}]_device

\* Without MSI the line is up exactly while an interrupt is pending
\* (raise_irq and lower_irq), so no interrupt is lost and none gets stuck.
LineFollowsStatus == irq_line = (~MSI /\ irq_status # {})
==============================================================================
