------------------------------ MODULE DmaProbe ------------------------------
(***************************************************************************)
(* Loading and unloading the DMA driver: BiscuitOS_DMA_probe with a        *)
(* failure at any of its steps, BiscuitOS_DMA_remove, and meanwhile an     *)
(* open file, a transfer in flight and its interrupt.  Unloading the       *)
(* module waits for open files (.owner = THIS_MODULE), not for transfers;  *)
(* unbinding the driver, or unplugging the device, waits for neither.      *)
(***************************************************************************)
EXTENDS Integers, Sequences

VARIABLES pc,     \* where the module is
          at,     \* the next step of probe, of its unwinding or of remove
          ret,    \* what probe returns
          bound,  \* the PCI core holds that the driver has the device
          held,   \* what the driver has acquired
          going,  \* remove runs because the module is being unloaded
          fd,     \* the device file is open
          busy,   \* a transfer is in flight
          msg,    \* an interrupt message is on its way
          oops    \* bds or what it leads to was used when it was gone

vars == <<pc, at, ret, bound, held, going, fd, busy, msg, oops>>

\* The order in which probe acquires.
Steps == <<"bds", "pci", "region", "mmio", "msi", "irq", "buffer", "misc">>

\* The order in which remove releases, and a mutant that frees bds early.
OrderBdsEarly == <<"misc", "buffer", "bds", "irq", "msi", "mmio", "region", "pci">>
RemoveOrder == <<"misc", "buffer", "irq", "msi", "mmio", "region", "pci", "bds">>

All == {Steps[i] : i \in 1 .. Len(Steps)}

TypeOK ==
  /\ pc \in {"out", "probe", "unwind", "loaded", "remove"}
  /\ at \in 0 .. Len(Steps) + 1
  /\ ret \in {0, -1}
  /\ held \subseteq All
  /\ {bound, going, fd, busy, msg, oops} \subseteq BOOLEAN

Init ==
  /\ pc = "out" /\ at = 0 /\ ret = 0 /\ bound = FALSE /\ held = {}
  /\ going = FALSE /\ fd = FALSE /\ busy = FALSE /\ msg = FALSE /\ oops = FALSE

-----------------------------------------------------------------------------
(* BiscuitOS_DMA_probe *)

Load ==
  /\ pc = "out"
  /\ pc' = "probe" /\ at' = 1 /\ ret' = 0
  /\ UNCHANGED <<bound, held, going, fd, busy, msg, oops>>

Acquire ==
  /\ pc = "probe" /\ at <= Len(Steps)
  /\ held' = held \cup {Steps[at]}
  /\ at' = at + 1
  /\ UNCHANGED <<pc, ret, bound, going, fd, busy, msg, oops>>

ProbeSucceeds ==
  /\ pc = "probe" /\ at = Len(Steps) + 1
  /\ pc' = "loaded" /\ bound' = TRUE
  /\ UNCHANGED <<at, ret, held, going, fd, busy, msg, oops>>

\* Mutant: the jump goes one label too far.
FailUnwindsLate ==
  /\ pc = "probe" /\ at <= Len(Steps)
  /\ ret' = IF Steps[at] = "buffer" THEN ret ELSE -1
  /\ pc' = "unwind" /\ at' = IF at > 1 THEN at - 2 ELSE 0
  /\ UNCHANGED <<bound, held, going, fd, busy, msg, oops>>

\* When dma_alloc_coherent fails, ret still is what request_irq returned.
Fail ==
  /\ pc = "probe" /\ at <= Len(Steps)
  /\ ret' = IF Steps[at] = "buffer" THEN ret ELSE -1
  /\ pc' = "unwind" /\ at' = at - 1
  /\ UNCHANGED <<bound, held, going, fd, busy, msg, oops>>

\* The err_ labels, from the one of the failed step on.
Unwind ==
  /\ pc = "unwind" /\ at > 0
  /\ held' = held \ {Steps[at]}
  /\ at' = at - 1
  /\ UNCHANGED <<pc, ret, bound, going, fd, busy, msg, oops>>

ProbeReturns ==
  /\ pc = "unwind" /\ at = 0
  /\ pc' = "loaded" /\ bound' = (ret = 0)
  /\ UNCHANGED <<at, ret, held, going, fd, busy, msg, oops>>

-----------------------------------------------------------------------------
(* BiscuitOS_DMA_remove *)

Leave ==
  /\ pc = "loaded"
  /\ IF bound THEN pc' = "remove" /\ at' = 1 ELSE pc' = "out" /\ at' = 0
  /\ UNCHANGED <<ret, bound, held, fd, busy, msg, oops>>

\* BiscuitOS_exit: an open file holds a reference to the module.
Unload == ~fd /\ Leave /\ going' = bound

\* The PCI core takes the device from the driver, by sysfs or because it is gone.
Unbind == bound /\ Leave /\ UNCHANGED going

\* Without bds, after a probe that failed and returned 0, remove gets no further.
Release ==
  /\ pc = "remove" /\ at <= Len(RemoveOrder)
  /\ IF "bds" \in held
       THEN held' = held \ {RemoveOrder[at]} /\ at' = at + 1 /\ UNCHANGED oops
       ELSE oops' = TRUE /\ UNCHANGED <<held, at>>
  /\ UNCHANGED <<pc, ret, bound, going, fd, busy, msg>>

Removed ==
  /\ pc = "remove" /\ at = Len(RemoveOrder) + 1
  /\ pc' = "out" /\ at' = 0 /\ bound' = FALSE /\ going' = FALSE
  /\ UNCHANGED <<ret, held, fd, busy, msg, oops>>

-----------------------------------------------------------------------------
(* Users and the device *)

\* Opening takes a reference to the module, which fails once it unloads.
Open ==
  /\ "misc" \in held /\ ~fd /\ ~going
  /\ fd' = TRUE
  /\ UNCHANGED <<pc, at, ret, bound, held, going, busy, msg, oops>>

Close ==
  /\ fd
  /\ fd' = FALSE
  /\ UNCHANGED <<pc, at, ret, bound, held, going, busy, msg, oops>>

\* An ioctl through a file that was opened before the driver was unbound uses bds,
\* the registers and the buffer all the same.
Transmit ==
  /\ fd /\ ~busy
  /\ IF {"bds", "mmio", "buffer"} \subseteq held
       THEN busy' = TRUE /\ UNCHANGED oops
       ELSE oops' = TRUE /\ UNCHANGED busy
  /\ UNCHANGED <<pc, at, ret, bound, held, going, fd, msg>>

Complete ==
  /\ busy
  /\ busy' = FALSE
  /\ msg' = (msg \/ "msi" \in held)
  /\ UNCHANGED <<pc, at, ret, bound, held, going, fd, oops>>

\* irq_handler writes bds->dma_finish if it is still registered.
Interrupt ==
  /\ msg
  /\ msg' = FALSE
  /\ oops' = (oops \/ ("irq" \in held /\ "bds" \notin held))
  /\ UNCHANGED <<pc, at, ret, bound, held, going, fd, busy>>

Next ==
  \/ Load \/ Acquire \/ ProbeSucceeds \/ Fail \/ Unwind \/ ProbeReturns
  \/ Unload \/ Unbind \/ Release \/ Removed
  \/ Open \/ Close \/ Transmit \/ Complete \/ Interrupt

Spec == Init /\ [][Next]_vars

-----------------------------------------------------------------------------
\* Nobody comes upon a driver half set up or half torn down: the file can be opened
\* only while all that an ioctl uses is there (the interface is registered last and
\* unregistered first, lines 286 and 317), and the interrupt handler, which a
\* transfer that completes in the middle of remove may call, has its bds (lines 320
\* and 325), also when the driver is unbound under an open file.
UsersFindAll ==
  /\ "misc" \in held => held = All
  /\ "irq" \in held => "bds" \in held

\* A probe that failed, wherever it did, has given everything back, and so
\* has a remove (the err_ labels, lines 295 to 311).
NothingLeaks == pc \in {"out", "loaded"} /\ ~bound => held = {}
==============================================================================
