------------------------------ MODULE DmaMachine ------------------------------
(***************************************************************************)
(* The DMA device by itself: a guest that writes any register at any time, *)
(* the timer, the device's thread, and unplugging (BiscuitOS_pci_uninit).  *)
(*                                                                         *)
(* The thread computes only when BISCUITOS_STATUS_COMPUTING is set, which  *)
(* no code does: a write to REG_DMA_STATUS changes STATUS_IRQFACT alone.   *)
(* What is left of it is to wait until the device stops.                   *)
(***************************************************************************)
EXTENDS DmaDevice

VARIABLES status,     \* the set bits of REG_DMA_STATUS
          thr_mutex,  \* who holds it
          thread,     \* where BiscuitOS_pci_thread is
          stopping,
          uninit      \* where BiscuitOS_pci_uninit is

vars == <<device, status, thr_mutex, thread, stopping, uninit>>

threads == <<thr_mutex, thread, stopping, uninit>>

TypeOK ==
  /\ DeviceTypeOK
  /\ status \subseteq {"COMPUTING", "IRQFACT"}
  /\ thr_mutex \in {"free", "thread", "uninit"}
  /\ thread \in {"lock", "check", "idle", "wait", "exited"}
  /\ stopping \in BOOLEAN
  /\ uninit \in {"none", "stop", "unlock", "signal", "join", "done"}

Init ==
  /\ DeviceInit
  /\ status = {}
  /\ thr_mutex = "free" /\ thread = "lock" /\ stopping = FALSE
  /\ uninit = "none"

\* Guest accesses, the timer and uninit run under QEMU's global lock, which
\* uninit keeps until it is done.
Running == ~aborted /\ uninit = "none"

-----------------------------------------------------------------------------
(* BiscuitOS_mmio_write *)

GuestWritesReg ==
  /\ Running
  /\ \E reg \in {"src", "dst", "cnt"}, val \in Addr : WriteReg(reg, val)
  /\ UNCHANGED <<status, threads>>

GuestRuns ==
  /\ Running
  /\ \E val \in Command : WriteRun(val)
  /\ UNCHANGED <<status, threads>>

GuestSetsStatus ==
  /\ Running
  /\ \/ status' = status \cup {"IRQFACT"}
     \/ status' = status \ {"IRQFACT"}
  /\ UNCHANGED <<device, threads>>

GuestRaises ==
  /\ Running
  /\ \E val \in SUBSET Interrupts : raise_irq(val)
  /\ UNCHANGED <<dma, dma_timer, dma_buf, mem, aborted, status, threads>>

GuestLowers ==
  /\ Running
  /\ \E val \in SUBSET Interrupts : lower_irq(val)
  /\ UNCHANGED <<dma, dma_timer, msi, dma_buf, mem, aborted, status, threads>>

Timer == Running /\ TimerFires /\ UNCHANGED <<status, threads>>

-----------------------------------------------------------------------------
(* BiscuitOS_pci_thread *)

ThreadLocks ==
  /\ ~aborted /\ thread = "lock" /\ thr_mutex = "free"
  /\ thread' = "check" /\ thr_mutex' = "thread"
  /\ UNCHANGED <<device, status, stopping, uninit>>

\* Nothing to do: the thread is going to wait.
ThreadTests ==
  /\ ~aborted /\ thread = "check" /\ "COMPUTING" \notin status /\ ~stopping
  /\ thread' = "idle"
  /\ UNCHANGED <<device, status, thr_mutex, stopping, uninit>>

\* qemu_cond_wait gives the mutex up and starts to wait in one step.
ThreadWaits ==
  /\ ~aborted /\ thread = "idle"
  /\ thread' = "wait" /\ thr_mutex' = "free"
  /\ UNCHANGED <<device, status, stopping, uninit>>

ThreadExits ==
  /\ ~aborted /\ thread = "check" /\ stopping
  /\ thread' = "exited" /\ thr_mutex' = "free"
  /\ UNCHANGED <<device, status, stopping, uninit>>

\* A condition variable may wake its waiter for no reason.
SpuriousWakeup ==
  /\ ~aborted /\ thread = "wait"
  /\ thread' = "lock"
  /\ UNCHANGED <<device, status, thr_mutex, stopping, uninit>>

-----------------------------------------------------------------------------
(* BiscuitOS_pci_uninit *)

\* Mutant: stopping is set without the mutex.
UninitBlind ==
  /\ Running
  /\ uninit' = "signal" /\ stopping' = TRUE
  /\ UNCHANGED <<device, status, thr_mutex, thread>>

UninitLocks ==
  /\ Running /\ thr_mutex = "free"
  /\ uninit' = "stop" /\ thr_mutex' = "uninit"
  /\ UNCHANGED <<device, status, thread, stopping>>

UninitStops ==
  /\ uninit = "stop"
  /\ stopping' = TRUE /\ uninit' = "unlock"
  /\ UNCHANGED <<device, status, thr_mutex, thread>>

UninitUnlocks ==
  /\ uninit = "unlock"
  /\ thr_mutex' = "free" /\ uninit' = "signal"
  /\ UNCHANGED <<device, status, thread, stopping>>

UninitSignals ==
  /\ uninit = "signal"
  /\ uninit' = "join"
  /\ thread' = IF thread = "wait" THEN "lock" ELSE thread
  /\ UNCHANGED <<device, status, thr_mutex, stopping>>

\* qemu_thread_join, then timer_del.
UninitJoins ==
  /\ uninit = "join" /\ thread = "exited"
  /\ uninit' = "done" /\ dma_timer' = FALSE
  /\ UNCHANGED <<dma, irq_status, irq_line, msi, dma_buf, mem, aborted,
                 status, thr_mutex, thread, stopping>>

-----------------------------------------------------------------------------
Thread == ThreadLocks \/ ThreadTests \/ ThreadWaits \/ ThreadExits

Uninit == UninitLocks \/ UninitStops \/ UninitUnlocks \/ UninitSignals \/ UninitJoins

Next ==
  \/ GuestWritesReg \/ GuestRuns \/ GuestSetsStatus \/ GuestRaises \/ GuestLowers
  \/ Timer
  \/ ThreadLocks \/ ThreadTests \/ ThreadWaits \/ ThreadExits \/ SpuriousWakeup
  \/ Uninit

Spec == Init /\ [][Next]_vars

(***************************************************************************)
(* The clock runs, so a timer expires; the host schedules the thread and   *)
(* an uninit that has begun.  Neither the guest nor the wish to unplug is  *)
(* fair.                                                                   *)
(***************************************************************************)
FairSpec ==
  /\ Spec
  /\ WF_vars(Timer)
  /\ WF_vars(Thread)
  /\ WF_vars(uninit # "none" /\ Uninit)

-----------------------------------------------------------------------------
\* A transfer the guest started ends: the timer runs it, the device refuses
\* its range (hw_error), or the device is unplugged (dma_rw, dma_timer).
TransferEnds == dma.cmd.RUN ~> (~dma.cmd.RUN \/ ~Running)

\* Unplugging ends: uninit's signal comes after stopping is set and the
\* mutex released, and still no interleaving with the thread's test and wait
\* lets the thread miss it and qemu_thread_join wait for ever.
UninitReturns == (uninit # "none") ~> (uninit = "done")
==============================================================================
