--------------------------- MODULE DmaMachineProofs ---------------------------
(***************************************************************************)
(* Proofs about DmaMachine, for any register width and memory, and for a   *)
(* guest that does what it likes: the interrupt line, the descriptor of a  *)
(* running transfer, and the handshake of uninit with the thread.          *)
(***************************************************************************)
EXTENDS DmaMachine, TLAPS

\* irq_line and MSI are truth values, and the line follows the status.
LineInv == irq_line \in BOOLEAN /\ LineFollowsStatus

\* raise_irq keeps the line in step, whichever bits it sets.
LEMMA RaiseKeepsLine == ASSUME NEW val, LineInv, raise_irq(val) PROVE LineInv'
<1>1. MSI \in BOOLEAN
  BY DeviceAssumption
<1>2. CASE irq_status \cup val = {}
  BY <1>1, <1>2 DEF LineInv, LineFollowsStatus, raise_irq
<1>3. CASE irq_status \cup val # {}
  BY <1>1, <1>3 DEF LineInv, LineFollowsStatus, raise_irq
<1> QED
  BY <1>2, <1>3

\* lower_irq lets the line down with the last bit only.
LEMMA LowerKeepsLine == ASSUME NEW val, LineInv, lower_irq(val) PROVE LineInv'
<1>1. MSI \in BOOLEAN
  BY DeviceAssumption
<1>2. CASE irq_status \ val = {}
  BY <1>1, <1>2 DEF LineInv, LineFollowsStatus, lower_irq
<1>3. CASE irq_status \ val # {}
  BY <1>1, <1>3 DEF LineInv, LineFollowsStatus, lower_irq
<1> QED
  BY <1>2, <1>3

\* Every step keeps the line in step with the status.
LEMMA NextLine == ASSUME LineInv, [Next]_vars PROVE LineInv'
<1>1. ASSUME UNCHANGED <<irq_status, irq_line>> PROVE LineInv'
  BY <1>1 DEF LineInv, LineFollowsStatus
<1>2. CASE UNCHANGED vars
  BY <1>1, <1>2 DEF vars, device
<1>3. CASE GuestWritesReg \/ GuestRuns \/ GuestSetsStatus
  BY <1>1, <1>3 DEF GuestWritesReg, GuestRuns, GuestSetsStatus, WriteReg, WriteRun, device
<1>4. CASE GuestRaises
  BY <1>4, RaiseKeepsLine DEF GuestRaises
<1>5. CASE GuestLowers
  BY <1>5, LowerKeepsLine DEF GuestLowers
<1>6. CASE Timer
  <2>1. UNCHANGED <<irq_status, irq_line>> \/ raise_irq({"DMA_IRQ"})
    BY <1>6 DEF Timer, TimerFires, Finish
  <2> QED
    BY <1>1, <2>1, RaiseKeepsLine
<1>7. CASE ThreadLocks \/ ThreadTests \/ ThreadWaits \/ ThreadExits \/ SpuriousWakeup
  BY <1>1, <1>7 DEF ThreadLocks, ThreadTests, ThreadWaits, ThreadExits, SpuriousWakeup, device
<1>8. CASE Uninit
  BY <1>1, <1>8 DEF Uninit, UninitLocks, UninitStops, UninitUnlocks, UninitSignals,
                    UninitJoins, device
<1> QED
  BY <1>2, <1>3, <1>4, <1>5, <1>6, <1>7, <1>8 DEF Next

\* Without MSI the line is up exactly while an interrupt is pending, whatever the
\* guest raises and lowers and whenever a transfer ends (raise_irq, lower_irq).
THEOREM LineIsRight == Spec => []LineFollowsStatus
<1>1. Init => LineInv
  <2> SUFFICES ASSUME Init PROVE LineInv
    OBVIOUS
  <2>1. irq_status = {} /\ irq_line = FALSE
    BY DEF Init, DeviceInit
  <2> QED
    BY <2>1 DEF LineInv, LineFollowsStatus
<1>2. LineInv /\ [Next]_vars => LineInv'
  BY NextLine
<1>3. LineInv => LineFollowsStatus
  BY DEF LineInv
<1> QED
  BY <1>1, <1>2, <1>3, PTL DEF Spec

-----------------------------------------------------------------------------
(* Stopping the thread. *)

\* The mutex belongs to whom the places of thread and uninit say it does.
Held ==
  /\ thr_mutex = "thread" <=> thread \in {"check", "idle"}
  /\ thr_mutex = "uninit" <=> uninit \in {"stop", "unlock"}

\* Once it is set, stopping finds no thread about to wait, and none waiting once
\* uninit has signalled.
SignalMeets ==
  /\ stopping => thread # "idle"
  /\ stopping <=> uninit \notin {"none", "stop"}
  /\ uninit \in {"join", "done"} => thread # "wait"

Places ==
  /\ thr_mutex \in {"free", "thread", "uninit"}
  /\ thread \in {"lock", "check", "idle", "wait", "exited"}
  /\ stopping \in BOOLEAN
  /\ uninit \in {"none", "stop", "unlock", "signal", "join", "done"}

StopInv == Places /\ Held /\ SignalMeets

\* Every step keeps the handshake.
LEMMA NextStop == ASSUME StopInv, [Next]_vars PROVE StopInv'
<1> USE DEF StopInv, Places, Held, SignalMeets
<1>1. CASE UNCHANGED threads
  BY <1>1 DEF threads
<1>2. CASE UNCHANGED vars
  BY <1>1, <1>2 DEF vars, threads
<1>3. CASE GuestWritesReg \/ GuestRuns \/ GuestSetsStatus \/ GuestRaises \/ GuestLowers \/ Timer
  BY <1>1, <1>3 DEF GuestWritesReg, GuestRuns, GuestSetsStatus, GuestRaises, GuestLowers, Timer
<1>4. CASE ThreadLocks
  BY <1>4 DEF ThreadLocks
<1>5. CASE ThreadTests
  BY <1>5 DEF ThreadTests
<1>6. CASE ThreadWaits
  BY <1>6 DEF ThreadWaits
<1>7. CASE ThreadExits
  BY <1>7 DEF ThreadExits
<1>8. CASE SpuriousWakeup
  BY <1>8 DEF SpuriousWakeup
<1>9. CASE UninitLocks
  BY <1>9 DEF UninitLocks, Running
<1>10. CASE UninitStops
  BY <1>10 DEF UninitStops
<1>11. CASE UninitUnlocks
  BY <1>11 DEF UninitUnlocks
<1>12. CASE UninitSignals
  BY <1>12 DEF UninitSignals
<1>13. CASE UninitJoins
  BY <1>13 DEF UninitJoins
<1> QED
  BY <1>2, <1>3, <1>4, <1>5, <1>6, <1>7, <1>8, <1>9, <1>10, <1>11, <1>12, <1>13
     DEF Next, Uninit

\* The signal of uninit is never missed: when qemu_thread_join waits, the thread
\* does not, and it cannot come to wait again (BiscuitOS_pci_uninit, the loop of
\* BiscuitOS_pci_thread).
THEOREM SignalIsMet == Spec => []SignalMeets
<1>1. Init => StopInv
  BY DEF Init, StopInv, Places, Held, SignalMeets
<1>2. StopInv /\ [Next]_vars => StopInv'
  BY NextStop
<1>3. StopInv => SignalMeets
  BY DEF StopInv
<1> QED
  BY <1>1, <1>2, <1>3, PTL DEF Spec

-----------------------------------------------------------------------------
(* The descriptor. *)

\* Whatever the guest writes, and when, a transfer that runs keeps its descriptor
\* until the timer ends it (the early return of dma_rw).
THEOREM Frozen == Spec => DescriptorFrozen
<1> DEFINE Same == dma' \in {dma, [dma EXCEPT !.cmd.RUN = FALSE]}
<1>1. ASSUME dma.cmd.RUN, [Next]_vars PROVE Same
  <2>1. CASE GuestWritesReg
    BY <1>1, <2>1 DEF GuestWritesReg, WriteReg
  <2>2. CASE GuestRuns
    BY <1>1, <2>2 DEF GuestRuns, WriteRun
  <2>3. CASE Timer
    BY <2>3 DEF Timer, TimerFires, Finish
  <2>4. CASE GuestSetsStatus \/ GuestRaises \/ GuestLowers \/ UNCHANGED vars
    BY <2>4 DEF GuestSetsStatus, GuestRaises, GuestLowers, vars, device
  <2>5. CASE ThreadLocks \/ ThreadTests \/ ThreadWaits \/ ThreadExits \/ SpuriousWakeup
    BY <2>5 DEF ThreadLocks, ThreadTests, ThreadWaits, ThreadExits, SpuriousWakeup, device
  <2>6. CASE Uninit
    BY <2>6 DEF Uninit, UninitLocks, UninitStops, UninitUnlocks, UninitSignals, UninitJoins,
                device
  <2> QED
    BY <1>1, <2>1, <2>2, <2>3, <2>4, <2>5, <2>6 DEF Next
<1>2. [Next]_vars => [dma.cmd.RUN => Same]_device
  BY <1>1
<1> QED
  BY <1>2, PTL DEF Spec, DescriptorFrozen
=============================================================================
