----------------------------- MODULE DmaUserland -----------------------------
(***************************************************************************)
(* The repository's DMA program (BiscuitOS-dma-userland/main.c) on top of  *)
(* DmaDriver: it sends a string to the device, sleeps, fetches the         *)
(* device's firmware string, and polls until dma_finish says it is there.  *)
(* The program may be started again and again; the driver and the device   *)
(* keep their state.  Waits = TRUE is its sleep(1) against the 100ms of a  *)
(* transfer.                                                               *)
(***************************************************************************)
EXTENDS DmaDriver

CONSTANTS Main,      \* the process; nobody else calls the driver
          Messages   \* strings that it may send

ASSUME MainAssumption == Main \in Procs /\ Messages \subseteq Data

VARIABLES at,       \* where main() is
          printed   \* the string it printed last

mainVars == <<vars, at, printed>>

\* The struct of main(): page 0 of the buffer to page 0 of the device, then
\* the page of the firmware to page 1 of the buffer.
ToPci(s) == [dma_base |-> 0, pci_base |-> DMA_BASE, size |-> 1, data |-> s]
FromPci == [dma_base |-> 1, pci_base |-> DMA_BASE + FW_OFFSET, size |-> 1, data |-> Empty]

MainInit == Init /\ at = "start" /\ printed = Empty

Returned == pc[Main] = "user" /\ ~aborted

Send ==
  /\ at = "start"
  /\ \E s \in Messages : Transmit(Main, TO_PCI, ToPci(s))
  /\ at' = "sent"
  /\ UNCHANGED printed

Fetch ==
  /\ at = "sent"
  /\ Transmit(Main, FROM_PCI, FromPci)
  /\ at' = "poll"
  /\ UNCHANGED printed

Poll ==
  /\ at = "poll"
  /\ Dump(Main)
  /\ at' = "look"
  /\ UNCHANGED printed

\* The loop ends with break, or sleeps and goes round.
Look ==
  /\ at = "look" /\ Returned
  /\ IF got[Main].dma_finish
       THEN at' = "end" /\ printed' = got[Main].data
       ELSE at' = "poll" /\ UNCHANGED printed
  /\ UNCHANGED vars

StartAgain ==
  /\ at = "end"
  /\ at' = "start"
  /\ UNCHANGED <<vars, printed>>

MainSteps == Send \/ Fetch \/ Poll \/ Look
DriverSteps == Inside(Main) /\ UNCHANGED <<at, printed>>
TimerSteps == Timer /\ UNCHANGED <<at, printed>>
IrqSteps == IrqHandler /\ UNCHANGED <<at, printed>>

MainNext == Send \/ Fetch \/ Poll \/ Look \/ StartAgain \/ DriverSteps \/ TimerSteps \/ IrqSteps

(***************************************************************************)
(* The process is scheduled, inside the driver and outside, the clock runs *)
(* and messages arrive.  Nobody has to start the program again.            *)
(***************************************************************************)
MainSpec ==
  /\ MainInit /\ [][MainNext]_mainVars
  /\ WF_mainVars(MainSteps \/ DriverSteps)
  /\ WF_mainVars(TimerSteps)
  /\ WF_mainVars(IrqSteps)

-----------------------------------------------------------------------------
\* What the program prints is the firmware string: the poll never succeeds
\* before the transfer has moved it, nor on the flag of an earlier run
\* (main.c lines 92 to 105, dump, irq_handler).
PrintsFirmware == at = "end" => printed = FW

\* The program ends: its loop that is to "wait Interrupt" (main.c line 90) sees in
\* the end that the interrupt has come (dump lines 157 to 161).
MainEnds == (at = "sent") ~> (at = "end")
==============================================================================
