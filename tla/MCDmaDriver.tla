----------------------------- MODULE MCDmaDriver -----------------------------
(***************************************************************************)
(* Small instances of DmaDriver for TLC.                                   *)
(***************************************************************************)
EXTENDS DmaDriver

CONSTANT Hello   \* the string callers send

\* Every request that 32-bit fields can express, wrapping ones included.
AnyRequest == [dma_base: Addr, pci_base: Addr, size: Addr, data: {Hello}]

\* Two requests that the driver accepts: one cell at the end of the buffer,
\* and two cells at its beginning.
TwoRequests ==
  {[dma_base |-> buffer_size - 1, pci_base |-> DMA_BASE, size |-> 1, data |-> Hello],
   [dma_base |-> 0, pci_base |-> DMA_BASE, size |-> 2, data |-> Hello]}
==============================================================================
