----------------------------- MODULE DmaTransfer -----------------------------
(***************************************************************************)
(* What DMA promises to a caller that waits for one transfer before it     *)
(* asks for the next: each request that was accepted is started as it was  *)
(* asked for, and moves exactly its cells between the driver's buffer and  *)
(* the device's memory; no other cell of either memory changes.  Where in  *)
(* the device's memory cells go is promised only to a caller that sends    *)
(* them to its base: elsewhere it may be any place that has room for them. *)
(***************************************************************************)
EXTENDS Integers

CONSTANTS DMA_BASE, DMA_SIZE,       \* the device's memory
          dma_addr, buffer_size,    \* the driver's buffer
          Bus,                      \* the addresses of the host's memory
          Data

VARIABLES asked,    \* the request that was accepted and not yet started
          running,  \* the request that is being carried out
          pci,      \* the device's memory
          host      \* the memory the driver's buffer is part of

vars == <<asked, running, pci, host>>

\* A request that lies in the device's memory and in the driver's buffer.
Request ==
  {r \in [to_pci: BOOLEAN, pci_at: DMA_BASE .. DMA_BASE + DMA_SIZE - 1,
          host_at: dma_addr .. dma_addr + buffer_size - 1, cnt: 1 .. DMA_SIZE] :
     /\ r.pci_at + r.cnt <= DMA_BASE + DMA_SIZE
     /\ r.host_at + r.cnt <= dma_addr + buffer_size}

Init ==
  /\ asked = {} /\ running = {}
  /\ pci \in [0 .. DMA_SIZE - 1 -> Data]
  /\ host \in [Bus -> Data]

Accept(r) ==
  /\ asked = {} /\ running = {}
  /\ r \in Request
  /\ asked' = {r}
  /\ UNCHANGED <<running, pci, host>>

\* The caller's string is put at the beginning of the buffer.
Fill ==
  /\ \E r \in asked : r.to_pci
  /\ \E s \in Data : host' = [host EXCEPT ![dma_addr] = s]
  /\ UNCHANGED <<asked, running, pci>>

\* Where in the device's memory r may be carried out.
Places(r) ==
  IF r.to_pci /\ r.pci_at # DMA_BASE
    THEN DMA_BASE .. DMA_BASE + DMA_SIZE - r.cnt
    ELSE {r.pci_at}

Start ==
  /\ running = {}
  /\ \E r \in asked : \E c \in Places(r) : running' = {[r EXCEPT !.pci_at = c]}
  /\ asked' = {}
  /\ UNCHANGED <<pci, host>>

Complete(r) ==
  /\ running = {r}
  /\ running' = {}
  /\ IF r.to_pci
       THEN /\ pci' = [c \in 0 .. DMA_SIZE - 1 |->
                         LET i == (DMA_BASE + c) - r.pci_at
                         IN  IF i \in 0 .. r.cnt - 1 THEN host[r.host_at + i] ELSE pci[c]]
            /\ UNCHANGED host
       ELSE /\ host' = [a \in Bus |->
                          LET i == a - r.host_at
                          IN  IF i \in 0 .. r.cnt - 1 THEN pci[(r.pci_at - DMA_BASE) + i]
                                                      ELSE host[a]]
            /\ UNCHANGED pci
  /\ UNCHANGED asked

Next ==
  \/ \E r \in Request : Accept(r)
  \/ Fill
  \/ Start
  \/ \E r \in running : Complete(r)

Spec == Init /\ [][Next]_vars
==============================================================================
