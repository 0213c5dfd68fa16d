---------------------------- MODULE PageAllocator ----------------------------
(***************************************************************************)
(* What a page allocator promises its callers: the blocks they hold are    *)
(* aligned to their size, lie inside the memory and never overlap; only    *)
(* the holder's call takes a block away.  Which block an allocation gets,  *)
(* and whether it gets one, is left open.                                  *)
(***************************************************************************)
EXTENDS Integers

CONSTANTS MAX_ORDER, Pow2, NrPages

VARIABLE held  \* the blocks in use, <<first page, order>>

Init == held = {}

\* A caller gets a block.
Alloc(p, o) ==
  /\ p % Pow2[o] = 0
  /\ p + Pow2[o] <= NrPages
  /\ \A b \in held : p + Pow2[o] <= b[1] \/ b[1] + Pow2[b[2]] <= p
  /\ held' = held \cup {<<p, o>>}

\* A caller gives a block back.
Free(b) == held' = held \ {b}

Next ==
  \/ \E p \in 0 .. NrPages - 1, o \in 0 .. MAX_ORDER - 1 : Alloc(p, o)
  \/ \E b \in held : Free(b)

Spec == Init /\ [][Next]_held
==============================================================================
