-------------------------------- MODULE KList --------------------------------
(***************************************************************************)
(* The circular doubly linked list of include/linux/list.h, seen from its  *)
(* head: the sequence of the nodes met when following `next'.  A node is   *)
(* on at most one list at a time (struct list_head is embedded in it), so  *)
(* the pointer surgery of __list_add and __list_del is exactly these       *)
(* operations on sequences.                                                *)
(***************************************************************************)
EXTENDS Integers, Sequences

\* The nodes on list l.
Nodes(l) == {l[i] : i \in 1 .. Len(l)}

\* No node occurs twice on l.
Distinct(l) == \A i, j \in 1 .. Len(l) : l[i] = l[j] => i = j

\* list_add(new, head): new becomes the first node.
list_add(x, l) == [i \in 1 .. Len(l) + 1 |-> IF i = 1 THEN x ELSE l[i - 1]]

\* list_add_tail(new, head): new becomes the last node.
list_add_tail(x, l) ==
  [i \in 1 .. Len(l) + 1 |-> IF i = Len(l) + 1 THEN x ELSE l[i]]

\* The position of node x on l.
Position(x, l) == CHOOSE i \in 1 .. Len(l) : l[i] = x

\* list_del(entry): entry leaves l, the other nodes keep their order.  A list
\* that does not hold entry is left as it is.
list_del(x, l) ==
  IF x \in Nodes(l)
    THEN [i \in 1 .. Len(l) - 1 |-> IF i < Position(x, l) THEN l[i]
                                                          ELSE l[i + 1]]
    ELSE l

\* list_first_entry and list_last_entry of a list that is not empty.
list_first_entry(l) == l[1]
list_last_entry(l)  == l[Len(l)]

list_empty(l) == Len(l) = 0
==============================================================================
