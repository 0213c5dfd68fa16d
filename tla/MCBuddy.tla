------------------------------- MODULE MCBuddy -------------------------------
(***************************************************************************)
(* Small instances of Buddy for TLC.                                       *)
(***************************************************************************)
EXTENDS Buddy

MCPow2 == [o \in 0 .. MAX_ORDER - 1 |-> 2 ^ o]

\* malloc'd memory fresh from the system: zeroes, that is PageBuddy of order 0.
ZeroPage == {[PageBuddy |-> TRUE, private |-> 0]}
==============================================================================
