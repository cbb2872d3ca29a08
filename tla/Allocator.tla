----------------------------- MODULE Allocator -----------------------------
(***************************************************************************)
(* What every allocator of libmemory promises its clients, whatever pages, *)
(* lists and counters it keeps: a block is handed out only while nobody    *)
(* owns it, it stays with its owner until it is given back, and a clear    *)
(* takes every block back at once.                                         *)
(***************************************************************************)
CONSTANTS Blocks,          \* every block the allocator can ever hand out
          Clients, Nobody
VARIABLE owner             \* per block, the client that owns it, or Nobody

Init == owner = [b \in Blocks |-> Nobody]

Alloc(c, b) == owner[b] = Nobody /\ owner' = [owner EXCEPT ![b] = c]

Free(b) == owner[b] # Nobody /\ owner' = [owner EXCEPT ![b] = Nobody]

Clear == owner' = [b \in Blocks |-> Nobody]

Next ==
  \/ \E b \in Blocks : Free(b) \/ \E c \in Clients : Alloc(c, b)
  \/ Clear

Spec == Init /\ [][Next]_owner
=============================================================================
