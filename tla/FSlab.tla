-------------------------------- MODULE FSlab --------------------------------
(***************************************************************************)
(* The flexible slab of libmemory/ey_fslab.c: blocks that fit the slab's   *)
(* item come from the slab, the others from the memory handler, and those  *)
(* are kept on malloc_list.  Nothing in a block says where it came from:   *)
(* ey_fzfree works it out again from the size stored in the block's head.  *)
(*                                                                         *)
(* ey_fslab.c takes no lock (only its registry has one), so one client     *)
(* uses it at a time.  The slab underneath is what Allocator promises: the *)
(* set of the items it has handed out.                                     *)
(***************************************************************************)
EXTENDS Heap

CONSTANTS ConfigSizes,     \* the sizes ey_fzinit is given; 0 asks for no slab
          RequestSizes,    \* the sizes the client asks for
          SlabItems        \* addresses the slab can return

ASSUME RequestsAssumption == ConfigSizes \subseteq Nat /\ RequestSizes \subseteq Nat
ASSUME ItemsAssumption == SlabItems \cap HeapBlocks = {}

HEAD_SIZE == 24                      \* sizeof(fslab_head_t)

\* ey_zinit refuses an item of which four, each with its head and tail, do not
\* fit on a page behind the page's own head.
FitsPage(item) == (item + 24) * 4 + 32 <= 4096

\* What the fslab may know of its slab: the item size, or 0 when it has none.
\* Nobody looks at ey_zinit's result, so a slab that was refused, or for which
\* the handler had no memory, is like one that was never asked for.
ItemSize(size) == REAL_SIZE(size + HEAD_SIZE)
SlabSizes(size) ==
  IF size # 0 /\ FitsPage(ItemSize(size)) THEN {ItemSize(size), 0} ELSE {0}

Blocks == SlabItems \cup HeapBlocks

VARIABLES
  z,             \* the fslab: "none", "live", or "cleared" once or more
  zsize,         \* ey_zsize of its slab, 0 without one
  slabOut,       \* items the slab counts as allocated
  heap,          \* blocks the memory handler counts as allocated
  malloc_list,   \* the blocks on the list of heap blocks
  user_size,     \* per block with an owner, the size in its head; else 0
  owned,         \* the blocks the client owns
  fault          \* "none", or what undefined operation was carried out

fslabVars == <<z, zsize, slabOut, heap, malloc_list, user_size, owned, fault>>

FslabInit ==
  /\ z = "none" /\ zsize = 0
  /\ slabOut = {} /\ heap = {} /\ malloc_list = {}
  /\ user_size = [b \in Blocks |-> 0]
  /\ owned = {}
  /\ fault = "none"

\* An engine makes its fslabs and clears them when it is destroyed; the next
\* engine makes its own.  Nothing keeps a client from using an fslab it has
\* cleared.
Fzinit(size) ==
  /\ z = "none" \/ (z = "cleared" /\ owned = {})
  /\ z' = "live" /\ zsize' \in SlabSizes(size)
  /\ malloc_list' = {}
  /\ UNCHANGED <<slabOut, heap, user_size, owned, fault>>

\* The tests by which ey_fzalloc and ey_fzfree choose; they differ when the
\* block is exactly as big as the slab's item.
AllocTooBig_NoHead(size) == zsize = 0 \/ size > zsize     \* a faulty variant
AllocTooBig(size) == zsize = 0 \/ size + HEAD_SIZE > zsize
FreeTooBig(size) == zsize = 0 \/ size + HEAD_SIZE >= zsize
ExactFit(size) == size + HEAD_SIZE = zsize

\* Linking and unlinking write into the neighbours of a list element: into
\* freed memory when the list holds an element that is not in the heap.
DanglingIn(list) == IF list \subseteq heap THEN fault ELSE "dangling"

Give(b, size) ==
  /\ user_size' = [user_size EXCEPT ![b] = size]
  /\ owned' = owned \cup {b}

FzallocHeap(size) ==
  /\ z # "none" /\ AllocTooBig(size)
  /\ \E b \in HeapBlocks \ heap :
       /\ heap' = heap \cup {b}
       /\ malloc_list' = malloc_list \cup {b}
       /\ Give(b, size)
  /\ fault' = DanglingIn(malloc_list)
  /\ UNCHANGED <<z, zsize, slabOut>>

FzallocSlab(size) ==
  /\ z # "none" /\ ~AllocTooBig(size)
  /\ \E b \in SlabItems \ slabOut :
       /\ slabOut' = slabOut \cup {b}
       /\ Give(b, size)
  /\ UNCHANGED <<z, zsize, heap, malloc_list, fault>>

\* Freed as a heap block: unlinked from the list, given to the handler.
FzfreeHeap(b) ==
  /\ FreeTooBig(user_size[b])
  /\ malloc_list' = malloc_list \ {b}
  /\ heap' = heap \ {b}
  /\ fault' = IF b \in malloc_list /\ b \in heap
              THEN DanglingIn(malloc_list) ELSE "wrong_free"
  /\ UNCHANGED slabOut

FzfreeSlab(b) ==
  /\ ~FreeTooBig(user_size[b])
  /\ slabOut' = slabOut \ {b}
  /\ fault' = IF b \in slabOut THEN fault ELSE "wrong_free"
  /\ UNCHANGED <<malloc_list, heap>>

Fzfree(b) ==
  /\ z # "none" /\ b \in owned
  /\ owned' = owned \ {b}
  /\ FzfreeHeap(b) \/ FzfreeSlab(b)
  /\ user_size' = [user_size EXCEPT ![b] = 0]
  /\ UNCHANGED <<z, zsize>>

\* A faulty variant: only the slab is cleared.
HeapAfterClear_Untouched == heap
HeapAfterClear == heap \ malloc_list

\* ey_fzclear: the slab's pages and the listed blocks go back.  The list
\* keeps its elements, which dangle from now on.
Cleared(next) ==
  /\ z # "none"
  /\ z' = next
  /\ slabOut' = {}
  /\ heap' = HeapAfterClear
  /\ owned' = {}
  /\ user_size' = [b \in Blocks |-> 0]
  /\ fault' = DanglingIn(malloc_list)
  /\ UNCHANGED malloc_list

Fzclear == Cleared("cleared") /\ UNCHANGED zsize

\* ey_fzfinit: clear, then the fslab itself goes (its slab does not).
Fzfinit == Cleared("none") /\ zsize' = 0

\* The process dies, and another starts from nothing.
FslabLost ==
  /\ z' = "none" /\ zsize' = 0
  /\ slabOut' = {} /\ heap' = {} /\ malloc_list' = {}
  /\ user_size' = [b \in Blocks |-> 0]
  /\ owned' = {}
  /\ fault' = "none"

\* After something undefined the process does nothing that is known.
FslabNext ==
  \/ FslabLost
  \/ /\ fault = "none"
     /\ \/ \E size \in ConfigSizes : Fzinit(size)
        \/ \E size \in RequestSizes : FzallocHeap(size) \/ FzallocSlab(size)
        \/ \E b \in owned : Fzfree(b)
        \/ Fzclear \/ Fzfinit

FslabSpec == FslabInit /\ [][FslabNext]_fslabVars

-----------------------------------------------------------------------------
(* Properties                                                              *)

FslabTypeOK ==
  /\ z \in {"none", "live", "cleared"} /\ zsize \in Nat
  /\ slabOut \subseteq SlabItems
  /\ heap \subseteq HeapBlocks
  /\ malloc_list \subseteq Blocks
  /\ user_size \in [Blocks -> RequestSizes \cup {0}]
  /\ owned \subseteq Blocks
  /\ fault \in {"none", "wrong_free", "dangling"}

\* ey_fzfree gives a block back to the allocator it came from unless the block
\* is exactly as big as the slab's item (ey_fslab.c 80, 111): that one came
\* from the slab and is unlinked from the list and given to the handler, whose
\* ey_free knows it by no magic.  And no list operation touches freed memory
\* unless the fslab has been cleared (122-133).
BlocksGoBack ==
  [][/\ \A b \in owned :
          Fzfree(b) => fault' = IF ExactFit(user_size[b]) THEN "wrong_free" ELSE "none"
     /\ fault = "none" /\ fault' = "dangling" => z = "cleared"]_fslabVars

\* Until something undefined is done, every block the client owns is known to
\* exactly one allocator and nothing else is, so that a clear leaves nothing
\* behind; and the list holds exactly the heap blocks, unless a clear left old
\* ones on it, and then nothing of the fslab's has come from the heap since.
Accounted ==
  fault = "none" =>
    /\ owned = slabOut \cup heap
    /\ z = "none" => owned = {}
    /\ z # "none" => malloc_list = heap \/ (z = "cleared" /\ heap = {})

\* A block from the slab is big enough for what was asked, head included.
BigEnough ==
  fault = "none" =>
    \A b \in owned : b \in SlabItems => user_size[b] + HEAD_SIZE <= zsize
=============================================================================
