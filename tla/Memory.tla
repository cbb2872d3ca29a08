------------------------------- MODULE Memory -------------------------------
(***************************************************************************)
(* A flexible slab and the checked heap under it, as the decoders run      *)
(* them: ey_fzinit was given no handler, so what does not fit the slab is  *)
(* asked from ey_malloc and goes back by ey_free.  Other clients use the   *)
(* same heap, and libc may run out of memory at any call.  (The pages of   *)
(* the slab are to the heap what any other client's blocks are.)           *)
(***************************************************************************)
EXTENDS FSlab, Malloc

\* What ey_fzalloc asks of the handler: the head comes in front.
HeapRequest_NoHead(size) == size                               \* a faulty variant
HeapRequest(size) == size + HEAD_SIZE

ASSUME RequestsReachHeap == \A size \in RequestSizes : size + HEAD_SIZE \in Sizes

vars == <<fslabVars, mallocVars>>

Init == FslabInit /\ MallocInit

\* ey_malloc never answers NULL, so the slab is there unless it was refused.
FzinitOnHeap(size) == Fzinit(size) /\ (zsize' = 0 => SlabSizes(size) = {0})

FzallocFromHeap(size) ==
  /\ FzallocHeap(size)
  /\ EyMalloc(HeapRequest(size))
  /\ answer' \in heap' \ heap

Died == FslabLost /\ MallocLost

\* Without memory ey_fzinit and ey_fzalloc write what they believe they got, at
\* an address next to 0.
FzinitFailed == z # "live" /\ Died
FzallocFailed(size) == z # "none" /\ AllocTooBig(size) /\ Died

\* Whatever leaves the fslab's heap is freed by the same call.
Released == EyFreeAll(heap \ heap')

FslabStep ==
  \/ \E size \in ConfigSizes : FzinitOnHeap(size) /\ UNCHANGED mallocVars
  \/ FzinitFailed
  \/ (Fzclear \/ Fzfinit \/ \E b \in owned : Fzfree(b)) /\ Released
  \/ \E size \in RequestSizes :
       \/ FzallocFromHeap(size)
       \/ FzallocSlab(size) /\ UNCHANGED mallocVars
       \/ FzallocFailed(size)

\* The other clients keep to their own blocks.
ClientStep ==
  /\ \/ \E size \in Sizes : EyMalloc(size)
     \/ EyMallocZero \/ EyMallocFailed
     \/ \E b \in live : Write(b)
     \/ \E b \in live \ heap :
          \/ EyFree(b)
          \/ \E size \in Sizes : EyReallocSame(b, size) \/ EyReallocMove(b, size)
  /\ UNCHANGED fslabVars

\* Other clients' ey_realloc that dies takes the fslab with it.
ReallocFailed ==
  \E b \in live \ heap, size \in Sizes : EyReallocFailed(b, size) /\ FslabLost

\* What is undefined ends the process, sooner or later.
Undefined == fault # "none" /\ Died

Next == (fault = "none" /\ (FslabStep \/ ClientStep \/ ReallocFailed)) \/ Undefined

Spec == Init /\ [][Next]_vars

-----------------------------------------------------------------------------
(* Properties                                                              *)

\* Every heap block of the fslab's is its own on the heap and has room for the
\* head and for what was asked: neither the links of the list nor the owner's
\* data can reach a freed block or the magic word.
ListedFit ==
  fault = "none" =>
    \A b \in heap : b \in live /\ user_size[b] + HEAD_SIZE <= real_size[b]

\* So it stays, exact fits among the blocks or not, until something undefined is
\* done; and what the client does not own, after ey_fzclear and ey_fzfinit
\* nothing, is left in neither allocator (ey_fslab.c 72-145).
BlocksAccounted == ListedFit /\ Accounted
=============================================================================
