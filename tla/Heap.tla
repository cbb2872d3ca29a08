-------------------------------- MODULE Heap --------------------------------
(***************************************************************************)
(* What include/ey_memory.h gives every allocator of libmemory, and the    *)
(* addresses that come from libc in the end.                               *)
(***************************************************************************)
EXTENDS Naturals

CONSTANT HeapBlocks      \* addresses libc malloc can return

MEM_ROUNDING == 8
\* The mask drops the low bits after rounding up.
REAL_SIZE_Down(n) == (n \div MEM_ROUNDING) * MEM_ROUNDING   \* a faulty variant
REAL_SIZE(n) == ((n + MEM_ROUNDING - 1) \div MEM_ROUNDING) * MEM_ROUNDING
=============================================================================
