------------------------------- MODULE Malloc -------------------------------
(***************************************************************************)
(* The checked heap of libmemory/ey_malloc.c: a block carries its rounded  *)
(* size before it and a magic word behind it, by which ey_free knows an    *)
(* overrun.  One client allocates, grows, shrinks, writes and frees; libc  *)
(* malloc may fail at any call.                                            *)
(***************************************************************************)
EXTENDS Heap

CONSTANT Sizes            \* the sizes clients ask for

ASSUME SizesAssumption == Sizes \subseteq Nat /\ 0 \in Sizes

NULL == "NULL"
\* HEAD2PTR(NULL): the address just behind a head at address 0.
NearNull == "HEAD2PTR(NULL)"
ASSUME AnswersAssumption == NULL \notin HeapBlocks /\ NearNull \notin HeapBlocks
Answers == HeapBlocks \cup {NULL, NearNull}

VARIABLES
  live,        \* blocks allocated from libc and not freed
  real_size,   \* per live block, the size in its head
  want,        \* per live block, the size the client last asked for
  filled,      \* per live block, how many of its bytes hold client data
  overwritten, \* the live blocks whose magic word has been written over
  answer       \* what the last call returned

mallocVars == <<live, real_size, want, filled, overwritten, answer>>

MallocInit ==
  /\ live = {}
  /\ real_size = [b \in HeapBlocks |-> 0]
  /\ want = [b \in HeapBlocks |-> 0]
  /\ filled = [b \in HeapBlocks |-> 0]
  /\ overwritten = {}
  /\ answer = NULL

New(b, size, keep) ==
  /\ real_size' = [real_size EXCEPT ![b] = REAL_SIZE(size)]
  /\ want' = [want EXCEPT ![b] = size]
  /\ filled' = [filled EXCEPT ![b] = keep]
  /\ answer' = b

EyMalloc(size) ==
  /\ size # 0
  /\ \E b \in HeapBlocks \ live :
       /\ live' = live \cup {b}
       /\ New(b, size, 0)
  /\ UNCHANGED overwritten

\* Size 0 is answered NULL before libc is asked.
EyMallocZero ==
  /\ answer' = NULL
  /\ UNCHANGED <<live, real_size, want, filled, overwritten>>

\* When libc has no memory the head is NULL and what is returned is not.
EyMallocFailed ==
  /\ answer' = NearNull
  /\ UNCHANGED <<live, real_size, want, filled, overwritten>>

\* ey_free of each of these blocks: one that has lost its magic word ends the
\* process (MallocLost).
EyFreeAll(bs) ==
  /\ bs \subseteq live \ overwritten
  /\ live' = live \ bs
  /\ real_size' = [b \in HeapBlocks |-> IF b \in bs THEN 0 ELSE real_size[b]]
  /\ want' = [b \in HeapBlocks |-> IF b \in bs THEN 0 ELSE want[b]]
  /\ filled' = [b \in HeapBlocks |-> IF b \in bs THEN 0 ELSE filled[b]]
  /\ UNCHANGED <<overwritten, answer>>

EyFree(b) == EyFreeAll({b})

\* ey_realloc within the block's real size returns the same block.
Fits(b, size) == real_size[b] >= REAL_SIZE(size)

\* What a smaller answer keeps of the data is what the client asked for.
Kept(b, size) == IF filled[b] <= size THEN filled[b] ELSE size

EyReallocSame(b, size) ==
  /\ b \in live /\ Fits(b, size)
  /\ want' = [want EXCEPT ![b] = size]
  /\ filled' = [filled EXCEPT ![b] = Kept(b, size)]
  /\ answer' = b
  /\ UNCHANGED <<live, real_size, overwritten>>

\* How many bytes the memcpy of a move is told to copy.
CopyLength_Words(b) == real_size[b] \div MEM_ROUNDING          \* a faulty variant
CopyLength(b) == real_size[b]

\* What arrives of the client's data.
Copied(b) == IF filled[b] <= CopyLength(b) THEN filled[b] ELSE CopyLength(b)

\* n's magic word is behind its room bytes.
Overwrites(n, bytes, room) == IF bytes > room THEN overwritten \cup {n} ELSE overwritten

\* Growing moves: a new block, the old one's real size copied, the old freed.
EyReallocMove(b, size) ==
  /\ b \in live \ overwritten /\ ~Fits(b, size)
  /\ \E n \in HeapBlocks \ live :
       /\ live' = (live \ {b}) \cup {n}
       /\ real_size' = [real_size EXCEPT ![b] = 0, ![n] = REAL_SIZE(size)]
       /\ want' = [want EXCEPT ![b] = 0, ![n] = size]
       /\ filled' = [filled EXCEPT ![b] = 0, ![n] = Copied(b)]
       /\ overwritten' = Overwrites(n, CopyLength(b), REAL_SIZE(size))
       /\ answer' = n

\* The process dies, and another starts from nothing.
MallocLost ==
  /\ live' = {} /\ overwritten' = {} /\ answer' = NULL
  /\ real_size' = [b \in HeapBlocks |-> 0]
  /\ want' = [b \in HeapBlocks |-> 0]
  /\ filled' = [b \in HeapBlocks |-> 0]

\* ey_realloc does not see that ey_malloc failed, and its memcpy writes just
\* behind address 0, which kills the process.
EyReallocFailed(b, size) == b \in live /\ ~Fits(b, size) /\ MallocLost

\* The client fills a block it owns, up to the size it asked for.
Write(b) ==
  /\ b \in live
  /\ filled' = [filled EXCEPT ![b] = want[b]]
  /\ overwritten' = Overwrites(b, want[b], real_size[b])
  /\ UNCHANGED <<live, real_size, want, answer>>

MallocNext ==
  \/ \E size \in Sizes : EyMalloc(size)
  \/ EyMallocZero \/ EyMallocFailed \/ MallocLost
  \/ \E bs \in SUBSET live : EyFreeAll(bs)
  \/ \E b \in live : Write(b)
  \/ \E b \in live, size \in Sizes :
       EyReallocSame(b, size) \/ EyReallocMove(b, size)

MallocSpec == MallocInit /\ [][MallocNext]_mallocVars

-----------------------------------------------------------------------------
(* Properties                                                              *)

MallocTypeOK ==
  /\ live \subseteq HeapBlocks
  /\ real_size \in [HeapBlocks -> Nat] /\ want \in [HeapBlocks -> Sizes]
  /\ filled \in [HeapBlocks -> Nat]
  /\ overwritten \subseteq live
  /\ answer \in Answers

\* The variables have their types, and no block of a client that stays within
\* what it asked for has lost its magic word, neither to the client nor to a copy
\* of ey_realloc's: no "memory overwrite" (ey_malloc.c 43) without an overrun.
CapacityCovers ==
  MallocTypeOK /\ overwritten = {} /\ \A b \in live : filled[b] <= want[b]

\* Where a block moves, the copy brings along everything the client has put
\* there, however the block was grown, shrunk and filled before (ey_malloc.c
\* 56-68): what the head says is never less than what the client filled.
ReallocKeepsData ==
  [][\A b \in live \ live', n \in live' \ live : filled'[n] = filled[b]]_mallocVars
=============================================================================
