---------------------------- MODULE MemoryProofs ----------------------------
(***************************************************************************)
(* The flexible slab and the checked heap, each alone, and the two         *)
(* together: every step of Memory is a step of each, so what holds of them *)
(* apart holds of the composition.                                         *)
(*                                                                         *)
(* Nothing is assumed of the sizes asked for: a block exactly as big as    *)
(* the slab's item is where ey_fzalloc and ey_fzfree disagree, and the     *)
(* theorems say what comes of it.                                          *)
(***************************************************************************)
EXTENDS Memory, TLAPS

\* A block's size tells which allocator it came from.
SizeTellsOrigin ==
  \A b \in owned :
    /\ user_size[b] \in RequestSizes
    /\ b \in HeapBlocks <=> AllocTooBig(user_size[b])

\* What holds until something undefined is done.
FSlabSound == Accounted /\ BigEnough /\ SizeTellsOrigin

FSlabInv == FslabTypeOK /\ (fault = "none" => FSlabSound)

LEMMA SlabSizesAreNat ==
  ASSUME NEW size \in ConfigSizes
  PROVE  SlabSizes(size) \subseteq Nat
BY RequestsAssumption DEF SlabSizes, ItemSize, REAL_SIZE, MEM_ROUNDING, HEAD_SIZE

\* The two tests agree on every size but the slab's item size, on which only
\* ey_fzfree takes the block for too big.
LEMMA TestsAgree ==
  ASSUME FslabTypeOK, NEW size \in RequestSizes
  PROVE  /\ FreeTooBig(size) <=> AllocTooBig(size) \/ ExactFit(size)
         /\ ExactFit(size) => ~AllocTooBig(size)
<1> size + HEAD_SIZE \in Nat /\ size + HEAD_SIZE # 0 /\ zsize \in Nat
  BY RequestsAssumption DEF HEAD_SIZE, FslabTypeOK
<1> QED
  BY DEF FreeTooBig, AllocTooBig, ExactFit

\* Freeing a block in a sound state: it goes where its size says.
LEMMA FreeStrays ==
  ASSUME FSlabInv, fault = "none", NEW b \in owned, Fzfree(b)
  PROVE  /\ fault' = IF ExactFit(user_size[b]) THEN "wrong_free" ELSE "none"
         /\ fault' = "none" =>
              /\ b \in HeapBlocks =>
                   heap' = heap \ {b} /\ malloc_list' = malloc_list \ {b} /\ slabOut' = slabOut
              /\ b \notin HeapBlocks =>
                   heap' = heap /\ malloc_list' = malloc_list /\ slabOut' = slabOut \ {b}
         /\ heap' \subseteq heap /\ malloc_list' \subseteq malloc_list
         /\ slabOut' \subseteq slabOut
<1> USE ItemsAssumption DEF FSlabInv, FSlabSound
<1>1. /\ user_size[b] \in RequestSizes
      /\ FreeTooBig(user_size[b]) <=> b \in HeapBlocks \/ ExactFit(user_size[b])
      /\ b \in HeapBlocks => ~ExactFit(user_size[b])
  BY TestsAgree DEF SizeTellsOrigin
<1>2. /\ b \in HeapBlocks => b \in heap /\ b \in malloc_list /\ malloc_list = heap
      /\ b \notin HeapBlocks => b \in slabOut /\ b \notin heap
  BY DEF Fzfree, Accounted, FslabTypeOK
<1>3. CASE FzfreeHeap(b)
  BY <1>1, <1>2, <1>3 DEF FzfreeHeap, DanglingIn
<1>4. CASE FzfreeSlab(b)
  BY <1>1, <1>2, <1>4 DEF FzfreeSlab
<1> QED
  BY <1>3, <1>4 DEF Fzfree

LEMMA FSlabStepKeeps ==
  ASSUME FSlabInv, [FslabNext]_fslabVars
  PROVE  FSlabInv'
<1> USE ItemsAssumption DEF FSlabInv, FSlabSound, Blocks
<1>1. CASE UNCHANGED fslabVars
  BY <1>1 DEF fslabVars, FslabTypeOK, Accounted, BigEnough, SizeTellsOrigin, AllocTooBig
<1>2. ASSUME NEW size \in ConfigSizes, fault = "none", Fzinit(size) PROVE FSlabInv'
  <2>1. zsize' \in Nat
    BY <1>2, SlabSizesAreNat DEF Fzinit
  <2>2. owned = {} /\ heap = {}
    BY <1>2 DEF Fzinit, Accounted
  <2> QED
    BY <1>2, <2>1, <2>2 DEF Fzinit, FslabTypeOK, Accounted, BigEnough, SizeTellsOrigin
<1>3. ASSUME NEW size \in RequestSizes, fault = "none", FzallocHeap(size) PROVE FSlabInv'
  <2>1. PICK b \in HeapBlocks \ heap :
          /\ heap' = heap \cup {b}
          /\ malloc_list' = malloc_list \cup {b}
          /\ Give(b, size)
    BY <1>3 DEF FzallocHeap
  <2>2. FslabTypeOK'
    BY <1>3, <2>1 DEF FzallocHeap, Give, DanglingIn, FslabTypeOK
  <2>3. fault' = "none" => malloc_list \subseteq heap
    BY <1>3 DEF FzallocHeap, DanglingIn
  <2>4. Accounted'
    BY <1>3, <2>1, <2>3 DEF FzallocHeap, Give, FslabTypeOK, Accounted
  <2>5. BigEnough' /\ SizeTellsOrigin'
    BY <1>3, <2>1 DEF FzallocHeap, Give, FslabTypeOK, BigEnough, SizeTellsOrigin, AllocTooBig
  <2> QED
    BY <2>2, <2>4, <2>5
<1>4. ASSUME NEW size \in RequestSizes, fault = "none", FzallocSlab(size) PROVE FSlabInv'
  <2>1. PICK b \in SlabItems \ slabOut : slabOut' = slabOut \cup {b} /\ Give(b, size)
    BY <1>4 DEF FzallocSlab
  <2>2. FslabTypeOK' /\ Accounted'
    BY <1>4, <2>1 DEF FzallocSlab, Give, FslabTypeOK, Accounted
  <2>3. size + HEAD_SIZE <= zsize
    BY <1>4, RequestsAssumption DEF FzallocSlab, AllocTooBig, HEAD_SIZE, FslabTypeOK
  <2>4. BigEnough' /\ SizeTellsOrigin'
    BY <1>4, <2>1, <2>3 DEF FzallocSlab, Give, FslabTypeOK, BigEnough, SizeTellsOrigin, AllocTooBig
  <2> QED
    BY <2>2, <2>4
<1>5. ASSUME NEW b \in owned, fault = "none", Fzfree(b) PROVE FSlabInv'
  <2>1. FslabTypeOK'
    BY <1>5, FreeStrays DEF Fzfree, FslabTypeOK
  <2>2. fault' = "none" => Accounted'
    BY <1>5, FreeStrays DEF Fzfree, Accounted, FslabTypeOK
  <2>3. BigEnough' /\ SizeTellsOrigin'
    BY <1>5 DEF Fzfree, BigEnough, SizeTellsOrigin, AllocTooBig, FslabTypeOK
  <2> QED
    BY <2>1, <2>2, <2>3
<1>6. CASE fault = "none" /\ (Fzclear \/ Fzfinit)
  <2>1. /\ owned' = {} /\ slabOut' = {} /\ fault' \in {"none", "dangling"}
        /\ z' \in {"none", "cleared"} /\ zsize' \in Nat /\ heap' \subseteq heap
        /\ malloc_list' = malloc_list /\ user_size' = [c \in Blocks |-> 0]
    BY <1>6 DEF Fzclear, Fzfinit, Cleared, HeapAfterClear, DanglingIn, FslabTypeOK
  <2>2. heap' = {}
    BY <1>6 DEF Fzclear, Fzfinit, Cleared, HeapAfterClear, Accounted
  <2> QED
    BY <2>1, <2>2 DEF FslabTypeOK, Accounted, BigEnough, SizeTellsOrigin
<1>7. CASE FslabLost
  BY <1>7 DEF FslabLost, FslabTypeOK, Accounted, BigEnough, SizeTellsOrigin
<1> QED
  BY <1>1, <1>2, <1>3, <1>4, <1>5, <1>6, <1>7 DEF FslabNext

\* The invariant behind the two theorems below, for every order of calls.
THEOREM FSlabInvariant == FslabSpec => []FSlabInv
<1>1. FslabInit => FSlabInv
  BY DEF FslabInit, FSlabInv, FSlabSound, FslabTypeOK, Accounted, BigEnough, SizeTellsOrigin
<1>2. FSlabInv /\ [FslabNext]_fslabVars => FSlabInv'
  BY FSlabStepKeeps
<1> QED
  BY <1>1, <1>2, PTL DEF FslabSpec

\* Whatever sizes are asked for and in whatever order: a block goes back to
\* where it came from, the exact fits and only these go astray, and only a list
\* that was cleared leads into freed memory.
THEOREM FSlabCorrect == FslabSpec => BlocksGoBack
<1>1. ASSUME FSlabInv, [FslabNext]_fslabVars
      PROVE  [/\ \A b \in owned :
                   Fzfree(b) => fault' = IF ExactFit(user_size[b]) THEN "wrong_free" ELSE "none"
              /\ fault = "none" /\ fault' = "dangling" => z = "cleared"]_fslabVars
  <2> SUFFICES ASSUME ~UNCHANGED fslabVars
               PROVE  /\ \A b \in owned : Fzfree(b) =>
                           fault' = IF ExactFit(user_size[b]) THEN "wrong_free" ELSE "none"
                      /\ fault = "none" /\ fault' = "dangling" => z = "cleared"
    OBVIOUS
  <2>1. CASE FslabLost
    BY <2>1 DEF FslabLost, Fzfree
  <2>2. CASE ~FslabLost
    <3>1. fault = "none"
      BY <1>1, <2>2 DEF FslabNext
    <3>2. \A b \in owned : Fzfree(b) =>
            fault' = IF ExactFit(user_size[b]) THEN "wrong_free" ELSE "none"
      BY <1>1, <3>1, FreeStrays
    <3>3. ASSUME fault' = "dangling", z # "cleared" PROVE FALSE
      <4>1. z # "none" => malloc_list \subseteq heap
        BY <1>1, <3>1, <3>3 DEF FSlabInv, FSlabSound, Accounted
      <4>2. (\A size \in ConfigSizes : ~Fzinit(size)) /\ \A size \in RequestSizes : ~FzallocSlab(size)
        BY <3>1, <3>3 DEF Fzinit, FzallocSlab
      <4>3. \A size \in RequestSizes : ~FzallocHeap(size)
        BY <3>1, <3>3, <4>1 DEF FzallocHeap, DanglingIn
      <4>4. ~Fzclear /\ ~Fzfinit
        BY <3>1, <3>3, <4>1 DEF Fzclear, Fzfinit, Cleared, DanglingIn
      <4>5. PICK b \in owned : Fzfree(b)
        BY <1>1, <2>2, <4>2, <4>3, <4>4 DEF FslabNext
      <4> QED  BY <3>2, <3>3, <4>5
    <3> QED  BY <3>2, <3>3
  <2> QED  BY <2>1, <2>2
<1> QED
  BY <1>1, FSlabInvariant, PTL DEF FslabSpec, BlocksGoBack

\* Until then the client's blocks are exactly those the two allocators count, a
\* clear leaves nothing in either, and a slab item holds its head and its data.
THEOREM FSlabAccounted == FslabSpec => [](Accounted /\ BigEnough)
<1>1. FSlabInv => Accounted /\ BigEnough
  BY DEF FSlabInv, FSlabSound, Accounted, BigEnough
<1> QED
  BY <1>1, FSlabInvariant, PTL

-----------------------------------------------------------------------------
(* The checked heap, for any blocks and any sizes.                         *)

\* A head holds a rounded size: only so is a block that has to move no bigger
\* than what it moves to.
Rounded == \A b \in HeapBlocks : real_size[b] % MEM_ROUNDING = 0

\* It holds what was asked, so that filling the block spares the magic word.
Covers == \A b \in live : want[b] <= real_size[b]

MallocInv == CapacityCovers /\ Rounded /\ Covers

\* Rounding up never loses a byte.
LEMMA RealSizeCovers ==
  ASSUME NEW n \in Nat
  PROVE  /\ REAL_SIZE(n) \in Nat /\ n <= REAL_SIZE(n)
         /\ REAL_SIZE(n) % MEM_ROUNDING = 0
BY DEF REAL_SIZE, MEM_ROUNDING

\* What is rounded and below the rounded size is below the size.
LEMMA RoundedBelow ==
  ASSUME NEW m \in Nat, NEW n \in Nat, m % MEM_ROUNDING = 0, m < REAL_SIZE(n)
  PROVE  m <= n
BY DEF REAL_SIZE, MEM_ROUNDING

LEMMA ZeroRounded == 0 % MEM_ROUNDING = 0
BY DEF MEM_ROUNDING

\* What EyRealloc keeps of the data is within the new size.
LEMMA KeptWithin ==
  ASSUME MallocTypeOK, NEW b \in HeapBlocks, NEW size \in Nat
  PROVE  Kept(b, size) \in Nat /\ Kept(b, size) <= size
BY DEF Kept, MallocTypeOK

\* The memcpy of a move carries all of the client's data and ends within the
\* new block, whose size it does not exceed.
LEMMA MoveKeeps ==
  ASSUME MallocInv, NEW b \in live, NEW size \in Nat, ~Fits(b, size)
  PROVE  /\ Copied(b) = filled[b] /\ filled[b] <= size
         /\ CopyLength(b) <= REAL_SIZE(size)
<1>1. real_size[b] \in Nat /\ want[b] \in Nat /\ filled[b] \in Nat /\ b \in HeapBlocks
  BY SizesAssumption DEF MallocInv, CapacityCovers, MallocTypeOK
<1>2. real_size[b] % MEM_ROUNDING = 0 /\ filled[b] <= want[b] /\ want[b] <= real_size[b]
  BY <1>1 DEF MallocInv, Rounded, CapacityCovers, Covers
<1>3. REAL_SIZE(size) \in Nat /\ real_size[b] < REAL_SIZE(size)
  BY <1>1, RealSizeCovers DEF Fits
<1>4. real_size[b] <= size
  BY <1>1, <1>2, <1>3, RoundedBelow
<1> QED
  BY <1>1, <1>2, <1>3, <1>4 DEF Copied, CopyLength

LEMMA MallocStepKeeps ==
  ASSUME MallocInv, [MallocNext]_mallocVars
  PROVE  MallocInv'
<1> USE SizesAssumption, AnswersAssumption, ZeroRounded
    DEF MallocInv, Rounded, Covers, CapacityCovers, MallocTypeOK, Answers
<1>1. CASE UNCHANGED mallocVars
  BY <1>1 DEF mallocVars
<1>2. ASSUME NEW size \in Sizes, EyMalloc(size) PROVE MallocInv'
  BY <1>2, RealSizeCovers DEF EyMalloc, New
<1>3. CASE EyMallocZero \/ EyMallocFailed
  BY <1>3 DEF EyMallocZero, EyMallocFailed
<1>4. ASSUME NEW bs \in SUBSET live, EyFreeAll(bs) PROVE MallocInv'
  BY <1>4 DEF EyFreeAll
<1>5. ASSUME NEW b \in live, Write(b) PROVE MallocInv'
  <2>1. want[b] \in Nat /\ filled' = [filled EXCEPT ![b] = want[b]]
    BY <1>5 DEF Write
  <2>2. UNCHANGED <<live, real_size, want, answer>>
    BY <1>5 DEF Write
  <2>3. overwritten' = {}
    <3>1. want[b] \in Nat /\ real_size[b] \in Nat /\ want[b] <= real_size[b]
      OBVIOUS
    <3>2. ~(want[b] > real_size[b])
      BY ONLY <3>1
    <3> QED  BY <1>5, <3>2 DEF Write, Overwrites
  <2> QED
    BY <2>1, <2>2, <2>3
<1>6. ASSUME NEW b \in live, NEW size \in Sizes, EyReallocSame(b, size) PROVE MallocInv'
  <2>1. size <= real_size[b]
    BY <1>6, RealSizeCovers DEF EyReallocSame, Fits
  <2>2. Kept(b, size) \in Nat /\ Kept(b, size) <= size
    BY KeptWithin
  <2> QED
    BY <1>6, <2>1, <2>2 DEF EyReallocSame
<1>7. ASSUME NEW b \in live, NEW size \in Sizes, EyReallocMove(b, size) PROVE MallocInv'
  <2>1. PICK n \in HeapBlocks \ live :
          /\ live' = (live \ {b}) \cup {n}
          /\ real_size' = [real_size EXCEPT ![b] = 0, ![n] = REAL_SIZE(size)]
          /\ want' = [want EXCEPT ![b] = 0, ![n] = size]
          /\ filled' = [filled EXCEPT ![b] = 0, ![n] = Copied(b)]
          /\ overwritten' = Overwrites(n, CopyLength(b), REAL_SIZE(size))
          /\ answer' = n
    BY <1>7 DEF EyReallocMove
  <2>2. REAL_SIZE(size) \in Nat /\ size <= REAL_SIZE(size) /\ REAL_SIZE(size) % MEM_ROUNDING = 0
    BY RealSizeCovers
  <2>3. size \in Nat /\ ~Fits(b, size)
    BY <1>7 DEF EyReallocMove
  <2>4. Copied(b) \in Nat /\ Copied(b) <= size /\ CopyLength(b) <= REAL_SIZE(size)
    BY <2>3, MoveKeeps
  <2>5. overwritten' = {}
    <3>1. CopyLength(b) \in Nat
      BY DEF CopyLength
    <3> QED  BY <2>1, <2>2, <2>4, <3>1 DEF Overwrites
  <2>6. b # n
    BY <2>1
  <2> QED
    BY <2>1, <2>2, <2>4, <2>5, <2>6
<1>8. CASE MallocLost
  BY <1>8 DEF MallocLost
<1> QED
  BY <1>1, <1>2, <1>3, <1>4, <1>5, <1>6, <1>7, <1>8 DEF MallocNext

\* The inductive invariant: sizes in heads are rounded and cover what was asked.
THEOREM MallocInvariant == MallocSpec => []MallocInv
<1>1. MallocInit => MallocInv
  BY SizesAssumption, ZeroRounded
     DEF MallocInit, MallocInv, Rounded, Covers, CapacityCovers, MallocTypeOK, Answers
<1> QED  BY <1>1, MallocStepKeeps, PTL DEF MallocSpec

\* A client that stays within what it asked for never reaches the magic word
\* behind its block, nor does a copy, whatever blocks grew and shrank before.
THEOREM MallocCapacity == MallocSpec => []CapacityCovers
<1>1. MallocInv => CapacityCovers  BY DEF MallocInv
<1> QED  BY <1>1, MallocInvariant, PTL

\* The bytes ey_realloc copies are all the client has filled, wherever it moves
\* a block: what the head says is never less (MoveKeeps).
THEOREM MallocKeepsData == MallocSpec => ReallocKeepsData
<1>1. ASSUME MallocInv, [MallocNext]_mallocVars
      PROVE  \A b \in live \ live', n \in live' \ live : filled'[n] = filled[b]
  <2> SUFFICES ASSUME NEW b \in live \ live', NEW n \in live' \ live
               PROVE  filled'[n] = filled[b]
    OBVIOUS
  <2>1. PICK c \in live, size \in Sizes : EyReallocMove(c, size)
    <3>1. ~UNCHANGED mallocVars
      BY DEF mallocVars
    <3>2. ~(EyMallocZero \/ EyMallocFailed \/ MallocLost)
      BY DEF EyMallocZero, EyMallocFailed, MallocLost
    <3>3. \A s \in Sizes : ~EyMalloc(s)
      BY DEF EyMalloc
    <3>4. (\A bs \in SUBSET live : ~EyFreeAll(bs)) /\ \A c \in live : ~Write(c)
      BY DEF EyFreeAll, Write
    <3>5. \A c \in live, s \in Sizes : ~EyReallocSame(c, s)
      BY DEF EyReallocSame
    <3> QED  BY <1>1, <3>1, <3>2, <3>3, <3>4, <3>5 DEF MallocNext
  <2>2. PICK m \in HeapBlocks \ live :
          /\ live' = (live \ {c}) \cup {m}
          /\ filled' = [filled EXCEPT ![c] = 0, ![m] = Copied(c)]
    BY <2>1 DEF EyReallocMove
  <2>3. b = c /\ n = m
    BY <2>2
  <2>4. Copied(c) = filled[c]
    BY <1>1, <2>1, SizesAssumption, MoveKeeps DEF EyReallocMove
  <2>5. filled \in [HeapBlocks -> Nat]
    BY <1>1 DEF MallocInv, CapacityCovers, MallocTypeOK
  <2> QED
    BY <2>2, <2>3, <2>4, <2>5
<1> QED  BY <1>1, MallocInvariant, PTL DEF MallocSpec, ReallocKeepsData

-----------------------------------------------------------------------------
(* The composition                                                         *)

\* A client's step is one of the heap's and leaves the fslab alone.
LEMMA ClientIsMalloc ==
  ASSUME ClientStep
  PROVE  MallocNext /\ UNCHANGED fslabVars
<1>1. (\E b \in live \ heap : EyFree(b)) => \E bs \in SUBSET live : EyFreeAll(bs)
  BY DEF EyFree
<1> QED
  BY <1>1 DEF ClientStep, MallocNext

\* Every step of the composition is a step of the flexible slab.
LEMMA StepIsFslab ==
  ASSUME [Next]_vars
  PROVE  [FslabNext]_fslabVars
<1>1. CASE UNCHANGED vars
  BY <1>1 DEF vars
<1>2. CASE fault = "none" /\ FslabStep
  BY <1>2 DEF FslabStep, FzinitOnHeap, FzinitFailed, FzallocFromHeap, FzallocFailed, Died, FslabNext
<1>3. CASE ClientStep
  BY <1>3, ClientIsMalloc
<1>4. CASE ReallocFailed \/ Undefined
  BY <1>4 DEF ReallocFailed, Undefined, Died, FslabNext
<1> QED
  BY <1>1, <1>2, <1>3, <1>4 DEF Next

\* And one of the checked heap: all it asks for is a size the heap serves.
LEMMA StepIsMalloc ==
  ASSUME [Next]_vars
  PROVE  [MallocNext]_mallocVars
<1>1. CASE UNCHANGED vars
  BY <1>1 DEF vars
<1>2. CASE FslabStep
  <2>1. CASE Released
    BY <2>1 DEF Released, EyFreeAll, MallocNext
  <2>2. ASSUME NEW size \in RequestSizes, FzallocFromHeap(size) PROVE MallocNext
    <3>1. HeapRequest(size) \in Sizes
      BY RequestsReachHeap DEF HeapRequest
    <3> QED  BY <2>2, <3>1 DEF FzallocFromHeap, MallocNext
  <2>3. CASE FzinitFailed \/ \E size \in RequestSizes : FzallocFailed(size)
    BY <2>3 DEF FzinitFailed, FzallocFailed, Died, MallocNext
  <2> QED  BY <1>2, <2>1, <2>2, <2>3 DEF FslabStep
<1>3. CASE ClientStep
  BY <1>3, ClientIsMalloc
<1>4. CASE ReallocFailed \/ Undefined
  BY <1>4 DEF ReallocFailed, EyReallocFailed, Undefined, Died, MallocNext
<1> QED
  BY <1>1, <1>2, <1>3, <1>4 DEF Next

\* The composition implements both of its parts.
THEOREM MemoryImplements == Spec => FslabSpec /\ MallocSpec
<1>1. Init => FslabInit /\ MallocInit
  BY DEF Init
<1>2. [Next]_vars => [FslabNext]_fslabVars /\ [MallocNext]_mallocVars
  BY StepIsFslab, StepIsMalloc
<1> QED
  BY <1>1, <1>2, PTL DEF Spec, FslabSpec, MallocSpec

\* What the fslab has on the heap stays allocated and big enough, step by step.
LEMMA ListedFitStep ==
  ASSUME FSlabInv, MallocInv, ListedFit, [Next]_vars
  PROVE  ListedFit'
<1> USE ItemsAssumption DEF FSlabInv, FSlabSound, FslabTypeOK, Blocks,
        MallocInv, CapacityCovers, MallocTypeOK
<1>1. CASE UNCHANGED vars
  BY <1>1 DEF vars, fslabVars, mallocVars, ListedFit
<1>2. ASSUME fault = "none", FslabStep PROVE ListedFit'
  <2>1. ASSUME NEW size \in ConfigSizes, FzinitOnHeap(size), UNCHANGED mallocVars
        PROVE  ListedFit'
    BY <2>1 DEF FzinitOnHeap, Fzinit, mallocVars, ListedFit
  <2>2. CASE Fzclear \/ Fzfinit
    BY <1>2, <2>2 DEF Fzclear, Fzfinit, Cleared, HeapAfterClear, Accounted, ListedFit
  <2>3. ASSUME NEW b \in owned, Fzfree(b), Released PROVE ListedFit'
    <3>1. heap' \subseteq heap /\ (fault' = "none" => b \notin heap')
      BY <1>2, <2>3, FreeStrays DEF Fzfree, Accounted
    <3>2. \A c \in heap' : c # b => user_size'[c] = user_size[c]
      BY <2>3, <3>1 DEF Fzfree
    <3>3. \A c \in heap' : (c \in live => c \in live') /\ real_size'[c] = real_size[c]
      BY <2>3, <3>1 DEF Released, EyFreeAll
    <3> QED  BY <1>2, <3>1, <3>2, <3>3 DEF ListedFit
  <2>4. ASSUME NEW size \in RequestSizes, FzallocFromHeap(size) PROVE ListedFit'
    <3>1. PICK b \in HeapBlocks \ heap :
            heap' = heap \cup {b} /\ user_size' = [user_size EXCEPT ![b] = size]
      BY <2>4 DEF FzallocFromHeap, FzallocHeap, Give
    <3>2. PICK n \in HeapBlocks \ live :
            /\ live' = live \cup {n} /\ answer' = n
            /\ real_size' = [real_size EXCEPT ![n] = REAL_SIZE(size + HEAD_SIZE)]
      BY <2>4 DEF FzallocFromHeap, EyMalloc, New, HeapRequest
    <3>3. n = b
      BY <2>4, <3>1, <3>2 DEF FzallocFromHeap
    <3>4. size \in Nat /\ size + HEAD_SIZE \in Nat
      BY RequestsAssumption DEF HEAD_SIZE
    <3>5. size + HEAD_SIZE <= REAL_SIZE(size + HEAD_SIZE)
      BY <3>4, RealSizeCovers
    <3> QED  BY <1>2, <3>1, <3>2, <3>3, <3>5 DEF ListedFit
  <2>5. ASSUME NEW size \in RequestSizes, FzallocSlab(size), UNCHANGED mallocVars
        PROVE  ListedFit'
    <3>1. PICK b \in SlabItems \ slabOut : user_size' = [user_size EXCEPT ![b] = size]
      BY <2>5 DEF FzallocSlab, Give
    <3> QED  BY <1>2, <2>5, <3>1 DEF FzallocSlab, mallocVars, ListedFit
  <2>6. CASE FslabLost
    BY <2>6 DEF FslabLost, ListedFit
  <2> QED
    BY <1>2, <2>1, <2>2, <2>3, <2>4, <2>5, <2>6 DEF FslabStep, FzinitFailed, FzallocFailed, Died
<1>3. CASE ClientStep
  <2>1. UNCHANGED fslabVars
    BY <1>3, ClientIsMalloc
  <2>2. ASSUME NEW c \in heap, c \in live
        PROVE  c \in live' /\ real_size'[c] = real_size[c]
    <3>1. ASSUME NEW size \in Sizes, EyMalloc(size) PROVE c \in live' /\ real_size'[c] = real_size[c]
      BY <2>2, <3>1 DEF EyMalloc, New
    <3>2. CASE EyMallocZero \/ EyMallocFailed \/ \E b \in live : Write(b)
      BY <2>2, <3>2 DEF EyMallocZero, EyMallocFailed, Write
    <3>3. ASSUME NEW b \in live \ heap, EyFree(b) PROVE c \in live' /\ real_size'[c] = real_size[c]
      BY <2>2, <3>3 DEF EyFree, EyFreeAll
    <3>4. ASSUME NEW b \in live \ heap, NEW size \in Sizes,
                 EyReallocSame(b, size) \/ EyReallocMove(b, size)
          PROVE  c \in live' /\ real_size'[c] = real_size[c]
      BY <2>2, <3>4 DEF EyReallocSame, EyReallocMove
    <3> QED  BY <1>3, <3>1, <3>2, <3>3, <3>4 DEF ClientStep
  <2> QED  BY <2>1, <2>2 DEF fslabVars, ListedFit
<1>4. CASE ReallocFailed \/ Undefined
  BY <1>4 DEF ReallocFailed, Undefined, Died, FslabLost, ListedFit
<1> QED
  BY <1>1, <1>2, <1>3, <1>4 DEF Next

\* The fslab's heap blocks are allocated on the heap, and their rounded sizes
\* hold the head and what was asked, whatever the other clients do.
THEOREM MemoryListedFit == Spec => []ListedFit
<1>1. Spec => [](FSlabInv /\ MallocInv)
  BY MemoryImplements, FSlabInvariant, MallocInvariant, PTL
<1>2. Init => ListedFit
  BY DEF Init, FslabInit, ListedFit
<1>3. FSlabInv /\ MallocInv /\ ListedFit /\ [Next]_vars => ListedFit'
  BY ListedFitStep
<1> QED
  BY <1>1, <1>2, <1>3, PTL DEF Spec

\* So the blocks of an fslab are accounted for from their allocation until it is
\* cleared or finished, and then none is left.
THEOREM MemoryBlocks == Spec => []BlocksAccounted
<1>1. FSlabInv /\ ListedFit => BlocksAccounted
  BY DEF FSlabInv, FSlabSound, Accounted, BlocksAccounted
<1> QED
  BY <1>1, MemoryImplements, FSlabInvariant, MemoryListedFit, PTL

\* What was proved of the parts holds where the two run together: only exact
\* fits go back to the wrong allocator, and no client that stays within its
\* size, and no copy, reaches the magic word.
THEOREM MemorySafe == Spec => BlocksGoBack /\ []CapacityCovers
BY MemoryImplements, FSlabCorrect, MallocCapacity

\* ey_realloc keeps a client's data with the fslab on the same heap.
THEOREM MemoryKeepsData == Spec => ReallocKeepsData
BY MemoryImplements, MallocKeepsData
=============================================================================
