----------------------------- MODULE TypeProofs -----------------------------
(***************************************************************************)
(* Proofs about types: StructLayout, which lays out the members of a tag,  *)
(* TypeDecl, which makes the types of a file, and ExprBuild, which gives   *)
(* expressions theirs.                                                     *)
(***************************************************************************)
EXTENDS TypeDecl, ExprBuild, TLAPS, SequenceTheorems, FiniteSetTheorems, WellFoundedInduction

Alignments == {0, 1, 2, 4, 8}
PlacedRecord ==
  [offset : Nat, bit_start : Nat, bit_size : Nat, size : Nat, alignment : Alignments]

LayoutTypeInv ==
  /\ su \in {"struct", "union"}
  /\ members \in Seq(Member) /\ placed \in Seq(PlacedRecord)
  /\ offset \in Nat /\ bit_offset \in Nat /\ size \in Nat /\ alignment \in Alignments
  /\ status \in {"laying", "set", "failed"}

\* The next free bit is past every member.
Reached == CHAR_BIT * offset + bit_offset
EndsReached == su = "struct" => \A i \in DOMAIN placed : EndBit(placed[i]) <= Reached

\* A run of bit-fields goes on where its last one ends, in the last one's unit.
IsCurrent(p) ==
  p.bit_size # 0 =>
    /\ offset = p.offset /\ bit_offset = p.bit_start + p.bit_size
    /\ p.size = p.alignment /\ p.size > 0
RunCurrent == su = "struct" /\ placed # <<>> => IsCurrent(placed[Len(placed)])

LayoutInv == LayoutTypeInv /\ LayoutSound /\ PackedTight /\ EndsReached /\ RunCurrent

-----------------------------------------------------------------------------
(* Arithmetic.                                                             *)

\* align_offset is the least multiple of the alignment that is not below.
LEMMA AlignUp ==
  ASSUME NEW n \in Nat, NEW a \in Alignments
  PROVE  /\ align_offset(n, a) \in Nat
         /\ align_offset(n, a) >= n
         /\ a # 0 => align_offset(n, a) < n + a
         /\ Aligned(align_offset(n, a), a)
<1>0. CASE a = 0  BY <1>0 DEF align_offset, Aligned
<1>1. CASE a = 1  BY <1>1 DEF align_offset, Aligned
<1>2. CASE a = 2  BY <1>2 DEF align_offset, Aligned
<1>3. CASE a = 4  BY <1>3 DEF align_offset, Aligned
<1>4. CASE a = 8  BY <1>4 DEF align_offset, Aligned
<1> QED  BY <1>0, <1>1, <1>2, <1>3, <1>4 DEF Alignments

\* What is aligned is aligned for every smaller alignment.
LEMMA AlignedForSmaller ==
  ASSUME NEW n \in Nat, NEW a \in Alignments, NEW b \in Alignments, b <= a, a # 0, Aligned(n, a)
  PROVE  Aligned(n, b)
<1>1. CASE a = 1  BY <1>1 DEF Aligned, Alignments
<1>2. CASE a = 2  BY <1>2 DEF Aligned, Alignments
<1>3. CASE a = 4  BY <1>3 DEF Aligned, Alignments
<1>4. CASE a = 8  BY <1>4 DEF Aligned, Alignments
<1> QED  BY <1>1, <1>2, <1>3, <1>4 DEF Alignments

\* One unit back from a multiple is a multiple.
LEMMA AlignedBefore ==
  ASSUME NEW n \in Nat, NEW a \in Alignments, a # 0, Aligned(n, a), n > 0
  PROVE  n - a \in Nat /\ Aligned(n - a, a)
<1>1. CASE a = 1  BY <1>1 DEF Aligned
<1>2. CASE a = 2  BY <1>2 DEF Aligned
<1>3. CASE a = 4  BY <1>3 DEF Aligned
<1>4. CASE a = 8  BY <1>4 DEF Aligned
<1> QED  BY <1>1, <1>2, <1>3, <1>4 DEF Alignments

\* From inside a unit the next boundary is that unit's end.
LEMMA UnitEnd ==
  ASSUME NEW n \in Nat, NEW a \in Alignments, a # 0, Aligned(n, a), NEW u \in Nat, 0 < u, u <= a
  PROVE  align_offset(n + u, a) = n + a
<1>1. CASE a = 1  BY <1>1 DEF Aligned, align_offset
<1>2. CASE a = 2  BY <1>2 DEF Aligned, align_offset
<1>3. CASE a = 4  BY <1>3 DEF Aligned, align_offset
<1>4. CASE a = 8  BY <1>4 DEF Aligned, align_offset
<1> QED  BY <1>1, <1>2, <1>3, <1>4 DEF Alignments

\* The bytes of a number of bits hold them, and one less does not.
LEMMA UsedBytes ==
  ASSUME NEW b \in Nat
  PROVE  /\ Used(b) \in Nat
         /\ b <= CHAR_BIT * Used(b)
         /\ b # 0 => Used(b) > 0 /\ CHAR_BIT * (Used(b) - 1) < b
         /\ b = 0 => Used(b) = 0
BY DEF Used, CHAR_BIT

LEMMA LargerIs ==
  ASSUME NEW m \in Nat, NEW n \in Nat
  PROVE  Larger(m, n) \in {m, n} /\ Larger(m, n) >= m /\ Larger(m, n) >= n
BY DEF Larger

-----------------------------------------------------------------------------
(* Members.                                                                *)

LEMMA ThisMember ==
  ASSUME LayoutTypeInv, Laying
  PROVE  /\ This.type.size \in Nat /\ This.type.alignment \in Alignments
         /\ This.bit_size \in Nat
         /\ This.type.integer => This.type.size = This.type.alignment /\ This.type.size > 0
<1>1. Len(placed) + 1 \in DOMAIN members
  BY DEF LayoutTypeInv, Laying
<1>2. This \in Member
  BY <1>1 DEF LayoutTypeInv, This
<1>3. This.type \in MemberTypes /\ This.bit_size \in BitSizes
  BY <1>2 DEF Member
<1>4. This.type \in TypeRecord
  BY <1>3, MemberTypesAssumption
<1> QED  BY <1>3, <1>4, MemberTypesAssumption, BitSizesAssumption DEF TypeRecord, Alignments

\* What Place appends.
PlacedAt(m, at, bit) ==
  [offset |-> at, bit_start |-> bit, bit_size |-> m.bit_size,
   size |-> m.type.size, alignment |-> m.type.alignment]

LEMMA Appended ==
  ASSUME placed \in Seq(PlacedRecord), NEW p \in PlacedRecord, placed' = Append(placed, p)
  PROVE  /\ placed' \in Seq(PlacedRecord) /\ placed' # <<>>
         /\ Len(placed') = Len(placed) + 1 /\ placed'[Len(placed')] = p
         /\ DOMAIN placed' = DOMAIN placed \cup {Len(placed')}
         /\ \A i \in DOMAIN placed : placed'[i] = placed[i] /\ i < Len(placed')
OBVIOUS

LEMMA BitsOf ==
  ASSUME NEW m \in Nat, NEW n \in Nat
  PROVE  CHAR_BIT * m + n \in Nat
BY DEF CHAR_BIT

LEMMA PlacedBits ==
  ASSUME NEW p \in PlacedRecord
  PROVE  EndBit(p) \in Nat /\ FirstBit(p) \in Nat /\ FirstBit(p) <= EndBit(p)
BY DEF PlacedRecord, EndBit, FirstBit, CHAR_BIT

\* Members of a structure stay in order and packed when one is placed past the
\* next free bit, or, in a run of bit-fields, at it.
LEMMA StructOrder ==
  ASSUME LayoutTypeInv, MembersInOrder, PackedTight, EndsReached, RunCurrent,
         su = "struct", su' = su, NEW p \in PlacedRecord, placed' = Append(placed, p),
         offset' \in Nat, bit_offset' \in Nat,
         Reached <= FirstBit(p), EndBit(p) <= Reached',
         placed # <<>> =>
           LET last == placed[Len(placed)]
           IN (/\ last.bit_size # 0 /\ p.bit_size # 0 /\ last.size = p.size
               /\ last.bit_start + last.bit_size + p.bit_size <= CHAR_BIT * last.size)
              => FirstBit(p) = EndBit(last)
  PROVE  MembersInOrder' /\ PackedTight' /\ EndsReached'
<1>1. /\ Len(placed') = Len(placed) + 1 /\ placed'[Len(placed')] = p
      /\ DOMAIN placed' = DOMAIN placed \cup {Len(placed')}
      /\ \A i \in DOMAIN placed : placed'[i] = placed[i] /\ i < Len(placed')
      /\ DOMAIN placed = 1..Len(placed) /\ Len(placed) \in Nat
  BY Appended DEF LayoutTypeInv
<1>2. \A i \in DOMAIN placed : EndBit(placed[i]) \in Nat
  BY PlacedBits DEF LayoutTypeInv
<1>3. EndBit(p) \in Nat /\ FirstBit(p) \in Nat /\ FirstBit(p) <= EndBit(p)
  BY PlacedBits
<1>4. Reached \in Nat /\ Reached' \in Nat
  <2>1. offset \in Nat /\ bit_offset \in Nat  BY DEF LayoutTypeInv
  <2> QED  BY <2>1, BitsOf DEF Reached
<1>5. \A i \in DOMAIN placed : EndBit(placed[i]) <= FirstBit(p)
  BY <1>2, <1>3, <1>4 DEF EndsReached
<1>6. MembersInOrder'
  <2> SUFFICES ASSUME NEW j \in DOMAIN placed', NEW i \in 1..(j - 1)
               PROVE  EndBit(placed'[i]) <= FirstBit(placed'[j])
    BY DEF MembersInOrder, EndBit, FirstBit
  <2>1. i \in DOMAIN placed  BY <1>1
  <2>2. CASE j \in DOMAIN placed  BY <1>1, <2>1, <2>2 DEF MembersInOrder
  <2>3. CASE j = Len(placed')  BY <1>1, <1>5, <2>1, <2>3
  <2> QED  BY <1>1, <2>2, <2>3
<1>7. EndsReached'
  <2> SUFFICES ASSUME NEW i \in DOMAIN placed' PROVE EndBit(placed'[i]) <= Reached'
    BY DEF EndsReached, EndBit, FirstBit
  <2>1. CASE i \in DOMAIN placed  BY <1>1, <1>2, <1>3, <1>4, <1>5, <2>1
  <2>2. CASE i = Len(placed')  BY <1>1, <2>2
  <2> QED  BY <1>1, <2>1, <2>2
<1>8. PackedTight'
  <2> DEFINE Joined(a, b) ==
        (/\ a.bit_size # 0 /\ b.bit_size # 0 /\ a.size = b.size
         /\ a.bit_start + a.bit_size + b.bit_size <= CHAR_BIT * a.size)
        => FirstBit(b) = EndBit(a)
  <2>0. \A i \in DOMAIN placed : i + 1 \in DOMAIN placed => Joined(placed[i], placed[i + 1])
    BY DEF PackedTight
  <2>1. placed # <<>> => Joined(placed[Len(placed)], p)  OBVIOUS
  <2> SUFFICES ASSUME NEW i \in DOMAIN placed', i + 1 \in DOMAIN placed'
               PROVE  Joined(placed'[i], placed'[i + 1])
    BY DEF PackedTight, EndBit, FirstBit
  <2> HIDE DEF Joined
  <2>2. i \in DOMAIN placed  BY <1>1
  <2>3. CASE i + 1 \in DOMAIN placed  BY <1>1, <2>0, <2>2, <2>3
  <2>4. CASE i + 1 = Len(placed')
    <3>1. i = Len(placed) /\ placed # <<>>  BY <1>1, <2>2, <2>4
    <3> QED  BY <1>1, <2>1, <2>2, <2>4, <3>1
  <2> QED  BY <1>1, <2>3, <2>4
<1> QED  BY <1>6, <1>7, <1>8

\* Alignment and size cover what is placed while the loop runs.
LEMMA CoverPlaced ==
  ASSUME LayoutTypeInv, MembersAligned, SizeCovers, status' = "laying",
         NEW p \in PlacedRecord, placed' = Append(placed, p), Aligned(p.offset, p.alignment),
         size' \in Nat, size' >= size, p.offset + p.size <= size',
         alignment' \in Alignments, alignment' >= alignment, p.alignment <= alignment'
  PROVE  MembersAligned' /\ SizeCovers'
<1>1. /\ placed'[Len(placed')] = p
      /\ DOMAIN placed' = DOMAIN placed \cup {Len(placed')}
      /\ \A i \in DOMAIN placed : placed'[i] = placed[i]
  BY Appended DEF LayoutTypeInv
<1>2. \A i \in DOMAIN placed : placed[i] \in PlacedRecord
  BY DEF LayoutTypeInv
<1>3. MembersAligned'
  BY <1>1 DEF MembersAligned, Aligned
<1>4. SizeCovers'
  <2> SUFFICES ASSUME NEW i \in DOMAIN placed'
               PROVE  /\ placed'[i].offset + placed'[i].size <= size'
                      /\ placed'[i].alignment <= alignment'
    BY DEF SizeCovers
  <2>1. CASE i = Len(placed')  BY <1>1, <2>1
  <2>2. CASE i \in DOMAIN placed
    <3>0. size \in Nat /\ alignment \in Nat /\ alignment' \in Nat
      BY DEF LayoutTypeInv, Alignments
    <3>1. placed[i] \in PlacedRecord  BY <1>2, <2>2
    <3>2. /\ placed[i].offset \in Nat /\ placed[i].size \in Nat
          /\ placed[i].alignment \in Nat
      BY <3>1 DEF PlacedRecord, Alignments
    <3>3. placed[i].offset + placed[i].size <= size /\ placed[i].alignment <= alignment
      BY <2>2 DEF SizeCovers
    <3> QED  BY <1>1, <2>2, <3>0, <3>2, <3>3
  <2> QED  BY <1>1, <2>1, <2>2
<1> QED  BY <1>3, <1>4

-----------------------------------------------------------------------------
(* The steps of the loop.                                                  *)

\* Where a bit-field goes: not before the next free bit, inside one unit, and at
\* the next free bit if the unit has room.
LEMMA BitFieldPlace ==
  ASSUME LayoutTypeInv, Laying, Fits(This), This.bit_size # 0
  PROVE  /\ UnitOf(This) \in Nat /\ BitIn(This) \in Nat
         /\ Aligned(UnitOf(This), This.type.alignment)
         /\ Reached <= CHAR_BIT * UnitOf(This) + BitIn(This)
         /\ BitIn(This) + This.bit_size <= CHAR_BIT * This.type.size
         /\ Packs(This) => CHAR_BIT * UnitOf(This) + BitIn(This) = Reached
<1> DEFINE a == This.type.alignment
           u == Used(bit_offset)
           b == Boundary(This)
<1>1. /\ a \in Alignments /\ a # 0 /\ This.type.size = a /\ a \in Nat
      /\ This.bit_size \in Nat /\ This.bit_size <= CHAR_BIT * a
  BY ThisMember DEF Fits, BitFieldFits, CHAR_BIT, Alignments
<1>2. offset \in Nat /\ bit_offset \in Nat
  BY DEF LayoutTypeInv
<1>3. /\ u \in Nat /\ bit_offset <= CHAR_BIT * u
      /\ bit_offset # 0 => u > 0 /\ CHAR_BIT * (u - 1) < bit_offset
      /\ bit_offset = 0 => u = 0
  BY <1>2, UsedBytes
<1> HIDE DEF u
<1>4. offset + u \in Nat
  BY <1>2, <1>3
<1>5. b = align_offset(offset + u, a)
  BY DEF Boundary, u
<1> HIDE DEF a, b
<1>6. b \in Nat /\ b >= offset + u /\ b < offset + u + a /\ Aligned(b, a)
  BY <1>1, <1>4, <1>5, AlignUp
<1>7. Reached <= CHAR_BIT * b
  BY <1>2, <1>3, <1>6 DEF Reached, CHAR_BIT
<1>8. CASE ~Packs(This)
  <2>1. UnitOf(This) = b /\ BitIn(This) = 0
    BY <1>8 DEF UnitOf, BitIn, b
  <2> QED
    BY <1>1, <1>6, <1>7, <1>8, <2>1 DEF CHAR_BIT, a
<1>9. CASE Packs(This)
  <2>1. UnitOf(This) = b - a /\ BitIn(This) = bit_offset + (offset - (b - a)) * CHAR_BIT
    BY <1>9 DEF UnitOf, BitIn, b, a
  <2>2. CHAR_BIT * b - Reached >= This.bit_size
    BY <1>9, <1>2, <1>6 DEF Packs, Room, Reached, b, CHAR_BIT
  <2>3. b > 0
    BY <1>1, <1>2, <1>6, <2>2 DEF Reached, CHAR_BIT
  <2>4. b - a \in Nat /\ Aligned(b - a, a)
    BY <1>1, <1>6, <2>3, AlignedBefore
  <2>5. (b - a) * CHAR_BIT <= Reached
    BY <1>1, <1>2, <1>3, <1>6 DEF Reached, CHAR_BIT
  <2>6. CHAR_BIT * UnitOf(This) + BitIn(This) = Reached
    BY <1>1, <1>2, <1>6, <2>1 DEF Reached, CHAR_BIT
  <2>7. BitIn(This) \in Nat
    BY <1>1, <1>2, <1>6, <2>1, <2>4, <2>5 DEF Reached, CHAR_BIT
  <2>8. BitIn(This) + This.bit_size <= CHAR_BIT * a
    BY <1>1, <1>2, <1>6, <2>1, <2>2 DEF Reached, CHAR_BIT
  <2> QED
    BY <1>1, <1>2, <2>1, <2>4, <2>6, <2>7, <2>8 DEF a, Reached, CHAR_BIT
<1> QED  BY <1>8, <1>9

\* After a bit-field of the same size, with the bits left, there is room.
LEMMA RunGoesOn ==
  ASSUME LayoutInv, su = "struct", Laying, Fits(This), This.bit_size # 0, placed # <<>>,
         NEW last, last = placed[Len(placed)], last.bit_size # 0, last.size = This.type.size,
         last.bit_start + last.bit_size + This.bit_size <= CHAR_BIT * last.size
  PROVE  Packs(This) /\ EndBit(last) = Reached
<1> DEFINE a == This.type.alignment
<1>1. a \in Alignments /\ a # 0 /\ This.type.size = a /\ a \in Nat /\ This.bit_size \in Nat
  BY ThisMember DEF LayoutInv, Fits, BitFieldFits, Alignments
<1>2. last \in PlacedRecord /\ Aligned(last.offset, last.alignment)
  BY DEF LayoutInv, LayoutTypeInv, LayoutSound, MembersAligned
<1>3. /\ last.offset \in Nat /\ last.bit_start \in Nat /\ last.bit_size \in Nat
      /\ last.size \in Nat
  BY <1>2 DEF PlacedRecord
<1>4. /\ offset = last.offset /\ bit_offset = last.bit_start + last.bit_size
      /\ last.alignment = a
  BY <1>1 DEF LayoutInv, RunCurrent, IsCurrent
<1>5. 0 < bit_offset /\ bit_offset + This.bit_size <= CHAR_BIT * a /\ bit_offset \in Nat
  BY <1>1, <1>3, <1>4
<1> HIDE DEF a
<1>6. Used(bit_offset) \in Nat /\ 0 < Used(bit_offset) /\ Used(bit_offset) <= a
  <2>1. /\ Used(bit_offset) \in Nat /\ Used(bit_offset) > 0
        /\ CHAR_BIT * (Used(bit_offset) - 1) < bit_offset
    <3>1. bit_offset \in Nat /\ bit_offset # 0  BY <1>5
    <3> QED  BY <3>1, UsedBytes
  <2>2. bit_offset <= CHAR_BIT * a
    BY <1>1, <1>5 DEF CHAR_BIT
  <2> QED  BY <1>1, <1>5, <2>1, <2>2 DEF CHAR_BIT
<1>7. Boundary(This) = offset + a
  BY <1>1, <1>2, <1>3, <1>4, <1>6, UnitEnd DEF Boundary, a
<1>8. Packs(This)
  BY <1>1, <1>3, <1>4, <1>5, <1>7 DEF Packs, Room, CHAR_BIT
<1>9. EndBit(last) = Reached
  BY <1>3, <1>4 DEF EndBit, FirstBit, Reached, CHAR_BIT
<1> QED  BY <1>8, <1>9

LEMMA LayoutInitHolds == LayoutInit => LayoutInv
<1> SUFFICES ASSUME LayoutInit PROVE LayoutInv
  OBVIOUS
<1>1. members \in Seq(Member)
  <2>1. PICK n \in 1..MaxMembers : members \in [1..n -> Member]
    BY DEF LayoutInit, MemberLists
  <2> QED  BY <2>1, MaxMembersAssumption
<1>2. placed = <<>> /\ DOMAIN placed = {}
  BY DEF LayoutInit
<1>3. LayoutTypeInv
  BY <1>1, <1>2 DEF LayoutInit, LayoutTypeInv, Alignments
<1>4. LayoutSound /\ PackedTight
  BY <1>2 DEF LayoutInit, LayoutSound, MembersInOrder, BitFieldsInUnit, MembersAligned,
              SizeCovers, PackedTight
<1> QED  BY <1>2, <1>3, <1>4 DEF LayoutInv, EndsReached, RunCurrent

LEMMA RefuseKeeps == ASSUME LayoutInv, Refuse PROVE LayoutInv'
<1> USE DEF Refuse, LayoutInv
<1>1. LayoutTypeInv'  BY DEF LayoutTypeInv
<1>2. LayoutSound'
  BY DEF LayoutSound, MembersInOrder, BitFieldsInUnit, MembersAligned, SizeCovers,
         EndBit, FirstBit
<1>3. PackedTight'  BY DEF PackedTight, EndBit, FirstBit
<1>4. EndsReached' /\ RunCurrent'
  BY DEF EndsReached, RunCurrent, IsCurrent, EndBit, FirstBit, Reached
<1> QED  BY <1>1, <1>2, <1>3, <1>4

\* The larger of the alignments is one.
LEMMA LargerAlignment ==
  ASSUME NEW a \in Alignments, NEW b \in Alignments
  PROVE  Larger(a, b) \in Alignments /\ Larger(a, b) >= a /\ Larger(a, b) >= b
BY DEF Larger, Alignments

LEMMA InUnitAppended ==
  ASSUME LayoutTypeInv, BitFieldsInUnit, NEW p \in PlacedRecord, placed' = Append(placed, p),
         p.bit_start + p.bit_size <= CHAR_BIT * p.size
  PROVE  BitFieldsInUnit'
BY Appended DEF LayoutTypeInv, BitFieldsInUnit

LEMMA StructBitFieldKeeps == ASSUME LayoutInv, StructBitField PROVE LayoutInv'
<1> DEFINE p == PlacedAt(This, UnitOf(This), BitIn(This))
<1>1. /\ LayoutTypeInv /\ su = "struct" /\ su' = su /\ Laying /\ Fits(This) /\ This.bit_size # 0
      /\ placed' = Append(placed, p) /\ offset' = UnitOf(This)
      /\ bit_offset' = BitIn(This) + This.bit_size
      /\ size' = Larger(size, UnitOf(This) + This.type.size)
      /\ alignment' = Larger(alignment, This.type.alignment)
      /\ status = "laying" /\ status' = "laying" /\ members' = members
  BY DEF LayoutInv, StructBitField, Place, PlacedAt, Laying
<1>2. /\ UnitOf(This) \in Nat /\ BitIn(This) \in Nat
      /\ Aligned(UnitOf(This), This.type.alignment)
      /\ Reached <= CHAR_BIT * UnitOf(This) + BitIn(This)
      /\ BitIn(This) + This.bit_size <= CHAR_BIT * This.type.size
      /\ Packs(This) => CHAR_BIT * UnitOf(This) + BitIn(This) = Reached
  BY <1>1, BitFieldPlace
<1>3. /\ This.type.size \in Nat /\ This.type.alignment \in Alignments /\ This.bit_size \in Nat
      /\ This.type.size = This.type.alignment /\ This.type.size > 0
  BY <1>1, ThisMember DEF Fits, BitFieldFits
<1>4. /\ p \in PlacedRecord /\ p.offset = UnitOf(This) /\ p.bit_start = BitIn(This)
      /\ p.bit_size = This.bit_size /\ p.size = This.type.size
      /\ p.alignment = This.type.alignment
  BY <1>2, <1>3 DEF PlacedAt, PlacedRecord
<1> HIDE DEF p
<1>5. size \in Nat /\ alignment \in Alignments
  BY <1>1 DEF LayoutTypeInv
<1>6. /\ size' \in Nat /\ size' >= size /\ p.offset + p.size <= size'
      /\ alignment' \in Alignments /\ alignment' >= alignment /\ p.alignment <= alignment'
  <2>1. UnitOf(This) + This.type.size \in Nat  BY <1>2, <1>3
  <2>2. size' \in Nat /\ size' >= size /\ UnitOf(This) + This.type.size <= size'
    BY <1>1, <1>5, <2>1, LargerIs
  <2>3. alignment' \in Alignments /\ alignment' >= alignment /\ This.type.alignment <= alignment'
    BY <1>1, <1>3, <1>5, LargerAlignment
  <2> QED  BY <1>4, <2>2, <2>3
<1>7. offset' \in Nat /\ bit_offset' \in Nat
  BY <1>1, <1>2, <1>3
<1>8. LayoutTypeInv'
  BY <1>1, <1>4, <1>6, <1>7, Appended DEF LayoutTypeInv
<1>9. FirstBit(p) = CHAR_BIT * UnitOf(This) + BitIn(This)
  BY <1>4 DEF FirstBit
<1>10. EndBit(p) = Reached'
  BY <1>1, <1>2, <1>3, <1>4 DEF EndBit, FirstBit, Reached, CHAR_BIT
<1>11. MembersInOrder' /\ PackedTight' /\ EndsReached'
  <2>1. placed # <<>> =>
          LET last == placed[Len(placed)]
          IN (/\ last.bit_size # 0 /\ p.bit_size # 0 /\ last.size = p.size
              /\ last.bit_start + last.bit_size + p.bit_size <= CHAR_BIT * last.size)
             => FirstBit(p) = EndBit(last)
    BY <1>1, <1>2, <1>4, <1>9, RunGoesOn
  <2>2. EndBit(p) <= Reached'
    BY <1>10, <1>4, PlacedBits
  <2> QED
    BY <1>1, <1>2, <1>4, <1>7, <1>9, <2>1, <2>2, StructOrder DEF LayoutInv, LayoutSound
<1>12. MembersAligned' /\ SizeCovers'
  BY <1>1, <1>2, <1>4, <1>6, CoverPlaced DEF LayoutInv, LayoutSound
<1>13. BitFieldsInUnit'
  BY <1>1, <1>2, <1>4, InUnitAppended DEF LayoutInv, LayoutSound
<1>14. RunCurrent'
  <2>1. placed'[Len(placed')] = p
    BY <1>1, <1>4, Appended DEF LayoutTypeInv
  <2>2. offset' = p.offset /\ bit_offset' = p.bit_start + p.bit_size
        /\ p.size = p.alignment /\ p.size > 0
    BY <1>1, <1>3, <1>4
  <2> QED  BY <2>1, <2>2 DEF RunCurrent, IsCurrent
<1> QED
  BY <1>1, <1>8, <1>11, <1>12, <1>13, <1>14 DEF LayoutInv, LayoutSound

LEMMA StructMemberKeeps == ASSUME LayoutInv, StructMember PROVE LayoutInv'
<1> DEFINE p == PlacedAt(This, AfterBits(This), 0)
<1>1. /\ LayoutTypeInv /\ su = "struct" /\ su' = su /\ Laying /\ This.bit_size = 0
      /\ placed' = Append(placed, p) /\ offset' = AfterBits(This) + This.type.size
      /\ bit_offset' = 0 /\ size' = Larger(size, offset')
      /\ alignment' = Larger(alignment, This.type.alignment)
      /\ status = "laying" /\ status' = "laying" /\ members' = members
  BY DEF LayoutInv, StructMember, Place, PlacedAt, Laying
<1>2. /\ This.type.size \in Nat /\ This.type.alignment \in Alignments
  BY <1>1, ThisMember
<1>3. /\ size \in Nat /\ alignment \in Alignments /\ offset \in Nat /\ bit_offset \in Nat
  BY <1>1 DEF LayoutTypeInv
<1>4. /\ AfterBits(This) \in Nat /\ AfterBits(This) >= offset + Used(bit_offset)
      /\ Aligned(AfterBits(This), This.type.alignment)
  <2>1. offset + Used(bit_offset) \in Nat  BY <1>3, UsedBytes
  <2> QED  BY <1>2, <2>1, AlignUp DEF AfterBits
<1>5. Reached <= CHAR_BIT * AfterBits(This)
  <2>1. Used(bit_offset) \in Nat /\ bit_offset <= CHAR_BIT * Used(bit_offset)
    BY <1>3, UsedBytes
  <2> QED  BY <1>3, <1>4, <2>1 DEF Reached, CHAR_BIT
<1>6. /\ p \in PlacedRecord /\ p.offset = AfterBits(This) /\ p.bit_start = 0 /\ p.bit_size = 0
      /\ p.size = This.type.size /\ p.alignment = This.type.alignment
  BY <1>1, <1>2, <1>4 DEF PlacedAt, PlacedRecord
<1> HIDE DEF p
<1>7. offset' \in Nat /\ bit_offset' \in Nat
  BY <1>1, <1>2, <1>4
<1>8. /\ size' \in Nat /\ size' >= size /\ p.offset + p.size <= size'
      /\ alignment' \in Alignments /\ alignment' >= alignment /\ p.alignment <= alignment'
  BY <1>1, <1>2, <1>3, <1>6, <1>7, LargerIs, LargerAlignment
<1>9. LayoutTypeInv'
  BY <1>1, <1>6, <1>7, <1>8, Appended DEF LayoutTypeInv
<1>10. FirstBit(p) >= Reached /\ EndBit(p) <= Reached'
  BY <1>1, <1>2, <1>3, <1>4, <1>5, <1>6 DEF FirstBit, EndBit, Reached, CHAR_BIT
<1>11. MembersInOrder' /\ PackedTight' /\ EndsReached'
  <2>1. Reached <= FirstBit(p)
    BY <1>3, <1>4, <1>5, <1>6 DEF FirstBit, Reached, CHAR_BIT
  <2> QED
    BY <1>1, <1>6, <1>7, <1>10, <2>1, StructOrder DEF LayoutInv, LayoutSound
<1>12. MembersAligned' /\ SizeCovers'
  BY <1>1, <1>4, <1>6, <1>8, CoverPlaced DEF LayoutInv, LayoutSound
<1>13. BitFieldsInUnit'
  <2>1. p.bit_start + p.bit_size <= CHAR_BIT * p.size  BY <1>2, <1>6 DEF CHAR_BIT
  <2> QED  BY <1>1, <1>6, <2>1, InUnitAppended DEF LayoutInv, LayoutSound
<1>14. RunCurrent'
  BY <1>1, <1>6, Appended DEF RunCurrent, IsCurrent, LayoutTypeInv
<1> QED
  BY <1>1, <1>9, <1>11, <1>12, <1>13, <1>14 DEF LayoutInv, LayoutSound

LEMMA UnionMemberKeeps == ASSUME LayoutInv, UnionMember PROVE LayoutInv'
<1> DEFINE p == PlacedAt(This, 0, 0)
<1>1. /\ LayoutTypeInv /\ su = "union" /\ su' = su /\ Laying
      /\ placed' = Append(placed, p) /\ offset' = offset /\ bit_offset' = bit_offset
      /\ size' = Larger(size, This.type.size)
      /\ alignment' = Larger(alignment, This.type.alignment)
      /\ status = "laying" /\ status' = "laying" /\ members' = members
  BY DEF LayoutInv, UnionMember, Place, PlacedAt, Laying
<1>2. /\ This.type.size \in Nat /\ This.type.alignment \in Alignments /\ This.bit_size \in Nat
  BY <1>1, ThisMember
<1>3. size \in Nat /\ alignment \in Alignments
  BY <1>1 DEF LayoutTypeInv
<1>4. /\ p \in PlacedRecord /\ p.offset = 0 /\ p.bit_start = 0
      /\ p.size = This.type.size /\ p.alignment = This.type.alignment
  BY <1>2 DEF PlacedAt, PlacedRecord
<1> HIDE DEF p
<1>5. /\ size' \in Nat /\ size' >= size /\ p.offset + p.size <= size'
      /\ alignment' \in Alignments /\ alignment' >= alignment /\ p.alignment <= alignment'
  <2>1. size' \in Nat /\ size' >= size /\ This.type.size <= size'
    BY <1>1, <1>2, <1>3, LargerIs
  <2>2. alignment' \in Alignments /\ alignment' >= alignment /\ This.type.alignment <= alignment'
    BY <1>1, <1>2, <1>3, LargerAlignment
  <2> QED  BY <1>2, <1>4, <2>1, <2>2
<1>6. LayoutTypeInv'
  BY <1>1, <1>4, <1>5, Appended DEF LayoutTypeInv
<1>7. Aligned(p.offset, p.alignment)
  BY <1>2, <1>4 DEF Aligned, Alignments
<1>8. MembersAligned' /\ SizeCovers'
  BY <1>1, <1>4, <1>5, <1>7, CoverPlaced DEF LayoutInv, LayoutSound
<1>9. \A i \in DOMAIN placed' : FirstBit(placed'[i]) = 0
  <2>1. FirstBit(p) = 0  BY <1>4 DEF FirstBit, CHAR_BIT
  <2>2. \A i \in DOMAIN placed : FirstBit(placed[i]) = 0  BY <1>1 DEF LayoutInv, LayoutSound
  <2> QED  BY <1>1, <1>4, <2>1, <2>2, Appended DEF LayoutTypeInv
<1>10. LayoutSound' /\ PackedTight' /\ EndsReached' /\ RunCurrent'
  BY <1>1, <1>8, <1>9 DEF LayoutSound, PackedTight, EndsReached, RunCurrent, FirstBit
<1> QED  BY <1>6, <1>10 DEF LayoutInv

LEMMA SetTypeKeeps == ASSUME LayoutInv, SetType PROVE LayoutInv'
<1>1. /\ LayoutTypeInv /\ LayoutSound /\ status = "laying" /\ status' = "set" /\ size' = WholeSize
      /\ UNCHANGED <<su, members, placed, offset, bit_offset, alignment>>
  BY DEF LayoutInv, SetType
<1>2. size \in Nat /\ alignment \in Alignments
  BY <1>1 DEF LayoutTypeInv
<1>3. size' \in Nat /\ size' >= size /\ Aligned(size', alignment)
  BY <1>1, <1>2, AlignUp DEF WholeSize
<1>4. LayoutTypeInv'
  BY <1>1, <1>3 DEF LayoutTypeInv
<1>5. SizeCovers'
  <2> SUFFICES ASSUME NEW i \in DOMAIN placed
               PROVE  /\ placed[i].offset + placed[i].size <= size'
                      /\ placed[i].alignment <= alignment
                      /\ Aligned(size', placed[i].alignment)
    BY <1>1 DEF SizeCovers
  <2>1. placed[i] \in PlacedRecord  BY <1>1 DEF LayoutTypeInv
  <2>2. /\ placed[i].offset \in Nat /\ placed[i].size \in Nat
        /\ placed[i].alignment \in Alignments
    BY <2>1 DEF PlacedRecord
  <2>3. placed[i].offset + placed[i].size <= size /\ placed[i].alignment <= alignment
    BY <1>1 DEF LayoutSound, SizeCovers
  <2>4. placed[i].offset + placed[i].size <= size'
    BY <1>2, <1>3, <2>2, <2>3
  <2>5. CASE alignment = 0
    BY <1>2, <2>2, <2>3, <2>4, <2>5 DEF Aligned, Alignments
  <2>6. CASE alignment # 0
    BY <1>2, <1>3, <2>2, <2>3, <2>4, <2>6, AlignedForSmaller
  <2> QED  BY <2>5, <2>6
<1>6. LayoutSound'
  BY <1>1, <1>5 DEF LayoutSound, MembersInOrder, BitFieldsInUnit, MembersAligned, EndBit, FirstBit
<1>7. PackedTight' /\ EndsReached' /\ RunCurrent'
  BY <1>1 DEF LayoutInv, PackedTight, EndsReached, RunCurrent, IsCurrent, EndBit, FirstBit, Reached
<1> QED  BY <1>4, <1>6, <1>7 DEF LayoutInv

LEMMA LayoutStep == ASSUME LayoutInv, [LayoutNext]_layoutVars PROVE LayoutInv'
<1>1. CASE UNCHANGED layoutVars
  <2>1. LayoutTypeInv'  BY <1>1 DEF layoutVars, LayoutInv, LayoutTypeInv
  <2>2. LayoutSound'
    BY <1>1 DEF layoutVars, LayoutInv, LayoutSound, MembersInOrder, BitFieldsInUnit, MembersAligned,
                SizeCovers, EndBit, FirstBit
  <2>3. PackedTight' /\ EndsReached' /\ RunCurrent'
    BY <1>1 DEF layoutVars, LayoutInv, PackedTight, EndsReached, RunCurrent, IsCurrent, EndBit,
                FirstBit, Reached
  <2> QED  BY <2>1, <2>2, <2>3 DEF LayoutInv
<1>2. CASE LayoutNext
  BY <1>2, RefuseKeeps, StructBitFieldKeeps, StructMemberKeeps, UnionMemberKeeps, SetTypeKeeps
     DEF LayoutNext
<1> QED  BY <1>1, <1>2

-----------------------------------------------------------------------------
\* For any member types and number of members: no two members of a structure
\* share a bit, each is aligned and inside the whole, a bit-field is inside one
\* unit, and the whole is a multiple of every alignment
\* (ey_type_set_struct_type and ey_type_set_union_type).
THEOREM StructLayoutSound == LayoutSpec => []LayoutSound
<1>1. LayoutInit => LayoutInv  BY LayoutInitHolds
<1>2. LayoutInv /\ [LayoutNext]_layoutVars => LayoutInv'  BY LayoutStep
<1>3. LayoutInv => LayoutSound  BY DEF LayoutInv
<1> QED  BY <1>1, <1>2, <1>3, PTL DEF LayoutSpec

\* And a bit-field is never put past bits that were enough for it.
THEOREM StructPacked == LayoutSpec => []PackedTight
<1>1. LayoutInit => LayoutInv  BY LayoutInitHolds
<1>2. LayoutInv /\ [LayoutNext]_layoutVars => LayoutInv'  BY LayoutStep
<1>3. LayoutInv => PackedTight  BY DEF LayoutInv
<1> QED  BY <1>1, <1>2, <1>3, PTL DEF LayoutSpec

-----------------------------------------------------------------------------
(* Types as sequences.                                                     *)

LEMMA ChainOf == ASSUME NEW S, NEW t \in Seq(S) PROVE IsChain(t)
<1>1. Len(t) \in Nat /\ DOMAIN t = 1..Len(t) /\ t \in [1..Len(t) -> S]  BY LenProperties
<1>2. t = [i \in 1..Len(t) |-> t[i]]  BY <1>1
<1>3. \A i \in 1..Len(t) : t[i] \in NodesOf(t)  BY <1>1 DEF NodesOf
<1>4. [i \in 1..Len(t) |-> t[i]] \in Seq(NodesOf(t))  BY <1>1, <1>3
<1> QED  BY <1>2, <1>4 DEF IsChain

LEMMA ChainDomain ==
  ASSUME NEW t, IsChain(t)
  PROVE  Len(t) \in Nat /\ DOMAIN t = 1..Len(t) /\ (t = <<>> <=> Len(t) = 0)
BY LenProperties, EmptySeq DEF IsChain

\* A type derived from another goes through the nodes of both.
LEMMA Joined ==
  ASSUME NEW d, NEW s, IsChain(d), IsChain(s)
  PROVE  /\ IsChain(d \o s) /\ Len(d \o s) = Len(d) + Len(s)
         /\ DOMAIN (d \o s) = 1..(Len(d) + Len(s))
         /\ \A i \in DOMAIN d : (d \o s)[i] = d[i]
         /\ \A i \in DOMAIN s : (d \o s)[Len(d) + i] = s[i]
<1> DEFINE S == NodesOf(d) \cup NodesOf(s)
<1>1. d \in Seq(S) /\ s \in Seq(S)
  BY SeqMonotonic DEF IsChain
<1> HIDE DEF S
<1>2. /\ Len(d) \in Nat /\ DOMAIN d = 1..Len(d) /\ Len(s) \in Nat /\ DOMAIN s = 1..Len(s)
  BY ChainDomain
<1>3. /\ d \o s \in Seq(S) /\ Len(d \o s) = Len(d) + Len(s)
      /\ \A i \in 1 .. Len(d) + Len(s) : (d \o s)[i] = IF i <= Len(d) THEN d[i] ELSE s[i - Len(d)]
  BY <1>1, ConcatProperties
<1>4. IsChain(d \o s) /\ DOMAIN (d \o s) = 1..(Len(d) + Len(s))
  BY <1>3, ChainOf, LenProperties
<1> QED  BY <1>2, <1>3, <1>4

LEMMA OneNode ==
  ASSUME NEW n
  PROVE  /\ IsChain(<<n>>) /\ Len(<<n>>) = 1 /\ DOMAIN <<n>> = 1..1 /\ <<n>>[1] = n
         /\ Head(<<n>>) = n /\ Tail(<<n>>) = <<>> /\ <<n>> # <<>>
<1>1. <<n>> \in Seq({n})  OBVIOUS
<1>2. IsChain(<<n>>)  BY <1>1, ChainOf
<1> QED  BY <1>1, <1>2

\* A function on 1..n is a chain.
LEMMA ChainOn ==
  ASSUME NEW n \in Nat, NEW t, t = [i \in 1..n |-> t[i]]
  PROVE  IsChain(t) /\ Len(t) = n /\ DOMAIN t = 1..n
<1>1. DOMAIN t = 1..n  OBVIOUS
<1>2. \A i \in 1..n : t[i] \in NodesOf(t)  BY <1>1 DEF NodesOf
<1>3. [i \in 1..n |-> t[i]] \in Seq(NodesOf(t))  BY <1>2
<1>4. t \in Seq(NodesOf(t))  BY <1>3
<1>5. Len(t) = n  BY <1>1, <1>4, LenProperties
<1> QED  BY <1>1, <1>4, <1>5 DEF IsChain

-----------------------------------------------------------------------------
(* ey_type_merge.                                                          *)

DerivedClasses == {"array", "pointer", "function"}
IsDeclarator(d) ==
  IsChain(d) /\ \A i \in DOMAIN d : "class" \in DOMAIN d[i] /\ d[i].class \in DerivedClasses

Sized(n, b, a) == [n EXCEPT !.size = b, !.alignment = a]

IsMerged(m, d, s, bytes, aligned) ==
  m = [i \in DOMAIN (d \o s) |->
         IF i \in DOMAIN d /\ d[i].class = "array"
         THEN Sized((d \o s)[i], bytes[i], aligned[i]) ELSE (d \o s)[i]]

\* Whatever the arrays are sized to, only they change.
LEMMA MergeShape ==
  ASSUME NEW d, NEW s, IsType(s), IsType(d), IsDeclarator(d)
  PROVE  \E bytes, aligned : IsMerged(merge(d, s), d, s, bytes, aligned)
<1>1. ~ \E i \in DOMAIN d : d[i].class \notin {"array", "pointer", "function"}
  BY DEF IsDeclarator, DerivedClasses
<1> DEFINE whole == d \o s
           filled(i) == i \in DOMAIN d /\ d[i].class = "array"
           bytes[i \in DOMAIN whole] ==
             IF filled(i) THEN whole[i].count * bytes[i + 1] ELSE SizeHeld(whole[i])
           aligned[i \in DOMAIN whole] ==
             IF filled(i) THEN aligned[i + 1] ELSE AlignmentHeld(whole[i])
<1>2. merge(d, s) =
        [i \in DOMAIN whole |->
           IF filled(i) THEN Sized(whole[i], bytes[i], aligned[i]) ELSE whole[i]]
  BY <1>1, Zenon DEF merge, Sized
<1> HIDE DEF bytes, aligned
<1>3. IsMerged(merge(d, s), d, s, bytes, aligned)
  BY <1>2 DEF IsMerged
<1> QED  BY <1>3, Zenon

\* A node keeps its class and its parameters when it is sized.
LEMMA SizedNode ==
  ASSUME NEW n, NEW b, NEW a, "class" \in DOMAIN n, n.class = "array"
  PROVE  /\ "class" \in DOMAIN Sized(n, b, a) /\ Sized(n, b, a).class = "array"
         /\ Derivation(Sized(n, b, a)) = Derivation(n)
BY DEF Derivation, Sized

LEMMA MergeIs ==
  ASSUME NEW d, NEW s, IsDeclarator(d), IsChain(s)
  PROVE  /\ IsChain(merge(d, s)) /\ Len(merge(d, s)) = Len(d) + Len(s)
         /\ \A i \in DOMAIN d :
              /\ "class" \in DOMAIN merge(d, s)[i] /\ merge(d, s)[i].class = d[i].class
              /\ Derivation(merge(d, s)[i]) = Derivation(d[i])
         /\ \A i \in DOMAIN s : merge(d, s)[Len(d) + i] = s[i]
<1> DEFINE m == merge(d, s)
<1>1. IsChain(d) /\ IsChain(s)
  BY DEF IsDeclarator
<1>2. /\ Len(d) \in Nat /\ DOMAIN d = 1..Len(d) /\ (d = <<>> <=> Len(d) = 0)
      /\ Len(s) \in Nat /\ DOMAIN s = 1..Len(s) /\ (s = <<>> <=> Len(s) = 0)
  BY <1>1, ChainDomain
<1>3. CASE ~IsType(s)
  <2>1. m = d  BY <1>3 DEF merge
  <2> QED  BY <1>1, <1>2, <1>3, <2>1 DEF IsType, NoType, IsDeclarator
<1>4. CASE IsType(s) /\ ~IsType(d)
  <2>1. m = s  BY <1>4 DEF merge
  <2> QED  BY <1>1, <1>2, <1>4, <2>1 DEF IsType, NoType
<1>5. CASE IsType(s) /\ IsType(d)
  <2>0. PICK bytes, aligned : IsMerged(m, d, s, bytes, aligned)
    BY <1>5, MergeShape, Zenon
  <2> DEFINE w == d \o s
  <2>1. m = [i \in DOMAIN w |->
               IF i \in DOMAIN d /\ d[i].class = "array"
               THEN Sized(w[i], bytes[i], aligned[i]) ELSE w[i]]
    BY <2>0, Zenon DEF IsMerged
  <2>2. /\ DOMAIN w = 1..(Len(d) + Len(s))
        /\ \A i \in DOMAIN d : w[i] = d[i]
        /\ \A i \in DOMAIN s : w[Len(d) + i] = s[i]
    BY <1>1, Joined
  <2> HIDE DEF w, m
  <2>3. Len(d) + Len(s) \in Nat  BY <1>2
  <2>4. m = [i \in 1..(Len(d) + Len(s)) |-> m[i]]  BY <2>1, <2>2
  <2>5. IsChain(m) /\ Len(m) = Len(d) + Len(s)  BY <2>3, <2>4, ChainOn
  <2>6. ASSUME NEW i \in DOMAIN d
        PROVE  /\ "class" \in DOMAIN m[i] /\ m[i].class = d[i].class
               /\ Derivation(m[i]) = Derivation(d[i])
    <3>1. i \in DOMAIN w /\ w[i] = d[i] /\ "class" \in DOMAIN d[i]  BY <1>2, <2>2 DEF IsDeclarator
    <3>2. CASE d[i].class = "array"
      <4>1. m[i] = Sized(d[i], bytes[i], aligned[i])
        BY <2>1, <3>1, <3>2
      <4>2. /\ "class" \in DOMAIN Sized(d[i], bytes[i], aligned[i])
            /\ Sized(d[i], bytes[i], aligned[i]).class = "array"
            /\ Derivation(Sized(d[i], bytes[i], aligned[i])) = Derivation(d[i])
        BY <3>1, <3>2, SizedNode
      <4> QED  BY <3>2, <4>1, <4>2
    <3>3. CASE d[i].class # "array"
      <4>1. m[i] = d[i]  BY <2>1, <3>1, <3>3
      <4> QED  BY <3>1, <4>1
    <3> QED  BY <3>2, <3>3
  <2>7. ASSUME NEW i \in DOMAIN s PROVE m[Len(d) + i] = s[i]
    <3>1. Len(d) + i \in DOMAIN w /\ Len(d) + i \notin DOMAIN d /\ w[Len(d) + i] = s[i]
      BY <1>2, <2>2
    <3> QED  BY <2>1, <3>1
  <2> QED  BY <2>5, <2>6, <2>7 DEF m
<1> QED  BY <1>3, <1>4, <1>5

-----------------------------------------------------------------------------
(* Counting the specifiers that were read.                                 *)

Where(s, w) == {i \in DOMAIN s : s[i] = w}
Shift(S) == {i + 1 : i \in S}

LEMMA FirstN ==
  ASSUME NEW n \in Nat
  PROVE  IsFiniteSet(1..n) /\ Cardinality(1..n) = n
<1>1. 1 \in Int /\ n \in Int  OBVIOUS
<1>2. IsFiniteSet(1..n) /\ Cardinality(1..n) = IF 1 > n THEN 0 ELSE n - 1 + 1
  BY <1>1, FS_Interval
<1> QED  BY <1>2

LEMMA WhereFinite ==
  ASSUME NEW s, IsChain(s), NEW w
  PROVE  /\ IsFiniteSet(Where(s, w)) /\ Cardinality(Where(s, w)) \in Nat
         /\ Cardinality(Where(s, w)) = 0 <=> \A i \in DOMAIN s : s[i] # w
         /\ Where(s, w) \subseteq 1..Len(s) /\ Len(s) \in Nat
         /\ Cardinality(Where(s, w)) <= Len(s)
<1>1. Len(s) \in Nat /\ Where(s, w) \subseteq 1..Len(s)
  BY ChainDomain DEF Where
<1>2. IsFiniteSet(1..Len(s)) /\ Cardinality(1..Len(s)) = Len(s)
  BY <1>1, FirstN
<1>3. IsFiniteSet(Where(s, w)) /\ Cardinality(Where(s, w)) <= Len(s)
  BY <1>1, <1>2, FS_Subset
<1>4. Cardinality(Where(s, w)) \in Nat
  BY <1>3, FS_CardinalityType
<1>5. Cardinality(Where(s, w)) = 0 <=> Where(s, w) = {}
  BY <1>3, FS_EmptySet
<1> QED  BY <1>1, <1>3, <1>4, <1>5 DEF Where

LEMMA ShiftKeeps ==
  ASSUME NEW n \in Nat, NEW S \in SUBSET (1..n)
  PROVE  IsFiniteSet(Shift(S)) /\ Cardinality(Shift(S)) = Cardinality(S)
<1>1. IsFiniteSet(S)
  BY FirstN, FS_Subset
<1> DEFINE f == [i \in S |-> i + 1]
<1>2. f \in Bijection(S, Shift(S))
  <2>1. f \in [S -> Shift(S)]  BY DEF Shift
  <2>2. \A a, b \in S : f[a] = f[b] => a = b  OBVIOUS
  <2>3. \A t \in Shift(S) : \E a \in S : f[a] = t  BY DEF Shift
  <2> QED  BY <2>1, <2>2, <2>3 DEF Bijection, Injection, Surjection, IsInjective
<1>3. ExistsBijection(S, Shift(S))
  BY <1>2 DEF ExistsBijection
<1> QED  BY <1>1, <1>3, FS_Bijection

\* One more of the word that is put before the others, and of no other.
LEMMA CountBefore ==
  ASSUME NEW s, IsChain(s), NEW v, NEW w
  PROVE  Cardinality(Where(<<v>> \o s, w)) =
           Cardinality(Where(s, w)) + (IF v = w THEN 1 ELSE 0)
<1> DEFINE t == <<v>> \o s
<1>1. /\ DOMAIN t = 1..(1 + Len(s)) /\ t[1] = v
      /\ \A i \in DOMAIN s : t[1 + i] = s[i]
  BY OneNode, Joined
<1>2. Len(s) \in Nat /\ DOMAIN s = 1..Len(s)
  BY ChainDomain
<1> HIDE DEF t
<1>3. Where(t, w) = Shift(Where(s, w)) \cup (IF v = w THEN {1} ELSE {})
  <2>1. ASSUME NEW i \in 2..(1 + Len(s)) PROVE i - 1 \in DOMAIN s /\ t[i] = s[i - 1] /\ i = (i - 1) + 1
    <3>1. i - 1 \in DOMAIN s /\ 1 + (i - 1) = i  BY <1>2
    <3> QED  BY <1>1, <3>1
  <2>2. ASSUME NEW i \in Where(t, w) PROVE i \in Shift(Where(s, w)) \cup (IF v = w THEN {1} ELSE {})
    <3>1. i \in 1..(1 + Len(s)) /\ t[i] = w  BY <1>1 DEF Where
    <3>2. CASE i = 1  BY <1>1, <3>1, <3>2
    <3>3. CASE i # 1
      <4>1. i \in 2..(1 + Len(s))  BY <1>2, <3>1, <3>3
      <4>2. i - 1 \in Where(s, w) /\ i = (i - 1) + 1  BY <2>1, <3>1, <4>1 DEF Where
      <4> QED  BY <4>2 DEF Shift
    <3> QED  BY <3>2, <3>3
  <2>3. ASSUME NEW i \in Where(s, w) PROVE i + 1 \in Where(t, w)
    <3>1. i \in 1..Len(s) /\ s[i] = w  BY <1>2 DEF Where
    <3>2. i + 1 \in DOMAIN t /\ i + 1 = 1 + i  BY <1>1, <1>2, <3>1
    <3> QED  BY <1>1, <1>2, <3>1, <3>2 DEF Where
  <2>4. v = w => 1 \in Where(t, w)
    BY <1>1, <1>2 DEF Where
  <2> QED  BY <2>2, <2>3, <2>4 DEF Shift
<1>4. Where(s, w) \subseteq 1..Len(s) /\ IsFiniteSet(Where(s, w)) /\ Cardinality(Where(s, w)) \in Nat
  BY WhereFinite
<1>5. IsFiniteSet(Shift(Where(s, w))) /\ Cardinality(Shift(Where(s, w))) = Cardinality(Where(s, w))
  BY <1>2, <1>4, ShiftKeeps
<1>6. CASE v = w
  <2>1. 1 \notin Shift(Where(s, w))  BY <1>4 DEF Shift
  <2>2. Where(t, w) = Shift(Where(s, w)) \cup {1}  BY <1>3, <1>6
  <2> QED  BY <1>5, <1>6, <2>1, <2>2, FS_AddElement DEF t
<1>7. CASE v # w
  <2>1. Where(t, w) = Shift(Where(s, w))  BY <1>3, <1>7
  <2> QED  BY <1>4, <1>5, <1>7, <2>1 DEF t
<1> QED  BY <1>6, <1>7

-----------------------------------------------------------------------------
(* ey_type_combine, against what the list of specifiers means.             *)

IntegerSpellings == {Signed, Unsigned, Short, Long, Base("int"), Base("char")}
Words == Spellings \cup {StructTag}

IsSpelled(ws, s, l, b) ==
  /\ OnlyOf(ws, IntegerSpellings)
  /\ b = "char" => l = "none"
  /\ Count(ws, Signed) = (IF s = "signed" THEN 1 ELSE 0)
  /\ Count(ws, Unsigned) = (IF s = "unsigned" THEN 1 ELSE 0)
  /\ Count(ws, Short) = (IF l = "short" THEN 1 ELSE 0)
  /\ Count(ws, Long) = (IF l = "long_long" THEN 2 ELSE IF l = "long" THEN 1 ELSE 0)
  /\ Count(ws, Base("int")) = (IF b = "int" THEN 1 ELSE 0)
  /\ Count(ws, Base("char")) = (IF b = "char" THEN 1 ELSE 0)
IsRead(ws, w) ==
  \/ w \in {Base("void"), Base("double")} /\ ws = <<w>>
  \/ \E s \in {"none", "signed", "unsigned"}, l \in Lengths, b \in {"none", "int", "char"} :
       w = Word(s, l, b) /\ IsSpelled(ws, s, l, b)

LEMMA SpellingsAre ==
  Spellings = IntegerSpellings \cup {Base("void"), Base("double")}
BY DEF Spellings, IntegerSpellings, Signed, Unsigned, Short, Long, Base, Word

LEMMA CountIs ==
  ASSUME NEW ws, IsChain(ws), NEW w
  PROVE  /\ Count(ws, w) \in Nat
         /\ Count(ws, w) = 0 <=> \A i \in DOMAIN ws : ws[i] # w
         /\ Count(ws, w) <= Len(ws)
         /\ \A v : Count(<<v>> \o ws, w) = Count(ws, w) + (IF v = w THEN 1 ELSE 0)
<1>1. Count(ws, w) = Cardinality(Where(ws, w))
  BY DEF Count, Where
<1>2. \A v : Count(<<v>> \o ws, w) = Cardinality(Where(<<v>> \o ws, w))
  BY DEF Count, Where
<1>3. ASSUME NEW v PROVE Count(<<v>> \o ws, w) = Count(ws, w) + (IF v = w THEN 1 ELSE 0)
  <2>1. Cardinality(Where(<<v>> \o ws, w)) =
          Cardinality(Where(ws, w)) + (IF v = w THEN 1 ELSE 0)
    BY CountBefore
  <2> QED  BY <1>1, <1>2, <2>1
<1> QED  BY <1>1, <1>3, WhereFinite

LEMMA Before ==
  ASSUME NEW ws, IsChain(ws), NEW v
  PROVE  /\ IsChain(<<v>> \o ws) /\ Len(<<v>> \o ws) = 1 + Len(ws)
         /\ DOMAIN (<<v>> \o ws) = 1..(1 + Len(ws)) /\ DOMAIN ws = 1..Len(ws) /\ Len(ws) \in Nat
         /\ (<<v>> \o ws)[1] = v
         /\ \A i \in DOMAIN ws : (<<v>> \o ws)[i + 1] = ws[i]
         /\ \A S : OnlyOf(<<v>> \o ws, S) <=> v \in S /\ OnlyOf(ws, S)
<1> DEFINE t == <<v>> \o ws
<1>1. IsChain(<<v>>) /\ Len(<<v>>) = 1 /\ DOMAIN <<v>> = 1..1 /\ <<v>>[1] = v
  BY OneNode
<1>2. Len(ws) \in Nat /\ DOMAIN ws = 1..Len(ws)
  BY ChainDomain
<1>3. /\ IsChain(t) /\ Len(t) = 1 + Len(ws) /\ DOMAIN t = 1..(1 + Len(ws))
      /\ t[1] = v /\ \A i \in DOMAIN ws : t[1 + i] = ws[i]
  BY OneNode, Joined
<1> HIDE DEF t
<1>4. \A i \in DOMAIN ws : t[i + 1] = ws[i]
  BY <1>2, <1>3
<1>5. ASSUME NEW S PROVE OnlyOf(t, S) <=> v \in S /\ OnlyOf(ws, S)
  <2>1. ASSUME OnlyOf(t, S) PROVE v \in S /\ OnlyOf(ws, S)
    <3>1. 1 \in DOMAIN t /\ \A i \in DOMAIN ws : i + 1 \in DOMAIN t  BY <1>2, <1>3
    <3> QED  BY <1>3, <1>4, <2>1, <3>1 DEF OnlyOf
  <2>2. ASSUME v \in S, OnlyOf(ws, S) PROVE OnlyOf(t, S)
    <3> SUFFICES ASSUME NEW i \in DOMAIN t PROVE t[i] \in S  BY DEF OnlyOf
    <3>1. i = 1 \/ (i - 1 \in DOMAIN ws /\ i = 1 + (i - 1))  BY <1>2, <1>3
    <3> QED  BY <1>3, <2>2, <3>1 DEF OnlyOf
  <2> QED  BY <2>1, <2>2
<1> QED  BY <1>2, <1>3, <1>4, <1>5 DEF t

\* Words that stand alone in a list of specifiers.
AloneWords == {Base("void"), Base("double"), StructTag}

LEMMA AloneRefused ==
  ASSUME NEW ws, NEW i \in DOMAIN ws, ws[i] \in AloneWords, Len(ws) # 1
  PROVE  MeantWord(ws) = {}
<1>1. /\ ~OnlyOf(ws, {Base("char"), Signed, Unsigned})
      /\ ~OnlyOf(ws, {Signed, Unsigned, Short, Long, Base("int")})
  BY DEF OnlyOf, AloneWords, StructTag, Signed, Unsigned, Short, Long, Base, Word
<1> QED  BY <1>1, Zenon DEF MeantWord

LEMMA AloneMeant ==
  ASSUME NEW w \in AloneWords
  PROVE  MeantWord(<<w>>) = {w}
<1>1. Len(<<w>>) = 1 /\ DOMAIN <<w>> = 1..1 /\ <<w>>[1] = w
  BY OneNode
<1>2. OnlyOf(<<w>>, {Base("void"), Base("double"), StructTag})
  BY <1>1 DEF OnlyOf, AloneWords
<1> QED  BY <1>1, <1>2, Zenon DEF MeantWord

\* What was read of a list is what the list means.
LEMMA ReadIsMeant ==
  ASSUME NEW ws, IsChain(ws), NEW w, IsRead(ws, w)
  PROVE  MeantWord(ws) = {NormalWord(w)}
<1>1. CASE w \in {Base("void"), Base("double")} /\ ws = <<w>>
  <2>1. MeantWord(ws) = {w}  BY <1>1, AloneMeant DEF AloneWords
  <2>2. NormalWord(w) = w  BY <1>1 DEF NormalWord, Base, Word
  <2> QED  BY <2>1, <2>2
<1>2. ASSUME NEW s \in {"none", "signed", "unsigned"}, NEW l \in Lengths, NEW b \in {"none", "int", "char"},
             w = Word(s, l, b), IsSpelled(ws, s, l, b)
      PROVE  MeantWord(ws) = {NormalWord(w)}
  <2>1. ~(Len(ws) = 1 /\ OnlyOf(ws, {Base("void"), Base("double"), StructTag}))
    <3> SUFFICES ASSUME Len(ws) = 1 PROVE ~OnlyOf(ws, {Base("void"), Base("double"), StructTag})
      OBVIOUS
    <3>1. 1 \in DOMAIN ws  BY ChainDomain
    <3>2. ws[1] \in IntegerSpellings  BY <1>2, <3>1 DEF IsSpelled, OnlyOf
    <3>3. ws[1] \notin {Base("void"), Base("double"), StructTag}
      BY <3>2 DEF IntegerSpellings, StructTag, Signed, Unsigned, Short, Long, Base, Word
    <3> QED  BY <3>1, <3>3 DEF OnlyOf
  <2>2. /\ ~(Count(ws, Signed) + Count(ws, Unsigned) > 1)
        /\ WrittenSign(ws) = IF s = "none" THEN "signed" ELSE s
        /\ WrittenLength(ws) = l
    <3>1. /\ s = "signed" => Count(ws, Signed) = 1 /\ Count(ws, Unsigned) = 0
          /\ s = "unsigned" => Count(ws, Signed) = 0 /\ Count(ws, Unsigned) = 1
          /\ s = "none" => Count(ws, Signed) = 0 /\ Count(ws, Unsigned) = 0
      BY <1>2 DEF IsSpelled
    <3>2. /\ l = "short" => Count(ws, Short) = 1 /\ Count(ws, Long) = 0
          /\ l = "long" => Count(ws, Short) = 0 /\ Count(ws, Long) = 1
          /\ l = "long_long" => Count(ws, Short) = 0 /\ Count(ws, Long) = 2
          /\ l = "none" => Count(ws, Short) = 0 /\ Count(ws, Long) = 0
      BY <1>2 DEF IsSpelled
    <3>3. ~(Count(ws, Signed) + Count(ws, Unsigned) > 1)
      BY <3>1
    <3>4. WrittenSign(ws) = IF s = "none" THEN "signed" ELSE s
      BY <3>1 DEF WrittenSign
    <3>5. WrittenLength(ws) = l
      <4>1. CASE l = "short"  BY <3>2, <4>1 DEF WrittenLength
      <4>2. CASE l = "long"  BY <3>2, <4>2 DEF WrittenLength
      <4>3. CASE l = "long_long"  BY <3>2, <4>3 DEF WrittenLength
      <4>4. CASE l = "none"  BY <3>2, <4>4 DEF WrittenLength
      <4> QED  BY <4>1, <4>2, <4>3, <4>4 DEF Lengths
    <3> QED  BY <3>3, <3>4, <3>5
  <2>3. CASE b = "char"
    <3>1. \A i \in DOMAIN ws : ws[i] \notin {Short, Long, Base("int")}
      BY <1>2, <2>3, CountIs DEF IsSpelled
    <3>2. OnlyOf(ws, {Base("char"), Signed, Unsigned}) /\ Count(ws, Base("char")) = 1
      BY <1>2, <2>3, <3>1 DEF IsSpelled, OnlyOf, IntegerSpellings
    <3>3. MeantWord(ws) = {Word(WrittenSign(ws), "none", "char")}
      BY <2>1, <2>2, <3>2, Zenon DEF MeantWord
    <3>4. NormalWord(w) = Word(WrittenSign(ws), "none", "char")
      BY <1>2, <2>2, <2>3 DEF NormalWord, Word
    <3> QED  BY <3>3, <3>4
  <2>4. CASE b # "char"
    <3>1. Count(ws, Base("char")) = 0  BY <1>2, <2>4 DEF IsSpelled
    <3>2. \A i \in DOMAIN ws : ws[i] # Base("char")
      BY <3>1, CountIs
    <3>3. OnlyOf(ws, {Signed, Unsigned, Short, Long, Base("int")})
      BY <1>2, <3>2 DEF IsSpelled, OnlyOf, IntegerSpellings
    <3>4. /\ Count(ws, Base("int")) <= 1 /\ Count(ws, Short) <= 1 /\ Count(ws, Long) <= 2
          /\ Count(ws, Short) = 0 \/ Count(ws, Long) = 0
      <4>1. Count(ws, Base("int")) \in {0, 1} /\ Count(ws, Short) \in {0, 1}
        BY <1>2 DEF IsSpelled
      <4>2. Count(ws, Long) \in {0, 1, 2}
        BY <1>2 DEF IsSpelled
      <4>3. Count(ws, Short) = 0 \/ Count(ws, Long) = 0
        BY <1>2 DEF IsSpelled
      <4> QED  BY <4>1, <4>2, <4>3
    <3>5. ~(Count(ws, Base("char")) = 1)  BY <3>1
    <3>6. MeantWord(ws) = {IntegerWord(WrittenSign(ws), WrittenLength(ws))}
      BY <2>1, <2>2, <3>3, <3>4, <3>5, Zenon DEF MeantWord
    <3>7. NormalWord(w) = IntegerWord(WrittenSign(ws), l)
      BY <1>2, <2>2, <2>4 DEF NormalWord, Word, Lengths
    <3> QED  BY <2>2, <3>6, <3>7
  <2> QED  BY <2>3, <2>4
<1> QED  BY <1>1, <1>2 DEF IsRead

\* A sign after char: no specifier before them makes a type of the list.
LEMMA CharBeforeSignStays ==
  ASSUME NEW ws, IsChain(ws), NEW v, CharBeforeSign(ws)
  PROVE  CharBeforeSign(<<v>> \o ws)
<1>1. PICK i, j \in DOMAIN ws : i < j /\ ws[i] = Base("char") /\ ws[j] \in {Signed, Unsigned}
  BY DEF CharBeforeSign
<1> DEFINE t == <<v>> \o ws
<1>2. /\ DOMAIN t = 1..(1 + Len(ws)) /\ DOMAIN ws = 1..Len(ws) /\ Len(ws) \in Nat
      /\ \A k \in DOMAIN ws : t[k + 1] = ws[k]
  BY Before
<1> HIDE DEF t
<1>3. i + 1 \in DOMAIN t /\ j + 1 \in DOMAIN t /\ i + 1 < j + 1
  BY <1>1, <1>2
<1>4. CharBeforeSign(t)
  BY <1>1, <1>2, <1>3 DEF CharBeforeSign
<1> QED  BY <1>4 DEF t

LEMMA CharBeforeSignRefused ==
  ASSUME NEW ws, IsChain(ws), NEW v, CharBeforeSign(ws)
  PROVE  MeantWord(<<v>> \o ws) = {}
<1> DEFINE t == <<v>> \o ws
<1>1. PICK i, j \in DOMAIN ws : i < j /\ ws[i] = Base("char") /\ ws[j] \in {Signed, Unsigned}
  BY DEF CharBeforeSign
<1>2. Len(ws) \in Nat /\ DOMAIN ws = 1..Len(ws) /\ Len(t) = 1 + Len(ws)
  BY Before
<1>3. Len(t) # 1
  BY <1>1, <1>2
<1>4. \A w : /\ Count(ws, w) \in Nat
             /\ Count(ws, w) = 0 <=> \A k \in DOMAIN ws : ws[k] # w
             /\ Count(t, w) = Count(ws, w) + (IF v = w THEN 1 ELSE 0)
  BY CountIs
<1>5. \A S : OnlyOf(t, S) <=> v \in S /\ OnlyOf(ws, S)
  BY Before
<1> HIDE DEF t
<1>6. Count(ws, Base("char")) >= 1 /\ Count(ws, Signed) + Count(ws, Unsigned) >= 1
  <2>1. Count(ws, Base("char")) # 0  BY <1>1, <1>4
  <2>2. Count(ws, Signed) # 0 \/ Count(ws, Unsigned) # 0  BY <1>1, <1>4
  <2>3. /\ Count(ws, Base("char")) \in Nat /\ Count(ws, Signed) \in Nat
        /\ Count(ws, Unsigned) \in Nat
    BY <1>4
  <2> QED  BY <2>1, <2>2, <2>3
<1>7. ~OnlyOf(t, {Signed, Unsigned, Short, Long, Base("int")})
  <2>1. Base("char") \notin {Signed, Unsigned, Short, Long, Base("int")}
    BY DEF Signed, Unsigned, Short, Long, Base, Word
  <2> QED  BY <1>1, <1>5, <2>1 DEF OnlyOf
<1>8. /\ Count(t, Signed) \in Nat /\ Count(t, Unsigned) \in Nat /\ Count(t, Base("char")) \in Nat
      /\ v \in {Signed, Unsigned} => Count(t, Signed) + Count(t, Unsigned) > 1
      /\ v = Base("char") => Count(t, Base("char")) > 1
  <2>1. ASSUME NEW w
        PROVE  /\ Count(ws, w) \in Nat /\ Count(t, w) \in Nat
               /\ Count(t, w) = IF v = w THEN Count(ws, w) + 1 ELSE Count(ws, w)
    BY <1>4
  <2>2. /\ Count(t, Signed) = IF v = Signed THEN Count(ws, Signed) + 1 ELSE Count(ws, Signed)
        /\ Count(t, Unsigned) = IF v = Unsigned THEN Count(ws, Unsigned) + 1 ELSE Count(ws, Unsigned)
        /\ Count(t, Base("char")) =
             IF v = Base("char") THEN Count(ws, Base("char")) + 1 ELSE Count(ws, Base("char"))
        /\ Count(t, Signed) \in Nat /\ Count(t, Unsigned) \in Nat /\ Count(t, Base("char")) \in Nat
        /\ Count(ws, Signed) \in Nat /\ Count(ws, Unsigned) \in Nat
        /\ Count(ws, Base("char")) \in Nat
    BY <2>1
  <2> QED  BY <1>6, <2>2
<1>9. v \notin {Base("char"), Signed, Unsigned} => ~OnlyOf(t, {Base("char"), Signed, Unsigned})
  BY <1>5
<1>10. v = Base("char") => ~(Count(t, Base("char")) = 1)
  BY <1>8
<1> QED
  <2>1. CASE v \in {Signed, Unsigned}  BY <1>3, <1>8, <2>1, Zenon DEF MeantWord, t
  <2>2. CASE v = Base("char")  BY <1>3, <1>7, <1>10, <2>2, Zenon DEF MeantWord, t
  <2>3. CASE v \notin {Base("char"), Signed, Unsigned}
    BY <1>3, <1>7, <1>9, <2>3, Zenon DEF MeantWord, t
  <2> QED  BY <2>1, <2>2, <2>3

CharSpellings == {Base("char"), Signed, Unsigned}
IntSpellings == {Signed, Unsigned, Short, Long, Base("int")}

LEMMA SpellingsDiffer ==
  /\ Signed # Unsigned /\ Signed # Short /\ Signed # Long /\ Signed # Base("int")
  /\ Signed # Base("char") /\ Unsigned # Short /\ Unsigned # Long /\ Unsigned # Base("int")
  /\ Unsigned # Base("char") /\ Short # Long /\ Short # Base("int") /\ Short # Base("char")
  /\ Long # Base("int") /\ Long # Base("char") /\ Base("int") # Base("char")
  /\ IntegerSpellings \cap AloneWords = {} /\ Pesudo \notin Words
BY DEF Signed, Unsigned, Short, Long, Base, Word, IntegerSpellings, AloneWords, StructTag,
       Pesudo, Words, Spellings

LEMMA SpelledKinds ==
  ASSUME NEW ws, IsChain(ws), NEW s, NEW l \in Lengths, NEW b, IsSpelled(ws, s, l, b)
  PROVE  /\ l # "none" \/ b = "int" => ~OnlyOf(ws, CharSpellings)
         /\ b = "char" => ~OnlyOf(ws, IntSpellings)
         /\ s \in {"signed", "unsigned"} => \E i \in DOMAIN ws : ws[i] \in {Signed, Unsigned}
         /\ s \notin {"signed", "unsigned"} /\ l = "none" /\ b \notin {"int", "char"} => ws = <<>>
<1>1. \A w : Count(ws, w) = 0 <=> \A i \in DOMAIN ws : ws[i] # w
  BY CountIs
<1>2. ASSUME l # "none" \/ b = "int" PROVE ~OnlyOf(ws, CharSpellings)
  <2>1. Count(ws, Short) # 0 \/ Count(ws, Long) # 0 \/ Count(ws, Base("int")) # 0
    BY <1>2 DEF IsSpelled, Lengths
  <2>2. PICK i \in DOMAIN ws : ws[i] \in {Short, Long, Base("int")}
    BY <1>1, <2>1
  <2>3. ws[i] \notin CharSpellings
    BY <2>2, SpellingsDiffer DEF CharSpellings
  <2> QED  BY <2>3 DEF OnlyOf
<1>3. ASSUME b = "char" PROVE ~OnlyOf(ws, IntSpellings)
  <2>1. Count(ws, Base("char")) # 0  BY <1>3 DEF IsSpelled
  <2>2. PICK i \in DOMAIN ws : ws[i] = Base("char")  BY <1>1, <2>1
  <2> QED  BY <2>2, SpellingsDiffer DEF OnlyOf, IntSpellings
<1>4. ASSUME s \in {"signed", "unsigned"} PROVE \E i \in DOMAIN ws : ws[i] \in {Signed, Unsigned}
  <2>1. Count(ws, Signed) # 0 \/ Count(ws, Unsigned) # 0  BY <1>4 DEF IsSpelled
  <2> QED  BY <1>1, <2>1
<1>5. ASSUME s \notin {"signed", "unsigned"}, l = "none", b \notin {"int", "char"} PROVE ws = <<>>
  <2>1. /\ Count(ws, Signed) = 0 /\ Count(ws, Unsigned) = 0 /\ Count(ws, Short) = 0
        /\ Count(ws, Long) = 0 /\ Count(ws, Base("int")) = 0 /\ Count(ws, Base("char")) = 0
    BY <1>5 DEF IsSpelled
  <2>2. \A i \in DOMAIN ws : ws[i] \notin IntegerSpellings
    BY <1>1, <2>1 DEF IntegerSpellings
  <2>3. \A i \in DOMAIN ws : ws[i] \in IntegerSpellings
    BY DEF IsSpelled, OnlyOf
  <2>4. Len(ws) \in Nat /\ DOMAIN ws = 1..Len(ws) /\ (ws = <<>> <=> Len(ws) = 0)
    BY ChainDomain
  <2>5. ~(1 \in DOMAIN ws)  BY <2>2, <2>3
  <2> QED  BY <2>4, <2>5
<1> QED  BY <1>2, <1>3, <1>4, <1>5

\* What a list that another integer word is put before has of each word.
LEMMA SpelledBefore ==
  ASSUME NEW ws, IsChain(ws), NEW s, NEW l, NEW b, IsSpelled(ws, s, l, b),
         NEW v \in IntegerSpellings
  PROVE  LET t == <<v>> \o ws
             One(x) == IF v = x THEN 1 ELSE 0
         IN /\ OnlyOf(t, IntegerSpellings) /\ ~OnlyOf(t, AloneWords)
            /\ \A S : OnlyOf(t, S) <=> v \in S /\ OnlyOf(ws, S)
            /\ Count(t, Signed) = (IF s = "signed" THEN 1 ELSE 0) + One(Signed)
            /\ Count(t, Unsigned) = (IF s = "unsigned" THEN 1 ELSE 0) + One(Unsigned)
            /\ Count(t, Short) = (IF l = "short" THEN 1 ELSE 0) + One(Short)
            /\ Count(t, Long) =
                 (IF l = "long_long" THEN 2 ELSE IF l = "long" THEN 1 ELSE 0) + One(Long)
            /\ Count(t, Base("int")) = (IF b = "int" THEN 1 ELSE 0) + One(Base("int"))
            /\ Count(t, Base("char")) = (IF b = "char" THEN 1 ELSE 0) + One(Base("char"))
<1> DEFINE t == <<v>> \o ws
           One(x) == IF v = x THEN 1 ELSE 0
<1>1. ASSUME NEW x PROVE Count(t, x) = Count(ws, x) + One(x)
  BY CountIs
<1>2. \A S : OnlyOf(t, S) <=> v \in S /\ OnlyOf(ws, S)
  BY Before
<1> HIDE DEF t, One
<1>3. OnlyOf(t, IntegerSpellings) /\ ~OnlyOf(t, AloneWords)
  BY <1>2, SpellingsDiffer DEF IsSpelled
<1>4. /\ Count(t, Signed) = (IF s = "signed" THEN 1 ELSE 0) + One(Signed)
      /\ Count(t, Unsigned) = (IF s = "unsigned" THEN 1 ELSE 0) + One(Unsigned)
      /\ Count(t, Short) = (IF l = "short" THEN 1 ELSE 0) + One(Short)
      /\ Count(t, Long) =
           (IF l = "long_long" THEN 2 ELSE IF l = "long" THEN 1 ELSE 0) + One(Long)
      /\ Count(t, Base("int")) = (IF b = "int" THEN 1 ELSE 0) + One(Base("int"))
      /\ Count(t, Base("char")) = (IF b = "char" THEN 1 ELSE 0) + One(Base("char"))
  BY <1>1 DEF IsSpelled
<1> QED  BY <1>2, <1>3, <1>4 DEF t, One

\* A list that no type is meant by.
LEMMA NoneMeant ==
  ASSUME NEW t, ~OnlyOf(t, AloneWords),
         \/ Count(t, Signed) + Count(t, Unsigned) > 1
         \/ /\ ~OnlyOf(t, CharSpellings) \/ ~(Count(t, Base("char")) = 1)
            /\ \/ ~OnlyOf(t, IntSpellings) \/ ~(Count(t, Base("int")) <= 1)
               \/ ~(Count(t, Short) <= 1) \/ ~(Count(t, Long) <= 2)
               \/ ~(Count(t, Short) = 0) /\ ~(Count(t, Long) = 0)
  PROVE  MeantWord(t) = {}
BY Zenon DEF MeantWord, AloneWords, CharSpellings, IntSpellings

CombineSound(ws, v, w) ==
  /\ \A r \in CombineWord(v, w) : IsRead(<<v>> \o ws, r) \/ CharBeforeSign(<<v>> \o ws)
  /\ CombineWord(v, w) = {} => MeantWord(<<v>> \o ws) = {}

\* Every specifier left of the integer ones that were read: one combination a case.
LEMMA CombineSpelled ==
  ASSUME NEW ws, IsChain(ws), NEW v \in IntegerSpellings,
         NEW s \in {"none", "signed", "unsigned"}, NEW l \in Lengths, NEW b \in {"none", "int", "char"},
         IsSpelled(ws, s, l, b)
  PROVE  CombineSound(ws, v, Word(s, l, b))
<1> DEFINE t == <<v>> \o ws
           w == Word(s, l, b)
           One(x) == IF v = x THEN 1 ELSE 0
<1>1. /\ OnlyOf(t, IntegerSpellings) /\ ~OnlyOf(t, AloneWords)
      /\ \A S : OnlyOf(t, S) <=> v \in S /\ OnlyOf(ws, S)
  BY SpelledBefore
<1>2. /\ Count(t, Signed) = (IF s = "signed" THEN 1 ELSE 0) + One(Signed)
      /\ Count(t, Unsigned) = (IF s = "unsigned" THEN 1 ELSE 0) + One(Unsigned)
      /\ Count(t, Short) = (IF l = "short" THEN 1 ELSE 0) + One(Short)
      /\ Count(t, Long) =
           (IF l = "long_long" THEN 2 ELSE IF l = "long" THEN 1 ELSE 0) + One(Long)
      /\ Count(t, Base("int")) = (IF b = "int" THEN 1 ELSE 0) + One(Base("int"))
      /\ Count(t, Base("char")) = (IF b = "char" THEN 1 ELSE 0) + One(Base("char"))
  BY SpelledBefore
<1>3. /\ l # "none" \/ b = "int" => ~OnlyOf(ws, CharSpellings)
      /\ b = "char" => ~OnlyOf(ws, IntSpellings) /\ l = "none"
  BY SpelledKinds DEF IsSpelled
<1>4. w.sign = s /\ w.length = l /\ w.base = b
  BY DEF Word
<1>5. \A S : ~(v \in S) \/ ~OnlyOf(ws, S) => ~OnlyOf(t, S)
  BY <1>1
<1>6. ASSUME NEW s1 \in {"none", "signed", "unsigned"}, NEW l1 \in Lengths,
             NEW b1 \in {"none", "int", "char"}, IsSpelled(t, s1, l1, b1)
      PROVE  IsRead(t, Word(s1, l1, b1))
  BY <1>6, Zenon DEF IsRead
<1> HIDE DEF t, w
<1>7. CASE v = Short
  <2>1. CombineWord(v, w) = CombineShort(w)
    BY <1>7 DEF CombineWord, Short, Long, Base, Signed, Unsigned, Word
  <2>2. CASE l = "none" /\ b \in {"none", "int"}
    <3>1. CombineWord(v, w) = {Word(s, "short", b)}
      BY <1>4, <2>1, <2>2 DEF CombineShort
    <3>2. IsSpelled(t, s, "short", b)
      BY <1>1, <1>2, <1>7, <2>2, SpellingsDiffer DEF IsSpelled
    <3> QED  BY <1>6, <3>1, <3>2 DEF CombineSound, t, w, Lengths
  <2>3. CASE ~(l = "none" /\ b \in {"none", "int"})
    <3>1. CombineWord(v, w) = {}  BY <1>4, <2>1, <2>3 DEF CombineShort
    <3>2. ~OnlyOf(t, CharSpellings)
      BY <1>5, <1>7, SpellingsDiffer DEF CharSpellings
    <3>3. \/ ~OnlyOf(t, IntSpellings) \/ ~(Count(t, Short) <= 1)
          \/ ~(Count(t, Short) = 0) /\ ~(Count(t, Long) = 0)
      <4>1. CASE b = "char"  BY <1>3, <1>5, <4>1
      <4>2. CASE l = "short"
        <5>1. Count(t, Short) = 1 + 1  BY <1>2, <1>7, <4>2
        <5> QED  BY <5>1
      <4>3. CASE l \in {"long", "long_long"}
        <5>1. Count(t, Short) = 0 + 1 /\ Count(t, Long) \in {1 + 0, 2 + 0}
          BY <1>2, <1>7, <4>3, SpellingsDiffer
        <5> QED  BY <5>1
      <4> QED  BY <2>3, <4>1, <4>2, <4>3 DEF Lengths
    <3>4. MeantWord(t) = {}  BY <1>1, <3>2, <3>3, NoneMeant
    <3> QED  BY <3>1, <3>4 DEF CombineSound, t, w
  <2> QED  BY <2>2, <2>3
<1>8. CASE v = Base("int")
  <2>1. CombineWord(v, w) = CombineInt(w)
    BY <1>8 DEF CombineWord, Short, Long, Base, Signed, Unsigned, Word
  <2>2. CASE b = "none"
    <3>1. CombineWord(v, w) = {Word(s, l, "int")}
      BY <1>4, <2>1, <2>2 DEF CombineInt
    <3>2. IsSpelled(t, s, l, "int")
      BY <1>1, <1>2, <1>8, <2>2, SpellingsDiffer DEF IsSpelled
    <3> QED  BY <1>6, <3>1, <3>2 DEF CombineSound, t, w
  <2>3. CASE b # "none"
    <3>1. CombineWord(v, w) = {}  BY <1>4, <2>1, <2>3 DEF CombineInt
    <3>2. ~OnlyOf(t, CharSpellings)
      BY <1>5, <1>8, SpellingsDiffer DEF CharSpellings
    <3>3. ~OnlyOf(t, IntSpellings) \/ ~(Count(t, Base("int")) <= 1)
      <4>1. CASE b = "char"  BY <1>3, <1>5, <4>1
      <4>2. CASE b = "int"
        <5>1. Count(t, Base("int")) = 1 + 1  BY <1>2, <1>8, <4>2
        <5> QED  BY <5>1
      <4> QED  BY <2>3, <4>1, <4>2
    <3>4. MeantWord(t) = {}  BY <1>1, <3>2, <3>3, NoneMeant
    <3> QED  BY <3>1, <3>4 DEF CombineSound, t, w
  <2> QED  BY <2>2, <2>3
<1>9. CASE v = Long
  <2>1. CombineWord(v, w) = CombineLong(w)
    BY <1>9 DEF CombineWord, Short, Long, Base, Signed, Unsigned, Word
  <2>2. CASE l \in {"none", "long"} /\ b \in {"none", "int"}
    <3> DEFINE l1 == IF l = "none" THEN "long" ELSE "long_long"
    <3>1. CombineWord(v, w) = {Word(s, l1, b)}
      BY <1>4, <2>1, <2>2 DEF CombineLong
    <3>2. IsSpelled(t, s, l1, b)
      <4>1. Count(t, Long) = IF l = "none" THEN 0 + 1 ELSE 1 + 1
        BY <1>2, <1>9, <2>2
      <4> QED  BY <1>1, <1>2, <1>9, <2>2, <4>1, SpellingsDiffer DEF IsSpelled
    <3>3. l1 \in Lengths  BY DEF Lengths
    <3> QED  BY <1>6, <3>1, <3>2, <3>3 DEF CombineSound, t, w
  <2>3. CASE ~(l \in {"none", "long"} /\ b \in {"none", "int"})
    <3>1. CombineWord(v, w) = {}  BY <1>4, <2>1, <2>3 DEF CombineLong
    <3>2. ~OnlyOf(t, CharSpellings)
      BY <1>5, <1>9, SpellingsDiffer DEF CharSpellings
    <3>3. \/ ~OnlyOf(t, IntSpellings) \/ ~(Count(t, Long) <= 2)
          \/ ~(Count(t, Short) = 0) /\ ~(Count(t, Long) = 0)
      <4>1. CASE b = "char"  BY <1>3, <1>5, <4>1
      <4>2. CASE l = "short"
        <5>1. Count(t, Short) = 1 + 0 /\ Count(t, Long) = 0 + 1
          BY <1>2, <1>9, <4>2, SpellingsDiffer
        <5> QED  BY <5>1
      <4>3. CASE l = "long_long"
        <5>1. Count(t, Long) = 2 + 1  BY <1>2, <1>9, <4>3
        <5> QED  BY <5>1
      <4> QED  BY <2>3, <4>1, <4>2, <4>3 DEF Lengths
    <3>4. MeantWord(t) = {}  BY <1>1, <3>2, <3>3, NoneMeant
    <3> QED  BY <3>1, <3>4 DEF CombineSound, t, w
  <2> QED  BY <2>2, <2>3
<1>10. CASE v \in {Signed, Unsigned}
  <2>1. CombineWord(v, w) = CombineSign(v, w) /\ v.sign \in {"signed", "unsigned"}
    BY <1>10, SpellingsDiffer DEF CombineWord, Short, Long, Base, Signed, Unsigned, Word
  <2>2. CASE s = "none"
    <3>1. CombineWord(v, w) = {Word(v.sign, l, b)}
      BY <1>3, <1>4, <2>1, <2>2 DEF CombineSign
    <3>2. IsSpelled(t, v.sign, l, b)
      <4>1. v.sign = (IF v = Signed THEN "signed" ELSE "unsigned")
        BY <1>10 DEF Signed, Unsigned, Word
      <4>2. /\ Count(t, Signed) = IF v = Signed THEN 0 + 1 ELSE 0
            /\ Count(t, Unsigned) = IF v = Signed THEN 0 ELSE 0 + 1
        BY <1>2, <1>10, <2>2, SpellingsDiffer
      <4> QED  BY <1>1, <1>2, <1>3, <1>10, <4>1, <4>2, SpellingsDiffer DEF IsSpelled
    <3> QED  BY <1>6, <2>1, <3>1, <3>2 DEF CombineSound, t, w
  <2>3. CASE s # "none"
    <3>1. CombineWord(v, w) = {}  BY <1>4, <2>1, <2>3 DEF CombineSign
    <3>2. Count(t, Signed) + Count(t, Unsigned) > 1
      <4>1. \/ Count(t, Signed) = 1 + 1 /\ Count(t, Unsigned) = 0 + 0
            \/ Count(t, Signed) = 0 + 0 /\ Count(t, Unsigned) = 1 + 1
            \/ Count(t, Signed) = 0 + 1 /\ Count(t, Unsigned) = 1 + 0
            \/ Count(t, Signed) = 1 + 0 /\ Count(t, Unsigned) = 0 + 1
        BY <1>2, <1>10, <2>3, SpellingsDiffer
      <4> QED  BY <4>1
    <3>3. MeantWord(t) = {}  BY <1>1, <3>2, NoneMeant
    <3> QED  BY <3>1, <3>3 DEF CombineSound, t, w
  <2> QED  BY <2>2, <2>3
<1>11. CASE v = Base("char")
  <2>1. CombineWord(v, w) = CombineChar(w)
    BY <1>11 DEF CombineWord, Short, Long, Base, Signed, Unsigned, Word
  <2>2. CASE l = "none" /\ b = "none" /\ s = "none"
    <3>1. CombineWord(v, w) = {Word("none", "none", "char")}
      BY <1>4, <2>1, <2>2 DEF CombineChar, Base
    <3>2. IsSpelled(t, "none", "none", "char")
      BY <1>1, <1>2, <1>11, <2>2, SpellingsDiffer DEF IsSpelled
    <3> QED  BY <1>6, <3>1, <3>2 DEF CombineSound, t, w, Lengths
  <2>3. CASE l = "none" /\ b = "none" /\ s # "none"
    <3>1. CombineWord(v, w) = {Word(s, "short", b)}
      BY <1>4, <2>1, <2>3 DEF CombineChar, CombineShort
    <3>2. PICK j \in DOMAIN ws : ws[j] \in {Signed, Unsigned}
      BY <2>3, SpelledKinds
    <3>3. /\ t[1] = v /\ t[j + 1] = ws[j] /\ DOMAIN t = 1..(1 + Len(ws))
          /\ DOMAIN ws = 1..Len(ws) /\ Len(ws) \in Nat
      BY Before DEF t
    <3>4. 1 \in DOMAIN t /\ j + 1 \in DOMAIN t /\ 1 < j + 1
      BY <3>3
    <3>5. CharBeforeSign(t)  BY <1>11, <3>2, <3>3, <3>4 DEF CharBeforeSign
    <3> QED  BY <3>1, <3>5 DEF CombineSound, t, w
  <2>4. CASE ~(l = "none" /\ b = "none")
    <3>1. CombineWord(v, w) = {}  BY <1>4, <2>1, <2>4 DEF CombineChar
    <3>2. ~OnlyOf(t, IntSpellings)
      BY <1>5, <1>11, SpellingsDiffer DEF IntSpellings
    <3>3. ~OnlyOf(t, CharSpellings) \/ ~(Count(t, Base("char")) = 1)
      <4>1. CASE b = "char"
        <5>1. Count(t, Base("char")) = 1 + 1  BY <1>2, <1>11, <4>1
        <5> QED  BY <5>1
      <4>2. CASE b # "char"  BY <1>3, <1>5, <2>4, <4>2
      <4> QED  BY <4>1, <4>2
    <3>4. MeantWord(t) = {}  BY <1>1, <3>2, <3>3, NoneMeant
    <3> QED  BY <3>1, <3>4 DEF CombineSound, t, w
  <2> QED  BY <2>2, <2>3, <2>4
<1> QED  BY <1>7, <1>8, <1>9, <1>10, <1>11 DEF IntegerSpellings, w

\* Every specifier left of any that were read.
LEMMA CombineRead ==
  ASSUME NEW ws, IsChain(ws), NEW v \in Spellings, NEW w, IsRead(ws, w)
  PROVE  CombineSound(ws, v, w)
<1> DEFINE t == <<v>> \o ws
<1>1. /\ DOMAIN t = 1..(1 + Len(ws)) /\ DOMAIN ws = 1..Len(ws) /\ Len(ws) \in Nat
      /\ Len(t) = 1 + Len(ws) /\ t[1] = v /\ \A i \in DOMAIN ws : t[i + 1] = ws[i]
  BY Before
<1> HIDE DEF t
<1>2. CASE w \in {Base("void"), Base("double")} /\ ws = <<w>>
  <2>1. CombineWord(v, w) = {}
    BY <1>2 DEF CombineWord, CombineChar, CombineShort, CombineInt, CombineLong, CombineSign,
                CombineOther, Spellings, Pesudo, Base, Word
  <2>2. Len(ws) = 1 /\ ws[1] = w  BY <1>2, OneNode
  <2>3. 2 \in DOMAIN t /\ t[2] \in AloneWords /\ Len(t) # 1
    BY <1>1, <1>2, <2>2 DEF AloneWords
  <2>4. MeantWord(t) = {}  BY <2>3, AloneRefused
  <2> QED  BY <2>1, <2>4 DEF CombineSound, t
<1>3. ASSUME NEW s \in {"none", "signed", "unsigned"}, NEW l \in Lengths, NEW b \in {"none", "int", "char"},
             w = Word(s, l, b), IsSpelled(ws, s, l, b)
      PROVE  CombineSound(ws, v, w)
  <2>1. CASE v \in IntegerSpellings  BY <1>3, <2>1, CombineSpelled
  <2>2. CASE v \in {Base("void"), Base("double")}
    <3>1. CombineWord(v, w) = CombineOther(v, w)
      BY <2>2 DEF CombineWord, Base, Word
    <3>2. CASE w = Pesudo
      <4>1. s = "none" /\ l = "none" /\ b = "none"
        BY <1>3, <3>2 DEF Pesudo, Base, Word
      <4>2. ws = <<>>  BY <1>3, <4>1, SpelledKinds
      <4>3. t = <<v>>  BY <4>2 DEF t
      <4>4. CombineWord(v, w) = {v}  BY <3>1, <3>2 DEF CombineOther
      <4>5. IsRead(t, v)  BY <2>2, <4>3 DEF IsRead
      <4> QED  BY <4>4, <4>5 DEF CombineSound, t
    <3>3. CASE w # Pesudo
      <4>1. CombineWord(v, w) = {}  BY <3>1, <3>3 DEF CombineOther
      <4>2. ws # <<>>
        <5> SUFFICES ASSUME ws = <<>> PROVE FALSE  OBVIOUS
        <5>1. Len(ws) = 0  BY EmptySeq
        <5>2. \A x : Count(ws, x) = 0
          <6> SUFFICES ASSUME NEW x PROVE Count(ws, x) = 0  OBVIOUS
          <6>1. Count(ws, x) \in Nat /\ Count(ws, x) <= Len(ws)  BY CountIs
          <6> QED  BY <5>1, <6>1
        <5>3. s = "none" /\ l = "none" /\ b = "none"
          BY <1>3, <5>2 DEF IsSpelled, Lengths
        <5> QED  BY <1>3, <3>3, <5>3 DEF Pesudo, Base
      <4>3. Len(ws) # 0  BY <4>2, ChainDomain
      <4>4. 1 \in DOMAIN t /\ t[1] \in AloneWords /\ Len(t) # 1
        BY <1>1, <2>2, <4>3 DEF AloneWords
      <4>5. MeantWord(t) = {}  BY <4>4, AloneRefused
      <4> QED  BY <4>1, <4>5 DEF CombineSound, t
    <3> QED  BY <3>2, <3>3
  <2> QED  BY <2>1, <2>2, SpellingsAre
<1> QED  BY <1>2, <1>3 DEF IsRead

\* No combination is the word of a list without words.
LEMMA CombineNotPesudo ==
  ASSUME NEW v \in Spellings, NEW w, NEW r \in CombineWord(v, w)
  PROVE  r # Pesudo
BY DEF CombineWord, CombineChar, CombineShort, CombineInt, CombineLong, CombineSign,
       CombineOther, Spellings, Pesudo, Base, Word

\* With a tag, or after one, nothing can stand.
LEMMA TagAlone ==
  /\ \A v \in Spellings : CombineWord(v, StructTag) = {}
  /\ \A w : CombineWord(StructTag, w) = IF w = Pesudo THEN {StructTag} ELSE {}
<1>1. ASSUME NEW v \in Spellings PROVE CombineWord(v, StructTag) = {}
  BY DEF CombineWord, CombineChar, CombineShort, CombineInt, CombineLong, CombineSign,
         CombineOther, Spellings, Pesudo, Base, Word, StructTag
<1>2. ASSUME NEW w PROVE CombineWord(StructTag, w) = IF w = Pesudo THEN {StructTag} ELSE {}
  BY DEF CombineWord, CombineOther, Base, Word, StructTag
<1> QED  BY <1>1, <1>2

-----------------------------------------------------------------------------
(* Declarations.                                                           *)

AllQuals == Qualifiers \cup UNION JunkQuals
TagRecord == [complete : BOOLEAN, size : Nat, alignment : Alignments, quals : SUBSET AllQuals]
TagsInv == tags \in [Tags -> TagRecord]

\* What was read of the specifiers: a tag alone, or a word for what they mean.
TagRead ==
  \E t \in Tags : spec = alloc_tag_type(StructTag, t) /\ words = <<StructTag>>
WordRead ==
  /\ spec = alloc_simple_type(word(spec), Quals(spec))
  /\ word(spec) = Pesudo <=> words = <<>>
  /\ CharBeforeSign(words) \/ IsRead(words, word(spec))
SpecInv ==
  /\ IsChain(words)
  /\ spec = NoType => words = <<>> /\ quals = {}
  /\ spec # NoType =>
       (TagRead \/ WordRead) /\ quals \subseteq Quals(spec) /\ Quals(spec) \subseteq AllQuals

\* The declarator is what was written of it.
DeclInv ==
  /\ IsDeclarator(decl) /\ IsChain(derived) /\ Len(derived) = Len(decl)
  /\ \A i \in DOMAIN decl : Derivation(decl[i]) = derived[i]

PhaseInv ==
  /\ phase \in {"file", "tag"} => spec = NoType /\ words = <<>> /\ quals = {}
  /\ phase \in {"file", "tag", "specifiers"} => decl = NoType /\ derived = <<>>
  /\ phase = "declarator" => IsType(spec)

Open == phase \in {"file", "tag", "specifiers", "declarator"}
DeclarationInv ==
  /\ TagsInv /\ PhaseInv /\ DeclaredAsWritten
  /\ Open => SpecInv /\ DeclInv

LEMMA SimpleIs ==
  ASSUME NEW w, NEW q
  PROVE  LET t == alloc_simple_type(w, q)
         IN /\ IsType(t) /\ IsChain(t) /\ Len(t) = 1 /\ DOMAIN t = 1..1
            /\ word(t) = w /\ class(t) = "simple" /\ Quals(t) = q /\ t[1] = Head(t)
            /\ t[1] = [class |-> "simple", type |-> w, quals |-> q]
<1> DEFINE n == [class |-> "simple", type |-> w, quals |-> q]
<1>1. n.class = "simple" /\ n.type = w /\ n.quals = q  OBVIOUS
<1> HIDE DEF n
<1>2. /\ IsChain(<<n>>) /\ Len(<<n>>) = 1 /\ DOMAIN <<n>> = 1..1 /\ <<n>>[1] = n
      /\ Head(<<n>>) = n /\ <<n>> # <<>>
  BY OneNode
<1>3. QualsOf(n) = q  BY <1>1 DEF QualsOf
<1>4. alloc_simple_type(w, q) = <<n>>  BY DEF alloc_simple_type, n
<1>5. n = [class |-> "simple", type |-> w, quals |-> q]  BY DEF n
<1> QED  BY <1>1, <1>2, <1>3, <1>4, <1>5 DEF IsType, NoType, word, class, Quals

LEMMA TagIs ==
  ASSUME NEW w, NEW g
  PROVE  LET t == alloc_tag_type(w, g)
         IN /\ IsType(t) /\ IsChain(t) /\ Len(t) = 1 /\ DOMAIN t = 1..1
            /\ word(t) = w /\ class(t) = "tag" /\ Quals(t) = tags[g].quals /\ t[1] = Head(t)
            /\ Head(t).tag = g /\ Head(t).type = w
<1> DEFINE n == [class |-> "tag", type |-> w, tag |-> g]
<1>1. n.class = "tag" /\ n.type = w /\ n.tag = g  OBVIOUS
<1> HIDE DEF n
<1>2. /\ IsChain(<<n>>) /\ Len(<<n>>) = 1 /\ DOMAIN <<n>> = 1..1 /\ <<n>>[1] = n
      /\ Head(<<n>>) = n /\ <<n>> # <<>>
  BY OneNode
<1>3. QualsOf(n) = tags[g].quals  BY <1>1 DEF QualsOf
<1>4. alloc_tag_type(w, g) = <<n>>  BY DEF alloc_tag_type, n
<1> QED  BY <1>1, <1>2, <1>3, <1>4 DEF IsType, NoType, word, class, Quals

\* Nothing of a declaration changes.
LEMMA DeclarationFrame ==
  ASSUME DeclarationInv, UNCHANGED <<tags, phase, declVars>>
  PROVE  DeclarationInv'
<1>1. /\ tags' = tags /\ phase' = phase /\ spec' = spec /\ words' = words /\ quals' = quals
      /\ decl' = decl /\ derived' = derived /\ declared' = declared
  BY DEF declVars
<1>2. TagsInv' /\ PhaseInv' /\ (Open' <=> Open)
  BY <1>1 DEF DeclarationInv, TagsInv, PhaseInv, Open
<1>3. Quals(spec)' = Quals(spec)
  BY <1>1 DEF Quals, QualsOf
<1>4. SpecInv => SpecInv'
  BY <1>1, <1>3 DEF SpecInv, TagRead, WordRead
<1>5. DeclInv => DeclInv'
  BY <1>1 DEF DeclInv
<1>6. DeclaredAsWritten'
  BY <1>1 DEF DeclarationInv, DeclaredAsWritten, QualsOf
<1> QED  BY <1>2, <1>4, <1>5, <1>6 DEF DeclarationInv

LEMMA EmptyChain == IsChain(<<>>) /\ Len(<<>>) = 0 /\ DOMAIN <<>> = {} /\ IsDeclarator(<<>>)
<1>1. <<>> \in Seq({}) /\ Len(<<>>) = 0  BY EmptySeq
<1>2. IsChain(<<>>)  BY <1>1, ChainOf
<1>3. DOMAIN <<>> = {}  BY <1>1, <1>2, ChainDomain
<1> QED  BY <1>1, <1>2, <1>3 DEF IsDeclarator

LEMMA NothingRead ==
  ASSUME spec = NoType, words = <<>>, quals = {}, decl = NoType, derived = <<>>
  PROVE  SpecInv /\ DeclInv
<1>1. SpecInv  BY EmptyChain DEF SpecInv
<1>2. DeclInv  BY EmptyChain DEF DeclInv, NoType
<1> QED  BY <1>1, <1>2

LEMMA InitDeclaration == Init => DeclarationInv
<1> SUFFICES ASSUME Init PROVE DeclarationInv
  OBVIOUS
<1>1. /\ tags = [t \in Tags |-> Incomplete] /\ phase = "file" /\ spec = NoType /\ words = <<>>
      /\ quals = {} /\ decl = NoType /\ derived = <<>>
  BY DEF Init
<1>2. Incomplete \in TagRecord
  BY DEF Incomplete, TagRecord, Alignments
<1>3. TagsInv  BY <1>1, <1>2 DEF TagsInv
<1>4. PhaseInv /\ DeclaredAsWritten  BY <1>1 DEF PhaseInv, DeclaredAsWritten
<1>5. SpecInv /\ DeclInv  BY <1>1, NothingRead
<1> QED  BY <1>3, <1>4, <1>5 DEF DeclarationInv

\* The phases around a definition of the tag.
LEMMA TagKeeps ==
  ASSUME DeclarationInv, LayoutInv, OpenTag \/ CloseTag \/ AbortTag
  PROVE  DeclarationInv'
<1>1. /\ phase \in {"file", "tag"} /\ phase' \in {"file", "tag", "aborted"}
      /\ UNCHANGED declVars
  BY DEF OpenTag, CloseTag, AbortTag
<1>2. /\ spec' = NoType /\ words' = <<>> /\ quals' = {} /\ decl' = NoType /\ derived' = <<>>
  BY <1>1 DEF DeclarationInv, PhaseInv, declVars
<1>3. TagsInv'
  <2>1. CASE tags' = tags  BY <2>1 DEF DeclarationInv, TagsInv
  <2>2. CASE CloseTag
    <3> DEFINE r == [complete |-> TRUE, size |-> size, alignment |-> alignment,
                     quals |-> tags[DefinedTag].quals]
    <3>1. tags \in [Tags -> TagRecord] /\ DefinedTag \in Tags
      BY DefinedTagAssumption DEF DeclarationInv, TagsInv
    <3>2. size \in Nat /\ alignment \in Alignments
      BY DEF LayoutInv, LayoutTypeInv
    <3>3. tags[DefinedTag].quals \in SUBSET AllQuals
      BY <3>1 DEF TagRecord
    <3>4. r \in TagRecord  BY <3>2, <3>3 DEF TagRecord
    <3>5. tags' = [tags EXCEPT ![DefinedTag] = r]  BY <2>2, <3>1 DEF CloseTag
    <3> QED  BY <3>1, <3>4, <3>5 DEF TagsInv
  <2> QED  BY <2>1, <2>2 DEF OpenTag, AbortTag
<1>4. PhaseInv' /\ DeclaredAsWritten'
  BY <1>1, <1>2 DEF PhaseInv, DeclaredAsWritten
<1>5. SpecInv' /\ DeclInv'
  <2>1. SpecInv'  BY <1>2, EmptyChain DEF SpecInv
  <2>2. DeclInv'  BY <1>2, EmptyChain DEF DeclInv, NoType
  <2> QED  BY <2>1, <2>2
<1> QED  BY <1>3, <1>4, <1>5 DEF DeclarationInv

LEMMA PhaseKeeps ==
  ASSUME DeclarationInv, Begin \/ EndDeclaration \/ EndSpecifiers
  PROVE  DeclarationInv'
<1>1. CASE Begin
  <2>1. /\ phase = "file" /\ phase' = "specifiers" /\ UNCHANGED <<tags, spec, words, quals, decl, derived>>
    BY <1>1 DEF Begin, declVars
  <2>2. /\ spec' = NoType /\ words' = <<>> /\ quals' = {} /\ decl' = NoType /\ derived' = <<>>
    BY <2>1 DEF DeclarationInv, PhaseInv
  <2>3. SpecInv'  BY <2>2, EmptyChain DEF SpecInv
  <2>4. DeclInv'  BY <2>2, EmptyChain DEF DeclInv, NoType
  <2>5. TagsInv' /\ PhaseInv' /\ DeclaredAsWritten'
    BY <2>1, <2>2 DEF DeclarationInv, TagsInv, PhaseInv, DeclaredAsWritten
  <2> QED  BY <2>3, <2>4, <2>5 DEF DeclarationInv
<1>2. CASE EndDeclaration
  <2>1. /\ phase' = "file" /\ tags' = tags
        /\ spec' = NoType /\ words' = <<>> /\ quals' = {} /\ decl' = NoType /\ derived' = <<>>
    BY <1>2 DEF EndDeclaration
  <2>2. SpecInv'  BY <2>1, EmptyChain DEF SpecInv
  <2>3. DeclInv'  BY <2>1, EmptyChain DEF DeclInv, NoType
  <2>4. TagsInv' /\ PhaseInv' /\ DeclaredAsWritten'
    BY <2>1 DEF DeclarationInv, TagsInv, PhaseInv, DeclaredAsWritten
  <2> QED  BY <2>2, <2>3, <2>4 DEF DeclarationInv
<1>3. CASE EndSpecifiers
  <2>1. /\ phase = "specifiers" /\ phase' = "declarator" /\ IsType(spec)
        /\ UNCHANGED <<tags, spec, words, quals, decl, derived>>
    BY <1>3 DEF EndSpecifiers, declVars
  <2>2. SpecInv /\ DeclInv  BY <2>1 DEF DeclarationInv, Open
  <2>3. SpecInv'  BY <2>1, <2>2 DEF SpecInv, TagRead, WordRead, Quals, QualsOf
  <2>4. DeclInv'  BY <2>1, <2>2 DEF DeclInv
  <2>5. TagsInv' /\ PhaseInv' /\ DeclaredAsWritten'
    BY <2>1 DEF DeclarationInv, TagsInv, PhaseInv, DeclaredAsWritten, IsType
  <2> QED  BY <2>3, <2>4, <2>5 DEF DeclarationInv
<1> QED  BY <1>1, <1>2, <1>3

\* After anything that was read, a word that stands alone makes no type.
LEMMA AloneAfter ==
  ASSUME NEW ws, IsChain(ws), ws # <<>>, NEW v, v \in AloneWords \/ ws = <<StructTag>>
  PROVE  MeantWord(<<v>> \o ws) = {}
<1> DEFINE t == <<v>> \o ws
<1>1. /\ DOMAIN t = 1..(1 + Len(ws)) /\ Len(t) = 1 + Len(ws) /\ t[1] = v
      /\ \A i \in DOMAIN ws : t[i + 1] = ws[i]
  BY Before
<1>2. Len(ws) \in Nat /\ DOMAIN ws = 1..Len(ws) /\ Len(ws) # 0
  BY ChainDomain
<1> HIDE DEF t
<1>3. Len(t) # 1 /\ 1 \in DOMAIN t /\ 2 \in DOMAIN t /\ t[2] = ws[1]
  BY <1>1, <1>2
<1>4. CASE v \in AloneWords  BY <1>1, <1>3, <1>4, AloneRefused DEF t
<1>5. CASE ws = <<StructTag>>
  <2>1. t[2] \in AloneWords  BY <1>3, <1>5, OneNode DEF AloneWords
  <2> QED  BY <1>3, <2>1, AloneRefused DEF t
<1> QED  BY <1>4, <1>5

\* What is refused means no type.
LEMMA WordRefused ==
  ASSUME SpecInv, IsType(spec), NEW w \in Spellings, CombineWord(w, word(spec)) = {}
  PROVE  MeantWord(<<w>> \o words) = {}
<1>1. IsChain(words) /\ (TagRead \/ WordRead)
  BY DEF SpecInv, IsType
<1>2. CASE TagRead
  <2>1. words = <<StructTag>> /\ words # <<>>  BY <1>2, OneNode DEF TagRead
  <2> QED  BY <1>1, <2>1, AloneAfter
<1>3. CASE WordRead
  <2>1. CASE CharBeforeSign(words)  BY <1>1, <2>1, CharBeforeSignRefused
  <2>2. CASE IsRead(words, word(spec))  BY <1>1, <2>2, CombineRead DEF CombineSound
  <2> QED  BY <1>3, <2>1, <2>2 DEF WordRead
<1> QED  BY <1>1, <1>2, <1>3

\* Nothing is spelled by no words at all.
LEMMA EmptyRead == IsSpelled(<<>>, "none", "none", "none") /\ IsRead(<<>>, Pesudo)
<1>1. \A x : Count(<<>>, x) = 0
  <2> SUFFICES ASSUME NEW x PROVE Count(<<>>, x) = 0  OBVIOUS
  <2>1. IsChain(<<>>) /\ Len(<<>>) = 0  BY EmptyChain
  <2>2. Count(<<>>, x) \in Nat /\ Count(<<>>, x) <= Len(<<>>)  BY <2>1, CountIs
  <2> QED  BY <2>1, <2>2
<1>2. \A S : OnlyOf(<<>>, S)  BY EmptyChain DEF OnlyOf
<1>3. IsSpelled(<<>>, "none", "none", "none")  BY <1>1, <1>2 DEF IsSpelled
<1> QED  BY <1>3 DEF IsRead, Pesudo, Base, Lengths

\* The first word of a list is read for itself.
LEMMA FirstRead ==
  ASSUME NEW w \in Spellings
  PROVE  IsRead(<<w>>, w)
<1>1. CASE w \in {Base("void"), Base("double")}  BY <1>1 DEF IsRead
<1>2. CASE w \in IntegerSpellings
  <2>1. IsSpelled(<<>>, "none", "none", "none")  BY EmptyRead
  <2>2. CombineSound(<<>>, w, Pesudo)
    BY <1>2, <2>1, CombineSpelled, EmptyChain DEF Pesudo, Base, Lengths
  <2>3. CombineWord(w, Pesudo) = {w}
    BY <1>2 DEF CombineWord, CombineChar, CombineShort, CombineInt, CombineLong, CombineSign,
                IntegerSpellings, Signed, Unsigned, Short, Long, Pesudo, Base, Word
  <2>4. <<w>> \o <<>> = <<w>>
    <3>1. <<w>> \in Seq({w})  OBVIOUS
    <3> QED  BY <3>1, ConcatEmptySeq
  <2>5. IsRead(<<w>>, w) \/ CharBeforeSign(<<w>>)
    BY <2>2, <2>3, <2>4 DEF CombineSound
  <2>6. ~CharBeforeSign(<<w>>)
    BY OneNode DEF CharBeforeSign
  <2> QED  BY <2>5, <2>6
<1> QED  BY <1>1, <1>2, SpellingsAre

LEMMA ReadWordKeeps ==
  ASSUME DeclarationInv, NEW w \in Spellings, ReadWord(w)
  PROVE  DeclarationInv'
<1> DEFINE left == IF IsType(spec) THEN CombineWord(w, word(spec)) ELSE {w}
           had == IF IsType(spec) THEN Quals(spec) ELSE {}
<1>1. /\ phase = "specifiers" /\ words' = <<w>> \o words
      /\ UNCHANGED <<tags, quals, decl, derived, declared>>
      /\ left = {} => phase' = "bad specifiers" /\ spec' = spec
      /\ left # {} => phase' = phase /\ \E d \in left : spec' = alloc_simple_type(d, had)
  BY DEF ReadWord, Reading
<1>2. TagsInv /\ PhaseInv /\ SpecInv /\ DeclInv
  BY <1>1 DEF DeclarationInv, Open
<1>3. IsChain(words)  BY <1>2 DEF SpecInv
<1>4. TagsInv'  BY <1>1, <1>2 DEF TagsInv
<1>5. CASE left = {}
  <2>1. IsType(spec) /\ CombineWord(w, word(spec)) = {}  BY <1>5
  <2>2. MeantWord(words') = {}  BY <1>1, <1>2, <2>1, WordRefused
  <2>3. phase' = "bad specifiers"  BY <1>1, <1>5
  <2>4. DeclaredAsWritten' /\ PhaseInv' /\ ~Open'
    BY <2>2, <2>3 DEF DeclaredAsWritten, PhaseInv, Open
  <2> QED  BY <1>4, <2>4 DEF DeclarationInv
<1>6. CASE left # {}
  <2>1. PICK d \in left : spec' = alloc_simple_type(d, had)
    BY <1>1, <1>6
  <2>2. /\ spec' # NoType /\ word(spec') = d /\ Quals(spec)' = had /\ word(spec)' = word(spec')
    <3> DEFINE t == alloc_simple_type(d, had)
            n == [class |-> "simple", type |-> d, quals |-> had]
    <3>1. IsType(t) /\ Head(t) = n
      BY SimpleIs
    <3>2. n.class = "simple" /\ n.type = d /\ n.quals = had
      OBVIOUS
    <3> HIDE DEF t, n
    <3>3. spec' = t  BY <2>1 DEF t
    <3> QED  BY <3>1, <3>2, <3>3 DEF IsType, Quals, QualsOf, class, word
  <2>3. words' # <<>> /\ IsChain(words')
    <3>1. IsChain(<<w>> \o words) /\ Len(<<w>> \o words) = 1 + Len(words) /\ Len(words) \in Nat
      BY <1>3, Before
    <3>2. Len(<<w>> \o words) # 0  BY <3>1
    <3> QED  BY <1>1, <3>1, <3>2, ChainDomain
  <2>4. CASE ~IsType(spec)
    <3>1. words = <<>> /\ quals = {} /\ d = w /\ had = {}
      BY <1>2, <2>4 DEF SpecInv, IsType
    <3>2. words' = <<w>>
      <4>1. <<w>> \in Seq({w})  OBVIOUS
      <4> QED  BY <1>1, <3>1, <4>1, ConcatEmptySeq
    <3>3. IsRead(words', d)  BY <3>1, <3>2, FirstRead
    <3>4. d # Pesudo  BY <3>1, SpellingsDiffer DEF Words
    <3>5. WordRead'  BY <2>1, <2>2, <2>3, <3>3, <3>4 DEF WordRead
    <3>6. SpecInv'
      BY <1>1, <2>2, <2>3, <3>1, <3>5 DEF SpecInv
    <3> QED
      BY <1>1, <1>2, <1>4, <1>6, <3>6 DEF DeclarationInv, PhaseInv, DeclInv, DeclaredAsWritten
  <2>5. CASE IsType(spec)
    <3>1. /\ d \in CombineWord(w, word(spec)) /\ had = Quals(spec)
          /\ (TagRead \/ WordRead) /\ quals \subseteq Quals(spec) /\ Quals(spec) \subseteq AllQuals
      BY <1>2, <2>5 DEF SpecInv, IsType
    <3>2. ~TagRead
      <4> SUFFICES ASSUME TagRead PROVE FALSE  OBVIOUS
      <4>1. word(spec) = StructTag  BY TagIs DEF TagRead
      <4> QED  BY <3>1, <4>1, TagAlone
    <3>3. d # Pesudo  BY <3>1, CombineNotPesudo
    <3>4. CharBeforeSign(words') \/ IsRead(words', d)
      <4>1. CASE CharBeforeSign(words)  BY <1>1, <1>3, <4>1, CharBeforeSignStays
      <4>2. CASE IsRead(words, word(spec))
        BY <1>1, <1>3, <3>1, <4>2, CombineRead DEF CombineSound
      <4> QED  BY <3>1, <3>2, <4>1, <4>2 DEF WordRead
    <3>5. WordRead'  BY <2>1, <2>2, <2>3, <3>3, <3>4 DEF WordRead
    <3>6. SpecInv'
      BY <1>1, <2>2, <2>3, <3>1, <3>5 DEF SpecInv
    <3> QED
      BY <1>1, <1>2, <1>4, <1>6, <3>6 DEF DeclarationInv, PhaseInv, DeclInv, DeclaredAsWritten
  <2> QED  BY <2>4, <2>5
<1> QED  BY <1>5, <1>6

\* The qualifiers of a tag's type are those of the tag.
LEMMA TagQuals ==
  ASSUME NEW w, NEW g, spec' = alloc_tag_type(w, g)
  PROVE  spec' # NoType /\ Quals(spec)' = tags'[g].quals
<1> DEFINE t == alloc_tag_type(w, g)
<1>1. IsType(t) /\ class(t) = "tag" /\ Head(t).tag = g
  BY TagIs
<1> HIDE DEF t
<1>2. spec' = t  BY DEF t
<1> QED  BY <1>1, <1>2 DEF IsType, Quals, QualsOf, class

LEMMA ReadTagKeeps ==
  ASSUME DeclarationInv, NEW t \in Tags, ReadTag(t)
  PROVE  DeclarationInv'
<1> DEFINE had == IF IsType(spec) THEN Quals(spec) ELSE {}
           refused == IsType(spec) /\ CombineWord(StructTag, word(spec)) = {}
<1>1. /\ phase = "specifiers" /\ words' = <<StructTag>> \o words
      /\ UNCHANGED <<quals, decl, derived, declared>>
      /\ refused => phase' = "bad specifiers" /\ spec' = spec /\ tags' = tags
      /\ ~refused => /\ phase' = phase /\ spec' = alloc_tag_type(StructTag, t)
                     /\ tags' = [tags EXCEPT ![t].quals = @ \cup had]
  BY DEF ReadTag, Reading
<1>2. TagsInv /\ PhaseInv /\ SpecInv /\ DeclInv
  BY <1>1 DEF DeclarationInv, Open
<1>3. IsChain(words)  BY <1>2 DEF SpecInv
<1>4. CASE refused
  <2>1. IsType(spec) /\ word(spec) # Pesudo
    <3>1. CombineWord(StructTag, word(spec)) =
            IF word(spec) = Pesudo THEN {StructTag} ELSE {}
      BY TagAlone
    <3> QED  BY <1>4, <3>1
  <2>2. words # <<>>
    <3>1. CASE TagRead  BY <3>1, OneNode DEF TagRead
    <3>2. CASE WordRead  BY <2>1, <3>2 DEF WordRead
    <3> QED  BY <1>2, <2>1, <3>1, <3>2 DEF SpecInv, IsType
  <2>3. MeantWord(words') = {}
    BY <1>1, <1>3, <2>2, AloneAfter DEF AloneWords
  <2>4. DeclaredAsWritten' /\ PhaseInv' /\ ~Open' /\ TagsInv'
    BY <1>1, <1>2, <1>4, <2>3 DEF DeclaredAsWritten, PhaseInv, Open, TagsInv
  <2> QED  BY <2>4 DEF DeclarationInv
<1>5. CASE ~refused
  <2>1. words = <<>> /\ had \subseteq AllQuals /\ quals \subseteq had
    <3>1. CASE ~IsType(spec)  BY <1>2, <3>1 DEF SpecInv, IsType
    <3>2. CASE IsType(spec)
      <4>1. word(spec) = Pesudo
        <5>1. CombineWord(StructTag, word(spec)) =
                IF word(spec) = Pesudo THEN {StructTag} ELSE {}
          BY TagAlone
        <5> QED  BY <1>5, <3>2, <5>1
      <4>2. ~TagRead
        <5> SUFFICES ASSUME TagRead PROVE FALSE  OBVIOUS
        <5>1. word(spec) = StructTag  BY TagIs DEF TagRead
        <5> QED  BY <4>1, <5>1 DEF StructTag, Pesudo, Base, Word
      <4>3. WordRead /\ quals \subseteq Quals(spec) /\ Quals(spec) \subseteq AllQuals
        BY <1>2, <3>2, <4>2 DEF SpecInv, IsType
      <4> QED  BY <3>2, <4>1, <4>3 DEF WordRead
    <3> QED  BY <3>1, <3>2
  <2>2. tags' = [tags EXCEPT ![t] = [tags[t] EXCEPT !.quals = tags[t].quals \cup had]]
    BY <1>1, <1>5
  <2>3. tags[t] \in TagRecord /\ tags[t].quals \in SUBSET AllQuals
    BY <1>2 DEF TagsInv, TagRecord
  <2>4. TagsInv' /\ tags'[t].quals = tags[t].quals \cup had
    <3> DEFINE r == [tags[t] EXCEPT !.quals = tags[t].quals \cup had]
    <3>1. r \in TagRecord /\ r.quals = tags[t].quals \cup had
      BY <2>1, <2>3 DEF TagRecord
    <3> HIDE DEF r
    <3>2. tags' = [tags EXCEPT ![t] = r]  BY <2>2 DEF r
    <3> QED  BY <1>2, <3>1, <3>2 DEF TagsInv
  <2>5. words' = <<StructTag>>
    <3>1. <<StructTag>> \in Seq({StructTag})  OBVIOUS
    <3> QED  BY <1>1, <2>1, <3>1, ConcatEmptySeq
  <2>6. spec' # NoType /\ Quals(spec)' = tags'[t].quals
    BY <1>1, <1>5, TagQuals
  <2>7. TagRead'  BY <1>1, <1>5, <2>5 DEF TagRead
  <2>8. IsChain(words')  BY <2>5, OneNode
  <2>9. SpecInv'
    BY <1>1, <2>1, <2>3, <2>4, <2>6, <2>7, <2>8 DEF SpecInv
  <2>10. PhaseInv' /\ DeclInv' /\ DeclaredAsWritten'
    BY <1>1, <1>2, <1>5 DEF PhaseInv, DeclInv, DeclaredAsWritten
  <2> QED  BY <2>4, <2>9, <2>10 DEF DeclarationInv
<1> QED  BY <1>4, <1>5

LEMMA ReadQualifierKeeps ==
  ASSUME DeclarationInv, NEW q \in Qualifiers, ReadQualifier(q)
  PROVE  DeclarationInv'
<1>1. PICK bits \in QualifierBits(q) :
        IF ~IsType(spec) THEN spec' = alloc_simple_type(Pesudo, bits) /\ tags' = tags
        ELSE IF class(spec) = "tag"
        THEN tags' = [tags EXCEPT ![Head(spec).tag].quals = @ \cup bits] /\ spec' = spec
        ELSE spec' = alloc_simple_type(word(spec), Quals(spec) \cup bits) /\ tags' = tags
  BY DEF ReadQualifier
<1>2. /\ phase = "specifiers" /\ quals' = quals \cup {q}
      /\ UNCHANGED <<phase, words, decl, derived, declared>>
  BY DEF ReadQualifier
<1>3. TagsInv /\ PhaseInv /\ SpecInv /\ DeclInv
  BY <1>2 DEF DeclarationInv, Open
<1>4. q \in bits /\ bits \subseteq AllQuals
  BY DEF QualifierBits, AllQuals
<1>5. PhaseInv' /\ DeclInv' /\ DeclaredAsWritten'
  BY <1>2, <1>3 DEF PhaseInv, DeclInv, DeclaredAsWritten
\* A list without a tag.
<1>6. ASSUME NEW w, NEW had, spec' = alloc_simple_type(w, had \cup bits), tags' = tags,
             had \subseteq AllQuals, quals \subseteq had,
             w = Pesudo <=> words = <<>>, CharBeforeSign(words) \/ IsRead(words, w)
      PROVE  TagsInv' /\ SpecInv'
  <2> DEFINE t == alloc_simple_type(w, had \cup bits)
             n == [class |-> "simple", type |-> w, quals |-> had \cup bits]
  <2>1. IsType(t) /\ Head(t) = n  BY SimpleIs
  <2>2. n.class = "simple" /\ n.type = w /\ n.quals = had \cup bits  OBVIOUS
  <2>3. spec' = t  BY <1>6
  <2> HIDE DEF t, n
  <2>4. spec' # NoType /\ word(spec') = w /\ Quals(spec)' = had \cup bits /\ word(spec)' = w
    BY <2>1, <2>2, <2>3 DEF IsType, Quals, QualsOf, word
  <2>5. WordRead'  BY <1>2, <1>6, <2>4 DEF WordRead
  <2>6. TagsInv'  BY <1>3, <1>6 DEF TagsInv
  <2> QED  BY <1>2, <1>3, <1>4, <1>6, <2>4, <2>5, <2>6 DEF SpecInv
<1>7. CASE ~IsType(spec)
  <2>1. words = <<>> /\ quals = {}  BY <1>3, <1>7 DEF SpecInv, IsType
  <2>2. IsRead(<<>>, Pesudo)  BY EmptyRead
  <2>3. spec' = alloc_simple_type(Pesudo, {} \cup bits) /\ tags' = tags
    <3>1. {} \cup bits = bits  OBVIOUS
    <3> QED  BY <1>1, <1>7, <3>1
  <2> QED  BY <1>5, <1>6, <2>1, <2>2, <2>3 DEF DeclarationInv
<1>8. CASE IsType(spec) /\ WordRead
  <2>1. class(spec) = "simple"
    <3>1. class(alloc_simple_type(word(spec), Quals(spec))) = "simple"  BY SimpleIs
    <3> QED  BY <1>8, <3>1 DEF WordRead
  <2>2. spec' = alloc_simple_type(word(spec), Quals(spec) \cup bits) /\ tags' = tags
    BY <1>1, <1>8, <2>1
  <2>3. Quals(spec) \subseteq AllQuals /\ quals \subseteq Quals(spec)
    BY <1>3, <1>8 DEF SpecInv, IsType
  <2>4. TagsInv' /\ SpecInv'
    BY <1>6, <1>8, <2>2, <2>3 DEF WordRead
  <2> QED  BY <1>5, <2>4 DEF DeclarationInv
<1>9. CASE IsType(spec) /\ TagRead
  <2>1. PICK g \in Tags : spec = alloc_tag_type(StructTag, g) /\ words = <<StructTag>>
    BY <1>9 DEF TagRead
  <2>2. class(spec) = "tag" /\ Head(spec).tag = g /\ Quals(spec) = tags[g].quals
    <3> DEFINE t == alloc_tag_type(StructTag, g)
    <3>1. class(t) = "tag" /\ Head(t).tag = g /\ Quals(t) = tags[g].quals  BY TagIs
    <3> HIDE DEF t
    <3>2. spec = t  BY <2>1 DEF t
    <3> QED  BY <3>1, <3>2
  <2>3. spec' = spec /\ tags' = [tags EXCEPT ![g].quals = tags[g].quals \cup bits]
    BY <1>1, <1>9, <2>2
  <2>4. tags[g] \in TagRecord /\ tags[g].quals \in SUBSET AllQuals
    BY <1>3 DEF TagsInv, TagRecord
  <2>5. TagsInv' /\ tags'[g].quals = tags[g].quals \cup bits
    <3> DEFINE r == [tags[g] EXCEPT !.quals = tags[g].quals \cup bits]
    <3>1. r \in TagRecord /\ r.quals = tags[g].quals \cup bits
      BY <1>4, <2>4 DEF TagRecord
    <3> HIDE DEF r
    <3>2. tags' = [tags EXCEPT ![g] = r]  BY <2>3 DEF r
    <3> QED  BY <1>3, <3>1, <3>2 DEF TagsInv
  <2>6. spec' # NoType /\ Quals(spec)' = tags'[g].quals
    BY <2>1, <2>3, TagQuals
  <2>7. TagRead'  BY <1>2, <2>1, <2>3 DEF TagRead
  <2>8. quals \subseteq tags[g].quals /\ IsChain(words)
    BY <1>3, <1>9, <2>2 DEF SpecInv, IsType
  <2>9. SpecInv'
    BY <1>2, <1>4, <2>4, <2>5, <2>6, <2>7, <2>8 DEF SpecInv
  <2> QED  BY <1>5, <2>5, <2>9 DEF DeclarationInv
<1> QED  BY <1>3, <1>7, <1>8, <1>9 DEF SpecInv, IsType

-----------------------------------------------------------------------------
(* Declarators.                                                            *)

\* The nodes of d are the derivations v.
Written(d, v) ==
  /\ IsDeclarator(d) /\ IsChain(v) /\ Len(v) = Len(d)
  /\ \A i \in DOMAIN d : Derivation(d[i]) = v[i]

LEMMA MoreWritten ==
  ASSUME NEW d, NEW v, Written(d, v), NEW s, NEW g, Written(s, g)
  PROVE  Written(merge(d, s), v \o g)
<1> DEFINE m == merge(d, s)
<1>1. /\ IsDeclarator(d) /\ IsChain(d) /\ IsChain(v) /\ Len(v) = Len(d)
      /\ IsDeclarator(s) /\ IsChain(s) /\ IsChain(g) /\ Len(g) = Len(s)
  BY DEF Written, IsDeclarator
<1>2. /\ Len(d) \in Nat /\ DOMAIN d = 1..Len(d) /\ DOMAIN v = 1..Len(d)
      /\ Len(s) \in Nat /\ DOMAIN s = 1..Len(s) /\ DOMAIN g = 1..Len(s)
  BY <1>1, ChainDomain
<1>3. /\ IsChain(m) /\ Len(m) = Len(d) + Len(s)
      /\ \A i \in DOMAIN d : /\ "class" \in DOMAIN m[i] /\ m[i].class = d[i].class
                             /\ Derivation(m[i]) = Derivation(d[i])
      /\ \A i \in DOMAIN s : m[Len(d) + i] = s[i]
  BY <1>1, MergeIs
<1>4. /\ IsChain(v \o g) /\ Len(v \o g) = Len(d) + Len(s)
      /\ \A i \in DOMAIN v : (v \o g)[i] = v[i]
      /\ \A i \in DOMAIN g : (v \o g)[Len(d) + i] = g[i]
  BY <1>1, Joined
<1>5. DOMAIN m = 1..(Len(d) + Len(s))  BY <1>3, ChainDomain
<1> HIDE DEF m
<1>6. ASSUME NEW i \in DOMAIN m
      PROVE  /\ "class" \in DOMAIN m[i] /\ m[i].class \in DerivedClasses
             /\ Derivation(m[i]) = (v \o g)[i]
  <2>1. CASE i \in DOMAIN d
    <3>1. d[i].class \in DerivedClasses /\ Derivation(d[i]) = v[i]
      BY <2>1 DEF Written, IsDeclarator
    <3> QED  BY <1>2, <1>3, <1>4, <2>1, <3>1
  <2>2. CASE i \notin DOMAIN d
    <3>1. PICK j \in DOMAIN s : i = Len(d) + j
      <4>1. i - Len(d) \in DOMAIN s /\ i = Len(d) + (i - Len(d))
        BY <1>2, <1>5, <2>2
      <4> QED  BY <4>1
    <3>2. m[i] = s[j] /\ (v \o g)[i] = g[j]  BY <1>2, <1>3, <1>4, <3>1
    <3>3. /\ "class" \in DOMAIN s[j] /\ s[j].class \in DerivedClasses
          /\ Derivation(s[j]) = g[j]
      BY DEF Written, IsDeclarator
    <3> QED  BY <3>2, <3>3
  <2> QED  BY <2>1, <2>2
<1> QED  BY <1>3, <1>4, <1>6 DEF Written, IsDeclarator, m

LEMMA Added ==
  ASSUME NEW v, IsChain(v), NEW x
  PROVE  Append(v, x) = v \o <<x>>
<1> DEFINE S == NodesOf(v) \cup {x}
<1>1. v \in Seq(S)  BY SeqMonotonic DEF IsChain
<1>2. x \in S  OBVIOUS
<1> HIDE DEF S
<1> QED  BY <1>1, <1>2, AppendIsConcat

LEMMA OneWritten ==
  ASSUME NEW n, "class" \in DOMAIN n, n.class \in DerivedClasses
  PROVE  Written(<<n>>, <<Derivation(n)>>)
<1>1. /\ IsChain(<<n>>) /\ Len(<<n>>) = 1 /\ DOMAIN <<n>> = 1..1 /\ <<n>>[1] = n
      /\ <<n>>[1].class = n.class
      /\ IsChain(<<Derivation(n)>>) /\ Len(<<Derivation(n)>>) = 1
      /\ <<Derivation(n)>>[1] = Derivation(n)
  BY OneNode
<1> HIDE DEF Derivation
<1> QED  BY <1>1 DEF Written, IsDeclarator

\* A type derived from none is one node.
LEMMA BareNode == ASSUME NEW n PROVE <<n>> \o NoType = <<n>> /\ Head(<<n>>) = n
<1>1. <<n>> \in Seq({n})  OBVIOUS
<1> QED  BY <1>1, ConcatEmptySeq, OneNode DEF NoType

LEMMA StarsWritten ==
  ASSUME NEW stars \in StarLists
  PROVE  Written(pointer(stars), [i \in DOMAIN stars |-> <<"pointer">>])
<1> DEFINE p == pointer(stars)
           g == [i \in DOMAIN stars |-> <<"pointer">>]
           Star(q) == [class |-> "pointer", type |-> Base("pointer"), quals |-> q]
<1>1. Len(stars) \in Nat /\ DOMAIN stars = 1..Len(stars)
  BY StarListsAssumption, LenProperties
<1>2. \A q : Head(alloc_pointer_type(q, NoType)) = Star(q)
  <2> TAKE q
  <2> HIDE DEF Star
  <2>1. <<Star(q)>> \o NoType = <<Star(q)>> /\ Head(<<Star(q)>>) = Star(q)
    BY BareNode
  <2> QED  BY <2>1 DEF alloc_pointer_type, Star
<1>3. p = [i \in DOMAIN stars |-> Star(stars[i])]
  BY <1>2 DEF pointer
<1>4. \A q : "class" \in DOMAIN Star(q) /\ Star(q).class = "pointer" /\ Derivation(Star(q)) = <<"pointer">>
  BY DEF Derivation
<1> HIDE DEF p, Star
<1>5. p = [i \in 1..Len(stars) |-> p[i]] /\ g = [i \in 1..Len(stars) |-> g[i]]
  BY <1>1, <1>3
<1>6. /\ IsChain(p) /\ Len(p) = Len(stars) /\ DOMAIN p = 1..Len(stars)
      /\ IsChain(g) /\ Len(g) = Len(stars)
  <2> HIDE DEF g
  <2> QED  BY <1>1, <1>5, ChainOn
<1>7. \A i \in DOMAIN p : p[i] = Star(stars[i]) /\ g[i] = <<"pointer">>
  BY <1>1, <1>3, <1>6
<1> HIDE DEF g
<1>8. Written(p, g)
  BY <1>4, <1>6, <1>7 DEF Written, IsDeclarator, DerivedClasses
<1> QED  BY <1>8 DEF p, g

\* What a derivation leaves of the rest.
LEMMA DeriveKeeps ==
  ASSUME DeclarationInv, phase = "declarator", UNCHANGED <<tags, spec, words, quals>>,
         \/ phase' = phase /\ DeclInv'
         \/ phase' \in {"crashed", "bad declarator"}
  PROVE  DeclarationInv'
<1>1. TagsInv /\ PhaseInv /\ SpecInv
  BY DEF DeclarationInv, Open
<1>2. TagsInv' /\ PhaseInv' /\ DeclaredAsWritten'
  BY <1>1 DEF TagsInv, PhaseInv, DeclaredAsWritten, IsType
<1>3. phase' \in {"crashed", "bad declarator"} => ~Open'
  BY DEF Open
<1>4. SpecInv'
  BY <1>1 DEF SpecInv, TagRead, WordRead, Quals, QualsOf
<1> QED  BY <1>2, <1>3, <1>4 DEF DeclarationInv

LEMMA DeclWritten == DeclInv <=> Written(decl, derived)
BY DEF DeclInv, Written

LEMMA PointersKeep ==
  ASSUME DeclarationInv, NEW stars \in StarLists, Pointers(stars)
  PROVE  DeclarationInv'
<1>1. /\ phase = "declarator" /\ phase' = phase /\ UNCHANGED <<tags, spec, words, quals>>
      /\ decl' = merge(decl, pointer(stars))
      /\ derived' = derived \o [i \in DOMAIN stars |-> <<"pointer">>]
  BY DEF Pointers, Deriving
<1>2. Written(decl, derived)  BY <1>1, DeclWritten DEF DeclarationInv, Open
<1>3. Written(merge(decl, pointer(stars)), derived \o [i \in DOMAIN stars |-> <<"pointer">>])
  BY <1>2, StarsWritten, MoreWritten
<1>4. DeclInv'  BY <1>1, <1>3 DEF DeclInv, Written
<1> QED  BY <1>1, <1>4, DeriveKeeps

\* One more array or function.
LEMMA OneMoreKeeps ==
  ASSUME DeclarationInv, phase = "declarator", UNCHANGED <<phase, tags, spec, words, quals>>,
         NEW n, "class" \in DOMAIN n, n.class \in DerivedClasses,
         decl' = merge(decl, <<n>>), derived' = Append(derived, Derivation(n))
  PROVE  DeclarationInv'
<1>1. Written(decl, derived)  BY DeclWritten DEF DeclarationInv, Open
<1>2. derived' = derived \o <<Derivation(n)>>
  <2>1. IsChain(derived)  BY <1>1 DEF Written
  <2> QED  BY <2>1, Added
<1>3. Written(merge(decl, <<n>>), derived \o <<Derivation(n)>>)
  BY <1>1, OneWritten, MoreWritten
<1>4. DeclInv'  BY <1>2, <1>3 DEF DeclInv, Written
<1> QED  BY <1>4, DeriveKeeps

LEMMA BracketsKeep ==
  ASSUME DeclarationInv, NEW counted \in BOOLEAN, Brackets(counted)
  PROVE  DeclarationInv'
<1> DEFINE n == [class |-> "array", type |-> Base("array"), quals |-> {}, size |-> 0,
                 alignment |-> 0, count |-> 0, undefined |-> ~counted]
<1>1. /\ phase = "declarator" /\ UNCHANGED <<tags, spec, words, quals>>
      /\ derived' = Append(derived, <<"array">>)
      /\ \/ phase' \in {"crashed", "bad declarator"}
         \/ phase' = phase /\ decl' = merge(decl, alloc_array_type(0, 0, NoType, 0, ~counted))
  BY DEF Brackets, Deriving
<1>2. "class" \in DOMAIN n /\ n.class = "array" /\ Derivation(n) = <<"array">>
  BY DEF Derivation
<1>3. alloc_array_type(0, 0, NoType, 0, ~counted) = <<n>>
  <2> HIDE DEF n
  <2>1. <<n>> \o NoType = <<n>>  BY BareNode
  <2> QED  BY <2>1, Zenon DEF alloc_array_type, n
<1> HIDE DEF n
<1>4. CASE phase' = phase /\ decl' = merge(decl, alloc_array_type(0, 0, NoType, 0, ~counted))
  BY <1>1, <1>2, <1>3, <1>4, OneMoreKeeps DEF DerivedClasses
<1>5. CASE phase' \in {"crashed", "bad declarator"}  BY <1>1, <1>5, DeriveKeeps
<1> QED  BY <1>1, <1>4, <1>5

LEMMA ParametersKeep ==
  ASSUME DeclarationInv, NEW args \in ArgLists, Parameters(args)
  PROVE  DeclarationInv'
<1> DEFINE n == [class |-> "function", type |-> Base("function"), quals |-> {},
                 args |-> args, ellipsis |-> FALSE]
<1>1. /\ phase = "declarator" /\ phase' = phase /\ UNCHANGED <<tags, spec, words, quals>>
      /\ derived' = Append(derived, <<"function", args>>)
      /\ decl' = merge(decl, alloc_function_type(NoType, args, FALSE))
  BY DEF Parameters, Deriving
<1>2. "class" \in DOMAIN n /\ n.class = "function" /\ Derivation(n) = <<"function", args>>
  BY DEF Derivation
<1>3. alloc_function_type(NoType, args, FALSE) = <<n>>
  <2> HIDE DEF n
  <2>1. <<n>> \o NoType = <<n>>  BY BareNode
  <2> QED  BY <2>1, Zenon DEF alloc_function_type, n
<1> HIDE DEF n
<1> QED  BY <1>1, <1>2, <1>3, OneMoreKeeps DEF DerivedClasses

\* What the specifiers stand for in the end.
LEMMA NormalSpecifiers ==
  ASSUME DeclarationInv, phase = "declarator"
  PROVE  LET s == normalize(spec)
         IN /\ IsChain(s) /\ Len(s) = 1
            /\ quals \subseteq QualsOf(s[1])
            /\ CharBeforeSign(words) \/ {s[1].type} = MeantWord(words)
<1> DEFINE s == normalize(spec)
<1>1. /\ IsChain(words) /\ (TagRead \/ WordRead)
      /\ quals \subseteq Quals(spec)
  BY DEF DeclarationInv, PhaseInv, Open, SpecInv, IsType
<1>2. CASE TagRead
  <2>1. PICK g \in Tags : spec = alloc_tag_type(StructTag, g) /\ words = <<StructTag>>
    BY <1>2 DEF TagRead
  <2> DEFINE t == alloc_tag_type(StructTag, g)
  <2>2. /\ IsChain(t) /\ Len(t) = 1 /\ class(t) = "tag" /\ t[1] = Head(t)
        /\ Head(t).type = StructTag
    BY TagIs
  <2> HIDE DEF t
  <2>3. spec = t  BY <2>1 DEF t
  <2>4. s = t  BY <2>2, <2>3 DEF normalize
  <2>5. Quals(spec) = QualsOf(s[1])  BY <2>2, <2>3, <2>4 DEF Quals
  <2>6. MeantWord(words) = {StructTag}  BY <2>1, AloneMeant DEF AloneWords
  <2> QED  BY <1>1, <2>2, <2>4, <2>5, <2>6
<1>3. CASE WordRead
  <2>1. class(spec) = "simple"
    <3>1. class(alloc_simple_type(word(spec), Quals(spec))) = "simple"  BY SimpleIs
    <3> QED  BY <1>3, <3>1 DEF WordRead
  <2> DEFINE w == NormalWord(word(spec))
             q == Quals(spec)
             t == alloc_simple_type(w, q)
  <2>2. /\ IsChain(t) /\ Len(t) = 1 /\ Quals(t) = q /\ t[1] = Head(t) /\ word(t) = w
    BY SimpleIs
  <2> HIDE DEF t
  <2>3. s = t  BY <2>1 DEF normalize, t
  <2>4. s[1].type = w /\ QualsOf(s[1]) = q  BY <2>2, <2>3 DEF word, Quals
  <2>5. CharBeforeSign(words) \/ MeantWord(words) = {w}
    BY <1>1, <1>3, ReadIsMeant DEF WordRead
  <2> QED  BY <1>1, <2>2, <2>3, <2>4, <2>5
<1> QED  BY <1>1, <1>2, <1>3

LEMMA DeclareKeeps ==
  ASSUME DeclarationInv, Declare
  PROVE  DeclarationInv'
<1> DEFINE s == normalize(spec)
           t == merge(decl, s)
<1>1. /\ phase = "declarator" /\ UNCHANGED <<tags, spec, words, quals, decl, derived>>
      /\ \/ phase' = "declared" /\ declared' = t
         \/ phase' = "incomplete"
  BY DEF Declare
<1>2. /\ IsChain(s) /\ Len(s) = 1 /\ quals \subseteq QualsOf(s[1])
      /\ CharBeforeSign(words) \/ {s[1].type} = MeantWord(words)
  BY <1>1, NormalSpecifiers
<1>3. Written(decl, derived)  BY <1>1, DeclWritten DEF DeclarationInv, Open
<1>4. TagsInv' /\ PhaseInv' /\ ~Open'
  BY <1>1 DEF DeclarationInv, TagsInv, PhaseInv, Open
<1>5. CASE phase' = "incomplete"
  BY <1>4, <1>5 DEF DeclarationInv, DeclaredAsWritten
<1>6. CASE phase' = "declared" /\ declared' = t
  <2> HIDE DEF s
  <2>1. /\ IsDeclarator(decl) /\ IsChain(decl) /\ IsChain(derived) /\ Len(derived) = Len(decl)
        /\ \A i \in DOMAIN decl : Derivation(decl[i]) = derived[i]
    BY <1>3 DEF Written, IsDeclarator
  <2>2. /\ IsChain(t) /\ Len(t) = Len(decl) + 1
        /\ \A i \in DOMAIN decl : Derivation(t[i]) = Derivation(decl[i])
        /\ \A i \in DOMAIN s : t[Len(decl) + i] = s[i]
    <3>0. IsDeclarator(decl) /\ IsChain(s)  BY <1>2, <2>1
    <3>1. /\ IsChain(t) /\ Len(t) = Len(decl) + Len(s)
          /\ \A i \in DOMAIN decl :
               /\ "class" \in DOMAIN t[i] /\ t[i].class = decl[i].class
               /\ Derivation(t[i]) = Derivation(decl[i])
          /\ \A i \in DOMAIN s : t[Len(decl) + i] = s[i]
      BY <3>0, MergeIs
    <3> HIDE DEF t
    <3> QED  BY <1>2, <3>1
  <2>3. /\ Len(decl) \in Nat /\ DOMAIN decl = 1..Len(decl) /\ DOMAIN derived = 1..Len(decl)
        /\ DOMAIN s = 1..1
    BY <1>2, <2>1, ChainDomain
  <2> HIDE DEF t
  <2>4. Derivations(t) = derived
    <3>1. Len(t) - 1 = Len(decl)  BY <2>2, <2>3
    <3>2. Derivations(t) = [i \in 1..Len(decl) |-> derived[i]]
      <4>1. \A i \in 1..Len(decl) : Derivation(t[i]) = derived[i]
        BY <2>1, <2>2, <2>3
      <4> HIDE DEF Derivation
      <4> QED  BY <3>1, <4>1 DEF Derivations
    <3>3. derived = [i \in 1..Len(decl) |-> derived[i]]
      <4>1. derived \in [1..Len(derived) -> NodesOf(derived)]
        BY <2>1, LenProperties DEF IsChain
      <4> QED  BY <2>1, <4>1
    <3> QED  BY <3>2, <3>3
  <2>5. Innermost(t) = s[1]
    BY <2>2, <2>3 DEF Innermost
  <2>6. Derivations(declared)' = derived'
    BY <1>1, <1>6, <2>4 DEF Derivations, Derivation
  <2>7. Innermost(declared)' = s[1]
    BY <1>6, <2>5 DEF Innermost
  <2>8. quals' \subseteq QualsOf(Innermost(declared))'
    BY <1>1, <1>2, <2>7 DEF QualsOf
  <2>9. CharBeforeSign(words)' \/ {Innermost(declared).type}' = MeantWord(words)'
    BY <1>1, <1>2, <2>7
  <2>10. DeclaredAsWritten'
    BY <1>6, <2>6, <2>8, <2>9 DEF DeclaredAsWritten
  <2> QED  BY <1>4, <2>10 DEF DeclarationInv
<1> QED  BY <1>1, <1>5, <1>6

LEMMA DeclarationStep ==
  ASSUME DeclarationInv, LayoutInv, [Next]_vars
  PROVE  DeclarationInv'
<1>1. CASE Next
  <2>1. CASE OpenTag \/ CloseTag \/ AbortTag  BY <2>1, TagKeeps
  <2>2. CASE LayOut  BY <2>2, DeclarationFrame DEF LayOut
  <2>3. CASE Begin \/ EndDeclaration \/ EndSpecifiers  BY <2>3, PhaseKeeps
  <2>4. CASE ReadSpecifier
    BY <2>4, ReadWordKeeps, ReadTagKeeps, ReadQualifierKeeps DEF ReadSpecifier
  <2>5. CASE Derive  BY <2>5, PointersKeep, BracketsKeep, ParametersKeep DEF Derive
  <2>6. CASE Declare  BY <2>6, DeclareKeeps
  <2> QED  BY <1>1, <2>1, <2>2, <2>3, <2>4, <2>5, <2>6 DEF Next
<1>2. CASE UNCHANGED vars  BY <1>2, DeclarationFrame DEF vars
<1> QED  BY <1>1, <1>2

-----------------------------------------------------------------------------
(* The layout of the tag that a file defines.                              *)

\* A list is laid out from nothing, and nothing is left of it.
DeclarationLayoutInv ==
  /\ LayoutInv
  /\ phase \notin {"tag", "aborted"} => NoLayout

LEMMA InitLayout == Init => DeclarationLayoutInv
<1> SUFFICES ASSUME Init PROVE DeclarationLayoutInv
  OBVIOUS
<1>1. NoLayout  BY DEF Init
<1>2. /\ su = "struct" /\ members = <<>> /\ placed = <<>>
      /\ offset = 0 /\ bit_offset = 0 /\ size = 0 /\ alignment = 0 /\ status = "set"
  BY <1>1 DEF NoLayout
<1>3. DOMAIN placed = {}  BY <1>2, EmptyChain
<1>4. LayoutTypeInv  BY <1>2 DEF LayoutTypeInv, Alignments
<1>5. LayoutSound /\ PackedTight
  BY <1>2, <1>3 DEF LayoutSound, MembersInOrder, BitFieldsInUnit, MembersAligned, SizeCovers,
                    PackedTight
<1> QED  BY <1>1, <1>2, <1>3, <1>4, <1>5 DEF DeclarationLayoutInv, LayoutInv, EndsReached, RunCurrent

LEMMA LayoutAnew ==
  ASSUME DeclarationLayoutInv, OpenTag \/ CloseTag
  PROVE  DeclarationLayoutInv'
<1>1. /\ su' \in {"struct", "union"} /\ members' \in Seq(Member) /\ placed' = <<>>
      /\ offset' = 0 /\ bit_offset' = 0 /\ size' = 0 /\ alignment' = 0
      /\ status' \in {"laying", "set"}
      /\ phase' \notin {"tag", "aborted"} => NoLayout'
  <2>1. CASE OpenTag
    <3>1. NoLayout  BY <2>1 DEF DeclarationLayoutInv, OpenTag
    <3>2. members' \in Seq(Member)
      <4>1. PICK n \in 1..MaxMembers : members' \in [1..n -> Member]
        BY <2>1 DEF OpenTag, MemberLists
      <4> QED  BY <4>1, MaxMembersAssumption
    <3> QED  BY <2>1, <3>1, <3>2 DEF OpenTag, NoLayout
  <2>2. CASE CloseTag
    <3>1. <<>> \in Seq(Member)  OBVIOUS
    <3> QED  BY <2>2, <3>1 DEF CloseTag, NoLayout
  <2> QED  BY <2>1, <2>2
<1>2. DOMAIN placed' = {}  BY <1>1, EmptyChain
<1>3. LayoutTypeInv'  BY <1>1 DEF LayoutTypeInv, Alignments
<1>4. MembersInOrder' /\ BitFieldsInUnit' /\ MembersAligned' /\ SizeCovers'
      /\ \A i \in DOMAIN placed' : FALSE
  BY <1>1, <1>2 DEF MembersInOrder, BitFieldsInUnit, MembersAligned, SizeCovers
<1>5. LayoutSound' /\ PackedTight'
  BY <1>2, <1>4 DEF LayoutSound, PackedTight
<1>6. EndsReached' /\ RunCurrent'  BY <1>1, <1>2 DEF EndsReached, RunCurrent
<1> QED  BY <1>1, <1>3, <1>5, <1>6 DEF DeclarationLayoutInv, LayoutInv

LEMMA DeclarationLayoutStep ==
  ASSUME DeclarationLayoutInv, [Next]_vars
  PROVE  DeclarationLayoutInv'
<1>1. ASSUME UNCHANGED layoutVars, phase \in {"tag", "aborted"} => phase' \in {"tag", "aborted"}
      PROVE  DeclarationLayoutInv'
  <2>1. LayoutInv'  BY <1>1, LayoutStep DEF DeclarationLayoutInv
  <2>2. NoLayout => NoLayout'  BY <1>1 DEF NoLayout, layoutVars
  <2> QED  BY <1>1, <2>1, <2>2 DEF DeclarationLayoutInv
<1>2. CASE LayOut
  <2>1. phase' = "tag" /\ LayoutNext  BY <1>2 DEF LayOut
  <2>2. LayoutInv'  BY <2>1, LayoutStep DEF DeclarationLayoutInv
  <2> QED  BY <2>1, <2>2 DEF DeclarationLayoutInv
<1>3. CASE OpenTag \/ CloseTag  BY <1>3, LayoutAnew
<1>4. CASE AbortTag \/ Begin \/ EndDeclaration \/ EndSpecifiers \/ Declare
  BY <1>1, <1>4 DEF AbortTag, Begin, EndDeclaration, EndSpecifiers, Declare
<1>5. CASE ReadSpecifier
  BY <1>1, <1>5 DEF ReadSpecifier, ReadWord, ReadTag, ReadQualifier, Reading
<1>6. CASE Derive
  BY <1>1, <1>6 DEF Derive, Pointers, Brackets, Parameters, Deriving
<1>7. CASE UNCHANGED vars  BY <1>1, <1>7 DEF vars
<1> QED  BY <1>2, <1>3, <1>4, <1>5, <1>6, <1>7 DEF Next

-----------------------------------------------------------------------------
\* For any tags, qualifiers, lists of stars and parameters, and declarations of
\* any length: a parameter has the type its declaration reads as, no qualifier
\* of it is lost, and specifiers that name a type are not refused unless `char'
\* comes before a sign (ey_type_combine, ey_type_merge and ey_type_normalize as
\* the specifiers and declarators of eng_rule.y call them).
THEOREM TypesDeclaredAsWritten == Spec => []DeclaredAsWritten
<1> DEFINE IInv == DeclarationInv /\ DeclarationLayoutInv
<1>1. Init => IInv  BY InitDeclaration, InitLayout
<1>2. IInv /\ [Next]_vars => IInv'
  BY DeclarationStep, DeclarationLayoutStep DEF DeclarationLayoutInv
<1>3. IInv => DeclaredAsWritten  BY DEF DeclarationInv
<1> QED  BY <1>1, <1>2, <1>3, PTL DEF Spec

\* The tag a file defines among its declarations is laid out as by itself: no
\* member is over another (ey_type_set_struct_type and ey_type_set_union_type).
THEOREM TagsLaidOut == Spec => []LayoutSound
<1>1. Init => DeclarationLayoutInv  BY InitLayout
<1>2. DeclarationLayoutInv /\ [Next]_vars => DeclarationLayoutInv'  BY DeclarationLayoutStep
<1>3. DeclarationLayoutInv => LayoutSound  BY DEF DeclarationLayoutInv, LayoutInv
<1> QED  BY <1>1, <1>2, <1>3, PTL DEF Spec

\* And its bit-fields use the bits that were left to them.
THEOREM TagsPacked == Spec => []PackedTight
<1>1. Init => DeclarationLayoutInv  BY InitLayout
<1>2. DeclarationLayoutInv /\ [Next]_vars => DeclarationLayoutInv'  BY DeclarationLayoutStep
<1>3. DeclarationLayoutInv => PackedTight  BY DEF DeclarationLayoutInv, LayoutInv
<1> QED  BY <1>1, <1>2, <1>3, PTL DEF Spec

-----------------------------------------------------------------------------
(* Expressions: what an expression has for its type is, link by link, what *)
(* it means.                                                               *)

LostWord == Word("none", "long_long", "none")
SameNode(n, m) == ShapeOf(n) = ShapeOf(m) /\ QualsOf(m) \subseteq QualsOf(n)

\* An array may still be there where its value, a pointer, is meant.
Agrees(t, m) ==
  /\ IsLinked(t) /\ IsDeclared(m) /\ Len(t) = Len(m)
  /\ \A i \in DOMAIN t : t[i].type \in Links \cup Leaves \cup {LostWord}
  /\ \A i \in DOMAIN t : i > 1 => SameNode(t[i], m[i])
  /\ QualsOf(m[1]) \subseteq QualsOf(t[1])
  /\ \/ ShapeOf(t[1]) = ShapeOf(m[1])
     \/ t[1].type = Base("array") /\ m[1].type = Base("pointer")
Exactly(t, m) == Agrees(t, m) /\ ShapeOf(t[1]) = ShapeOf(m[1])

\* What has been copied is no function, and what is no object is const: it was
\* not made const for nothing.
IsOperand(t) == KnownParameters(t) /\ t[1].type # Base("function")
Objects == {"SYMBOL", "DEREF", "ARRAY_INDEX"}
IsResult(op, type, meant, lvalue, kept) ==
  /\ Agrees(type, meant)
  /\ op \in Objects => Exactly(type, meant)
  /\ IsOperand(type)
  /\ lvalue \/ "const" \in QualsOf(type[1])
  /\ op \in {"DEREF", "ARRAY_INDEX"} => lvalue
  /\ kept
IsEntry(e) ==
  ~e.mixed => /\ IsResult(e.op, e.type, e.meant, e.lvalue, e.kept)
              /\ AddressCheck(e) => e.lvalue
EntriesAgree == \A e \in NodesOf(stack) : IsEntry(e)
StackInv == IsChain(stack) /\ EntriesAgree /\ tags["s"].quals = {}

-----------------------------------------------------------------------------
(* Words.                                                                  *)

PlainWords == SignedWords \cup UnsignedWords
              \cup {EnumConst, Base("float"), Base("double"), Base("void"), LostWord}
NamedWords == Links \cup TagWords

\* What a word stands for keeps what it is.
LEMMA PlainIs ==
  ASSUME NEW w \in PlainWords
  PROVE  /\ NormalWord(w) \notin NamedWords /\ w \notin NamedWords
         /\ w # EnumConst /\ w # LostWord => NormalWord(w) = w
         /\ NormalWord(EnumConst) = IntegerWord("signed", "none")
         /\ NormalWord(LostWord) = IntegerWord("signed", "long_long")
         /\ IntegerWord("signed", "none") # EnumConst /\ IntegerWord("signed", "long_long") # EnumConst
         /\ is_arithmetic(w) <=> w \notin {Base("void"), LostWord}
BY DEF PlainWords, NamedWords, SignedWords, UnsignedWords, EnumConst, LostWord, Links, TagWords,
       SuWords, NormalWord, IntegerWord, Base, Word, Lengths, is_arithmetic, is_integer, is_real,
       is_signed_integer, is_unsigned_integer

LEMMA NamedIs ==
  ASSUME NEW w \in NamedWords
  PROVE  /\ w \notin PlainWords /\ ~is_arithmetic(w) /\ ~is_void(w)
BY DEF PlainWords, NamedWords, SignedWords, UnsignedWords, EnumConst, LostWord, Links, TagWords,
       SuWords, IntegerWord, Base, Word, Lengths, is_arithmetic, is_integer, is_real,
       is_signed_integer, is_unsigned_integer, is_void

LEMMA LinksAre ==
  /\ Links \cup Leaves \cup {LostWord} = PlainWords \cup NamedWords
  /\ Links \cap TagWords = {} /\ Base("void") \in PlainWords
  /\ Base("pointer") # Base("array") /\ Base("pointer") # Base("function")
  /\ Base("array") # Base("function")
  /\ LostWord \notin Links \cup Leaves
<1>1. Links \cup Leaves \cup {LostWord} = PlainWords \cup NamedWords
  BY DEF PlainWords, NamedWords, Leaves
<1> QED
  BY <1>1 DEF PlainWords, NamedWords, SignedWords, UnsignedWords, EnumConst, LostWord, Links, Leaves,
       TagWords, SuWords, IntegerWord, Base, Word, Lengths

LEMMA ShapeFirst ==
  ASSUME NEW n, n.type \in PlainWords \cup NamedWords
  PROVE  /\ n.type \in NamedWords => ShapeOf(n)[1] = n.type
         /\ n.type \in PlainWords => ShapeOf(n) = <<NormalWord(n.type)>>
<1>1. CASE n.type \in NamedWords
  <2>1. n.type \notin PlainWords  BY <1>1, NamedIs
  <2> QED  BY <1>1, <2>1, LinksAre DEF ShapeOf, NamedWords, Links
<1>2. CASE n.type \in PlainWords
  <2>1. n.type \notin NamedWords  BY <1>2, PlainIs
  <2> QED  BY <1>2, <2>1 DEF ShapeOf, NamedWords, Links
<1> QED  BY <1>1, <1>2

LEMMA PointerShape ==
  ASSUME NEW n, n.type \in {Base("pointer"), Base("array")}
  PROVE  ShapeOf(n) = <<n.type>>
<1>1. n.type # Base("function") /\ n.type \notin TagWords
  BY LinksAre DEF Links
<1> QED  BY <1>1 DEF ShapeOf

LEMMA FunctionShape ==
  ASSUME NEW n, n.type = Base("function")
  PROVE  ShapeOf(n)[2] = n.args /\ ShapeOf(n)[3] = n.ellipsis
<1>1. n.type \notin {Base("pointer"), Base("array")} /\ n.type \notin TagWords
  BY LinksAre DEF Links
<1>2. ShapeOf(n) = <<n.type, n.args, n.ellipsis>>  BY <1>1 DEF ShapeOf
<1>3. <<n.type, n.args, n.ellipsis>>[2] = n.args /\ <<n.type, n.args, n.ellipsis>>[3] = n.ellipsis
  OBVIOUS
<1> QED  BY <1>2, <1>3

\* What the shapes of two nodes tell of them.
LEMMA ShapesTell ==
  ASSUME NEW n, NEW m, n.type \in PlainWords \cup NamedWords, m.type \in PlainWords \cup NamedWords,
         ShapeOf(n) = ShapeOf(m)
  PROVE  /\ n.type \in NamedWords \/ m.type \in NamedWords => n.type = m.type
         /\ n.type \in PlainWords =>
              m.type \in PlainWords /\ NormalWord(n.type) = NormalWord(m.type)
         /\ n.type = Base("function") => n.args = m.args /\ n.ellipsis = m.ellipsis
<1>1. n.type \in NamedWords <=> n.type \notin PlainWords  BY PlainIs, NamedIs
<1>2. m.type \in NamedWords <=> m.type \notin PlainWords  BY PlainIs, NamedIs
<1>3. n.type \in PlainWords <=> m.type \in PlainWords
  <2>1. ASSUME NEW x, NEW y, x.type \in PlainWords, y.type \in NamedWords, ShapeOf(x) = ShapeOf(y)
        PROVE  FALSE
    <3>1. ShapeOf(x) = <<NormalWord(x.type)>> /\ ShapeOf(y)[1] = y.type
      BY <2>1, ShapeFirst
    <3>2. NormalWord(x.type) = y.type  BY <2>1, <3>1
    <3> QED  BY <2>1, <3>2, PlainIs
  <2> QED  BY <1>1, <1>2, <2>1
<1>4. n.type \in PlainWords => NormalWord(n.type) = NormalWord(m.type)
  <2> SUFFICES ASSUME n.type \in PlainWords PROVE NormalWord(n.type) = NormalWord(m.type)
    OBVIOUS
  <2>1. ShapeOf(n) = <<NormalWord(n.type)>> /\ ShapeOf(m) = <<NormalWord(m.type)>>
    BY <1>3, ShapeFirst
  <2>2. ShapeOf(n)[1] = NormalWord(n.type) /\ ShapeOf(m)[1] = NormalWord(m.type)
    BY <2>1, OneNode
  <2> QED  BY <2>2
<1>5. n.type \in NamedWords => n.type = m.type
  BY <1>1, <1>2, <1>3, ShapeFirst
<1>6. n.type = Base("function") => n.args = m.args /\ n.ellipsis = m.ellipsis
  <2> SUFFICES ASSUME n.type = Base("function") PROVE n.args = m.args /\ n.ellipsis = m.ellipsis
    OBVIOUS
  <2>1. m.type = Base("function")  BY <1>5 DEF NamedWords, Links
  <2>2. /\ ShapeOf(n)[2] = n.args /\ ShapeOf(n)[3] = n.ellipsis
        /\ ShapeOf(m)[2] = m.args /\ ShapeOf(m)[3] = m.ellipsis
    BY <2>1, FunctionShape
  <2> QED  BY <2>2
<1> QED  BY <1>1, <1>2, <1>3, <1>4, <1>5, <1>6

-----------------------------------------------------------------------------
(* Copies.                                                                 *)

LEMMA HeadTail ==
  ASSUME NEW t, IsChain(t), IsType(t)
  PROVE  /\ Len(t) \in Nat \ {0} /\ DOMAIN t = 1..Len(t) /\ 1 \in DOMAIN t /\ Head(t) = t[1]
         /\ IsChain(to(t)) /\ Len(to(t)) = Len(t) - 1 /\ DOMAIN to(t) = 1..(Len(t) - 1)
         /\ \A i \in DOMAIN to(t) : i + 1 \in DOMAIN t /\ to(t)[i] = t[i + 1]
<1>1. t \in Seq(NodesOf(t)) /\ t # <<>>
  BY DEF IsChain, IsType, NoType
<1>2. /\ Len(t) \in Nat /\ DOMAIN t = 1..Len(t) /\ Len(t) # 0
  BY ChainDomain DEF IsType, NoType
<1>3. /\ Tail(t) \in Seq(NodesOf(t)) /\ Len(Tail(t)) = Len(t) - 1 /\ Head(t) = t[1]
      /\ \A i \in 1..Len(Tail(t)) : Tail(t)[i] = t[i + 1]
  BY <1>1, HeadTailProperties
<1>4. IsChain(Tail(t))  BY <1>3, ChainOf
<1>5. DOMAIN Tail(t) = 1..(Len(t) - 1)  BY <1>3, <1>4, ChainDomain
<1> QED  BY <1>2, <1>3, <1>4, <1>5 DEF to

\* c is t, but that its first node may have other qualifiers and fields as well.
IsLike(c, t) ==
  /\ IsChain(c) /\ Len(c) = Len(t)
  /\ IsNode(c[1]) /\ c[1].type = t[1].type /\ SameNode(c[1], t[1])
  /\ \A i \in DOMAIN t : i > 1 => c[i] = t[i]

LEMMA CopyNode ==
  ASSUME NEW n, IsNode(n), n.class \in {"simple", "pointer", "tag", "array"}
  PROVE  /\ IsNode(CopyOf(n)) /\ CopyOf(n).class = "simple" /\ CopyOf(n).type = n.type
         /\ ShapeOf(CopyOf(n)) = ShapeOf(n) /\ QualsOf(CopyOf(n)) = QualsOf(n)
<1> DEFINE c == CopyOf(n)
<1>1. CASE n.class = "tag"
  <2>1. c = [class |-> "simple", type |-> n.type, tag |-> n.tag, quals |-> QualsOf(n),
             size |-> SizeHeld(n), alignment |-> AlignmentHeld(n)]
    BY <1>1 DEF CopyOf
  <2>2. /\ {"class", "type", "tag", "quals"} \subseteq DOMAIN c
        /\ c.class = "simple" /\ c.type = n.type /\ c.tag = n.tag /\ c.quals = QualsOf(n)
    BY <2>1
  <2> HIDE DEF c
  <2>3. c.type \in TagWords /\ n.type \in TagWords /\ c.tag = n.tag /\ n.tag = "s"
    BY <1>1, <2>2 DEF IsNode
  <2>4. n.type \notin Links  BY <2>3, LinksAre
  <2>5. ShapeOf(c) = ShapeOf(n)  BY <2>2, <2>3, <2>4 DEF ShapeOf, Links
  <2>6. IsNode(c)  BY <2>2, <2>3, <2>4 DEF IsNode, Links
  <2>7. QualsOf(c) = QualsOf(n)
    <3> HIDE DEF QualsOf
    <3>1. QualsOf(c) = c.quals  BY <2>2 DEF QualsOf
    <3> QED  BY <2>2, <3>1
  <2> QED  BY <2>2, <2>5, <2>6, <2>7 DEF c
<1>2. CASE n.class # "tag"
  <2>1. /\ DOMAIN c = DOMAIN n /\ c.class = "simple"
        /\ \A x \in {"type", "tag", "quals"} : x \in DOMAIN n => c[x] = n[x]
    BY <1>2 DEF CopyOf, IsNode
  <2>2. /\ {"class", "type", "quals"} \subseteq DOMAIN n
        /\ n.type \in TagWords => "tag" \in DOMAIN n /\ n.tag = "s"
        /\ n.type # Base("function")
    BY <1>2 DEF IsNode
  <2> HIDE DEF c
  <2>3. c.type = n.type /\ c.quals = n.quals /\ (n.type \in TagWords => c.tag = n.tag)
    BY <2>1, <2>2
  <2>4. ShapeOf(c) = ShapeOf(n)  BY <2>2, <2>3 DEF ShapeOf
  <2>5. IsNode(c)  BY <2>1, <2>2, <2>3 DEF IsNode
  <2>6. QualsOf(c) = QualsOf(n)  BY <1>2, <2>1, <2>3 DEF QualsOf
  <2> QED  BY <2>1, <2>3, <2>4, <2>5, <2>6 DEF c
<1> QED  BY <1>1, <1>2

LEMMA QualsNode ==
  ASSUME NEW n, IsNode(n), n.class # "tag", NEW q
  PROVE  LET c == [n EXCEPT !.quals = q]
         IN /\ IsNode(c) /\ c.class = n.class /\ c.type = n.type
            /\ ShapeOf(c) = ShapeOf(n) /\ QualsOf(c) = q /\ QualsOf(n) = n.quals
<1> DEFINE c == [n EXCEPT !.quals = q]
<1>1. /\ DOMAIN c = DOMAIN n /\ c.quals = q
      /\ \A x \in DOMAIN n : x # "quals" => c[x] = n[x]
  BY DEF IsNode
<1>2. /\ {"class", "type", "quals"} \subseteq DOMAIN n
      /\ n.type \in TagWords => "tag" \in DOMAIN n /\ n.tag = "s"
      /\ n.class = "function" <=> n.type = Base("function")
      /\ n.class = "function" => {"args", "ellipsis"} \subseteq DOMAIN n
  BY DEF IsNode
<1> HIDE DEF c
<1>3. /\ c.type = n.type /\ c.class = n.class /\ (n.type \in TagWords => c.tag = n.tag)
      /\ n.type = Base("function") => c.args = n.args /\ c.ellipsis = n.ellipsis
  BY <1>1, <1>2
<1>4. ShapeOf(c) = ShapeOf(n)  BY <1>2, <1>3 DEF ShapeOf
<1>5. IsNode(c)  BY <1>1, <1>2, <1>3 DEF IsNode
<1>6. QualsOf(c) = q /\ QualsOf(n) = n.quals  BY <1>1, <1>3 DEF QualsOf
<1> QED  BY <1>3, <1>4, <1>5, <1>6 DEF c

LEMMA CopyIs ==
  ASSUME NEW t, IsLinked(t), CanCopy(t)
  PROVE  IsLike(copy(t), t) /\ class(copy(t)) = "simple" /\ Quals(copy(t)) = Quals(t)
<1>1. IsChain(t) /\ IsType(t) /\ \A i \in DOMAIN t : IsNode(t[i])
  BY DEF IsLinked
<1>2. /\ Len(t) \in Nat \ {0} /\ DOMAIN t = 1..Len(t) /\ 1 \in DOMAIN t /\ Head(t) = t[1]
      /\ IsChain(to(t)) /\ Len(to(t)) = Len(t) - 1 /\ DOMAIN to(t) = 1..(Len(t) - 1)
      /\ \A i \in DOMAIN to(t) : i + 1 \in DOMAIN t /\ to(t)[i] = t[i + 1]
  BY <1>1, HeadTail
<1> DEFINE n == CopyOf(t[1])
           c == copy(t)
<1>3. /\ IsNode(n) /\ n.class = "simple" /\ n.type = t[1].type
      /\ ShapeOf(n) = ShapeOf(t[1]) /\ QualsOf(n) = QualsOf(t[1])
  BY <1>1, <1>2, CopyNode DEF CanCopy, class
<1> HIDE DEF n
<1>4. c = <<n>> \o to(t)  BY <1>2 DEF copy, n
<1> HIDE DEF c
<1>5. /\ IsChain(c) /\ Len(c) = 1 + (Len(t) - 1) /\ c[1] = n
      /\ \A i \in DOMAIN to(t) : c[i + 1] = to(t)[i]
  <2> DEFINE r == to(t)
  <2>1. IsChain(r) /\ Len(r) = Len(t) - 1  BY <1>2
  <2> HIDE DEF r
  <2>2. c = <<n>> \o r  BY <1>4 DEF r
  <2>3. /\ IsChain(<<n>> \o r) /\ Len(<<n>> \o r) = 1 + Len(r) /\ (<<n>> \o r)[1] = n
        /\ \A i \in DOMAIN r : (<<n>> \o r)[i + 1] = r[i]
    BY <2>1, Before
  <2> QED  BY <2>1, <2>2, <2>3 DEF r
<1>6. Len(c) = Len(t)  BY <1>2, <1>5
<1>7. \A i \in DOMAIN t : i > 1 => c[i] = t[i]
  <2> SUFFICES ASSUME NEW i \in DOMAIN t, i > 1 PROVE c[i] = t[i]
    OBVIOUS
  <2>1. i - 1 \in DOMAIN to(t) /\ (i - 1) + 1 = i  BY <1>2
  <2> QED  BY <1>2, <1>5, <2>1
<1>8. IsLike(c, t)  BY <1>3, <1>5, <1>6, <1>7 DEF IsLike, SameNode
<1>9. Head(c) = n
  <2>1. IsType(c)  BY <1>2, <1>5, <1>6, ChainDomain DEF IsType, NoType
  <2> QED  BY <1>5, <2>1, HeadTail
<1> QED  BY <1>2, <1>3, <1>8, <1>9 DEF c, class, Quals

\* Every node but the first stays.
LEMMA NewHead ==
  ASSUME NEW t, IsLinked(t), NEW q, t[1].class # "tag"
  PROVE  LET c == [t EXCEPT ![1].quals = q]
         IN /\ IsChain(c) /\ Len(c) = Len(t) /\ IsNode(c[1]) /\ c[1].type = t[1].type
            /\ c[1].class = t[1].class
            /\ ShapeOf(c[1]) = ShapeOf(t[1]) /\ QualsOf(c[1]) = q /\ QualsOf(t[1]) = t[1].quals
            /\ \A i \in DOMAIN t : i > 1 => c[i] = t[i]
<1> DEFINE n == [t[1] EXCEPT !.quals = q]
           c == [t EXCEPT ![1].quals = q]
<1>1. IsChain(t) /\ IsType(t) /\ \A i \in DOMAIN t : IsNode(t[i])
  BY DEF IsLinked
<1>2. Len(t) \in Nat \ {0} /\ DOMAIN t = 1..Len(t) /\ 1 \in DOMAIN t
  BY <1>1, HeadTail
<1>3. /\ IsNode(n) /\ n.class = t[1].class /\ n.type = t[1].type
      /\ ShapeOf(n) = ShapeOf(t[1]) /\ QualsOf(n) = q /\ QualsOf(t[1]) = t[1].quals
  BY <1>1, <1>2, QualsNode
<1>4. c = [t EXCEPT ![1] = n]  OBVIOUS
<1>7. t \in [1..Len(t) -> NodesOf(t)]  BY <1>1, LenProperties DEF IsChain
<1> HIDE DEF n, c
<1>5. /\ DOMAIN c = 1..Len(t) /\ c[1] = n /\ \A i \in DOMAIN t : i > 1 => c[i] = t[i]
      /\ c = [i \in 1..Len(t) |-> c[i]]
  <2>1. c \in [1..Len(t) -> NodesOf(t) \cup {n}]  BY <1>4, <1>7
  <2>2. c[1] = n  BY <1>2, <1>4, <1>7
  <2>3. \A i \in DOMAIN t : i > 1 => c[i] = t[i]  BY <1>2, <1>4, <1>7
  <2> QED  BY <2>1, <2>2, <2>3
<1>6. IsChain(c) /\ Len(c) = Len(t)  BY <1>2, <1>5, ChainOn
<1> QED  BY <1>3, <1>5, <1>6 DEF c

LEMMA ConstIs ==
  ASSUME NEW t, IsLinked(t), class(t) # "tag"
  PROVE  IsLike(Const(t), t) /\ "const" \in QualsOf(Const(t)[1])
<1> DEFINE q == t[1].quals \cup {"const"}
           c == [t EXCEPT ![1].quals = q]
<1>1. Head(t) = t[1]  BY HeadTail DEF IsLinked
<1>2. t[1].class # "tag"  BY <1>1 DEF class
<1>3. /\ IsChain(c) /\ Len(c) = Len(t) /\ IsNode(c[1]) /\ c[1].type = t[1].type
      /\ ShapeOf(c[1]) = ShapeOf(t[1]) /\ QualsOf(c[1]) = q /\ QualsOf(t[1]) = t[1].quals
      /\ \A i \in DOMAIN t : i > 1 => c[i] = t[i]
  BY <1>2, NewHead
<1>4. Const(t) = c  BY DEF Const
<1> HIDE DEF c
<1> QED  BY <1>3, <1>4 DEF IsLike, SameNode

LEMMA LikeLinked ==
  ASSUME NEW c, NEW t, IsLinked(t), IsLike(c, t)
  PROVE  IsLinked(c) /\ DOMAIN c = DOMAIN t /\ Head(c) = c[1] /\ Head(t) = t[1]
<1>1. /\ IsChain(t) /\ IsType(t)
      /\ \A i \in DOMAIN t : IsNode(t[i]) /\ (t[i].type \in Links <=> i < Len(t))
  BY DEF IsLinked
<1>2. /\ IsChain(c) /\ Len(c) = Len(t) /\ IsNode(c[1]) /\ c[1].type = t[1].type
      /\ \A i \in DOMAIN t : i > 1 => c[i] = t[i]
  BY DEF IsLike
<1>3. Len(t) \in Nat \ {0} /\ DOMAIN t = 1..Len(t) /\ 1 \in DOMAIN t /\ Head(t) = t[1]
  BY <1>1, HeadTail
<1>4. IsType(c) /\ DOMAIN c = 1..Len(t)  BY <1>2, <1>3, ChainDomain DEF IsType, NoType
<1>5. ASSUME NEW i \in DOMAIN c PROVE IsNode(c[i]) /\ (c[i].type \in Links <=> i < Len(c))
  <2>1. CASE i = 1  BY <1>1, <1>2, <1>3, <2>1
  <2>2. CASE i # 1
    <3>1. i \in DOMAIN t /\ i > 1  BY <1>3, <1>4, <2>2
    <3> QED  BY <1>1, <1>2, <3>1
  <2> QED  BY <2>1, <2>2
<1>6. Head(c) = c[1]  BY <1>2, <1>4, HeadTail
<1> QED  BY <1>2, <1>3, <1>4, <1>5, <1>6 DEF IsLinked

LEMMA LikeAgain ==
  ASSUME NEW c, NEW t, NEW u, IsLike(c, t), IsLike(t, u), IsLinked(u)
  PROVE  IsLike(c, u)
<1>1. DOMAIN t = DOMAIN u  BY LikeLinked
<1> QED  BY <1>1 DEF IsLike, SameNode

LEMMA LikeAgrees ==
  ASSUME NEW c, NEW t, NEW m, Agrees(t, m), IsLike(c, t)
  PROVE  Agrees(c, m) /\ (Exactly(t, m) => Exactly(c, m))
<1>1. IsLinked(c) /\ DOMAIN c = DOMAIN t  BY LikeLinked DEF Agrees
<1>2. 1 \in DOMAIN t  BY HeadTail DEF Agrees, IsLinked
<1>3. /\ Len(c) = Len(t) /\ c[1].type = t[1].type /\ ShapeOf(c[1]) = ShapeOf(t[1])
      /\ QualsOf(t[1]) \subseteq QualsOf(c[1])
      /\ \A i \in DOMAIN t : i > 1 => c[i] = t[i]
  BY DEF IsLike, SameNode
<1>4. Agrees(c, m)
  <2>1. \A i \in DOMAIN c : c[i].type = t[i].type
    <3>1. \A i \in DOMAIN t : i = 1 \/ i > 1
      <4>1. DOMAIN t = 1..Len(t) /\ Len(t) \in Nat  BY HeadTail DEF Agrees, IsLinked
      <4> QED  BY <4>1
    <3> QED  BY <1>1, <1>3, <3>1
  <2> QED  BY <1>1, <1>3, <2>1 DEF Agrees
<1> QED  BY <1>3, <1>4 DEF Exactly

-----------------------------------------------------------------------------
(* What a type leads to, and what leads to it.                             *)

LEMMA LinkedHead ==
  ASSUME NEW t, IsLinked(t)
  PROVE  /\ Len(t) \in Nat \ {0} /\ DOMAIN t = 1..Len(t) /\ 1 \in DOMAIN t /\ Head(t) = t[1]
         /\ word(t) = t[1].type /\ class(t) = t[1].class /\ Quals(t) = QualsOf(t[1])
         /\ IsNode(t[1]) /\ (t[1].type \in Links <=> Len(t) > 1)
<1>1. /\ IsChain(t) /\ IsType(t)
      /\ \A i \in DOMAIN t : IsNode(t[i]) /\ (t[i].type \in Links <=> i < Len(t))
  BY DEF IsLinked
<1>2. Len(t) \in Nat \ {0} /\ DOMAIN t = 1..Len(t) /\ 1 \in DOMAIN t /\ Head(t) = t[1]
  BY <1>1, HeadTail
<1> QED  BY <1>1, <1>2 DEF word, class, Quals

LEMMA LinkedTail ==
  ASSUME NEW t, IsLinked(t), t[1].type \in Links
  PROVE  /\ IsLinked(to(t)) /\ Len(to(t)) = Len(t) - 1
         /\ \A i \in DOMAIN to(t) : i + 1 \in DOMAIN t /\ i + 1 > 1 /\ to(t)[i] = t[i + 1]
<1>1. /\ IsChain(t) /\ IsType(t)
      /\ \A i \in DOMAIN t : IsNode(t[i]) /\ (t[i].type \in Links <=> i < Len(t))
  BY DEF IsLinked
<1>2. /\ Len(t) \in Nat \ {0} /\ DOMAIN t = 1..Len(t) /\ 1 \in DOMAIN t
      /\ IsChain(to(t)) /\ Len(to(t)) = Len(t) - 1 /\ DOMAIN to(t) = 1..(Len(t) - 1)
      /\ \A i \in DOMAIN to(t) : i + 1 \in DOMAIN t /\ to(t)[i] = t[i + 1]
  BY <1>1, HeadTail
<1>3. 1 < Len(t)  BY <1>1, <1>2
<1>4. IsType(to(t))
  <2>1. Len(to(t)) # 0  BY <1>2, <1>3
  <2> QED  BY <1>2, <2>1, ChainDomain DEF IsType, NoType
<1> DEFINE r == to(t)
<1> HIDE DEF r
<1>5. \A i \in DOMAIN r : IsNode(r[i]) /\ (r[i].type \in Links <=> i < Len(r))
  BY <1>1, <1>2 DEF r
<1> QED  BY <1>2, <1>4, <1>5 DEF IsLinked, r

LEMMA DeclaredTail ==
  ASSUME NEW t, IsDeclared(t), t[1].type \in Links
  PROVE  IsDeclared(to(t))
<1>1. IsLinked(t) /\ \A i \in DOMAIN t : t[i].type \in Links \cup Leaves
  BY DEF IsDeclared
<1>2. /\ IsLinked(to(t))
      /\ \A i \in DOMAIN to(t) : i + 1 \in DOMAIN t /\ to(t)[i] = t[i + 1]
  BY <1>1, LinkedTail
<1> QED  BY <1>1, <1>2 DEF IsDeclared

LEMMA SelfAgrees ==
  ASSUME NEW t, IsDeclared(t)
  PROVE  Exactly(t, t)
BY DEF Exactly, Agrees, SameNode, IsDeclared

LEMMA TailAgrees ==
  ASSUME NEW t, NEW m, Agrees(t, m), t[1].type \in Links
  PROVE  m[1].type \in Links /\ Exactly(to(t), to(m))
<1>1. /\ IsLinked(t) /\ IsDeclared(m) /\ IsLinked(m) /\ Len(t) = Len(m)
      /\ \A i \in DOMAIN t : t[i].type \in Links \cup Leaves \cup {LostWord}
      /\ \A i \in DOMAIN t : i > 1 => SameNode(t[i], m[i])
  BY DEF Agrees, IsDeclared
<1>2. m[1].type \in Links
  <2>1. Len(t) > 1  BY <1>1, LinkedHead
  <2> QED  BY <1>1, <2>1, LinkedHead
<1>3. /\ IsLinked(to(t)) /\ Len(to(t)) = Len(t) - 1
      /\ \A i \in DOMAIN to(t) : i + 1 \in DOMAIN t /\ i + 1 > 1 /\ to(t)[i] = t[i + 1]
  BY <1>1, LinkedTail
<1>4. /\ IsLinked(to(m)) /\ Len(to(m)) = Len(m) - 1
      /\ \A i \in DOMAIN to(m) : i + 1 \in DOMAIN m /\ i + 1 > 1 /\ to(m)[i] = m[i + 1]
  BY <1>1, <1>2, LinkedTail
<1>5. IsDeclared(to(m))  BY <1>1, <1>2, DeclaredTail
<1> DEFINE u == to(t)
           v == to(m)
<1> HIDE DEF u, v
<1>6. Len(u) = Len(v) /\ DOMAIN u = DOMAIN v
  BY <1>1, <1>3, <1>4, LinkedHead DEF u, v
<1>7. \A i \in DOMAIN u : SameNode(u[i], v[i]) /\ u[i].type \in Links \cup Leaves \cup {LostWord}
  BY <1>1, <1>3, <1>4, <1>6 DEF u, v
<1>8. 1 \in DOMAIN u  BY <1>3, LinkedHead DEF u
<1> QED  BY <1>2, <1>3, <1>5, <1>6, <1>7, <1>8 DEF Exactly, Agrees, SameNode, u, v

LEMMA PointerIs ==
  ASSUME NEW t, IsLinked(t), NEW q
  PROVE  LET p == alloc_pointer_type(q, t)
         IN /\ IsLinked(p) /\ Len(p) = 1 + Len(t) /\ to(p) = t
            /\ p[1].type = Base("pointer") /\ p[1].class = "pointer" /\ QualsOf(p[1]) = q
            /\ \A i \in DOMAIN t : p[i + 1] = t[i]
<1> DEFINE n == [class |-> "pointer", type |-> Base("pointer"), quals |-> q]
           p == <<n>> \o t
<1>1. /\ IsChain(t) /\ IsType(t)
      /\ \A i \in DOMAIN t : IsNode(t[i]) /\ (t[i].type \in Links <=> i < Len(t))
  BY DEF IsLinked
<1>2. n.class = "pointer" /\ n.type = Base("pointer") /\ n.quals = q /\ IsNode(n)
  <2>1. n.class = "pointer" /\ n.type = Base("pointer") /\ n.quals = q
        /\ {"class", "type", "quals"} \subseteq DOMAIN n
    OBVIOUS
  <2> HIDE DEF n
  <2>2. Base("pointer") \notin TagWords /\ Base("pointer") # Base("function")
    BY LinksAre DEF Links
  <2> QED  BY <2>1, <2>2 DEF IsNode
<1> HIDE DEF n
<1>3. /\ IsChain(p) /\ Len(p) = 1 + Len(t) /\ DOMAIN p = 1..(1 + Len(t))
      /\ DOMAIN t = 1..Len(t) /\ Len(t) \in Nat /\ p[1] = n
      /\ \A i \in DOMAIN t : p[i + 1] = t[i]
  BY <1>1, Before
<1>4. Len(t) # 0  BY <1>1, <1>3, HeadTail
<1>5. to(p) = t
  <2>1. IsType(p)  BY <1>3, <1>4, ChainDomain DEF IsType, NoType
  <2> HIDE DEF p
  <2>2. /\ IsChain(to(p)) /\ Len(to(p)) = Len(t) /\ DOMAIN to(p) = 1..Len(t)
        /\ \A i \in DOMAIN to(p) : to(p)[i] = p[i + 1]
    BY <1>3, <2>1, HeadTail
  <2> DEFINE u == to(p)
  <2> HIDE DEF u
  <2>3. \A i \in 1..Len(t) : u[i] = t[i]  BY <1>3, <2>2 DEF u
  <2>4. u \in Seq(NodesOf(u)) /\ t \in Seq(NodesOf(t)) /\ Len(u) = Len(t)
    BY <1>1, <2>2 DEF IsChain, u
  <2>5. u = [i \in 1..Len(t) |-> u[i]] /\ t = [i \in 1..Len(t) |-> t[i]]
    BY <2>4, LenProperties
  <2> QED  BY <2>3, <2>5 DEF u
<1> HIDE DEF p
<1>6. ASSUME NEW i \in DOMAIN p PROVE IsNode(p[i]) /\ (p[i].type \in Links <=> i < Len(p))
  <2>1. CASE i = 1
    <3>1. Base("pointer") \in Links  BY DEF Links
    <3> QED  BY <1>2, <1>3, <1>4, <2>1, <3>1
  <2>2. CASE i # 1
    <3>1. i - 1 \in DOMAIN t /\ (i - 1) + 1 = i /\ (i - 1 < Len(t) <=> i < Len(p))
      BY <1>3, <2>2
    <3> QED  BY <1>1, <1>3, <3>1
  <2> QED  BY <2>1, <2>2
<1>7. IsType(p)  BY <1>3, <1>4, ChainDomain DEF IsType, NoType
<1>8. IsLinked(p)  BY <1>3, <1>6, <1>7 DEF IsLinked
<1>9. QualsOf(p[1]) = q  BY <1>2, <1>3 DEF QualsOf
<1> QED  BY <1>2, <1>3, <1>5, <1>8, <1>9 DEF alloc_pointer_type, p, n

LEMMA PointerAgrees ==
  ASSUME NEW t, NEW m, Exactly(t, m), NEW q
  PROVE  Exactly(alloc_pointer_type(q, t), alloc_pointer_type({}, m))
<1> DEFINE u == alloc_pointer_type(q, t)
           v == alloc_pointer_type({}, m)
<1>1. /\ IsLinked(t) /\ IsLinked(m) /\ IsDeclared(m) /\ Len(t) = Len(m)
      /\ \A i \in DOMAIN m : m[i].type \in Links \cup Leaves
      /\ \A i \in DOMAIN t : t[i].type \in Links \cup Leaves \cup {LostWord}
      /\ \A i \in DOMAIN t : i > 1 => SameNode(t[i], m[i])
      /\ SameNode(t[1], m[1])
  BY DEF Exactly, Agrees, IsDeclared, SameNode
<1>2. /\ DOMAIN t = 1..Len(t) /\ Len(t) \in Nat \ {0} /\ DOMAIN m = 1..Len(t)
  BY <1>1, LinkedHead
<1>3. /\ IsLinked(u) /\ Len(u) = 1 + Len(t)
      /\ u[1].type = Base("pointer") /\ \A i \in DOMAIN t : u[i + 1] = t[i]
  BY <1>1, PointerIs
<1>4. /\ IsLinked(v) /\ Len(v) = 1 + Len(t) /\ QualsOf(v[1]) = {}
      /\ v[1].type = Base("pointer") /\ \A i \in DOMAIN m : v[i + 1] = m[i]
  BY <1>1, PointerIs
<1> HIDE DEF u, v
<1>5. DOMAIN u = 1..(1 + Len(t)) /\ DOMAIN v = 1..(1 + Len(t))  BY <1>3, <1>4, LinkedHead
<1>6. Base("pointer") \in Links  BY DEF Links
<1>7. ASSUME NEW i \in DOMAIN u
      PROVE  /\ u[i].type \in Links \cup Leaves \cup {LostWord} /\ v[i].type \in Links \cup Leaves
             /\ i > 1 => SameNode(u[i], v[i])
  <2>1. CASE i = 1  BY <1>3, <1>4, <1>6, <2>1
  <2>2. CASE i # 1
    <3>1. /\ i - 1 \in DOMAIN t /\ (i - 1) + 1 = i
      BY <1>2, <1>5, <2>2
    <3>2. u[i] = t[i - 1] /\ v[i] = m[i - 1]  BY <1>2, <1>3, <1>4, <3>1
    <3>3. SameNode(t[i - 1], m[i - 1])
      <4>1. i - 1 = 1 \/ i - 1 > 1  BY <1>2, <3>1
      <4> QED  BY <1>1, <3>1, <4>1
    <3> QED  BY <1>1, <1>2, <3>1, <3>2, <3>3
  <2> QED  BY <2>1, <2>2
<1>8. ShapeOf(u[1]) = ShapeOf(v[1])
  <2>1. ShapeOf(u[1]) = <<Base("pointer")>> /\ ShapeOf(v[1]) = <<Base("pointer")>>
    BY <1>3, <1>4, PointerShape
  <2> QED  BY <2>1
<1>9. IsDeclared(v)  BY <1>4, <1>5, <1>7 DEF IsDeclared
<1> QED  BY <1>3, <1>4, <1>5, <1>7, <1>8, <1>9 DEF Exactly, Agrees, u, v

\* As an operand, an array is a pointer to the same.
LEMMA DecayedIs ==
  ASSUME NEW t, IsLinked(t)
  PROVE  LET d == Decayed(t)
         IN /\ IsLinked(d) /\ Len(d) = Len(t) /\ \A i \in DOMAIN t : i > 1 => d[i] = t[i]
            /\ t[1].type = Base("array") =>
                 d = alloc_pointer_type({}, to(t)) /\ to(d) = to(t) /\ d[1].type = Base("pointer")
            /\ t[1].type # Base("array") => d = t
<1>1. word(t) = t[1].type  BY LinkedHead
<1>2. CASE t[1].type = Base("array")
  <2> DEFINE r == to(t)
             d == alloc_pointer_type({}, r)
  <2>1. t[1].type \in Links  BY <1>2 DEF Links
  <2>2. /\ IsLinked(r) /\ Len(r) = Len(t) - 1 /\ DOMAIN t = 1..Len(t) /\ Len(t) \in Nat
        /\ \A i \in DOMAIN r : i + 1 \in DOMAIN t /\ r[i] = t[i + 1]
        /\ DOMAIN r = 1..Len(r)
    BY <2>1, LinkedHead, LinkedTail
  <2> HIDE DEF r
  <2>3. /\ IsLinked(d) /\ Len(d) = 1 + Len(r) /\ to(d) = r /\ d[1].type = Base("pointer")
        /\ \A i \in DOMAIN r : d[i + 1] = r[i]
    BY <2>2, PointerIs
  <2>4. Decayed(t) = d  BY <1>1, <1>2 DEF Decayed, r
  <2> HIDE DEF d
  <2>5. \A i \in DOMAIN t : i > 1 => d[i] = t[i]
    <3> SUFFICES ASSUME NEW i \in DOMAIN t, i > 1 PROVE d[i] = t[i]
      OBVIOUS
    <3>1. i - 1 \in DOMAIN r /\ (i - 1) + 1 = i  BY <2>2
    <3> QED  BY <2>2, <2>3, <3>1
  <2>6. Len(d) = Len(t)  BY <2>2, <2>3
  <2>7. d = alloc_pointer_type({}, to(t)) /\ to(d) = to(t)  BY <2>3 DEF d, r
  <2> QED  BY <1>2, <2>3, <2>4, <2>5, <2>6, <2>7
<1>3. CASE t[1].type # Base("array")
  <2>1. Decayed(t) = t  BY <1>1, <1>3 DEF Decayed
  <2> QED  BY <1>3, <2>1
<1> QED  BY <1>2, <1>3

\* And so has the shape of what is meant.
LEMMA AgreesShape ==
  ASSUME NEW t, NEW m, Agrees(t, m)
  PROVE  Shape(Decayed(t)) = Shape(Decayed(m)) /\ KeepsQuals(t, m)
<1> DEFINE d == Decayed(t)
           e == Decayed(m)
<1>1. /\ IsLinked(t) /\ IsLinked(m) /\ Len(t) = Len(m)
      /\ \A i \in DOMAIN t : t[i].type \in Links \cup Leaves \cup {LostWord}
      /\ \A i \in DOMAIN m : m[i].type \in Links \cup Leaves
      /\ \A i \in DOMAIN t : i > 1 => SameNode(t[i], m[i])
      /\ QualsOf(m[1]) \subseteq QualsOf(t[1])
      /\ \/ ShapeOf(t[1]) = ShapeOf(m[1])
         \/ t[1].type = Base("array") /\ m[1].type = Base("pointer")
  BY DEF Agrees, IsDeclared
<1>2. /\ DOMAIN t = 1..Len(t) /\ DOMAIN m = 1..Len(t) /\ Len(t) \in Nat \ {0}
  BY <1>1, LinkedHead
<1>3. /\ IsLinked(d) /\ Len(d) = Len(t) /\ \A i \in DOMAIN t : i > 1 => d[i] = t[i]
      /\ t[1].type = Base("array") => d[1].type = Base("pointer")
      /\ t[1].type # Base("array") => d = t
  BY <1>1, DecayedIs
<1>4. /\ IsLinked(e) /\ Len(e) = Len(m) /\ \A i \in DOMAIN m : i > 1 => e[i] = m[i]
      /\ m[1].type = Base("array") => e[1].type = Base("pointer")
      /\ m[1].type # Base("array") => e = m
  BY <1>1, DecayedIs
<1> HIDE DEF d, e
<1>5. DOMAIN d = 1..Len(t) /\ DOMAIN e = 1..Len(t)  BY <1>1, <1>3, <1>4, LinkedHead
<1>6. ShapeOf(d[1]) = ShapeOf(e[1])
  <2>1. CASE ShapeOf(t[1]) = ShapeOf(m[1])
    <3>1. t[1].type = Base("array") <=> m[1].type = Base("array")
      <4>1. t[1].type \in PlainWords \cup NamedWords /\ m[1].type \in PlainWords \cup NamedWords
        BY <1>1, <1>2, LinksAre
      <4>2. Base("array") \in NamedWords  BY DEF NamedWords, Links
      <4> QED  BY <2>1, <4>1, <4>2, ShapesTell
    <3>2. CASE t[1].type = Base("array")
      <4>1. d[1].type = Base("pointer") /\ e[1].type = Base("pointer")
        BY <1>3, <1>4, <3>1, <3>2
      <4>2. ShapeOf(d[1]) = <<d[1].type>> /\ ShapeOf(e[1]) = <<e[1].type>>
        BY <4>1, PointerShape
      <4> QED  BY <4>1, <4>2
    <3>3. CASE t[1].type # Base("array")  BY <1>3, <1>4, <2>1, <3>1, <3>3
    <3> QED  BY <3>2, <3>3
  <2>2. CASE t[1].type = Base("array") /\ m[1].type = Base("pointer")
    <3>1. d[1].type = Base("pointer") /\ e[1].type = Base("pointer")
      BY <1>3, <1>4, <2>2, LinksAre
    <3>2. ShapeOf(d[1]) = <<d[1].type>> /\ ShapeOf(e[1]) = <<e[1].type>>
      BY <3>1, PointerShape
    <3> QED  BY <3>1, <3>2
  <2> QED  BY <1>1, <2>1, <2>2
<1>7. \A i \in 1..Len(t) : ShapeOf(d[i]) = ShapeOf(e[i])
  <2> SUFFICES ASSUME NEW i \in 1..Len(t) PROVE ShapeOf(d[i]) = ShapeOf(e[i])
    OBVIOUS
  <2>1. CASE i = 1  BY <1>6, <2>1
  <2>2. CASE i # 1
    <3>1. i > 1  BY <2>2
    <3> QED  BY <1>1, <1>2, <1>3, <1>4, <3>1 DEF SameNode
  <2> QED  BY <2>1, <2>2
<1>8. Shape(d) = Shape(e)  BY <1>5, <1>7 DEF Shape
<1>9. KeepsQuals(t, m)
  <2> SUFFICES ASSUME NEW i \in DOMAIN m PROVE QualsOf(m[i]) \subseteq QualsOf(t[i])
    BY DEF KeepsQuals
  <2>1. CASE i = 1  BY <1>1, <2>1
  <2>2. CASE i # 1
    <3>1. i \in DOMAIN t /\ i > 1  BY <1>2, <2>2
    <3> QED  BY <1>1, <3>1 DEF SameNode
  <2> QED  BY <2>1, <2>2
<1> QED  BY <1>8, <1>9 DEF d, e

-----------------------------------------------------------------------------
(* The usual arithmetic conversions.                                       *)

ArithmeticWords == PlainWords \ {Base("void"), LostWord}

LEMMA ArithmeticIs ==
  ASSUME NEW w
  PROVE  is_arithmetic(w) <=> w \in ArithmeticWords
BY DEF ArithmeticWords, PlainWords, EnumConst, LostWord, SignedWords, UnsignedWords, IntegerWord,
       Base, Word, Lengths, is_arithmetic, is_integer, is_real, is_signed_integer,
       is_unsigned_integer

\* ey_type_promotion's ranks, one after the other.
FirstRank(d, s) ==
  IF Base("double") \in {d, s} THEN Base("double")
  ELSE IF Base("float") \in {d, s} THEN Base("float")
  ELSE IF IntegerWord("unsigned", "long_long") \in {d, s} THEN IntegerWord("unsigned", "long_long")
  ELSE IF IntegerWord("signed", "long_long") \in {d, s} THEN LostWord
  ELSE IF IntegerWord("unsigned", "long") \in {d, s} THEN IntegerWord("unsigned", "long")
  ELSE IF IntegerWord("signed", "long") \in {d, s} THEN IntegerWord("signed", "long")
  ELSE IF IntegerWord("unsigned", "none") \in {d, s} THEN IntegerWord("unsigned", "none")
  ELSE Word("signed", "none", "int")

LEMMA RanksAre ==
  /\ DOMAIN Ranks = 1..7
  /\ Ranks[1] = Base("double") /\ Ranks[2] = Base("float")
  /\ Ranks[3] = IntegerWord("unsigned", "long_long")
  /\ Ranks[4] = IntegerWord("signed", "long_long")
  /\ Ranks[5] = IntegerWord("unsigned", "long") /\ Ranks[6] = IntegerWord("signed", "long")
  /\ Ranks[7] = IntegerWord("unsigned", "none")
BY DEF Ranks

LEMMA RanksApart ==
  /\ \A i, j \in 1..7 : Ranks[i] = Ranks[j] => i = j
  /\ \A i \in 1..7 : Ranks[i] = IntegerWord("signed", "long_long") <=> i = 4
BY RanksAre DEF IntegerWord, Base, Word

LEMMA PromotedIs ==
  ASSUME NEW d, NEW s
  PROVE  PromotedWord(d, s) = FirstRank(d, s)
<1> DEFINE have == {i \in DOMAIN Ranks : Ranks[i] \in {d, s}}
           first == CHOOSE i \in have : \A j \in have : i <= j
<1>1. CASE have = {}
  <2>1. \A i \in 1..7 : Ranks[i] \notin {d, s}  BY <1>1, RanksAre
  <2>2. FirstRank(d, s) = Word("signed", "none", "int")  BY <2>1, RanksAre DEF FirstRank
  <2> QED  BY <1>1, <2>2 DEF PromotedWord
<1>2. ASSUME NEW k \in 1..7, Ranks[k] \in {d, s}, \A j \in 1..(k - 1) : Ranks[j] \notin {d, s}
      PROVE  /\ have # {} /\ first = k
             /\ PromotedWord(d, s) = IF k = 4 THEN LostWord ELSE Ranks[k]
  <2>1. k \in have /\ \A j \in have : j \in 1..7 /\ k <= j
    BY <1>2, RanksAre
  <2>2. first \in have /\ \A j \in have : first <= j  BY <2>1
  <2>3. first = k  BY <2>1, <2>2
  <2> HIDE DEF first, have
  <2>4. PromotedWord(d, s) =
          IF Ranks[first] = IntegerWord("signed", "long_long") THEN LostWord ELSE Ranks[first]
    BY <2>1 DEF PromotedWord, LostWord, first, have
  <2> QED  BY <2>1, <2>3, <2>4, RanksApart
<1>3. CASE have # {}
  <2>1. \E k \in 1..7 : Ranks[k] \in {d, s} /\ \A j \in 1..(k - 1) : Ranks[j] \notin {d, s}
    <3>1. \E i \in 1..7 : Ranks[i] \in {d, s}  BY <1>3, RanksAre
    <3>2. 1..7 = {1, 2, 3, 4, 5, 6, 7}  OBVIOUS
    <3> QED  BY <3>1, <3>2
  <2>2. PICK k \in 1..7 : Ranks[k] \in {d, s} /\ \A j \in 1..(k - 1) : Ranks[j] \notin {d, s}
    BY <2>1
  <2>3. PromotedWord(d, s) = IF k = 4 THEN LostWord ELSE Ranks[k]  BY <1>2, <2>2
  <2>4. FirstRank(d, s) = IF k = 4 THEN LostWord ELSE Ranks[k]
    <3>1. k \in {1, 2, 3, 4, 5, 6, 7}  OBVIOUS
    <3> QED  BY <2>2, <3>1, RanksAre DEF FirstRank
  <2> QED  BY <2>3, <2>4
<1> QED  BY <1>1, <1>3

WideWords == {IntegerWord(s, l) : s \in {"signed", "unsigned"}, l \in {"none", "long", "long_long"}}

\* An integer that is not wide is converted to int first.
LEMMA WideIs ==
  ASSUME NEW w \in ArithmeticWords, w \notin {Base("double"), Base("float")}
  PROVE  /\ AtLeastInt(w) \in WideWords
         /\ \A x \in WideWords \ {IntegerWord("signed", "none")} : w = x <=> AtLeastInt(w) = x
BY DEF ArithmeticWords, PlainWords, EnumConst, LostWord, SignedWords, UnsignedWords, IntegerWord,
       Base, Word, Lengths, WideWords, AtLeastInt, Rank

\* Of two wide integers.
WideUsual(x, y) ==
  LET high == IF Rank(x) >= Rank(y) THEN x ELSE y
      low == IF Rank(x) >= Rank(y) THEN y ELSE x
  IN IF x.sign = y.sign THEN high
     ELSE IF high.sign = "unsigned" THEN high
     ELSE IF Rank(high) = Rank(low) THEN low
     ELSE IF Bytes(high) > Bytes(low) THEN high
     ELSE IntegerWord("unsigned", high.length)

LEMMA WidePromoted ==
  ASSUME NEW x \in WideWords, NEW y \in WideWords, ~LongLongAndUnsignedLong(x, y)
  PROVE  NormalWord(FirstRank(x, y)) = WideUsual(x, y)
<1>1. ASSUME NEW w \in WideWords
      PROVE  /\ Rank(w) = IF w.length = "long_long" THEN 5 ELSE IF w.length = "long" THEN 4 ELSE 3
             /\ Bytes(w) = IF w.length = "none" THEN 4 ELSE 8
             /\ w = IntegerWord(w.sign, w.length)
             /\ w.sign \in {"signed", "unsigned"} /\ w.length \in {"none", "long", "long_long"}
  BY DEF WideWords, IntegerWord, Word, Rank, Bytes, SizeOf, Pesudo, Base
<1>2. PICK s \in {"signed", "unsigned"}, l \in {"none", "long", "long_long"} :
        x = IntegerWord(s, l)
  BY DEF WideWords
<1>3. PICK r \in {"signed", "unsigned"}, k \in {"none", "long", "long_long"} :
        y = IntegerWord(r, k)
  BY DEF WideWords
<1>4. CASE l = "none"
  BY <1>1, <1>2, <1>3, <1>4
  DEF FirstRank, WideUsual, NormalWord, IntegerWord, LostWord, Base, Word, LongLongAndUnsignedLong
<1>5. CASE l = "long"
  BY <1>1, <1>2, <1>3, <1>5
  DEF FirstRank, WideUsual, NormalWord, IntegerWord, LostWord, Base, Word, LongLongAndUnsignedLong
<1>6. CASE l = "long_long"
  BY <1>1, <1>2, <1>3, <1>6
  DEF FirstRank, WideUsual, NormalWord, IntegerWord, LostWord, Base, Word, LongLongAndUnsignedLong
<1> QED  BY <1>2, <1>4, <1>5, <1>6

\* The common type is the one that the usual arithmetic conversions give, but
\* for the pair that ey_type_promotion takes in another order.
LEMMA PromotionIsUsual ==
  ASSUME NEW v \in ArithmeticWords, NEW w \in ArithmeticWords, ~LongLongAndUnsignedLong(v, w)
  PROVE  NormalWord(PromotedWord(v, w)) = Usual(v, w)
<1>1. PromotedWord(v, w) = FirstRank(v, w)  BY PromotedIs
<1>2. CASE {v, w} \cap {Base("double"), Base("float")} # {}
  BY <1>1, <1>2 DEF FirstRank, Usual, NormalWord, Base, Word
<1>3. CASE {v, w} \cap {Base("double"), Base("float")} = {}
  <2> DEFINE x == AtLeastInt(v)
             y == AtLeastInt(w)
  <2>1. /\ v \notin {Base("double"), Base("float")} /\ w \notin {Base("double"), Base("float")}
    BY <1>3
  <2>2. /\ x \in WideWords /\ y \in WideWords
        /\ \A z \in WideWords \ {IntegerWord("signed", "none")} :
             (v = z <=> x = z) /\ (w = z <=> y = z)
    BY <2>1, WideIs
  <2>3. Usual(v, w) = WideUsual(x, y)
    BY <2>1, Zenon DEF Usual, WideUsual
  <2> HIDE DEF x, y
  <2>4. ASSUME NEW s \in {"signed", "unsigned"}, NEW l \in {"none", "long", "long_long"},
               IntegerWord(s, l) # IntegerWord("signed", "none")
        PROVE  /\ v = IntegerWord(s, l) <=> x = IntegerWord(s, l)
               /\ w = IntegerWord(s, l) <=> y = IntegerWord(s, l)
    <3>1. IntegerWord(s, l) \in WideWords \ {IntegerWord("signed", "none")}
      BY <2>4 DEF WideWords
    <3> QED  BY <2>2, <3>1
  <2>5. \A z \in WideWords : z # Base("double") /\ z # Base("float")
    BY DEF WideWords, IntegerWord, Base, Word
  <2>6. /\ IntegerWord("unsigned", "long_long") # IntegerWord("signed", "none")
        /\ IntegerWord("signed", "long_long") # IntegerWord("signed", "none")
        /\ IntegerWord("unsigned", "long") # IntegerWord("signed", "none")
        /\ IntegerWord("signed", "long") # IntegerWord("signed", "none")
        /\ IntegerWord("unsigned", "none") # IntegerWord("signed", "none")
    BY DEF IntegerWord, Word
  <2>7. FirstRank(v, w) = FirstRank(x, y)
    BY <2>1, <2>2, <2>4, <2>5, <2>6 DEF FirstRank
  <2>8. ~LongLongAndUnsignedLong(x, y)
    BY <2>2, <2>4, <2>6 DEF LongLongAndUnsignedLong
  <2>9. NormalWord(FirstRank(x, y)) = WideUsual(x, y)  BY <2>2, <2>8, WidePromoted
  <2> QED  BY <1>1, <2>3, <2>7, <2>9
<1> QED  BY <1>2, <1>3

LEMMA SimpleLinked ==
  ASSUME NEW w \in PlainWords, NEW q
  PROVE  LET t == alloc_simple_type(w, q)
         IN /\ IsLinked(t) /\ Len(t) = 1 /\ t[1].type = w /\ t[1].class = "simple"
            /\ QualsOf(t[1]) = q /\ word(t) = w /\ class(t) = "simple" /\ CanCopy(t)
            /\ w # LostWord => IsDeclared(t)
<1> DEFINE n == [class |-> "simple", type |-> w, quals |-> q]
           t == alloc_simple_type(w, q)
<1>1. n.class = "simple" /\ n.type = w /\ n.quals = q /\ {"class", "type", "quals"} \subseteq DOMAIN n
  OBVIOUS
<1> HIDE DEF n
<1>2. /\ IsChain(t) /\ IsType(t) /\ Len(t) = 1 /\ DOMAIN t = 1..1 /\ t[1] = n
      /\ word(t) = w /\ class(t) = "simple"
  BY SimpleIs DEF n
<1> HIDE DEF t
<1>3. w \notin Links /\ w \notin TagWords /\ Base("function") \in Links
  <2>1. w \notin NamedWords  BY PlainIs
  <2> QED  BY <2>1 DEF NamedWords, Links
<1>4. IsNode(n)  BY <1>1, <1>3 DEF IsNode
<1>5. IsLinked(t)  BY <1>1, <1>2, <1>3, <1>4 DEF IsLinked
<1>6. QualsOf(n) = q  BY <1>1 DEF QualsOf
<1>7. w # LostWord => w \in Leaves  BY DEF PlainWords, Leaves
<1>8. CanCopy(t)  BY <1>2 DEF CanCopy
<1> QED  BY <1>1, <1>2, <1>5, <1>6, <1>7, <1>8 DEF IsDeclared, t

\* A type made of two words.
LEMMA PromotedConstIs ==
  ASSUME NEW t1, NEW t2, BothArithmetic(t1, t2)
  PROVE  LET o == PromotedConst(t1, t2)
             w == PromotedWord(word(t1), word(t2))
         IN /\ o.ends = "typed" /\ IsLinked(o.type) /\ Len(o.type) = 1 /\ o.type[1].type = w
            /\ word(o.type) = w /\ w \in ArithmeticWords \cup {LostWord}
            /\ "const" \in QualsOf(o.type[1])
<1> DEFINE w == PromotedWord(word(t1), word(t2))
           p == alloc_simple_type(w, {})
           c == Const(p)
<1>1. w \in ArithmeticWords \cup {LostWord}
  <2>1. w = FirstRank(word(t1), word(t2))  BY PromotedIs
  <2> QED
    BY <2>1 DEF FirstRank, ArithmeticWords, PlainWords, SignedWords, UnsignedWords, EnumConst,
                LostWord, IntegerWord, Base, Word, Lengths
<1>2. w \in PlainWords  BY <1>1 DEF ArithmeticWords, PlainWords
<1> HIDE DEF w
<1>3. IsLinked(p) /\ Len(p) = 1 /\ p[1].type = w /\ class(p) = "simple"
  BY <1>2, SimpleLinked
<1> HIDE DEF p
<1>4. IsLike(c, p) /\ "const" \in QualsOf(c[1])  BY <1>3, ConstIs
<1> HIDE DEF c
<1>5. IsLinked(c) /\ Len(c) = 1 /\ c[1].type = w
  BY <1>3, <1>4, LikeLinked DEF IsLike
<1>6. word(c) = w  BY <1>5, LinkedHead
<1>7. PromotedConst(t1, t2) = Typed(c)
  BY DEF PromotedConst, promotion, c, p, w
<1>8. Typed(c).ends = "typed" /\ Typed(c).type = c  BY DEF Typed
<1> QED  BY <1>1, <1>4, <1>5, <1>6, <1>7, <1>8 DEF w

\* ResultTypes, of two operands.
LEMMA ConvertedAsUsual ==
  ASSUME NEW t1, NEW t2, NEW op \in Converting, BothArithmetic(t1, t2),
         ~LongLongAndUnsignedLong(word(t1), word(t2))
  PROVE  \A end \in BinaryTypes(op, t1, t2) :
           end.ends = "typed" /\ NormalWord(word(end.type)) = Usual(word(t1), word(t2))
<1>1. BinaryTypes(op, t1, t2) = {PromotedConst(t1, t2)}
  BY DEF Converting, BinaryTypes, MultOps, BitOps, ShiftOps, Relations, LogicOps, Assignments,
         MultAssigns, AddAssigns, BitAssigns, ShiftAssigns, MultType, BitType, AddType, SubType,
         BothArithmetic
<1>2. word(t1) \in ArithmeticWords /\ word(t2) \in ArithmeticWords
  BY ArithmeticIs DEF BothArithmetic
<1>3. NormalWord(PromotedWord(word(t1), word(t2))) = Usual(word(t1), word(t2))
  BY <1>2, PromotionIsUsual
<1> DEFINE o == PromotedConst(t1, t2)
<1>4. o.ends = "typed" /\ word(o.type) = PromotedWord(word(t1), word(t2))
  BY PromotedConstIs
<1> HIDE DEF o
<1> QED  BY <1>1, <1>3, <1>4 DEF o

LEMMA CopiedIs ==
  ASSUME NEW t, IsLinked(t), Copied(t).ends = "typed"
  PROVE  IsLike(Copied(t).type, t) /\ CanCopy(t)
<1>1. Copied(t) = IF CanCopy(t) THEN Typed(copy(t)) ELSE Refused
  BY Zenon DEF Copied
<1>2. Refused.ends # "typed" /\ Typed(copy(t)).type = copy(t)
  BY DEF Refused, Typed
<1>3. CanCopy(t)  BY <1>1, <1>2
<1> QED  BY <1>1, <1>2, <1>3, CopyIs

LEMMA CopiedConstIs ==
  ASSUME NEW t, IsLinked(t), CopiedConst(t).ends = "typed"
  PROVE  /\ IsLike(CopiedConst(t).type, t) /\ CanCopy(t)
         /\ "const" \in QualsOf(CopiedConst(t).type[1])
<1>1. CopiedConst(t) = IF CanCopy(t) THEN Typed(Const(copy(t))) ELSE Refused
  BY Zenon DEF CopiedConst
<1>2. Refused.ends # "typed" /\ Typed(Const(copy(t))).type = Const(copy(t))
  BY DEF Refused, Typed
<1>3. CanCopy(t)  BY <1>1, <1>2
<1> DEFINE c == copy(t)
<1>4. IsLike(c, t) /\ class(c) = "simple"  BY <1>3, CopyIs
<1>5. IsLinked(c)  BY <1>4, LikeLinked
<1> HIDE DEF c
<1>6. IsLike(Const(c), c) /\ "const" \in QualsOf(Const(c)[1])  BY <1>4, <1>5, ConstIs
<1>7. IsLike(Const(c), t)  BY <1>4, <1>6, LikeAgain
<1> QED  BY <1>1, <1>2, <1>3, <1>6, <1>7 DEF c

\* A function has no copy.
LEMMA CopyIsNoFunction ==
  ASSUME NEW t, IsLinked(t), CanCopy(t)
  PROVE  t[1].type # Base("function")
BY LinkedHead DEF CanCopy, IsNode

-----------------------------------------------------------------------------
(* What is meant, with less of it.                                         *)

LEMMA AgreesOn ==
  ASSUME NEW t, NEW m, NEW r, Agrees(t, m), Agrees(m, r)
  PROVE  Agrees(t, r)
<1>1. /\ IsLinked(t) /\ IsLinked(m) /\ IsDeclared(r) /\ Len(t) = Len(m) /\ Len(m) = Len(r)
      /\ \A i \in DOMAIN t : t[i].type \in Links \cup Leaves \cup {LostWord}
      /\ \A i \in DOMAIN m : m[i].type \in Links \cup Leaves \cup {LostWord}
      /\ \A i \in DOMAIN r : r[i].type \in Links \cup Leaves
      /\ \A i \in DOMAIN t : i > 1 => SameNode(t[i], m[i])
      /\ \A i \in DOMAIN m : i > 1 => SameNode(m[i], r[i])
      /\ QualsOf(m[1]) \subseteq QualsOf(t[1]) /\ QualsOf(r[1]) \subseteq QualsOf(m[1])
      /\ \/ ShapeOf(t[1]) = ShapeOf(m[1])
         \/ t[1].type = Base("array") /\ m[1].type = Base("pointer")
      /\ \/ ShapeOf(m[1]) = ShapeOf(r[1])
         \/ m[1].type = Base("array") /\ r[1].type = Base("pointer")
  BY DEF Agrees, IsDeclared
<1>2. DOMAIN t = DOMAIN m /\ DOMAIN m = DOMAIN r /\ 1 \in DOMAIN t
  BY <1>1, LinkedHead DEF IsDeclared
<1>3. /\ t[1].type \in PlainWords \cup NamedWords /\ m[1].type \in PlainWords \cup NamedWords
      /\ r[1].type \in PlainWords \cup NamedWords
  BY <1>1, <1>2, LinksAre
<1>4. Base("pointer") \in NamedWords /\ Base("array") \in NamedWords
  BY DEF NamedWords, Links
<1>5. \/ ShapeOf(t[1]) = ShapeOf(r[1])
      \/ t[1].type = Base("array") /\ r[1].type = Base("pointer")
  <2>1. CASE ShapeOf(t[1]) = ShapeOf(m[1]) /\ ShapeOf(m[1]) = ShapeOf(r[1])
    BY <2>1
  <2>2. CASE ShapeOf(t[1]) = ShapeOf(m[1]) /\ m[1].type = Base("array") /\ r[1].type = Base("pointer")
    BY <1>3, <1>4, <2>2, ShapesTell
  <2>3. CASE t[1].type = Base("array") /\ m[1].type = Base("pointer") /\ ShapeOf(m[1]) = ShapeOf(r[1])
    BY <1>3, <1>4, <2>3, ShapesTell
  <2> QED  BY <1>1, <2>1, <2>2, <2>3, LinksAre
<1>6. \A i \in DOMAIN t : i > 1 => SameNode(t[i], r[i])
  BY <1>1, <1>2 DEF SameNode
<1> QED  BY <1>1, <1>5, <1>6 DEF Agrees

\* Nodes of m without some of their qualifiers.
LEMMA LessAgrees ==
  ASSUME NEW m, IsDeclared(m), NEW r, IsChain(r), Len(r) = Len(m),
         IsNode(r[1]), r[1].type = m[1].type, SameNode(m[1], r[1]),
         \A i \in DOMAIN m : i > 1 => r[i] = m[i]
  PROVE  Agrees(m, r)
<1>1. /\ IsLinked(m) /\ \A i \in DOMAIN m : m[i].type \in Links \cup Leaves
  BY DEF IsDeclared
<1>2. /\ Len(m) \in Nat \ {0} /\ DOMAIN m = 1..Len(m) /\ 1 \in DOMAIN m
      /\ \A i \in DOMAIN m : IsNode(m[i]) /\ (m[i].type \in Links <=> i < Len(m))
  BY <1>1, LinkedHead DEF IsLinked
<1>3. IsType(r) /\ DOMAIN r = 1..Len(m)  BY <1>2, ChainDomain DEF IsType, NoType
<1>4. ASSUME NEW i \in DOMAIN r
      PROVE  IsNode(r[i]) /\ r[i].type = m[i].type
  <2>1. CASE i = 1  BY <2>1
  <2>2. CASE i # 1
    <3>1. i > 1 /\ i \in DOMAIN m  BY <1>2, <1>3, <2>2
    <3> QED  BY <1>2, <3>1
  <2> QED  BY <2>1, <2>2
<1>5. IsDeclared(r)
  BY <1>1, <1>2, <1>3, <1>4 DEF IsDeclared, IsLinked
<1>6. \A i \in DOMAIN m : i > 1 => SameNode(m[i], r[i])
  BY DEF SameNode
<1> QED  BY <1>1, <1>5, <1>6 DEF Agrees, SameNode

LEMMA UnqualifiedAgrees ==
  ASSUME NEW m, IsDeclared(m), tags["s"].quals = {}
  PROVE  Agrees(m, Unqualified(m)) /\ QualsOf(Unqualified(m)[1]) = {}
<1>1. IsLinked(m) /\ class(m) = m[1].class /\ IsNode(m[1])
  BY LinkedHead DEF IsDeclared
<1>2. CASE m[1].class = "tag"
  <2>1. Unqualified(m) = m  BY <1>1, <1>2 DEF Unqualified
  <2>2. Agrees(m, m)  BY SelfAgrees DEF Exactly
  <2>3. QualsOf(m[1]) = {}  BY <1>1, <1>2 DEF IsNode, QualsOf
  <2> QED  BY <2>1, <2>2, <2>3
<1>3. CASE m[1].class # "tag"
  <2> DEFINE c == [m EXCEPT ![1].quals = {}]
  <2>1. /\ IsChain(c) /\ Len(c) = Len(m) /\ IsNode(c[1]) /\ c[1].type = m[1].type
        /\ ShapeOf(c[1]) = ShapeOf(m[1]) /\ QualsOf(c[1]) = {}
        /\ \A i \in DOMAIN m : i > 1 => c[i] = m[i]
    BY <1>1, <1>3, NewHead
  <2>2. Unqualified(m) = c  BY <1>1, <1>3 DEF Unqualified
  <2> HIDE DEF c
  <2> QED  BY <2>1, <2>2, LessAgrees DEF SameNode
<1> QED  BY <1>2, <1>3

\* Its own qualifiers add nothing to a type.
LEMMA WithOwnQuals ==
  ASSUME NEW m, IsDeclared(m)
  PROVE  Exactly(m, WithQuals(m, Quals(m)))
<1>1. IsLinked(m) /\ class(m) = m[1].class /\ IsNode(m[1]) /\ Quals(m) = QualsOf(m[1])
  BY LinkedHead DEF IsDeclared
<1>2. CASE m[1].class = "tag"
  <2>1. WithQuals(m, Quals(m)) = m  BY <1>1, <1>2 DEF WithQuals
  <2> QED  BY <2>1, SelfAgrees
<1>3. CASE m[1].class # "tag"
  <2> DEFINE q == m[1].quals \cup Quals(m)
             c == [m EXCEPT ![1].quals = q]
  <2>1. /\ IsChain(c) /\ Len(c) = Len(m) /\ IsNode(c[1]) /\ c[1].type = m[1].type
        /\ ShapeOf(c[1]) = ShapeOf(m[1]) /\ QualsOf(c[1]) = q /\ QualsOf(m[1]) = m[1].quals
        /\ \A i \in DOMAIN m : i > 1 => c[i] = m[i]
    BY <1>1, <1>3, NewHead
  <2>2. WithQuals(m, Quals(m)) = c  BY <1>1, <1>3 DEF WithQuals
  <2>3. q \subseteq QualsOf(m[1])  BY <1>1, <2>1
  <2> HIDE DEF c, q
  <2> QED  BY <2>1, <2>2, <2>3, LessAgrees DEF SameNode, Exactly
<1> QED  BY <1>2, <1>3

LEMMA ArrayMeant ==
  ASSUME NEW m, IsDeclared(m), m[1].type \in {Base("pointer"), Base("array")}
  PROVE  Agrees(m, alloc_pointer_type({}, WithQuals(to(m), Quals(to(m)))))
<1> DEFINE r == to(m)
           e == WithQuals(r, Quals(r))
           p == alloc_pointer_type({}, r)
           s == alloc_pointer_type({}, e)
<1>1. m[1].type \in Links  BY DEF Links
<1>2. IsDeclared(r) /\ IsLinked(m)  BY <1>1, DeclaredTail DEF IsDeclared
<1>3. /\ IsLinked(r) /\ Len(r) = Len(m) - 1
      /\ \A i \in DOMAIN r : i + 1 \in DOMAIN m /\ i + 1 > 1 /\ r[i] = m[i + 1]
  BY <1>1, <1>2, LinkedTail
<1> HIDE DEF r
<1>4. Exactly(r, e)  BY <1>2, WithOwnQuals
<1> HIDE DEF e
<1>5. Exactly(p, s)  BY <1>4, PointerAgrees
<1>6. /\ IsLinked(p) /\ Len(p) = 1 + Len(r) /\ p[1].type = Base("pointer") /\ QualsOf(p[1]) = {}
      /\ \A i \in DOMAIN r : p[i + 1] = r[i]
  BY <1>3, PointerIs
<1> HIDE DEF p, s
<1>7. /\ DOMAIN m = 1..Len(m) /\ Len(m) \in Nat \ {0} /\ DOMAIN p = 1..Len(p)
      /\ DOMAIN r = 1..Len(r)
      /\ \A i \in DOMAIN m : m[i].type \in Links \cup Leaves
  BY <1>2, <1>3, <1>6, LinkedHead DEF IsDeclared
<1>8. ASSUME NEW i \in DOMAIN m, i > 1 PROVE p[i] = m[i]
  <2>1. i - 1 \in DOMAIN r /\ (i - 1) + 1 = i  BY <1>3, <1>7, <1>8
  <2> QED  BY <1>3, <1>6, <2>1
<1>9. Len(p) = Len(m)  BY <1>3, <1>6, <1>7
<1>10. IsDeclared(p)
  <2>1. ASSUME NEW i \in DOMAIN p PROVE p[i].type \in Links \cup Leaves
    <3>1. CASE i = 1  BY <1>6, <3>1 DEF Links
    <3>2. CASE i # 1
      <4>1. i \in DOMAIN m /\ i > 1  BY <1>7, <1>9, <3>2
      <4> QED  BY <1>7, <1>8, <4>1
    <3> QED  BY <3>1, <3>2
  <2> QED  BY <1>6, <2>1 DEF IsDeclared
<1>11. \/ ShapeOf(m[1]) = ShapeOf(p[1])
       \/ m[1].type = Base("array") /\ p[1].type = Base("pointer")
  <2>1. CASE m[1].type = Base("pointer")
    <3>1. ShapeOf(m[1]) = <<m[1].type>> /\ ShapeOf(p[1]) = <<p[1].type>>
      BY <1>6, PointerShape
    <3> QED  BY <1>6, <2>1, <3>1
  <2>2. CASE m[1].type = Base("array")  BY <1>6, <2>2
  <2> QED  BY <2>1, <2>2
<1>12. Agrees(m, p)
  BY <1>2, <1>6, <1>7, <1>8, <1>9, <1>10, <1>11 DEF Agrees, SameNode
<1>13. Agrees(m, s)  BY <1>5, <1>12, AgreesOn DEF Exactly
<1> QED  BY <1>13 DEF s, e, r

-----------------------------------------------------------------------------
(* The types of results (ey_expr_calc_type).                               *)

LEMMA AgreeingWords ==
  ASSUME NEW t, NEW m, Agrees(t, m)
  PROVE  /\ t[1].type \in PlainWords \cup NamedWords /\ m[1].type \in PlainWords \cup NamedWords
         /\ word(t) = t[1].type /\ word(m) = m[1].type /\ m[1].type # LostWord
         /\ t[1].type \in PlainWords =>
              /\ Len(t) = 1 /\ m[1].type \in PlainWords /\ ShapeOf(t[1]) = ShapeOf(m[1])
              /\ NormalWord(t[1].type) = NormalWord(m[1].type)
         /\ m[1].type \in PlainWords => t[1].type \in PlainWords
         /\ t[1].type \notin {Base("array"), Base("pointer")} \cup PlainWords => t[1].type = m[1].type
         /\ t[1].type \in {Base("array"), Base("pointer")} <=>
              m[1].type \in {Base("array"), Base("pointer")}
         /\ t[1].type = Base("pointer") => m[1].type = Base("pointer")
<1>1. /\ IsLinked(t) /\ IsLinked(m) /\ Len(t) = Len(m)
      /\ \A i \in DOMAIN t : t[i].type \in Links \cup Leaves \cup {LostWord}
      /\ \A i \in DOMAIN m : m[i].type \in Links \cup Leaves
      /\ \/ ShapeOf(t[1]) = ShapeOf(m[1])
         \/ t[1].type = Base("array") /\ m[1].type = Base("pointer")
  BY DEF Agrees, IsDeclared
<1>2. /\ 1 \in DOMAIN t /\ 1 \in DOMAIN m /\ word(t) = t[1].type /\ word(m) = m[1].type
      /\ (t[1].type \in Links <=> Len(t) > 1) /\ Len(t) \in Nat \ {0}
  BY <1>1, LinkedHead
<1>3. /\ t[1].type \in PlainWords \cup NamedWords /\ m[1].type \in PlainWords \cup NamedWords
      /\ m[1].type # LostWord
  BY <1>1, <1>2, LinksAre
<1>4. /\ Base("pointer") \in NamedWords /\ Base("array") \in NamedWords
      /\ Base("pointer") # Base("array")
  BY LinksAre DEF NamedWords, Links
<1>5. \A w \in NamedWords : w \notin PlainWords  BY NamedIs
<1>6. t[1].type \in PlainWords => Len(t) = 1
  <2> SUFFICES ASSUME t[1].type \in PlainWords PROVE Len(t) = 1
    OBVIOUS
  <2>1. t[1].type \notin Links  BY <1>5 DEF NamedWords
  <2>2. ~(Len(t) > 1) /\ Len(t) \in Nat \ {0}  BY <1>2, <2>1
  <2> QED  BY <2>2
<1>7. CASE ShapeOf(t[1]) = ShapeOf(m[1])
  <2>1. /\ t[1].type \in NamedWords \/ m[1].type \in NamedWords => t[1].type = m[1].type
        /\ t[1].type \in PlainWords =>
             m[1].type \in PlainWords /\ NormalWord(t[1].type) = NormalWord(m[1].type)
    BY <1>3, <1>7, ShapesTell
  <2> QED  BY <1>2, <1>3, <1>4, <1>5, <1>6, <1>7, <2>1
<1>8. CASE t[1].type = Base("array") /\ m[1].type = Base("pointer")
  BY <1>2, <1>3, <1>4, <1>5, <1>6, <1>8
<1> QED  BY <1>1, <1>7, <1>8

\* Indirection and indexing: the object itself.
LEMMA DerefAgrees ==
  ASSUME NEW t, NEW m, Agrees(t, m), is_pointer_array(word(t)), Copied(to(t)).ends = "typed"
  PROVE  is_pointer_array(word(m)) /\ Exactly(Copied(to(t)).type, to(m))
<1>1. /\ t[1].type \in {Base("pointer"), Base("array")}
      /\ word(m) \in {Base("pointer"), Base("array")}
  BY AgreeingWords DEF is_pointer_array
<1>2. t[1].type \in Links  BY <1>1 DEF Links
<1>3. Exactly(to(t), to(m))  BY <1>2, TailAgrees
<1>4. IsLinked(to(t))  BY <1>3 DEF Exactly, Agrees
<1> DEFINE r == to(t)
           c == Copied(r).type
<1>5. IsLike(c, r)  BY <1>4, CopiedIs
<1> HIDE DEF r, c
<1>6. Exactly(r, to(m))  BY <1>3 DEF r
<1>7. Exactly(c, to(m))  BY <1>5, <1>6, LikeAgrees DEF Exactly
<1> QED  BY <1>1, <1>7 DEF is_pointer_array, c, r

LEMMA ConstAgrees ==
  ASSUME NEW t, NEW m, Agrees(t, m), CopiedConst(t).ends = "typed"
  PROVE  /\ Agrees(CopiedConst(t).type, m)
         /\ Exactly(t, m) => Exactly(CopiedConst(t).type, m)
<1>1. IsLinked(t)  BY DEF Agrees
<1>2. IsLike(CopiedConst(t).type, t)  BY <1>1, CopiedConstIs
<1> QED  BY <1>2, LikeAgrees

\* An assignment has the value of its right operand in the type of its left one.
LEMMA AssignAgrees ==
  ASSUME NEW t, NEW m, Agrees(t, m), CopiedConst(t).ends = "typed", NEW r, IsDeclared(r),
         Shape(r) = Shape(m), ~DiffersInKind(r, m), tags["s"].quals = {}
  PROVE  Agrees(CopiedConst(t).type, Unqualified(r))
<1>1. /\ IsLinked(t) /\ IsDeclared(m) /\ IsLinked(m) /\ IsLinked(r) /\ Len(t) = Len(m)
      /\ \A i \in DOMAIN t : i > 1 => SameNode(t[i], m[i])
  BY DEF Agrees, IsDeclared
<1>2. /\ DOMAIN t = 1..Len(t) /\ DOMAIN m = 1..Len(t) /\ Len(t) \in Nat \ {0}
      /\ DOMAIN r = 1..Len(r) /\ Len(r) \in Nat \ {0}
  BY <1>1, LinkedHead
<1>3. DOMAIN r = DOMAIN m /\ \A i \in DOMAIN r : ShapeOf(r[i]) = ShapeOf(m[i])
  <2>1. DOMAIN Shape(r) = DOMAIN r /\ DOMAIN Shape(m) = DOMAIN m  BY DEF Shape
  <2>2. \A i \in DOMAIN r : Shape(r)[i] = ShapeOf(r[i])  BY DEF Shape
  <2>3. \A i \in DOMAIN m : Shape(m)[i] = ShapeOf(m[i])  BY DEF Shape
  <2> QED  BY <2>1, <2>2, <2>3
<1>4. Len(r) = Len(m)
  <2>1. 1..Len(r) = 1..Len(m) /\ Len(r) \in Nat \ {0} /\ Len(m) \in Nat \ {0}
    BY <1>1, <1>2, <1>3
  <2>2. Len(r) \in 1..Len(m) /\ Len(m) \in 1..Len(r)  BY <2>1
  <2> QED  BY <2>1, <2>2
<1>5. /\ r[1].type \in PlainWords \cup NamedWords /\ m[1].type \in PlainWords \cup NamedWords
      /\ word(r) = r[1].type
  BY <1>1, <1>2, <1>3, LinksAre, LinkedHead DEF IsDeclared
<1>6. ShapeOf(r[1]) = ShapeOf(m[1])  BY <1>2, <1>3
<1> DEFINE c == CopiedConst(t).type
           u == Unqualified(r)
<1>7. /\ IsLike(c, t) /\ CanCopy(t)  BY <1>1, CopiedConstIs
<1>8. Agrees(c, m)  BY ConstAgrees
<1>9. Agrees(r, u) /\ QualsOf(u[1]) = {}  BY UnqualifiedAgrees
<1> HIDE DEF c, u
<1>10. ASSUME NEW i \in DOMAIN r, i > 1 PROVE r[i] = m[i]
  <2>1. r[1].type \in Links  BY <1>1, <1>2, <1>10, LinkedHead
  <2>2. r[1].type \in NamedWords  BY <2>1 DEF NamedWords
  <2>3. r[1].type = m[1].type  BY <1>5, <1>6, <2>2, ShapesTell
  <2>4. r[1].type # Base("function")
    <3>1. t[1].type # Base("function")  BY <1>1, <1>7, CopyIsNoFunction
    <3>2. t[1].type = m[1].type \/ m[1].type = Base("pointer")
      <4>1. ShapeOf(t[1]) = ShapeOf(m[1]) \/ m[1].type = Base("pointer")  BY DEF Agrees
      <4>2. CASE ShapeOf(t[1]) = ShapeOf(m[1])
        <5>1. t[1].type \in PlainWords \cup NamedWords  BY AgreeingWords
        <5> QED  BY <1>5, <2>2, <2>3, <4>2, <5>1, ShapesTell
      <4> QED  BY <4>1, <4>2
    <3> QED  BY <2>3, <3>1, <3>2, LinksAre
  <2>5. r[1].type \in {Base("pointer"), Base("array")}  BY <2>1, <2>4 DEF Links
  <2>6. word(Decayed(r)) = Base("pointer")
    <3>1. IsLinked(Decayed(r)) /\ Decayed(r)[1].type = Base("pointer")  BY <1>1, <2>5, DecayedIs
    <3> QED  BY <3>1, LinkedHead
  <2>7. to(Decayed(r)) = to(Decayed(m))  BY <2>6 DEF DiffersInKind, is_pointer
  <2>8. to(Decayed(r)) = to(r) /\ to(Decayed(m)) = to(m)
    BY <1>1, <2>3, <2>5, DecayedIs
  <2>9. /\ \A j \in DOMAIN to(r) : to(r)[j] = r[j + 1]
        /\ \A j \in DOMAIN to(m) : to(m)[j] = m[j + 1]
        /\ Len(to(r)) = Len(r) - 1 /\ IsLinked(to(r))
    BY <1>1, <2>1, <2>3, LinkedTail
  <2>10. i - 1 \in DOMAIN to(r) /\ (i - 1) + 1 = i
    BY <1>2, <1>10, <2>9, LinkedHead
  <2> QED  BY <2>7, <2>8, <2>9, <2>10
<1>11. IsDeclared(u) /\ Len(u) = Len(r)
  BY <1>9 DEF Agrees
<1>12. /\ IsLinked(c) /\ Len(c) = Len(m) /\ DOMAIN c = DOMAIN m
       /\ \A i \in DOMAIN c : c[i].type \in Links \cup Leaves \cup {LostWord}
       /\ \A i \in DOMAIN c : i > 1 => SameNode(c[i], m[i])
       /\ \/ ShapeOf(c[1]) = ShapeOf(m[1])
          \/ c[1].type = Base("array") /\ m[1].type = Base("pointer")
  BY <1>1, <1>8, LinkedHead DEF Agrees
<1>13. ASSUME NEW i \in DOMAIN c, i > 1 PROVE SameNode(c[i], u[i])
  <2>1. SameNode(r[i], u[i]) /\ r[i] = m[i] /\ SameNode(c[i], m[i])
    BY <1>3, <1>9, <1>10, <1>12, <1>13 DEF Agrees
  <2> QED  BY <2>1 DEF SameNode
<1>14. \/ ShapeOf(c[1]) = ShapeOf(u[1])
       \/ c[1].type = Base("array") /\ u[1].type = Base("pointer")
  <2>1. ShapeOf(r[1]) = ShapeOf(u[1])
    <3>1. IsNode(r[1]) /\ class(r) = r[1].class  BY <1>1, LinkedHead
    <3>2. CASE r[1].class = "tag"  BY <3>1, <3>2 DEF Unqualified, u
    <3>3. CASE r[1].class # "tag"
      <4>1. u = [r EXCEPT ![1].quals = {}]  BY <3>1, <3>3 DEF Unqualified, u
      <4> QED  BY <1>1, <3>3, <4>1, NewHead
    <3> QED  BY <3>2, <3>3
  <2>2. CASE ShapeOf(c[1]) = ShapeOf(m[1])  BY <1>6, <2>1, <2>2
  <2>3. CASE c[1].type = Base("array") /\ m[1].type = Base("pointer")
    <3>1. ShapeOf(m[1]) = ShapeOf(u[1])  BY <1>6, <2>1
    <3>2. u[1].type \in PlainWords \cup NamedWords
      BY <1>9, AgreeingWords
    <3>3. m[1].type \in NamedWords  BY <2>3 DEF NamedWords, Links
    <3>4. m[1].type = u[1].type  BY <1>5, <3>1, <3>2, <3>3, ShapesTell
    <3> QED  BY <2>3, <3>4
  <2> QED  BY <1>12, <2>2, <2>3
<1>15. Agrees(c, u)
  BY <1>4, <1>9, <1>11, <1>12, <1>13, <1>14 DEF Agrees
<1> QED  BY <1>15 DEF c, u

-----------------------------------------------------------------------------
(* The branches of a conditional.                                          *)

IntWords == {EnumConst, IntegerWord("signed", "none")}

LEMMA NormalSame ==
  ASSUME NEW v \in ArithmeticWords, NEW w \in PlainWords, w # LostWord,
         NormalWord(v) = NormalWord(w)
  PROVE  w \in ArithmeticWords /\ (v = w \/ (v \in IntWords /\ w \in IntWords))
<1>1. v \in PlainWords /\ v # LostWord /\ v # Base("void")
  BY DEF ArithmeticWords
<1>2. Base("void") # EnumConst /\ Base("void") # LostWord /\ Base("void") # IntegerWord("signed", "none")
  BY DEF Base, Word, EnumConst, LostWord, IntegerWord
<1>3. /\ v # EnumConst => NormalWord(v) = v
      /\ w # EnumConst => NormalWord(w) = w
      /\ NormalWord(EnumConst) = IntegerWord("signed", "none")
  BY <1>1, PlainIs
<1>4. v = w \/ (v \in IntWords /\ w \in IntWords)
  BY <1>3 DEF IntWords
<1>5. w # Base("void")  BY <1>1, <1>2, <1>4 DEF IntWords
<1> QED  BY <1>4, <1>5 DEF ArithmeticWords

\* The conversions do not tell a constant of an enumeration from an int.
LEMMA UsualSame ==
  ASSUME NEW v \in ArithmeticWords, NEW w \in ArithmeticWords,
         NEW x \in ArithmeticWords, NEW y \in ArithmeticWords,
         NormalWord(v) = NormalWord(x), NormalWord(w) = NormalWord(y)
  PROVE  /\ Usual(v, w) = Usual(x, y)
         /\ LongLongAndUnsignedLong(v, w) => LongLongAndUnsignedLong(x, y)
<1>1. /\ v = x \/ (v \in IntWords /\ x \in IntWords)
      /\ w = y \/ (w \in IntWords /\ y \in IntWords)
  <2>1. \A z \in ArithmeticWords : z \in PlainWords /\ z # LostWord  BY DEF ArithmeticWords
  <2> QED  BY <2>1, NormalSame
<1>2. \A z \in IntWords : AtLeastInt(z) = IntegerWord("signed", "none")
  BY DEF IntWords, AtLeastInt, EnumConst, IntegerWord, Word, Base, Rank
<1>3. \A z \in IntWords : /\ z # Base("double") /\ z # Base("float")
                          /\ z # IntegerWord("signed", "long_long")
                          /\ z # IntegerWord("unsigned", "long")
  BY DEF IntWords, EnumConst, IntegerWord, Word, Base
<1>4. AtLeastInt(v) = AtLeastInt(x) /\ AtLeastInt(w) = AtLeastInt(y)  BY <1>1, <1>2
<1>5. /\ Base("double") \in {v, w} <=> Base("double") \in {x, y}
      /\ Base("float") \in {v, w} <=> Base("float") \in {x, y}
  BY <1>1, <1>3
<1>6. Usual(v, w) = Usual(x, y)
  <2>1. ASSUME NEW a, NEW b
        PROVE  Usual(a, b) = IF Base("double") \in {a, b} THEN Base("double")
                             ELSE IF Base("float") \in {a, b} THEN Base("float")
                             ELSE WideUsual(AtLeastInt(a), AtLeastInt(b))
    BY Zenon DEF Usual, WideUsual
  <2> QED  BY <1>4, <1>5, <2>1
<1>7. LongLongAndUnsignedLong(v, w) => LongLongAndUnsignedLong(x, y)
  BY <1>1, <1>3 DEF LongLongAndUnsignedLong
<1> QED  BY <1>6, <1>7

LEMMA WideOfTwo ==
  ASSUME NEW x \in WideWords, NEW y \in WideWords
  PROVE  WideUsual(x, y) \in WideWords
<1>1. \A w \in WideWords : IntegerWord("unsigned", w.length) \in WideWords
  BY DEF WideWords, IntegerWord, Word
<1>2. WideUsual(x, y) \in {x, y, IntegerWord("unsigned", x.length), IntegerWord("unsigned", y.length)}
  BY DEF WideUsual
<1> QED  BY <1>1, <1>2

LEMMA UsualIs ==
  ASSUME NEW v \in ArithmeticWords, NEW w \in ArithmeticWords
  PROVE  Usual(v, w) \in ArithmeticWords \ {EnumConst} /\ NormalWord(Usual(v, w)) = Usual(v, w)
<1>1. /\ WideWords \subseteq ArithmeticWords \ {EnumConst}
      /\ Base("double") \in ArithmeticWords \ {EnumConst}
      /\ Base("float") \in ArithmeticWords \ {EnumConst}
  BY DEF WideWords, ArithmeticWords, PlainWords, SignedWords, UnsignedWords, EnumConst, LostWord,
         IntegerWord, Base, Word, Lengths
<1>2. Usual(v, w) \in ArithmeticWords \ {EnumConst}
  <2>1. CASE {v, w} \cap {Base("double"), Base("float")} # {}
    <3>1. Usual(v, w) \in {Base("double"), Base("float")}  BY <2>1 DEF Usual
    <3> QED  BY <1>1, <3>1
  <2>2. CASE {v, w} \cap {Base("double"), Base("float")} = {}
    <3> DEFINE x == AtLeastInt(v)
               y == AtLeastInt(w)
    <3>1. /\ v \notin {Base("double"), Base("float")} /\ w \notin {Base("double"), Base("float")}
      BY <2>2
    <3>2. x \in WideWords /\ y \in WideWords  BY <3>1, WideIs
    <3>3. Usual(v, w) = WideUsual(x, y)  BY <3>1, Zenon DEF Usual, WideUsual
    <3> HIDE DEF x, y
    <3> QED  BY <1>1, <3>2, <3>3, WideOfTwo
  <2> QED  BY <2>1, <2>2
<1>3. Usual(v, w) \in PlainWords /\ Usual(v, w) # LostWord /\ Usual(v, w) # EnumConst
  BY <1>2 DEF ArithmeticWords
<1> QED  BY <1>2, <1>3, PlainIs

\* Of two arithmetic operands: a type whose only word stands for the common type.
LEMMA CommonAgrees ==
  ASSUME NEW c, IsLinked(c), Len(c) = 1, c[1].type \in ArithmeticWords \cup {LostWord},
         NEW w \in ArithmeticWords \ {EnumConst}, NormalWord(w) = w, NormalWord(c[1].type) = w
  PROVE  Exactly(c, alloc_simple_type(w, {}))
<1> DEFINE r == alloc_simple_type(w, {})
<1>1. c[1].type \in PlainWords /\ w \in PlainWords /\ w # LostWord
  BY LinksAre DEF ArithmeticWords, PlainWords
<1>2. IsDeclared(r) /\ Len(r) = 1 /\ r[1].type = w /\ QualsOf(r[1]) = {}
  BY <1>1, SimpleLinked
<1> HIDE DEF r
<1>3. ShapeOf(c[1]) = <<NormalWord(c[1].type)>> /\ ShapeOf(r[1]) = <<NormalWord(r[1].type)>>
  BY <1>1, <1>2, ShapeFirst
<1>4. ShapeOf(c[1]) = ShapeOf(r[1])  BY <1>2, <1>3
<1>5. DOMAIN c = 1..1  BY LinkedHead
<1>6. \A i \in DOMAIN c : c[i].type \in Links \cup Leaves \cup {LostWord} /\ ~(i > 1)
  BY <1>1, <1>5, LinksAre
<1>7. Exactly(c, r)  BY <1>2, <1>4, <1>6 DEF Exactly, Agrees
<1> QED  BY <1>7 DEF r

\* An arithmetic operand is meant to be one.
LEMMA ArithmeticAgrees ==
  ASSUME NEW t, NEW m, Agrees(t, m), is_arithmetic(word(t))
  PROVE  /\ word(t) \in ArithmeticWords /\ word(m) \in ArithmeticWords
         /\ NormalWord(word(t)) = NormalWord(word(m))
<1>1. word(t) \in ArithmeticWords /\ word(t) \in PlainWords
  BY ArithmeticIs DEF ArithmeticWords
<1>2. /\ word(m) \in PlainWords /\ word(m) # LostWord
      /\ NormalWord(word(t)) = NormalWord(word(m))
  BY <1>1, AgreeingWords
<1> QED  BY <1>1, <1>2, NormalSame

LEMMA ArithmeticCondition ==
  ASSUME NEW ta, NEW ma, NEW tb, NEW mb, Agrees(ta, ma), Agrees(tb, mb), BothArithmetic(ta, tb),
         ~LongLongAndUnsignedLong(word(ma), word(mb))
  PROVE  Exactly(PromotedConst(ta, tb).type, MeantPair(ma, mb))
<1> DEFINE c == PromotedConst(ta, tb).type
           w == Usual(word(ta), word(tb))
<1>1. /\ word(ta) \in ArithmeticWords /\ word(ma) \in ArithmeticWords
      /\ NormalWord(word(ta)) = NormalWord(word(ma))
      /\ word(tb) \in ArithmeticWords /\ word(mb) \in ArithmeticWords
      /\ NormalWord(word(tb)) = NormalWord(word(mb))
  BY ArithmeticAgrees DEF BothArithmetic
<1>2. w = Usual(word(ma), word(mb)) /\ ~LongLongAndUnsignedLong(word(ta), word(tb))
  BY <1>1, UsualSame
<1>3. /\ IsLinked(c) /\ Len(c) = 1 /\ c[1].type = PromotedWord(word(ta), word(tb))
      /\ PromotedWord(word(ta), word(tb)) \in ArithmeticWords \cup {LostWord}
  BY PromotedConstIs
<1>4. NormalWord(PromotedWord(word(ta), word(tb))) = w
  BY <1>1, <1>2, PromotionIsUsual
<1>5. w \in ArithmeticWords \ {EnumConst} /\ NormalWord(w) = w
  BY <1>1, UsualIs
<1>6. BothArithmetic(ma, mb)  BY <1>1, ArithmeticIs DEF BothArithmetic
<1>7. MeantPair(ma, mb) = alloc_simple_type(w, {})
  BY <1>2, <1>6 DEF MeantPair
<1> HIDE DEF c, w
<1>8. Exactly(c, alloc_simple_type(w, {}))  BY <1>3, <1>4, <1>5, CommonAgrees
<1> QED  BY <1>7, <1>8 DEF c

LEMMA VoidCondition ==
  ASSUME NEW ta, NEW ma, NEW mb, Agrees(ta, ma), is_void(word(ta)), tags["s"].quals = {},
         CopiedConst(void_type).ends = "typed"
  PROVE  Agrees(CopiedConst(void_type).type, MeantPair(ma, mb))
<1> DEFINE v == Base("void")
           u == Unqualified(ma)
<1>1. v \in PlainWords /\ v # EnumConst /\ v # LostWord /\ v # IntegerWord("signed", "none")
      /\ v \notin ArithmeticWords /\ v # Base("pointer") /\ v # Base("array")
  BY LinksAre DEF Base, Word, EnumConst, LostWord, IntegerWord, ArithmeticWords
<1> HIDE DEF v
<1>2. word(ta) = v  BY DEF is_void, v
<1>3. /\ word(ta) = ta[1].type /\ word(ma) = ma[1].type /\ ma[1].type # LostWord
      /\ Len(ta) = 1 /\ ma[1].type \in PlainWords /\ ShapeOf(ta[1]) = ShapeOf(ma[1])
      /\ NormalWord(ta[1].type) = NormalWord(ma[1].type)
      /\ IsDeclared(ma) /\ IsLinked(ma) /\ Len(ma) = 1
  BY <1>1, <1>2, AgreeingWords DEF Agrees, IsDeclared
<1>4. word(ma) = v  BY <1>1, <1>2, <1>3, PlainIs
<1>5. MeantPair(ma, mb) = u
  <2>1. ~BothArithmetic(ma, mb)  BY <1>1, <1>4, ArithmeticIs DEF BothArithmetic
  <2>2. Decayed(ma) = ma  BY <1>1, <1>4 DEF Decayed, v
  <2>3. ~is_pointer(word(Decayed(ma)))  BY <1>1, <1>4, <2>2 DEF is_pointer
  <2> QED  BY <2>1, <2>3, Zenon DEF MeantPair
<1>6. Agrees(ma, u) /\ QualsOf(u[1]) = {}  BY <1>3, UnqualifiedAgrees
<1>7. IsDeclared(u) /\ Len(u) = 1  BY <1>3, <1>6 DEF Agrees
<1>8. ShapeOf(u[1]) = ShapeOf(ma[1])  BY <1>1, <1>3, <1>4, <1>6 DEF Agrees
<1> HIDE DEF u
<1> DEFINE s == alloc_simple_type(v, {})
<1>9. IsLinked(s) /\ Len(s) = 1 /\ s[1].type = v /\ IsDeclared(s)
  BY <1>1, SimpleLinked
<1>10. void_type = s  BY DEF void_type, v
<1> HIDE DEF s
<1>11. ShapeOf(s[1]) = <<NormalWord(v)>> /\ ShapeOf(ma[1]) = <<NormalWord(v)>>
  BY <1>1, <1>3, <1>4, <1>9, ShapeFirst
<1>12. DOMAIN s = 1..1  BY <1>9, LinkedHead
<1>13. \A i \in DOMAIN s : ~(i > 1)  BY <1>12
<1>14. \A i \in DOMAIN s : s[i].type \in Links \cup Leaves \cup {LostWord}
  BY <1>9 DEF IsDeclared
<1>15. Agrees(s, u)
  BY <1>6, <1>7, <1>8, <1>9, <1>11, <1>13, <1>14 DEF Agrees
<1> DEFINE c == CopiedConst(s)
<1>16. c.ends = "typed"  BY <1>10
<1>17. Agrees(c.type, u)  BY <1>15, <1>16, ConstAgrees
<1> HIDE DEF c
<1> QED  BY <1>5, <1>10, <1>17 DEF c

LEMMA PlainLong ==
  ASSUME NEW w \in PlainWords, w # LostWord, NormalWord(w) = NormalWord(LostWord)
  PROVE  w = IntegerWord("signed", "long_long") /\ Usual(w, w) = w /\ NormalWord(w) = w
         /\ w \in ArithmeticWords \ {EnumConst}
<1>1. w = IntegerWord("signed", "long_long")
  <2>1. IntegerWord("signed", "long_long") # IntegerWord("signed", "none")
    BY DEF IntegerWord, Word
  <2> QED  BY <2>1, PlainIs
<1>2. /\ w # EnumConst /\ w # Base("void") /\ w # Base("double") /\ w # Base("float")
      /\ AtLeastInt(w) = w
  BY <1>1 DEF IntegerWord, Word, Base, EnumConst, AtLeastInt, Rank
<1>3. w \in ArithmeticWords \ {EnumConst}  BY <1>2 DEF ArithmeticWords
<1>4. Usual(w, w) = WideUsual(w, w)
  BY <1>2, Zenon DEF Usual, WideUsual
<1>5. WideUsual(w, w) = w  BY DEF WideUsual
<1> QED  BY <1>1, <1>2, <1>3, <1>4, <1>5, PlainIs

LEMMA OtherCondition ==
  ASSUME NEW ta, NEW ma, NEW tb, NEW mb, Agrees(ta, ma), Agrees(tb, mb),
         ~is_arithmetic(word(ta)), ~is_void(word(ta)), CopiedConst(ta).ends = "typed",
         ~DiffersInKind(ma, mb), LostLongLong(ta) => Shape(ma) = Shape(mb),
         tags["s"].quals = {}
  PROVE  Agrees(CopiedConst(ta).type, MeantPair(ma, mb))
<1> DEFINE c == CopiedConst(ta).type
           p == Decayed(ma)
           q == Decayed(mb)
<1>1. /\ IsLinked(ta) /\ IsDeclared(ma) /\ IsLinked(ma) /\ IsDeclared(mb) /\ IsLinked(mb)
      /\ word(ta) = ta[1].type /\ word(ma) = ma[1].type /\ word(mb) = mb[1].type
      /\ 1 \in DOMAIN ma /\ 1 \in DOMAIN mb
  BY LinkedHead DEF Agrees, IsDeclared
<1>2. Agrees(c, ma)  BY ConstAgrees
<1>3. IsLike(c, ta)  BY <1>1, CopiedConstIs
<1>4. CASE BothArithmetic(ma, mb)
  <2> DEFINE w == word(ma)
  <2>1. w \in ArithmeticWords /\ w \in PlainWords
    BY <1>4, ArithmeticIs DEF BothArithmetic, ArithmeticWords
  <2>2. word(ta) \in PlainWords /\ Len(ta) = 1 /\ NormalWord(word(ta)) = NormalWord(w) /\ w # LostWord
    BY <1>1, <2>1, AgreeingWords
  <2>3. word(ta) = LostWord
    <3>1. word(ta) \notin ArithmeticWords /\ word(ta) # Base("void")
      BY ArithmeticIs DEF is_void
    <3> QED  BY <2>2, <3>1 DEF ArithmeticWords
  <2>4. Shape(ma) = Shape(mb)  BY <2>3 DEF LostLongLong, LostWord
  <2>5. ShapeOf(ma[1]) = ShapeOf(mb[1])
    <3>1. Shape(ma)[1] = ShapeOf(ma[1]) /\ Shape(mb)[1] = ShapeOf(mb[1])
      BY <1>1 DEF Shape
    <3> QED  BY <2>4, <3>1
  <2>6. w = IntegerWord("signed", "long_long") /\ Usual(w, w) = w /\ NormalWord(w) = w
        /\ w \in ArithmeticWords \ {EnumConst}
    BY <2>1, <2>2, <2>3, PlainLong
  <2>7. word(mb) = w
    <3>1. /\ mb[1].type \in PlainWords \cup NamedWords /\ mb[1].type # LostWord
      BY AgreeingWords
    <3>2. mb[1].type \in PlainWords /\ NormalWord(mb[1].type) = NormalWord(ma[1].type)
      BY <1>1, <2>1, <2>5, <3>1, ShapesTell
    <3> QED  BY <1>1, <2>2, <2>3, <2>6, <3>1, <3>2, PlainLong
  <2>8. MeantPair(ma, mb) = alloc_simple_type(w, {})
    BY <1>4, <2>6, <2>7 DEF MeantPair
  <2>9. IsLinked(c) /\ Len(c) = 1 /\ c[1].type = LostWord
    BY <1>1, <1>3, <2>2, <2>3, LikeLinked DEF IsLike
  <2> HIDE DEF c, w
  <2>10. NormalWord(c[1].type) = w  BY <2>2, <2>3, <2>6, <2>9
  <2>11. Exactly(c, alloc_simple_type(w, {}))  BY <2>6, <2>9, <2>10, CommonAgrees
  <2> QED  BY <2>8, <2>11 DEF Exactly, c
<1>5. CASE ~BothArithmetic(ma, mb) /\ is_pointer(word(p)) /\ Shape(p) = Shape(q)
  <2> DEFINE r == to(ma)
             s == alloc_pointer_type({}, WithQuals(r, Quals(r)))
  <2>1. to(p) = to(q)  BY <1>5 DEF DiffersInKind
  <2>2. ma[1].type \in {Base("pointer"), Base("array")} /\ to(p) = r
    BY <1>1, <1>5, DecayedIs DEF is_pointer
  <2>3. Agrees(ma, s)  BY <1>1, <2>2, ArrayMeant
  <2>4. MeantPair(ma, mb) = alloc_pointer_type({}, WithQuals(to(p), Quals(to(q))))
    BY <1>5, Zenon DEF MeantPair
  <2>5. MeantPair(ma, mb) = s  BY <2>1, <2>2, <2>4
  <2> HIDE DEF s, c
  <2>6. Agrees(c, s)  BY <1>2, <2>3, AgreesOn
  <2> QED  BY <2>5, <2>6 DEF c
<1>6. CASE ~BothArithmetic(ma, mb) /\ ~(is_pointer(word(p)) /\ Shape(p) = Shape(q))
  <2>1. MeantPair(ma, mb) = Unqualified(ma)  BY <1>6, Zenon DEF MeantPair
  <2>2. Agrees(ma, Unqualified(ma))  BY <1>1, UnqualifiedAgrees
  <2> HIDE DEF c
  <2>3. Agrees(c, Unqualified(ma))  BY <1>2, <2>2, AgreesOn
  <2> QED  BY <2>1, <2>3 DEF c
<1> QED  BY <1>4, <1>5, <1>6

\* A conditional has the type its branches have together.
LEMMA ConditionAgrees ==
  ASSUME NEW ta, NEW ma, NEW tb, NEW mb, Agrees(ta, ma), Agrees(tb, mb),
         is_arithmetic(word(ta)) => is_arithmetic(word(tb)),
         ConditionType(ta, tb).ends = "typed",
         ~DiffersInKind(ma, mb), LostLongLong(ta) => Shape(ma) = Shape(mb),
         tags["s"].quals = {}
  PROVE  Agrees(ConditionType(ta, tb).type, MeantPair(ma, mb))
<1>1. CASE is_arithmetic(word(ta))
  <2>1. ConditionType(ta, tb) = PromotedConst(ta, tb)  BY <1>1, Zenon DEF ConditionType
  <2>2. BothArithmetic(ta, tb) /\ ~LongLongAndUnsignedLong(word(ma), word(mb))
    BY <1>1 DEF BothArithmetic, DiffersInKind
  <2> QED  BY <2>1, <2>2, ArithmeticCondition DEF Exactly
<1>2. CASE ~is_arithmetic(word(ta)) /\ is_void(word(ta))
  <2>1. ConditionType(ta, tb) = CopiedConst(void_type)  BY <1>2, Zenon DEF ConditionType
  <2> QED  BY <1>2, <2>1, VoidCondition
<1>3. CASE ~is_arithmetic(word(ta)) /\ ~is_void(word(ta))
  <2>1. ConditionType(ta, tb) = CopiedConst(ta)  BY <1>3, Zenon DEF ConditionType
  <2> QED  BY <1>3, <2>1, OtherCondition
<1> QED  BY <1>1, <1>2, <1>3

\* The function that is called, or that the pointer leads to.
LEMMA CalleeAgrees ==
  ASSUME NEW t, NEW m, Agrees(t, m), word(Callee(t)) = Base("function")
  PROVE  /\ Agrees(Callee(t), Callee(m)) /\ word(Callee(m)) = Base("function")
         /\ Callee(t)[1].type = Base("function") /\ Callee(m)[1].type = Base("function")
<1>1. /\ word(t) = t[1].type /\ word(m) = m[1].type /\ t[1].type \in PlainWords \cup NamedWords
      /\ t[1].type = Base("pointer") => m[1].type = Base("pointer")
      /\ t[1].type \in {Base("array"), Base("pointer")} <=>
           m[1].type \in {Base("array"), Base("pointer")}
      /\ t[1].type \notin {Base("array"), Base("pointer")} \cup PlainWords => t[1].type = m[1].type
  BY AgreeingWords
<1> DEFINE f == Callee(t)
           g == Callee(m)
<1>2. Base("function") \in NamedWords /\ Base("function") \notin PlainWords
      /\ Base("function") \in Links
  <2>1. Base("function") \in NamedWords  BY DEF NamedWords, Links
  <2> QED  BY <2>1, NamedIs DEF Links
<1>3. Agrees(f, g)
  <2>1. CASE t[1].type = Base("pointer")
    <3>1. t[1].type \in Links  BY <2>1 DEF Links
    <3>2. f = to(t) /\ g = to(m)  BY <1>1, <2>1 DEF Callee, is_pointer
    <3>3. Exactly(to(t), to(m))  BY <3>1, TailAgrees
    <3> QED  BY <3>2, <3>3 DEF Exactly
  <2>2. CASE t[1].type # Base("pointer")
    <3>1. f = t  BY <1>1, <2>2 DEF Callee, is_pointer
    <3>2. t[1].type = Base("function")  BY <1>1, <3>1
    <3>3. m[1].type = Base("function")  BY <1>1, <1>2, <2>2, <3>2, LinksAre
    <3>4. g = m  BY <1>1, <3>3, LinksAre DEF Callee, is_pointer
    <3> QED  BY <3>1, <3>4
  <2> QED  BY <2>1, <2>2
<1> HIDE DEF f, g
<1>4. f[1].type = Base("function") /\ g[1].type = Base("function") /\ word(g) = Base("function")
  <2>1. word(f) = Base("function")  BY DEF f
  <2>2. word(f) = f[1].type /\ word(g) = g[1].type  BY <1>3, AgreeingWords
  <2>3. f[1].type \notin {Base("array"), Base("pointer")} \cup PlainWords
    BY <1>2, <2>1, <2>2, LinksAre
  <2>4. g[1].type = f[1].type  BY <1>3, <2>3, AgreeingWords
  <2> QED  BY <2>1, <2>2, <2>4
<1> QED  BY <1>3, <1>4 DEF f, g

\* A call has the type its function returns.
LEMMA CallAgrees ==
  ASSUME NEW t, NEW m, Agrees(t, m), word(Callee(t)) = Base("function"),
         CopiedConst(to(Callee(t))).ends = "typed"
  PROVE  Exactly(CopiedConst(to(Callee(t))).type, to(Callee(m)))
<1> DEFINE f == Callee(t)
           g == Callee(m)
<1>1. Agrees(f, g) /\ f[1].type = Base("function")  BY CalleeAgrees
<1>2. CopiedConst(to(f)).ends = "typed"  OBVIOUS
<1> HIDE DEF f, g
<1>3. f[1].type \in Links  BY <1>1 DEF Links
<1>4. Exactly(to(f), to(g))  BY <1>1, <1>3, TailAgrees
<1>5. Agrees(to(f), to(g))  BY <1>4 DEF Exactly
<1>6. Exactly(CopiedConst(to(f)).type, to(g))  BY <1>2, <1>4, <1>5, ConstAgrees
<1> QED  BY <1>6 DEF f, g

-----------------------------------------------------------------------------
(* Comparing types (ey_type_equal).                                        *)

LEMMA LeastOf ==
  ASSUME NEW B \in SUBSET Nat, B # {}
  PROVE  \E m \in B : \A b \in B : m <= b
<1>1. PICK m \in B : \A y \in B : ~(<<y, m>> \in OpToRel(<, Nat))
  <2>1. ASSUME NEW R, IsWellFoundedOn(R, Nat)
        PROVE  \E x \in B : \A y \in B : ~(<<y, x>> \in R)
    BY <2>1, WFMin, Zenon
  <2> QED  BY <2>1, NatLessThanWellFounded, Zenon
<1>2. ASSUME NEW b \in B PROVE m <= b
  <2>1. m \in Nat /\ b \in Nat  OBVIOUS
  <2>2. ~(b < m)  BY <1>1, <2>1 DEF OpToRel
  <2> QED  BY <2>1, <2>2
<1> QED  BY <1>2

\* What is so of k, and of each number after one it is so of, is so from k to n.
LEMMA CountUp ==
  ASSUME NEW k \in Nat, NEW n \in Nat, NEW S, k <= n => k \in S,
         \A i \in k..n : i \in S /\ i < n => i + 1 \in S
  PROVE  \A i \in k..n : i \in S
<1> DEFINE B == {i \in k..n : i \notin S}
<1>1. CASE B = {}  BY <1>1
<1>2. CASE B # {}
  <2>1. B \in SUBSET Nat  OBVIOUS
  <2> HIDE DEF B
  <2>2. PICK m \in B : \A b \in B : m <= b  BY <1>2, <2>1, LeastOf
  <2>3. m \in k..n /\ m \notin S /\ m # k  BY <2>2 DEF B
  <2>4. m - 1 \in k..n /\ m - 1 < n /\ (m - 1) + 1 = m /\ m - 1 < m  BY <2>3
  <2>5. m - 1 \notin S  BY <2>3, <2>4
  <2>6. m - 1 \in B  BY <2>4, <2>5 DEF B
  <2> QED  BY <2>2, <2>4, <2>6
<1> QED  BY <1>1, <1>2

\* One level of calls after another.
Deeper(X) == UNION {Asked(c) : c \in {x \in X : Agree(x)}}

AreCalls(f, first, n) ==
  f = [i \in 1..n |->
        UNION {Asked(c) : c \in IF i = 1 THEN {first} ELSE {x \in f[i - 1] : Agree(x)}}]

LEMMA CallsExist ==
  ASSUME NEW first, NEW n \in Nat
  PROVE  \E f : AreCalls(f, first, n)
<1> DEFINE Level(f, i) ==
             UNION {Asked(c) : c \in IF i = 1 THEN {first} ELSE {x \in f[i - 1] : Agree(x)}}
           S == {k \in Nat : \E f : f = [i \in 1..k |-> Level(f, i)]}
<1>1. 0 \in S
  <2> DEFINE f == [i \in 1..0 |-> {}]
  <2>1. f = [i \in 1..0 |-> Level(f, i)]  OBVIOUS
  <2> QED  BY <2>1
<1>2. ASSUME NEW k \in 0..n, k \in S, k < n PROVE k + 1 \in S
  <2>1. PICK f : f = [i \in 1..k |-> Level(f, i)]  BY <1>2
  <2> DEFINE g == [i \in 1..(k + 1) |-> IF i = k + 1 THEN Level(f, i) ELSE f[i]]
  <2>2. ASSUME NEW i \in 1..(k + 1) PROVE g[i] = Level(g, i)
    <3>1. Level(g, i) = Level(f, i)
      <4>1. CASE i = 1  BY <4>1
      <4>2. CASE i # 1
        <5>1. i - 1 \in 1..(k + 1) /\ i - 1 # k + 1  BY <4>2
        <5>2. g[i - 1] = f[i - 1]  BY <5>1
        <5> HIDE DEF g
        <5> QED  BY <5>2
      <4> QED  BY <4>1, <4>2
    <3>2. g[i] = IF i = k + 1 THEN Level(f, i) ELSE f[i]  OBVIOUS
    <3>3. i # k + 1 => f[i] = Level(f, i)
      <4>1. i # k + 1 => i \in 1..k  OBVIOUS
      <4> HIDE DEF Level
      <4> QED  BY <2>1, <4>1
    <3> HIDE DEF g, Level
    <3> QED  BY <3>1, <3>2, <3>3
  <2>3. g = [i \in 1..(k + 1) |-> g[i]]  OBVIOUS
  <2> HIDE DEF g, Level
  <2>4. g = [i \in 1..(k + 1) |-> Level(g, i)]  BY <2>2, <2>3
  <2> QED  BY <2>4
<1> HIDE DEF S
<1>3. n \in S  BY <1>1, <1>2, CountUp
<1>4. \E f : f = [i \in 1..n |-> Level(f, i)]
  <2> HIDE DEF Level
  <2> QED  BY <1>3 DEF S
<1> QED  BY <1>4, Zenon DEF AreCalls

LEMMA CallsAre ==
  ASSUME NEW first
  PROVE  /\ MaxDepth >= 1 => CallsOf(first)[1] = Asked(first)
         /\ \A i \in 2..MaxDepth : CallsOf(first)[i] = Deeper(CallsOf(first)[i - 1])
<1> DEFINE C == CallsOf(first)
<1>1. \E f : AreCalls(f, first, MaxDepth)
  <2>1. MaxDepth \in Nat  BY MaxDepthAssumption
  <2> QED  BY <2>1, CallsExist
<1>2. C = [i \in 1..MaxDepth |->
        UNION {Asked(c) : c \in IF i = 1 THEN {first} ELSE {x \in C[i - 1] : Agree(x)}}]
  BY <1>1, Zenon DEF CallsOf, AreCalls
<1> HIDE DEF C
<1>3. \A i \in 1..MaxDepth : C[i] =
        UNION {Asked(c) : c \in IF i = 1 THEN {first} ELSE {x \in C[i - 1] : Agree(x)}}
  BY <1>2
<1>4. MaxDepth >= 1 => C[1] = Asked(first)
  <2> SUFFICES ASSUME MaxDepth >= 1 PROVE C[1] = Asked(first)
    OBVIOUS
  <2>1. 1 \in 1..MaxDepth  BY MaxDepthAssumption
  <2>2. C[1] = UNION {Asked(c) : c \in {first}}  BY <1>3, <2>1
  <2> QED  BY <2>2
<1>5. ASSUME NEW i \in 2..MaxDepth PROVE C[i] = Deeper(C[i - 1])
  <2>1. i \in 1..MaxDepth /\ i # 1  BY MaxDepthAssumption
  <2> QED  BY <1>3, <2>1 DEF Deeper
<1> QED  BY <1>4, <1>5 DEF C

\* The first call, those it makes, those they make, and so on.
LevelOf(first, i) == IF i = 0 THEN {first} ELSE CallsOf(first)[i]

LEMMA EqualIs ==
  ASSUME NEW d, NEW s, NEW q, NEW k
  PROVE  equal(d, s, q, k) <=>
           \A i \in 0..MaxDepth : \A c \in LevelOf(Call(d, s, q, k), i) : Agree(c)
<1> DEFINE first == Call(d, s, q, k)
           C == CallsOf(first)
<1>1. equal(d, s, q, k) <=> Agree(first) /\ \A i \in 1..MaxDepth : \A c \in C[i] : Agree(c)
  BY Zenon DEF equal
<1>2. LevelOf(first, 0) = {first} /\ \A i \in 1..MaxDepth : LevelOf(first, i) = C[i]
  BY DEF LevelOf
<1>3. \A i : i \in 0..MaxDepth <=> i = 0 \/ i \in 1..MaxDepth  BY MaxDepthAssumption
<1> HIDE DEF C, first
<1>4. equal(d, s, q, k) <=> \A i \in 0..MaxDepth : \A c \in LevelOf(first, i) : Agree(c)
  BY <1>1, <1>2, <1>3
<1> QED  BY <1>4 DEF first

LEMMA NextLevel ==
  ASSUME NEW first, Agree(first), NEW i \in 0..MaxDepth, i < MaxDepth
  PROVE  LevelOf(first, i + 1) = Deeper(LevelOf(first, i))
<1> DEFINE C == CallsOf(first)
<1>1. /\ MaxDepth >= 1 => C[1] = Asked(first)
      /\ \A j \in 2..MaxDepth : C[j] = Deeper(C[j - 1])
  BY CallsAre
<1>2. LevelOf(first, i + 1) = C[i + 1] /\ (i = 0 => LevelOf(first, i) = {first})
      /\ (i # 0 => LevelOf(first, i) = C[i])
  BY DEF LevelOf
<1> HIDE DEF C
<1>3. CASE i = 0
  <2>1. MaxDepth >= 1  BY <1>3, MaxDepthAssumption
  <2>2. Deeper({first}) = Asked(first)
    <3>1. {x \in {first} : Agree(x)} = {first}  OBVIOUS
    <3>2. Deeper({first}) = UNION {Asked(c) : c \in {first}}  BY <3>1 DEF Deeper
    <3> QED  BY <3>2
  <2> QED  BY <1>1, <1>2, <1>3, <2>1, <2>2
<1>4. CASE i # 0
  <2>1. i + 1 \in 2..MaxDepth /\ (i + 1) - 1 = i  BY <1>4, MaxDepthAssumption
  <2> QED  BY <1>1, <1>2, <1>4, <2>1
<1> QED  BY <1>3, <1>4

\* A type from its m-th node on.
From(t, m) == SubSeq(t, m, Len(t))

LEMMA FromIs ==
  ASSUME NEW t, IsChain(t), NEW m \in 1..Len(t)
  PROVE  /\ Head(From(t, m)) = t[m] /\ From(t, m) # <<>>
         /\ m < Len(t) => to(From(t, m)) = From(t, m + 1)
         /\ From(t, 1) = t
<1>1. Len(t) \in Nat /\ DOMAIN t = 1..Len(t) /\ t \in Seq(NodesOf(t))
  BY ChainDomain DEF IsChain
<1>2. \A i \in 1..Len(t) : t[i] \in NodesOf(t)  BY <1>1 DEF NodesOf
<1>3. ASSUME NEW k \in 1..Len(t)
      PROVE  /\ From(t, k) \in Seq(NodesOf(t)) /\ Len(From(t, k)) = Len(t) - k + 1
             /\ \A i \in 1..(Len(t) - k + 1) : From(t, k)[i] = t[k + i - 1]
  <2>1. /\ SubSeq(t, k, Len(t)) \in Seq(NodesOf(t))
        /\ Len(SubSeq(t, k, Len(t))) = IF k <= Len(t) THEN Len(t) - k + 1 ELSE 0
        /\ \A i \in 1..(Len(t) - k + 1) : SubSeq(t, k, Len(t))[i] = t[k + i - 1]
    <3>1. \A i \in k..Len(t) : t[i] \in NodesOf(t)  BY <1>2
    <3> QED  BY <1>1, <3>1, SubSeqProperties
  <2> QED  BY <1>1, <2>1 DEF From
<1>4. ASSUME NEW u, NEW v, u \in Seq(NodesOf(t)), v \in Seq(NodesOf(t)), Len(u) = Len(v),
             \A i \in 1..Len(u) : u[i] = v[i]
      PROVE  u = v
  <2>1. u = [i \in 1..Len(u) |-> u[i]] /\ v = [i \in 1..Len(v) |-> v[i]]  BY <1>4, LenProperties
  <2> QED  BY <1>4, <2>1
<1> DEFINE u == From(t, m)
<1>5. /\ u \in Seq(NodesOf(t)) /\ Len(u) = Len(t) - m + 1
      /\ \A i \in 1..(Len(t) - m + 1) : u[i] = t[m + i - 1]
  BY <1>3
<1> HIDE DEF u
<1>6. u # <<>> /\ Head(u) = t[m]
  <2>1. Len(u) # 0 /\ 1 \in 1..(Len(t) - m + 1) /\ m + 1 - 1 = m  BY <1>1, <1>5
  <2>2. u # <<>>  BY <2>1
  <2> QED  BY <1>5, <2>1, <2>2
<1>7. m < Len(t) => to(u) = From(t, m + 1)
  <2> SUFFICES ASSUME m < Len(t) PROVE to(u) = From(t, m + 1)
    OBVIOUS
  <2> DEFINE v == From(t, m + 1)
  <2>1. m + 1 \in 1..Len(t)  BY <1>1
  <2>2. /\ v \in Seq(NodesOf(t)) /\ Len(v) = Len(t) - (m + 1) + 1
        /\ \A i \in 1..(Len(t) - (m + 1) + 1) : v[i] = t[(m + 1) + i - 1]
    BY <1>3, <2>1
  <2> HIDE DEF v
  <2>3. /\ Tail(u) \in Seq(NodesOf(t)) /\ Len(Tail(u)) = Len(u) - 1
        /\ \A i \in 1..Len(Tail(u)) : Tail(u)[i] = u[i + 1]
    BY <1>5, <1>6, HeadTailProperties
  <2> DEFINE r == Tail(u)
  <2> HIDE DEF r
  <2>4. Len(r) = Len(v)  BY <1>1, <1>5, <2>2, <2>3 DEF r
  <2>5. \A i \in 1..Len(r) : r[i] = v[i]
    <3> SUFFICES ASSUME NEW i \in 1..Len(r) PROVE r[i] = v[i]
      OBVIOUS
    <3>1. Len(r) = Len(t) - m  BY <1>1, <1>5, <2>3 DEF r
    <3>2. i + 1 \in 1..(Len(t) - m + 1) /\ i \in 1..(Len(t) - (m + 1) + 1)
      BY <1>1, <3>1
    <3>3. r[i] = u[i + 1]  BY <2>3 DEF r
    <3>4. u[i + 1] = t[m + (i + 1) - 1] /\ v[i] = t[(m + 1) + i - 1]  BY <1>5, <2>2, <3>2
    <3>5. m + (i + 1) - 1 = (m + 1) + i - 1  OBVIOUS
    <3> QED  BY <3>3, <3>4, <3>5
  <2>6. r = v  BY <1>4, <2>2, <2>3, <2>4, <2>5 DEF r
  <2> QED  BY <2>6 DEF to, r, v
<1>8. From(t, 1) = t
  <2> DEFINE v == From(t, 1)
  <2>1. 1 \in 1..Len(t)  BY <1>1
  <2>2. /\ v \in Seq(NodesOf(t)) /\ Len(v) = Len(t) - 1 + 1
        /\ \A i \in 1..(Len(t) - 1 + 1) : v[i] = t[1 + i - 1]
    BY <1>3, <2>1
  <2> HIDE DEF v
  <2>3. Len(v) = Len(t) /\ \A i \in 1..Len(v) : v[i] = t[i]  BY <1>1, <2>2
  <2>4. v = t  BY <1>1, <1>4, <2>2, <2>3
  <2> QED  BY <2>4 DEF v
<1> QED  BY <1>6, <1>7, <1>8 DEF u

LEMMA CallIs ==
  ASSUME NEW d, NEW s, NEW q, NEW k
  PROVE  LET c == Call(d, s, q, k)
         IN c.dst = d /\ c.src = s /\ c.quals = q /\ c.count = k
BY DEF Call

\* Without functions, all that is asked of two types is that their words be the
\* same all the way.
LEMMA EqualShape ==
  ASSUME NEW d, IsDeclared(d), IsPlain(d), Len(d) <= MaxDepth + 1,
         NEW s, IsLinked(s), NEW q, NEW k, equal(d, s, q, k)
  PROVE  Shape(d) = Shape(s)
<1> DEFINE first == Call(d, s, q, k)
           Pair(m, x, y) == Call(From(d, m), From(s, m), x, y)
           S == {m \in 1..Len(d) : m <= Len(s) /\ \E x, y : Pair(m, x, y) \in LevelOf(first, m - 1)}
<1>1. /\ IsLinked(d) /\ \A i \in DOMAIN d : d[i].type \in Links \cup Leaves
      /\ \A i \in DOMAIN d : IsNode(d[i]) /\ (d[i].type \in Links <=> i < Len(d))
      /\ \A i \in DOMAIN s : IsNode(s[i]) /\ (s[i].type \in Links <=> i < Len(s))
      /\ IsChain(d) /\ IsChain(s)
  BY DEF IsDeclared, IsLinked
<1>2. /\ Len(d) \in Nat \ {0} /\ DOMAIN d = 1..Len(d) /\ Len(s) \in Nat \ {0} /\ DOMAIN s = 1..Len(s)
  BY <1>1, LinkedHead
<1>3. \A i \in 0..MaxDepth : \A c \in LevelOf(first, i) : Agree(c)
  BY EqualIs
<1>4. \A m \in 1..Len(d) : m - 1 \in 0..MaxDepth  BY <1>2, MaxDepthAssumption
<1>5. ASSUME NEW m \in 1..Len(d), m \in S
      PROVE  \E x, y : /\ Pair(m, x, y) \in LevelOf(first, m - 1) /\ Agree(Pair(m, x, y))
                       /\ m <= Len(s) /\ d[m].type = s[m].type
  <2>1. PICK x, y : Pair(m, x, y) \in LevelOf(first, m - 1)  BY <1>5
  <2>2. m - 1 \in 0..MaxDepth /\ m <= Len(s) /\ m \in 1..Len(s)  BY <1>2, <1>4, <1>5
  <2> DEFINE c == Pair(m, x, y)
  <2>3. c.dst = From(d, m) /\ c.src = From(s, m)  BY CallIs
  <2>4. Head(From(d, m)) = d[m] /\ Head(From(s, m)) = s[m]  BY <1>1, <2>2, FromIs
  <2> HIDE DEF c, first
  <2>5. c \in LevelOf(first, m - 1)  BY <2>1 DEF c
  <2>6. Agree(c)  BY <1>3, <2>2, <2>5
  <2>7. word(c.dst) = word(c.src)  BY <2>6, Zenon DEF Agree
  <2>8. d[m].type = s[m].type  BY <2>3, <2>4, <2>7 DEF word
  <2> QED  BY <2>2, <2>5, <2>6, <2>8 DEF c
<1>6. 1 \in S
  <2>1. 1 \in 1..Len(d) /\ 1 \in 1..Len(s) /\ 1 - 1 = 0  BY <1>2
  <2>2. From(d, 1) = d /\ From(s, 1) = s  BY <1>1, <2>1, FromIs
  <2>3. Pair(1, q, k) = first  BY <2>2
  <2>4. LevelOf(first, 0) = {first}  BY DEF LevelOf
  <2> HIDE DEF first
  <2>5. Pair(1, q, k) \in LevelOf(first, 1 - 1)  BY <2>1, <2>3, <2>4
  <2> QED  BY <2>1, <2>5
<1>7. ASSUME NEW m \in 1..Len(d), m \in S, m < Len(d) PROVE m + 1 \in S
  <2>1. PICK x, y : /\ Pair(m, x, y) \in LevelOf(first, m - 1) /\ Agree(Pair(m, x, y))
                    /\ m <= Len(s) /\ d[m].type = s[m].type
    BY <1>5, <1>7
  <2>2. m \in 1..Len(s) /\ m \in DOMAIN s /\ m \in DOMAIN d  BY <1>2, <2>1
  <2>3. d[m].type \in Links /\ m < Len(s)  BY <1>1, <1>7, <2>1, <2>2
  <2>4. /\ Head(From(d, m)) = d[m] /\ to(From(d, m)) = From(d, m + 1)
        /\ to(From(s, m)) = From(s, m + 1)
    BY <1>1, <1>7, <2>2, <2>3, FromIs
  <2>5. d[m].class = "pointer" \/ d[m].class = "array"
    <3>1. d[m].type = Base("pointer") \/ d[m].type = Base("array")
      BY <2>2, <2>3 DEF IsPlain, Links
    <3> QED  BY <2>2, <3>1 DEF IsPlain
  <2> DEFINE c == Pair(m, x, y)
  <2>6. c.dst = From(d, m) /\ c.src = From(s, m)  BY CallIs
  <2>7. \E xx, yy : Asked(c) = {Pair(m + 1, xx, yy)}
    <3>1. class(c.dst) = "pointer" \/ class(c.dst) = "array"  BY <2>4, <2>5, <2>6 DEF class
    <3> HIDE DEF c
    <3>2. CASE class(c.dst) = "pointer"
      <4>1. Asked(c) = {Call(to(c.dst), to(c.src), c.quals, TRUE)}
        BY <3>2 DEF Asked, pointer_equal
      <4> QED  BY <2>4, <2>6, <4>1
    <3>3. CASE class(c.dst) = "array"
      <4>1. Asked(c) = {Call(to(c.dst), to(c.src), c.quals, c.count)}
        BY <3>3 DEF Asked, array_equal
      <4> QED  BY <2>4, <2>6, <4>1
    <3> QED  BY <3>1, <3>2, <3>3
  <2>8. PICK xx, yy : Asked(c) = {Pair(m + 1, xx, yy)}  BY <2>7
  <2> HIDE DEF c
  <2>9. Agree(first)
    <3>1. first \in LevelOf(first, 0)  BY DEF LevelOf
    <3>2. 0 \in 0..MaxDepth  BY MaxDepthAssumption
    <3> HIDE DEF first
    <3> QED  BY <1>3, <3>1, <3>2
  <2> HIDE DEF first
  <2>10. m - 1 \in 0..MaxDepth /\ m - 1 < MaxDepth /\ (m - 1) + 1 = m /\ (m + 1) - 1 = m
    BY <1>2, <1>7, MaxDepthAssumption
  <2>11. LevelOf(first, m) = Deeper(LevelOf(first, m - 1))
    BY <2>9, <2>10, NextLevel
  <2>12. Pair(m + 1, xx, yy) \in LevelOf(first, m)
    <3>1. c \in LevelOf(first, m - 1) /\ Agree(c)  BY <2>1 DEF c
    <3>2. Asked(c) \subseteq Deeper(LevelOf(first, m - 1))  BY <3>1 DEF Deeper
    <3> QED  BY <2>8, <2>11, <3>2
  <2>13. m + 1 \in 1..Len(d) /\ m + 1 <= Len(s)  BY <1>2, <1>7, <2>3
  <2> QED  BY <2>10, <2>12, <2>13
<1>8. \A m \in 1..Len(d) : m \in S
  <2> HIDE DEF S
  <2>1. Len(d) \in Nat /\ 1 <= Len(d)  BY <1>2
  <2> QED  BY <1>6, <1>7, <2>1, CountUp
<1> HIDE DEF Pair, first
<1>9. \A m \in 1..Len(d) : m <= Len(s) /\ d[m].type = s[m].type
  <2> HIDE DEF S
  <2> QED  BY <1>5, <1>8
<1>10. Len(d) = Len(s)
  <2>1. Len(d) \in DOMAIN d /\ Len(d) \in DOMAIN s /\ d[Len(d)].type = s[Len(d)].type
    BY <1>2, <1>9
  <2>2. d[Len(d)].type \notin Links  BY <1>1, <1>2, <2>1
  <2>3. ~(Len(d) < Len(s))  BY <1>1, <2>1, <2>2
  <2>4. Len(d) <= Len(s)  BY <1>2, <1>9
  <2>5. Len(d) \in Nat /\ Len(s) \in Nat  BY <1>2
  <2> QED  BY <2>3, <2>4, <2>5
<1>11. ASSUME NEW m \in 1..Len(d) PROVE ShapeOf(d[m]) = ShapeOf(s[m])
  <2>1. /\ d[m].type = s[m].type /\ m \in DOMAIN d /\ m \in DOMAIN s
        /\ IsNode(d[m]) /\ IsNode(s[m]) /\ d[m].type # Base("function")
    BY <1>1, <1>2, <1>9, <1>10 DEF IsPlain
  <2>2. d[m].type \in TagWords => d[m].tag = s[m].tag  BY <2>1 DEF IsNode
  <2> QED  BY <2>1, <2>2 DEF ShapeOf
<1> QED  BY <1>2, <1>10, <1>11 DEF Shape

LEMMA ExactlyShape ==
  ASSUME NEW t, NEW m, Exactly(t, m)
  PROVE  Shape(t) = Shape(m)
<1>1. /\ IsLinked(t) /\ IsLinked(m) /\ Len(t) = Len(m) /\ ShapeOf(t[1]) = ShapeOf(m[1])
      /\ \A i \in DOMAIN t : i > 1 => SameNode(t[i], m[i])
  BY DEF Exactly, Agrees, IsDeclared
<1>2. DOMAIN t = 1..Len(t) /\ DOMAIN m = 1..Len(t) /\ Len(t) \in Nat  BY <1>1, LinkedHead
<1>3. \A i \in 1..Len(t) : ShapeOf(t[i]) = ShapeOf(m[i])
  <2> SUFFICES ASSUME NEW i \in 1..Len(t) PROVE ShapeOf(t[i]) = ShapeOf(m[i])
    OBVIOUS
  <2>1. i = 1 \/ i > 1  OBVIOUS
  <2> QED  BY <1>1, <1>2, <2>1 DEF SameNode
<1> QED  BY <1>2, <1>3 DEF Shape

\* What a parameter leads to has the shape of what an argument it is compared with
\* leads to.
LEMMA ParameterShape ==
  ASSUME NEW f, IsParameter(f), f[1].type \in Links, NEW s, IsLinked(s), NEW q, NEW k,
         equal(to(f), s, q, k)
  PROVE  Shape(to(f)) = Shape(s)
<1>1. IsDeclared(f) /\ IsLinked(f) /\ IsPlain(f) /\ Len(f) <= MaxDepth
  BY DEF IsParameter, IsDeclared
<1>2. IsDeclared(to(f))  BY <1>1, DeclaredTail
<1>3. /\ Len(to(f)) = Len(f) - 1 /\ Len(f) \in Nat
      /\ \A i \in DOMAIN to(f) : i + 1 \in DOMAIN f /\ to(f)[i] = f[i + 1]
  BY <1>1, LinkedTail, LinkedHead
<1> DEFINE d == to(f)
<1> HIDE DEF d
<1>4. IsPlain(d)
  <2> SUFFICES ASSUME NEW i \in DOMAIN d
               PROVE  /\ d[i].type # Base("function")
                      /\ \A link \in {"pointer", "array"} : d[i].class = link <=> d[i].type = Base(link)
    BY DEF IsPlain
  <2>1. i + 1 \in DOMAIN f /\ d[i] = f[i + 1]  BY <1>3 DEF d
  <2> QED  BY <1>1, <2>1 DEF IsPlain
<1>5. Len(d) <= MaxDepth + 1  BY <1>1, <1>3, MaxDepthAssumption DEF d
<1> QED  BY <1>2, <1>4, <1>5, EqualShape DEF d

\* An argument that is accepted converts to its parameter.
LEMMA ConvertsAgree ==
  ASSUME NEW f, IsParameter(f), NEW t, NEW m, Agrees(t, m), t[1].type # Base("function"),
         assignment_compatible(f, t)
  PROVE  ConvertsTo(f, m)
<1> DEFINE p == Decayed(m)
<1>1. /\ IsDeclared(f) /\ IsLinked(f) /\ IsLinked(t) /\ IsLinked(m) /\ IsDeclared(m)
      /\ word(f) = f[1].type /\ word(t) = t[1].type /\ word(m) = m[1].type
      /\ IsNode(f[1]) /\ IsNode(m[1])
      /\ DOMAIN f = 1..Len(f) /\ DOMAIN m = 1..Len(m) /\ Len(f) \in Nat \ {0} /\ Len(m) \in Nat \ {0}
      /\ (f[1].type \in Links <=> Len(f) > 1) /\ (m[1].type \in Links <=> Len(m) > 1)
  BY LinkedHead DEF IsParameter, IsDeclared, Agrees
<1>2. CASE is_arithmetic(word(f)) /\ is_arithmetic(word(t))
  <2>1. word(m) \in ArithmeticWords  BY <1>2, ArithmeticAgrees
  <2>2. word(m) \in PlainWords /\ is_arithmetic(word(m))
    BY <2>1, ArithmeticIs DEF ArithmeticWords
  <2>3. Base("array") \in NamedWords  BY DEF NamedWords, Links
  <2>4. m[1].type # Base("array")  BY <1>1, <2>2, <2>3, NamedIs
  <2>5. p = m  BY <1>1, <2>4, DecayedIs
  <2> QED  BY <1>2, <2>2, <2>5 DEF ConvertsTo, BothArithmetic
<1>3. CASE is_su(word(f)) /\ tag_equal(f, t, FALSE)
  <2>1. f[1].type \in SuWords /\ t[1].type = f[1].type
    BY <1>1, <1>3 DEF is_su, tag_equal
  <2>2. f[1].type \in TagWords /\ f[1].type \in NamedWords
    BY <2>1 DEF TagWords, NamedWords
  <2>3. f[1].type \notin Links /\ f[1].type \notin PlainWords
    BY <2>2, LinksAre, NamedIs
  <2>4. m[1].type = f[1].type
    <3>1. t[1].type \notin {Base("array"), Base("pointer")} \cup PlainWords
      BY <2>1, <2>3 DEF Links
    <3> QED  BY <2>1, <3>1, AgreeingWords
  <2>5. Len(f) = 1 /\ Len(m) = 1
    <3>1. ~(Len(f) > 1) /\ ~(Len(m) > 1)  BY <1>1, <2>3, <2>4
    <3> QED  BY <1>1, <3>1
  <2>6. ShapeOf(f[1]) = ShapeOf(m[1])
    <3>1. f[1].tag = "s" /\ m[1].tag = "s"  BY <1>1, <2>2, <2>4 DEF IsNode
    <3> QED  BY <2>2, <2>4, <3>1 DEF ShapeOf
  <2>7. Shape(f) = Shape(m)  BY <1>1, <2>5, <2>6 DEF Shape
  <2>8. p = m  BY <1>1, <2>3, <2>4, DecayedIs DEF Links
  <2> QED  BY <1>3, <2>7, <2>8 DEF ConvertsTo
<1>4. CASE is_pointer(word(f)) /\ is_pointer_array(word(t)) /\ pointer_compatible(f, t, FALSE)
  <2>1. /\ f[1].type = Base("pointer") /\ f[1].type \in Links
        /\ t[1].type \in {Base("pointer"), Base("array")} /\ t[1].type \in Links
        /\ m[1].type \in {Base("pointer"), Base("array")}
    BY <1>1, <1>4, AgreeingWords DEF is_pointer, is_pointer_array, Links
  <2>2. Exactly(to(t), to(m))  BY <2>1, TailAgrees
  <2>3. is_pointer(word(p)) /\ to(p) = to(m)
    <3>1. IsLinked(p) /\ p[1].type = Base("pointer") /\ to(p) = to(m)
      BY <1>1, <2>1, DecayedIs
    <3> QED  BY <3>1, LinkedHead DEF is_pointer
  <2>4. \/ is_void(word(to(f))) \/ is_void(word(to(t)))
        \/ equal(to(f), to(t), FALSE, TRUE)
    BY <1>4, Zenon DEF pointer_compatible, PointsToVoid
  <2>5. CASE is_void(word(to(f)))  BY <1>4, <2>3, <2>5 DEF ConvertsTo
  <2>6. CASE is_void(word(to(t)))
    <3> DEFINE u == to(t)
               v == to(m)
    <3>1. Agrees(u, v)  BY <2>2 DEF Exactly
    <3> HIDE DEF u, v
    <3>2. /\ word(u) = Base("void") /\ u[1].type = word(u) /\ word(v) = v[1].type
          /\ v[1].type # LostWord
      BY <2>6, <3>1, AgreeingWords DEF is_void, u
    <3>3. v[1].type \in PlainWords /\ NormalWord(v[1].type) = NormalWord(Base("void"))
      BY <3>1, <3>2, AgreeingWords, LinksAre
    <3>4. NormalWord(Base("void")) = Base("void")  BY DEF NormalWord, Base, Word
    <3>5. Base("void") # IntegerWord("signed", "none")
      BY DEF Base, Word, IntegerWord
    <3>6. v[1].type = Base("void")  BY <3>2, <3>3, <3>4, <3>5, PlainIs
    <3>7. is_void(word(to(p)))  BY <2>3, <3>2, <3>6 DEF is_void, v
    <3> QED  BY <1>4, <2>3, <3>7 DEF ConvertsTo
  <2>7. CASE equal(to(f), to(t), FALSE, TRUE)
    <3>1. IsLinked(to(t))  BY <2>2 DEF Exactly, Agrees
    <3>2. Shape(to(f)) = Shape(to(t))  BY <2>1, <2>7, <3>1, ParameterShape
    <3>3. Shape(to(t)) = Shape(to(m))  BY <2>2, ExactlyShape
    <3> QED  BY <1>4, <2>3, <3>2, <3>3 DEF ConvertsTo
  <2> QED  BY <2>4, <2>5, <2>6, <2>7
<1>5. word(t) # Base("function")  BY <1>1
<1>6. \/ is_arithmetic(word(f)) /\ is_arithmetic(word(t))
      \/ is_su(word(f)) /\ tag_equal(f, t, FALSE)
      \/ is_pointer(word(f)) /\ is_pointer_array(word(t)) /\ pointer_compatible(f, t, FALSE)
  BY <1>5, Zenon DEF assignment_compatible
<1> QED  BY <1>2, <1>3, <1>4, <1>6

-----------------------------------------------------------------------------
(* What the checks hold an operand to.                                     *)

LEMMA LikeOperand ==
  ASSUME NEW c, NEW t, IsLinked(t), IsLike(c, t), KnownParameters(t), t[1].type # Base("function")
  PROVE  IsOperand(c)
<1>1. DOMAIN c = DOMAIN t /\ DOMAIN t = 1..Len(t) /\ Len(t) \in Nat
  BY LikeLinked, LinkedHead
<1>2. c[1].type = t[1].type /\ \A i \in DOMAIN t : i > 1 => c[i] = t[i]  BY DEF IsLike
<1>3. ASSUME NEW i \in DOMAIN c, c[i].type = Base("function")
      PROVE  IsChain(c[i].args) /\ \A j \in DOMAIN c[i].args : IsParameter(c[i].args[j])
  <2>1. i # 1  BY <1>2, <1>3
  <2>2. i \in DOMAIN t /\ c[i] = t[i]  BY <1>1, <1>2, <2>1
  <2> QED  BY <1>3, <2>2 DEF KnownParameters
<1> QED  BY <1>2, <1>3 DEF IsOperand, KnownParameters

LEMMA TailKnows ==
  ASSUME NEW t, IsLinked(t), t[1].type \in Links, KnownParameters(t)
  PROVE  KnownParameters(to(t))
<1>1. \A i \in DOMAIN to(t) : i + 1 \in DOMAIN t /\ to(t)[i] = t[i + 1]  BY LinkedTail
<1> QED  BY <1>1 DEF KnownParameters

LEMMA CalleeKnows ==
  ASSUME NEW t, IsLinked(t), KnownParameters(t)
  PROVE  KnownParameters(Callee(t))
<1>1. word(t) = t[1].type  BY LinkedHead
<1>2. CASE is_pointer(word(t))
  <2>1. t[1].type \in Links /\ Callee(t) = to(t)
    BY <1>1, <1>2 DEF is_pointer, Links, Callee
  <2> QED  BY <2>1, TailKnows
<1>3. CASE ~is_pointer(word(t))  BY <1>3 DEF Callee
<1> QED  BY <1>2, <1>3

LEMMA PointerKnows ==
  ASSUME NEW t, IsLinked(t), KnownParameters(t), NEW q
  PROVE  IsOperand(alloc_pointer_type(q, t))
<1> DEFINE p == alloc_pointer_type(q, t)
<1>1. /\ IsLinked(p) /\ Len(p) = 1 + Len(t) /\ p[1].type = Base("pointer")
      /\ \A i \in DOMAIN t : p[i + 1] = t[i]
  BY PointerIs
<1> HIDE DEF p
<1>2. DOMAIN p = 1..(1 + Len(t)) /\ DOMAIN t = 1..Len(t) /\ Len(t) \in Nat
  BY <1>1, LinkedHead
<1>3. p[1].type # Base("function")  BY <1>1, LinksAre
<1>4. ASSUME NEW i \in DOMAIN p, p[i].type = Base("function")
      PROVE  IsChain(p[i].args) /\ \A j \in DOMAIN p[i].args : IsParameter(p[i].args[j])
  <2>1. i # 1  BY <1>3, <1>4
  <2>2. i - 1 \in DOMAIN t /\ (i - 1) + 1 = i  BY <1>2, <2>1
  <2>3. p[i] = t[i - 1]  BY <1>1, <2>2
  <2> QED  BY <1>4, <2>2, <2>3 DEF KnownParameters
<1> QED  BY <1>3, <1>4 DEF IsOperand, KnownParameters, p

LEMMA SimpleOperand ==
  ASSUME NEW t, IsLinked(t), Len(t) = 1
  PROVE  IsOperand(t)
<1>1. DOMAIN t = 1..1 /\ t[1].type \notin Links
  <2>1. DOMAIN t = 1..Len(t) /\ (t[1].type \in Links <=> Len(t) > 1)  BY LinkedHead
  <2>2. ~(Len(t) > 1)  OBVIOUS
  <2> QED  BY <2>1, <2>2
<1>2. t[1].type # Base("function")  BY <1>1 DEF Links
<1>3. \A i \in DOMAIN t : t[i].type # Base("function")  BY <1>1, <1>2
<1> QED  BY <1>2, <1>3 DEF IsOperand, KnownParameters

LEMMA CopiedOperand ==
  ASSUME NEW t, IsLinked(t), KnownParameters(t)
  PROVE  /\ Copied(t).ends = "typed" => IsOperand(Copied(t).type)
         /\ CopiedConst(t).ends = "typed" =>
              IsOperand(CopiedConst(t).type) /\ "const" \in QualsOf(CopiedConst(t).type[1])
<1>1. ASSUME Copied(t).ends = "typed" PROVE IsOperand(Copied(t).type)
  <2>1. IsLike(Copied(t).type, t) /\ CanCopy(t)  BY <1>1, CopiedIs
  <2> QED  BY <2>1, LikeOperand, CopyIsNoFunction
<1>2. ASSUME CopiedConst(t).ends = "typed"
      PROVE  IsOperand(CopiedConst(t).type) /\ "const" \in QualsOf(CopiedConst(t).type[1])
  <2>1. /\ IsLike(CopiedConst(t).type, t) /\ CanCopy(t)
        /\ "const" \in QualsOf(CopiedConst(t).type[1])
    BY <1>2, CopiedConstIs
  <2> QED  BY <2>1, LikeOperand, CopyIsNoFunction
<1> QED  BY <1>1, <1>2

LEMMA ConditionOperand ==
  ASSUME NEW ta, IsLinked(ta), KnownParameters(ta), NEW tb,
         is_arithmetic(word(ta)) => is_arithmetic(word(tb)), ConditionType(ta, tb).ends = "typed"
  PROVE  LET c == ConditionType(ta, tb).type IN IsOperand(c) /\ "const" \in QualsOf(c[1])
<1>1. CASE is_arithmetic(word(ta))
  <2>1. ConditionType(ta, tb) = PromotedConst(ta, tb)  BY <1>1, Zenon DEF ConditionType
  <2> DEFINE c == PromotedConst(ta, tb).type
  <2>2. IsLinked(c) /\ Len(c) = 1 /\ "const" \in QualsOf(c[1])
    BY <1>1, PromotedConstIs DEF BothArithmetic
  <2> HIDE DEF c
  <2>3. IsOperand(c)  BY <2>2, SimpleOperand
  <2> QED  BY <2>1, <2>2, <2>3 DEF c
<1>2. CASE ~is_arithmetic(word(ta)) /\ is_void(word(ta))
  <2>1. ConditionType(ta, tb) = CopiedConst(void_type)  BY <1>2, Zenon DEF ConditionType
  <2>2. IsLinked(void_type) /\ Len(void_type) = 1
    BY SimpleLinked, LinksAre DEF void_type
  <2>3. KnownParameters(void_type)  BY <2>2, SimpleOperand DEF IsOperand
  <2>4. CopiedConst(void_type).ends = "typed"  BY <2>1
  <2> QED  BY <2>1, <2>2, <2>3, <2>4, CopiedOperand
<1>3. CASE ~is_arithmetic(word(ta)) /\ ~is_void(word(ta))
  <2>1. ConditionType(ta, tb) = CopiedConst(ta)  BY <1>3, Zenon DEF ConditionType
  <2>2. CopiedConst(ta).ends = "typed"  BY <2>1
  <2> QED  BY <2>1, <2>2, CopiedOperand
<1> QED  BY <1>1, <1>2, <1>3

\* What may be assigned to was no object's copy.
LEMMA ModifiableIs ==
  ASSUME NEW e, Agrees(e.type, e.meant), e.lvalue \/ "const" \in QualsOf(e.type[1]),
         is_lhs(e.type)
  PROVE  Modifiable(e)
<1>1. IsLinked(e.type) /\ IsLinked(e.meant) /\ QualsOf(e.meant[1]) \subseteq QualsOf(e.type[1])
  BY DEF Agrees, IsDeclared
<1>2. Quals(e.type) = QualsOf(e.type[1]) /\ Quals(e.meant) = QualsOf(e.meant[1])
  BY <1>1, LinkedHead
<1>3. "const" \notin Quals(e.type)  BY DEF is_lhs
<1>4. e.lvalue  BY <1>2, <1>3
<1>5. "const" \notin Quals(e.meant)  BY <1>1, <1>2, <1>3
<1> QED  BY <1>4, <1>5 DEF Modifiable

\* The parameters that arguments are compared with are those of the function meant.
LEMMA CallKept ==
  ASSUME NEW f, Agrees(f.type, f.meant), KnownParameters(f.type),
         NEW args, IsChain(args), CallCheck(f, args),
         \A i \in DOMAIN args :
           Agrees(args[i].type, args[i].meant) /\ args[i].type[1].type # Base("function")
  PROVE  LET target == Head(Callee(f.meant))
         IN /\ \/ Len(args) = Len(target.args)
               \/ (Len(args) > Len(target.args) /\ target.ellipsis)
            /\ \A i \in DOMAIN args \cap DOMAIN target.args :
                 ConvertsTo(target.args[i], args[i].meant)
<1> DEFINE F == Callee(f.type)
           G == Callee(f.meant)
           formals == Head(F).args
<1>1. /\ word(F) = Base("function")
      /\ IF formals = <<>> THEN args = <<>>
         ELSE /\ \A i \in DOMAIN args : i \in DOMAIN formals =>
                   assignment_compatible(formals[i], args[i].type)
              /\ Len(formals) <= Len(args)
              /\ Len(formals) < Len(args) => Head(F).ellipsis
  BY Zenon DEF CallCheck
<1>2. KnownParameters(F)  BY CalleeKnows DEF Agrees
<1>3. Agrees(F, G) /\ F[1].type = Base("function")  BY <1>1, CalleeAgrees
<1> HIDE DEF G
<1>4. /\ Head(F) = F[1] /\ 1 \in DOMAIN F /\ Head(G) = G[1]
      /\ G[1].type \in PlainWords \cup NamedWords /\ F[1].type \in PlainWords \cup NamedWords
      /\ ShapeOf(F[1]) = ShapeOf(G[1])
  <2> HIDE DEF F
  <2>1. IsLinked(F) /\ IsLinked(G)  BY <1>3 DEF Agrees, IsDeclared
  <2>2. ShapeOf(F[1]) = ShapeOf(G[1])  BY <1>3, LinksAre DEF Agrees
  <2> QED  BY <1>3, <2>1, <2>2, LinkedHead, AgreeingWords
<1> HIDE DEF F
<1>5. Head(F).args = Head(G).args /\ Head(F).ellipsis = Head(G).ellipsis
  BY <1>3, <1>4, ShapesTell
<1>6. IsChain(formals) /\ \A j \in DOMAIN formals : IsParameter(formals[j])
  BY <1>2, <1>3, <1>4 DEF KnownParameters
<1> HIDE DEF formals
<1>7. Len(formals) \in Nat /\ Len(args) \in Nat  BY <1>6, ChainDomain
<1>8. Len(args) = Len(formals) \/ (Len(args) > Len(formals) /\ Head(F).ellipsis)
  <2>1. CASE formals = <<>>
    <3>1. args = <<>>  BY <1>1, <2>1
    <3> QED  BY <2>1, <3>1
  <2>2. CASE formals # <<>>
    <3>1. Len(formals) <= Len(args) /\ (Len(formals) < Len(args) => Head(F).ellipsis)
      BY <1>1, <2>2
    <3>2. Len(args) = Len(formals) \/ Len(formals) < Len(args)  BY <1>7, <3>1
    <3> QED  BY <1>7, <3>1, <3>2
  <2> QED  BY <2>1, <2>2
<1>9. ASSUME NEW i \in DOMAIN args \cap DOMAIN formals
      PROVE  ConvertsTo(formals[i], args[i].meant)
  <2>1. formals # <<>>  BY <1>9
  <2>2. assignment_compatible(formals[i], args[i].type)  BY <1>1, <1>9, <2>1
  <2>3. /\ IsParameter(formals[i]) /\ Agrees(args[i].type, args[i].meant)
        /\ args[i].type[1].type # Base("function")
    BY <1>6, <1>9
  <2> QED  BY <2>2, <2>3, ConvertsAgree
<1>10. Head(G).args = formals  BY <1>5 DEF formals
<1> QED  BY <1>5, <1>8, <1>9, <1>10 DEF G

-----------------------------------------------------------------------------
(* The parser's stack.                                                     *)

LEMMA Pushed ==
  ASSUME NEW s, IsChain(s), NEW n \in 0..Len(s), NEW x
  PROVE  LET r == Append(SubSeq(s, 1, Len(s) - n), x)
         IN /\ IsChain(r) /\ Len(r) = Len(s) - n + 1
            /\ \A i \in DOMAIN r : r[i] = x \/ (i \in DOMAIN s /\ r[i] = s[i])
<1> DEFINE S == NodesOf(s) \cup {x}
           k == Len(s) - n
           b == SubSeq(s, 1, k)
           r == Append(b, x)
<1>1. Len(s) \in Nat /\ DOMAIN s = 1..Len(s)  BY ChainDomain
<1>2. k \in Nat /\ k <= Len(s)  BY <1>1
<1>3. \A i \in 1..k : i \in DOMAIN s /\ s[i] \in S  BY <1>1, <1>2 DEF NodesOf
<1> HIDE DEF k, S
<1>4. /\ b \in Seq(S) /\ Len(b) = k /\ \A i \in 1..k : b[i] = s[i]
  <2>1. /\ b \in Seq(S) /\ Len(b) = IF 1 <= k THEN k - 1 + 1 ELSE 0
        /\ \A i \in 1..(k - 1 + 1) : b[i] = s[1 + i - 1]
    BY <1>2, <1>3, SubSeqProperties
  <2> QED  BY <1>2, <2>1
<1>5. x \in S  BY DEF S
<1> HIDE DEF b
<1>6. /\ r \in Seq(S) /\ Len(r) = k + 1 /\ r[k + 1] = x /\ \A i \in 1..k : r[i] = b[i]
  BY <1>4, <1>5, AppendProperties
<1> HIDE DEF r
<1>7. IsChain(r)  BY <1>6, ChainOf
<1>8. DOMAIN r = 1..(k + 1)  BY <1>6, <1>7, ChainDomain
<1>9. \A i \in DOMAIN r : r[i] = x \/ (i \in DOMAIN s /\ r[i] = s[i])
  <2> SUFFICES ASSUME NEW i \in DOMAIN r PROVE r[i] = x \/ (i \in DOMAIN s /\ r[i] = s[i])
    OBVIOUS
  <2>1. i = k + 1 \/ i \in 1..k  BY <1>2, <1>8
  <2> QED  BY <1>3, <1>4, <1>6, <2>1
<1> QED  BY <1>6, <1>7, <1>9 DEF r, b, k

LEMMA EntryFrame ==
  ASSUME tags' = tags, NEW e
  PROVE  IsEntry(e)' <=> IsEntry(e)
<1>1. \A n : QualsOf(n)' = QualsOf(n)  BY DEF QualsOf
<1>2. \A n, m : SameNode(n, m)' <=> SameNode(n, m)  BY <1>1 DEF SameNode
<1>3. \A t, m : Agrees(t, m)' <=> Agrees(t, m)  BY <1>1, <1>2 DEF Agrees
<1>4. \A t, m : Exactly(t, m)' <=> Exactly(t, m)  BY <1>3 DEF Exactly
<1>5. \A op, type, meant, lvalue, kept :
        IsResult(op, type, meant, lvalue, kept)' <=> IsResult(op, type, meant, lvalue, kept)
  BY <1>1, <1>3, <1>4 DEF IsResult
<1> QED  BY <1>5 DEF IsEntry

LEMMA StackEmptied ==
  ASSUME StackInv, tags' = tags, stack' = <<>>
  PROVE  StackInv'
<1>1. IsChain(<<>>)
  <2>1. <<>> \in Seq({})  OBVIOUS
  <2> QED  BY <2>1, ChainOf
<1>2. NodesOf(<<>>) = {}  BY DEF NodesOf
<1>3. NodesOf(stack)' = {} /\ IsChain(stack)'  BY <1>1, <1>2
<1>4. EntriesAgree'  BY <1>3 DEF EntriesAgree
<1> QED  BY <1>3, <1>4 DEF StackInv

\* What is on the stack afterwards was there before, but for x.
LEMMA StackStep ==
  ASSUME StackInv, tags' = tags, NEW x, IsEntry(x), NEW r, IsChain(r), stack' = r,
         \A i \in DOMAIN r : r[i] = x \/ (i \in DOMAIN stack /\ r[i] = stack[i])
  PROVE  StackInv'
<1>1. \A i \in DOMAIN stack : IsEntry(stack[i])
  BY DEF StackInv, EntriesAgree, NodesOf
<1>2. \A e \in NodesOf(r) : IsEntry(e)  BY <1>1 DEF NodesOf
<1>3. \A e \in NodesOf(r) : IsEntry(e)'  BY <1>2, EntryFrame
<1>4. NodesOf(stack)' = NodesOf(r) /\ IsChain(stack)'  OBVIOUS
<1>5. EntriesAgree'  BY <1>3, <1>4 DEF EntriesAgree
<1> QED  BY <1>4, <1>5 DEF StackInv

LEMMA StackPushed ==
  ASSUME StackInv, tags' = tags, NEW n \in 0..Len(stack), NEW x, IsEntry(x),
         stack' = Append(SubSeq(stack, 1, Len(stack) - n), x)
  PROVE  StackInv'
<1> DEFINE r == Append(SubSeq(stack, 1, Len(stack) - n), x)
<1>1. IsChain(stack)  BY DEF StackInv
<1>2. IsChain(r) /\ \A i \in DOMAIN r : r[i] = x \/ (i \in DOMAIN stack /\ r[i] = stack[i])
  BY <1>1, Pushed
<1>3. stack' = r  OBVIOUS
<1> HIDE DEF r
<1> QED  BY <1>2, <1>3, StackStep

LEMMA StackGrown ==
  ASSUME StackInv, tags' = tags, NEW x, IsEntry(x), stack' = Append(stack, x)
  PROVE  StackInv'
<1> DEFINE S == NodesOf(stack) \cup {x}
           r == Append(stack, x)
<1>1. /\ IsChain(stack) /\ stack \in Seq(S) /\ x \in S /\ Len(stack) \in Nat
      /\ DOMAIN stack = 1..Len(stack)
  <2>1. IsChain(stack)  BY DEF StackInv
  <2>2. stack \in Seq(NodesOf(stack))  BY <2>1 DEF IsChain
  <2> QED  BY <2>1, <2>2, ChainDomain
<1> HIDE DEF S
<1>2. /\ r \in Seq(S) /\ Len(r) = Len(stack) + 1 /\ r[Len(stack) + 1] = x
      /\ \A i \in 1..Len(stack) : r[i] = stack[i]
  BY <1>1, AppendProperties
<1>3. stack' = r  OBVIOUS
<1> HIDE DEF r
<1>4. IsChain(r)  BY <1>2, ChainOf
<1>5. DOMAIN r = 1..(Len(stack) + 1)  BY <1>2, <1>4, ChainDomain
<1>6. \A i \in DOMAIN r : r[i] = x \/ (i \in DOMAIN stack /\ r[i] = stack[i])
  BY <1>1, <1>2, <1>5
<1> QED  BY <1>3, <1>4, <1>6, StackStep

LEMMA StackReplaced ==
  ASSUME StackInv, tags' = tags, NEW x, IsEntry(x), Len(stack) >= 1,
         stack' = [stack EXCEPT ![Len(stack)] = x]
  PROVE  StackInv'
<1> DEFINE r == [stack EXCEPT ![Len(stack)] = x]
<1>1. IsChain(stack) /\ Len(stack) \in Nat /\ DOMAIN stack = 1..Len(stack)
  BY ChainDomain DEF StackInv
<1>2. /\ r = [i \in 1..Len(stack) |-> r[i]]
      /\ \A i \in DOMAIN r : r[i] = x \/ (i \in DOMAIN stack /\ r[i] = stack[i])
  BY <1>1
<1>3. stack' = r  OBVIOUS
<1> HIDE DEF r
<1>4. IsChain(r)  BY <1>1, <1>2, ChainOn
<1> QED  BY <1>2, <1>3, <1>4, StackStep

LEMMA TopIs ==
  ASSUME StackInv, NEW i \in 1..Len(stack)
  PROVE  IsEntry(Top(i))
<1>1. Len(stack) \in Nat /\ DOMAIN stack = 1..Len(stack)
  BY ChainDomain DEF StackInv
<1>2. Len(stack) + 1 - i \in DOMAIN stack  BY <1>1
<1> QED  BY <1>2 DEF StackInv, EntriesAgree, NodesOf, Top

LEMMA ExpressionIs ==
  ASSUME NEW op, NEW type, NEW meant, NEW lvalue, NEW kept, NEW mixed
  PROVE  LET e == Expression(op, type, meant, lvalue, kept, mixed)
         IN /\ e.op = op /\ e.type = type /\ e.meant = meant /\ e.mixed = mixed /\ e.const = "no"
            /\ e.kept = kept /\ e.lvalue = lvalue
BY DEF Expression

\* What is left of the operator's n operands.
LEMMA Reduced ==
  ASSUME StackInv, NEW n \in 0..Len(stack), NEW op, op # "SYMBOL", NEW passes, NEW outcomes, NEW meant,
         NEW lvalue, NEW kept, NEW mixed,
         Reduce(n, op, passes, outcomes, meant, lvalue, kept, mixed),
         \A o \in outcomes : passes /\ o.ends = "typed" /\ ~need_calc_value(op) /\ ~mixed =>
           IsResult(op, o.type, meant, lvalue, kept)
  PROVE  StackInv'
<1>1. /\ tags' = tags
      /\ \/ stack' = <<>>
         \/ /\ passes
            /\ \E o \in outcomes :
                 /\ Valued(op, o).ends = "typed"
                 /\ stack' = Append(SubSeq(stack, 1, Len(stack) - n),
                              Expression(op, Valued(op, o).type, meant, lvalue, kept, mixed))
  BY Zenon DEF Reduce
<1>2. CASE stack' = <<>>  BY <1>1, <1>2, StackEmptied
<1>3. CASE stack' # <<>>
  <2>0. passes  BY <1>1, <1>3
  <2>1. PICK o \in outcomes :
          /\ Valued(op, o).ends = "typed"
          /\ stack' = Append(SubSeq(stack, 1, Len(stack) - n),
                        Expression(op, Valued(op, o).type, meant, lvalue, kept, mixed))
    BY <1>1, <1>3, Zenon
  <2>2. Valued(op, o) = o /\ o.ends = "typed" /\ ~need_calc_value(op)
    <3>1. Refused.ends # "typed"  BY DEF Refused
    <3>2. \/ Valued(op, o) = o /\ ~(o.ends = "typed" /\ need_calc_value(op))
          \/ Valued(op, o) = Refused
      BY Zenon DEF Valued
    <3> QED  BY <2>1, <3>1, <3>2
  <2> DEFINE x == Expression(op, o.type, meant, lvalue, kept, mixed)
  <2>3. /\ x.op = op /\ x.type = o.type /\ x.meant = meant /\ x.mixed = mixed
        /\ x.lvalue = lvalue /\ x.kept = kept
    BY ExpressionIs
  <2>4. stack' = Append(SubSeq(stack, 1, Len(stack) - n), x)  BY <2>1, <2>2
  <2> HIDE DEF x
  <2>5. ~mixed => IsResult(op, o.type, meant, lvalue, kept)
    BY <2>0, <2>2
  <2>6. IsEntry(x)
    <3> SUFFICES ASSUME ~x.mixed
                 PROVE  /\ IsResult(x.op, x.type, x.meant, x.lvalue, x.kept)
                        /\ AddressCheck(x) => x.lvalue
      BY DEF IsEntry
    <3>1. ~mixed  BY <2>3
    <3>2. IsResult(x.op, x.type, x.meant, x.lvalue, x.kept)  BY <2>3, <2>5, <3>1
    <3>3. x.op \in {"DEREF", "ARRAY_INDEX"} => x.lvalue  BY <3>2 DEF IsResult
    <3>4. AddressCheck(x) => x.op \in {"DEREF", "ARRAY_INDEX"}  BY <2>3 DEF AddressCheck
    <3> QED  BY <3>2, <3>3, <3>4
  <2> QED  BY <1>1, <2>4, <2>6, StackPushed
<1> QED  BY <1>2, <1>3

LEMMA PushStep ==
  ASSUME StackInv, NEW s \in Symbols, PushSymbol(s)
  PROVE  StackInv'
<1> DEFINE copied == CopiedConst(s.type)
           lvalue == s.const = "no"
           y == Expression("SYMBOL", copied.type, s.type, lvalue, TRUE, FALSE)
           x == [y EXCEPT !.const = s.const]
<1>1. tags' = tags /\ (stack' = <<>> \/ (copied.ends = "typed" /\ stack' = Append(stack, x)))
  BY Zenon DEF PushSymbol
<1>2. CASE stack' = <<>>  BY <1>1, <1>2, StackEmptied
<1>3. CASE stack' # <<>>
  <2>1. copied.ends = "typed" /\ stack' = Append(stack, x)  BY <1>1, <1>3
  <2>2. /\ x.op = "SYMBOL" /\ x.type = copied.type /\ x.meant = s.type /\ x.const = s.const
        /\ x.lvalue = lvalue /\ x.kept = TRUE
    <3> HIDE DEF lvalue, copied
    <3> QED  BY DEF Expression
  <2> HIDE DEF x
  <2>3. IsDeclared(s.type)  BY SymbolsAssumption
  <2>4. Exactly(copied.type, s.type)
    <3>1. Exactly(s.type, s.type)  BY <2>3, SelfAgrees
    <3>2. Agrees(s.type, s.type)  BY <3>1 DEF Exactly
    <3> QED  BY <2>1, <3>1, <3>2, ConstAgrees
  <2>5. IsOperand(copied.type) /\ "const" \in QualsOf(copied.type[1])
    <3>1. IsLinked(s.type) /\ KnownParameters(s.type)
      BY <2>3, ParametersAssumption DEF IsDeclared
    <3> QED  BY <2>1, <3>1, CopiedOperand
  <2> HIDE DEF copied
  <2>6. AddressCheck(x) => x.lvalue  BY <2>2 DEF AddressCheck
  <2> HIDE DEF lvalue
  <2>7. IsResult(x.op, x.type, x.meant, x.lvalue, x.kept)
    BY <2>2, <2>4, <2>5 DEF IsResult, Exactly
  <2>8. IsEntry(x)  BY <2>6, <2>7 DEF IsEntry
  <2> QED  BY <1>1, <2>1, <2>8, StackGrown
<1> QED  BY <1>2, <1>3

LEMMA SizeofStep ==
  ASSUME StackInv, Sizeof
  PROVE  StackInv'
<1> DEFINE w == IntegerWord("unsigned", "none")
           t == alloc_simple_type(w, {})
           y == Expression("SYMBOL", Const(t), t, FALSE, TRUE, FALSE)
           x == [y EXCEPT !.const = "other"]
<1>1. /\ tags' = tags /\ Len(stack) >= 1
      /\ stack' = <<>> \/ stack' = [stack EXCEPT ![Len(stack)] = x]
  BY Zenon DEF Sizeof, Parsing
<1>2. CASE stack' = <<>>  BY <1>1, <1>2, StackEmptied
<1>3. CASE stack' = [stack EXCEPT ![Len(stack)] = x]
  <2>1. w \in PlainWords /\ w # LostWord
    BY DEF PlainWords, UnsignedWords, Lengths, LostWord, IntegerWord, Word
  <2> HIDE DEF w
  <2>2. IsDeclared(t) /\ IsLinked(t) /\ class(t) = "simple" /\ Len(t) = 1
    BY <2>1, SimpleLinked
  <2> HIDE DEF t
  <2>3. /\ x.op = "SYMBOL" /\ x.type = Const(t) /\ x.meant = t /\ x.const = "other"
        /\ x.kept = TRUE
    BY DEF Expression
  <2> HIDE DEF x
  <2>4. Exactly(t, t)  BY <2>2, SelfAgrees
  <2>5. IsLike(Const(t), t) /\ "const" \in QualsOf(Const(t)[1])  BY <2>2, ConstIs
  <2>6. Exactly(Const(t), t)  BY <2>4, <2>5, LikeAgrees DEF Exactly
  <2>7. IsOperand(Const(t))
    <3>1. IsLinked(Const(t)) /\ Len(Const(t)) = 1  BY <2>2, <2>5, LikeLinked DEF IsLike
    <3> QED  BY <3>1, SimpleOperand
  <2>8. IsResult(x.op, x.type, x.meant, x.lvalue, x.kept)
    BY <2>3, <2>5, <2>6, <2>7 DEF IsResult, Exactly
  <2>9. IsEntry(x)  BY <2>3, <2>8 DEF IsEntry, AddressCheck
  <2> QED  BY <1>1, <1>3, <2>9, StackReplaced
<1> QED  BY <1>1, <1>2, <1>3

LEMMA UnaryStep ==
  ASSUME StackInv, NEW op \in UnaryOps, Unary(op)
  PROVE  StackInv'
<1> DEFINE e == Top(1)
           points == op = "DEREF" /\ is_pointer_array(word(e.meant))
           passes == UnaryCheck(op, e)
           outcomes == {UnaryType(op, e.type)}
           meant == CASE points -> to(e.meant)
                      [] op = "ADDRESS" -> alloc_pointer_type({}, e.meant)
                      [] OTHER -> e.meant
           lvalue == op = "DEREF"
           kept == CASE op = "ADDRESS" -> e.lvalue [] op \in Stepped -> Modifiable(e)
                     [] OTHER -> TRUE
           mixed == e.mixed
<1>1. Reduce(1, op, passes, outcomes, meant, lvalue, kept, mixed)
  BY Zenon DEF Unary
<1>2. Len(stack) \in Nat /\ Len(stack) >= 1
  <2>1. Len(stack) \in Nat  BY ChainDomain DEF StackInv
  <2> QED  BY <2>1 DEF Unary, Parsing
<1>3. 1 \in 0..Len(stack) /\ 1 \in 1..Len(stack)  BY <1>2
<1>4. IsEntry(e)  BY <1>3, TopIs
<1> HIDE DEF e
<1>5. ASSUME NEW o \in outcomes, passes, o.ends = "typed", ~need_calc_value(op), ~mixed
      PROVE  IsResult(op, o.type, meant, lvalue, kept)
  <2>1. /\ Agrees(e.type, e.meant) /\ IsLinked(e.type)
        /\ e.op \in Objects => Exactly(e.type, e.meant)
        /\ KnownParameters(e.type) /\ (e.lvalue \/ "const" \in QualsOf(e.type[1]))
        /\ AddressCheck(e) => e.lvalue
    BY <1>4, <1>5 DEF IsEntry, IsResult, IsOperand, Agrees
  <2>2. op \in {"DEREF", "ADDRESS"} \cup Stepped
    BY <1>5 DEF UnaryOps, need_calc_value
  <2>3. CASE op = "DEREF"
    <3>0. op # "ADDRESS" /\ op \notin Stepped  BY <2>3 DEF Stepped
    <3>1. is_pointer_array(word(e.type))
      <4>1. UnaryCheck(op, e) = DerefCheck(e.type)  BY <2>3, <3>0, Zenon DEF UnaryCheck
      <4> QED  BY <1>5, <4>1 DEF DerefCheck
    <3>2. o = Copied(to(e.type))
      <4>1. UnaryType(op, e.type) = Copied(to(e.type))
        BY <2>3, <3>0, Zenon DEF UnaryType, DerefType
      <4> QED  BY <4>1
    <3>3. is_pointer_array(word(e.meant)) /\ Exactly(o.type, to(e.meant))
      BY <1>5, <2>1, <3>1, <3>2, DerefAgrees
    <3>4. meant = to(e.meant)  BY <2>3, <3>3
    <3>5. IsOperand(o.type)
      <4>1. word(e.type) = e.type[1].type  BY <2>1, LinkedHead
      <4>2. e.type[1].type \in Links  BY <3>1, <4>1 DEF is_pointer_array, Links
      <4>3. IsLinked(to(e.type)) /\ KnownParameters(to(e.type))
        BY <2>1, <4>2, LinkedTail, TailKnows
      <4> QED  BY <1>5, <3>2, <4>3, CopiedOperand
    <3>6. lvalue /\ kept  BY <2>3, <3>0, Zenon
    <3> HIDE DEF lvalue, kept
    <3> QED  BY <3>3, <3>4, <3>5, <3>6 DEF Exactly, IsResult
  <2>4. CASE op = "ADDRESS"
    <3>0. op # "DEREF" /\ op \notin Stepped  BY <2>4 DEF Stepped
    <3>1. AddressCheck(e) /\ e.op \in Objects
      <4>1. UnaryCheck(op, e) = AddressCheck(e)  BY <2>4, <3>0, Zenon DEF UnaryCheck
      <4> QED  BY <1>5, <4>1 DEF AddressCheck, Objects
    <3>2. o.type = alloc_pointer_type({"const"}, e.type)
      <4>1. UnaryType(op, e.type) = Typed(alloc_pointer_type({"const"}, e.type))
        BY <2>4, <3>0, Zenon DEF UnaryType, AddressType
      <4> QED  BY <4>1 DEF Typed
    <3>3. Exactly(o.type, alloc_pointer_type({}, e.meant))
      BY <2>1, <3>1, <3>2, PointerAgrees
    <3>4. meant = alloc_pointer_type({}, e.meant)  BY <2>4
    <3>5. IsOperand(o.type) /\ "const" \in QualsOf(o.type[1])
      <4>1. QualsOf(alloc_pointer_type({"const"}, e.type)[1]) = {"const"}
        BY <2>1, PointerIs
      <4> QED  BY <2>1, <3>2, <4>1, PointerKnows
    <3>6. kept
      <4>1. kept = e.lvalue  BY <2>4, <3>0, Zenon
      <4> QED  BY <2>1, <3>1, <4>1
    <3>7. op \notin {"DEREF", "ARRAY_INDEX"}  BY <2>4
    <3> HIDE DEF lvalue, kept
    <3> QED  BY <3>3, <3>4, <3>5, <3>6, <3>7 DEF Exactly, IsResult
  <2>5. CASE op \in Stepped
    <3>1. op # "DEREF" /\ op # "ADDRESS" /\ op # "ARRAY_INDEX" /\ op \notin Objects
      BY <2>5 DEF Stepped, Objects
    <3>2. o = CopiedConst(e.type)  BY <2>5, <3>1 DEF UnaryType, StepType
    <3>3. Agrees(o.type, e.meant)  BY <1>5, <2>1, <3>2, ConstAgrees
    <3>4. meant = e.meant  BY <3>1
    <3>5. IsOperand(o.type) /\ "const" \in QualsOf(o.type[1])
      BY <1>5, <2>1, <3>2, CopiedOperand
    <3>6. kept
      <4>1. UnaryCheck(op, e) = StepCheck(e.type)  BY <2>5, <3>1, Zenon DEF UnaryCheck
      <4>2. is_lhs(e.type)  BY <1>5, <4>1 DEF StepCheck
      <4>3. kept = Modifiable(e)  BY <2>5, <3>1, Zenon
      <4> QED  BY <2>1, <4>2, <4>3, ModifiableIs
    <3> HIDE DEF lvalue, kept
    <3> QED  BY <3>1, <3>3, <3>4, <3>5, <3>6 DEF IsResult
  <2> QED  BY <2>2, <2>3, <2>4, <2>5
<1>6. op # "SYMBOL"  BY DEF UnaryOps, Stepped
<1> HIDE DEF points, passes, outcomes, meant, lvalue, kept, mixed
<1> QED  BY <1>1, <1>3, <1>5, <1>6, Reduced

LEMMA BinaryStep ==
  ASSUME StackInv, NEW op \in BinaryOps, Binary(op)
  PROVE  StackInv'
<1> DEFINE a == Top(2)
           b == Top(1)
           index == op = "ARRAY_INDEX" /\ is_pointer_array(word(a.meant))
           passes == BinaryCheck(op, a, b)
           outcomes == BinaryTypes(op, a.type, b.type)
           meant == CASE index -> to(a.meant)
                      [] is_assignment(op) -> Unqualified(a.meant)
                      [] OTHER -> a.meant
           kept == is_assignment(op) => Modifiable(a)
           mixed == \/ a.mixed \/ b.mixed
                    \/ is_assignment(op) /\ (Shape(a.meant) # Shape(b.meant)
                                             \/ DiffersInKind(a.meant, b.meant))
<1>1. Reduce(2, op, passes, outcomes, meant, index, kept, mixed)
  BY Zenon DEF Binary
<1>2. Len(stack) \in Nat /\ Len(stack) >= 2
  <2>1. Len(stack) \in Nat  BY ChainDomain DEF StackInv
  <2> QED  BY <2>1 DEF Binary, Parsing
<1>3. 2 \in 0..Len(stack) /\ 2 \in 1..Len(stack) /\ 1 \in 1..Len(stack)  BY <1>2
<1>4. IsEntry(a) /\ IsEntry(b)  BY <1>3, TopIs
<1> HIDE DEF a, b
<1>5. ASSUME NEW o \in outcomes, passes, o.ends = "typed", ~need_calc_value(op), ~mixed
      PROVE  IsResult(op, o.type, meant, index, kept)
  <2>0. /\ ~a.mixed /\ ~b.mixed
        /\ is_assignment(op) => Shape(a.meant) = Shape(b.meant) /\ ~DiffersInKind(a.meant, b.meant)
    BY <1>5, Zenon
  <2>1. /\ Agrees(a.type, a.meant) /\ Agrees(b.type, b.meant)
        /\ IsLinked(a.type) /\ KnownParameters(a.type)
        /\ IsLinked(b.type) /\ KnownParameters(b.type)
        /\ a.lvalue \/ "const" \in QualsOf(a.type[1])
    BY <1>4, <2>0 DEF IsEntry, IsResult, IsOperand, Agrees
  <2>2. op \in {"ARRAY_INDEX"} \cup Assignments
    BY <1>5 DEF BinaryOps, need_calc_value
  <2>3. CASE op = "ARRAY_INDEX"
    <3>0. op \notin MultOps \cup BitOps \cup ShiftOps \cup {"ADD", "SUB"} \cup Relations
                    \cup {"EQ", "NE"} \cup LogicOps \cup Assignments
      BY <2>3 DEF MultOps, BitOps, ShiftOps, Relations, LogicOps, Assignments, MultAssigns,
                  AddAssigns, BitAssigns, ShiftAssigns
    <3>1. is_pointer_array(word(a.type))
      <4>1. BinaryCheck(op, a, b) => IndexCheck(a.type, b.type)
        BY <2>3, <3>0 DEF BinaryCheck, Assignments
      <4> QED  BY <1>5, <4>1 DEF IndexCheck
    <3>2. o = Copied(to(a.type))
      <4>1. BinaryTypes(op, a.type, b.type) = {IndexType(a.type)}
        BY <2>3, <3>0 DEF BinaryTypes
      <4> QED  BY <4>1 DEF IndexType
    <3>3. is_pointer_array(word(a.meant)) /\ Exactly(o.type, to(a.meant))
      BY <1>5, <2>1, <3>1, <3>2, DerefAgrees
    <3>4. meant = to(a.meant)
      <4>1. ~is_assignment(op)
        BY <2>3 DEF is_assignment, Assignments, MultAssigns, AddAssigns, BitAssigns, ShiftAssigns
      <4> QED  BY <2>3, <3>3, <4>1
    <3>5. IsOperand(o.type)
      <4>1. word(a.type) = a.type[1].type  BY <2>1, LinkedHead
      <4>2. a.type[1].type \in Links  BY <3>1, <4>1 DEF is_pointer_array, Links
      <4>3. IsLinked(to(a.type)) /\ KnownParameters(to(a.type))
        BY <2>1, <4>2, LinkedTail, TailKnows
      <4> QED  BY <1>5, <3>2, <4>3, CopiedOperand
    <3>6. index /\ kept
      <4>1. index  BY <2>3, <3>3
      <4>2. ~is_assignment(op)  BY <3>0 DEF is_assignment
      <4> QED  BY <4>1, <4>2
    <3> HIDE DEF index, kept
    <3> QED  BY <3>3, <3>4, <3>5, <3>6 DEF Exactly, IsResult
  <2>4. CASE op \in Assignments
    <3>1. /\ op \notin {"ARRAY_INDEX"} \cup MultOps \cup BitOps \cup ShiftOps \cup {"ADD", "SUB"}
                        \cup Relations \cup {"EQ", "NE"} \cup LogicOps \cup Objects
          /\ is_assignment(op)
      BY <2>4 DEF is_assignment, Assignments, MultAssigns, AddAssigns, BitAssigns, ShiftAssigns,
                  MultOps, BitOps, ShiftOps, Relations, LogicOps, Objects
    <3>2. outcomes = {Crashed, CopiedConst(b.type)}
      BY <2>4, <3>1 DEF BinaryTypes, AssignTypes
    <3>3. o = CopiedConst(b.type)
      <4>1. Crashed.ends # "typed"  BY DEF Crashed
      <4> QED  BY <1>5, <3>2, <4>1
    <3>4. IsDeclared(a.meant)  BY <2>1 DEF Agrees
    <3>5. tags["s"].quals = {}  BY DEF StackInv
    <3>6. Agrees(o.type, Unqualified(a.meant))
      BY <1>5, <2>0, <2>1, <3>1, <3>3, <3>4, <3>5, AssignAgrees
    <3>7. meant = Unqualified(a.meant)  BY <3>1
    <3>8. IsOperand(o.type) /\ "const" \in QualsOf(o.type[1])
      BY <1>5, <2>1, <3>3, CopiedOperand
    <3>9. kept
      <4>1. is_lhs(a.type)  BY <1>5, <3>1, Zenon DEF BinaryCheck
      <4>2. Modifiable(a)  BY <2>1, <4>1, ModifiableIs
      <4> QED  BY <4>2
    <3>10. op \notin {"DEREF", "ARRAY_INDEX"}  BY <3>1 DEF Objects
    <3> HIDE DEF index, kept
    <3> QED  BY <3>1, <3>6, <3>7, <3>8, <3>9, <3>10 DEF IsResult
  <2> QED  BY <2>2, <2>3, <2>4
<1>6. op # "SYMBOL"
  BY DEF BinaryOps, ArithmeticOps, Assignments, MultOps, BitOps, ShiftOps, Relations, LogicOps,
         MultAssigns, AddAssigns, BitAssigns, ShiftAssigns
<1> HIDE DEF index, passes, outcomes, meant, kept, mixed
<1> QED  BY <1>1, <1>3, <1>5, <1>6, Reduced

LEMMA ConditionStep ==
  ASSUME StackInv, Condition
  PROVE  StackInv'
<1> DEFINE c == Top(3)
           a == Top(2)
           b == Top(1)
           passes == ConditionCheck(c, a, b)
           outcomes == {ConditionType(a.type, b.type)}
           meant == MeantPair(a.meant, b.meant)
           mixed == \/ a.mixed \/ b.mixed \/ DiffersInKind(a.meant, b.meant)
                    \/ LostLongLong(a.type) /\ Shape(a.meant) # Shape(b.meant)
<1>1. Reduce(3, "CONDITION", passes, outcomes, meant, FALSE, TRUE, mixed)
  BY Zenon DEF Condition
<1>2. Len(stack) \in Nat /\ Len(stack) >= 3
  <2>1. Len(stack) \in Nat  BY ChainDomain DEF StackInv
  <2> QED  BY <2>1 DEF Condition, Parsing
<1>3. 3 \in 0..Len(stack) /\ 2 \in 1..Len(stack) /\ 1 \in 1..Len(stack)  BY <1>2
<1>4. IsEntry(a) /\ IsEntry(b)  BY <1>3, TopIs
<1> HIDE DEF a, b, c
<1>5. ASSUME NEW o \in outcomes, passes, o.ends = "typed", ~need_calc_value("CONDITION"), ~mixed
      PROVE  IsResult("CONDITION", o.type, meant, FALSE, TRUE)
  <2>1. /\ ~a.mixed /\ ~b.mixed /\ ~DiffersInKind(a.meant, b.meant)
        /\ LostLongLong(a.type) => Shape(a.meant) = Shape(b.meant)
    BY <1>5, Zenon
  <2>2. /\ Agrees(a.type, a.meant) /\ Agrees(b.type, b.meant)
        /\ IsLinked(a.type) /\ KnownParameters(a.type)
    BY <1>4, <2>1 DEF IsEntry, IsResult, IsOperand, Agrees
  <2>3. is_arithmetic(word(a.type)) => is_arithmetic(word(b.type))
    BY <1>5, Zenon DEF ConditionCheck
  <2>4. o = ConditionType(a.type, b.type)  OBVIOUS
  <2>5. tags["s"].quals = {}  BY DEF StackInv
  <2>6. Agrees(o.type, meant)
    BY <1>5, <2>1, <2>2, <2>3, <2>4, <2>5, ConditionAgrees
  <2>7. IsOperand(o.type) /\ "const" \in QualsOf(o.type[1])
    BY <1>5, <2>2, <2>3, <2>4, ConditionOperand
  <2>8. "CONDITION" \notin Objects  BY DEF Objects
  <2> HIDE DEF meant
  <2> QED  BY <2>6, <2>7, <2>8 DEF IsResult
<1> HIDE DEF passes, outcomes, meant, mixed
<1> QED  BY <1>1, <1>3, <1>5, Reduced

LEMMA FuncallStep ==
  ASSUME StackInv, NEW n \in 0..2, Funcall(n)
  PROVE  StackInv'
<1> DEFINE f == Top(n + 1)
           args == [i \in 1..n |-> Top(n + 1 - i)]
           callee == Callee(f.type)
           passes == CallCheck(f, args)
           target == Head(Callee(f.meant))
           outcomes == IF passes THEN {CopiedConst(to(callee))} ELSE {}
           meant == IF passes THEN to(Callee(f.meant)) ELSE f.meant
           kept == passes => /\ \/ Len(args) = Len(target.args)
                                \/ (Len(args) > Len(target.args) /\ target.ellipsis)
                             /\ \A i \in DOMAIN args \cap DOMAIN target.args :
                                  ConvertsTo(target.args[i], args[i].meant)
           mixed == f.mixed \/ \E i \in DOMAIN args : args[i].mixed
<1>1. Reduce(n + 1, "FUNCALL", passes, outcomes, meant, FALSE, kept, mixed)
  BY Zenon DEF Funcall
<1>2. Len(stack) \in Nat /\ Len(stack) >= n + 1
  <2>1. Len(stack) \in Nat  BY ChainDomain DEF StackInv
  <2> QED  BY <2>1 DEF Funcall, Parsing
<1>3. n + 1 \in 0..Len(stack) /\ n + 1 \in 1..Len(stack)  BY <1>2
<1>4. IsEntry(f)  BY <1>3, TopIs
<1>5. IsChain(args)
  <2>1. n \in Nat /\ args = [i \in 1..n |-> args[i]]  OBVIOUS
  <2> HIDE DEF args
  <2> QED  BY <2>1, ChainOn
<1>6. \A i \in DOMAIN args : IsEntry(args[i])
  <2> SUFFICES ASSUME NEW i \in 1..n PROVE IsEntry(args[i])
    OBVIOUS
  <2>1. n + 1 - i \in 1..Len(stack)  BY <1>2
  <2>2. args[i] = Top(n + 1 - i)  OBVIOUS
  <2> QED  BY <2>1, <2>2, TopIs
<1> HIDE DEF f, args
<1>7. ASSUME NEW o \in outcomes, passes, o.ends = "typed", ~need_calc_value("FUNCALL"), ~mixed
      PROVE  IsResult("FUNCALL", o.type, meant, FALSE, kept)
  <2>1. ~f.mixed /\ \A i \in DOMAIN args : ~args[i].mixed  BY <1>7, Zenon
  <2>2. Agrees(f.type, f.meant) /\ IsLinked(f.type) /\ KnownParameters(f.type)
    BY <1>4, <2>1 DEF IsEntry, IsResult, IsOperand, Agrees
  <2>3. word(Callee(f.type)) = Base("function")  BY <1>7, Zenon DEF CallCheck
  <2>4. meant = to(Callee(f.meant))  BY <1>7, Zenon
  <2>5. o = CopiedConst(to(Callee(f.type)))
    <3>1. outcomes = {CopiedConst(to(Callee(f.type)))}  BY <1>7, Zenon
    <3> QED  BY <3>1
  <2>6. Exactly(o.type, to(Callee(f.meant)))  BY <1>7, <2>2, <2>3, <2>5, CallAgrees
  <2>7. IsOperand(o.type) /\ "const" \in QualsOf(o.type[1])
    <3> DEFINE c == Callee(f.type)
    <3>1. /\ IsLinked(c) /\ KnownParameters(c) /\ c[1].type = Base("function")
      BY <2>2, <2>3, CalleeAgrees, CalleeKnows DEF Agrees
    <3> HIDE DEF c
    <3>2. c[1].type \in Links  BY <3>1 DEF Links
    <3>3. IsLinked(to(c)) /\ KnownParameters(to(c))  BY <3>1, <3>2, LinkedTail, TailKnows
    <3>4. o = CopiedConst(to(c))  BY <2>5 DEF c
    <3> QED  BY <1>7, <3>3, <3>4, CopiedOperand
  <2>8. kept
    <3>1. \A i \in DOMAIN args :
            Agrees(args[i].type, args[i].meant) /\ args[i].type[1].type # Base("function")
      BY <1>6, <2>1 DEF IsEntry, IsResult, IsOperand
    <3>2. CallCheck(f, args)  BY <1>7
    <3> QED  BY <1>5, <2>2, <3>1, <3>2, CallKept
  <2>9. "FUNCALL" \notin Objects  BY DEF Objects
  <2> HIDE DEF kept, meant
  <2> QED  BY <2>4, <2>6, <2>7, <2>8, <2>9 DEF Exactly, IsResult
<1> HIDE DEF passes, outcomes, meant, kept, mixed
<1> QED  BY <1>1, <1>3, <1>7, Reduced

\* Members, casts and lists are refused, or crash.
LEMMA EndedStep ==
  ASSUME StackInv,
         \/ \E op \in {"MEMBER", "MEMBER_PTR"} : MemberOf(op)
         \/ \E t \in CastTypes : Cast(t)
         \/ Comma
  PROVE  StackInv'
<1>0. Len(stack) \in Nat  BY ChainDomain DEF StackInv
<1>1. Crashed.ends # "typed" /\ Refused.ends # "typed"  BY DEF Crashed, Refused
<1>2. ASSUME NEW op \in {"MEMBER", "MEMBER_PTR"}, MemberOf(op) PROVE StackInv'
  <2> DEFINE e == Top(1)
             passes == MemberCheck(op, e.type)
             outcomes == MemberOutcomes(e)
             meant == e.meant
  <2>1. Reduce(1, op, passes, outcomes, meant, FALSE, TRUE, FALSE)
    BY <1>2, Zenon DEF MemberOf
  <2>2. 1 \in 0..Len(stack)  BY <1>0, <1>2 DEF MemberOf, Parsing
  <2>3. \A o \in outcomes : o.ends # "typed"
    <3>1. outcomes \subseteq {Crashed, Refused}  BY DEF MemberOutcomes
    <3> QED  BY <1>1, <3>1
  <2> HIDE DEF passes, outcomes, meant
  <2> QED  BY <2>1, <2>2, <2>3, Reduced
<1>3. ASSUME NEW t \in CastTypes, Cast(t) PROVE StackInv'
  <2> DEFINE passes == CastCheck(Top(1).type, t)
             outcomes == CastOutcomes
  <2>1. Reduce(1, "CAST", passes, outcomes, t, FALSE, TRUE, FALSE)
    BY <1>3, Zenon DEF Cast
  <2>2. 1 \in 0..Len(stack)  BY <1>0, <1>3 DEF Cast, Parsing
  <2>3. \A o \in outcomes : o.ends # "typed"  BY <1>1 DEF CastOutcomes
  <2> HIDE DEF passes, outcomes
  <2> QED  BY <2>1, <2>2, <2>3, Reduced
<1>4. CASE Comma
  <2> DEFINE outcomes == {Crashed}
             meant == Top(1).meant
  <2>1. Reduce(2, "COMPOUND", TRUE, outcomes, meant, FALSE, TRUE, FALSE)
    BY <1>4, Zenon DEF Comma
  <2>2. 2 \in 0..Len(stack)  BY <1>0, <1>4 DEF Comma, Parsing
  <2>3. \A o \in outcomes : o.ends # "typed"  BY <1>1
  <2> HIDE DEF outcomes, meant
  <2> QED  BY <2>1, <2>2, <2>3, Reduced
<1> QED  BY <1>2, <1>3, <1>4

-----------------------------------------------------------------------------
(* Theorems on expressions.                                                *)

LEMMA InitStack ==
  ASSUME ExprInit
  PROVE  StackInv
<1>1. stack = <<>> /\ tags["s"].quals = {}  BY DEF ExprInit
<1>2. IsChain(<<>>)
  <2>1. <<>> \in Seq({})  OBVIOUS
  <2> QED  BY <2>1, ChainOf
<1>3. NodesOf(<<>>) = {}  BY DEF NodesOf
<1> QED  BY <1>1, <1>2, <1>3 DEF StackInv, EntriesAgree

LEMMA ExpressionStep ==
  ASSUME StackInv, [ExprNext]_exprVars
  PROVE  StackInv'
<1>1. CASE UNCHANGED exprVars
  <2>1. stack' = stack /\ tags' = tags  BY <1>1 DEF exprVars
  <2>2. IsChain(stack)' /\ tags'["s"].quals = {}  BY <2>1 DEF StackInv
  <2>3. EntriesAgree'
    <3>1. \A e \in NodesOf(stack) : IsEntry(e)'  BY <2>1, EntryFrame DEF StackInv, EntriesAgree
    <3> QED  BY <2>1, <3>1 DEF EntriesAgree
  <2> QED  BY <2>2, <2>3 DEF StackInv
<1>2. CASE \E s \in Symbols : PushSymbol(s)  BY <1>2, PushStep
<1>3. CASE \E op \in UnaryOps : Unary(op)  BY <1>3, UnaryStep
<1>4. CASE \E op \in BinaryOps : Binary(op)  BY <1>4, BinaryStep
<1>5. CASE Condition  BY <1>5, ConditionStep
<1>6. CASE \E n \in 0..2 : Funcall(n)  BY <1>6, FuncallStep
<1>7. CASE \/ \E op \in {"MEMBER", "MEMBER_PTR"} : MemberOf(op)
           \/ \E t \in CastTypes : Cast(t)
           \/ Comma
  BY <1>7, EndedStep
<1>8. CASE Sizeof  BY <1>8, SizeofStep
<1> QED  BY <1>1, <1>2, <1>3, <1>4, <1>5, <1>6, <1>7, <1>8 DEF ExprNext

LEMMA StackTypes ==
  ASSUME StackInv
  PROVE  ResultTypes
<1>1. ASSUME NEW i \in DOMAIN stack, ~stack[i].mixed
      PROVE  /\ Shape(Decayed(stack[i].type)) = Shape(Decayed(stack[i].meant))
             /\ KeepsQuals(stack[i].type, stack[i].meant)
  <2>1. IsEntry(stack[i])  BY DEF StackInv, EntriesAgree, NodesOf
  <2>2. Agrees(stack[i].type, stack[i].meant)  BY <1>1, <2>1 DEF IsEntry, IsResult
  <2> QED  BY <2>2, AgreesShape
<1>2. ASSUME NEW op \in Converting,
             BinaryCheck(op, Top(2), Top(1)), BothArithmetic(Top(2).type, Top(1).type),
             ~LongLongAndUnsignedLong(word(Top(2).type), word(Top(1).type))
      PROVE  \A end \in BinaryTypes(op, Top(2).type, Top(1).type) :
               /\ end.ends = "typed"
               /\ NormalWord(word(end.type)) = Usual(word(Top(2).type), word(Top(1).type))
  <2> DEFINE t1 == Top(2).type
             t2 == Top(1).type
  <2>1. BothArithmetic(t1, t2) /\ ~LongLongAndUnsignedLong(word(t1), word(t2))  BY <1>2
  <2> HIDE DEF t1, t2
  <2>2. \A end \in BinaryTypes(op, t1, t2) :
          end.ends = "typed" /\ NormalWord(word(end.type)) = Usual(word(t1), word(t2))
    BY <2>1, ConvertedAsUsual
  <2> QED  BY <2>2 DEF t1, t2
<1> QED  BY <1>1, <1>2 DEF ResultTypes

\* Whatever is declared, every expression has the type it has in C and keeps each
\* const on the way to its object, and arithmetic operands are converted as usual
\* (ey_expr_calc_type over ey_type_copy and ey_type_promotion).
THEOREM ExpressionTypes == ExprSpec => []ResultTypes
<1>1. ExprInit => StackInv  BY InitStack
<1>2. StackInv /\ [ExprNext]_exprVars => StackInv'  BY ExpressionStep
<1>3. StackInv => ResultTypes  BY StackTypes
<1> QED  BY <1>1, <1>2, <1>3, PTL DEF ExprSpec

LEMMA StackKept ==
  ASSUME StackInv
  PROVE  ConstraintsKept
<1>1. \A i \in DOMAIN stack : IsEntry(stack[i])
  BY DEF StackInv, EntriesAgree, NodesOf
<1> QED  BY <1>1 DEF IsEntry, IsResult, ConstraintsKept

\* And what was accepted kept the constraints of its operators: ++, -- and the
\* assignments changed modifiable objects only, & was applied to objects only, and
\* calls passed what their functions take (ey_expr_operand_check).
THEOREM ConstraintsHold == ExprSpec => []ConstraintsKept
<1>1. ExprInit => StackInv  BY InitStack
<1>2. StackInv /\ [ExprNext]_exprVars => StackInv'  BY ExpressionStep
<1>3. StackInv => ConstraintsKept  BY StackKept
<1> QED  BY <1>1, <1>2, <1>3, PTL DEF ExprSpec


-----------------------------------------------------------------------------
(* What was built alike compares equal, and nothing else (EqualIsSame).    *)

Kinds == {"simple", "pointer", "tag", "array", "function"}

LEMMA MadeIs ==
  ASSUME NEW n, IsMadeNode(n)
  PROVE  /\ n.class \in Kinds
         /\ n.class = "simple" =>
              /\ n = [class |-> "simple", type |-> n.type, quals |-> n.quals]
              /\ n.type \notin Links \cup TagWords
         /\ n.class = "pointer" =>
              /\ n = [class |-> "pointer", type |-> Base("pointer"), quals |-> n.quals]
              /\ n.type = Base("pointer")
         /\ n.class = "tag" =>
              n = [class |-> "tag", type |-> n.type, tag |-> n.tag] /\ n.type \in SuWords
         /\ n.class = "array" =>
              /\ n = [class |-> "array", type |-> Base("array"), quals |-> {}, size |-> n.size,
                      alignment |-> n.alignment, count |-> 0, undefined |-> n.undefined]
              /\ n.type = Base("array") /\ n.count = 0 /\ n.quals = {}
         /\ n.class = "function" =>
              /\ n = [class |-> "function", type |-> Base("function"), quals |-> {},
                      args |-> n.args, ellipsis |-> n.ellipsis]
              /\ n.type = Base("function") /\ n.quals = {} /\ AreObjects(n.args)
<1>1. CASE n.class = "simple"  BY <1>1 DEF IsMadeNode, IsObjectNode, Kinds
<1>2. CASE n.class = "pointer"
  <2>1. n = [class |-> "pointer", type |-> Base("pointer"), quals |-> n.quals]
    BY <1>2 DEF IsMadeNode, IsObjectNode
  <2>2. n.type = Base("pointer")  BY <2>1
  <2> QED  BY <1>2, <2>1, <2>2 DEF Kinds
<1>3. CASE n.class = "tag"  BY <1>3 DEF IsMadeNode, IsObjectNode, Kinds
<1>4. CASE n.class = "array"
  <2>1. n = [class |-> "array", type |-> Base("array"), quals |-> {}, size |-> n.size,
             alignment |-> n.alignment, count |-> 0, undefined |-> n.undefined]
    BY <1>4 DEF IsMadeNode, IsObjectNode
  <2>2. n.type = Base("array") /\ n.count = 0 /\ n.quals = {}  BY <2>1
  <2> QED  BY <1>4, <2>1, <2>2 DEF Kinds
<1>5. CASE n.class = "function"
  <2>1. /\ n = [class |-> "function", type |-> Base("function"), quals |-> {},
                args |-> n.args, ellipsis |-> n.ellipsis]
        /\ AreObjects(n.args)
    BY <1>5 DEF IsMadeNode, IsObjectNode
  <2>2. n.type = Base("function") /\ n.quals = {}  BY <2>1
  <2> QED  BY <1>5, <2>1, <2>2 DEF Kinds
<1>6. n.class \in Kinds  BY DEF IsMadeNode, IsObjectNode, Kinds
<1> QED  BY <1>1, <1>2, <1>3, <1>4, <1>5, <1>6 DEF Kinds

\* A link is known by its class as by its type.
LEMMA MadeLinks ==
  ASSUME NEW n, IsMadeNode(n)
  PROVE  /\ n.type \in Links <=> n.class \in {"pointer", "array", "function"}
         /\ \A b \in {"pointer", "array", "function"} : n.class = b <=> n.type = Base(b)
<1>1. /\ n.class \in Kinds
      /\ n.class = "simple" => n.type \notin Links
      /\ n.class = "pointer" => n.type = Base("pointer")
      /\ n.class = "tag" => n.type \in SuWords
      /\ n.class = "array" => n.type = Base("array")
      /\ n.class = "function" => n.type = Base("function")
  BY MadeIs
<1>2. /\ \A b \in {"pointer", "array", "function"} : Base(b) \in Links /\ Base(b) \notin SuWords
      /\ Base("pointer") # Base("array") /\ Base("pointer") # Base("function")
      /\ Base("array") # Base("function") /\ \A w \in SuWords : w \notin Links
  BY DEF Links, SuWords, Base, Word
<1>3. n.type \in Links => \E b \in {"pointer", "array", "function"} : n.type = Base(b)
  BY DEF Links
<1> QED  BY <1>1, <1>2, <1>3, Zenon DEF Kinds

\* What of two nodes is compared.
SameParts(n, m, withQuals) ==
  /\ n.class = m.class /\ n.type = m.type
  /\ n.class # "tag" /\ withQuals => n.quals = m.quals
  /\ n.class = "tag" => n.tag = m.tag
  /\ n.class = "function" => n.args = m.args /\ n.ellipsis = m.ellipsis

LEMMA ComparedIs ==
  ASSUME NEW n, IsMadeNode(n), NEW m, IsMadeNode(m), NEW q \in BOOLEAN
  PROVE  Compared(n, q) = Compared(m, q) <=> SameParts(n, m, q)
<1> DEFINE A == [class |-> "array", type |-> Base("array"), quals |-> {}, count |-> 0]
           F(a, e) == [class |-> "function", type |-> Base("function"), quals |-> {},
                       args |-> a, ellipsis |-> e]
           P(t) == [class |-> "pointer", type |-> Base("pointer"), quals |-> t]
           G(t, g) == [class |-> "tag", type |-> t, tag |-> g]
           E(t, k) == [class |-> "simple", type |-> t, quals |-> k]
<1>1. ASSUME NEW x, IsMadeNode(x)
      PROVE  \/ x.class = "simple" /\ Compared(x, q) = E(x.type, IF q THEN x.quals ELSE {})
             \/ x.class = "pointer" /\ Compared(x, q) = P(IF q THEN x.quals ELSE {})
             \/ x.class = "tag" /\ Compared(x, q) = G(x.type, x.tag)
             \/ x.class = "array" /\ Compared(x, q) = A
             \/ x.class = "function" /\ Compared(x, q) = F(x.args, x.ellipsis)
  <2>1. CASE x.class = "simple"
    <3>1. x = E(x.type, x.quals)  BY <1>1, <2>1, MadeIs
    <3>2. Bare(x) = x  BY <2>1 DEF Bare
    <3>3. [x EXCEPT !.quals = {}] = E(x.type, {})  BY <3>1
    <3> QED  BY <2>1, <3>1, <3>2, <3>3 DEF Compared
  <2>2. CASE x.class = "pointer"
    <3>1. x = P(x.quals)  BY <1>1, <2>2, MadeIs
    <3>2. Bare(x) = x  BY <2>2 DEF Bare
    <3>3. [x EXCEPT !.quals = {}] = P({})  BY <3>1
    <3> QED  BY <2>2, <3>1, <3>2, <3>3 DEF Compared
  <2>3. CASE x.class = "tag"
    <3>1. x = G(x.type, x.tag)  BY <1>1, <2>3, MadeIs
    <3>2. Bare(x) = x  BY <2>3 DEF Bare
    <3> QED  BY <2>3, <3>1, <3>2 DEF Compared
  <2>4. CASE x.class = "array"
    <3>2. Bare(x) = [class |-> x.class, type |-> x.type, quals |-> x.quals, count |-> x.count]
      BY <2>4 DEF Bare
    <3>3. x.type = Base("array") /\ x.quals = {} /\ x.count = 0  BY <1>1, <2>4, MadeIs
    <3>4. Bare(x) = A  BY <2>4, <3>2, <3>3
    <3>5. [A EXCEPT !.quals = {}] = A  OBVIOUS
    <3> HIDE DEF A
    <3>6. [Bare(x) EXCEPT !.quals = {}] = A  BY <3>4, <3>5, Zenon
    <3> QED  BY <2>4, <3>4, <3>6 DEF Compared
  <2>5. CASE x.class = "function"
    <3>1. x = F(x.args, x.ellipsis)  BY <1>1, <2>5, MadeIs
    <3>2. Bare(x) = x  BY <2>5 DEF Bare
    <3>3. [x EXCEPT !.quals = {}] = F(x.args, x.ellipsis)  BY <3>1
    <3> QED  BY <2>5, <3>1, <3>2, <3>3 DEF Compared
  <2> QED  BY <1>1, <2>1, <2>2, <2>3, <2>4, <2>5, MadeIs DEF Kinds
<1>2. \A t, k : E(t, k).class = "simple" /\ E(t, k).type = t /\ E(t, k).quals = k
  OBVIOUS
<1>3. \A k : P(k).class = "pointer" /\ P(k).quals = k
  OBVIOUS
<1>4. \A t, g : G(t, g).class = "tag" /\ G(t, g).type = t /\ G(t, g).tag = g
  OBVIOUS
<1>5. A.class = "array"
  OBVIOUS
<1>6. \A a, e : F(a, e).class = "function" /\ F(a, e).args = a /\ F(a, e).ellipsis = e
  OBVIOUS
<1>7. ASSUME NEW x, IsMadeNode(x)
      PROVE  /\ x.class = "pointer" => x.type = Base("pointer")
             /\ x.class = "array" => x.type = Base("array") /\ x.quals = {}
             /\ x.class = "function" => x.type = Base("function") /\ x.quals = {}
  BY <1>7, MadeIs
<1>8. ASSUME NEW x, IsMadeNode(x) PROVE Compared(x, q).class = x.class
  <2> HIDE DEF A, F, P, G, E
  <2> DEFINE c == Compared(x, q)
  <2>1. \/ x.class = "simple" /\ c = E(x.type, IF q THEN x.quals ELSE {})
        \/ x.class = "pointer" /\ c = P(IF q THEN x.quals ELSE {})
        \/ x.class = "tag" /\ c = G(x.type, x.tag)
        \/ x.class = "array" /\ c = A
        \/ x.class = "function" /\ c = F(x.args, x.ellipsis)
    BY <1>1, <1>8
  <2> HIDE DEF c
  <2>2. E(x.type, IF q THEN x.quals ELSE {}).class = "simple"  BY <1>2
  <2>3. P(IF q THEN x.quals ELSE {}).class = "pointer"  BY <1>3
  <2>4. G(x.type, x.tag).class = "tag"  BY <1>4
  <2>5. F(x.args, x.ellipsis).class = "function"  BY <1>6
  <2>7. c.class = x.class  BY <1>5, <2>1, <2>2, <2>3, <2>4, <2>5
  <2> QED  BY <2>7 DEF c
<1> HIDE DEF A, F, P, G, E
<1>9. CASE n.class # m.class
  BY <1>8, <1>9 DEF SameParts
<1>10. CASE n.class = "simple" /\ m.class = "simple"
  <2>1. /\ Compared(n, q) = E(n.type, IF q THEN n.quals ELSE {})
        /\ Compared(m, q) = E(m.type, IF q THEN m.quals ELSE {})
    BY <1>1, <1>10
  <2> QED  BY <1>2, <1>10, <2>1 DEF SameParts
<1>11. CASE n.class = "pointer" /\ m.class = "pointer"
  <2>1. /\ Compared(n, q) = P(IF q THEN n.quals ELSE {})
        /\ Compared(m, q) = P(IF q THEN m.quals ELSE {})
    BY <1>1, <1>11
  <2> QED  BY <1>3, <1>7, <1>11, <2>1 DEF SameParts
<1>12. CASE n.class = "tag" /\ m.class = "tag"
  <2>1. Compared(n, q) = G(n.type, n.tag) /\ Compared(m, q) = G(m.type, m.tag)
    BY <1>1, <1>12
  <2> QED  BY <1>4, <1>12, <2>1 DEF SameParts
<1>13. CASE n.class = "array" /\ m.class = "array"
  <2>1. Compared(n, q) = A /\ Compared(m, q) = A
    BY <1>1, <1>13
  <2> QED  BY <1>7, <1>13, <2>1 DEF SameParts
<1>14. CASE n.class = "function" /\ m.class = "function"
  <2>1. Compared(n, q) = F(n.args, n.ellipsis) /\ Compared(m, q) = F(m.args, m.ellipsis)
    BY <1>1, <1>14
  <2>2. /\ n.type = m.type /\ n.quals = m.quals /\ n.class = m.class
        /\ n.class # "tag" /\ n.class = "function"
    BY <1>7, <1>14
  <2>3. SameParts(n, m, q) <=> n.args = m.args /\ n.ellipsis = m.ellipsis
    BY <2>2 DEF SameParts
  <2>4. /\ F(n.args, n.ellipsis).args = n.args /\ F(m.args, m.ellipsis).args = m.args
        /\ F(n.args, n.ellipsis).ellipsis = n.ellipsis /\ F(m.args, m.ellipsis).ellipsis = m.ellipsis
    BY <1>6, Zenon
  <2>5. F(n.args, n.ellipsis) = F(m.args, m.ellipsis)
        <=> n.args = m.args /\ n.ellipsis = m.ellipsis
    BY <2>4, Zenon
  <2> QED  BY <2>1, <2>3, <2>5, Zenon
<1>15. n.class \in Kinds /\ m.class \in Kinds  BY MadeIs
<1> QED  BY <1>9, <1>10, <1>11, <1>12, <1>13, <1>14, <1>15 DEF Kinds

LEMMA MadeHead ==
  ASSUME NEW t, IsMade(t)
  PROVE  /\ IsChain(t) /\ IsType(t) /\ Len(t) \in Nat \ {0} /\ DOMAIN t = 1..Len(t)
         /\ 1 \in DOMAIN t /\ Head(t) = t[1] /\ word(t) = t[1].type /\ class(t) = t[1].class
         /\ Quals(t) = QualsOf(t[1]) /\ IsMadeNode(t[1])
         /\ t[1].type \in Links <=> Len(t) > 1
<1>1. /\ IsChain(t) /\ IsType(t) /\ \A i \in DOMAIN t : IsMadeNode(t[i])
      /\ \A i \in DOMAIN t : t[i].type \in Links <=> i < Len(t)
  BY DEF IsMade, EndsInLeaf
<1>2. Len(t) \in Nat \ {0} /\ DOMAIN t = 1..Len(t) /\ 1 \in DOMAIN t /\ Head(t) = t[1]
  BY <1>1, HeadTail
<1> QED  BY <1>1, <1>2 DEF word, class, Quals

LEMMA MadeTail ==
  ASSUME NEW t, IsMade(t), t[1].type \in Links
  PROVE  /\ IsMade(to(t)) /\ Len(to(t)) = Len(t) - 1 /\ DOMAIN to(t) = 1..(Len(t) - 1)
         /\ \A i \in DOMAIN to(t) : i + 1 \in DOMAIN t /\ to(t)[i] = t[i + 1]
<1>1. /\ IsChain(t) /\ IsType(t) /\ \A i \in DOMAIN t : IsMadeNode(t[i])
      /\ \A i \in DOMAIN t : t[i].type \in Links <=> i < Len(t)
  BY DEF IsMade, EndsInLeaf
<1>2. /\ Len(t) \in Nat \ {0} /\ DOMAIN t = 1..Len(t) /\ 1 \in DOMAIN t
      /\ IsChain(to(t)) /\ Len(to(t)) = Len(t) - 1 /\ DOMAIN to(t) = 1..(Len(t) - 1)
      /\ \A i \in DOMAIN to(t) : i + 1 \in DOMAIN t /\ to(t)[i] = t[i + 1]
  BY <1>1, HeadTail
<1>3. 1 < Len(t)  BY <1>1, <1>2
<1>4. IsType(to(t))
  <2>1. Len(to(t)) # 0  BY <1>2, <1>3
  <2> QED  BY <1>2, <2>1, ChainDomain DEF IsType, NoType
<1> DEFINE r == to(t)
<1> HIDE DEF r
<1>5. \A i \in DOMAIN r : IsMadeNode(r[i]) /\ (r[i].type \in Links <=> i < Len(r))
  BY <1>1, <1>2 DEF r
<1> QED  BY <1>2, <1>4, <1>5 DEF IsMade, EndsInLeaf, r

LEMMA AfterTail ==
  ASSUME NEW t, IsMade(t), t[1].type \in Links, NEW i \in DOMAIN to(t)
  PROVE  AfterFunction(t, i + 1) <=> t[1].class = "function" \/ AfterFunction(to(t), i)
<1>1. /\ Len(t) \in Nat \ {0} /\ DOMAIN to(t) = 1..(Len(t) - 1)
      /\ \A j \in DOMAIN to(t) : to(t)[j] = t[j + 1]
  BY MadeHead, MadeTail
<1> DEFINE r == to(t)
<1> HIDE DEF r
<1>2. i \in Nat /\ i >= 1 /\ (i + 1) - 1 = i  BY <1>1
<1>3. \A j \in 1..i : j = 1 \/ (j - 1 \in 1..(i - 1) /\ (j - 1) + 1 = j)  BY <1>2
<1>4. \A j \in 1..(i - 1) : j \in DOMAIN r /\ j + 1 \in 1..i  BY <1>1, <1>2 DEF r
<1>5. \A j \in 1..(i - 1) : r[j] = t[j + 1]  BY <1>1, <1>4 DEF r
<1>6. 1 \in 1..i  BY <1>2
<1>7. AfterFunction(t, i + 1) <=> \E j \in 1..i : t[j].class = "function"
  BY <1>2 DEF AfterFunction
<1>8. AfterFunction(r, i) <=> \E j \in 1..(i - 1) : r[j].class = "function"
  BY DEF AfterFunction
<1>9. ASSUME NEW j \in 1..i, t[j].class = "function"
      PROVE  t[1].class = "function" \/ \E k \in 1..(i - 1) : r[k].class = "function"
  <2>1. CASE j = 1  BY <1>9, <2>1
  <2>2. CASE j # 1
    <3>1. j - 1 \in 1..(i - 1) /\ (j - 1) + 1 = j  BY <1>3, <2>2
    <3>2. r[j - 1] = t[j]  BY <1>5, <3>1
    <3> QED  BY <1>9, <3>1, <3>2
  <2> QED  BY <2>1, <2>2
<1>10. ASSUME NEW k \in 1..(i - 1), r[k].class = "function"
       PROVE  \E j \in 1..i : t[j].class = "function"
  BY <1>4, <1>5, <1>10
<1> QED  BY <1>6, <1>7, <1>8, <1>9, <1>10 DEF r

LEMMA AfterFirst == ASSUME NEW t PROVE ~AfterFunction(t, 1)
<1>1. \A j : j \notin 1..(1 - 1)  OBVIOUS
<1> QED  BY <1>1 DEF AfterFunction

\* Node by node.
LEMMA AlikeIs ==
  ASSUME NEW d, IsMade(d), NEW s, IsMade(s), NEW q \in BOOLEAN
  PROVE  BuiltAlike(d, s, q) <=>
           /\ Len(d) = Len(s)
           /\ \A i \in 1..Len(d) : Compared(d[i], q \/ AfterFunction(d, i))
                                   = Compared(s[i], q \/ AfterFunction(s, i))
<1>1. DOMAIN d = 1..Len(d)  BY MadeHead
<1> QED  BY <1>1 DEF BuiltAlike

LEMMA AlikeTail ==
  ASSUME NEW d, IsMade(d), d[1].type \in Links, NEW s, IsMade(s), s[1].type \in Links,
         d[1].class = s[1].class, NEW q \in BOOLEAN
  PROVE  BuiltAlike(d, s, q) <=>
           /\ SameParts(d[1], s[1], q)
           /\ BuiltAlike(to(d), to(s), q \/ d[1].class = "function")
<1> DEFINE n == Len(d)
           m == Len(s)
           p == q \/ d[1].class = "function"
           Same(i) == Compared(d[i], q \/ AfterFunction(d, i))
                      = Compared(s[i], q \/ AfterFunction(s, i))
           Further(i) == Compared(to(d)[i], p \/ AfterFunction(to(d), i))
                         = Compared(to(s)[i], p \/ AfterFunction(to(s), i))
<1>1. /\ n \in Nat \ {0} /\ m \in Nat \ {0} /\ n > 1 /\ m > 1
      /\ IsMadeNode(d[1]) /\ IsMadeNode(s[1])
  BY MadeHead
<1>2. /\ IsMade(to(d)) /\ Len(to(d)) = n - 1 /\ DOMAIN to(d) = 1..(n - 1)
      /\ \A i \in DOMAIN to(d) : to(d)[i] = d[i + 1]
      /\ IsMade(to(s)) /\ Len(to(s)) = m - 1 /\ DOMAIN to(s) = 1..(m - 1)
      /\ \A i \in DOMAIN to(s) : to(s)[i] = s[i + 1]
  BY MadeTail
<1>3. p \in BOOLEAN  OBVIOUS
<1>4. BuiltAlike(d, s, q) <=> n = m /\ \A i \in 1..n : Same(i)
  BY AlikeIs
<1>5. BuiltAlike(to(d), to(s), p) <=> n - 1 = m - 1 /\ \A i \in 1..(n - 1) : Further(i)
  <2> HIDE DEF p
  <2>1. IsMade(to(d)) /\ IsMade(to(s)) /\ Len(to(d)) = n - 1 /\ Len(to(s)) = m - 1
    BY <1>2
  <2>2. BuiltAlike(to(d), to(s), p) <=>
          Len(to(d)) = Len(to(s)) /\ \A i \in 1..Len(to(d)) : Further(i)
    BY <1>3, <2>1, AlikeIs, Zenon
  <2> QED  BY <2>1, <2>2, Zenon
<1>6. Same(1) <=> SameParts(d[1], s[1], q)
  <2>1. Same(1) <=> Compared(d[1], q) = Compared(s[1], q)  BY AfterFirst
  <2> QED  BY <1>1, <2>1, ComparedIs
<1>7. ASSUME n = m, NEW i \in 1..(n - 1) PROVE Same(i + 1) <=> Further(i)
  <2>1. i \in DOMAIN to(d) /\ i \in DOMAIN to(s)  BY <1>2, <1>7
  <2>2. /\ AfterFunction(d, i + 1) <=> d[1].class = "function" \/ AfterFunction(to(d), i)
        /\ AfterFunction(s, i + 1) <=> s[1].class = "function" \/ AfterFunction(to(s), i)
    BY <2>1, AfterTail
  <2>3. to(d)[i] = d[i + 1] /\ to(s)[i] = s[i + 1]  BY <1>2, <2>1
  <2>4. /\ (q \/ AfterFunction(d, i + 1)) = (p \/ AfterFunction(to(d), i))
        /\ (q \/ AfterFunction(s, i + 1)) = (p \/ AfterFunction(to(s), i))
    BY <2>2
  <2> QED  BY <2>3, <2>4, Zenon
<1> HIDE DEF Same, Further
<1>8. \A i \in 1..n : i = 1 \/ (i - 1 \in 1..(n - 1) /\ (i - 1) + 1 = i)  BY <1>1
<1>9. \A i \in 1..(n - 1) : i + 1 \in 1..n  BY <1>1
<1>10. 1 \in 1..n /\ (n = m <=> n - 1 = m - 1)  BY <1>1
<1>11. ASSUME n = m
       PROVE  (\A i \in 1..n : Same(i)) <=> Same(1) /\ \A i \in 1..(n - 1) : Further(i)
  <2>1. ASSUME \A i \in 1..n : Same(i), NEW i \in 1..(n - 1) PROVE Further(i)
    BY <1>7, <1>9, <1>11, <2>1
  <2>2. ASSUME Same(1), \A i \in 1..(n - 1) : Further(i), NEW i \in 1..n PROVE Same(i)
    <3>1. CASE i = 1  BY <2>2, <3>1
    <3>2. CASE i # 1
      <4>1. i - 1 \in 1..(n - 1) /\ (i - 1) + 1 = i  BY <1>8, <3>2
      <4>2. Same((i - 1) + 1)  BY <1>7, <1>11, <2>2, <4>1
      <4> QED  BY <4>1, <4>2
    <3> QED  BY <3>1, <3>2
  <2> QED  BY <1>10, <2>1, <2>2
<1> QED  BY <1>4, <1>5, <1>6, <1>10, <1>11

LEMMA AlikeLeaf ==
  ASSUME NEW d, IsMade(d), d[1].type \notin Links, NEW s, IsMade(s), NEW q \in BOOLEAN
  PROVE  BuiltAlike(d, s, q) <=> SameParts(d[1], s[1], q)
<1>1. /\ Len(d) \in Nat \ {0} /\ (d[1].type \in Links <=> Len(d) > 1) /\ IsMadeNode(d[1])
      /\ Len(s) \in Nat \ {0} /\ (s[1].type \in Links <=> Len(s) > 1) /\ IsMadeNode(s[1])
  <2>1. /\ Len(d) \in Nat \ {0} /\ (d[1].type \in Links <=> Len(d) > 1) /\ IsMadeNode(d[1])
    BY MadeHead
  <2>2. /\ Len(s) \in Nat \ {0} /\ (s[1].type \in Links <=> Len(s) > 1) /\ IsMadeNode(s[1])
    BY MadeHead
  <2> QED  BY <2>1, <2>2
<1>0. \A n \in Nat \ {0} : ~(n > 1) => n = 1  OBVIOUS
<1>2. Len(d) = 1  BY <1>0, <1>1, Zenon
<1>3. SameParts(d[1], s[1], q) => Len(s) = 1
  <2> SUFFICES ASSUME SameParts(d[1], s[1], q) PROVE Len(s) = 1
    OBVIOUS
  <2>1. s[1].type = d[1].type  BY DEF SameParts
  <2> QED  BY <1>0, <1>1, <2>1, Zenon
<1>4. Compared(d[1], q \/ AfterFunction(d, 1)) = Compared(s[1], q \/ AfterFunction(s, 1))
      <=> SameParts(d[1], s[1], q)
  <2>1. (q \/ AfterFunction(d, 1)) = q /\ (q \/ AfterFunction(s, 1)) = q  BY AfterFirst
  <2>2. Compared(d[1], q) = Compared(s[1], q) <=> SameParts(d[1], s[1], q)  BY <1>1, ComparedIs
  <2> QED  BY <2>1, <2>2, Zenon
<1>5. \A i : i \in 1..Len(d) <=> i = 1  BY <1>2
<1> QED  BY <1>2, <1>3, <1>4, <1>5, AlikeIs

-----------------------------------------------------------------------------
(* Parameters.                                                             *)

LEMMA ObjectMade ==
  ASSUME NEW x, IsObject(x)
  PROVE  IsMade(x) /\ \A i \in DOMAIN x : x[i].class \in {"simple", "pointer", "tag"}
BY DEF IsObject, IsMade, IsMadeNode, IsObjectNode

\* Two nodes of an object with the same parts are the same.
LEMMA ObjectNode ==
  ASSUME NEW n, IsMadeNode(n), n.class \in {"simple", "pointer", "tag"}, NEW m, IsMadeNode(m)
  PROVE  SameParts(n, m, TRUE) <=> n = m
<1> SUFFICES ASSUME SameParts(n, m, TRUE) PROVE n = m
  BY DEF SameParts
<1>1. /\ n.class = m.class /\ n.type = m.type /\ (n.class # "tag" => n.quals = m.quals)
      /\ n.class = "tag" => n.tag = m.tag
  BY DEF SameParts
<1>2. CASE n.class = "simple"
  <2>1. n = [class |-> "simple", type |-> n.type, quals |-> n.quals]  BY <1>2, MadeIs
  <2>2. m = [class |-> "simple", type |-> m.type, quals |-> m.quals]  BY <1>1, <1>2, MadeIs
  <2>3. n.type = m.type /\ n.quals = m.quals  BY <1>1, <1>2
  <2> QED  BY <2>1, <2>2, <2>3, Zenon
<1>3. CASE n.class = "pointer"
  <2>1. n = [class |-> "pointer", type |-> Base("pointer"), quals |-> n.quals]  BY <1>3, MadeIs
  <2>2. m = [class |-> "pointer", type |-> Base("pointer"), quals |-> m.quals]
    BY <1>1, <1>3, MadeIs
  <2>3. n.quals = m.quals  BY <1>1, <1>3
  <2> QED  BY <2>1, <2>2, <2>3, Zenon
<1>4. CASE n.class = "tag"
  <2>1. n = [class |-> "tag", type |-> n.type, tag |-> n.tag]  BY <1>4, MadeIs
  <2>2. m = [class |-> "tag", type |-> m.type, tag |-> m.tag]  BY <1>1, <1>4, MadeIs
  <2>3. n.type = m.type /\ n.tag = m.tag  BY <1>1, <1>4
  <2> QED  BY <2>1, <2>2, <2>3, Zenon
<1> QED  BY <1>2, <1>3, <1>4

LEMMA SameChain ==
  ASSUME NEW u, IsChain(u), NEW v, IsChain(v), Len(u) = Len(v), \A i \in 1..Len(u) : u[i] = v[i]
  PROVE  u = v
<1>1. u = [i \in 1..Len(u) |-> u[i]] /\ v = [i \in 1..Len(v) |-> v[i]]
  BY LenProperties DEF IsChain
<1> QED  BY <1>1

LEMMA ObjectSame ==
  ASSUME NEW x, IsObject(x), NEW y, IsObject(y)
  PROVE  BuiltAlike(x, y, TRUE) <=> x = y
<1>1. /\ IsMade(x) /\ IsMade(y) /\ IsChain(x) /\ IsChain(y)
      /\ DOMAIN x = 1..Len(x) /\ DOMAIN y = 1..Len(y)
      /\ \A i \in DOMAIN x : x[i].class \in {"simple", "pointer", "tag"}
  <2>1. IsMade(x) /\ \A i \in DOMAIN x : x[i].class \in {"simple", "pointer", "tag"}
    BY ObjectMade
  <2>2. IsMade(y)  BY ObjectMade
  <2> QED  BY <2>1, <2>2, MadeHead
<1>2. \A i \in 1..Len(x) : IsMadeNode(x[i])
  BY <1>1 DEF IsMade
<1>3. \A i \in 1..Len(y) : IsMadeNode(y[i])
  BY <1>1 DEF IsMade
<1>4. ASSUME Len(x) = Len(y), NEW i \in 1..Len(x)
      PROVE  Compared(x[i], TRUE \/ AfterFunction(x, i)) = Compared(y[i], TRUE \/ AfterFunction(y, i))
             <=> x[i] = y[i]
  <2>1. IsMadeNode(x[i]) /\ IsMadeNode(y[i]) /\ x[i].class \in {"simple", "pointer", "tag"}
    BY <1>1, <1>2, <1>3, <1>4
  <2>2. Compared(x[i], TRUE) = Compared(y[i], TRUE) <=> SameParts(x[i], y[i], TRUE)
    BY <2>1, ComparedIs
  <2>3. SameParts(x[i], y[i], TRUE) <=> x[i] = y[i]  BY <2>1, ObjectNode
  <2>4. (TRUE \/ AfterFunction(x, i)) = TRUE /\ (TRUE \/ AfterFunction(y, i)) = TRUE  OBVIOUS
  <2> QED  BY <2>2, <2>3, <2>4, Zenon
<1>5. BuiltAlike(x, y, TRUE) <=>
        /\ Len(x) = Len(y)
        /\ \A i \in 1..Len(x) : Compared(x[i], TRUE \/ AfterFunction(x, i))
                                = Compared(y[i], TRUE \/ AfterFunction(y, i))
  BY <1>1, AlikeIs
<1>6. BuiltAlike(x, y, TRUE) <=> Len(x) = Len(y) /\ \A i \in 1..Len(x) : x[i] = y[i]
  BY <1>4, <1>5, Zenon
<1>7. CASE x = y  BY <1>6, <1>7, Zenon
<1>8. CASE x # y  BY <1>1, <1>6, <1>8, SameChain, Zenon
<1> QED  BY <1>7, <1>8

LEMMA ArgsSame ==
  ASSUME NEW a, AreObjects(a), NEW b, AreObjects(b), Len(a) = Len(b)
  PROVE  (\A i \in DOMAIN a : BuiltAlike(a[i], b[i], TRUE)) <=> a = b
<1>1. /\ IsChain(a) /\ IsChain(b) /\ DOMAIN a = 1..Len(a) /\ DOMAIN b = 1..Len(a)
  BY ChainDomain DEF AreObjects
<1>2. \A i \in 1..Len(a) : BuiltAlike(a[i], b[i], TRUE) <=> a[i] = b[i]
  BY <1>1, ObjectSame DEF AreObjects
<1>3. (\A i \in DOMAIN a : BuiltAlike(a[i], b[i], TRUE)) <=> \A i \in 1..Len(a) : a[i] = b[i]
  BY <1>1, <1>2
<1>4. CASE a = b  BY <1>3, <1>4, Zenon
<1>5. CASE a # b  BY <1>1, <1>3, <1>5, SameChain, Zenon
<1> QED  BY <1>4, <1>5

-----------------------------------------------------------------------------
(* One call of ey_type_equal.                                              *)

Complete(t) == \A tag \in TagsOf(t) : tags[tag].complete

LEMMA TagsHeld ==
  ASSUME NEW t, NEW n \in NodesWithin(t), n.class = "tag"
  PROVE  n.tag \in TagsOf(t)
BY DEF TagsOf

\* The nodes of what a type leads to, and of the parameters of a function.
LEMMA TagsFurther ==
  ASSUME NEW t, IsMade(t), Complete(t)
  PROVE  /\ t[1].class = "tag" => tags[t[1].tag].complete
         /\ t[1].type \in Links => Complete(to(t))
         /\ t[1].class = "function" => \A i \in DOMAIN t[1].args : Complete(t[1].args[i])
<1>1. /\ 1 \in DOMAIN t /\ DOMAIN t = 1..Len(t) /\ \A i \in DOMAIN t : IsMadeNode(t[i])
  BY MadeHead DEF IsMade
<1>2. t[1] \in NodesOf(t)  BY <1>1 DEF NodesOf
<1>3. NodesOf(t) \subseteq NodesWithin(t)  BY DEF NodesWithin
<1>4. t[1].class = "tag" => tags[t[1].tag].complete
  BY <1>2, <1>3, TagsHeld DEF Complete
<1>5. ASSUME NEW r, NodesWithin(r) \subseteq NodesWithin(t) PROVE Complete(r)
  BY <1>5 DEF Complete, TagsOf
<1>6. ASSUME t[1].type \in Links PROVE Complete(to(t))
  <2>1. \A i \in DOMAIN to(t) : i + 1 \in DOMAIN t /\ to(t)[i] = t[i + 1]
    BY <1>6, MadeTail
  <2>2. NodesOf(to(t)) \subseteq NodesOf(t)  BY <2>1 DEF NodesOf
  <2>3. ParametersOf(to(t)) \subseteq ParametersOf(t)  BY <2>2 DEF ParametersOf
  <2>4. NodesWithin(to(t)) \subseteq NodesWithin(t)  BY <2>2, <2>3 DEF NodesWithin
  <2> QED  BY <1>5, <2>4
<1>7. ASSUME t[1].class = "function", NEW i \in DOMAIN t[1].args PROVE Complete(t[1].args[i])
  <2> DEFINE x == t[1].args[i]
  <2>1. IsObject(x)
    <3>1. AreObjects(t[1].args)  BY <1>1, <1>7, MadeIs
    <3> QED  BY <3>1 DEF AreObjects
  <2>2. DOMAIN x = DOMAIN x /\ \A j \in DOMAIN x : x[j].class \in {"simple", "pointer", "tag"}
    BY <2>1, ObjectMade
  <2>3. ParametersOf(x) = {}
    <3> HIDE DEF x
    <3>1. {m \in NodesOf(x) : m.class = "function"} = {}  BY <2>2 DEF NodesOf
    <3> QED  BY <3>1 DEF ParametersOf
  <2>4. x \in ParametersOf(t)
    <3>1. t[1] \in {m \in NodesOf(t) : m.class = "function"}  BY <1>2, <1>7
    <3>2. x \in NodesOf(t[1].args)  BY DEF NodesOf
    <3> QED  BY <3>1, <3>2 DEF ParametersOf
  <2> HIDE DEF x
  <2>5. NodesWithin(x) \subseteq NodesWithin(t)  BY <2>3, <2>4 DEF NodesWithin
  <2> QED  BY <1>5, <2>5 DEF x
<1> QED  BY <1>4, <1>6, <1>7

SameHead(n, m, q) ==
  /\ n.class = m.class /\ n.type = m.type
  /\ q => QualsOf(n) = QualsOf(m)
  /\ n.class = "tag" => n.tag = m.tag
  /\ n.class = "function" => n.ellipsis = m.ellipsis /\ Len(n.args) = Len(m.args)

LEMMA SameClass ==
  ASSUME NEW n, IsMadeNode(n), NEW m, IsMadeNode(m), n.type = m.type
  PROVE  n.class = m.class
<1>1. n.class \in Kinds /\ m.class \in Kinds
  BY MadeIs
<1>2. ASSUME NEW x, IsMadeNode(x)
      PROVE  /\ x.class = "simple" <=> x.type \notin Links \cup TagWords
             /\ x.class = "tag" <=> x.type \in TagWords
             /\ \A b \in {"pointer", "array", "function"} : x.class = b <=> x.type = Base(b)
  <2>1. /\ x.class \in Kinds
        /\ x.class = "simple" => x.type \notin Links \cup TagWords
        /\ x.class = "tag" => x.type \in SuWords
    BY <1>2, MadeIs
  <2>2. /\ x.type \in Links <=> x.class \in {"pointer", "array", "function"}
        /\ \A b \in {"pointer", "array", "function"} : x.class = b <=> x.type = Base(b)
    BY <1>2, MadeLinks
  <2>3. SuWords \subseteq TagWords /\ \A w \in TagWords : w \notin Links
    BY DEF TagWords, SuWords, Links, Base, Word
  <2> QED  BY <2>1, <2>2, <2>3 DEF Kinds
<1>3. /\ n.class = "simple" <=> m.class = "simple"
      /\ n.class = "tag" <=> m.class = "tag"
      /\ \A b \in {"pointer", "array", "function"} : n.class = b <=> m.class = b
  <2>1. /\ n.class = "simple" <=> n.type \notin Links \cup TagWords
        /\ n.class = "tag" <=> n.type \in TagWords
        /\ \A b \in {"pointer", "array", "function"} : n.class = b <=> n.type = Base(b)
    BY <1>2, Zenon
  <2>2. /\ m.class = "simple" <=> m.type \notin Links \cup TagWords
        /\ m.class = "tag" <=> m.type \in TagWords
        /\ \A b \in {"pointer", "array", "function"} : m.class = b <=> m.type = Base(b)
    BY <1>2, Zenon
  <2> QED  BY <2>1, <2>2, Zenon
<1> QED  BY <1>1, <1>3 DEF Kinds

LEMMA AgreeIs ==
  ASSUME NEW d, IsMade(d), Complete(d), NEW s, IsMade(s), Complete(s), NEW q \in BOOLEAN,
         NEW k \in BOOLEAN
  PROVE  Agree(Call(d, s, q, k)) <=> SameHead(d[1], s[1], q)
<1> DEFINE c == Call(d, s, q, k)
           n == d[1]
           m == s[1]
<1>1. c.dst = d /\ c.src = s /\ c.quals = q /\ c.count = k
  BY CallIs
<1>2. /\ IsMadeNode(n) /\ word(d) = n.type /\ class(d) = n.class /\ Quals(d) = QualsOf(n)
      /\ Head(d) = n
  BY MadeHead
<1>3. /\ IsMadeNode(m) /\ word(s) = m.type /\ class(s) = m.class /\ Quals(s) = QualsOf(m)
      /\ Head(s) = m
  BY MadeHead
<1>4. Agree(c) <=>
        /\ n.type = m.type
        /\ q => QualsOf(n) = QualsOf(m)
        /\ CASE n.class = "array" -> k => n.count = m.count
             [] n.class = "function" -> SameParameters(d, s)
             [] n.class = "tag" -> tag_equal(d, s, q)
             [] OTHER -> TRUE
  <2> HIDE DEF c, n, m
  <2> QED  BY <1>1, <1>2, <1>3, Zenon DEF Agree
<1>5. n.type = m.type => n.class = m.class
  BY <1>2, <1>3, SameClass
<1>6. /\ n.class = "array" => n.count = 0
      /\ m.class = "array" => m.count = 0
      /\ n.class = "tag" => n.type \in SuWords
  <2>1. /\ n.class = "array" => n.count = 0
        /\ n.class = "tag" => n.type \in SuWords
    BY <1>2, MadeIs
  <2>2. m.class = "array" => m.count = 0  BY <1>3, MadeIs
  <2> QED  BY <2>1, <2>2
<1>7. SameParameters(d, s) <=> n.ellipsis = m.ellipsis /\ Len(n.args) = Len(m.args)
  BY <1>2, <1>3, Zenon DEF SameParameters
<1>8. ASSUME n.class = "tag", m.class = "tag", n.type = m.type, q => QualsOf(n) = QualsOf(m)
      PROVE  tag_equal(d, s, q) <=> n.tag = m.tag
  <2>1. tags[n.tag].complete /\ tags[m.tag].complete
    BY <1>8, TagsFurther
  <2>2. is_su(n.type)  BY <1>6, <1>8 DEF is_su
  <2>3. tag_equal(d, s, q) <=>
          /\ is_su(n.type) /\ m.type = n.type
          /\ q => QualsOf(n) = QualsOf(m)
          /\ n.tag = m.tag \/ (~tags[n.tag].complete /\ ~tags[m.tag].complete)
    <3> HIDE DEF n, m
    <3> QED  BY <1>2, <1>3, Zenon DEF tag_equal
  <2> QED  BY <1>8, <2>1, <2>2, <2>3, Zenon
<1> DEFINE H == SameHead(n, m, q)
           P == SameParameters(d, s)
           G == tag_equal(d, s, q)
<1>9. H <=> /\ n.class = m.class /\ n.type = m.type
            /\ q => QualsOf(n) = QualsOf(m)
            /\ n.class = "tag" => n.tag = m.tag
            /\ n.class = "function" => n.ellipsis = m.ellipsis /\ Len(n.args) = Len(m.args)
  BY Zenon DEF SameHead
<1> HIDE DEF c, n, m, H, P, G
<1>10. CASE n.class = "array"
  <2>1. Agree(c) <=> /\ n.type = m.type /\ (q => QualsOf(n) = QualsOf(m))
                     /\ (k => n.count = m.count)
    BY <1>4, <1>10
  <2>2. n.type = m.type => n.count = m.count  BY <1>5, <1>6, <1>10
  <2>3. H <=> /\ n.class = m.class /\ n.type = m.type /\ (q => QualsOf(n) = QualsOf(m))
    BY <1>9, <1>10
  <2> QED  BY <1>5, <2>1, <2>2, <2>3 DEF H, n, m, c
<1>11. CASE n.class = "function"
  <2>1. Agree(c) <=> n.type = m.type /\ (q => QualsOf(n) = QualsOf(m)) /\ P
    BY <1>4, <1>11 DEF P
  <2> QED  BY <1>5, <1>7, <1>9, <1>11, <2>1 DEF P, H, n, m, c
<1>12. CASE n.class = "tag"
  <2>1. Agree(c) <=> n.type = m.type /\ (q => QualsOf(n) = QualsOf(m)) /\ G
    BY <1>4, <1>12 DEF G
  <2> QED  BY <1>5, <1>8, <1>9, <1>12, <2>1 DEF G, H, n, m, c
<1>13. CASE n.class \notin {"array", "function", "tag"}
  <2>1. Agree(c) <=> n.type = m.type /\ (q => QualsOf(n) = QualsOf(m))
    BY <1>4, <1>13
  <2> QED  BY <1>5, <1>9, <1>13, <2>1 DEF H, n, m, c
<1> QED  BY <1>10, <1>11, <1>12, <1>13 DEF H, n, m, c

LEMMA HeadsAgree ==
  ASSUME NEW n, IsMadeNode(n), NEW m, IsMadeNode(m), NEW q \in BOOLEAN
  PROVE  SameParts(n, m, q) <=>
           SameHead(n, m, q) /\ (n.class = "function" => n.args = m.args)
<1>1. /\ n.class \in Kinds
      /\ n.class = "tag" => QualsOf(n) = tags[n.tag].quals
      /\ n.class # "tag" => QualsOf(n) = n.quals
  BY MadeIs DEF QualsOf
<1>2. /\ m.class = "tag" => QualsOf(m) = tags[m.tag].quals
      /\ m.class # "tag" => QualsOf(m) = m.quals
  BY DEF QualsOf
<1>3. CASE n.class # m.class  BY <1>3 DEF SameParts, SameHead
<1>4. CASE n.class = "tag" /\ m.class = "tag"
  <2>1. n.tag = m.tag => QualsOf(n) = QualsOf(m)  BY <1>1, <1>2, <1>4
  <2> QED  BY <1>4, <2>1 DEF SameParts, SameHead
<1>5. CASE n.class # "tag" /\ m.class # "tag"
  <2>1. QualsOf(n) = n.quals /\ QualsOf(m) = m.quals  BY <1>1, <1>2, <1>5
  <2> QED  BY <1>5, <2>1 DEF SameParts, SameHead
<1> QED  BY <1>3, <1>4, <1>5

LEMMA AlikeHead ==
  ASSUME NEW d, IsMade(d), NEW s, IsMade(s), NEW q \in BOOLEAN, BuiltAlike(d, s, q)
  PROVE  SameParts(d[1], s[1], q)
<1>1. IsMadeNode(d[1]) /\ IsMadeNode(s[1]) /\ Len(d) \in Nat \ {0}
  BY MadeHead
<1>2. Len(d) >= 1  BY <1>1
<1>3. 1 \in 1..Len(d)  BY <1>1
<1>4. Compared(d[1], q \/ AfterFunction(d, 1)) = Compared(s[1], q \/ AfterFunction(s, 1))
  BY <1>3, AlikeIs
<1>5. (q \/ AfterFunction(d, 1)) = q /\ (q \/ AfterFunction(s, 1)) = q  BY AfterFirst
<1>6. Compared(d[1], q) = Compared(s[1], q)  BY <1>4, <1>5, Zenon
<1> QED  BY <1>1, <1>6, ComparedIs

\* What a call asks for.
LEMMA AskedIs ==
  ASSUME NEW d, IsMade(d), NEW s, IsMade(s), NEW q, NEW k
  PROVE  LET X == Asked(Call(d, s, q, k))
         IN /\ d[1].class \in {"simple", "tag"} => X = {}
            /\ d[1].class = "pointer" => X = {Call(to(d), to(s), q, TRUE)}
            /\ d[1].class = "array" => X = {Call(to(d), to(s), q, k)}
            /\ d[1].class = "function" =>
                 X = {Call(to(d), to(s), TRUE, TRUE)}
                     \cup {Call(d[1].args[i], s[1].args[i], TRUE, FALSE) : i \in DOMAIN d[1].args}
<1> DEFINE c == Call(d, s, q, k)
<1>1. c.dst = d /\ c.src = s /\ c.quals = q /\ c.count = k
  BY CallIs
<1>2. class(d) = d[1].class /\ Head(d) = d[1] /\ Head(s) = s[1]
  <2>1. class(d) = d[1].class /\ Head(d) = d[1]  BY MadeHead
  <2>2. Head(s) = s[1]  BY MadeHead
  <2> QED  BY <2>1, <2>2
<1> HIDE DEF c
<1>3. /\ d[1].class = "array" => Asked(c) = array_equal(d, s, q, k)
      /\ d[1].class = "pointer" => Asked(c) = pointer_equal(d, s, q)
      /\ d[1].class = "function" => Asked(c) = function_equal(d, s, TRUE)
      /\ d[1].class \in {"simple", "tag"} => Asked(c) = {}
  BY <1>1, <1>2 DEF Asked
<1>4. array_equal(d, s, q, k) = {Call(to(d), to(s), q, k)}
  BY DEF array_equal
<1>5. pointer_equal(d, s, q) = {Call(to(d), to(s), q, TRUE)}
  BY DEF pointer_equal
<1>6. function_equal(d, s, TRUE) =
        {Call(to(d), to(s), TRUE, TRUE)}
        \cup {Call(d[1].args[i], s[1].args[i], TRUE, FALSE) : i \in DOMAIN d[1].args}
  BY <1>2 DEF function_equal
<1> QED  BY <1>3, <1>4, <1>5, <1>6 DEF c

\* Two types are built alike when their first nodes agree and all that is asked for
\* in turn is built alike.
LEMMA AlikeStep ==
  ASSUME NEW d, IsMade(d), Complete(d), NEW s, IsMade(s), Complete(s), NEW q \in BOOLEAN,
         NEW k \in BOOLEAN
  PROVE  BuiltAlike(d, s, q) <=>
           /\ Agree(Call(d, s, q, k))
           /\ \A x \in Asked(Call(d, s, q, k)) : BuiltAlike(x.dst, x.src, x.quals)
<1> DEFINE c == Call(d, s, q, k)
           n == d[1]
           m == s[1]
           Rest == \A x \in Asked(c) : BuiltAlike(x.dst, x.src, x.quals)
<1>1. IsMadeNode(n) /\ IsMadeNode(m)  BY MadeHead
<1>2. Agree(c) <=> SameHead(n, m, q)  BY AgreeIs
<1>3. SameParts(n, m, q) <=> SameHead(n, m, q) /\ (n.class = "function" => n.args = m.args)
  BY <1>1, HeadsAgree
<1>4. CASE ~SameHead(n, m, q)
  BY <1>2, <1>3, <1>4, AlikeHead
<1>5. CASE SameHead(n, m, q)
  <2>1. n.class = m.class /\ n.type = m.type  BY <1>5 DEF SameHead
  <2>2. Agree(c)  BY <1>2, <1>5
  <2>3. n.class \in Kinds /\ (n.type \in Links <=> n.class \in {"pointer", "array", "function"})
    BY <1>1, MadeIs, MadeLinks
  <2>4. \A u, v, w, y : /\ Call(u, v, w, y).dst = u /\ Call(u, v, w, y).src = v
                        /\ Call(u, v, w, y).quals = w
    BY CallIs
  <2>5. CASE n.class \in {"simple", "tag"}
    <3>1. Rest
      <4>1. Asked(c) = {}  BY <2>5, AskedIs
      <4> QED  BY <4>1
    <3>2. BuiltAlike(d, s, q) <=> SameParts(n, m, q)
      <4>1. n.type \notin Links  BY <2>3, <2>5
      <4> QED  BY <4>1, AlikeLeaf
    <3>3. SameParts(n, m, q)  BY <1>3, <1>5, <2>5
    <3> QED  BY <2>2, <3>1, <3>2, <3>3
  <2>6. CASE n.class \in {"pointer", "array"}
    <3>1. PICK y : Asked(c) = {Call(to(d), to(s), q, y)}
      <4>1. CASE n.class = "pointer"
        <5>1. Asked(c) = {Call(to(d), to(s), q, TRUE)}  BY <4>1, AskedIs
        <5> QED  BY <5>1
      <4>2. CASE n.class = "array"
        <5>1. Asked(c) = {Call(to(d), to(s), q, k)}  BY <4>2, AskedIs
        <5> QED  BY <5>1
      <4> QED  BY <2>6, <4>1, <4>2
    <3>2. Rest <=> BuiltAlike(to(d), to(s), q)
      <4> DEFINE f == Call(to(d), to(s), q, y)
      <4>1. f.dst = to(d) /\ f.src = to(s) /\ f.quals = q  BY <2>4
      <4> HIDE DEF c, f
      <4>2. Rest <=> \A x \in {f} : BuiltAlike(x.dst, x.src, x.quals)  BY <3>1, Zenon DEF f
      <4>3. Rest <=> BuiltAlike(f.dst, f.src, f.quals)  BY <4>2
      <4> QED  BY <4>1, <4>3
    <3>3. BuiltAlike(d, s, q) <=> SameParts(n, m, q) /\ BuiltAlike(to(d), to(s), q)
      <4>1. n.type \in Links /\ m.type \in Links /\ n.class = m.class  BY <2>1, <2>3, <2>6
      <4>2. BuiltAlike(d, s, q) <=>
              SameParts(n, m, q) /\ BuiltAlike(to(d), to(s), q \/ n.class = "function")
        BY <4>1, AlikeTail
      <4>3. (q \/ n.class = "function") = q  BY <2>6
      <4> QED  BY <4>2, <4>3
    <3>4. SameParts(n, m, q)  BY <1>3, <1>5, <2>6
    <3> QED  BY <2>2, <3>2, <3>3, <3>4
  <2>7. CASE n.class = "function"
    <3>1. Asked(c) = {Call(to(d), to(s), TRUE, TRUE)}
                     \cup {Call(n.args[i], m.args[i], TRUE, FALSE) : i \in DOMAIN n.args}
      BY <2>7, AskedIs
    <3>2. Rest <=> /\ BuiltAlike(to(d), to(s), TRUE)
                   /\ \A i \in DOMAIN n.args : BuiltAlike(n.args[i], m.args[i], TRUE)
      <4> DEFINE f == Call(to(d), to(s), TRUE, TRUE)
                 A == {Call(n.args[i], m.args[i], TRUE, FALSE) : i \in DOMAIN n.args}
                 Alike(x) == BuiltAlike(x.dst, x.src, x.quals)
      <4>1. Rest <=> Alike(f) /\ \A x \in A : Alike(x)
        <5> HIDE DEF c, Alike, f, A
        <5>1. Rest <=> \A x \in {f} \cup A : Alike(x)  BY <3>1 DEF f, A, Alike
        <5> QED  BY <5>1
      <4>2. Alike(f) <=> BuiltAlike(to(d), to(s), TRUE)
        <5> DEFINE yes == TRUE
                   u == Call(to(d), to(s), yes, yes)
        <5>0. u = f  OBVIOUS
        <5> HIDE DEF yes, f
        <5>1. u.dst = to(d) /\ u.src = to(s) /\ u.quals = yes  BY CallIs
        <5> HIDE DEF u
        <5>2. Alike(u) <=> BuiltAlike(to(d), to(s), yes)  BY <5>1
        <5> QED  BY <5>0, <5>2 DEF yes
      <4>3. (\A x \in A : Alike(x)) <=> \A i \in DOMAIN n.args : Alike(Call(n.args[i], m.args[i], TRUE, FALSE))
        <5> HIDE DEF Alike
        <5> QED  OBVIOUS
      <4>4. \A i \in DOMAIN n.args : Alike(Call(n.args[i], m.args[i], TRUE, FALSE))
                                     <=> BuiltAlike(n.args[i], m.args[i], TRUE)
        <5> TAKE i \in DOMAIN n.args
        <5> DEFINE yes == TRUE
                   no == FALSE
                   u == Call(n.args[i], m.args[i], yes, no)
        <5>0. u = Call(n.args[i], m.args[i], TRUE, FALSE)  OBVIOUS
        <5> HIDE DEF yes, no
        <5>1. u.dst = n.args[i] /\ u.src = m.args[i] /\ u.quals = yes  BY CallIs
        <5> HIDE DEF u
        <5>2. Alike(u) <=> BuiltAlike(n.args[i], m.args[i], yes)  BY <5>1
        <5> QED  BY <5>0, <5>2 DEF yes
      <4> HIDE DEF c, Alike, f, A
      <4> QED  BY <4>1, <4>2, <4>3, <4>4
    <3>3. (\A i \in DOMAIN n.args : BuiltAlike(n.args[i], m.args[i], TRUE)) <=> n.args = m.args
      <4>1. AreObjects(n.args) /\ AreObjects(m.args)  BY <1>1, <2>1, <2>7, MadeIs
      <4>2. Len(n.args) = Len(m.args)  BY <1>5, <2>7 DEF SameHead
      <4> DEFINE a == n.args
                 b == m.args
      <4> HIDE DEF a, b
      <4>3. AreObjects(a) /\ AreObjects(b) /\ Len(a) = Len(b)  BY <4>1, <4>2 DEF a, b
      <4>4. (\A i \in DOMAIN a : BuiltAlike(a[i], b[i], TRUE)) <=> a = b
        BY <4>3, ArgsSame
      <4> QED  BY <4>4 DEF a, b
    <3>4. BuiltAlike(d, s, q) <=> SameParts(n, m, q) /\ BuiltAlike(to(d), to(s), TRUE)
      <4>1. n.type \in Links /\ m.type \in Links /\ n.class = m.class  BY <2>1, <2>3, <2>7
      <4>2. BuiltAlike(d, s, q) <=>
              SameParts(n, m, q) /\ BuiltAlike(to(d), to(s), q \/ n.class = "function")
        BY <4>1, AlikeTail
      <4>3. (q \/ n.class = "function") = TRUE  BY <2>7
      <4> QED  BY <4>2, <4>3
    <3>5. SameParts(n, m, q) <=> n.args = m.args  BY <1>3, <1>5, <2>7
    <3> QED  BY <2>2, <3>2, <3>3, <3>4, <3>5
  <2> QED  BY <2>3, <2>5, <2>6, <2>7 DEF Kinds
<1> QED  BY <1>4, <1>5

LEMMA WithinTail ==
  ASSUME NEW t, IsMade(t), t[1].type \in Links, NEW n \in Nat, Within(t, n)
  PROVE  n >= 1 /\ Within(to(t), n - 1)
<1> DEFINE r == to(t)
           l == Len(t)
           Deep(i, x) == \A j \in DOMAIN x.args : i + Len(x.args[j]) <= n
           Less(i, x) == \A j \in DOMAIN x.args : i + Len(x.args[j]) <= n - 1
<1>1. /\ l \in Nat \ {0} /\ Len(r) = l - 1 /\ DOMAIN r = 1..(l - 1)
      /\ \A i \in DOMAIN r : i + 1 \in DOMAIN t /\ r[i] = t[i + 1]
      /\ \A i \in DOMAIN t : IsMadeNode(t[i])
  BY MadeHead, MadeTail DEF IsMade
<1>2. l <= n /\ \A i \in DOMAIN t : t[i].class = "function" => Deep(i, t[i])
  BY DEF Within
<1>3. ASSUME NEW i \in DOMAIN r, r[i].class = "function" PROVE Less(i, r[i])
  <2>1. i + 1 \in DOMAIN t /\ r[i] = t[i + 1] /\ i \in Nat  BY <1>1
  <2>2. t[i + 1].class = "function"  BY <1>3, <2>1
  <2> HIDE DEF r
  <2>3. Deep(i + 1, r[i])
    <3> HIDE DEF Deep
    <3> QED  BY <1>2, <2>1, <2>2
  <2>4. AreObjects(r[i].args)  BY <1>1, <1>3, <2>1, MadeIs
  <2>5. ASSUME NEW j \in DOMAIN r[i].args PROVE i + Len(r[i].args[j]) <= n - 1
    <3>1. Len(r[i].args[j]) \in Nat  BY <2>4, ObjectMade, MadeHead DEF AreObjects
    <3>2. (i + 1) + Len(r[i].args[j]) <= n  BY <2>3
    <3> QED  BY <2>1, <3>1, <3>2
  <2> QED  BY <2>5
<1>4. n >= 1 /\ Len(r) <= n - 1  BY <1>1, <1>2
<1> HIDE DEF r
<1>5. Within(r, n - 1)  BY <1>3, <1>4 DEF Within
<1> QED  BY <1>4, <1>5 DEF r

LEMMA WithinArgs ==
  ASSUME NEW t, IsMade(t), t[1].class = "function", NEW n \in Nat, Within(t, n),
         NEW j \in DOMAIN t[1].args
  PROVE  n >= 1 /\ Within(t[1].args[j], n - 1)
<1> DEFINE x == t[1].args[j]
<1>1. 1 \in DOMAIN t /\ IsMadeNode(t[1])  BY MadeHead
<1>2. IsObject(x)  BY <1>1, MadeIs DEF AreObjects
<1>3. 1 + Len(x) <= n  BY <1>1 DEF Within
<1> HIDE DEF x
<1>4. Len(x) \in Nat /\ \A i \in DOMAIN x : x[i].class # "function"
  BY <1>2, ObjectMade, MadeHead
<1>5. n >= 1 /\ Len(x) <= n - 1  BY <1>3, <1>4
<1> QED  BY <1>4, <1>5 DEF Within, x

\* A call for two types that are made, one of them no deeper than n.
MadeCall(c, n) ==
  /\ c = Call(c.dst, c.src, c.quals, c.count)
  /\ c.quals \in BOOLEAN /\ c.count \in BOOLEAN
  /\ IsMade(c.dst) /\ Complete(c.dst) /\ IsMade(c.src) /\ Complete(c.src)
  /\ Within(c.dst, n) \/ Within(c.src, n)

LEMMA MadeCallIs ==
  ASSUME NEW d, IsMade(d), Complete(d), NEW s, IsMade(s), Complete(s), NEW q \in BOOLEAN,
         NEW k \in BOOLEAN, NEW n, Within(d, n) \/ Within(s, n)
  PROVE  MadeCall(Call(d, s, q, k), n)
<1> DEFINE c == Call(d, s, q, k)
<1>1. c.dst = d /\ c.src = s /\ c.quals = q /\ c.count = k  BY CallIs
<1>2. c = Call(c.dst, c.src, c.quals, c.count)  BY <1>1
<1> HIDE DEF c
<1> QED  BY <1>1, <1>2 DEF MadeCall, c

\* What is asked for in turn is made, and less deep.
LEMMA CallGoesOn ==
  ASSUME NEW n \in Nat, NEW c, MadeCall(c, n), Agree(c), NEW x \in Asked(c)
  PROVE  n >= 1 /\ MadeCall(x, n - 1)
<1> DEFINE d == c.dst
           s == c.src
           q == c.quals
           k == c.count
<1>1. /\ c = Call(d, s, q, k) /\ q \in BOOLEAN /\ k \in BOOLEAN
      /\ IsMade(d) /\ Complete(d) /\ IsMade(s) /\ Complete(s) /\ (Within(d, n) \/ Within(s, n))
  BY DEF MadeCall
<1> HIDE DEF d, s, q, k
<1>2. SameHead(d[1], s[1], q)  BY <1>1, AgreeIs
<1>3. d[1].class = s[1].class /\ d[1].type = s[1].type  BY <1>2 DEF SameHead
<1>4. IsMadeNode(d[1]) /\ IsMadeNode(s[1])  BY <1>1, MadeHead
<1>5. /\ d[1].class \in Kinds
      /\ d[1].type \in Links <=> d[1].class \in {"pointer", "array", "function"}
  BY <1>4, MadeIs, MadeLinks
<1>6. ASSUME d[1].type \in Links, NEW y \in BOOLEAN, NEW z \in BOOLEAN
      PROVE  n >= 1 /\ MadeCall(Call(to(d), to(s), y, z), n - 1)
  <2>1. s[1].type \in Links  BY <1>3, <1>6
  <2>2. IsMade(to(d)) /\ Complete(to(d))  BY <1>1, <1>6, MadeTail, TagsFurther
  <2>3. IsMade(to(s)) /\ Complete(to(s))  BY <1>1, <2>1, MadeTail, TagsFurther
  <2>4. n >= 1 /\ (Within(to(d), n - 1) \/ Within(to(s), n - 1))
    <3>1. CASE Within(d, n)  BY <1>1, <1>6, <3>1, WithinTail
    <3>2. CASE Within(s, n)  BY <1>1, <2>1, <3>2, WithinTail
    <3> QED  BY <1>1, <3>1, <3>2
  <2> QED  BY <1>6, <2>2, <2>3, <2>4, MadeCallIs
<1>7. ASSUME d[1].class = "function", NEW i \in DOMAIN d[1].args,
             NEW y \in BOOLEAN, NEW z \in BOOLEAN
      PROVE  n >= 1 /\ MadeCall(Call(d[1].args[i], s[1].args[i], y, z), n - 1)
  <2>1. s[1].class = "function"  BY <1>3, <1>7
  <2>2. AreObjects(d[1].args) /\ AreObjects(s[1].args)  BY <1>4, <1>7, <2>1, MadeIs
  <2>3. Len(d[1].args) = Len(s[1].args)  BY <1>2, <1>7 DEF SameHead
  <2>4. i \in DOMAIN s[1].args
    <3>1. DOMAIN d[1].args = 1..Len(d[1].args) /\ DOMAIN s[1].args = 1..Len(s[1].args)
      BY <2>2, ChainDomain DEF AreObjects
    <3> QED  BY <1>7, <2>3, <3>1
  <2>5. IsMade(d[1].args[i]) /\ Complete(d[1].args[i])
    <3>1. IsObject(d[1].args[i])  BY <2>2 DEF AreObjects
    <3>2. Complete(d[1].args[i])  BY <1>1, <1>7, TagsFurther
    <3> QED  BY <3>1, <3>2, ObjectMade
  <2>6. IsMade(s[1].args[i]) /\ Complete(s[1].args[i])
    <3>1. IsObject(s[1].args[i])  BY <2>2, <2>4 DEF AreObjects
    <3>2. Complete(s[1].args[i])  BY <1>1, <2>1, <2>4, TagsFurther
    <3> QED  BY <3>1, <3>2, ObjectMade
  <2>7. n >= 1 /\ (Within(d[1].args[i], n - 1) \/ Within(s[1].args[i], n - 1))
    <3>1. CASE Within(d, n)  BY <1>1, <1>7, <3>1, WithinArgs
    <3>2. CASE Within(s, n)  BY <1>1, <2>1, <2>4, <3>2, WithinArgs
    <3> QED  BY <1>1, <3>1, <3>2
  <2> QED  BY <1>7, <2>5, <2>6, <2>7, MadeCallIs
<1>8. x \in Asked(Call(d, s, q, k))  BY <1>1
<1>9. CASE d[1].class \in {"simple", "tag"}  BY <1>1, <1>8, <1>9, AskedIs
<1>10. CASE d[1].class = "pointer"
  <2>1. x = Call(to(d), to(s), q, TRUE)
    <3>1. Asked(Call(d, s, q, k)) = {Call(to(d), to(s), q, TRUE)}  BY <1>1, <1>10, AskedIs
    <3> QED  BY <1>8, <3>1
  <2> QED  BY <1>1, <1>5, <1>6, <1>10, <2>1
<1>11. CASE d[1].class = "array"
  <2>1. x = Call(to(d), to(s), q, k)
    <3>1. Asked(Call(d, s, q, k)) = {Call(to(d), to(s), q, k)}  BY <1>1, <1>11, AskedIs
    <3> QED  BY <1>8, <3>1
  <2> QED  BY <1>1, <1>5, <1>6, <1>11, <2>1
<1>12. CASE d[1].class = "function"
  <2>1. \/ x = Call(to(d), to(s), TRUE, TRUE)
        \/ \E i \in DOMAIN d[1].args : x = Call(d[1].args[i], s[1].args[i], TRUE, FALSE)
    <3>1. Asked(Call(d, s, q, k)) =
            {Call(to(d), to(s), TRUE, TRUE)}
            \cup {Call(d[1].args[i], s[1].args[i], TRUE, FALSE) : i \in DOMAIN d[1].args}
      BY <1>1, <1>12, AskedIs
    <3> QED  BY <1>8, <3>1
  <2>2. TRUE \in BOOLEAN /\ FALSE \in BOOLEAN  OBVIOUS
  <2>3. CASE x = Call(to(d), to(s), TRUE, TRUE)  BY <1>5, <1>6, <1>12, <2>2, <2>3
  <2>4. CASE \E i \in DOMAIN d[1].args : x = Call(d[1].args[i], s[1].args[i], TRUE, FALSE)
    BY <1>7, <1>12, <2>2, <2>4, Zenon
  <2> QED  BY <2>1, <2>3, <2>4
<1> QED  BY <1>5, <1>9, <1>10, <1>11, <1>12 DEF Kinds

AlikeCall(c) == BuiltAlike(c.dst, c.src, c.quals)

LEMMA CallAlike ==
  ASSUME NEW n, NEW c, MadeCall(c, n)
  PROVE  AlikeCall(c) <=> Agree(c) /\ \A x \in Asked(c) : AlikeCall(x)
<1>1. /\ IsMade(c.dst) /\ Complete(c.dst) /\ IsMade(c.src) /\ Complete(c.src)
      /\ c.quals \in BOOLEAN /\ c.count \in BOOLEAN
      /\ c = Call(c.dst, c.src, c.quals, c.count)
  BY DEF MadeCall
<1> DEFINE e == Call(c.dst, c.src, c.quals, c.count)
<1>2. BuiltAlike(c.dst, c.src, c.quals) <=>
        Agree(e) /\ \A x \in Asked(e) : BuiltAlike(x.dst, x.src, x.quals)
  BY <1>1, AlikeStep
<1>3. c = e  BY <1>1
<1> HIDE DEF e
<1> QED  BY <1>2, <1>3 DEF AlikeCall

\* At each level there is one node less to go.
LEMMA LevelsMade ==
  ASSUME NEW first, MadeCall(first, MaxDepth + 1), Agree(first)
  PROVE  \A i \in 0..MaxDepth : \A c \in LevelOf(first, i) : MadeCall(c, MaxDepth + 1 - i)
<1> DEFINE S == {i \in 0..MaxDepth : \A c \in LevelOf(first, i) : MadeCall(c, MaxDepth + 1 - i)}
<1>1. MaxDepth \in Nat  BY MaxDepthAssumption
<1>2. 0 \in S
  <2>1. LevelOf(first, 0) = {first}  BY DEF LevelOf
  <2>2. 0 \in 0..MaxDepth /\ MaxDepth + 1 - 0 = MaxDepth + 1  BY <1>1
  <2> QED  BY <2>1, <2>2
<1>3. ASSUME NEW i \in 0..MaxDepth, i \in S, i < MaxDepth PROVE i + 1 \in S
  <2>1. LevelOf(first, i + 1) = Deeper(LevelOf(first, i))  BY <1>3, NextLevel
  <2>2. i + 1 \in 0..MaxDepth /\ MaxDepth + 1 - i \in Nat
        /\ (MaxDepth + 1 - i) - 1 = MaxDepth + 1 - (i + 1)
    BY <1>1, <1>3
  <2>3. ASSUME NEW x \in LevelOf(first, i + 1) PROVE MadeCall(x, MaxDepth + 1 - (i + 1))
    <3>1. PICK c \in LevelOf(first, i) : Agree(c) /\ x \in Asked(c)  BY <2>1 DEF Deeper
    <3>2. MadeCall(c, MaxDepth + 1 - i)  BY <1>3
    <3>3. MadeCall(x, (MaxDepth + 1 - i) - 1)  BY <2>2, <3>1, <3>2, CallGoesOn
    <3> QED  BY <2>2, <3>3
  <2> QED  BY <2>2, <2>3
<1>4. \A i \in 0..MaxDepth : i \in S
  <2> HIDE DEF S
  <2> QED  BY <1>1, <1>2, <1>3, CountUp
<1> QED  BY <1>4

\* No level is left out: what agrees at all of them is built alike.
LEMMA AgreeIsAlike ==
  ASSUME NEW first, MadeCall(first, MaxDepth + 1)
  PROVE  (\A i \in 0..MaxDepth : \A c \in LevelOf(first, i) : Agree(c)) <=> AlikeCall(first)
<1>1. MaxDepth \in Nat /\ LevelOf(first, 0) = {first}  BY MaxDepthAssumption DEF LevelOf
<1>2. ASSUME AlikeCall(first)
      PROVE  \A i \in 0..MaxDepth : \A c \in LevelOf(first, i) : Agree(c)
  <2> DEFINE S == {i \in 0..MaxDepth : \A c \in LevelOf(first, i) : AlikeCall(c)}
  <2>1. Agree(first)  BY <1>2, CallAlike
  <2>2. 0 \in S  BY <1>1, <1>2
  <2>3. ASSUME NEW i \in 0..MaxDepth, i \in S, i < MaxDepth PROVE i + 1 \in S
    <3>1. LevelOf(first, i + 1) = Deeper(LevelOf(first, i))  BY <2>1, <2>3, NextLevel
    <3>2. i + 1 \in 0..MaxDepth  BY <1>1, <2>3
    <3>3. ASSUME NEW x \in LevelOf(first, i + 1) PROVE AlikeCall(x)
      <4>1. PICK c \in LevelOf(first, i) : Agree(c) /\ x \in Asked(c)  BY <3>1 DEF Deeper
      <4>2. MadeCall(c, MaxDepth + 1 - i) /\ AlikeCall(c)  BY <2>1, <2>3, LevelsMade
      <4> QED  BY <4>1, <4>2, CallAlike
    <3> QED  BY <3>2, <3>3
  <2>4. \A i \in 0..MaxDepth : i \in S
    <3> HIDE DEF S
    <3> QED  BY <1>1, <2>2, <2>3, CountUp
  <2>5. ASSUME NEW i \in 0..MaxDepth, NEW c \in LevelOf(first, i) PROVE Agree(c)
    <3>1. MadeCall(c, MaxDepth + 1 - i)  BY <2>1, LevelsMade
    <3>2. AlikeCall(c)  BY <2>4
    <3> QED  BY <3>1, <3>2, CallAlike
  <2> QED  BY <2>5
<1>3. ASSUME \A i \in 0..MaxDepth : \A c \in LevelOf(first, i) : Agree(c)
      PROVE  AlikeCall(first)
  <2> DEFINE S == {i \in 0..MaxDepth : \A c \in LevelOf(first, MaxDepth - i) : AlikeCall(c)}
  <2>1. Agree(first)
    <3>1. 0 \in 0..MaxDepth  BY <1>1
    <3> QED  BY <1>1, <1>3, <3>1
  <2>2. \A i \in 0..MaxDepth : \A c \in LevelOf(first, i) : MadeCall(c, MaxDepth + 1 - i)
    BY <2>1, LevelsMade
  <2>3. 0 \in S
    <3>1. MaxDepth - 0 = MaxDepth /\ MaxDepth \in 0..MaxDepth /\ MaxDepth + 1 - MaxDepth = 1
          /\ 0 \in 0..MaxDepth
      BY <1>1
    <3>2. ASSUME NEW c \in LevelOf(first, MaxDepth) PROVE AlikeCall(c)
      <4>1. Agree(c)  BY <1>3, <3>1
      <4>2. MadeCall(c, 1)  BY <2>2, <3>1
      <4>3. ASSUME NEW x \in Asked(c) PROVE FALSE
        <5>1. MadeCall(x, 1 - 1)  BY <4>1, <4>2, CallGoesOn
        <5>2. /\ IsMade(x.dst) /\ IsMade(x.src)
              /\ Len(x.dst) <= 1 - 1 \/ Len(x.src) <= 1 - 1
          BY <5>1 DEF MadeCall, Within
        <5>3. Len(x.dst) \in Nat \ {0} /\ Len(x.src) \in Nat \ {0}  BY <5>2, MadeHead
        <5> QED  BY <5>2, <5>3
      <4> QED  BY <4>1, <4>2, <4>3, CallAlike
    <3> QED  BY <3>1, <3>2
  <2>4. ASSUME NEW i \in 0..MaxDepth, i \in S, i < MaxDepth PROVE i + 1 \in S
    <3> DEFINE j == MaxDepth - (i + 1)
    <3>1. /\ j \in 0..MaxDepth /\ j < MaxDepth /\ j + 1 = MaxDepth - i
          /\ i + 1 \in 0..MaxDepth
      BY <1>1, <2>4
    <3>2. \A x \in LevelOf(first, j + 1) : AlikeCall(x)  BY <2>4, <3>1
    <3> HIDE DEF j
    <3>3. LevelOf(first, j + 1) = Deeper(LevelOf(first, j))  BY <2>1, <3>1, NextLevel
    <3>4. ASSUME NEW c \in LevelOf(first, j) PROVE AlikeCall(c)
      <4>1. Agree(c) /\ MadeCall(c, MaxDepth + 1 - j)  BY <1>3, <2>2, <3>1
      <4>2. Asked(c) \subseteq Deeper(LevelOf(first, j))  BY <4>1 DEF Deeper
      <4> QED  BY <3>2, <3>3, <4>1, <4>2, CallAlike
    <3> QED  BY <3>1, <3>4 DEF j
  <2>5. \A i \in 0..MaxDepth : i \in S
    <3> HIDE DEF S
    <3> QED  BY <1>1, <2>3, <2>4, CountUp
  <2>6. MaxDepth \in 0..MaxDepth /\ MaxDepth - MaxDepth = 0  BY <1>1
  <2>7. \A c \in LevelOf(first, MaxDepth - MaxDepth) : AlikeCall(c)  BY <2>5, <2>6
  <2> QED  BY <1>1, <2>6, <2>7
<1> QED  BY <1>2, <1>3

LEMMA EqualIsAlike ==
  ASSUME NEW d, IsMade(d), Complete(d), NEW s, IsMade(s), Complete(s), NEW q \in BOOLEAN,
         NEW k \in BOOLEAN, Within(d, MaxDepth + 1) \/ Within(s, MaxDepth + 1)
  PROVE  equal(d, s, q, k) <=> BuiltAlike(d, s, q)
<1> DEFINE first == Call(d, s, q, k)
<1>1. first.dst = d /\ first.src = s /\ first.quals = q  BY CallIs
<1>2. MadeCall(first, MaxDepth + 1)  BY MadeCallIs
<1>3. equal(d, s, q, k) <=> \A i \in 0..MaxDepth : \A c \in LevelOf(first, i) : Agree(c)
  BY EqualIs
<1> HIDE DEF first
<1>4. equal(d, s, q, k) <=> AlikeCall(first)  BY <1>2, <1>3, AgreeIsAlike
<1> QED  BY <1>1, <1>4 DEF AlikeCall

-----------------------------------------------------------------------------
(* The types that are declared are made as alloc_* makes them.             *)

LEMMA CombineNoTag ==
  ASSUME NEW v \in Spellings, NEW w, NEW r \in CombineWord(v, w)
  PROVE  r \notin TagWords
BY DEF CombineWord, CombineChar, CombineShort, CombineInt, CombineLong, CombineSign,
       CombineOther, Spellings, Pesudo, Base, Word, TagWords, SuWords

LEMMA NormalNoTag ==
  ASSUME NEW w, w \notin TagWords
  PROVE  NormalWord(w) \notin Links \cup TagWords
<1>1. \A x \in Links \cup TagWords :
        x.sign = "none" /\ x.base \in {"pointer", "array", "function", "struct_tag", "union_tag", "enum_tag"}
  BY DEF Links, TagWords, SuWords, Base, Word
<1>2. CASE w.base \in {"void", "float", "double", "struct_tag", "union_tag", "enum_tag"}
  <2>1. NormalWord(w) = w  BY <1>2 DEF NormalWord
  <2>2. w \in Links => w.base \in {"pointer", "array", "function"}  BY DEF Links, Base, Word
  <2> QED  BY <1>2, <2>1, <2>2
<1>3. CASE w.base \notin {"void", "float", "double", "struct_tag", "union_tag", "enum_tag"}
  <2>1. NormalWord(w).sign # "none"  BY <1>3 DEF NormalWord, IntegerWord, Word
  <2> QED  BY <1>1, <2>1
<1> QED  BY <1>2, <1>3

\* An array is made whatever it is sized to.
LEMMA SizedMade ==
  ASSUME NEW n, IsMadeNode(n), n.class = "array", NEW b, NEW a
  PROVE  IsMadeNode(Sized(n, b, a)) /\ Sized(n, b, a).type = n.type
<1> DEFINE m == [class |-> "array", type |-> Base("array"), quals |-> {}, size |-> b,
                 alignment |-> a, count |-> 0, undefined |-> n.undefined]
<1>1. n = [class |-> "array", type |-> Base("array"), quals |-> {}, size |-> n.size,
           alignment |-> n.alignment, count |-> 0, undefined |-> n.undefined]
  BY MadeIs
<1>2. Sized(n, b, a) = m
  <2> DEFINE Array(x, y, u) ==
               [class |-> "array", type |-> Base("array"), quals |-> {}, size |-> x,
                alignment |-> y, count |-> 0, undefined |-> u]
         sized == [n EXCEPT !.size = b]
  <2>1. sized = Array(b, n.alignment, n.undefined)  BY <1>1
  <2> HIDE DEF sized
  <2>2. [sized EXCEPT !.alignment = a] = Array(b, a, n.undefined)  BY <2>1
  <2>3. Sized(n, b, a) = [sized EXCEPT !.alignment = a]  BY Zenon DEF Sized, sized
  <2> QED  BY <2>2, <2>3
<1>3. /\ m.class = "array" /\ m.size = b /\ m.alignment = a /\ m.undefined = n.undefined
      /\ m.type = Base("array")
  OBVIOUS
<1>4. m = [class |-> "array", type |-> Base("array"), quals |-> {}, size |-> m.size,
           alignment |-> m.alignment, count |-> 0, undefined |-> m.undefined]
  BY <1>3
<1>5. n.type = Base("array")  BY MadeIs
<1> HIDE DEF m
<1>6. IsMadeNode(m)  BY <1>3, <1>4 DEF IsMadeNode
<1> QED  BY <1>2, <1>3, <1>5, <1>6

AllMade(d) == \A i \in DOMAIN d : IsMadeNode(d[i])
AllLinks(d) == \A i \in DOMAIN d : IsMadeNode(d[i]) /\ d[i].type \in Links

LEMMA MergeMade ==
  ASSUME NEW d, IsDeclarator(d), AllLinks(d), NEW s, IsChain(s), AllMade(s)
  PROVE  /\ AllMade(merge(d, s))
         /\ \A i \in DOMAIN d : merge(d, s)[i].type \in Links
<1> DEFINE m == merge(d, s)
<1>1. /\ Len(d) \in Nat /\ DOMAIN d = 1..Len(d) /\ Len(s) \in Nat /\ DOMAIN s = 1..Len(s)
      /\ IsChain(d)
  BY ChainDomain DEF IsDeclarator
<1>2. /\ IsChain(m) /\ Len(m) = Len(d) + Len(s)
      /\ \A i \in DOMAIN s : m[Len(d) + i] = s[i]
  BY MergeIs
<1>3. DOMAIN m = 1..(Len(d) + Len(s))  BY <1>2, ChainDomain
<1>4. \A i \in DOMAIN d : IsMadeNode(m[i]) /\ m[i].type \in Links
  <2>1. CASE ~IsType(s)
    <3>1. m = d  BY <2>1 DEF merge
    <3> QED  BY <3>1 DEF AllLinks
  <2>2. CASE ~IsType(d)
    <3>1. DOMAIN d = {}  BY <1>1, <2>2, EmptyChain DEF IsType, NoType
    <3> QED  BY <3>1
  <2>3. CASE IsType(s) /\ IsType(d)
    <3>1. PICK bytes, aligned : IsMerged(m, d, s, bytes, aligned)
      BY <2>3, MergeShape, Zenon
    <3> DEFINE w == d \o s
    <3>2. /\ DOMAIN w = 1..(Len(d) + Len(s))
          /\ \A i \in DOMAIN d : w[i] = d[i]
      BY <1>1, Joined
    <3>3. m = [i \in DOMAIN w |->
                 IF i \in DOMAIN d /\ d[i].class = "array"
                 THEN Sized(w[i], bytes[i], aligned[i]) ELSE w[i]]
      BY <3>1, Zenon DEF IsMerged
    <3> HIDE DEF w, m
    <3> TAKE i \in DOMAIN d
    <3>4. i \in DOMAIN w /\ w[i] = d[i]  BY <1>1, <3>2
    <3>5. IsMadeNode(d[i]) /\ d[i].type \in Links  BY DEF AllLinks
    <3>6. CASE d[i].class = "array"
      <4>1. m[i] = Sized(d[i], bytes[i], aligned[i])  BY <3>3, <3>4, <3>6
      <4> QED  BY <3>5, <3>6, <4>1, SizedMade
    <3>7. CASE d[i].class # "array"
      <4>1. m[i] = d[i]  BY <3>3, <3>4, <3>7
      <4> QED  BY <3>5, <4>1
    <3> QED  BY <3>6, <3>7
  <2> QED  BY <2>1, <2>2, <2>3
<1> HIDE DEF m
<1>5. ASSUME NEW i \in DOMAIN m PROVE IsMadeNode(m[i])
  <2>1. CASE i \in DOMAIN d  BY <1>4, <2>1
  <2>2. CASE i \notin DOMAIN d
    <3>1. i - Len(d) \in DOMAIN s /\ i = Len(d) + (i - Len(d))  BY <1>1, <1>3, <2>2
    <3>2. m[i] = s[i - Len(d)]  BY <1>2, <3>1
    <3> QED  BY <3>1, <3>2 DEF AllMade
  <2> QED  BY <2>1, <2>2
<1> QED  BY <1>4, <1>5 DEF AllMade, m

\* More links after links.
LEMMA LinksMerge ==
  ASSUME NEW d, IsDeclarator(d), AllLinks(d), NEW s, IsChain(s), AllLinks(s)
  PROVE  AllLinks(merge(d, s))
<1> DEFINE m == merge(d, s)
<1>1. AllMade(m) /\ \A i \in DOMAIN d : m[i].type \in Links
  <2>1. AllMade(s)  BY DEF AllLinks, AllMade
  <2> QED  BY <2>1, MergeMade
<1>2. /\ IsChain(m) /\ Len(m) = Len(d) + Len(s)
      /\ \A i \in DOMAIN s : m[Len(d) + i] = s[i]
  BY MergeIs
<1>3. /\ Len(d) \in Nat /\ DOMAIN d = 1..Len(d)
      /\ Len(s) \in Nat /\ DOMAIN s = 1..Len(s) /\ DOMAIN m = 1..(Len(d) + Len(s))
  BY <1>2, ChainDomain DEF IsDeclarator
<1> HIDE DEF m
<1>4. ASSUME NEW i \in DOMAIN m PROVE m[i].type \in Links
  <2>1. CASE i \in DOMAIN d  BY <1>1, <2>1
  <2>2. CASE i \notin DOMAIN d
    <3>1. i - Len(d) \in DOMAIN s /\ i = Len(d) + (i - Len(d))  BY <1>3, <2>2
    <3>2. m[i] = s[i - Len(d)]  BY <1>2, <3>1
    <3> QED  BY <3>1, <3>2 DEF AllLinks
  <2> QED  BY <2>1, <2>2
<1> QED  BY <1>1, <1>4 DEF AllLinks, AllMade, m

\* What was read of the specifiers, and the declarator around the identifier.
MadeSpec ==
  \/ spec = NoType
  \/ \E g : spec = alloc_tag_type(StructTag, g)
  \/ class(spec) = "simple" /\ word(spec) \notin TagWords
MadeInv ==
  /\ Open => MadeSpec /\ AllLinks(decl)
  /\ phase = "declared" => IsMade(declared)

LEMMA InitMade == Init => MadeInv
<1> SUFFICES ASSUME Init PROVE MadeInv
  OBVIOUS
<1>1. spec = NoType /\ decl = <<>> /\ phase = "file"  BY DEF Init, NoType
<1>2. AllLinks(decl)  BY <1>1, EmptyChain DEF AllLinks
<1> QED  BY <1>1, <1>2 DEF MadeInv, MadeSpec

\* Nothing of a declaration is changed.
LEMMA MadeFrame ==
  ASSUME MadeInv, UNCHANGED <<spec, decl, declared>>, Open' => Open,
         phase' = "declared" => phase = "declared"
  PROVE  MadeInv'
<1>1. MadeSpec => MadeSpec'  BY DEF MadeSpec, alloc_tag_type, class, word
<1>2. AllLinks(decl) => AllLinks(decl)'  BY DEF AllLinks
<1>3. IsMade(declared) => IsMade(declared)'  OBVIOUS
<1> QED  BY <1>1, <1>2, <1>3 DEF MadeInv

\* Of the declaration only the specifiers are.
LEMMA SpecMade ==
  ASSUME MadeInv, phase = "specifiers", phase' \in {"specifiers", "bad specifiers"},
         UNCHANGED <<decl, declared>>,
         \/ spec' = spec
         \/ \E g : spec' = alloc_tag_type(StructTag, g)
         \/ \E w, q : spec' = alloc_simple_type(w, q) /\ w \notin TagWords
  PROVE  MadeInv'
<1>1. MadeSpec /\ AllLinks(decl)  BY DEF MadeInv, Open
<1>2. MadeSpec'
  <2>1. CASE spec' = spec  BY <1>1, <2>1 DEF MadeSpec, alloc_tag_type, class, word
  <2>2. CASE \E g : spec' = alloc_tag_type(StructTag, g)  BY <2>2 DEF MadeSpec, alloc_tag_type
  <2>3. CASE \E w, q : spec' = alloc_simple_type(w, q) /\ w \notin TagWords
    <3>1. PICK w, q : spec' = alloc_simple_type(w, q) /\ w \notin TagWords  BY <2>3
    <3> DEFINE t == alloc_simple_type(w, q)
    <3>2. word(t) = w /\ class(t) = "simple"  BY SimpleIs
    <3>3. class(spec') = "simple" /\ word(spec') = w  BY <3>1, <3>2
    <3>4. class(spec)' = class(spec') /\ word(spec)' = word(spec')  BY DEF class, word
    <3> QED  BY <3>1, <3>3, <3>4 DEF MadeSpec
  <2> QED  BY <2>1, <2>2, <2>3
<1>3. AllLinks(decl)'  BY <1>1 DEF AllLinks
<1> QED  BY <1>2, <1>3 DEF MadeInv

LEMMA ReadMade ==
  ASSUME MadeInv, ReadSpecifier
  PROVE  MadeInv'
<1>1. phase = "specifiers" /\ UNCHANGED <<decl, declared>>
      /\ phase' \in {"specifiers", "bad specifiers"}
  BY DEF ReadSpecifier, ReadWord, ReadTag, ReadQualifier, Reading
<1>2. CASE \E v \in Spellings : ReadWord(v)
  <2>1. PICK v \in Spellings : ReadWord(v)  BY <1>2
  <2> DEFINE left == IF IsType(spec) THEN CombineWord(v, word(spec)) ELSE {v}
  <2>2. spec' = spec \/ \E r \in left : \E q : spec' = alloc_simple_type(r, q)
    BY <2>1, Zenon DEF ReadWord
  <2>3. \A r \in left : r \notin TagWords
    <3>1. v \notin TagWords  BY DEF Spellings, TagWords, SuWords, Base, Word
    <3> QED  BY <3>1, CombineNoTag
  <2> HIDE DEF left
  <2> QED  BY <1>1, <2>2, <2>3, SpecMade
<1>3. CASE \E t \in Tags : ReadTag(t)
  <2>1. spec' = spec \/ \E g : spec' = alloc_tag_type(StructTag, g)  BY <1>3 DEF ReadTag
  <2> QED  BY <1>1, <2>1, SpecMade
<1>4. CASE \E q \in Qualifiers : ReadQualifier(q)
  <2>1. \/ spec' = spec
        \/ \E b : spec' = alloc_simple_type(Pesudo, b)
        \/ /\ IsType(spec) /\ class(spec) # "tag"
           /\ \E b : spec' = alloc_simple_type(word(spec), b)
    BY <1>4, Zenon DEF ReadQualifier
  <2>2. Pesudo \notin TagWords  BY DEF Pesudo, TagWords, SuWords, Base, Word
  <2>3. IsType(spec) /\ class(spec) # "tag" => word(spec) \notin TagWords
    <3>1. MadeSpec  BY <1>1 DEF MadeInv, Open
    <3>2. (\E g : spec = alloc_tag_type(StructTag, g)) => class(spec) = "tag"  BY TagIs
    <3> QED  BY <3>1, <3>2 DEF MadeSpec, IsType
  <2> QED  BY <1>1, <2>1, <2>2, <2>3, SpecMade
<1> QED  BY <1>2, <1>3, <1>4 DEF ReadSpecifier

\* A derivation adds nodes that are made.
LEMMA DeriveMade ==
  ASSUME DeclarationInv, MadeInv, phase = "declarator", UNCHANGED <<spec, declared>>,
         \/ phase' \in {"crashed", "bad declarator"}
         \/ phase' = phase /\ \E s : IsChain(s) /\ AllLinks(s) /\ decl' = merge(decl, s)
  PROVE  MadeInv'
<1>1. MadeSpec /\ AllLinks(decl) /\ IsDeclarator(decl)
  BY DEF MadeInv, DeclarationInv, DeclInv, Open
<1>2. CASE phase' \in {"crashed", "bad declarator"}  BY <1>2 DEF MadeInv, Open
<1>3. CASE phase' = phase /\ \E s : IsChain(s) /\ AllLinks(s) /\ decl' = merge(decl, s)
  <2>1. PICK s : IsChain(s) /\ AllLinks(s) /\ decl' = merge(decl, s)  BY <1>3
  <2>2. AllLinks(merge(decl, s))  BY <1>1, <2>1, LinksMerge
  <2>3. AllLinks(decl)'  BY <2>1, <2>2 DEF AllLinks
  <2>4. MadeSpec'  BY <1>1 DEF MadeSpec, alloc_tag_type, class, word
  <2> QED  BY <1>3, <2>3, <2>4 DEF MadeInv
<1> QED  BY <1>2, <1>3

LEMMA OneMade ==
  ASSUME NEW n, IsMadeNode(n), n.type \in Links
  PROVE  IsChain(<<n>>) /\ AllLinks(<<n>>)
<1>1. IsChain(<<n>>) /\ DOMAIN <<n>> = 1..1 /\ <<n>>[1] = n  BY OneNode
<1>2. \A i \in 1..1 : i = 1  OBVIOUS
<1> QED  BY <1>1, <1>2 DEF AllLinks

LEMMA StarsMade ==
  ASSUME NEW stars \in StarLists
  PROVE  IsChain(pointer(stars)) /\ AllLinks(pointer(stars))
<1> DEFINE p == pointer(stars)
           Star(q) == [class |-> "pointer", type |-> Base("pointer"), quals |-> q]
<1>1. Len(stars) \in Nat /\ DOMAIN stars = 1..Len(stars)
  BY StarListsAssumption, LenProperties
<1>2. \A q : Head(alloc_pointer_type(q, NoType)) = Star(q)
  <2> TAKE q
  <2> HIDE DEF Star
  <2>1. <<Star(q)>> \o NoType = <<Star(q)>> /\ Head(<<Star(q)>>) = Star(q)
    BY BareNode
  <2> QED  BY <2>1 DEF alloc_pointer_type, Star
<1>3. p = [i \in DOMAIN stars |-> Star(stars[i])]  BY <1>2 DEF pointer
<1>4. \A q : IsMadeNode(Star(q)) /\ Star(q).type \in Links
  <2> TAKE q
  <2>1. Star(q).class = "pointer" /\ Star(q).quals = q /\ Star(q).type = Base("pointer")
    OBVIOUS
  <2>2. Star(q) = [class |-> "pointer", type |-> Base("pointer"), quals |-> Star(q).quals]
    BY <2>1
  <2> HIDE DEF Star
  <2> QED  BY <2>1, <2>2 DEF IsMadeNode, IsObjectNode, Links
<1> HIDE DEF p, Star
<1>5. p = [i \in 1..Len(stars) |-> p[i]]  BY <1>1, <1>3
<1>6. IsChain(p) /\ DOMAIN p = 1..Len(stars)  BY <1>1, <1>5, ChainOn
<1>7. \A i \in DOMAIN p : p[i] = Star(stars[i])  BY <1>1, <1>3, <1>6
<1> QED  BY <1>4, <1>6, <1>7 DEF AllLinks, p

LEMMA DerivedMade ==
  ASSUME DeclarationInv, MadeInv, Derive
  PROVE  MadeInv'
<1>1. phase = "declarator" /\ UNCHANGED <<spec, declared>>
  BY DEF Derive, Pointers, Brackets, Parameters, Deriving
<1>2. CASE \E stars \in StarLists : Pointers(stars)
  <2>1. PICK stars \in StarLists : Pointers(stars)  BY <1>2
  <2>2. phase' = phase /\ decl' = merge(decl, pointer(stars))  BY <2>1 DEF Pointers
  <2> QED  BY <1>1, <2>2, StarsMade, DeriveMade
<1>3. CASE \E counted \in BOOLEAN : Brackets(counted)
  <2>1. PICK counted \in BOOLEAN : Brackets(counted)  BY <1>3
  <2> DEFINE n == [class |-> "array", type |-> Base("array"), quals |-> {}, size |-> 0,
                   alignment |-> 0, count |-> 0, undefined |-> ~counted]
  <2>2. /\ n.class = "array" /\ n.type = Base("array") /\ n.size = 0 /\ n.alignment = 0
        /\ n = [class |-> "array", type |-> Base("array"), quals |-> {}, size |-> n.size,
                alignment |-> n.alignment, count |-> 0, undefined |-> n.undefined]
    OBVIOUS
  <2>3. alloc_array_type(0, 0, NoType, 0, ~counted) = <<n>>
    <3> HIDE DEF n
    <3>1. <<n>> \o NoType = <<n>>  BY BareNode
    <3> QED  BY <3>1, Zenon DEF alloc_array_type, n
  <2> HIDE DEF n
  <2>4. IsMadeNode(n) /\ n.type \in Links  BY <2>2 DEF IsMadeNode, Links
  <2>5. IsChain(<<n>>) /\ AllLinks(<<n>>)  BY <2>4, OneMade
  <2>6. \/ phase' \in {"crashed", "bad declarator"}
        \/ phase' = phase /\ decl' = merge(decl, <<n>>)
    BY <2>1, <2>3 DEF Brackets
  <2> QED  BY <1>1, <2>5, <2>6, DeriveMade
<1>4. CASE \E args \in ArgLists : Parameters(args)
  <2>1. PICK args \in ArgLists : Parameters(args)  BY <1>4
  <2> DEFINE n == [class |-> "function", type |-> Base("function"), quals |-> {},
                   args |-> args, ellipsis |-> FALSE]
  <2>2. /\ n.class = "function" /\ n.type = Base("function") /\ n.args = args
        /\ n = [class |-> "function", type |-> Base("function"), quals |-> {},
                args |-> n.args, ellipsis |-> n.ellipsis]
    OBVIOUS
  <2>3. alloc_function_type(NoType, args, FALSE) = <<n>>
    <3> HIDE DEF n
    <3>1. <<n>> \o NoType = <<n>>  BY BareNode
    <3> QED  BY <3>1, Zenon DEF alloc_function_type, n
  <2> HIDE DEF n
  <2>4. AreObjects(n.args)  BY <2>2, ArgListsAssumption
  <2>5. IsMadeNode(n) /\ n.type \in Links  BY <2>2, <2>4 DEF IsMadeNode, Links
  <2>6. IsChain(<<n>>) /\ AllLinks(<<n>>)  BY <2>5, OneMade
  <2>7. phase' = phase /\ decl' = merge(decl, <<n>>)  BY <2>1, <2>3 DEF Parameters
  <2> QED  BY <1>1, <2>6, <2>7, DeriveMade
<1> QED  BY <1>2, <1>3, <1>4 DEF Derive

\* What the specifiers stand for ends a type.
LEMMA NormalMade ==
  ASSUME MadeSpec, spec # NoType
  PROVE  LET s == normalize(spec)
         IN IsChain(s) /\ Len(s) = 1 /\ AllMade(s) /\ s[1].type \notin Links
<1> DEFINE s == normalize(spec)
<1>1. CASE \E g : spec = alloc_tag_type(StructTag, g)
  <2>1. PICK g : spec = alloc_tag_type(StructTag, g)  BY <1>1
  <2> DEFINE n == [class |-> "tag", type |-> StructTag, tag |-> g]
  <2>2. n.class = "tag" /\ n.type = StructTag
        /\ n = [class |-> "tag", type |-> n.type, tag |-> n.tag]
    OBVIOUS
  <2>3. StructTag \in SuWords /\ StructTag \notin Links
    BY DEF StructTag, SuWords, Links, Base, Word
  <2>4. spec = <<n>> /\ class(spec) = "tag"
    <3>1. class(alloc_tag_type(StructTag, g)) = "tag"  BY TagIs
    <3> QED  BY <2>1, <3>1 DEF alloc_tag_type
  <2>5. s = <<n>>  BY <2>4 DEF normalize
  <2> HIDE DEF n
  <2>6. IsMadeNode(n)  BY <2>2, <2>3 DEF IsMadeNode, IsObjectNode
  <2>7. IsChain(<<n>>) /\ Len(<<n>>) = 1 /\ DOMAIN <<n>> = 1..1 /\ <<n>>[1] = n  BY OneNode
  <2>8. \A i \in 1..1 : i = 1  OBVIOUS
  <2>9. AllMade(<<n>>)  BY <2>6, <2>7, <2>8 DEF AllMade
  <2> QED  BY <2>2, <2>3, <2>5, <2>7, <2>9
<1>2. CASE class(spec) = "simple" /\ word(spec) \notin TagWords
  <2> DEFINE w == NormalWord(word(spec))
             q == Quals(spec)
             t == alloc_simple_type(w, q)
  <2>1. s = t  BY <1>2 DEF normalize
  <2>2. w \notin Links \cup TagWords  BY <1>2, NormalNoTag
  <2> HIDE DEF w, q
  <2>3. /\ IsChain(t) /\ Len(t) = 1 /\ DOMAIN t = 1..1
        /\ t[1] = [class |-> "simple", type |-> w, quals |-> q]
    BY SimpleIs
  <2> HIDE DEF t
  <2>4. /\ t[1].class = "simple" /\ t[1].type = w
        /\ t[1] = [class |-> "simple", type |-> t[1].type, quals |-> t[1].quals]
    BY <2>3
  <2>5. IsMadeNode(t[1])  BY <2>2, <2>4 DEF IsMadeNode, IsObjectNode
  <2>6. \A i \in 1..1 : i = 1  OBVIOUS
  <2>7. AllMade(t)  BY <2>3, <2>5, <2>6 DEF AllMade
  <2> QED  BY <2>1, <2>2, <2>3, <2>4, <2>7
<1> QED  BY <1>1, <1>2 DEF MadeSpec

LEMMA DeclareMade ==
  ASSUME DeclarationInv, MadeInv, Declare
  PROVE  MadeInv'
<1> DEFINE s == normalize(spec)
           t == merge(decl, s)
<1>1. /\ phase = "declarator"
      /\ \/ phase' = "declared" /\ declared' = t
         \/ phase' = "incomplete"
  BY DEF Declare
<1>2. MadeSpec /\ AllLinks(decl) /\ IsDeclarator(decl) /\ spec # NoType
  BY <1>1 DEF MadeInv, DeclarationInv, PhaseInv, DeclInv, Open, IsType
<1>3. IsChain(s) /\ Len(s) = 1 /\ AllMade(s) /\ s[1].type \notin Links
  BY <1>2, NormalMade
<1> HIDE DEF s
<1>4. AllMade(t) /\ \A i \in DOMAIN decl : t[i].type \in Links
  BY <1>2, <1>3, MergeMade
<1>5. /\ IsChain(t) /\ Len(t) = Len(decl) + 1
      /\ \A i \in DOMAIN s : t[Len(decl) + i] = s[i]
  <2>1. IsDeclarator(decl) /\ IsChain(s)  BY <1>2, <1>3
  <2>2. /\ IsChain(t) /\ Len(t) = Len(decl) + Len(s)
        /\ \A i \in DOMAIN decl :
             /\ "class" \in DOMAIN t[i] /\ t[i].class = decl[i].class
             /\ Derivation(t[i]) = Derivation(decl[i])
        /\ \A i \in DOMAIN s : t[Len(decl) + i] = s[i]
    BY <2>1, MergeIs
  <2> HIDE DEF t
  <2> QED  BY <1>3, <2>2
<1>6. /\ Len(decl) \in Nat /\ DOMAIN decl = 1..Len(decl) /\ DOMAIN s = 1..1
      /\ DOMAIN t = 1..(Len(decl) + 1) /\ t # <<>>
  BY <1>2, <1>3, <1>5, ChainDomain DEF IsDeclarator
<1> HIDE DEF t
<1>7. \A i \in DOMAIN t : t[i].type \in Links <=> i < Len(t)
  <2>1. t[Len(decl) + 1] = s[1]  BY <1>5, <1>6
  <2>2. \A i \in DOMAIN t : i \in DOMAIN decl \/ i = Len(decl) + 1  BY <1>6
  <2>3. \A i \in DOMAIN decl : i < Len(decl) + 1  BY <1>6
  <2> QED  BY <1>3, <1>4, <1>5, <1>6, <2>1, <2>2, <2>3
<1>8. IsMade(t)
  BY <1>4, <1>5, <1>6, <1>7 DEF IsMade, EndsInLeaf, AllMade, IsType, NoType
<1>9. ~Open'  BY <1>1 DEF Open
<1> QED  BY <1>1, <1>8, <1>9 DEF MadeInv

LEMMA MadeStep ==
  ASSUME DeclarationInv, MadeInv, [Next]_vars
  PROVE  MadeInv'
<1>1. CASE OpenTag \/ LayOut \/ CloseTag \/ AbortTag \/ Begin \/ EndSpecifiers
  <2>1. /\ UNCHANGED <<spec, decl, declared>>
        /\ phase \in {"file", "tag", "specifiers"} /\ phase' # "declared"
    BY <1>1 DEF OpenTag, LayOut, CloseTag, AbortTag, Begin, EndSpecifiers, declVars
  <2> QED  BY <2>1, MadeFrame DEF Open
<1>2. CASE EndDeclaration
  <2>1. phase' = "file" /\ spec' = NoType /\ decl' = <<>>  BY <1>2 DEF EndDeclaration, NoType
  <2>2. AllLinks(decl)'  BY <2>1, EmptyChain DEF AllLinks
  <2>3. MadeSpec'  BY <2>1 DEF MadeSpec, NoType
  <2> QED  BY <2>1, <2>2, <2>3 DEF MadeInv
<1>3. CASE ReadSpecifier  BY <1>3, ReadMade
<1>4. CASE Derive  BY <1>4, DerivedMade
<1>5. CASE Declare  BY <1>5, DeclareMade
<1>6. CASE UNCHANGED vars
  <2>1. UNCHANGED <<spec, decl, declared>> /\ phase' = phase  BY <1>6 DEF vars, declVars
  <2> QED  BY <2>1, MadeFrame DEF Open
<1> QED  BY <1>1, <1>2, <1>3, <1>4, <1>5, <1>6 DEF Next

LEMMA MadeIsSame == MadeInv => EqualIsSame
<1> SUFFICES ASSUME MadeInv, phase = "declared", NEW t \in Known,
                    \A tag \in TagsOf(t) \cup TagsOf(declared) : tags[tag].complete,
                    NEW q \in BOOLEAN
             PROVE  /\ equal(declared, t, q, TRUE) <=> BuiltAlike(declared, t, q)
                    /\ equal(t, declared, q, TRUE) <=> BuiltAlike(t, declared, q)
  BY DEF EqualIsSame
<1>1. IsMade(declared) /\ IsMade(t) /\ Within(t, MaxDepth + 1)
  BY KnownAssumption DEF MadeInv
<1>2. Complete(declared) /\ Complete(t)  BY DEF Complete
<1>3. TRUE \in BOOLEAN  OBVIOUS
<1> QED  BY <1>1, <1>2, <1>3, EqualIsAlike

\* A redeclaration is found equal to what it redeclares just when both were built
\* alike, whatever else was declared of such types: no two others are taken for
\* one, and none is told from itself (ey_type_equal).
THEOREM EqualsAreSame == Spec => []EqualIsSame
<1> DEFINE IInv == DeclarationInv /\ DeclarationLayoutInv /\ MadeInv
<1>1. Init => IInv  BY InitDeclaration, InitLayout, InitMade
<1>2. IInv /\ [Next]_vars => IInv'
  BY DeclarationStep, DeclarationLayoutStep, MadeStep DEF DeclarationLayoutInv
<1>3. IInv => EqualIsSame  BY MadeIsSame
<1> QED  BY <1>1, <1>2, <1>3, PTL DEF Spec
=============================================================================
