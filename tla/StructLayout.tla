---------------------------- MODULE StructLayout ----------------------------
(***************************************************************************)
(* ey_type_set_struct_type and ey_type_set_union_type of engine/eng_type.c: *)
(* the members of a structure get their offsets one after the other, bit-  *)
(* fields packed into what the member before them left, the members of a   *)
(* union all start at 0.  One step is one turn of the function's loop.     *)
(*                                                                         *)
(* Of a member's type are kept its size and alignment and what the loop    *)
(* asks of it.                                                             *)
(***************************************************************************)
EXTENDS Integers, Sequences

CONSTANTS MemberTypes,     \* types a member can have
          BitSizes,        \* widths of bit-fields; 0 is no bit-field
          MaxMembers       \* bound of the model

CHAR_BIT == 8
MAX_ALIGNMENT == 8

\* What alloc_*_type, normalize and the definition of a tag put in a type: a
\* type without a size has no alignment or is an array of none.
TypeRecord ==
  [size : Nat, alignment : {0, 1, 2, 4, 8}, integer : BOOLEAN,
   kind : {"object", "array", "function", "void"},
   based : BOOLEAN]                       \* an array whose base type is declared
ASSUME MemberTypesAssumption ==
  /\ MemberTypes \subseteq TypeRecord
  /\ \A t \in MemberTypes : t.integer => t.size = t.alignment /\ t.size > 0
ASSUME BitSizesAssumption == BitSizes \subseteq Nat
ASSUME MaxMembersAssumption == MaxMembers \in Nat

VARIABLES
  su,            \* "struct" or "union"
  members,       \* the member list: types and bit sizes
  placed,        \* the members the loop is past, with what it gave them
  offset, bit_offset, size, alignment,
  status         \* "laying", "set", or "failed"

layoutVars == <<su, members, placed, offset, bit_offset, size, alignment, status>>

Member == [type : MemberTypes, bit_size : BitSizes]

\* align_offset: (unsigned long)0 - 1 is all ones, which leaves the same
\* remainder as -1 by an alignment, a power of two.
align_offset(n, a) == IF a = 0 THEN n ELSE n + (a - (((n - 1) % a) + 1))

Larger(m, n) == IF m > n THEN m ELSE n

\* A list as the grammar hands it over, one member at least.
MemberLists == UNION {[1..n -> Member] : n \in 1..MaxMembers}

LayoutInit ==
  /\ su \in {"struct", "union"}
  /\ members \in MemberLists
  /\ placed = <<>> /\ offset = 0 /\ bit_offset = 0 /\ size = 0 /\ alignment = 0
  /\ status = "laying"

This == members[Len(placed) + 1]
IsLast == Len(placed) + 1 = Len(members)
Laying == status = "laying" /\ Len(placed) < Len(members)

Declared(t) == t.size # 0 \/ t.kind \in {"void", "function"}

\* What the loop asks of a member before it places it.
BitFieldFits(m) == m.type.integer /\ m.bit_size <= m.type.size * CHAR_BIT
PlainFits(m) ==
  /\ ~Declared(m.type) => IsLast /\ m.type.kind = "array" /\ m.type.based
  /\ m.type.kind # "function"
Fits(m) == IF m.bit_size # 0 THEN BitFieldFits(m) ELSE PlainFits(m)

Refuse ==
  /\ Laying /\ ~Fits(This) /\ status' = "failed"
  /\ UNCHANGED <<su, members, placed, offset, bit_offset, size, alignment>>

Place(m, at, bit) ==
  placed' = Append(placed, [offset |-> at, bit_start |-> bit, bit_size |-> m.bit_size,
                            size |-> m.type.size, alignment |-> m.type.alignment])

\* The bytes a run of bit-fields has reached into.
Used(bits) == IF bits = 0 THEN 0 ELSE ((bits - 1) \div CHAR_BIT) + 1

\* The end of the storage unit, of the member's type, that the next free bit
\* is in; and whether the member fits in before it.
Boundary(m) == align_offset(offset + Used(bit_offset), m.type.alignment)
Room(m) == Boundary(m) * CHAR_BIT - (bit_offset + CHAR_BIT * offset)
Packs_Strict(m) == Room(m) > m.bit_size                         \* a faulty variant
Packs(m) == Room(m) >= m.bit_size

\* Where a bit-field goes: into the unit or to its end.
UnitOf(m) == IF Packs(m) THEN Boundary(m) - m.type.alignment ELSE Boundary(m)
BitIn(m) == IF Packs(m) THEN bit_offset + (offset - UnitOf(m)) * CHAR_BIT ELSE 0

StructBitField ==
  /\ Laying /\ su = "struct" /\ Fits(This) /\ This.bit_size # 0
  /\ offset' = UnitOf(This) /\ bit_offset' = BitIn(This) + This.bit_size
  /\ Place(This, UnitOf(This), BitIn(This))
  /\ size' = Larger(size, UnitOf(This) + This.type.size)
  /\ alignment' = Larger(alignment, This.type.alignment)
  /\ UNCHANGED <<su, members, status>>

AfterBits(m) == align_offset(offset + Used(bit_offset), m.type.alignment)

StructMember ==
  /\ Laying /\ su = "struct" /\ Fits(This) /\ This.bit_size = 0
  /\ Place(This, AfterBits(This), 0)
  /\ offset' = AfterBits(This) + This.type.size /\ bit_offset' = 0
  /\ size' = Larger(size, offset')
  /\ alignment' = Larger(alignment, This.type.alignment)
  /\ UNCHANGED <<su, members, status>>

UnionMember ==
  /\ Laying /\ su = "union" /\ Fits(This)
  /\ Place(This, 0, 0)
  /\ size' = Larger(size, This.type.size)
  /\ alignment' = Larger(alignment, This.type.alignment)
  /\ UNCHANGED <<su, members, offset, bit_offset, status>>

\* Past the loop.
WholeSize_Unrounded == size                                     \* a faulty variant
WholeSize == align_offset(size, alignment)
SetType ==
  /\ status = "laying" /\ placed # <<>> /\ Len(placed) = Len(members)
  /\ size' = WholeSize /\ status' = "set"
  /\ UNCHANGED <<su, members, placed, offset, bit_offset, alignment>>

LayoutNext == Refuse \/ StructBitField \/ StructMember \/ UnionMember \/ SetType
LayoutSpec == LayoutInit /\ [][LayoutNext]_layoutVars

-----------------------------------------------------------------------------
(* What a layout has to be. Positions are counted in bits from the start.  *)

FirstBit(p) == CHAR_BIT * p.offset + p.bit_start
EndBit(p) == FirstBit(p) + (IF p.bit_size = 0 THEN CHAR_BIT * p.size ELSE p.bit_size)

Aligned(n, a) == a # 0 => n % a = 0

MembersInOrder ==
  \A j \in DOMAIN placed : \A i \in 1..(j - 1) : EndBit(placed[i]) <= FirstBit(placed[j])

MembersAligned == \A i \in DOMAIN placed : Aligned(placed[i].offset, placed[i].alignment)

BitFieldsInUnit ==
  \A i \in DOMAIN placed : placed[i].bit_start + placed[i].bit_size <= CHAR_BIT * placed[i].size

SizeCovers ==
  \A i \in DOMAIN placed :
    /\ placed[i].offset + placed[i].size <= size
    /\ placed[i].alignment <= alignment
    /\ status = "set" => Aligned(size, placed[i].alignment)

\* Members of a structure are laid out in their order and never share a bit,
\* each is aligned and inside the whole, a bit-field is inside one unit of its
\* type, and so in every element of an array of the structure; those of a union
\* start at 0 (eng_type.c 960-1154, eng_rule.y 2342 and 2376).
LayoutSound ==
  /\ su = "struct" => MembersInOrder /\ BitFieldsInUnit
  /\ su = "union" => \A i \in DOMAIN placed : FirstBit(placed[i]) = 0
  /\ MembersAligned /\ SizeCovers

\* A bit-field after a bit-field of the same size is in the next bits of the
\* unit whenever they are enough for it (eng_type.c 1058-1079, eng_rule.y 2359).
PackedTight ==
  su = "struct" =>
    \A i \in DOMAIN placed : i + 1 \in DOMAIN placed =>
      LET p == placed[i]
          q == placed[i + 1]
      IN /\ p.bit_size # 0 /\ q.bit_size # 0 /\ p.size = q.size
         /\ p.bit_start + p.bit_size + q.bit_size <= CHAR_BIT * p.size
         => FirstBit(q) = EndBit(p)
=============================================================================
