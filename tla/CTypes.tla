------------------------------- MODULE CTypes -------------------------------
(***************************************************************************)
(* The types of engine/eng_type.[ch] and the functions on them that build  *)
(* no state of their own.                                                  *)
(*                                                                         *)
(* A type is the sequence of ey_type_t that its links lead through: the    *)
(* first is what it is itself, a pointer, an array or a function, and the  *)
(* rest is the type that one was derived from; NULL is no type at all.     *)
(* Each has for its `type' a word: signedness, length and base, each       *)
(* "none" when it was not spelled, so that TYPE_UNSIGNED_LONG_LONG_INT is  *)
(* one record and TYPE_PESUDO the record of three "none".  `class' selects *)
(* the union.  A tag is one object shared by all who name it: what can     *)
(* change of it is in `tags'.  Locations and the lists of members and      *)
(* enumerators of a tag's descriptor are left out; a descriptor is there   *)
(* when `complete'.                                                        *)
(***************************************************************************)
EXTENDS Integers, Sequences

CONSTANT MaxDepth    \* bound of the model: how deep the types are that are compared
ASSUME MaxDepthAssumption == MaxDepth \in Nat

VARIABLE tags        \* tag -> [complete, size, alignment, quals]

Word(s, l, b) == [sign |-> s, length |-> l, base |-> b]
Base(b) == Word("none", "none", b)
Pesudo == Base("none")

Lengths == {"none", "short", "long", "long_long"}
CharWords == {Word("signed", "none", "char"), Word("unsigned", "none", "char")}
IntegerWord(s, l) == Word(s, l, IF l = "none" THEN "int" ELSE "none")
SignedWords == {Word("signed", "none", "char")} \cup {IntegerWord("signed", l) : l \in Lengths}
UnsignedWords ==
  {Word("unsigned", "none", "char")} \cup {IntegerWord("unsigned", l) : l \in Lengths}
EnumConst == Base("enum_const")
SuWords == {Base("struct_tag"), Base("union_tag")}
TagWords == SuWords \cup {Base("enum_tag")}

is_signed_integer(w) == w \in SignedWords \cup {EnumConst}
is_unsigned_integer(w) == w \in UnsignedWords
is_integer(w) == is_signed_integer(w) \/ is_unsigned_integer(w)
is_real(w) == w \in {Base("float"), Base("double")}
is_arithmetic(w) == is_integer(w) \/ is_real(w)
is_pointer(w) == w = Base("pointer")
is_pointer_array(w) == w \in {Base("pointer"), Base("array")}
is_scalar(w) == is_arithmetic(w) \/ is_pointer(w)
is_su(w) == w \in SuWords
is_tag(w) == w \in TagWords
is_void(w) == w = Base("void")

\* What a type that is derived from another can be.
Links == {Base(b) : b \in {"pointer", "array", "function"}}

\* complete_type's sizeof: what a word of the basic types occupies.
SizeOf(w) ==
  CASE w.base \in {"void", "struct_tag", "union_tag", "enum_tag", "function", "array"} -> 0
    [] w.base = "char" -> 1
    [] w.base \in {"float", "enum_const"} -> 4
    [] w.base \in {"double", "pointer"} -> 8
    [] OTHER -> CASE w.length = "short" -> 2
                  [] w.length \in {"long", "long_long"} -> 8
                  [] w = Pesudo -> 0
                  [] OTHER -> 4

Min8(n) == IF n < 8 THEN n ELSE 8                       \* alignment_of

-----------------------------------------------------------------------------
(* Making types (ey_alloc_*_type).                                         *)

NoType == <<>>
IsType(t) == t # NoType

NodesOf(t) == {t[i] : i \in DOMAIN t}
IsChain(t) == t \in Seq(NodesOf(t))

class(t) == Head(t).class
word(t) == Head(t).type
to(t) == Tail(t)           \* deref_type, base_type, return_type

alloc_simple_type(w, quals) == <<[class |-> "simple", type |-> w, quals |-> quals]>>
alloc_pointer_type(quals, of) ==
  <<[class |-> "pointer", type |-> Base("pointer"), quals |-> quals]>> \o of
alloc_array_type(size, alignment, base, count, undefined) ==
  <<[class |-> "array", type |-> Base("array"), quals |-> {}, size |-> size,
     alignment |-> alignment, count |-> count, undefined |-> undefined]>> \o base
alloc_function_type(ret, args, ellipsis) ==
  <<[class |-> "function", type |-> Base("function"), quals |-> {},
     args |-> args, ellipsis |-> ellipsis]>> \o ret
alloc_tag_type(w, tag) == <<[class |-> "tag", type |-> w, tag |-> tag]>>

\* qualifier_class, size and alignment of one ey_type_t.
QualsOf(n) == IF n.class = "tag" THEN tags[n.tag].quals ELSE n.quals
SizeHeld(n) ==
  CASE n.class = "tag" -> tags[n.tag].size
    [] "size" \in DOMAIN n -> n.size
    [] OTHER -> SizeOf(n.type)
AlignmentHeld(n) ==
  CASE n.class = "tag" -> tags[n.tag].alignment
    [] "alignment" \in DOMAIN n -> n.alignment
    [] OTHER -> Min8(SizeOf(n.type))
Quals(t) == QualsOf(Head(t))
Size(t) == SizeHeld(Head(t))

\* The types every engine has from the start.
int_type == alloc_simple_type(Word("signed", "none", "int"), {})
void_type == alloc_simple_type(Base("void"), {})
enum_const_type == alloc_simple_type(EnumConst, {"const"})

type_declared(t) == IsType(t) /\ (Size(t) # 0 \/ word(t) \in {Base("void"), Base("function")})

\* Neither a constant of an enumeration nor qualified const.
is_lhs(t) == word(t) # EnumConst /\ "const" \notin Quals(t)

-----------------------------------------------------------------------------
(* Specifiers (ey_type_combine): the word d to the left of what was made   *)
(* of those to its right, s.                                               *)

CombineShort(s) ==
  IF s.length = "none" /\ s.base \in {"none", "int"} THEN {Word(s.sign, "short", s.base)} ELSE {}

\* The case of char has no break: a sign falls through to that of short.
CombineChar(s) ==
  IF s.length # "none" \/ s.base # "none" THEN {}
  ELSE IF s.sign = "none" THEN {Base("char")} ELSE CombineShort(s)

CombineInt(s) == IF s.base = "none" THEN {Word(s.sign, s.length, "int")} ELSE {}

CombineLong_Once(s) ==                                            \* a faulty variant
  IF s.base \in {"none", "int"} /\ s.length \in {"none", "long"}
  THEN {Word(s.sign, "long", s.base)} ELSE {}
CombineLong(s) ==
  IF s.base \in {"none", "int"} /\ s.length \in {"none", "long"}
  THEN {Word(s.sign, IF s.length = "none" THEN "long" ELSE "long_long", s.base)} ELSE {}

CombineSign(d, s) ==
  IF /\ s.sign = "none"
     /\ s.base \in {"none", "int"} \/ (s.base = "char" /\ s.length = "none")
  THEN {Word(d.sign, s.length, s.base)} ELSE {}

CombineOther(d, s) == IF s = Pesudo THEN {d} ELSE {}

\* The word of the two, or none when they cannot stand together.
CombineWord(d, s) ==
  CASE d = Base("char") -> CombineChar(s)
    [] d = Word("none", "short", "none") -> CombineShort(s)
    [] d = Base("int") -> CombineInt(s)
    [] d = Word("none", "long", "none") -> CombineLong(s)
    [] d \in {Word("signed", "none", "none"), Word("unsigned", "none", "none")} -> CombineSign(d, s)
    [] d.base \in {"void", "float", "double", "struct_tag", "union_tag", "enum_tag"}
         -> CombineOther(d, s)
    [] OTHER -> {}

\* What a finished list of specifiers stands for (ey_type_normalize).
NormalWord(w) ==
  IF w.base \in {"void", "float", "double", "struct_tag", "union_tag", "enum_tag"} THEN w
  ELSE LET sign == IF w.sign = "none" THEN "signed" ELSE w.sign
       IN IF w.base = "char" THEN Word(sign, "none", "char") ELSE IntegerWord(sign, w.length)

-----------------------------------------------------------------------------
(* Declarators: a chain of pointers, arrays and functions, the innermost   *)
(* still without its type (ey_type_merge).                                 *)

\* d derived from s: each array of d is sized, from the innermost out, by what
\* it is now an array of.
merge(d, s) ==
  IF ~IsType(s) THEN d
  ELSE IF ~IsType(d) THEN s
  ELSE IF \E i \in DOMAIN d : d[i].class \notin {"array", "pointer", "function"} THEN NoType
  ELSE LET whole == d \o s
           filled(i) == i \in DOMAIN d /\ d[i].class = "array"
           bytes[i \in DOMAIN whole] ==
             IF filled(i) THEN whole[i].count * bytes[i + 1] ELSE SizeHeld(whole[i])
           aligned[i \in DOMAIN whole] ==
             IF filled(i) THEN aligned[i + 1] ELSE AlignmentHeld(whole[i])
       IN [i \in DOMAIN whole |->
             IF filled(i) THEN [whole[i] EXCEPT !.size = bytes[i], !.alignment = aligned[i]]
             ELSE whole[i]]

-----------------------------------------------------------------------------
(* Comparing types. Two types are equal when they agree, and so do the     *)
(* parts of them that ey_type_equal is called for in turn.                 *)

Call(d, s, quals, count) == [dst |-> d, src |-> s, quals |-> quals, count |-> count]

\* Two descriptors are one when both are missing.
tag_equal(d, s, quals) ==
  /\ is_su(word(d)) /\ word(s) = word(d)
  /\ quals => Quals(d) = Quals(s)
  /\ LET a == Head(d).tag
         b == Head(s).tag
     IN a = b \/ (~tags[a].complete /\ ~tags[b].complete)

\* What each kind of derived type asks of its parts.
function_equal(d, s, quals) ==
  {Call(to(d), to(s), quals, TRUE)}
  \cup {Call(Head(d).args[i], Head(s).args[i], quals, FALSE) : i \in DOMAIN Head(d).args}
array_equal(d, s, quals, count) == {Call(to(d), to(s), quals, count)}
pointer_equal_Shallow(d, s, quals) == {}                         \* a faulty variant
pointer_equal(d, s, quals) == {Call(to(d), to(s), quals, TRUE)}

SameParameters(d, s) ==
  Head(d).ellipsis = Head(s).ellipsis /\ Len(Head(d).args) = Len(Head(s).args)

Agree(c) ==
  /\ word(c.dst) = word(c.src)
  /\ c.quals => Quals(c.dst) = Quals(c.src)
  /\ CASE class(c.dst) = "array" -> c.count => Head(c.dst).count = Head(c.src).count
       [] class(c.dst) = "function" -> SameParameters(c.dst, c.src)
       [] class(c.dst) = "tag" -> tag_equal(c.dst, c.src, c.quals)
       [] OTHER -> TRUE
Asked(c) ==
  CASE class(c.dst) = "array" -> array_equal(c.dst, c.src, c.quals, c.count)
    [] class(c.dst) = "pointer" -> pointer_equal(c.dst, c.src, c.quals)
    [] class(c.dst) = "function" -> function_equal(c.dst, c.src, TRUE)
    [] OTHER -> {}

\* The calls that the first one makes, by how deep they are.
CallsOf(first) ==
  LET calls[n \in 1..MaxDepth] ==
        UNION {Asked(c) : c \in IF n = 1 THEN {first} ELSE {x \in calls[n - 1] : Agree(x)}}
  IN calls

equal(d, s, quals, count) ==
  LET first == Call(d, s, quals, count)
      calls == CallsOf(first)
  IN Agree(first) /\ \A n \in 1..MaxDepth : \A c \in calls[n] : Agree(c)

PointsToVoid(t) == is_pointer(word(t)) /\ is_void(word(to(t)))

pointer_compatible(d, s, quals) ==
  /\ is_pointer_array(word(d)) /\ is_pointer_array(word(s))
  /\ \/ PointsToVoid(d) \/ PointsToVoid(s)
     \/ /\ quals => Quals(to(s)) \subseteq Quals(to(d))
        /\ equal(to(d), to(s), FALSE, TRUE)

assignment_compatible(d, s) ==
  \/ is_arithmetic(word(d)) /\ is_arithmetic(word(s))
  \/ is_su(word(d)) /\ is_tag(word(s)) /\ tag_equal(d, s, FALSE)
  \/ is_pointer(word(d)) /\ is_pointer_array(word(s)) /\ pointer_compatible(d, s, FALSE)
  \/ /\ is_pointer(word(d)) /\ word(s) = Base("function")
     /\ \/ word(to(d)) = Base("function") /\ SameParameters(to(d), s)
           /\ \A c \in function_equal(to(d), s, TRUE) : equal(c.dst, c.src, c.quals, c.count)
        \/ is_void(word(to(d)))

-----------------------------------------------------------------------------
(* Types of results.                                                       *)

\* A type of its own with the same parts; the copy's class is left SIMPLE.
CanCopy(t) == class(t) \in {"simple", "pointer", "tag", "array"}
CopyOf(n) ==
  CASE n.class = "array" -> [n EXCEPT !.class = "simple", !.count = 0, !.undefined = FALSE]
    [] n.class = "tag" -> [class |-> "simple", type |-> n.type, tag |-> n.tag,
                           quals |-> QualsOf(n), size |-> SizeHeld(n),
                           alignment |-> AlignmentHeld(n)]
    [] OTHER -> [n EXCEPT !.class = "simple"]
copy(t) == <<CopyOf(Head(t))>> \o to(t)

\* The first of the ranks that either operand has.
Ranks == << Base("double"), Base("float"),
            IntegerWord("unsigned", "long_long"), IntegerWord("signed", "long_long"),
            IntegerWord("unsigned", "long"), IntegerWord("signed", "long"),
            IntegerWord("unsigned", "none") >>
PromotedWord(d, s) ==
  LET have == {i \in DOMAIN Ranks : Ranks[i] \in {d, s}}
  IN IF have = {} THEN Word("signed", "none", "int")
     ELSE LET r == Ranks[CHOOSE i \in have : \A j \in have : i <= j]
          IN IF r = IntegerWord("signed", "long_long") THEN Word("none", "long_long", "none") ELSE r
promotion(d, s) == alloc_simple_type(PromotedWord(word(d), word(s)), {})
=============================================================================
