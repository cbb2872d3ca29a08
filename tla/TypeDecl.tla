------------------------------ MODULE TypeDecl ------------------------------
(***************************************************************************)
(* Types as engine/eng_rule.y makes them of a file: the definition of a    *)
(* structure or union tag, whose members StructLayout lays out, and the    *)
(* declarations of named parameters, which may use the tag before and      *)
(* after it is defined.                                                    *)
(*                                                                         *)
(* Specifiers are right-recursive, so they are combined from the last one  *)
(* to the first; a declarator is built from its identifier outwards.       *)
(***************************************************************************)
EXTENDS CTypes, StructLayout, FiniteSets

CONSTANTS Tags,          \* structure tags of the file; one of them is defined
          Qualifiers,
          DefinedTag,
          JunkQuals,     \* what `$$' of type_qualifier can hold before it is set
          StarLists,     \* lists of stars, each with the qualifiers after it
          ArgLists,      \* parameters of a function: their types
          MaxParts       \* bound of the model: specifiers and derivations of one
                         \* declaration

ASSUME DefinedTagAssumption == DefinedTag \in Tags
ASSUME StarListsAssumption == StarLists \subseteq Seq(SUBSET Qualifiers)

VARIABLES
  phase,         \* of the parser
  spec,          \* declaration_specifiers: what is to the right of the next one
  words, quals,  \* the specifiers and qualifiers as they were written
  decl,          \* the declarator's type, its end still open
  derived,       \* the derivations as they were written, from the identifier
  declared       \* the type of the last parameter

declVars == <<spec, words, quals, decl, derived, declared>>
vars == <<tags, phase, declVars, layoutVars>>

Spellings == {Base(b) : b \in {"void", "char", "int", "double"}}
             \cup {Word(s, "none", "none") : s \in {"signed", "unsigned"}}
             \cup {Word("none", l, "none") : l \in {"short", "long"}}
StructTag == Base("struct_tag")

Incomplete == [complete |-> FALSE, size |-> 0, alignment |-> 0, quals |-> {}]

\* No member list is being laid out.
NoLayout ==
  /\ su = "struct" /\ members = <<>> /\ placed = <<>>
  /\ offset = 0 /\ bit_offset = 0 /\ size = 0 /\ alignment = 0 /\ status = "set"

Init ==
  /\ tags = [t \in Tags |-> Incomplete]
  /\ phase = "file" /\ spec = NoType /\ words = <<>> /\ quals = {}
  /\ decl = NoType /\ derived = <<>> /\ declared = NoType
  /\ NoLayout

-----------------------------------------------------------------------------
(* struct tag { ... }                                                      *)

OpenTag ==
  /\ phase = "file" /\ ~tags[DefinedTag].complete
  /\ phase' = "tag" /\ status' = "laying"
  /\ su' \in {"struct", "union"} /\ members' \in MemberLists
  /\ UNCHANGED <<tags, declVars, placed, offset, bit_offset, size, alignment>>

LayOut ==
  /\ phase = "tag" /\ LayoutNext
  /\ UNCHANGED <<tags, phase, declVars>>

\* What is laid out is a type only if it has a size.
CloseTag ==
  /\ phase = "tag" /\ status = "set" /\ size # 0
  /\ tags' = [tags EXCEPT ![DefinedTag] =
                [complete |-> TRUE, size |-> size, alignment |-> alignment, quals |-> @.quals]]
  /\ phase' = "file"
  /\ su' = "struct" /\ members' = <<>> /\ placed' = <<>>
  /\ offset' = 0 /\ bit_offset' = 0 /\ size' = 0 /\ alignment' = 0
  /\ UNCHANGED <<declVars, status>>

AbortTag ==
  /\ phase = "tag" /\ (status = "failed" \/ (status = "set" /\ size = 0))
  /\ phase' = "aborted" /\ UNCHANGED <<tags, declVars, layoutVars>>

-----------------------------------------------------------------------------
(* declaration_specifiers                                                  *)

Begin ==
  /\ phase = "file" /\ phase' = "specifiers"
  /\ UNCHANGED <<tags, declVars, layoutVars>>

\* The next declaration starts anew; only the tags stay.
EndDeclaration ==
  /\ phase = "declared" /\ phase' = "file"
  /\ spec' = NoType /\ words' = <<>> /\ quals' = {}
  /\ decl' = NoType /\ derived' = <<>> /\ declared' = NoType
  /\ UNCHANGED <<tags, layoutVars>>

Reading == phase = "specifiers" /\ Len(words) < MaxParts

\* type_specifier declaration_specifiers
ReadWord(w) ==
  /\ Reading /\ words' = <<w>> \o words
  /\ LET left == IF IsType(spec) THEN CombineWord(w, word(spec)) ELSE {w}
     IN IF left = {} THEN phase' = "bad specifiers" /\ spec' = spec
        ELSE /\ phase' = phase
             /\ \E d \in left :
                  spec' = alloc_simple_type(d, IF IsType(spec) THEN Quals(spec) ELSE {})
  /\ UNCHANGED <<tags, quals, decl, derived, declared, layoutVars>>

\* The tag's own type is what is combined: it takes the qualifiers.
ReadTag(t) ==
  /\ Reading /\ words' = <<StructTag>> \o words
  /\ IF IsType(spec) /\ CombineWord(StructTag, word(spec)) = {}
     THEN phase' = "bad specifiers" /\ UNCHANGED <<spec, tags>>
     ELSE /\ spec' = alloc_tag_type(StructTag, t) /\ phase' = phase
          /\ tags' = [tags EXCEPT ![t].quals =
                        @ \cup (IF IsType(spec) THEN Quals(spec) ELSE {})]
  /\ UNCHANGED <<quals, decl, derived, declared, layoutVars>>

\* `const' and `restrict' are or'ed to a value nothing has set.
QualifierBits(q) == IF q = "volatile" THEN {{q}} ELSE {{q} \cup j : j \in JunkQuals}

ReadQualifier(q) ==
  /\ phase = "specifiers" /\ q \notin quals /\ quals' = quals \cup {q}
  /\ \E bits \in QualifierBits(q) :
       IF ~IsType(spec) THEN spec' = alloc_simple_type(Pesudo, bits) /\ tags' = tags
       ELSE IF class(spec) = "tag"
       THEN tags' = [tags EXCEPT ![Head(spec).tag].quals = @ \cup bits] /\ spec' = spec
       ELSE spec' = alloc_simple_type(word(spec), Quals(spec) \cup bits) /\ tags' = tags
  /\ UNCHANGED <<phase, words, decl, derived, declared, layoutVars>>

EndSpecifiers ==
  /\ phase = "specifiers" /\ IsType(spec) /\ phase' = "declarator"
  /\ UNCHANGED <<tags, declVars, layoutVars>>

-----------------------------------------------------------------------------
(* declarator                                                              *)

Deriving == phase = "declarator" /\ Len(words) + Len(derived) < MaxParts

\* The type of a list of stars is that of its first, leftmost one.
pointer(stars) == [i \in DOMAIN stars |-> Head(alloc_pointer_type(stars[i], NoType))]

Pointers(stars) ==
  /\ Deriving /\ decl' = merge(decl, pointer(stars))
  /\ derived' = derived \o [i \in DOMAIN stars |-> <<"pointer">>]
  /\ UNCHANGED <<tags, phase, spec, words, quals, declared, layoutVars>>

\* A length is a constant expression, whose value is always 0.
Brackets(counted) ==
  /\ Deriving /\ derived' = Append(derived, <<"array">>)
  /\ IF ~counted /\ ~IsType(decl) THEN phase' = "crashed" /\ decl' = decl
     ELSE IF ~counted /\ word(decl) = Base("array") /\ Head(decl).undefined
     THEN phase' = "bad declarator" /\ decl' = decl
     ELSE phase' = phase /\ decl' = merge(decl, alloc_array_type(0, 0, NoType, 0, ~counted))
  /\ UNCHANGED <<tags, spec, words, quals, declared, layoutVars>>

Parameters(args) ==
  /\ Deriving /\ decl' = merge(decl, alloc_function_type(NoType, args, FALSE))
  /\ derived' = Append(derived, <<"function", args>>)
  /\ UNCHANGED <<tags, phase, spec, words, quals, declared, layoutVars>>

-----------------------------------------------------------------------------
(* parameter_declaration                                                   *)

normalize(t) == IF class(t) = "tag" THEN t ELSE alloc_simple_type(NormalWord(word(t)), Quals(t))

Declare ==
  /\ phase = "declarator"
  /\ LET t == merge(decl, normalize(spec))
         open == word(t) = Base("array") /\ Head(t).undefined
     IN IF type_declared(t) \/ open
        THEN phase' = "declared" /\ declared' = t
        ELSE phase' = "incomplete" /\ declared' = NoType
  /\ UNCHANGED <<tags, spec, words, quals, decl, derived, layoutVars>>

ReadSpecifier ==
  \/ \E w \in Spellings : ReadWord(w)
  \/ \E t \in Tags : ReadTag(t)
  \/ \E q \in Qualifiers : ReadQualifier(q)
Derive ==
  \/ \E stars \in StarLists : Pointers(stars)
  \/ \E counted \in BOOLEAN : Brackets(counted)
  \/ \E args \in ArgLists : Parameters(args)

Next ==
  \/ OpenTag \/ LayOut \/ CloseTag \/ AbortTag
  \/ Begin \/ EndDeclaration \/ ReadSpecifier \/ EndSpecifiers \/ Derive \/ Declare
Spec == Init /\ [][Next]_vars

-----------------------------------------------------------------------------
(* What a declaration has to mean.                                         *)

\* Of a list of specifiers ws, as they were written.
Count(ws, w) == Cardinality({i \in DOMAIN ws : ws[i] = w})
OnlyOf(ws, S) == \A i \in DOMAIN ws : ws[i] \in S
Signed == Word("signed", "none", "none")
Unsigned == Word("unsigned", "none", "none")
Short == Word("none", "short", "none")
Long == Word("none", "long", "none")
WrittenSign(ws) == IF Count(ws, Unsigned) = 1 THEN "unsigned" ELSE "signed"
WrittenLength(ws) ==
  CASE Count(ws, Short) = 1 -> "short"
    [] Count(ws, Long) = 1 -> "long"
    [] Count(ws, Long) = 2 -> "long_long"
    [] OTHER -> "none"

\* The type that the specifiers name in C99, whatever their order; none that
\* is refused. No specifier at all is taken for int.
MeantWord(ws) ==
  IF Len(ws) = 1 /\ OnlyOf(ws, {Base("void"), Base("double"), StructTag}) THEN {ws[1]}
  ELSE IF Count(ws, Signed) + Count(ws, Unsigned) > 1 THEN {}
  ELSE IF OnlyOf(ws, {Base("char"), Signed, Unsigned}) /\ Count(ws, Base("char")) = 1
  THEN {Word(WrittenSign(ws), "none", "char")}
  ELSE IF /\ OnlyOf(ws, {Signed, Unsigned, Short, Long, Base("int")})
          /\ Count(ws, Base("int")) <= 1 /\ Count(ws, Short) <= 1 /\ Count(ws, Long) <= 2
          /\ Count(ws, Short) = 0 \/ Count(ws, Long) = 0
  THEN {IntegerWord(WrittenSign(ws), WrittenLength(ws))}
  ELSE {}

\* `char unsigned' and `char signed': see ey_type_combine.
CharBeforeSign(ws) ==
  \E i, j \in DOMAIN ws : i < j /\ ws[i] = Base("char") /\ ws[j] \in {Signed, Unsigned}

Innermost(t) == t[Len(t)]
Derivation(n) == IF n.class = "function" THEN <<n.class, n.args>> ELSE <<n.class>>
Derivations(t) == [i \in 1..(Len(t) - 1) |-> Derivation(t[i])]

\* A parameter has the type its declaration reads as: the specifiers in any
\* order, under the derivations from the identifier outwards, and no qualifier
\* is lost; a list of specifiers that names a type is never refused, except
\* `char' before a sign, which is read as short (eng_type.c 618-855, 553-616 and 504-551).
DeclaredAsWritten ==
  /\ phase = "declared" =>
       /\ Derivations(declared) = derived
       /\ quals \subseteq QualsOf(Innermost(declared))
       /\ CharBeforeSign(words) \/ {Innermost(declared).type} = MeantWord(words)
  /\ phase = "bad specifiers" => MeantWord(words) = {}

\* What is compared of a node. The size and the alignment of an array follow from
\* what it is an array of, and were set when that may not have been complete.
Bare(n) ==
  IF n.class = "array"
  THEN [class |-> n.class, type |-> n.type, quals |-> n.quals, count |-> n.count] ELSE n
Compared(n, withQuals) ==
  IF withQuals \/ n.class = "tag" THEN Bare(n) ELSE [Bare(n) EXCEPT !.quals = {}]

\* All that is after a function is compared with its qualifiers.
AfterFunction(t, i) == \E j \in 1..(i - 1) : t[j].class = "function"
BuiltAlike(d, s, withQuals) ==
  /\ Len(d) = Len(s)
  /\ \A i \in DOMAIN d : Compared(d[i], withQuals \/ AfterFunction(d, i))
                        = Compared(s[i], withQuals \/ AfterFunction(s, i))

\* The nodes of a type and of the parameters on the way.
ParametersOf(t) ==
  UNION {NodesOf(n.args) : n \in {m \in NodesOf(t) : m.class = "function"}}
NodesWithin(t) == NodesOf(t) \cup UNION {NodesOf(p) : p \in ParametersOf(t)}
TagsOf(t) == {n.tag : n \in {m \in NodesWithin(t) : m.class = "tag"}}

-----------------------------------------------------------------------------
(* The types that are compared: made as alloc_* makes them.                *)

\* Parameters are taken to be objects that are no arrays: a parameter's own
\* parameters would have to be followed in turn. Enumeration tags are left
\* out: the code takes no two of them for equal.
IsObjectNode(n) ==
  \/ /\ n.class = "simple" /\ n.type \notin Links \cup TagWords
     /\ n = [class |-> "simple", type |-> n.type, quals |-> n.quals]
  \/ /\ n.class = "pointer"
     /\ n = [class |-> "pointer", type |-> Base("pointer"), quals |-> n.quals]
  \/ /\ n.class = "tag" /\ n.type \in SuWords
     /\ n = [class |-> "tag", type |-> n.type, tag |-> n.tag]
EndsInLeaf(t) ==
  IsChain(t) /\ IsType(t) /\ \A i \in DOMAIN t : t[i].type \in Links <=> i < Len(t)
IsObject(t) == EndsInLeaf(t) /\ \A i \in DOMAIN t : IsObjectNode(t[i])
AreObjects(args) == IsChain(args) /\ \A i \in DOMAIN args : IsObject(args[i])

\* A length is a constant expression, whose value is always 0.
IsMadeNode(n) ==
  \/ IsObjectNode(n)
  \/ /\ n.class = "array"
     /\ n = [class |-> "array", type |-> Base("array"), quals |-> {}, size |-> n.size,
             alignment |-> n.alignment, count |-> 0, undefined |-> n.undefined]
  \/ /\ n.class = "function" /\ AreObjects(n.args)
     /\ n = [class |-> "function", type |-> Base("function"), quals |-> {},
             args |-> n.args, ellipsis |-> n.ellipsis]
IsMade(t) == EndsInLeaf(t) /\ \A i \in DOMAIN t : IsMadeNode(t[i])

\* How deep a type is with the parameters on the way.
Within(t, depth) ==
  /\ Len(t) <= depth
  /\ \A i \in DOMAIN t : t[i].class = "function" =>
       \A j \in DOMAIN t[i].args : i + Len(t[i].args[j]) <= depth

CONSTANT Known           \* types of other declarations
ASSUME KnownAssumption == \A t \in Known : IsMade(t) /\ Within(t, MaxDepth + 1)
ASSUME ArgListsAssumption == \A args \in ArgLists : AreObjects(args)

\* A redeclaration is compared with what it redeclares: two types are equal just
\* when they were built alike, with the qualifiers or, outside of functions,
\* without; complete tags only (eng_type.c 386-502).
EqualIsSame ==
  phase = "declared" =>
    \A t \in Known :
      (\A tag \in TagsOf(t) \cup TagsOf(declared) : tags[tag].complete) =>
        \A q \in BOOLEAN :
          /\ equal(declared, t, q, TRUE) <=> BuiltAlike(declared, t, q)
          /\ equal(t, declared, q, TRUE) <=> BuiltAlike(t, declared, q)
=============================================================================
