----------------------------- MODULE ExprBuild -----------------------------
(***************************************************************************)
(* engine/eng_expr.c: expressions are built bottom up while they are       *)
(* parsed. Every ey_alloc_*_expr first checks its operands, then gives the *)
(* expression a type, then, for the operators it could fold, a value. Each *)
(* of the three can refuse it, which ends the parse; so does a crash.      *)
(*                                                                         *)
(* `stack' is the parser's: the expressions that are not yet operands, and *)
(* none when the parse has ended. An expression keeps, besides opcode,     *)
(* expr_type and const_value, what it means in C99: its type, whether it   *)
(* is an lvalue, and whether it kept the operator's constraint; `mixed'    *)
(* when something in it took the type of one of two operands that differ.  *)
(***************************************************************************)
EXTENDS CTypes, FiniteSets

CONSTANTS Symbols,      \* what an identifier or a constant can stand for:
                        \* [type, const], const in {"no", "zero", "other"}
          CastTypes,
          MaxSteps, MaxOperands   \* bounds of the model

\* What a declaration makes: pointers, arrays and functions, and what they lead to.
Leaves == SignedWords \cup UnsignedWords \cup TagWords
          \cup {EnumConst, Base("float"), Base("double"), Base("void")}
IsNode(n) ==
  /\ {"class", "type"} \subseteq DOMAIN n
  /\ n.class = "tag" => n.type \in TagWords
  /\ n.class # "tag" => "quals" \in DOMAIN n
  /\ n.type \in TagWords => "tag" \in DOMAIN n /\ n.tag = "s"
  /\ n.class = "function" <=> n.type = Base("function")
  /\ n.class = "function" => {"args", "ellipsis"} \subseteq DOMAIN n
IsLinked(t) ==
  /\ IsChain(t) /\ IsType(t)
  /\ \A i \in DOMAIN t : IsNode(t[i]) /\ (t[i].type \in Links <=> i < Len(t))
IsDeclared(t) == IsLinked(t) /\ \A i \in DOMAIN t : t[i].type \in Links \cup Leaves

\* A parameter whose type is compared as a whole, with no function on the way.
IsPlain(t) ==
  \A i \in DOMAIN t :
    /\ t[i].type # Base("function")
    /\ \A link \in {"pointer", "array"} : t[i].class = link <=> t[i].type = Base(link)
IsParameter(t) == IsDeclared(t) /\ IsPlain(t) /\ Len(t) <= MaxDepth
KnownParameters(t) ==
  \A i \in DOMAIN t : t[i].type = Base("function") =>
    IsChain(t[i].args) /\ \A j \in DOMAIN t[i].args : IsParameter(t[i].args[j])

ASSUME SymbolsAssumption == \A s \in Symbols : IsDeclared(s.type)
ASSUME ParametersAssumption == \A s \in Symbols : KnownParameters(s.type)

VARIABLES stack, parser, steps
exprVars == <<tags, stack, parser, steps>>

Stepped == {"POST_INC", "POST_DEC", "PRE_INC", "PRE_DEC"}
MultOps == {"MOD", "DIV", "MULT"}
BitOps == {"BIT_AND", "BIT_XOR", "BIT_OR"}
ShiftOps == {"LSHIFT", "RSHIFT"}
Relations == {"GE", "GT", "LE", "LT"}
LogicOps == {"LOGIC_AND", "LOGIC_OR"}
MultAssigns == {"MOD_ASGN", "DIV_ASGN", "MULT_ASGN"}
BitAssigns == {"BIT_AND_ASGN", "BIT_XOR_ASGN", "BIT_OR_ASGN"}
ShiftAssigns == {"LSHIFT_ASGN", "RSHIFT_ASGN"}
AddAssigns == {"ADD_ASGN", "SUB_ASGN"}

UnaryOps == {"DEREF", "ADDRESS", "NEG", "POS", "BNEG", "LNEG"} \cup Stepped
ArithmeticOps ==
  MultOps \cup BitOps \cup ShiftOps \cup Relations \cup LogicOps \cup {"EQ", "NE", "ADD", "SUB"}
Assignments == {"ASGN"} \cup MultAssigns \cup AddAssigns \cup BitAssigns \cup ShiftAssigns
is_assignment(op) == op \in Assignments
is_div(op) == op \in {"MOD", "DIV", "MOD_ASGN", "DIV_ASGN"}
BinaryOps == {"ARRAY_INDEX"} \cup ArithmeticOps \cup Assignments

-----------------------------------------------------------------------------
(* ey_expr_operand_check: one operator for each case of it.                *)

DerefCheck(t) == is_pointer_array(word(t)) /\ type_declared(to(t))
\* Not modelled: a variable of register storage is refused too (eng_expr.c 68-72);
\* no declaration can make one yet.
AddressCheck(e) == (e.op = "SYMBOL" /\ e.const = "no") \/ e.op \in {"DEREF", "ARRAY_INDEX"}
SignCheck(op, t) ==
  CASE op \in {"NEG", "POS"} -> is_arithmetic(word(t))
    [] op = "BNEG" -> is_integer(word(t))
    [] op = "LNEG" -> is_scalar(word(t))
StepCheck(t) == is_scalar(word(t)) /\ is_lhs(t)
UnaryCheck(op, e) ==
  CASE op = "DEREF" -> DerefCheck(e.type)
    [] op = "ADDRESS" -> AddressCheck(e)
    [] op \in Stepped -> StepCheck(e.type)
    [] OTHER -> SignCheck(op, e.type)

IndexCheck(t1, t2) ==
  /\ is_integer(word(t2)) /\ is_pointer_array(word(t1))
  /\ type_declared(t1) /\ type_declared(to(t1))

MemberCheck(op, t) ==
  LET su == IF op = "MEMBER" THEN t ELSE IF is_pointer(word(t)) THEN to(t) ELSE t
  IN (op = "MEMBER" \/ is_pointer(word(t))) /\ is_su(word(su)) /\ type_declared(su)

CastCheck(t, new) == is_scalar(word(t)) /\ is_scalar(word(new))

BothArithmetic(t1, t2) == is_arithmetic(word(t1)) /\ is_arithmetic(word(t2))
BothInteger(t1, t2) == is_integer(word(t1)) /\ is_integer(word(t2))

MultCheck(op, t1, t2, const) ==
  /\ BothArithmetic(t1, t2)
  /\ op = "MOD" => BothInteger(t1, t2)
  /\ is_div(op) => const # "zero"

AddCheck(t1, t2) ==
  \/ is_integer(word(t1)) /\ (is_arithmetic(word(t2)) \/ is_pointer_array(word(t2)))
  \/ is_real(word(t1)) /\ is_arithmetic(word(t2))
  \/ is_pointer_array(word(t1)) /\ is_integer(word(t2))

\* The type of the right operand of an arithmetic one is not looked at.
SubCheck(t1, t2) ==
  \/ is_arithmetic(word(t1))
  \/ is_pointer_array(word(t1)) /\ (is_arithmetic(word(t2)) \/ pointer_compatible(t1, t2, FALSE))

AddAssignCheck(t1, t2) ==
  BothArithmetic(t1, t2) \/ (is_pointer(word(t1)) /\ is_integer(word(t2)))

ShiftCheck(t1, t2) == BothInteger(t1, t2)
BitCheck(t1, t2) == BothInteger(t1, t2)
RelationCheck(t1, t2) == BothArithmetic(t1, t2) \/ pointer_compatible(t1, t2, FALSE)
EqualityCheck(t1, t2) == BothArithmetic(t1, t2) \/ pointer_compatible(t1, t2, FALSE)
LogicCheck(t1, t2) == is_scalar(word(t1)) /\ is_scalar(word(t2))

AssignCheck(t1, t2) ==
  \/ BothArithmetic(t1, t2)
  \/ is_su(word(t1)) /\ tag_equal(t1, t2, FALSE)
  \/ is_pointer(word(t1)) /\ pointer_compatible(t1, t2, TRUE)

BinaryCheck(op, a, b) ==
  LET t1 == a.type
      t2 == b.type
  IN /\ is_assignment(op) => is_lhs(t1)
     /\ CASE op = "ARRAY_INDEX" -> IndexCheck(t1, t2)
          [] op \in MultOps \cup MultAssigns -> MultCheck(op, t1, t2, b.const)
          [] op = "ADD" -> AddCheck(t1, t2)
          [] op = "SUB" -> SubCheck(t1, t2)
          [] op \in AddAssigns -> AddAssignCheck(t1, t2)
          [] op \in ShiftOps \cup ShiftAssigns -> ShiftCheck(t1, t2)
          [] op \in BitOps \cup BitAssigns -> BitCheck(t1, t2)
          [] op \in Relations -> RelationCheck(t1, t2)
          [] op \in {"EQ", "NE"} -> EqualityCheck(t1, t2)
          [] op \in LogicOps -> LogicCheck(t1, t2)
          [] op = "ASGN" -> AssignCheck(t1, t2)

\* A first branch of another type than these is not compared with the second.
ConditionCheck(c, a, b) ==
  LET t1 == a.type
      t2 == b.type
  IN /\ is_scalar(word(c.type))
     /\ is_arithmetic(word(t1)) => is_arithmetic(word(t2))
     /\ is_su(word(t1)) => tag_equal(t1, t2, FALSE)
     /\ is_void(word(t1)) => is_void(word(t2))
     /\ is_pointer_array(word(t1)) => pointer_compatible(t1, t2, FALSE)

Callee(t) == IF is_pointer(word(t)) THEN to(t) ELSE t

CallCheck_Short(f, args) ==                                     \* a faulty variant
  /\ word(Callee(f.type)) = Base("function")
  /\ \A i \in DOMAIN args : i \in DOMAIN Head(Callee(f.type)).args =>
       assignment_compatible(Head(Callee(f.type)).args[i], args[i].type)
CallCheck(f, args) ==
  /\ word(Callee(f.type)) = Base("function")
  /\ LET formals == Head(Callee(f.type)).args
     IN IF formals = <<>> THEN args = <<>>
        ELSE /\ \A i \in DOMAIN args : i \in DOMAIN formals =>
                  assignment_compatible(formals[i], args[i].type)
             /\ Len(formals) <= Len(args)
             /\ Len(formals) < Len(args) => Head(Callee(f.type)).ellipsis

-----------------------------------------------------------------------------
(* ey_expr_calc_type: what it can come to.                                 *)

Typed(t) == [ends |-> "typed", type |-> t]
Refused == [ends |-> "refused"]
Crashed == [ends |-> "crashed"]

Const(t) == IF class(t) = "tag" THEN t ELSE [t EXCEPT ![1].quals = @ \cup {"const"}]
Copied(t) == IF CanCopy(t) THEN Typed(copy(t)) ELSE Refused
\* copy makes the tag's qualifiers the copy's own.
CopiedConst(t) == IF CanCopy(t) THEN Typed(Const(copy(t))) ELSE Refused

PromotedConst(t1, t2) ==
  IF BothArithmetic(t1, t2) THEN Typed(Const(promotion(t1, t2))) ELSE Refused

array2pointer(t) == alloc_pointer_type({}, copy(to(t)))
AsPointer(t) == IF is_pointer(word(t)) THEN t ELSE array2pointer(t)

DerefType(t) == Copied(to(t))
AddressType(t) == Typed(alloc_pointer_type({"const"}, t))
\* -, +, ~ and ! take a copied type for a failure.
SignType(t) == IF CanCopy(t) THEN Refused ELSE Crashed
StepType(t) == CopiedConst(t)
UnaryType(op, t) ==
  CASE op = "DEREF" -> DerefType(t)
    [] op = "ADDRESS" -> AddressType(t)
    [] op \in Stepped -> StepType(t)
    [] OTHER -> SignType(t)

IndexType(t) == Copied(to(t))
MultType(t1, t2) == PromotedConst(t1, t2)
ShiftType(t1, t2) == PromotedConst(t1, t2)
AddType(t1, t2) ==
  IF BothArithmetic(t1, t2) THEN PromotedConst(t1, t2)
  ELSE CopiedConst(AsPointer(IF is_pointer_array(word(t1)) THEN t1 ELSE t2))

ulong_type == alloc_simple_type(IntegerWord("unsigned", "long"), {})
SubType(t1, t2) ==
  CASE is_arithmetic(word(t1)) -> PromotedConst(t1, t2)
    [] ~is_arithmetic(word(t1)) /\ is_pointer_array(word(t2)) -> CopiedConst(ulong_type)
    [] OTHER -> CopiedConst(AsPointer(t1))

CompareType == Copied(int_type)
BitType(t1, t2) == PromotedConst(t1, t2)
LogicType == CopiedConst(int_type)

\* An assignment reads the members of a conditional expression: its right
\* operand is taken for the left one and a null pointer for the right one.
\* Unoptimized, that pointer is followed.
AssignTypes(t2) == {Crashed, CopiedConst(t2)}

BinaryTypes(op, t1, t2) ==
  CASE op = "ARRAY_INDEX" -> {IndexType(t1)}
    [] op \in MultOps -> {MultType(t1, t2)}
    [] op \in BitOps -> {BitType(t1, t2)}
    [] op \in ShiftOps -> {ShiftType(t1, t2)}
    [] op = "ADD" -> {AddType(t1, t2)}
    [] op = "SUB" -> {SubType(t1, t2)}
    [] op \in Relations \cup {"EQ", "NE"} -> {CompareType}
    [] op \in LogicOps -> {LogicType}
    [] op \in Assignments -> AssignTypes(t2)

ConditionType_Left(t1, t2) == CopiedConst(t1)                    \* a faulty variant
ConditionType(t1, t2) ==
  IF is_arithmetic(word(t1)) THEN PromotedConst(t1, t2)
  ELSE IF is_void(word(t1)) THEN CopiedConst(void_type)
  ELSE CopiedConst(t1)

\* ey_expr_need_calc_value: whether the operands are constant makes no
\* difference; and ey_expr_calc_value never succeeds.
need_calc_value(op) == op \in ArithmeticOps \cup {"NEG", "POS", "BNEG", "LNEG", "CAST", "COMPOUND"}
Valued(op, outcome) ==
  IF outcome.ends = "typed" /\ need_calc_value(op) THEN Refused ELSE outcome

-----------------------------------------------------------------------------
(* What an expression means.                                               *)

\* An array, used as an operand, is a pointer to its elements.
Decayed(t) == IF word(t) = Base("array") THEN alloc_pointer_type({}, to(t)) ELSE t
\* The value of an object, and an object as qualified as both.
Unqualified(t) == IF class(t) = "tag" THEN t ELSE [t EXCEPT ![1].quals = {}]
WithQuals(t, q) == IF class(t) = "tag" THEN t ELSE [t EXCEPT ![1].quals = @ \cup q]

\* The usual arithmetic conversions, by what the types can hold: integers have
\* 31, 32, 63 or 64 bits for their value.
Rank(w) ==
  CASE w.length = "long_long" -> 5 [] w.length = "long" -> 4 [] w.length = "short" -> 2
    [] w.base = "char" -> 1 [] OTHER -> 3
AtLeastInt(w) == IF w = EnumConst \/ Rank(w) < 3 THEN Word("signed", "none", "int") ELSE w
Bytes(w) == SizeOf(w)
Usual(v, w) ==
  IF Base("double") \in {v, w} THEN Base("double")
  ELSE IF Base("float") \in {v, w} THEN Base("float")
  ELSE LET x == AtLeastInt(v)
           y == AtLeastInt(w)
           high == IF Rank(x) >= Rank(y) THEN x ELSE y
           low == IF Rank(x) >= Rank(y) THEN y ELSE x
       IN IF x.sign = y.sign THEN high
          ELSE IF high.sign = "unsigned" THEN high
          ELSE IF Rank(high) = Rank(low) THEN low
          ELSE IF Bytes(high) > Bytes(low) THEN high
          ELSE IntegerWord("unsigned", high.length)

\* The one pair for which ey_type_promotion's order of types is another.
LongLongAndUnsignedLong(v, w) ==
  {v, w} = {IntegerWord("signed", "long_long"), IntegerWord("unsigned", "long")}

\* A type but for its qualifiers, sizes and spelling.
ShapeOf(n) ==
  CASE n.type \in {Base("pointer"), Base("array")} -> <<n.type>>
    [] n.type = Base("function") -> <<n.type, n.args, n.ellipsis>>
    [] n.type \in TagWords -> <<n.type, n.tag>>
    [] OTHER -> <<NormalWord(n.type)>>
Shape(t) == [i \in DOMAIN t |-> ShapeOf(t[i])]

\* What the two branches of a conditional stand for together.
MeantPair(t1, t2) ==
  LET p == Decayed(t1)
      q == Decayed(t2)
  IN IF BothArithmetic(t1, t2) THEN alloc_simple_type(Usual(word(t1), word(t2)), {})
     ELSE IF is_pointer(word(p)) /\ Shape(p) = Shape(q)
     THEN alloc_pointer_type({}, WithQuals(to(p), Quals(to(q))))
     ELSE Unqualified(t1)

\* Pointers to different types, as the code may take for one another, or that pair.
DiffersInKind(t1, t2) ==
  \/ is_pointer(word(Decayed(t1))) /\ to(Decayed(t1)) # to(Decayed(t2))
  \/ LongLongAndUnsignedLong(word(t1), word(t2))

\* ey_type_promotion makes of long long a type that the checks take for none of
\* the integers: as a branch of another conditional it is not converted.
LostLongLong(t) == word(t) = Word("none", "long_long", "none")

Expression(op, type, meant, lvalue, kept, mixed) ==
  [op |-> op, type |-> type, const |-> "no", meant |-> meant, lvalue |-> lvalue,
   kept |-> kept, mixed |-> mixed]

Modifiable(e) == e.lvalue /\ "const" \notin Quals(e.meant)

ConvertsTo(formal, t) ==
  LET p == Decayed(t)
  IN \/ BothArithmetic(formal, p)
     \/ is_su(word(formal)) /\ Shape(formal) = Shape(p)
     \/ /\ is_pointer(word(formal)) /\ is_pointer(word(p))
        /\ Shape(to(formal)) = Shape(to(p)) \/ is_void(word(to(formal))) \/ is_void(word(to(p)))

-----------------------------------------------------------------------------
(* The parser's steps.                                                     *)

ExprInit ==
  /\ tags \in {[t \in {"s"} |-> [complete |-> c, size |-> IF c THEN 16 ELSE 0,
                                 alignment |-> IF c THEN 8 ELSE 0, quals |-> {}]] : c \in BOOLEAN}
  /\ stack = <<>> /\ parser = "parsing" /\ steps = 0

Parsing(n) == parser = "parsing" /\ steps < MaxSteps /\ Len(stack) >= n
Top(i) == stack[Len(stack) + 1 - i]

\* What becomes of the last n expressions when the operator made of them passes
\* the check, and ends in outcome.
Reduce(n, op, passes, outcomes, meant, lvalue, kept, mixed) ==
  /\ steps' = steps + 1 /\ tags' = tags
  /\ IF ~passes THEN parser' = "refused" /\ stack' = <<>>
     ELSE \E outcome \in outcomes :
            LET end == Valued(op, outcome)
            IN IF end.ends # "typed" THEN parser' = end.ends /\ stack' = <<>>
               ELSE /\ parser' = parser
                    /\ stack' = Append(SubSeq(stack, 1, Len(stack) - n),
                                       Expression(op, end.type, meant, lvalue, kept, mixed))

\* ey_alloc_symbol_expr: no symbol has the flag that would leave out const.
PushSymbol(s) ==
  /\ Parsing(0) /\ Len(stack) < MaxOperands
  /\ steps' = steps + 1 /\ tags' = tags
  /\ LET copied == CopiedConst(s.type)
     IN IF copied.ends # "typed" THEN parser' = "refused" /\ stack' = <<>>
        ELSE /\ parser' = parser
             /\ stack' = Append(stack,
                  [Expression("SYMBOL", copied.type, s.type, s.const = "no", TRUE, FALSE)
                     EXCEPT !.const = s.const])

Unary(op) ==
  /\ Parsing(1)
  /\ LET e == Top(1)
         points == op = "DEREF" /\ is_pointer_array(word(e.meant))
     IN Reduce(1, op, UnaryCheck(op, e), {UnaryType(op, e.type)},
               CASE points -> to(e.meant)
                 [] op = "ADDRESS" -> alloc_pointer_type({}, e.meant)
                 [] OTHER -> e.meant,
               op = "DEREF",
               CASE op = "ADDRESS" -> e.lvalue [] op \in Stepped -> Modifiable(e) [] OTHER -> TRUE,
               e.mixed)

Binary(op) ==
  /\ Parsing(2)
  /\ LET a == Top(2)
         b == Top(1)
         index == op = "ARRAY_INDEX" /\ is_pointer_array(word(a.meant))
     IN Reduce(2, op, BinaryCheck(op, a, b), BinaryTypes(op, a.type, b.type),
               CASE index -> to(a.meant)
                 [] is_assignment(op) -> Unqualified(a.meant)
                 [] OTHER -> a.meant,
               index,
               is_assignment(op) => Modifiable(a),
               \/ a.mixed \/ b.mixed
               \/ is_assignment(op)
                  /\ (Shape(a.meant) # Shape(b.meant) \/ DiffersInKind(a.meant, b.meant)))

Condition ==
  /\ Parsing(3)
  /\ LET a == Top(2)
         b == Top(1)
     IN Reduce(3, "CONDITION", ConditionCheck(Top(3), a, b), {ConditionType(a.type, b.type)},
               MeantPair(a.meant, b.meant), FALSE, TRUE,
               \/ a.mixed \/ b.mixed \/ DiffersInKind(a.meant, b.meant)
               \/ LostLongLong(a.type) /\ Shape(a.meant) # Shape(b.meant))

Funcall(n) ==
  /\ Parsing(n + 1)
  /\ LET f == Top(n + 1)
         args == [i \in 1..n |-> Top(n + 1 - i)]
         callee == Callee(f.type)
         passes == CallCheck(f, args)
         meant == Head(Callee(f.meant))
     IN Reduce(n + 1, "FUNCALL", passes, IF passes THEN {CopiedConst(to(callee))} ELSE {},
               IF passes THEN to(Callee(f.meant)) ELSE f.meant, FALSE,
               passes => /\ \/ Len(args) = Len(meant.args)
                            \/ Len(args) > Len(meant.args) /\ meant.ellipsis
                         /\ \A i \in DOMAIN args \cap DOMAIN meant.args :
                              ConvertsTo(meant.args[i], args[i].meant),
               f.mixed \/ \E i \in DOMAIN args : args[i].mixed)

\* The member that is looked up is not the expression's but what its operand
\* has in that place: nothing, or something that is not a symbol.
MemberOutcomes(e) ==
  IF e.op \in {"SYMBOL"} \cup UnaryOps THEN {Crashed} ELSE {Crashed, Refused}
MemberOf(op) ==
  /\ Parsing(1)
  /\ LET e == Top(1)
     IN Reduce(1, op, MemberCheck(op, e.type), MemberOutcomes(e), e.meant, FALSE, TRUE, FALSE)

\* The type of a cast goes on to that of a product, of operands that are none.
CastOutcomes == {Crashed, Refused}
Cast(t) ==
  /\ Parsing(1)
  /\ Reduce(1, "CAST", CastCheck(Top(1).type, t), CastOutcomes, t, FALSE, TRUE, FALSE)

\* The list is still empty when the type of its last expression is asked for.
Comma ==
  /\ Parsing(2)
  /\ Reduce(2, "COMPOUND", TRUE, {Crashed}, Top(1).meant, FALSE, TRUE, FALSE)

Sizeof ==
  /\ Parsing(1) /\ steps' = steps + 1 /\ tags' = tags
  /\ IF ~type_declared(Top(1).type) THEN parser' = "refused" /\ stack' = <<>>
     ELSE LET t == alloc_simple_type(IntegerWord("unsigned", "none"), {})
          IN /\ parser' = parser
             /\ stack' = [stack EXCEPT ![Len(stack)] =
                            [Expression("SYMBOL", Const(t), t, FALSE, TRUE, FALSE)
                               EXCEPT !.const = "other"]]

ExprNext ==
  \/ \E s \in Symbols : PushSymbol(s)
  \/ \E op \in UnaryOps : Unary(op)
  \/ \E op \in BinaryOps : Binary(op)
  \/ Condition
  \/ \E n \in 0..2 : Funcall(n)
  \/ \E op \in {"MEMBER", "MEMBER_PTR"} : MemberOf(op)
  \/ \E t \in CastTypes : Cast(t)
  \/ Comma \/ Sizeof
ExprSpec == ExprInit /\ [][ExprNext]_exprVars

-----------------------------------------------------------------------------
(* Properties.                                                             *)

\* No qualifier is lost of an object nor of what it leads to.
KeepsQuals(t, meant) == \A i \in DOMAIN meant : QualsOf(meant[i]) \subseteq QualsOf(t[i])

\* The operators that convert their operands to a common type; a shift, which
\* should convert them one by one, is not one of these.
Converting == MultOps \cup BitOps \cup {"ADD", "SUB"}

\* Every expression has the type it has in C, and keeps each const on the way to
\* the object it names, whatever subexpressions it was built from; and two
\* arithmetic operands are converted as the usual arithmetic conversions do
\* (ey_expr_calc_type over ey_type_copy and ey_type_promotion).
ResultTypes ==
  /\ \A i \in DOMAIN stack :
       LET e == stack[i]
       IN ~e.mixed => /\ Shape(Decayed(e.type)) = Shape(Decayed(e.meant))
                      /\ KeepsQuals(e.type, e.meant)
  /\ Len(stack) >= 2 =>
       \A op \in Converting :
         LET a == Top(2)
             b == Top(1)
         IN (/\ BinaryCheck(op, a, b) /\ BothArithmetic(a.type, b.type)
             /\ ~LongLongAndUnsignedLong(word(a.type), word(b.type))) =>
            \A end \in BinaryTypes(op, a.type, b.type) :
              end.ends = "typed" /\ NormalWord(word(end.type)) = Usual(word(a.type), word(b.type))

\* What was accepted kept the constraints of its operators: ++ and -- were
\* applied to modifiable objects only, & to objects only, and calls passed as many
\* arguments as the function takes, each parameter one it can be converted from
\* (ey_expr_operand_check, whose operands are typed by ey_expr_calc_type).
ConstraintsKept == \A i \in DOMAIN stack : ~stack[i].mixed => stack[i].kept
=============================================================================
