----------------------------- MODULE StmtLower -----------------------------
(***************************************************************************)
(* engine/eng_stmt.c: ey_function_prepare flattens a function's tree of    *)
(* statements into one list of expressions, branches and jumps.            *)
(*                                                                         *)
(* The list has an identity for each statement in it: the path of the      *)
(* statement of the tree it comes from, and what the code names it.  The   *)
(* machine that runs the list is the one the diagrams of the source        *)
(* describe; the engine has none yet.                                      *)
(*                                                                         *)
(* The two stubs of engine/eng_expr.c that prepare asks about a constant,  *)
(* ey_expr_is_true and ey_expr_is_meanless_const_value, answer 0.          *)
(***************************************************************************)
EXTENDS Statements

CONSTANTS Programs,       \* the trees the function's block may be
          Values          \* what a switch can be given

VARIABLES
  prog,                   \* the tree
  status,                 \* "parsed", "ready", "failed" (-1) or "crashed"
  code,                   \* the lowered list
  pc,                     \* the statement of it that runs next
  selected                \* the value of the last switch's selector

vars == <<prog, status, code, pc, selected>>

-----------------------------------------------------------------------------
(* The statements of the list                                              *)

Id(path, part) == Point(path, part)
Null == Id(<<>>, "null")
\* What ey_function_prepare allocates for returns to go to, and puts in no list.
ReturnPoint == Id(<<>>, "return_point")

Instr(id, op, target, other, value) ==
  [id |-> id, op |-> op, target |-> target, other |-> other, value |-> value]
Pesudo(id) == Instr(id, "pesudo", Null, Null, "")
Jump(id, target) == Instr(id, "jump", target, Null, "")
Eval(id) == Instr(id, "expr", Null, Null, "")
Branch(id, true, false) == Instr(id, "branch", true, false, "")
Crash(path) == <<Instr(Id(path, "crash"), "crash", Null, Null, "")>>

First(list) == IF list = <<>> THEN Null ELSE list[1].id

-----------------------------------------------------------------------------
(* ey_stmt_prepare and what it calls                                       *)

IsTrue(cond) == FALSE              \* ey_expr_is_true

RECURSIVE ContainsLabel(_)
ContainsLabel(s) ==
  \/ IsLabel(s)
  \/ s.class = "block" /\ \E i \in DOMAIN s.body : ContainsLabel(s.body[i])

\* Lower(s, path, bp, cp): the list for s.  bp and cp are where its break and
\* its continue go, Null outside of a loop or switch.
RECURSIVE Lower(_, _, _, _)

LowerDec(s, path) == [i \in 1..s.inits |-> Eval(Id(path, InitPart[i]))]

LowerLabelled(s, path, bp, cp) ==
  LET target == Lower(s.body[1], path \o <<1>>, bp, cp)
  IN  <<Instr(Id(path, "self"), s.class, First(target), Null, "")>> \o target

LowerBlock(s, path, bp, cp) ==
  IF s.body = <<>> THEN Crash(path)                                \* the assertion
  ELSE FlattenSeq([i \in DOMAIN s.body |-> Lower(s.body[i], path \o <<i>>, bp, cp)])

\* An if whose parts are T and F, which may be empty.
IfParts(path, T, F) ==
  LET tail == Id(path, "if_tail")
      over == Jump(Id(path, "true_tail"), tail)
      self(true, false) == <<Branch(Id(path, "cond"), true, false)>>
  IN  IF T = <<>> /\ F = <<>> THEN <<Eval(Id(path, "cond"))>>
      ELSE IF T = <<>>
        THEN self(over.id, First(F)) \o <<over>> \o F \o <<Pesudo(tail)>>
      ELSE IF F = <<>> THEN self(First(T), tail) \o T \o <<Pesudo(tail)>>
      ELSE self(First(T), First(F)) \o T \o <<over>> \o F \o <<Pesudo(tail)>>

LowerIf(s, path, bp, cp) ==
  LET T == Lower(s.body[1], path \o <<1>>, bp, cp)
      F == IF s.body[2] = None THEN <<>> ELSE Lower(s.body[2], path \o <<2>>, bp, cp)
  IN  IF ~IsConst(s.cond) \/ ContainsLabel(s.body[1]) THEN IfParts(path, T, F)
      ELSE IF s.body[2] = None THEN Crash(path)     \* ey_stmt_contain_label of NULL
      ELSE IF ContainsLabel(s.body[2]) THEN IfParts(path, T, F)
      ELSE <<Eval(Id(path, "cond"))>> \o IF IsTrue(s.cond) THEN T ELSE F

\* A constant condition, and no label to keep the body for.
Dead(s) == IsConst(s.cond) /\ ~ContainsLabel(s.body[1])

Body_HeadAgain(s, path) ==              \* a faulty variant
  Lower(s.body[1], path \o <<1>>, Id(path, "bp"),
        IF s.class = "while" THEN Id(path, "cp") ELSE Id(path, "body_head"))
Body(s, path) == Lower(s.body[1], path \o <<1>>, Id(path, "bp"), Id(path, "cp"))
BodyTail(path, target) == Jump(Id(path, "body_tail"), target)
LoopTest(path, body) == Branch(Id(path, "cond"), First(body), Id(path, "bp"))

WhileLoop(path, body) ==
  <<Pesudo(Id(path, "cp")), LoopTest(path, body)>> \o body
  \o <<BodyTail(path, Id(path, "cp")), Pesudo(Id(path, "bp"))>>
WhileForever(path, body) ==
  <<Pesudo(Id(path, "cp")), Eval(Id(path, "cond"))>> \o body
  \o <<BodyTail(path, Id(path, "cp")), Pesudo(Id(path, "bp"))>>
LowerWhile(s, path) ==
  IF ~Dead(s) THEN WhileLoop(path, Body(s, path))
  ELSE IF IsTrue(s.cond) THEN WhileForever(path, Body(s, path))
  ELSE <<Eval(Id(path, "cond"))>>

DoWhileLoop(path, body) ==
  LET head == Id(path, "body_head")
  IN  <<Pesudo(head)>> \o body
      \o <<Pesudo(Id(path, "cp")), Branch(Id(path, "cond"), head, Id(path, "bp")),
           Pesudo(Id(path, "bp"))>>
DoWhileForever(path, body) ==
  LET head == Id(path, "body_head")
  IN  <<Pesudo(head)>> \o body
      \o <<Pesudo(Id(path, "cp")), Eval(Id(path, "cond")), BodyTail(path, head),
           Pesudo(Id(path, "bp"))>>
LowerDoWhile(s, path) ==
  IF ~Dead(s) THEN DoWhileLoop(path, Body(s, path))
  ELSE IF IsTrue(s.cond) THEN DoWhileForever(path, Body(s, path))
  ELSE Body(s, path)
       \o <<Pesudo(Id(path, "cp")), Eval(Id(path, "cond")), Pesudo(Id(path, "bp"))>>

ForEnd(path) ==
  <<Pesudo(Id(path, "cp")), Eval(Id(path, "inc")), BodyTail(path, Id(path, "body_head")),
    Pesudo(Id(path, "bp"))>>
ForLoop(path, body) ==
  <<Pesudo(Id(path, "body_head")), LoopTest(path, body)>> \o body \o ForEnd(path)
ForForever(path, body) ==
  <<Pesudo(Id(path, "body_head")), Eval(Id(path, "cond"))>> \o body \o ForEnd(path)
LowerFor(s, path) ==
  <<Eval(Id(path, "init"))>>
  \o IF ~Dead(s) THEN ForLoop(path, Body(s, path))
     ELSE IF IsTrue(s.cond) THEN ForForever(path, Body(s, path))
     ELSE <<Eval(Id(path, "cond"))>>

\* The chain of tests: one for each case, then a jump to the default or out.
Chain(s, path, bp) ==
  LET labels == LabelsIn(s.body[1], <<1>>)
      case(l) == At(s, l).class = "case"
      cases == SelectSeq(labels, case)
      default == {l \in ToSet(labels) : ~case(l)}
      branch(i) == Id(path \o cases[i], "case_branch")
      else(i) == IF i = Len(cases) THEN Id(path, "default_jump") ELSE branch(i + 1)
      test(i) ==
        LET jump == Jump(Id(path \o cases[i], "case_jump"), Id(path \o cases[i], "self"))
        IN  <<Instr(branch(i), "test", jump.id, else(i), At(s, cases[i]).value), jump>>
      out == IF default = {} THEN bp ELSE Id(path \o (CHOOSE l \in default : TRUE), "self")
  IN  FlattenSeq([i \in DOMAIN cases |-> test(i)])
      \o <<Jump(Id(path, "default_jump"), out)>>

LowerSwitch_OuterBreak(s, path, cp) ==  \* a faulty variant
  LET bp == Id(path, "bp")
      body == Lower(s.body[1], path \o <<1>>, bp, cp)
  IN  <<Eval(Id(path, "selector"))>>
      \o IF ~ContainsLabel(s.body[1]) THEN <<>> ELSE Chain(s, path, bp) \o body
LowerSwitch(s, path, cp) ==
  LET bp == Id(path, "bp")
      body == Lower(s.body[1], path \o <<1>>, bp, cp)
  IN  <<Eval(Id(path, "selector"))>>
      \o IF ~ContainsLabel(s.body[1]) THEN <<>>
         ELSE Chain(s, path, bp) \o body \o <<Pesudo(bp)>>

Lower(s, path, bp, cp) ==
  CASE s = None -> Crash(path)                                     \* the assertion
    [] s.class = "dec" -> LowerDec(s, path)
    [] s.class = "expr" -> <<Eval(Id(path, "expr"))>>
    [] IsLabel(s) -> LowerLabelled(s, path, bp, cp)
    [] s.class = "block" -> LowerBlock(s, path, bp, cp)
    [] s.class = "branch" -> LowerIf(s, path, bp, cp)
    [] s.class = "goto" -> <<Jump(Id(path, "self"), Id(s.target, "self"))>>
    [] s.class = "return" ->
         <<Instr(Id(path, "expr"), "return", ReturnPoint, Null, "")>>
    [] s.class = "while" -> LowerWhile(s, path)
    [] s.class = "do_while" -> LowerDoWhile(s, path)
    [] s.class = "for" -> LowerFor(s, path)
    [] s.class = "switch" -> LowerSwitch(s, path, cp)
    [] s.class = "break" -> <<Jump(Id(path, "self"), bp)>>
    [] s.class = "continue" -> <<Jump(Id(path, "self"), cp)>>

-----------------------------------------------------------------------------
(* ey_function_prepare, and the machine that runs its list                 *)

Init ==
  /\ prog \in Programs /\ status = "parsed"
  /\ code = <<>> /\ pc = 1 /\ selected = ""

\* The list is made, or a statement or an expression it needs is refused: by
\* the slab, or by ey_alloc_binary_expr for the tests of a switch.
Prepare ==
  /\ status = "parsed"
  /\ \/ /\ code' = LowerBlock(prog, <<>>, Null, Null)
        /\ status' = IF \E i \in DOMAIN code' : code'[i].op = "crash" THEN "crashed" ELSE "ready"
     \/ status' = "failed" /\ UNCHANGED code
  /\ UNCHANGED <<prog, pc, selected>>

\* The places outside the list: behind its last statement, at the return point,
\* which does nothing and has a NULL link, and where a NULL or a statement that
\* was dropped would be.
Behind == Len(code) + 1
Returned == Len(code) + 2
Lost == Len(code) + 3

Placed(id) == {i \in DOMAIN code : code[i].id = id}
Goto(id) ==
  IF Placed(id) # {} THEN CHOOSE i \in Placed(id) : TRUE
  ELSE IF id = ReturnPoint THEN Returned
  ELSE Lost

Running(ops) == status = "ready" /\ pc \in DOMAIN code /\ code[pc].op \in ops
I == code[pc]

Evaluate ==
  /\ Running({"expr"}) /\ pc' = pc + 1
  /\ selected' \in IF I.id.part = "selector" THEN Values ELSE {selected}
  /\ UNCHANGED <<prog, status, code>>

Decide ==
  /\ Running({"branch"})
  /\ \E holds \in Outcomes(At(prog, I.id.path).cond) :
       pc' = Goto(IF holds THEN I.target ELSE I.other)
  /\ UNCHANGED <<prog, status, code, selected>>

AfterTest(i) == Goto(IF code[i].value = selected THEN code[i].target ELSE code[i].other)

Test ==
  /\ Running({"test"}) /\ pc' = AfterTest(pc)
  /\ UNCHANGED <<prog, status, code, selected>>

Leap ==
  /\ Running({"jump", "return"}) /\ pc' = Goto(I.target)
  /\ UNCHANGED <<prog, status, code, selected>>

Marks == {"pesudo", "label", "case", "default"}
Pass ==
  /\ Running(Marks) /\ pc' = pc + 1
  /\ UNCHANGED <<prog, status, code, selected>>

Next == Prepare \/ Evaluate \/ Decide \/ Test \/ Leap \/ Pass

Spec == Init /\ [][Next]_vars

-----------------------------------------------------------------------------
(* Properties                                                              *)

\* What is known not to be lowered to what it means: a constant condition
\* other than 0, a loop with an empty list for a body, a label that is not
\* seen because it is not in a block, and what crashes.
RECURSIVE IsEmpty(_), HasLabel(_), IsClear(_)
IsEmpty(s) ==
  \/ s.class = "dec" /\ s.inits = 0
  \/ s.class = "block" /\ \A t \in ToSet(s.body) : IsEmpty(t)
HasLabel(s) == IsLabel(s) \/ \E t \in ToSet(Kids(s)) : HasLabel(t)
Hides(s) == HasLabel(s) /\ ~ContainsLabel(s)
IsClear(s) ==
  /\ s.class # "goto"
  /\ s.class = "block" => s.body # <<>>
  /\ s.class = "branch" /\ IsConst(s.cond) => s.body[2] # None
  /\ IsLoop(s) => ~IsEmpty(s.body[1])
  /\ s.class = "switch" => ~Hides(s.body[1])
  /\ "cond" \in DOMAIN s => s.cond # "nonzero"
  /\ "cond" \in DOMAIN s /\ IsConst(s.cond) => \A t \in ToSet(s.body) : ~Hides(t)
  /\ \A t \in ToSet(Kids(s)) : IsClear(t)
Faithful == status = "ready" /\ IsClear(prog)

\* The next expression the list evaluates from position i on.
reach[i \in 1..Lost] ==
  IF i = Lost THEN Null
  ELSE IF i \in {Behind, Returned} THEN End
  ELSE CASE code[i].op \in {"expr", "branch", "return"} -> code[i].id
         [] code[i].op \in Marks -> reach[i + 1]
         [] code[i].op = "jump" -> reach[Goto(code[i].target)]
         [] code[i].op = "test" -> reach[AfterTest(i)]
Reached == reach[pc]

Meaning == INSTANCE StmtMeaning WITH at <- IF Faithful THEN Reached ELSE Entry

\* Running the list evaluates the expressions of the function in the order its
\* statements give them, whatever the conditions and selectors turn out to be:
\* the diagrams of ey_stmt_prepare_* are what ISO/IEC 9899 asks for.
ImplementsMeaning == Meaning!Spec

\* Every statement is in the list once, and every branch, test and jump leads to
\* a statement of it: no dangling or NULL target is left for the engine to
\* follow.  Only a return leaves the list, for the return point outside of it
\* (eng_stmt.c 695-703, 1688-1707), where the function ends.
JumpsLand ==
  Faithful =>
    /\ \A i, j \in DOMAIN code : code[i].id = code[j].id => i = j
    /\ \A i \in DOMAIN code :
         /\ code[i].op \in {"branch", "test", "jump"} => Placed(code[i].target) # {}
         /\ code[i].op \in {"branch", "test"} => Placed(code[i].other) # {}
         /\ code[i].op = "return" => Goto(code[i].target) = Returned
=============================================================================
