----------------------------- MODULE Statements -----------------------------
(***************************************************************************)
(* The statement trees of engine/eng_stmt.h, as the constructors of        *)
(* engine/eng_stmt.c and the rules of engine/eng_rule.y build them.        *)
(*                                                                         *)
(* A statement is known by its path, the child numbers that lead to it     *)
(* from the function's block, and an expression by its statement and its   *)
(* part in it.  Of an expression only whether it is a constant is kept; of *)
(* a declaration, how many of its symbols have an initial value.  Levels   *)
(* and locations are left out.                                             *)
(***************************************************************************)
EXTENDS Naturals, Sequences, SequencesExt

None == [class |-> "none"]                    \* a NULL statement

Point(path, part) == [path |-> path, part |-> part]
Entry == Point(<<>>, "entry")                \* the function has not begun
End == Point(<<>>, "end")                    \* it is over

\* What is known of a condition: its value comes at run time, or it is the
\* constant 0 or another constant.
Conditions == {"runtime", "zero", "nonzero"}
IsConst(cond) == cond # "runtime"
Outcomes(cond) == CASE cond = "runtime" -> BOOLEAN [] cond = "zero" -> {FALSE} [] OTHER -> {TRUE}

InitPart == <<"first", "second">>             \* a declaration has at most two here
DecStmt(inits) == [class |-> "dec", inits |-> inits]
ExprStmt == [class |-> "expr"]
ReturnStmt == [class |-> "return"]
GotoStmt(target) == [class |-> "goto", target |-> target]      \* target is a path
BranchStmt(cond, t, f) == [class |-> "branch", cond |-> cond, body |-> <<t, f>>]
LabelStmt(s) == [class |-> "label", body |-> <<s>>]
CaseStmt(v, s) == [class |-> "case", value |-> v, body |-> <<s>>]
DefaultStmt(s) == [class |-> "default", body |-> <<s>>]
BlockStmt(list) == [class |-> "block", body |-> list]
ContinueStmt == [class |-> "continue"]
BreakStmt == [class |-> "break"]
SwitchStmt(s) == [class |-> "switch", body |-> <<s>>]
WhileStmt(cond, s) == [class |-> "while", cond |-> cond, body |-> <<s>>]
DoWhileStmt(cond, s) == [class |-> "do_while", cond |-> cond, body |-> <<s>>]
ForStmt(cond, s) == [class |-> "for", cond |-> cond, body |-> <<s>>]

IsLabel(s) == s.class \in {"label", "case", "default"}
IsLoop(s) == s.class \in {"while", "do_while", "for"}

Kids(s) == IF "body" \in DOMAIN s THEN s.body ELSE <<>>

RECURSIVE At(_, _)
At(s, path) == IF path = <<>> THEN s ELSE At(s.body[Head(path)], Tail(path))

RECURSIVE Paths(_)
Paths(s) ==
  {<<>>} \cup UNION {{<<i>> \o p : p \in Paths(Kids(s)[i])} : i \in DOMAIN Kids(s)}

\* A switch's label_list: its cases and default, each queued when its rule is
\* reduced, which is after the statement it labels.
RECURSIVE LabelsIn(_, _)
LabelsIn(s, path) ==
  LET inner == IF s.class = "switch" THEN <<>>
               ELSE FlattenSeq([i \in DOMAIN Kids(s) |-> LabelsIn(Kids(s)[i], path \o <<i>>)])
  IN  inner \o IF s.class \in {"case", "default"} THEN <<path>> ELSE <<>>
LabelList(prog, path) == LabelsIn(At(prog, path).body[1], path \o <<1>>)

\* The construct a break or a continue at path belongs to.
Enclosing(prog, path, Kind(_)) ==
  LET above == {n \in 0..(Len(path) - 1) : Kind(At(prog, SubSeq(path, 1, n)))}
  IN  SubSeq(path, 1, CHOOSE n \in above : \A m \in above : m <= n)
=============================================================================
