---------------------------- MODULE MC_StmtLower ----------------------------
(* The trees StmtLower is run on: every statement inside every other, to a   *)
(* depth, where the grammar allows it (a break in a loop or switch, a        *)
(* continue in a loop).                                                      *)
EXTENDS StmtLower

CONSTANTS Depth, Conds               \* bounds of the model

Leaves(loop, switch) ==
  {ExprStmt, ReturnStmt}
  \cup (IF loop THEN {ContinueStmt} ELSE {}) \cup (IF loop \/ switch THEN {BreakStmt} ELSE {})

If(c, t) == BranchStmt(c, t, None)
Pair(s, t) == BlockStmt(<<s, t>>)

RECURSIVE Nested(_, _, _)
Nested(d, loop, switch) ==
  LET inner(l, w) == IF d = 1 THEN Leaves(l, w) ELSE Nested(d - 1, l, w)
      same == inner(loop, switch)
  IN  same
      \cup {LabelStmt(s) : s \in same}
      \cup UNION {{If(c, s), BranchStmt(c, s, ExprStmt), BranchStmt(c, ExprStmt, s)} :
                    c \in Conds, s \in same}
      \cup {Pair(s, ExprStmt) : s \in same} \cup {Pair(ExprStmt, s) : s \in same}
      \cup UNION {{WhileStmt(c, s), DoWhileStmt(c, s), ForStmt(c, s)} :
                    c \in Conds, s \in inner(TRUE, switch)}
      \cup UNION {{SwitchStmt(s),
                   SwitchStmt(Pair(CaseStmt("1", s), CaseStmt("2", BreakStmt))),
                   SwitchStmt(Pair(DefaultStmt(ExprStmt), CaseStmt("1", CaseStmt("2", s)))),
                   SwitchStmt(If("runtime", CaseStmt("1", s)))} :
                    s \in inner(loop, TRUE)}

\* A block with declarations, a goto, an empty block.
Rare ==
  {Pair(DecStmt(2), BranchStmt("runtime", BlockStmt(<<DecStmt(0)>>), f)) :
     f \in {None, ExprStmt, BlockStmt(<<DecStmt(0)>>)}}
  \cup {Pair(GotoStmt(<<2>>), LabelStmt(None)), BlockStmt(<<>>)}

MCPrograms == {Pair(s, ExprStmt) : s \in Nested(Depth, FALSE, FALSE)} \cup Rare
=============================================================================
