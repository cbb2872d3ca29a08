---------------------------- MODULE StmtMeaning ----------------------------
(***************************************************************************)
(* What a function's body means: the order in which its expressions are    *)
(* evaluated, by the sections of ISO/IEC 9899:1999 that engine/eng_rule.y  *)
(* quotes where it builds each statement.  The state is the expression     *)
(* that is evaluated next.                                                *)
(***************************************************************************)
EXTENDS Statements

CONSTANT Values           \* what a switch can be given

VARIABLES prog, at

\* Begin: where the statement at path starts.  After: what follows it.
RECURSIVE Begin(_, _), After(_, _)
Begin(p, path) ==
  LET s == At(p, path) IN
  CASE s.class = "dec" ->
         IF s.inits = 0 THEN After(p, path) ELSE Point(path, InitPart[1])
    [] s.class \in {"expr", "return"} -> Point(path, "expr")
    [] s.class = "block" ->
         IF s.body = <<>> THEN After(p, path) ELSE Begin(p, path \o <<1>>)
    [] s.class \in {"label", "case", "default", "do_while"} -> Begin(p, path \o <<1>>)
    [] s.class \in {"branch", "while"} -> Point(path, "cond")
    [] s.class = "for" -> Point(path, "init")
    [] s.class = "switch" -> Point(path, "selector")
    [] s.class = "goto" -> Begin(p, s.target)
    [] s.class = "none" -> After(p, path)
    [] s.class = "break" ->
         After(p, Enclosing(p, path, LAMBDA x : IsLoop(x) \/ x.class = "switch"))
    [] s.class = "continue" ->
         LET loop == Enclosing(p, path, IsLoop)
         IN  Point(loop, IF At(p, loop).class = "for" THEN "inc" ELSE "cond")
After(p, path) ==
  IF path = <<>> THEN End
  ELSE LET up == Front(path)
           s == At(p, up)
       IN  CASE s.class = "block" /\ Last(path) < Len(s.body) ->
                  Begin(p, up \o <<Last(path) + 1>>)
             [] s.class \in {"while", "do_while"} -> Point(up, "cond")
             [] s.class = "for" -> Point(up, "inc")
             [] OTHER -> After(p, up)

\* Where a switch goes with the value v.
Chosen(p, path, v) ==
  LET labels == ToSet(LabelList(p, path))
      match == {l \in labels : At(p, l).class = "case" /\ At(p, l).value = v}
      default == {l \in labels : At(p, l).class = "default"}
  IN  IF match # {} THEN Begin(p, CHOOSE l \in match : TRUE)
      ELSE IF default # {} THEN Begin(p, CHOOSE l \in default : TRUE)
      ELSE After(p, path)

AfterTest(p, path, s) ==
  {IF holds THEN Begin(p, path \o <<1>>)
   ELSE IF s.class = "branch" /\ s.body[2] # None THEN Begin(p, path \o <<2>>)
   ELSE After(p, path) : holds \in Outcomes(s.cond)}

\* What may be evaluated after the expression at path.
Follows(p, path, part) ==
  LET s == At(p, path) IN
  CASE part = "entry" -> {Begin(p, <<>>)}
    [] part = "end" -> {}
    [] part = "cond" -> AfterTest(p, path, s)
    [] part \in {"init", "inc"} -> {Point(path, "cond")}
    [] part = "selector" -> {Chosen(p, path, v) : v \in Values}
    [] part = InitPart[1] /\ s.inits = 2 -> {Point(path, InitPart[2])}
    [] part = "expr" /\ s.class = "return" -> {End}
    [] OTHER -> {After(p, path)}

Evaluate ==
  /\ \E x \in {at} : at' \in Follows(prog, x.path, x.part)
  /\ UNCHANGED prog

Init == at = Entry
Spec == Init /\ [][Evaluate]_<<prog, at>>
=============================================================================
