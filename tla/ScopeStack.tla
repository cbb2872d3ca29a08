----------------------------- MODULE ScopeStack -----------------------------
(***************************************************************************)
(* What the engine's symbol tables promise for the file being parsed:      *)
(* identifiers live in a stack of scopes.  A new one is declared in the    *)
(* innermost scope only, a scope opened at the outermost level can have    *)
(* some in it already (a function's formals), and closing a scope takes    *)
(* away all of its identifiers and no other.  No file being parsed is the  *)
(* empty stack.                                                            *)
(***************************************************************************)
EXTENDS Naturals, Sequences

CONSTANT Idents
VARIABLE frames

Init == frames = <<>>

Begin == frames = <<>> /\ frames' = << {} >>

\* What is declared is new in the innermost scope.
WithDeclared(K) == [frames EXCEPT ![Len(frames)] = @ \cup K]
New(K) == frames # <<>> /\ K \cap frames[Len(frames)] = {}

Declare == \E K \in SUBSET Idents : New(K) /\ frames' = WithDeclared(K)

Open ==
  \E K, F \in SUBSET Idents :
    /\ New(K) /\ (F # {} => Len(frames) = 1)
    /\ frames' = Append(WithDeclared(K), F)

Close == Len(frames) > 1 /\ frames' = SubSeq(frames, 1, Len(frames) - 1)

Leave == frames # <<>> /\ frames' = <<>>

Next == Begin \/ Declare \/ Open \/ Close \/ Leave

Spec == Init /\ [][Next]_frames
=============================================================================
