--------------------------- MODULE MC_FunctionBody ---------------------------
(* Instances of FunctionBody: the lines of the label table are alike.        *)
EXTENDS FunctionBody

MCMaxNest == <<4, 3>>

Symmetry == Permutations(Lines)
=============================================================================
