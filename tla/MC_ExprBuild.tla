---------------------------- MODULE MC_ExprBuild ----------------------------
EXTENDS ExprBuild

MC_Object(t) == [type |-> t, const |-> "no"]
MC_Simple(w, q) == alloc_simple_type(w, q)
MC_Int(q) == MC_Simple(IntegerWord("signed", "none"), q)
MC_To(t) == alloc_pointer_type({}, t)
MC_S == alloc_tag_type(Base("struct_tag"), "s")

\* Integers on both sides of each conversion, pointers with and without const at
\* each level, and functions that take one and two arguments.
MC_Symbols ==
  {MC_Object(t) : t \in
     {MC_Int({}), MC_Simple(Word("signed", "none", "char"), {}),
      MC_Simple(IntegerWord("unsigned", "none"), {}), MC_Simple(IntegerWord("unsigned", "long"), {}),
      MC_Simple(IntegerWord("signed", "long_long"), {}), MC_Simple(Base("double"), {}), MC_S,
      MC_To(MC_Int({})), MC_To(MC_Int({"const"})), MC_To(MC_Int({"volatile"})),
      MC_To(MC_To(MC_Int({}))),
      MC_To(MC_To(MC_Int({"const"}))), MC_To(void_type), MC_To(MC_S),
      alloc_array_type(4, 4, MC_Int({}), 1, FALSE),
      alloc_function_type(MC_Int({}), <<>>, FALSE),
      MC_To(alloc_function_type(MC_Int({}), <<MC_To(MC_S)>>, TRUE)),
      MC_To(alloc_function_type(MC_Int({}), <<MC_Int({})>>, FALSE)),
      MC_To(alloc_function_type(MC_To(MC_Int({})), <<MC_To(MC_Int({})), MC_Int({})>>, TRUE))}}
  \cup {[type |-> MC_Int({}), const |-> c] : c \in {"zero", "other"}}
  \cup {[type |-> enum_const_type, const |-> "other"]}
MC_CastTypes == {MC_Int({}), MC_S, MC_To(void_type)}
=============================================================================
