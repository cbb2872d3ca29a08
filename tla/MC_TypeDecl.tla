---------------------------- MODULE MC_TypeDecl ----------------------------
EXTENDS TypeDecl

CONSTANT S

MC_Tags == {S}

MC_Type(s, a, i, k, b) == [size |-> s, alignment |-> a, integer |-> i, kind |-> k, based |-> b]
\* Integers of each alignment, an object larger than its alignment, an
\* incomplete tag, a function, an open array of a type and of a function.
MC_MemberTypes ==
  {MC_Type(n, n, TRUE, "object", FALSE) : n \in {1, 4, 8}}
  \cup {MC_Type(12, 4, FALSE, "object", FALSE), MC_Type(0, 0, FALSE, "object", FALSE),
        MC_Type(0, 0, FALSE, "function", FALSE), MC_Type(0, 0, FALSE, "void", FALSE),
        MC_Type(0, 4, FALSE, "array", TRUE), MC_Type(0, 0, FALSE, "array", FALSE)}

MC_JunkQuals == {{}, {"restrict"}}
MC_StarLists == {<<{}>>, <<{"const"}>>, <<{"const"}, {}>>}

MC_Int(q) == alloc_simple_type(Word("signed", "none", "int"), q)
MC_Pointer(t) == alloc_pointer_type({}, t)
MC_S == alloc_tag_type(StructTag, S)
MC_ArgLists == {<<>>, <<MC_Int({"const"})>>, <<MC_Pointer(MC_S)>>}

MC_Function(args) == alloc_function_type(MC_Int({}), args, FALSE)
\* An array of structures may have been made before their tag was complete.
MC_Known ==
  {MC_Int({}), MC_Int({"const"}), alloc_simple_type(Base("double"), {}), MC_S,
   MC_Pointer(MC_Int({})), MC_Pointer(MC_Int({"const"})), alloc_pointer_type({"const"}, MC_Int({})),
   MC_Pointer(MC_Pointer(MC_Int({}))), MC_Pointer(MC_S),
   alloc_array_type(0, 4, MC_Int({}), 0, FALSE), MC_Pointer(alloc_array_type(0, 4, MC_Int({}), 0, FALSE)),
   MC_Pointer(alloc_array_type(0, 8, MC_Pointer(MC_Int({})), 0, TRUE)),
   MC_Pointer(alloc_array_type(0, 0, MC_S, 0, TRUE)),
   MC_Pointer(MC_Function(<<>>)), MC_Function(<<MC_Int({})>>),
   MC_Pointer(MC_Function(<<MC_Int({"const"})>>)), MC_Pointer(MC_Function(<<MC_Pointer(MC_S)>>))}
=============================================================================
