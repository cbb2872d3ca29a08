SPECIFICATION Spec
CONSTANTS
  S = S
  Tags <- MC_Tags
  DefinedTag = S
  MemberTypes <- MC_MemberTypes
  BitSizes = {0, 5, 27}
  MaxMembers = 3
  JunkQuals <- MC_JunkQuals
  StarLists <- MC_StarLists
  ArgLists <- MC_ArgLists
  Known <- MC_Known
  MaxParts = 4
  MaxDepth = 5
  Qualifiers = {"const"}
INVARIANTS DeclaredAsWritten EqualIsSame LayoutSound PackedTight
CHECK_DEADLOCK FALSE
