---------------------------- MODULE ScopeProofs ----------------------------
(***************************************************************************)
(* ScopeTable is correct for any names, lines, files, depth and number of  *)
(* symbols.                                                                *)
(***************************************************************************)
EXTENDS ScopeTable, WellFoundedInduction, NaturalsInduction, TLAPS

SameChain(s, u) == Table(s.kind) = Table(u.kind) /\ s.name = u.name /\ s.line = u.line

HeaderOutside == phase = "header" => scopes = <<>> /\ MaxDepth > 0

FileBound == (\A s \in syms : s.file <= file) /\ (Reading => file > 0)

LevelBound ==
  Reading => \A s \in Current : s.level <= level + (IF phase = "header" THEN 1 ELSE 0)

KeysUnique == \A s, u \in syms : SameKey(s, u) => s = u

\* The order of a line's entries: newer ones are of later files, and of levels
\* at least as deep within a file.
Ordered ==
  \A s, u \in syms :
    /\ <<s, u>> \in newer => <<u, s>> \notin newer
    /\ s # u /\ SameChain(s, u) => <<s, u>> \in newer \/ <<u, s>> \in newer
    /\ <<s, u>> \in newer /\ s.file = u.file => u.level <= s.level
    /\ s.file > u.file => <<s, u>> \in newer

TablesInv == syms \in SUBSET Symbols /\ newer \in SUBSET (syms \X syms) /\ KeysUnique /\ Ordered

DepthBound == level <= MaxDepth /\ \A s \in syms : s.level <= MaxDepth

IInv ==
  /\ TypeOK /\ HeaderOutside /\ FileBound /\ LevelBound /\ DepthBound
  /\ KeysUnique /\ Ordered /\ OpenTagsKept

-----------------------------------------------------------------------------
\* A set of new symbols of the file, none shallower than what the file has,
\* leaves the tables in order.
LEMMA InsertStep ==
  ASSUME TablesInv, \A s \in syms : s.file <= file, file \in Nat,
         NEW S \in SUBSET Symbols, \A s \in S : s.file = file,
         \A s \in S, u \in Current : u.level <= s.level,
         \A s, u \in S : SameKey(s, u) => s = u,
         Inserted(S)
  PROVE  TablesInv' /\ syms \subseteq syms' /\ syms' \subseteq syms \cup S
<1> DEFINE new == {s \in S : \A u \in syms : ~SameKey(s, u)}
<1>1. /\ syms' = syms \cup new
      /\ newer' = newer \cup {p \in new \X (syms \cup new) : p[2] \in syms \/ p[2].level < p[1].level}
  BY DEF Inserted
<1>2. \A s, u \in Symbols :
        <<s, u>> \in newer' <=>
          \/ <<s, u>> \in newer
          \/ s \in new /\ u \in syms
          \/ s \in new /\ u \in new /\ u.level < s.level
  BY <1>1
<1>3. new \in SUBSET Symbols /\ syms \in SUBSET Symbols /\ syms' \in SUBSET Symbols
  BY <1>1 DEF TablesInv
<1>4. newer' \in SUBSET (syms' \X syms')
  BY <1>1 DEF TablesInv
<1>5. \A s, u \in Symbols : SameKey(s, u) <=> SameChain(s, u) /\ s.level = u.level
  BY DEF SameKey, SameChain
<1>5a. \A s, u \in Symbols : SameKey(s, u) => SameKey(u, s)
  BY DEF SameKey
<1>6. KeysUnique'
  <2> SUFFICES ASSUME NEW s \in syms', NEW u \in syms', SameKey(s, u) PROVE s = u
    BY DEF KeysUnique, SameKey
  <2>1. s \in Symbols /\ u \in Symbols /\ SameKey(u, s)
    BY <1>3, <1>5a
  <2>2. s \in new => u \notin syms
    OBVIOUS
  <2>3. u \in new => s \notin syms
    BY <2>1
  <2>4. CASE s \in new /\ u \in new
    BY <2>4
  <2>5. CASE s \in syms /\ u \in syms
    BY <2>5 DEF TablesInv, KeysUnique
  <2> QED BY <1>1, <2>2, <2>3, <2>4, <2>5
<1>7. new \cap syms = {}
  BY DEF SameKey
<1>8. \A s \in Symbols : s.level \in Nat /\ s.file \in Nat
  BY DEF Symbols
<1>9. Ordered'
  <2> SUFFICES ASSUME NEW s \in syms', NEW u \in syms'
               PROVE  /\ <<s, u>> \in newer' => <<u, s>> \notin newer'
                      /\ s # u /\ SameChain(s, u) => <<s, u>> \in newer' \/ <<u, s>> \in newer'
                      /\ <<s, u>> \in newer' /\ s.file = u.file => u.level <= s.level
                      /\ s.file > u.file => <<s, u>> \in newer'
    BY DEF Ordered, SameChain
  <2>1. s \in Symbols /\ u \in Symbols /\ s.level \in Nat /\ u.level \in Nat
        /\ s.file \in Nat /\ u.file \in Nat
    BY <1>3, <1>8
  <2>2. <<s, u>> \in newer => s \in syms /\ u \in syms
    BY DEF TablesInv
  <2>3. <<u, s>> \in newer => s \in syms /\ u \in syms
    BY DEF TablesInv
  <2> HIDE DEF new
  <2>4. CASE s \in syms /\ u \in syms
    BY <1>2, <1>7, <2>1, <2>4 DEF TablesInv, Ordered
  <2>5. CASE s \in new /\ u \in syms
    <3>1. s.file = file /\ u.file <= file /\ s \notin syms /\ u \notin new
      BY <1>7, <2>5 DEF new
    <3>2. u.file = file => u.level <= s.level
      BY <2>5 DEF new, Current
    <3> QED BY <1>2, <2>1, <2>2, <2>3, <2>5, <3>1, <3>2
  <2>6. CASE s \in syms /\ u \in new
    <3>1. u.file = file /\ s.file <= file /\ u \notin syms /\ s \notin new
      BY <1>7, <2>6 DEF new
    <3>2. ~(s.file > u.file)
      BY <2>1, <3>1
    <3>3. <<s, u>> \notin newer' /\ <<u, s>> \in newer'
      BY <1>2, <2>1, <2>2, <2>6, <3>1
    <3> QED BY <3>2, <3>3
  <2>7. CASE s \in new /\ u \in new
    <3>1. s.file = file /\ u.file = file /\ s \notin syms /\ u \notin syms
      BY <1>7, <2>7 DEF new
    <3>2. SameKey(s, u) => s = u
      BY <2>7 DEF new
    <3>3. s # u /\ SameChain(s, u) => s.level # u.level
      BY <1>5, <2>1, <3>2
    <3>4. /\ <<s, u>> \in newer' <=> u.level < s.level
          /\ <<u, s>> \in newer' <=> s.level < u.level
      BY <1>2, <2>1, <2>2, <2>3, <2>7, <3>1
    <3>5. ~(s.file > u.file)
      BY <2>1, <3>1
    <3> QED BY <2>1, <3>3, <3>4, <3>5
  <2> QED BY <1>1, <2>4, <2>5, <2>6, <2>7
<1>10. syms \subseteq syms' /\ syms' \subseteq syms \cup S
  BY <1>1
<1> QED BY <1>3, <1>4, <1>6, <1>9, <1>10 DEF TablesInv

LEMMA PurgeStep ==
  ASSUME TablesInv, Purged
  PROVE  TablesInv' /\ syms' = Kept /\ syms' \subseteq syms
<1>1. syms' = Kept /\ newer' = newer \cap (Kept \X Kept) /\ Kept \subseteq syms
  BY DEF Purged, Kept
<1>2. syms' \in SUBSET Symbols /\ newer' \in SUBSET (syms' \X syms')
  BY <1>1 DEF TablesInv
<1>3. KeysUnique'
  BY <1>1 DEF TablesInv, KeysUnique, SameKey
<1>4. Ordered'
  <2> SUFFICES ASSUME NEW s \in syms', NEW u \in syms'
               PROVE  /\ <<s, u>> \in newer' => <<u, s>> \notin newer'
                      /\ s # u /\ SameChain(s, u) => <<s, u>> \in newer' \/ <<u, s>> \in newer'
                      /\ <<s, u>> \in newer' /\ s.file = u.file => u.level <= s.level
                      /\ s.file > u.file => <<s, u>> \in newer'
    BY DEF Ordered, SameChain
  <2>1. s \in syms /\ u \in syms /\ (<<s, u>> \in newer' <=> <<s, u>> \in newer)
        /\ (<<u, s>> \in newer' <=> <<u, s>> \in newer)
    BY <1>1
  <2> QED BY <2>1 DEF TablesInv, Ordered
<1> QED BY <1>1, <1>2, <1>3, <1>4 DEF TablesInv

-----------------------------------------------------------------------------
LEMMA MaxExists ==
  ASSUME NEW A \in SUBSET Nat, A # {}, NEW b \in Nat, \A a \in A : a <= b
  PROVE  \E m \in A : \A a \in A : a <= m
<1> DEFINE B == {b - a : a \in A}
<1>0. \A a \in A : a \in Nat /\ b - a \in Nat
  OBVIOUS
<1>1. B \subseteq Nat /\ B # {}
  BY <1>0
<1>2. PICK x \in B : \A y \in B : ~ (<<y, x>> \in OpToRel(<, Nat))
  <2> HIDE DEF B
  <2>1. ASSUME NEW R, IsWellFoundedOn(R, Nat)
        PROVE  \E x \in B : \A y \in B : ~ (<<y, x>> \in R)
    BY <1>1, <2>1, WFMin, Zenon
  <2> QED BY <2>1, NatLessThanWellFounded, Zenon
<1>3. PICK m \in A : x = b - m
  BY <1>2
<1>4. \A a \in A : ~(b - a < b - m)
  <2> SUFFICES ASSUME NEW a \in A, b - a < b - m PROVE FALSE
    OBVIOUS
  <2>1. b - a \in B /\ b - a \in Nat /\ x \in Nat
    BY <1>1
  <2>2. <<b - a, x>> \in OpToRel(<, Nat)
    BY <1>3, <2>1 DEF OpToRel
  <2> QED BY <1>2, <2>1, <2>2
<1> QED BY <1>3, <1>4

\* A search that has something to find finds one symbol, of the latest file
\* and, within it, the deepest level.
LEMMA NewestExists ==
  ASSUME TypeOK, DepthBound, KeysUnique, Ordered, BoundsAssumption,
         NEW T \in SUBSET syms, T # {}, \A s, u \in T : SameChain(s, u)
  PROVE  \E s \in T : /\ Newest(T) = {s}
                     /\ \A u \in T : /\ u.file <= s.file
                                     /\ u.file = s.file => u.level <= s.level
<1>1. \A s \in T : s \in syms /\ s.file \in Nat /\ s.file <= NFiles /\ s.level \in Nat /\ s.level <= MaxDepth
  BY DEF TypeOK, Symbols, DepthBound, BoundsAssumption
<1>2. PICK f \in {s.file : s \in T} : \A g \in {s.file : s \in T} : g <= f
  <2> DEFINE A == {s.file : s \in T}
  <2>1. A \in SUBSET Nat /\ A # {} /\ NFiles \in Nat /\ \A a \in A : a <= NFiles
    BY <1>1 DEF BoundsAssumption
  <2> HIDE DEF A
  <2>2. \E m \in A : \A a \in A : a <= m
    BY <2>1, MaxExists
  <2> QED BY <2>2 DEF A
<1> DEFINE U == {s \in T : s.file = f}
<1>3. PICK v \in {s.level : s \in U} : \A w \in {s.level : s \in U} : w <= v
  <2> DEFINE A == {s.level : s \in U}
  <2>1. A \in SUBSET Nat /\ A # {} /\ MaxDepth \in Nat /\ \A a \in A : a <= MaxDepth
    BY <1>1, <1>2 DEF BoundsAssumption
  <2> HIDE DEF A
  <2>2. \E m \in A : \A a \in A : a <= m
    BY <2>1, MaxExists
  <2> QED BY <2>2 DEF A
<1>4. PICK s \in U : s.level = v
  BY <1>3
<1>5. \A u \in T : u.file <= s.file /\ (u.file = s.file => u.level <= s.level)
  BY <1>2, <1>3, <1>4
<1>6. \A u \in T \ {s} : <<s, u>> \in newer /\ <<u, s>> \notin newer
  <2> SUFFICES ASSUME NEW u \in T, u # s
               PROVE  <<s, u>> \in newer /\ <<u, s>> \notin newer
    OBVIOUS
  <2>1. s \in syms /\ u \in syms /\ SameChain(s, u) /\ SameChain(u, s)
    BY <1>1, <1>4
  <2>2. <<s, u>> \in newer => <<u, s>> \notin newer
    BY <2>1 DEF Ordered
  <2>3. CASE u.file = s.file
    <3>1. u.level # s.level
      BY <2>1, <2>3 DEF KeysUnique, SameKey, SameChain
    <3>2. ~(s.level <= u.level)
      BY <1>1, <1>4, <1>5, <2>3, <3>1
    <3>3. <<u, s>> \in newer => s.level <= u.level
      BY <2>1, <2>3 DEF Ordered
    <3>4. <<s, u>> \in newer \/ <<u, s>> \in newer
      BY <2>1 DEF Ordered
    <3> QED BY <2>2, <3>2, <3>3, <3>4
  <2>4. CASE u.file # s.file
    <3>1. s.file > u.file
      BY <1>1, <1>4, <1>5, <2>4
    <3> QED BY <2>1, <2>2, <3>1 DEF Ordered
  <2> QED BY <2>3, <2>4
<1>7. Newest(T) = {s}
  <2>1. s \in Newest(T)
    BY <1>4, <1>6 DEF Newest
  <2>2. ASSUME NEW u \in Newest(T), u # s PROVE FALSE
    <3>1. u \in T /\ <<u, s>> \in newer
      BY <1>4, <2>2 DEF Newest
    <3> QED BY <1>6, <2>2, <3>1
  <2> QED BY <2>1, <2>2
<1> QED BY <1>4, <1>5, <1>7

-----------------------------------------------------------------------------
\* What a search that finds nothing, or something, says of the tables.
LEMMA FindLevelNone ==
  ASSUME IInv, NEW tbl, NEW n, NEW l, NEW v, FindLevel(tbl, n, l, v) = {}
  PROVE  \A u \in Matches(tbl, n, l) : ~(u.level >= v)
<1> DEFINE T == {s \in Matches(tbl, n, l) : s.level >= v}
<1>1. T \in SUBSET syms /\ \A s, u \in T : SameChain(s, u)
  BY DEF Matches, SameChain
<1>2. Newest(T) = {}
  BY DEF FindLevel
<1> HIDE DEF T
<1>3. T = {}
  BY <1>1, <1>2, NewestExists, BoundsAssumption DEF IInv
<1> QED BY <1>3 DEF T

LEMMA FindNone ==
  ASSUME IInv, NEW tbl, NEW n, NEW l, Find(tbl, n, l) = {}
  PROVE  Matches(tbl, n, l) = {}
<1>1. Matches(tbl, n, l) \in SUBSET syms /\ \A s, u \in Matches(tbl, n, l) : SameChain(s, u)
  BY DEF Matches, SameChain
<1> QED BY <1>1, NewestExists, BoundsAssumption DEF IInv, Find

LEMMA FindLevelFound ==
  ASSUME NEW tbl, NEW n, NEW l, NEW v
  PROVE  \A t \in FindLevel(tbl, n, l, v) : t \in Matches(tbl, n, l) /\ t \in syms /\ t.level >= v
BY DEF FindLevel, Newest, Matches

\* The tables after a declaration in the innermost scope.
LEMMA DeclareStep ==
  ASSUME IInv, phase = "open", NEW k \in {"enum", "tag"}, NEW n \in Names, NEW l \in Lines,
         Inserted({Sym(k, n, l, level)})
  PROVE  /\ TablesInv' /\ syms \subseteq syms' /\ syms' \subseteq syms \cup {Sym(k, n, l, level)}
         /\ Sym(k, n, l, level) \in Symbols
         /\ Sym(k, n, l, level).level = level /\ Sym(k, n, l, level).file = file
<1> DEFINE x == Sym(k, n, l, level)
<1>1. level \in Nat /\ file \in 1..NFiles
  BY DEF IInv, TypeOK, level, FileBound, Reading
<1>2. x \in Symbols /\ x.level = level /\ x.file = file
  BY <1>1 DEF Sym, Symbols, Kinds
<1>3. \A u \in Current : u.level <= level
  <2>1. \A u \in Current : u.level \in Nat /\ u.level <= level + 0
    BY DEF IInv, LevelBound, Reading, Current, TypeOK, Symbols
  <2> QED BY <1>1, <2>1
<1>4. TablesInv /\ (\A s \in syms : s.file <= file) /\ file \in Nat
  BY <1>1 DEF IInv, TablesInv, TypeOK, FileBound
<1> DEFINE S == {x}
<1>5. /\ S \in SUBSET Symbols /\ \A s \in S : s.file = file
      /\ \A s \in S, u \in Current : u.level <= s.level
      /\ \A s, u \in S : SameKey(s, u) => s = u
      /\ Inserted(S)
  BY <1>2, <1>3
<1> HIDE DEF S
<1>6. TablesInv' /\ syms \subseteq syms' /\ syms' \subseteq syms \cup S
  BY <1>4, <1>5, InsertStep
<1> QED BY <1>2, <1>6 DEF S

\* A declaration leaves the invariant.
LEMMA DeclareInv ==
  ASSUME IInv, phase = "open", NEW k \in {"enum", "tag"}, NEW n \in Names, NEW l \in Lines,
         Inserted({Sym(k, n, l, level)}), UNCHANGED <<defined, scopes, file, phase>>
  PROVE  IInv'
<1> DEFINE x == Sym(k, n, l, level)
<1>1. /\ TablesInv' /\ syms \subseteq syms' /\ syms' \subseteq syms \cup {x}
      /\ x \in Symbols /\ x.level = level /\ x.file = file
  BY DeclareStep
<1>2. level' = level /\ level \in Nat /\ file \in Nat /\ file > 0 /\ level <= MaxDepth
  BY DEF level, IInv, TypeOK, FileBound, Reading, DepthBound
<1> HIDE DEF x
<1>3. TypeOK'
  BY <1>1 DEF IInv, TypeOK, TablesInv
<1>4. HeaderOutside'
  BY DEF IInv, HeaderOutside
<1>5. FileBound'
  BY <1>1, <1>2 DEF IInv, FileBound, Reading
<1>6. LevelBound'
  <2> SUFFICES ASSUME NEW s \in syms', s.file = file PROVE s.level <= level + 0
    BY <1>2 DEF LevelBound, Current, Reading
  <2>1. CASE s = x
    BY <1>1, <1>2, <2>1
  <2>2. CASE s \in syms
    BY <2>2 DEF IInv, LevelBound, Current, Reading
  <2> QED BY <1>1, <2>1, <2>2
<1>7. DepthBound'
  BY <1>1, <1>2 DEF IInv, DepthBound
<1>8. OpenTagsKept'
  BY <1>1, <1>2 DEF IInv, OpenTagsKept, Reading
<1> QED BY <1>1, <1>3, <1>4, <1>5, <1>6, <1>7, <1>8 DEF IInv, TablesInv

\* What leaves the file leaves the invariant: it speaks of the tables alone.
LEMMA LeftInv ==
  ASSUME IInv, TablesInv', syms' \subseteq syms, defined' \in SUBSET syms',
         phase' \in {"closed", "crashed"}, scopes' = <<>>, UNCHANGED file
  PROVE  IInv'
<1>1. TypeOK'
  BY DEF IInv, TypeOK, TablesInv
<1>2. ~Reading' /\ level' = 0 /\ level \in Nat /\ MaxDepth \in Nat
  BY BoundsAssumption DEF Reading, level, IInv, TypeOK
<1>3. HeaderOutside' /\ LevelBound' /\ OpenTagsKept'
  BY <1>2 DEF HeaderOutside, LevelBound, OpenTagsKept
<1>4. FileBound' /\ DepthBound'
  BY <1>2 DEF IInv, FileBound, DepthBound
<1> QED BY <1>1, <1>3, <1>4 DEF IInv, TablesInv

\* UNCHANGED tables keeps what is said of the tables.
LEMMA SameTables ==
  ASSUME IInv, UNCHANGED tables
  PROVE  TablesInv' /\ syms' = syms /\ defined' = defined /\ newer' = newer
<1>1. syms' = syms /\ defined' = defined /\ newer' = newer
  BY DEF tables
<1>2. TablesInv' <=> TablesInv
  BY <1>1 DEF TablesInv, KeysUnique, Ordered, SameKey, SameChain
<1> QED BY <1>1, <1>2 DEF IInv, TablesInv, TypeOK

LEMMA LeftStep == ASSUME IInv, Left("closed") PROVE IInv'
<1>1. TablesInv' /\ syms' = syms /\ defined' = defined
  BY SameTables DEF Left
<1> QED BY <1>1, LeftInv DEF Left, IInv, TypeOK

LEMMA OpenFileInv == ASSUME IInv, OpenFile PROVE IInv'
<1>1. TablesInv' /\ syms' = syms /\ defined' = defined /\ newer' = newer
  BY SameTables DEF OpenFile
<1>2. scopes' = <<>> /\ phase' = "open" /\ file' = file + 1 /\ file \in Nat
  BY DEF OpenFile, IInv, TypeOK
<1>3. TypeOK'
  BY <1>1, <1>2, BoundsAssumption DEF OpenFile, IInv, TypeOK
<1>4. \A s \in syms' : s.file <= file /\ s.file \in Nat /\ s.file # file'
  BY <1>1, <1>2 DEF IInv, FileBound, TypeOK, Symbols
<1>5. HeaderOutside' /\ FileBound' /\ LevelBound'
  BY <1>1, <1>2, <1>4 DEF HeaderOutside, FileBound, LevelBound, Current
<1>6. level' = 0 /\ MaxDepth \in Nat
  BY <1>2, BoundsAssumption DEF level
<1>7. DepthBound' /\ OpenTagsKept'
  BY <1>1, <1>6 DEF IInv, DepthBound, OpenTagsKept
<1> QED BY <1>1, <1>3, <1>5, <1>7 DEF IInv, TablesInv

LEMMA EnumeratorInv ==
  ASSUME IInv, NEW n \in Names, NEW l \in Lines, Enumerator(n, l) PROVE IInv'
<1>1. CASE Left("closed")
  BY <1>1, LeftStep
<1>2. CASE Inserted({Sym("enum", n, l, level)}) /\ UNCHANGED <<defined, scopes, file, phase>>
  BY <1>2, DeclareInv DEF Enumerator
<1> QED BY <1>1, <1>2 DEF Enumerator

LEMMA TagReferenceInv ==
  ASSUME IInv, NEW n \in Names, NEW l \in Lines, TagReference(n, l) PROVE IInv'
BY DeclareInv DEF TagReference

LEMMA EnumTagInv ==
  ASSUME IInv, NEW n \in Names, NEW l \in Lines, EnumTag(n, l) PROVE IInv'
<1>1. CASE Left("closed")
  BY <1>1, LeftStep
<1>2. CASE Inserted({Sym("tag", n, l, level)}) /\ UNCHANGED <<defined, scopes, file, phase>>
  BY <1>2, DeclareInv DEF EnumTag
<1> QED BY <1>1, <1>2 DEF EnumTag

\* The enum that is complete is as deep as the innermost scope: it is none of
\* the tags whose bodies are open around it.
LEMMA EnumDefinedInv ==
  ASSUME IInv, NEW n \in Names, NEW l \in Lines, EnumDefined(n, l) PROVE IInv'
<1>1. PICK t \in FindLevel("tag", n, l, level) : defined' = defined \cup {t}
  BY DEF EnumDefined
<1>2. t \in syms /\ t.level >= level
  BY FindLevelFound
<1>3. UNCHANGED <<syms, newer, scopes, file, phase>> /\ level' = level
  BY DEF EnumDefined, level
<1>4. TypeOK'
  BY <1>1, <1>2, <1>3 DEF IInv, TypeOK
<1>5. HeaderOutside' /\ FileBound' /\ LevelBound' /\ DepthBound'
  BY <1>3 DEF IInv, HeaderOutside, FileBound, LevelBound, DepthBound, Reading, Current
<1>6. KeysUnique' /\ Ordered'
  BY <1>3 DEF IInv, KeysUnique, Ordered, SameKey, SameChain
<1>7. OpenTagsKept'
  <2> SUFFICES ASSUME Reading, NEW i \in 1..level, scopes[i].kind = "tag", scopes[i].file = file
               PROVE  scopes[i] \in syms /\ scopes[i].level = i - 1 /\ scopes[i] \notin defined'
    BY <1>3 DEF OpenTagsKept, Reading
  <2>1. scopes[i] \in syms /\ scopes[i].level = i - 1 /\ scopes[i] \notin defined
    BY DEF IInv, OpenTagsKept
  <2>2. level \in Nat /\ ~(i - 1 >= level)
    BY DEF level, IInv, TypeOK
  <2>3. scopes[i] # t
    BY <1>2, <2>1, <2>2
  <2> QED BY <1>1, <2>1, <2>3
<1> QED BY <1>4, <1>5, <1>6, <1>7 DEF IInv

\* A scope is opened, with the tables as they are or with its tag declared.
LEMMA PushInv ==
  ASSUME IInv, phase = "open", level < MaxDepth,
         NEW x \in Plain \cup Symbols, Pushed(x),
         TablesInv', syms \subseteq syms', syms' \subseteq syms \cup {x}, x.kind = "tag" => x \in syms',
         x \in syms' \ syms => x.level = level /\ x.file = file,
         x.kind = "tag" /\ x.file = file => x.level = level,
         x \notin defined, UNCHANGED <<defined, file, phase>>
  PROVE  IInv'
<1>1. /\ scopes' = Append(scopes, x) /\ scopes \in Seq(Plain \cup Symbols) /\ level = Len(scopes)
      /\ defined \in SUBSET syms /\ file \in Nat /\ file > 0 /\ level <= MaxDepth
  BY DEF Pushed, level, IInv, TypeOK, FileBound, Reading, DepthBound
<1>2. /\ scopes' \in Seq(Plain \cup Symbols) /\ level' = level + 1 /\ level \in Nat
      /\ \A i \in 1..level : scopes'[i] = scopes[i]
      /\ scopes'[level + 1] = x
  BY <1>1 DEF level
<1>3. TypeOK'
  BY <1>1, <1>2 DEF IInv, TypeOK, TablesInv
<1>4. HeaderOutside'
  BY DEF HeaderOutside
<1>5. \A s \in syms' : s \in syms \/ (s.level = level /\ s.file = file)
  OBVIOUS
<1>6. FileBound'
  BY <1>1, <1>5 DEF IInv, FileBound, Reading
<1>7. LevelBound'
  <2> SUFFICES ASSUME NEW s \in syms', s.file = file PROVE s.level <= level + 1 + 0
    BY <1>2 DEF LevelBound, Current, Reading
  <2>1. CASE s \in syms
    <3>1. s.level <= level + 0 /\ s.level \in Nat
      BY <2>1 DEF IInv, LevelBound, Current, Reading, TypeOK, Symbols
    <3> QED BY <1>2, <3>1
  <2>2. CASE s.level = level
    BY <1>2, <2>2
  <2> QED BY <1>5, <2>1, <2>2
<1>8. DepthBound'
  BY <1>1, <1>2, <1>5, BoundsAssumption DEF IInv, DepthBound
<1>9. OpenTagsKept'
  <2> SUFFICES ASSUME NEW i \in 1..(level + 1), scopes'[i].kind = "tag", scopes'[i].file = file
               PROVE  scopes'[i] \in syms' /\ scopes'[i].level = i - 1 /\ scopes'[i] \notin defined
    BY <1>2 DEF OpenTagsKept, Reading
  <2>1. CASE i \in 1..level
    BY <1>2, <2>1 DEF IInv, OpenTagsKept, Reading
  <2>2. CASE i = level + 1
    <3>1. scopes'[i] = x
      BY <1>2, <2>2
    <3>2. i - 1 = level
      BY <1>2, <2>2
    <3> QED BY <3>1, <3>2
  <2> QED BY <1>2, <2>1, <2>2
<1> QED BY <1>3, <1>4, <1>6, <1>7, <1>8, <1>9 DEF IInv, TablesInv

LEMMA OpenTagInv ==
  ASSUME IInv, NEW n \in Names, NEW l \in Lines, OpenTag(n, l) PROVE IInv'
<1> DEFINE found == FindLevel("tag", n, l, level)
           x == Sym("tag", n, l, level)
<1>1. CASE Left("closed")
  BY <1>1, LeftStep
<1>2. ASSUME NEW t \in found \ defined, Pushed(t), UNCHANGED <<tables, file, phase>>
      PROVE  IInv'
  <2>1. t \in syms /\ t \in Symbols /\ t.level >= level /\ Table(t.kind) = "tag" /\ t \notin defined
    BY <1>2, FindLevelFound DEF Matches, IInv, TypeOK
  <2>2. TablesInv' /\ syms' = syms /\ defined' = defined
    BY <1>2, SameTables
  <2>3. t.file = file => t.level = level
    <3>1. phase = "open" /\ level \in Nat /\ t.level \in Nat
      BY <2>1 DEF OpenTag, level, IInv, TypeOK, Symbols
    <3>2. t.file = file => t.level <= level + 0
      BY <2>1, <3>1 DEF IInv, LevelBound, Current, Reading
    <3> QED BY <2>1, <3>1, <3>2
  <2> HIDE DEF found
  <2> QED BY <1>2, <2>1, <2>2, <2>3, PushInv DEF OpenTag
<1>3. CASE found = {} /\ Inserted({x}) /\ Pushed(x) /\ UNCHANGED <<defined, file, phase>>
  <2>1. /\ TablesInv' /\ syms \subseteq syms' /\ syms' \subseteq syms \cup {x}
        /\ x \in Symbols /\ x.level = level /\ x.file = file
    BY <1>3, DeclareStep DEF OpenTag
  <2>2. \A u \in syms : ~SameKey(x, u)
    <3> SUFFICES ASSUME NEW u \in syms, SameKey(x, u) PROVE FALSE
      OBVIOUS
    <3>1. u \in Matches("tag", n, l) /\ u.level = level
      BY DEF SameKey, Matches, Sym, Table
    <3>2. ~(u.level >= level) /\ level \in Nat
      BY <1>3, <3>1, FindLevelNone DEF level, IInv, TypeOK
    <3> QED BY <3>1, <3>2
  <2>3. x \in syms' /\ x \notin syms /\ x.kind = "tag"
    BY <1>3, <2>2 DEF Inserted, SameKey, Sym
  <2>4. x \notin defined
    BY <2>3 DEF IInv, TypeOK
  <2> HIDE DEF x
  <2> QED BY <1>3, <2>1, <2>3, <2>4, PushInv DEF OpenTag
<1> QED BY <1>1, <1>2, <1>3 DEF OpenTag

LEMMA OpenPlainInv == ASSUME IInv, NEW k \in {"inner", "block"}, OpenPlain(k) PROVE IInv'
<1> DEFINE x == [kind |-> k]
<1>1. TablesInv' /\ syms' = syms /\ defined' = defined
  BY SameTables DEF OpenPlain
<1>2. x \in Plain /\ x.kind # "tag" /\ x \notin syms
  BY DEF Plain, IInv, TypeOK, Symbols
<1>3. x \notin defined
  BY <1>2 DEF IInv, TypeOK
<1>4. phase = "open" /\ level < MaxDepth /\ Pushed(x) /\ UNCHANGED <<defined, file, phase>>
  BY <1>1 DEF OpenPlain
<1> HIDE DEF x
<1> QED BY <1>1, <1>2, <1>3, <1>4, PushInv

\* The header of a function: its name at level 0, its formals at level 1.
LEMMA HeaderInv ==
  ASSUME IInv, NEW n \in Names, NEW l \in Lines, NEW F \in SUBSET (Names \X Lines),
         Header(n, l, F)
  PROVE  IInv'
<1> DEFINE f == Sym("function", n, l, 0)
           S == Formals(F) \cup (IF FindLevel("ident", n, l, 0) = {} THEN {f} ELSE {})
<1>1. CASE Left("closed")
  BY <1>1, LeftStep
<1>2. CASE Inserted(S) /\ phase' = "header" /\ UNCHANGED <<defined, scopes, file>>
  <2>0. f.level = 0 /\ 0 # 1
    BY DEF Sym
  <2>1. /\ phase = "open" /\ scopes = <<>> /\ level = 0 /\ level' = 0
        /\ file \in 1..NFiles /\ file \in Nat /\ file > 0 /\ MaxDepth \in Nat /\ MaxDepth > 0
    BY <1>2, BoundsAssumption DEF Header, level, IInv, TypeOK, FileBound, Reading
  <2>2. \A s \in S : /\ s \in Symbols /\ s.file = file /\ s.level \in {0, 1}
                     /\ s.level = 0 => s = f
    BY <2>1 DEF Formals, Sym, HeaderLevel, Symbols, Kinds
  <2>3. \A u \in Current : u.level \in Nat /\ u.level <= 0
    BY <2>1 DEF IInv, LevelBound, Reading, Current, TypeOK, Symbols
  <2>4. \A s \in S, u \in Current : u.level <= s.level
    BY <2>2, <2>3
  <2>5. \A s, u \in S : SameKey(s, u) => s = u
    <3> SUFFICES ASSUME NEW s \in S, NEW u \in S, SameKey(s, u) PROVE s = u
      OBVIOUS
    <3>1. s.name = u.name /\ s.line = u.line /\ s.level = u.level
      BY DEF SameKey
    <3>2. CASE s.level = 0
      BY <2>2, <3>1, <3>2
    <3>3. CASE s.level = 1
      <4>0. s # f /\ u # f
        <5> HIDE DEF f
        <5> QED BY <2>0, <3>1, <3>3
      <4>1. s \in Formals(F) /\ u \in Formals(F)
        BY <4>0
      <4> QED BY <3>1, <4>1 DEF Formals, Sym
    <3> QED BY <2>2, <3>2, <3>3
  <2>6. TablesInv /\ (\A s \in syms : s.file <= file)
    BY DEF IInv, TablesInv, TypeOK, FileBound
  <2> HIDE DEF S
  <2>7. TablesInv' /\ syms \subseteq syms' /\ syms' \subseteq syms \cup S
    BY <1>2, <2>1, <2>2, <2>4, <2>5, <2>6, InsertStep
  <2>8. TypeOK'
    BY <1>2, <2>7 DEF IInv, TypeOK, TablesInv
  <2>9. HeaderOutside' /\ FileBound'
    BY <1>2, <2>1, <2>2, <2>7 DEF HeaderOutside, FileBound, IInv
  <2>10. LevelBound'
    <3> SUFFICES ASSUME NEW s \in syms', s.file = file PROVE s.level <= 1
      BY <1>2, <2>1 DEF LevelBound, Current
    <3> QED BY <2>2, <2>3, <2>7 DEF Current
  <2>11. DepthBound'
    BY <2>1, <2>2, <2>7 DEF IInv, DepthBound
  <2>12. OpenTagsKept'
    BY <2>1 DEF OpenTagsKept
  <2> QED BY <2>7, <2>8, <2>9, <2>10, <2>11, <2>12 DEF IInv, TablesInv
<1> QED BY <1>1, <1>2 DEF Header

LEMMA OpenBodyInv == ASSUME IInv, OpenBody PROVE IInv'
<1> DEFINE x == [kind |-> "body"]
<1>1. TablesInv' /\ syms' = syms /\ defined' = defined
  BY SameTables DEF OpenBody
<1>2. phase = "header" /\ scopes = <<>> /\ scopes' = <<x>> /\ file' = file /\ phase' = "open"
  BY DEF OpenBody, Pushed, IInv, HeaderOutside
<1>3. x \in Plain
  BY DEF Plain
<1>4. level = 0 /\ level' = 1 /\ scopes'[1].kind = "body"
  BY <1>2 DEF level
<1>5. TypeOK'
  <2>1. <<x>> \in Seq(Plain \cup Symbols)
    BY <1>3
  <2> QED BY <1>1, <1>2, <2>1 DEF IInv, TypeOK, TablesInv
<1>6. HeaderOutside' /\ FileBound' /\ LevelBound'
  BY <1>1, <1>2, <1>4 DEF IInv, HeaderOutside, FileBound, LevelBound, Reading, Current
<1>7. OpenTagsKept'
  <2>1. \A i \in 1..1 : i = 1
    OBVIOUS
  <2> QED BY <1>4, <2>1 DEF OpenTagsKept
<1>8. DepthBound'
  BY <1>1, <1>2, <1>4, BoundsAssumption DEF IInv, DepthBound, HeaderOutside
<1> QED BY <1>1, <1>5, <1>6, <1>7, <1>8 DEF IInv, TablesInv

\* A scope is closed: what is deeper than the scopes around it goes.
LEMMA PopInv ==
  ASSUME IInv, InScope, Popped,
         NEW D, D \subseteq {scopes[level]}, scopes[level].kind # "tag" => D = {},
         defined' = (defined \cup D) \cap Kept,
         UNCHANGED <<file, phase>>
  PROVE  IInv'
<1>1. TablesInv' /\ syms' = Kept /\ syms' \subseteq syms
  BY PurgeStep DEF Popped, IInv, TablesInv, TypeOK
<1>2. /\ level \in Nat /\ level > 0 /\ phase = "open" /\ level <= MaxDepth
      /\ scopes \in Seq(Plain \cup Symbols) /\ scopes' = SubSeq(scopes, 1, level - 1)
      /\ level = Len(scopes)
  BY DEF level, InScope, Popped, IInv, TypeOK, DepthBound
<1>3. /\ level' = level - 1 /\ scopes' \in Seq(Plain \cup Symbols)
      /\ \A i \in 1..(level - 1) : scopes'[i] = scopes[i]
  <2>1. scopes' \in Seq(Plain \cup Symbols) /\ Len(scopes') = level - 1
    BY <1>2
  <2>2. \A i \in 1..(level - 1) : scopes'[i] = scopes[i]
    BY <1>2
  <2> QED BY <2>1, <2>2 DEF level
<1>4. TypeOK'
  BY <1>1, <1>3 DEF IInv, TypeOK, TablesInv
<1>5. HeaderOutside'
  BY <1>2 DEF HeaderOutside
<1>6. FileBound'
  BY <1>1 DEF IInv, FileBound, Reading
<1>7. LevelBound'
  <2> SUFFICES ASSUME NEW s \in Kept PROVE s.level <= level - 1 + 0
    BY <1>1, <1>2, <1>3 DEF LevelBound, Current
  <2>1. s.level \in Nat /\ s.level < level
    BY DEF Kept, IInv, TypeOK, Symbols
  <2> QED BY <1>2, <2>1
<1>8. DepthBound'
  BY <1>1, <1>2, <1>3, BoundsAssumption DEF IInv, DepthBound
<1>9. OpenTagsKept'
  <2> SUFFICES ASSUME NEW i \in 1..(level - 1), scopes[i].kind = "tag", scopes[i].file = file
               PROVE  scopes[i] \in Kept /\ scopes[i].level = i - 1 /\ scopes[i] \notin defined'
    BY <1>1, <1>2, <1>3 DEF OpenTagsKept, Reading
  <2>1. i \in 1..level /\ i - 1 < level /\ i # level
    BY <1>2
  <2>2. scopes[i] \in syms /\ scopes[i].level = i - 1 /\ scopes[i] \notin defined
    BY <1>2, <2>1 DEF IInv, OpenTagsKept, Reading
  <2>3. scopes[i] \notin D
    <3> SUFFICES ASSUME scopes[i] = scopes[level] PROVE FALSE
      OBVIOUS
    <3>1. scopes[level].level = level - 1
      BY <1>2 DEF IInv, OpenTagsKept, Reading
    <3> QED BY <1>2, <2>1, <2>2, <3>1
  <2> QED BY <2>1, <2>2, <2>3 DEF Kept
<1> QED BY <1>1, <1>4, <1>5, <1>6, <1>7, <1>8, <1>9 DEF IInv, TablesInv

LEMMA CloseTagInv == ASSUME IInv, CloseTag PROVE IInv'
BY PopInv DEF CloseTag

LEMMA ClosePlainInv == ASSUME IInv, ClosePlain PROVE IInv'
<1> DEFINE D == {}
<1>1. /\ defined' = (defined \cup D) \cap Kept /\ InScope /\ Popped /\ UNCHANGED <<file, phase>>
      /\ D \subseteq {scopes[level]} /\ D = {}
  BY DEF ClosePlain
<1> HIDE DEF D
<1> QED BY <1>1, PopInv

LEMMA CloseFailedInv == ASSUME IInv, CloseFailed PROVE IInv'
<1>1. TablesInv' /\ syms' = Kept /\ syms' \subseteq syms
  BY PurgeStep DEF CloseFailed, IInv, TablesInv, TypeOK
<1> QED BY <1>1, LeftInv DEF CloseFailed

\* The body of a function is the outermost scope.
BodyOutermost == \A i \in 1..level : scopes[i].kind = "body" => i = 1

LEMMA CloseBodyInv == ASSUME IInv, BodyOutermost, CloseBody PROVE IInv'
<1>1. TablesInv' /\ syms' = Kept /\ syms' \subseteq syms
  BY PurgeStep DEF CloseBody, Popped, IInv, TablesInv, TypeOK
<1>2. level = Len(scopes) /\ level > 0 /\ level \in Nat /\ scopes \in Seq(Plain \cup Symbols)
  BY DEF level, CloseBody, InScope, IInv, TypeOK
<1>3. level = 1
  BY <1>2 DEF BodyOutermost, CloseBody
<1>4. scopes' = <<>>
  BY <1>2, <1>3 DEF CloseBody, Popped
<1> QED BY <1>1, <1>4, LeftInv DEF CloseBody

Inv == IInv /\ BodyOutermost

LEMMA BodyStep == ASSUME Inv, [Next]_vars PROVE BodyOutermost'
<1> USE DEF Inv
<1>1. level = Len(scopes) /\ level \in Nat /\ scopes \in Seq(Plain \cup Symbols)
  BY DEF level, IInv, TypeOK
<1>2. ASSUME scopes' = <<>> PROVE BodyOutermost'
  BY <1>2 DEF BodyOutermost, level
<1>3. ASSUME UNCHANGED scopes PROVE BodyOutermost'
  BY <1>3 DEF BodyOutermost, level
<1>4. ASSUME NEW x \in Plain \cup Symbols, Pushed(x), x.kind = "body" => level = 0
      PROVE  BodyOutermost'
  <2>1. scopes' = Append(scopes, x)
    BY <1>4 DEF Pushed
  <2>2. /\ level' = level + 1
        /\ \A i \in 1..level : scopes'[i] = scopes[i]
        /\ scopes'[level + 1] = x
    BY <1>1, <2>1 DEF level
  <2> SUFFICES ASSUME NEW i \in 1..(level + 1), scopes'[i].kind = "body" PROVE i = 1
    BY <2>2 DEF BodyOutermost
  <2>3. CASE i \in 1..level
    BY <2>2, <2>3 DEF BodyOutermost
  <2>4. CASE i = level + 1
    BY <1>1, <1>4, <2>2, <2>4
  <2> QED BY <1>1, <2>3, <2>4
<1>5. ASSUME Popped, level > 0 PROVE BodyOutermost'
  <2>1. scopes' = SubSeq(scopes, 1, level - 1)
    BY <1>5 DEF Popped
  <2>2. Len(scopes') = level - 1 /\ \A i \in 1..(level - 1) : scopes'[i] = scopes[i]
    BY <1>1, <1>5, <2>1
  <2>3. level' = level - 1 /\ 1..(level - 1) \subseteq 1..level
    BY <1>1, <2>2 DEF level
  <2> QED BY <2>2, <2>3 DEF BodyOutermost
<1>6. CASE OpenFile
  BY <1>2, <1>6 DEF OpenFile
<1>7. CASE EndOfFile \/ Abort
  BY <1>2, <1>7 DEF EndOfFile, Abort, Left
<1>8. ASSUME NEW n \in Names, NEW l \in Lines, Enumerator(n, l) PROVE BodyOutermost'
  BY <1>2, <1>3, <1>8 DEF Enumerator, Left
<1>9. ASSUME NEW n \in Names, NEW l \in Lines,
             TagReference(n, l) \/ EnumTag(n, l) \/ EnumDefined(n, l)
      PROVE  BodyOutermost'
  BY <1>2, <1>3, <1>9 DEF TagReference, EnumTag, EnumDefined, Left
<1>10. ASSUME NEW n \in Names, NEW l \in Lines, OpenTag(n, l) PROVE BodyOutermost'
  <2> DEFINE x == Sym("tag", n, l, level)
  <2>1. CASE Left("closed")
    BY <1>2, <2>1 DEF Left
  <2>2. ASSUME NEW t \in FindLevel("tag", n, l, level), Pushed(t) PROVE BodyOutermost'
    <3>1. t \in Symbols
      BY <2>2, FindLevelFound DEF IInv, TypeOK
    <3>2. t.kind # "body"
      BY <3>1 DEF Symbols, Kinds
    <3> QED BY <1>4, <2>2, <3>1, <3>2
  <2>3. CASE Inserted({x}) /\ Pushed(x)
    <3>1. x \in Symbols /\ x.kind # "body"
      BY <1>10, <2>3, DeclareStep DEF OpenTag, Sym
    <3> HIDE DEF x
    <3> QED BY <1>4, <2>3, <3>1
  <2> QED BY <1>10, <2>1, <2>2, <2>3 DEF OpenTag
<1>11. ASSUME NEW n \in Names, NEW l \in Lines, NEW F \in SUBSET (Names \X Lines), Header(n, l, F)
       PROVE  BodyOutermost'
  BY <1>2, <1>3, <1>11 DEF Header, Left
<1>12. CASE CloseTag
  BY <1>5, <1>12 DEF CloseTag, InScope
<1>13. CASE CloseFailed
  BY <1>2, <1>13 DEF CloseFailed
<1>14. ASSUME NEW k \in {"inner", "block"}, OpenPlain(k) PROVE BodyOutermost'
  <2> DEFINE x == [kind |-> k]
  <2>1. x \in Plain /\ x.kind # "body" /\ Pushed(x)
    BY <1>14 DEF Plain, OpenPlain
  <2> HIDE DEF x
  <2> QED BY <1>4, <2>1
<1>15. CASE ClosePlain
  BY <1>5, <1>15 DEF ClosePlain, InScope
<1>16. CASE OpenBody
  <2> DEFINE x == [kind |-> "body"]
  <2>1. x \in Plain /\ Pushed(x) /\ level = 0
    BY <1>16 DEF Plain, OpenBody, IInv, HeaderOutside, level
  <2> HIDE DEF x
  <2> QED BY <1>4, <2>1
<1>17. CASE CloseBody
  BY <1>5, <1>17 DEF CloseBody, InScope
<1>18. CASE UNCHANGED vars
  BY <1>3, <1>18 DEF vars
<1> QED BY <1>6, <1>7, <1>8, <1>9, <1>10, <1>11, <1>12, <1>13, <1>14, <1>15, <1>16, <1>17, <1>18
        DEF Next

LEMMA InitInv == Init => Inv
<1> SUFFICES ASSUME Init PROVE Inv
  OBVIOUS
<1>1. level = 0 /\ ~Reading /\ MaxDepth \in Nat /\ <<>> \in Seq(Plain \cup Symbols)
  BY BoundsAssumption DEF Init, level, Reading
<1>2. TypeOK /\ HeaderOutside /\ FileBound /\ LevelBound /\ DepthBound
  BY <1>1, BoundsAssumption
     DEF Init, TypeOK, HeaderOutside, FileBound, LevelBound, DepthBound, Reading
<1>3. KeysUnique /\ Ordered /\ OpenTagsKept /\ BodyOutermost
  BY <1>1 DEF Init, KeysUnique, Ordered, OpenTagsKept, BodyOutermost
<1> QED BY <1>2, <1>3 DEF Inv, IInv

LEMMA StepInv == Inv /\ [Next]_vars => Inv'
<1> SUFFICES ASSUME Inv, [Next]_vars PROVE Inv'
  OBVIOUS
<1>0. BodyOutermost' /\ IInv /\ BodyOutermost
  BY BodyStep DEF Inv
<1>1. CASE OpenFile \/ OpenBody \/ CloseTag \/ CloseFailed \/ ClosePlain \/ CloseBody
  BY <1>0, <1>1, OpenFileInv, OpenBodyInv, CloseTagInv, CloseFailedInv, ClosePlainInv,
     CloseBodyInv DEF Inv
<1>2. CASE EndOfFile \/ Abort
  BY <1>0, <1>2, LeftStep DEF EndOfFile, Abort, Inv
<1>3. ASSUME NEW n \in Names, NEW l \in Lines,
             \/ Enumerator(n, l) \/ TagReference(n, l) \/ OpenTag(n, l)
             \/ EnumTag(n, l) \/ EnumDefined(n, l)
      PROVE  Inv'
  BY <1>0, <1>3, EnumeratorInv, TagReferenceInv, OpenTagInv, EnumTagInv, EnumDefinedInv DEF Inv
<1>4. ASSUME NEW n \in Names, NEW l \in Lines, NEW F \in SUBSET (Names \X Lines), Header(n, l, F)
      PROVE  Inv'
  BY <1>0, <1>4, HeaderInv DEF Inv
<1>5. ASSUME NEW k \in {"inner", "block"}, OpenPlain(k) PROVE Inv'
  BY <1>0, <1>5, OpenPlainInv DEF Inv
<1>6. CASE UNCHANGED vars
  <2>1. UNCHANGED <<tables, syms, newer, defined, scopes, file, phase>>
    BY <1>6 DEF vars, tables
  <2>2. TablesInv'
    BY <1>0, <2>1, SameTables
  <2>3. TypeOK' /\ HeaderOutside' /\ FileBound' /\ LevelBound' /\ DepthBound'
    BY <1>0, <2>1 DEF IInv, TypeOK, HeaderOutside, FileBound, LevelBound, DepthBound,
                      Reading, Current, level
  <2>4. OpenTagsKept'
    BY <1>0, <2>1 DEF IInv, OpenTagsKept, Reading, level
  <2> QED BY <1>0, <2>2, <2>3, <2>4 DEF Inv, IInv, TablesInv
<1> QED BY <1>1, <1>2, <1>3, <1>4, <1>5, <1>6 DEF Next

\* The inductive invariant: types, the keys of a line distinct, its entries
\* ordered by file and level, the levels of the file bounded by the scopes.
THEOREM ScopeInvariant == Spec => []Inv
<1>1. Init => Inv
  BY InitInv
<1>2. Inv /\ [Next]_vars => Inv'
  BY StepInv
<1> QED BY <1>1, <1>2, PTL DEF Spec

\* A search finds the innermost declaration of the file on its line, and a
\* tag whose body is read stays in its table.
LEMMA InvSafe == Inv => TypeOK /\ FindsInnermost /\ OpenTagsKept
<1> SUFFICES ASSUME Inv PROVE FindsInnermost
  BY DEF Inv, IInv
<1> SUFFICES ASSUME Reading, NEW tbl \in {"ident", "tag"}, NEW n \in Names, NEW l \in Lines,
                    Matches(tbl, n, l) \cap Current # {}
             PROVE  \E s \in Matches(tbl, n, l) \cap Current :
                      /\ Find(tbl, n, l) = {s}
                      /\ \A u \in Matches(tbl, n, l) \cap Current : u.level <= s.level
  BY DEF FindsInnermost
<1> DEFINE T == Matches(tbl, n, l)
<1>1. T \in SUBSET syms /\ T # {} /\ \A s, u \in T : SameChain(s, u)
  BY DEF Matches, SameChain
<1> HIDE DEF T
<1>2. PICK s \in T : /\ Newest(T) = {s}
                     /\ \A u \in T : u.file <= s.file /\ (u.file = s.file => u.level <= s.level)
  BY <1>1, NewestExists, BoundsAssumption DEF Inv, IInv
<1>3. PICK u \in T : u \in syms /\ u.file = file
  BY DEF Current, T
<1>4. s \in syms /\ s.file \in Nat /\ file \in Nat /\ s.file <= file /\ file <= s.file
  BY <1>1, <1>2, <1>3 DEF Inv, IInv, TypeOK, Symbols, FileBound
<1>5. s.file = file
  BY <1>4
<1>6. \A w \in T \cap Current : w.level <= s.level
  BY <1>2, <1>5 DEF Current
<1> QED BY <1>2, <1>4, <1>5, <1>6 DEF T, Find, Current

\* A search finds the innermost declaration of the file, and the tables are sound.
THEOREM ScopeSafety == Spec => [](FindsInnermost /\ TablesSound)
<1>1. Inv => FindsInnermost /\ TablesSound
  BY InvSafe DEF TablesSound
<1> QED BY <1>1, ScopeInvariant, PTL

\* A tag whose body is read stays in its table.
THEOREM ScopeTables == Spec => []TablesSound
<1>1. Inv => TablesSound
  BY InvSafe DEF TablesSound
<1> QED BY <1>1, ScopeInvariant, PTL

-----------------------------------------------------------------------------
\* Only a purge takes symbols away, and every purge is of a level above 0: a
\* global stays in its table whatever happens to the file that declared it.
THEOREM ScopeGlobals == Spec => GlobalsPersist
<1> DEFINE Kept0 == \A s \in syms : s.level = 0 => s \in syms'
<1>1. ASSUME Inv, [Next]_vars PROVE Kept0
  <2>0. IInv
    BY <1>1 DEF Inv
  <2>1. ASSUME syms \subseteq syms' PROVE Kept0
    BY <2>1
  <2>2. ASSUME Purged, InScope PROVE Kept0
    <3>1. level \in Nat /\ level > 0 /\ syms' = Kept
      BY <2>0, <2>2 DEF InScope, Purged, level, IInv, TypeOK
    <3> QED BY <3>1 DEF Kept
  <2>3. CASE OpenFile \/ EndOfFile \/ Abort \/ OpenBody \/ UNCHANGED vars
    BY <2>1, <2>3 DEF OpenFile, EndOfFile, Abort, OpenBody, Left, tables, vars
  <2>4. ASSUME NEW n \in Names, NEW l \in Lines,
               \/ Enumerator(n, l) \/ TagReference(n, l)
               \/ EnumTag(n, l) \/ EnumDefined(n, l)
        PROVE  Kept0
    BY <2>1, <2>4 DEF Enumerator, TagReference, EnumTag, EnumDefined, Inserted, Left, tables
  <2>5. ASSUME NEW n \in Names, NEW l \in Lines, OpenTag(n, l) PROVE Kept0
    BY <2>1, <2>5 DEF OpenTag, Inserted, Left, tables
  <2>6. ASSUME NEW n \in Names, NEW l \in Lines, NEW F \in SUBSET (Names \X Lines), Header(n, l, F)
        PROVE  Kept0
    BY <2>1, <2>6 DEF Header, Inserted, Left, tables
  <2>7. ASSUME NEW k \in {"inner", "block"}, OpenPlain(k) PROVE Kept0
    BY <2>1, <2>7 DEF OpenPlain, tables
  <2>8. CASE CloseTag \/ CloseFailed \/ ClosePlain \/ CloseBody
    BY <2>2, <2>8 DEF CloseTag, CloseFailed, ClosePlain, CloseBody, Popped
  <2> HIDE DEF Kept0
  <2> QED BY <1>1, <2>3, <2>4, <2>5, <2>6, <2>7, <2>8 DEF Next
<1> QED BY <1>1, ScopeInvariant, PTL DEF Spec, GlobalsPersist

-----------------------------------------------------------------------------
(* The tables of the file being read implement a stack of scopes.          *)

IsSeqOf(f, n) == n \in Nat /\ f \in Seq(SUBSET ({"ident", "tag"} \X Names \X Lines)) /\ Len(f) = n

\* The sequences the abstract actions build, element by element.
LEMMA ExtendedSeq ==
  ASSUME NEW f, NEW g, NEW n, NEW K, n > 0, IsSeqOf(f, n), IsSeqOf(g, n),
         \A i \in 1..n : g[i] = IF i = n THEN f[i] \cup K ELSE f[i]
  PROVE  g = [f EXCEPT ![Len(f)] = @ \cup K]
<1>1. DOMAIN f = 1..n /\ DOMAIN g = 1..n /\ n \in 1..n
  BY DEF IsSeqOf
<1>2. g = [i \in 1..n |-> g[i]]
  BY <1>1 DEF IsSeqOf
<1>3. [f EXCEPT ![n] = @ \cup K] = [i \in 1..n |-> IF i = n THEN f[i] \cup K ELSE f[i]]
  BY <1>1
<1> QED BY <1>2, <1>3 DEF IsSeqOf

OpensSeq(f, g, n, m, K, F) ==
  /\ n > 0 /\ m = n + 1 /\ IsSeqOf(f, n) /\ IsSeqOf(g, m) /\ g[m] = F
  /\ \A i \in 1..n : g[i] = IF i = n THEN f[i] \cup K ELSE f[i]

LEMMA OpenedSeq ==
  ASSUME NEW f, NEW g, NEW n, NEW m, NEW K, NEW F, OpensSeq(f, g, n, m, K, F)
  PROVE  g = Append([f EXCEPT ![Len(f)] = @ \cup K], F)
<1> USE DEF OpensSeq
<1> DEFINE h == [f EXCEPT ![n] = @ \cup K]
           a == Append(h, F)
           R == SUBSET ({"ident", "tag"} \X Names \X Lines)
<1>1. DOMAIN f = 1..n /\ n \in 1..n /\ n \in Nat /\ f[n] \in R
  BY DEF IsSeqOf
<1>2. h \in Seq(R) /\ Len(h) = n
  <2>1. n \in 1..m /\ DOMAIN g = 1..m /\ g \in Seq(R)
    BY <1>1 DEF IsSeqOf
  <2>2. f[n] \cup K = g[n]
    BY <1>1
  <2>3. g[n] \in R
    <3> HIDE DEF R
    <3> QED BY <2>1
  <2> QED BY <1>1, <2>2, <2>3 DEF IsSeqOf
<1>3. \A i \in 1..n : h[i] = g[i]
  BY <1>1
<1>4. F \in R
  BY DEF IsSeqOf
<1> HIDE DEF h, R
<1>5. /\ a \in Seq(R) /\ Len(a) = m /\ a[m] = F
      /\ \A i \in 1..n : a[i] = h[i]
  BY <1>1, <1>2, <1>4
<1>6. g \in Seq(R) /\ Len(g) = m
  BY DEF IsSeqOf, R
<1> HIDE DEF a
<1>7. \A i \in 1..m : a[i] = g[i]
  <2>1. \A i \in 1..m : i \in 1..n \/ i = m
    BY <1>1
  <2> QED BY <1>3, <1>5, <2>1
<1>8. a = g
  BY <1>5, <1>6, <1>7
<1> QED BY <1>8 DEF a, h, IsSeqOf

LEMMA ClosedSeq ==
  ASSUME NEW f, NEW g, NEW n, n > 1, IsSeqOf(f, n), IsSeqOf(g, n - 1),
         \A i \in 1..(n - 1) : g[i] = f[i]
  PROVE  g = SubSeq(f, 1, Len(f) - 1)
<1> DEFINE R == SUBSET ({"ident", "tag"} \X Names \X Lines)
           a == SubSeq(f, 1, n - 1)
<1>1. f \in Seq(R) /\ Len(f) = n /\ n \in Nat /\ n > 1 /\ g \in Seq(R) /\ Len(g) = n - 1
  BY DEF IsSeqOf
<1> HIDE DEF R
<1>2. a \in Seq(R) /\ Len(a) = n - 1 /\ \A i \in 1..(n - 1) : a[i] = f[i]
  BY <1>1
<1> HIDE DEF a
<1>3. a = g
  BY <1>1, <1>2
<1> QED BY <1>1, <1>3 DEF a

\* How many scopes the abstract stack has.
Height == level + IF phase = "header" THEN 2 ELSE 1

LEMMA KeysAtType == ASSUME TypeOK PROVE \A v : KeysAt(v) \subseteq {"ident", "tag"} \X Names \X Lines
BY DEF TypeOK, KeysAt, Current, Symbols, Table

LEMMA FramesType ==
  ASSUME TypeOK, Reading
  PROVE  IsSeqOf(Frames, Height) /\ Height > 0 /\ \A i \in 1..Height : Frames[i] = KeysAt(i - 1)
<1>1. Height \in Nat /\ Height > 0
  BY DEF Height, level, TypeOK
<1>2. Frames = [i \in 1..Height |-> KeysAt(i - 1)]
  BY DEF Frames, Height
<1>3. \A i \in 1..Height : KeysAt(i - 1) \in SUBSET ({"ident", "tag"} \X Names \X Lines)
  BY KeysAtType
<1> DEFINE R == SUBSET ({"ident", "tag"} \X Names \X Lines)
<1> HIDE DEF R, Height, Frames, KeysAt
<1>4. Frames \in Seq(R) /\ Len(Frames) = Height
  BY <1>1, <1>2, <1>3 DEF R
<1> QED BY <1>1, <1>2, <1>4 DEF IsSeqOf, R

FramesShape ==
  IsSeqOf(Frames, Height) /\ Height > 0 /\ \A i \in 1..Height : Frames[i] = KeysAt(i - 1)

LEMMA FramesFact == TypeOK /\ Reading => FramesShape
BY FramesType DEF FramesShape

\* The keys of the symbols a step adds to a level.
NewKeys(v) ==
  {<<Table(s.kind), s.name, s.line>> : s \in {u \in syms' \ syms : u.level = v}}

LEMMA GrowKeys ==
  ASSUME IInv, TypeOK', TablesInv', file' = file, phase = "open",
         syms \subseteq syms', \A s \in syms' \ syms : s.file = file /\ s.level \in {level, level + 1}
  PROVE  /\ \A v : KeysAt(v)' = KeysAt(v) \cup NewKeys(v)
         /\ \A v : NewKeys(v) \subseteq {"ident", "tag"} \X Names \X Lines
         /\ \A v : v \notin {level, level + 1} => NewKeys(v) = {}
         /\ NewKeys(level) \cap KeysAt(level) = {}
         /\ KeysAt(level + 1) = {}
<1>1. \A v : KeysAt(v)' = KeysAt(v) \cup NewKeys(v)
  BY DEF KeysAt, NewKeys, Current
<1>2. \A v : NewKeys(v) \subseteq {"ident", "tag"} \X Names \X Lines
  BY DEF NewKeys, TypeOK, Symbols, Table
<1>3. \A v : v \notin {level, level + 1} => NewKeys(v) = {}
  BY DEF NewKeys
<1>4. NewKeys(level) \cap KeysAt(level) = {}
  <2> SUFFICES ASSUME NEW s \in syms' \ syms, NEW u \in syms, s.level = level, u.level = level,
                      <<Table(s.kind), s.name, s.line>> = <<Table(u.kind), u.name, u.line>>
               PROVE  FALSE
    BY DEF NewKeys, KeysAt, Current
  <2>1. s \in syms' /\ u \in syms' /\ SameKey(s, u)
    BY DEF SameKey
  <2>2. KeysUnique'
    BY DEF TablesInv
  <2>3. s = u
    BY <2>1, <2>2 DEF KeysUnique, SameKey
  <2> QED BY <2>3
<1>5. KeysAt(level + 1) = {}
  <2>1. \A s \in Current : s.level \in Nat /\ s.level <= level + 0
    BY DEF IInv, LevelBound, Reading, Current, TypeOK, Symbols
  <2>2. level \in Nat
    BY DEF level, IInv, TypeOK
  <2>3. \A s \in Current : s.level # level + 1
    BY <2>1, <2>2
  <2> QED BY <2>3 DEF KeysAt
<1> QED BY <1>1, <1>2, <1>3, <1>4, <1>5

\* A declaration in the innermost scope.
LEMMA DeclareMap ==
  ASSUME IInv, IInv', phase = "open", UNCHANGED <<scopes, file, phase>>,
         syms \subseteq syms', \A s \in syms' \ syms : s.file = file /\ s.level = level
  PROVE  Stack!Declare
<1> DEFINE K == NewKeys(level)
<1>1. /\ level \in Nat /\ Height = level + 1 /\ Height' = level + 1
      /\ Reading /\ Reading' /\ level' = level
  BY DEF level, Height, Reading, IInv, TypeOK
<1>2. FramesShape /\ FramesShape'
  <2>1. TypeOK /\ TypeOK'
    BY DEF IInv
  <2> QED BY <1>1, <2>1, FramesFact, PTL
<1>3. /\ \A v : KeysAt(v)' = KeysAt(v) \cup NewKeys(v)
      /\ \A v : NewKeys(v) \subseteq {"ident", "tag"} \X Names \X Lines
      /\ \A v : v \notin {level, level + 1} => NewKeys(v) = {}
      /\ K \cap KeysAt(level) = {}
  <2>1. TypeOK' /\ TablesInv'
    BY DEF IInv, TablesInv, TypeOK
  <2> QED BY <2>1, GrowKeys
<1> HIDE DEF K
<1>4. /\ IsSeqOf(Frames, level + 1) /\ IsSeqOf(Frames', level + 1)
      /\ \A i \in 1..(level + 1) : Frames[i] = KeysAt(i - 1) /\ Frames'[i] = KeysAt(i - 1)'
  BY <1>1, <1>2 DEF FramesShape
<1>5. \A i \in 1..(level + 1) :
        Frames'[i] = IF i = level + 1 THEN Frames[i] \cup K ELSE Frames[i]
  <2> SUFFICES ASSUME NEW i \in 1..(level + 1)
               PROVE  Frames'[i] = IF i = level + 1 THEN Frames[i] \cup K ELSE Frames[i]
    OBVIOUS
  <2>1. CASE i = level + 1
    <3>1. i - 1 = level
      BY <1>1, <2>1
    <3> QED BY <1>3, <1>4, <2>1, <3>1 DEF K
  <2>2. CASE i # level + 1
    <3>1. i - 1 \notin {level, level + 1}
      BY <1>1, <2>2
    <3> QED BY <1>3, <1>4, <2>2, <3>1
  <2> QED BY <2>1, <2>2
<1> DEFINE f == Frames
           g == Frames'
           n == level + 1
<1>6. n > 0 /\ IsSeqOf(f, n) /\ IsSeqOf(g, n)
      /\ \A i \in 1..n : g[i] = IF i = n THEN f[i] \cup K ELSE f[i]
  <2>1. f = Frames /\ g = Frames' /\ n = level + 1 /\ n > 0
    BY <1>1
  <2> HIDE DEF f, g, n
  <2> QED BY <1>4, <1>5, <2>1
<1>7. n \in 1..n /\ f[n] = KeysAt(level) /\ Len(f) = n
  <2>1. n \in 1..n /\ n - 1 = level
    BY <1>1
  <2> QED BY <1>4, <2>1 DEF IsSeqOf
<1> HIDE DEF f, g, n
<1>8. g = [f EXCEPT ![Len(f)] = @ \cup K]
  BY <1>6, ExtendedSeq
<1>9. f # <<>> /\ K \cap f[Len(f)] = {} /\ K \in SUBSET ({"ident", "tag"} \X Names \X Lines)
  BY <1>3, <1>6, <1>7 DEF K
<1> QED BY <1>8, <1>9 DEF f, g, Stack!Declare, Stack!New, Stack!WithDeclared

\* A scope is opened: one of the scopes, or the formals of a function.
LEMMA OpenMap ==
  ASSUME IInv, IInv', phase = "open", file' = file,
         \/ phase' = "open" /\ level' = level + 1
         \/ phase' = "header" /\ level' = level,
         syms \subseteq syms', \A s \in syms' \ syms : s.file = file /\ s.level \in {level, level + 1},
         level > 0 => \A s \in syms' \ syms : s.level = level,
         level = 0 \/ level > 0
  PROVE  Stack!Open
<1> DEFINE K == NewKeys(level)
           F == NewKeys(level + 1)
<1>1. /\ level \in Nat /\ Height = level + 1 /\ Height' = level + 2
      /\ Reading /\ Reading'
  BY DEF level, Height, Reading, IInv, TypeOK
<1>2. FramesShape /\ FramesShape'
  <2>1. TypeOK /\ TypeOK'
    BY DEF IInv
  <2> QED BY <1>1, <2>1, FramesFact, PTL
<1>3. /\ \A v : KeysAt(v)' = KeysAt(v) \cup NewKeys(v)
      /\ \A v : NewKeys(v) \subseteq {"ident", "tag"} \X Names \X Lines
      /\ \A v : v \notin {level, level + 1} => NewKeys(v) = {}
      /\ K \cap KeysAt(level) = {}
      /\ KeysAt(level + 1) = {}
  <2>1. TypeOK' /\ TablesInv'
    BY DEF IInv, TablesInv, TypeOK
  <2> QED BY <2>1, GrowKeys
<1>4. F # {} => level = 0
  BY <1>1 DEF NewKeys
<1> HIDE DEF K, F
<1>5. /\ IsSeqOf(Frames, level + 1) /\ IsSeqOf(Frames', level + 2)
      /\ \A i \in 1..(level + 1) : Frames[i] = KeysAt(i - 1)
      /\ \A i \in 1..(level + 2) : Frames'[i] = KeysAt(i - 1)'
  BY <1>1, <1>2 DEF FramesShape
<1>6. \A i \in 1..(level + 1) :
        Frames'[i] = IF i = level + 1 THEN Frames[i] \cup K ELSE Frames[i]
  <2> SUFFICES ASSUME NEW i \in 1..(level + 1)
               PROVE  Frames'[i] = IF i = level + 1 THEN Frames[i] \cup K ELSE Frames[i]
    OBVIOUS
  <2>0. i \in 1..(level + 2)
    BY <1>1
  <2>1. CASE i = level + 1
    <3>1. i - 1 = level
      BY <1>1, <2>1
    <3> QED BY <1>3, <1>5, <2>0, <2>1, <3>1 DEF K
  <2>2. CASE i # level + 1
    <3>1. i - 1 \notin {level, level + 1}
      BY <1>1, <2>2
    <3> QED BY <1>3, <1>5, <2>0, <2>2, <3>1
  <2> QED BY <2>1, <2>2
<1>7. Frames'[level + 2] = F
  <2>1. PICK i \in 1..(level + 2) : i = level + 2
    BY <1>1
  <2>2. Frames'[i] = KeysAt(i - 1) \cup NewKeys(i - 1)
    BY <1>3, <1>5, <2>1
  <2>3. i - 1 = level + 1
    BY <1>1, <2>1
  <2> QED BY <1>3, <2>1, <2>2, <2>3 DEF F
<1> DEFINE f == Frames
           g == Frames'
           n == level + 1
           m == level + 2
<1>8. /\ n > 0 /\ m = n + 1 /\ IsSeqOf(f, n) /\ IsSeqOf(g, m) /\ g[m] = F
      /\ \A i \in 1..n : g[i] = IF i = n THEN f[i] \cup K ELSE f[i]
  <2>1. f = Frames /\ g = Frames' /\ n = level + 1 /\ m = level + 2 /\ n > 0 /\ m = n + 1
    BY <1>1
  <2> HIDE DEF f, g, n, m
  <2> QED BY <1>5, <1>6, <1>7, <2>1
<1>9. n \in 1..n /\ f[n] = KeysAt(level) /\ Len(f) = n /\ (F # {} => n = 1)
  <2>1. n \in 1..n /\ n - 1 = level
    BY <1>1
  <2> QED BY <1>1, <1>4, <1>5, <2>1 DEF IsSeqOf
<1>10. /\ K \in SUBSET ({"ident", "tag"} \X Names \X Lines)
       /\ F \in SUBSET ({"ident", "tag"} \X Names \X Lines)
  BY <1>3 DEF K, F
<1> HIDE DEF f, g, n, m
<1>11. g = Append([f EXCEPT ![Len(f)] = @ \cup K], F)
  <2>1. OpensSeq(f, g, n, m, K, F)
    BY <1>8 DEF OpensSeq
  <2> HIDE DEF K, F
  <2> QED BY <2>1, OpenedSeq
<1>12. f # <<>> /\ K \cap f[Len(f)] = {} /\ (F # {} => Len(f) = 1)
  BY <1>3, <1>8, <1>9
<1> QED BY <1>10, <1>11, <1>12 DEF f, g, Stack!Open, Stack!New, Stack!WithDeclared

\* A scope is closed, and its symbols with it.
LEMMA CloseMap ==
  ASSUME IInv, IInv', InScope, Popped, UNCHANGED <<file, phase>>
  PROVE  Stack!Close
<1>1. /\ level \in Nat /\ level > 0 /\ level' = level - 1
      /\ phase = "open" /\ Reading /\ Reading'
  <2>1. level = Len(scopes) /\ scopes \in Seq(Plain \cup Symbols) /\ level > 0 /\ level \in Nat
    BY DEF level, IInv, TypeOK, InScope
  <2>2. scopes' = SubSeq(scopes, 1, level - 1)
    BY DEF Popped
  <2>3. Len(scopes') = level - 1
    BY <2>1, <2>2
  <2>4. level' = level - 1
    BY <2>3 DEF level
  <2>5. phase = "open" /\ phase' = "open"
    BY DEF InScope
  <2> QED BY <2>1, <2>4, <2>5 DEF Reading
<1>2. Height = level + 1 /\ Height' = level
  BY <1>1 DEF Height
<1>3. FramesShape /\ FramesShape'
  <2>1. TypeOK /\ TypeOK'
    BY DEF IInv
  <2> QED BY <1>1, <2>1, FramesFact, PTL
<1>4. \A v \in Nat : v < level => KeysAt(v)' = KeysAt(v)
  BY DEF Popped, Purged, Kept, KeysAt, Current
<1>5. /\ IsSeqOf(Frames, level + 1) /\ IsSeqOf(Frames', level)
      /\ \A i \in 1..(level + 1) : Frames[i] = KeysAt(i - 1)
      /\ \A i \in 1..level : Frames'[i] = KeysAt(i - 1)'
  BY <1>2, <1>3 DEF FramesShape
<1>6. \A i \in 1..level : Frames'[i] = Frames[i]
  <2> SUFFICES ASSUME NEW i \in 1..level PROVE Frames'[i] = Frames[i]
    OBVIOUS
  <2>1. i \in 1..(level + 1) /\ i - 1 \in Nat /\ i - 1 < level
    BY <1>1
  <2> QED BY <1>4, <1>5, <2>1
<1> DEFINE f == Frames
           g == Frames'
           n == level + 1
<1>7. n > 1 /\ IsSeqOf(f, n) /\ IsSeqOf(g, n - 1) /\ \A i \in 1..(n - 1) : g[i] = f[i]
  <2>1. n - 1 = level /\ n > 1
    BY <1>1
  <2> QED BY <1>5, <1>6, <2>1
<1> HIDE DEF f, g, n
<1>8. g = SubSeq(f, 1, Len(f) - 1) /\ Len(f) > 1
  <2>1. g = SubSeq(f, 1, Len(f) - 1)
    BY <1>7, ClosedSeq
  <2> QED BY <1>7, <2>1 DEF IsSeqOf
<1> QED BY <1>8 DEF f, g, Stack!Close

\* The file is left.
LEMMA LeaveMap == ASSUME IInv, Reading, ~Reading' PROVE Stack!Leave
<1>1. FramesShape
  BY FramesFact DEF IInv
<1>2. Frames' = <<>>
  BY DEF Frames
<1>3. IsSeqOf(Frames, Height) /\ Height > 0
  BY <1>1 DEF FramesShape
<1> DEFINE f == Frames
           n == Height
<1>4. IsSeqOf(f, n) /\ n > 0
  BY <1>3
<1> HIDE DEF f, n
<1>5. f # <<>>
  BY <1>4 DEF IsSeqOf
<1> QED BY <1>2, <1>5 DEF f, Stack!Leave

LEMMA BeginMap == ASSUME IInv, IInv', OpenFile PROVE Stack!Begin
<1>1. ~Reading /\ Reading' /\ phase' = "open"
  BY DEF OpenFile, Reading
<1>2. FramesShape'
  <2>1. TypeOK'
    BY DEF IInv
  <2> QED BY <1>1, <2>1, FramesFact, PTL
<1>3. level' = 0 /\ Height' = 1
  BY <1>1 DEF OpenFile, level, Height
<1>4. \A v : KeysAt(v)' = {}
  <2>1. syms' = syms /\ file' = file + 1 /\ file \in Nat
    BY DEF OpenFile, tables, IInv, TypeOK
  <2>2. \A s \in syms' : s.file # file'
    BY <2>1 DEF IInv, FileBound, TypeOK, Symbols
  <2> QED BY <2>2 DEF KeysAt, Current
<1>5. IsSeqOf(Frames', 1) /\ \A i \in 1..1 : Frames'[i] = {}
  BY <1>2, <1>3, <1>4 DEF FramesShape
<1> DEFINE g == Frames'
<1>6. IsSeqOf(g, 1) /\ g[1] = {}
  BY <1>5
<1> HIDE DEF g
<1>7. g = << {} >>
  BY <1>6 DEF IsSeqOf
<1>8. Frames = <<>>
  BY <1>1 DEF Frames
<1> QED BY <1>7, <1>8 DEF g, Stack!Begin

\* The body's block takes over the level of the formals.
LEMMA OpenBodyMap == ASSUME IInv, OpenBody PROVE Frames' = Frames
<1>1. phase = "header" /\ phase' = "open" /\ scopes = <<>> /\ file' = file
      /\ scopes' = <<[kind |-> "body"]>> /\ syms' = syms
  BY DEF OpenBody, Pushed, IInv, HeaderOutside, tables
<1>2. level = 0 /\ level' = 1 /\ Reading /\ Reading'
  BY <1>1 DEF level, Reading
<1>3. \A v : KeysAt(v)' = KeysAt(v)
  BY <1>1 DEF KeysAt, Current
<1>4. level' + 1 = level + 2 /\ level + 2 = 2
  BY <1>2
<1> QED BY <1>1, <1>2, <1>3, <1>4 DEF Frames

LEMMA InsertedNew ==
  ASSUME NEW S, Inserted(S)
  PROVE  syms \subseteq syms' /\ syms' \ syms \subseteq S
BY DEF Inserted

\* What every action does to the stack of scopes.
LEMMA StepMap ==
  ASSUME Inv, Inv', [Next]_vars
  PROVE  Stack!Next \/ Frames' = Frames
<1>0. IInv /\ IInv' /\ level \in Nat /\ level = Len(scopes)
  BY DEF Inv, level, IInv, TypeOK
<1>1. ASSUME Reading, ~Reading' PROVE Stack!Next
  BY <1>0, <1>1, LeaveMap DEF Stack!Next
<1>2. ASSUME Left("closed"), phase \in {"open", "header"} PROVE Stack!Next
  <2>1. Reading /\ ~Reading'
    BY <1>2 DEF Left, Reading
  <2> QED BY <1>1, <2>1
<1>3. CASE OpenFile
  BY <1>0, <1>3, BeginMap DEF Stack!Next
<1>4. CASE EndOfFile \/ Abort
  BY <1>2, <1>4 DEF EndOfFile, Abort
<1>5. ASSUME NEW k \in {"enum", "tag"}, NEW n \in Names, NEW l \in Lines, phase = "open",
             Inserted({Sym(k, n, l, level)})
      PROVE  syms \subseteq syms' /\ \A s \in syms' \ syms : s.file = file /\ s.level = level
  BY <1>5, InsertedNew DEF Sym
<1>6. ASSUME NEW n \in Names, NEW l \in Lines,
             Enumerator(n, l) \/ TagReference(n, l) \/ EnumTag(n, l)
      PROVE  Stack!Next
  <2>1. CASE Left("closed")
    BY <1>2, <1>6, <2>1 DEF Enumerator, TagReference, EnumTag, Left
  <2>2. ASSUME NEW k \in {"enum", "tag"}, Inserted({Sym(k, n, l, level)}),
               UNCHANGED <<scopes, file, phase>>, phase = "open"
        PROVE  Stack!Next
    <3>1. syms \subseteq syms' /\ \A s \in syms' \ syms : s.file = file /\ s.level = level
      BY <1>5, <2>2
    <3> QED BY <1>0, <2>2, <3>1, DeclareMap DEF Stack!Next
  <2> QED BY <1>6, <2>1, <2>2 DEF Enumerator, TagReference, EnumTag
<1>7. ASSUME NEW x, Pushed(x), phase = "open", UNCHANGED <<file, phase>>, syms \subseteq syms',
             \A s \in syms' \ syms : s.file = file /\ s.level = level
      PROVE  Stack!Next
  <2>1. level' = level + 1
    <3>1. scopes' = Append(scopes, x) /\ scopes \in Seq(Plain \cup Symbols)
          /\ scopes' \in Seq(Plain \cup Symbols)
      BY <1>0, <1>7 DEF Pushed, IInv, TypeOK
    <3>2. Len(scopes') = Len(scopes) + 1
      BY <3>1
    <3> QED BY <3>2 DEF level
  <2>2. level = 0 \/ level > 0
    BY <1>0
  <2> QED BY <1>0, <1>7, <2>1, <2>2, OpenMap DEF Stack!Next
<1>8. ASSUME NEW n \in Names, NEW l \in Lines, OpenTag(n, l) PROVE Stack!Next
  <2>1. CASE Left("closed")
    BY <1>2, <1>8, <2>1 DEF OpenTag
  <2>2. ASSUME NEW t, Pushed(t), UNCHANGED <<tables, file, phase>> PROVE Stack!Next
    <3>1. syms' = syms
      BY <2>2 DEF tables
    <3> QED BY <1>7, <1>8, <2>2, <3>1 DEF OpenTag
  <2>3. CASE Inserted({Sym("tag", n, l, level)}) /\ Pushed(Sym("tag", n, l, level))
             /\ UNCHANGED <<defined, file, phase>>
    <3>1. phase = "open"
      BY <1>8 DEF OpenTag
    <3>2. syms \subseteq syms' /\ \A s \in syms' \ syms : s.file = file /\ s.level = level
      BY <1>5, <2>3, <3>1
    <3> QED BY <1>7, <2>3, <3>1, <3>2
  <2> QED BY <1>8, <2>1, <2>2, <2>3 DEF OpenTag
<1>9. ASSUME NEW n \in Names, NEW l \in Lines, NEW F \in SUBSET (Names \X Lines), Header(n, l, F)
      PROVE  Stack!Next
  <2>1. CASE Left("closed")
    BY <1>2, <1>9, <2>1 DEF Header
  <2> DEFINE f == Sym("function", n, l, 0)
             S == Formals(F) \cup (IF FindLevel("ident", n, l, 0) = {} THEN {f} ELSE {})
  <2>2. CASE Inserted(S) /\ phase' = "header" /\ UNCHANGED <<defined, scopes, file>>
    <3>1. phase = "open" /\ level = 0 /\ level' = level
      BY <1>0, <1>9, <2>2 DEF Header, level
    <3>2. \A s \in S : s.file = file /\ s.level \in {level, level + 1}
      BY <3>1 DEF Formals, Sym, HeaderLevel
    <3> HIDE DEF S
    <3>3. syms \subseteq syms' /\ \A s \in syms' \ syms : s.file = file /\ s.level \in {level, level + 1}
      BY <2>2, <3>2, InsertedNew
    <3>4. ~(level > 0)
      BY <3>1
    <3> QED BY <1>0, <2>2, <3>1, <3>3, <3>4, OpenMap DEF Stack!Next
  <2> QED BY <1>9, <2>1, <2>2 DEF Header
<1>10. ASSUME NEW k \in {"inner", "block"}, OpenPlain(k) PROVE Stack!Next
  <2>1. syms' = syms /\ Pushed([kind |-> k]) /\ phase = "open" /\ UNCHANGED <<file, phase>>
    BY <1>10 DEF OpenPlain, tables
  <2> QED BY <1>7, <2>1
<1>11. CASE OpenBody
  BY <1>0, <1>11, OpenBodyMap
<1>12. CASE CloseTag \/ ClosePlain
  BY <1>0, <1>12, CloseMap DEF CloseTag, ClosePlain, Stack!Next
<1>13. CASE CloseFailed \/ CloseBody
  <2>1. Reading /\ ~Reading'
    BY <1>13 DEF CloseFailed, CloseBody, InScope, Reading
  <2> QED BY <1>1, <2>1
<1>14. ASSUME UNCHANGED vars \/ \E n \in Names, l \in Lines : EnumDefined(n, l)
       PROVE  Frames' = Frames
  <2>1. level' = level /\ phase' = phase /\ \A v : KeysAt(v)' = KeysAt(v)
    BY <1>14 DEF vars, EnumDefined, level, KeysAt, Current
  <2> QED BY <2>1 DEF Frames, Reading
<1> QED BY <1>3, <1>4, <1>6, <1>8, <1>9, <1>10, <1>11, <1>12, <1>13, <1>14 DEF Next

\* For the file being read the tables are a stack of scopes: declarations go to
\* the innermost one, and closing it takes away its symbols and no other.
THEOREM ScopeImplementsStack == Spec => ImplementsScopeStack
<1>1. Init => Stack!Init
  BY DEF Init, Stack!Init, Frames, Reading
<1>2. ASSUME Inv, Inv', [Next]_vars PROVE [Stack!Next]_Frames
  BY <1>2, StepMap
<1> QED BY <1>1, <1>2, ScopeInvariant, PTL DEF Spec, ImplementsScopeStack, Stack!Spec
=============================================================================
