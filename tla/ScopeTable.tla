----------------------------- MODULE ScopeTable -----------------------------
(***************************************************************************)
(* The engine's ident and tag tables while files are parsed: what the      *)
(* actions of engine/eng_rule.y declare and look up through engine/eng_sym.c*)
(* and what closing a scope purges.  The tables belong to the engine and   *)
(* outlive a file; the level belongs to the file's parser.                 *)
(*                                                                         *)
(* A symbol's line in the hash table is that of the address of its name,   *)
(* and every occurrence of an identifier has a copy of its own, so each    *)
(* occurrence is on a line of its own choice and sees that line only.      *)
(*                                                                         *)
(* Left out: declared variables and prototypes, which no file gets past    *)
(* (ey_symbol_set_storage_class refuses every one); types; allocation.     *)
(***************************************************************************)
EXTENDS Naturals, Sequences, FiniteSets

CONSTANTS Names, Lines,
          NFiles, MaxDepth, MaxSyms, MaxFormals   \* bounds of the model

ASSUME BoundsAssumption ==
  NFiles \in Nat /\ MaxDepth \in Nat /\ MaxSyms \in Nat /\ MaxFormals \in Nat
ASSUME FiniteAssumption == IsFiniteSet(Names) /\ IsFiniteSet(Lines)

VARIABLES
  syms,      \* the symbols in the two tables
  newer,     \* <<s, u>>: s was inserted after u, so a line lists it before u
  defined,   \* the tags with SYMBOL_FLAG_DEFINE
  scopes,    \* the open scopes: a tag whose body is being read, or another
  file,      \* the number of files opened
  phase      \* "closed", "open", "header" of a function, "crashed"

vars == <<syms, newer, defined, scopes, file, phase>>
tables == <<syms, newer, defined>>

Kinds == {"enum", "formal", "function", "tag"}
Plain == [kind : {"body", "block", "inner"}]
Table(kind) == IF kind = "tag" THEN "tag" ELSE "ident"

Symbols == [kind : Kinds, name : Names, line : Lines, level : Nat, file : 1..NFiles]
Sym(k, n, l, v) == [kind |-> k, name |-> n, line |-> l, level |-> v, file |-> file]

level == Len(scopes)                       \* ey_parser_level

Init ==
  /\ syms = {} /\ newer = {} /\ defined = {}
  /\ scopes = <<>> /\ file = 0 /\ phase = "closed"

-----------------------------------------------------------------------------
(* engine/eng_sym.c                                                        *)

\* The table's head insertion makes the newest of S the one a search meets.
Newest_Oldest(S) == {s \in S : \A u \in S \ {s} : <<u, s>> \in newer}   \* a faulty variant
Newest(S) == {s \in S : \A u \in S \ {s} : <<s, u>> \in newer}

Matches(tbl, n, l) == {s \in syms : Table(s.kind) = tbl /\ s.name = n /\ s.line = l}

\* ey_find_symbol and ey_find_level_symbol: the symbol found, or none.
Find(tbl, n, l) == Newest(Matches(tbl, n, l))

FindLevel(tbl, n, l, v) == Newest({s \in Matches(tbl, n, l) : s.level >= v})

SameKey(s, u) ==
  Table(s.kind) = Table(u.kind) /\ s.name = u.name /\ s.line = u.line /\ s.level = u.level

\* ey_insert_symbol of every symbol of S, outer levels first.  A symbol whose
\* key is on the line is refused, and no caller looks at the result.
Inserted(S) ==
  LET new == {s \in S : \A u \in syms : ~SameKey(s, u)}
  IN /\ syms' = syms \cup new
     /\ newer' = newer \cup {p \in new \X (syms \cup new) :
                               p[2] \in syms \/ p[2].level < p[1].level}

\* ey_purge_symbol of the tables, and the level given up.
Kept_Above == {s \in syms : s.level <= level}      \* a faulty variant
Kept_Reversed == {s \in syms : s.level > level}   \* a faulty variant
Kept_Below == {s \in syms : s.level + 1 < level}   \* a faulty variant
Kept == {s \in syms : s.level < level}

Purged == syms' = Kept /\ newer' = newer \cap (Kept \X Kept)
Popped == Purged /\ scopes' = SubSeq(scopes, 1, level - 1)

Pushed(scope) == scopes' = Append(scopes, scope)

-----------------------------------------------------------------------------
(* engine/eng_parser.c, engine/eng_rule.y                                  *)

\* A new parser starts at level 0; the tables are what the last file left.
OpenFile ==
  /\ phase = "closed" /\ file < NFiles
  /\ phase' = "open" /\ file' = file + 1 /\ scopes' = <<>>
  /\ UNCHANGED tables

Left(where) == phase' = where /\ scopes' = <<>> /\ UNCHANGED <<tables, file>>

EndOfFile == phase = "open" /\ scopes = <<>> /\ Left("closed")

\* EY_ABORT or an error of the grammar: ey_parse_file drops the parser.
Abort == phase \in {"open", "header"} /\ Left("closed")

Room(n) == Cardinality(syms) + n <= MaxSyms

Enumerator(n, l) ==
  /\ phase = "open" /\ Room(1)
  /\ IF FindLevel("ident", n, l, level) # {}
     THEN Left("closed")
     ELSE Inserted({Sym("enum", n, l, level)}) /\ UNCHANGED <<defined, scopes, file, phase>>

\* struct s, union s or enum s without a body: any visible tag will do.
TagReference(n, l) ==
  /\ phase = "open" /\ Room(1)
  /\ Find("tag", n, l) = {}
  /\ Inserted({Sym("tag", n, l, level)})
  /\ UNCHANGED <<defined, scopes, file, phase>>

\* struct s {: a tag of this level that is not defined yet, or a new one.
OpenTag(n, l) ==
  LET found == FindLevel("tag", n, l, level)
      s == Sym("tag", n, l, level)
  IN /\ phase = "open" /\ Room(1) /\ level < MaxDepth
     /\ \/ /\ found # {} /\ found \subseteq defined
           /\ Left("closed")
        \/ /\ \E t \in found \ defined : Pushed(t)
           /\ UNCHANGED <<tables, file, phase>>
        \/ /\ found = {}
           /\ Inserted({s}) /\ Pushed(s)
           /\ UNCHANGED <<defined, file, phase>>

\* enum s {: the same, but no scope is opened.
EnumTag(n, l) ==
  LET found == FindLevel("tag", n, l, level)
  IN /\ phase = "open" /\ Room(1)
     /\ \/ found # {} /\ found \subseteq defined /\ Left("closed")
        \/ /\ found = {}
           /\ Inserted({Sym("tag", n, l, level)})
           /\ UNCHANGED <<defined, scopes, file, phase>>

\* The end of that enum's list (its enumerators are Enumerator steps).
EnumDefined(n, l) ==
  /\ phase = "open"
  /\ \E t \in FindLevel("tag", n, l, level) \ defined : defined' = defined \cup {t}
  /\ UNCHANGED <<syms, newer, scopes, file, phase>>

InScope == phase = "open" /\ level > 0

CloseTag ==
  /\ InScope /\ scopes[level].kind = "tag"
  /\ Popped
  /\ defined' = (defined \cup {scopes[level]}) \cap Kept
  /\ UNCHANGED <<file, phase>>

\* The type that was read is refused: the purge is done, the flag is not set.
CloseFailed ==
  /\ InScope /\ scopes[level].kind \in {"tag", "inner"}
  /\ Purged /\ defined' = defined \cap Kept
  /\ scopes' = <<>> /\ phase' = "closed"
  /\ UNCHANGED file

\* A prototype's parameters or a body without a tag; a block of statements.
OpenPlain(kind) ==
  /\ phase = "open" /\ level < MaxDepth
  /\ kind = "block" => level > 0 /\ scopes[level].kind \in {"body", "block"}
  /\ Pushed([kind |-> kind])
  /\ UNCHANGED <<tables, file, phase>>

ClosePlain ==
  /\ InScope /\ scopes[level].kind \in {"inner", "block"}
  /\ Popped
  /\ defined' = defined \cap Kept
  /\ UNCHANGED <<file, phase>>

HeaderLevel == 1                           \* parameter_declaration's level

\* function_definition up to its body: the name, then the formals, go into
\* the table.  A name that is there and is no function ends the file.
Formals(F) == {Sym("formal", p[1], p[2], HeaderLevel) : p \in F}
Header(n, l, F) ==
  LET found == FindLevel("ident", n, l, 0)
      f == Sym("function", n, l, 0)
  IN /\ phase = "open" /\ scopes = <<>> /\ MaxDepth > 0
     /\ Cardinality(F) <= MaxFormals /\ Room(1 + Cardinality(F))
     /\ IF \E s \in found : s.kind # "function"
        THEN Left("closed")
        ELSE /\ Inserted(Formals(F) \cup (IF found = {} THEN {f} ELSE {}))
             /\ phase' = "header"
             /\ UNCHANGED <<defined, scopes, file>>

OpenBody ==
  /\ phase = "header"
  /\ Pushed([kind |-> "body"]) /\ phase' = "open"
  /\ UNCHANGED <<tables, file>>

\* The body's purge, and the end of function_definition: what it hands to
\* ey_symbol_set_flag and ey_function_prepare is what FindLevel gave, NULL for
\* a new function, and a function it did find is of class SYMBOL_LOCAL still.
\* Either ends the process, unless a label without definition ends the file.
CloseBody ==
  /\ InScope /\ scopes[level].kind = "body"
  /\ Popped
  /\ defined' = defined \cap Kept
  /\ phase' \in {"crashed", "closed"}
  /\ UNCHANGED file

Next ==
  \/ OpenFile \/ EndOfFile \/ Abort
  \/ \E n \in Names, l \in Lines :
       \/ Enumerator(n, l) \/ TagReference(n, l) \/ OpenTag(n, l)
       \/ EnumTag(n, l) \/ EnumDefined(n, l)
       \/ \E F \in SUBSET (Names \X Lines) : Header(n, l, F)
  \/ CloseTag \/ CloseFailed
  \/ \E kind \in {"inner", "block"} : OpenPlain(kind)
  \/ ClosePlain \/ OpenBody \/ CloseBody

Spec == Init /\ [][Next]_vars

-----------------------------------------------------------------------------
(* Properties                                                              *)

\* Every variable has its type.
TypeOK ==
  /\ syms \in SUBSET Symbols
  /\ newer \in SUBSET (syms \X syms)
  /\ defined \in SUBSET syms
  /\ scopes \in Seq(Plain \cup Symbols)
  /\ file \in 0..NFiles
  /\ phase \in {"closed", "open", "header", "crashed"}

Reading == phase \in {"open", "header"}
Current == {s \in syms : s.file = file}    \* the symbols of the file being read

\* An identifier of the file that a search finds is the innermost declared on
\* its line, and one declared by an earlier file never hides it (the search
\* has no level to go by, it relies on the order of the insertions: eng_sym.c
\* 340-371).
FindsInnermost ==
  Reading => \A tbl \in {"ident", "tag"}, n \in Names, l \in Lines :
    LET here == Matches(tbl, n, l) \cap Current
    IN here # {} => \E s \in here : Find(tbl, n, l) = {s} /\ \A u \in here : u.level <= s.level

\* While the body of a tag of the file is read, the tag stays in the table, at
\* the level around the body, not defined and not being defined twice
\* (eng_rule.y 2541-2600).
OpenTagsKept ==
  Reading => \A i \in 1..level : scopes[i].kind = "tag" /\ scopes[i].file = file =>
    /\ scopes[i] \in syms /\ scopes[i].level = i - 1
    /\ scopes[i] \notin defined

\* The tables are well formed: every variable has its type, and the tags whose
\* bodies are open are where their closing will look for them.
TablesSound == TypeOK /\ OpenTagsKept

\* A global outlives every scope and every file, failed ones included.
GlobalsPersist == [][\A s \in syms : s.level = 0 => s \in syms']_vars

\* For the file being read the tables are a stack of scopes: a purge takes
\* away exactly the innermost scope's symbols (eng_rule.y 4728-4740).
KeysAt(v) == {<<Table(s.kind), s.name, s.line>> : s \in {u \in Current : u.level = v}}
Frames ==
  IF Reading
  THEN [i \in 1..(level + IF phase = "header" THEN 2 ELSE 1) |-> KeysAt(i - 1)]
  ELSE <<>>
Stack == INSTANCE ScopeStack WITH
  Idents <- {"ident", "tag"} \X Names \X Lines, frames <- Frames
ImplementsScopeStack == Stack!Spec

\* eng_stmt.c:1686, "assert(function!=NULL && ...->class==SYMBOL_FUNCTION)":
\* a function's definition can be completed.
FunctionsComplete == phase # "crashed"
=============================================================================
