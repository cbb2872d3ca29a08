---------------------------- MODULE FunctionBody ----------------------------
(***************************************************************************)
(* The statements of a function's body as the actions of engine/eng_rule.y *)
(* reduce them: blocks, loops, switches, labels, cases, goto, break and    *)
(* continue.  The contexts they check (loop_level, switch_level,           *)
(* label_list, the label table, the list of undefined labels) belong to    *)
(* the engine, so a file that fails leaves them to the next one.           *)
(*                                                                         *)
(* A file stands for its one function body: its end ends the process or    *)
(* the file (ScopeTable).  A label's line in the table is that of the      *)
(* address of its name, hence a choice of each occurrence.                 *)
(*                                                                         *)
(* Left out: expressions and their types, declarations, return and if,     *)
(* which touch none of this; the statements built.                         *)
(***************************************************************************)
EXTENDS Naturals, Sequences, SequencesExt

CONSTANTS Names, Values, Lines,   \* label names, names of case labels, hash lines
          NFiles, MaxNest, MaxCases   \* bounds of the model: MaxNest is one for each file

ASSUME BoundsAssumption == NFiles \in Nat /\ MaxNest \in Seq(Nat) /\ MaxCases \in Nat
ASSUME NamesAssumption == Names \cap Values = {}

VARIABLES
  nest,                  \* the open constructs, the body's block first
  done,                  \* the substatement of the innermost one has been read
  loop, switch,          \* loop_level, switch_level
  labelList, ready,      \* label_list, and whether TAILQ_INIT was ever done to it
  labels,                \* the label table
  next, prev,            \* list_next of the labels and of func_undefined_label's head
  gotos, targets,        \* the labels this body jumps to, and those it defines
  file, phase            \* files opened; "closed", "open", "ended", "crashed"

contexts == <<loop, switch, labelList, ready>>
undefined == <<next, prev>>
vars == <<nest, done, contexts, labels, undefined, gotos, targets, file, phase>>

Symbols == Names \X Lines          \* the labels a goto has declared

\* A case label is named by its value, default by that word.  The values are all
\* 0 as long as ey_convert_label is a stub, so that there are two names.
Cases == Values \X Lines
Anchor == <<"anchor">>               \* func_undefined_label itself
Nil == <<"nil">>

Wrapper == {"loop", "switch", "label", "case"}
Top == nest[Len(nest)]
Indices(kind) == {i \in 1..Len(nest) : nest[i].kind = kind}
level == Cardinality(Indices("block"))                     \* ey_parser_level

Init ==
  /\ nest = <<>> /\ done = FALSE
  /\ loop = 0 /\ switch = 0 /\ labelList = <<>> /\ ready = FALSE
  /\ labels = {}
  /\ next = [s \in Symbols \cup {Anchor} |-> Nil]
  /\ prev = [s \in Symbols \cup {Anchor} |-> Anchor]
  /\ gotos = {} /\ targets = {}
  /\ file = 0 /\ phase = "closed"

-----------------------------------------------------------------------------
(* include/ey_queue.h, on func_undefined_label                             *)

InsertTail_Unmoved(s) ==                   \* a faulty variant
  /\ next' = [next EXCEPT ![s] = Nil, ![prev[Anchor]] = s]
  /\ prev' = [prev EXCEPT ![s] = prev[Anchor]]
InsertTail(s) ==
  /\ next' = [next EXCEPT ![s] = Nil, ![prev[Anchor]] = s]
  /\ prev' = [prev EXCEPT ![s] = prev[Anchor], ![Anchor] = s]

\* Removal follows the element's own links, whatever list they are of.
Unlink(s) ==
  /\ next' = [next EXCEPT ![prev[s]] = next[s]]
  /\ prev' = [prev EXCEPT ![IF next[s] = Nil THEN Anchor ELSE next[s]] = prev[s]]

-----------------------------------------------------------------------------
(* engine/eng_sym.c, on the label table                                    *)

Label(k, lv, def) == [key |-> k, level |-> lv, def |-> def]

Found(s) == {x \in labels : x.key = s}

\* The level's own test, on the line of this occurrence.
FoundCase(c) == {x \in labels : x.key = c /\ x.level >= switch}

Kept_Below == {x \in labels : x.level + 1 < level}       \* a faulty variant
Kept == {x \in labels : x.level < level}

-----------------------------------------------------------------------------
\* A new body: only the list of undefined labels is made anew.
OpenBody ==
  /\ phase = "closed" /\ file < NFiles
  /\ file' = file + 1 /\ phase' = "open"
  /\ nest' = << [kind |-> "block"] >> /\ done' = FALSE
  /\ next' = [next EXCEPT ![Anchor] = Nil] /\ prev' = [prev EXCEPT ![Anchor] = Anchor]
  /\ gotos' = {} /\ targets' = {}
  /\ UNCHANGED <<contexts, labels>>

\* EY_ABORT, or an error of the grammar anywhere in the body.
Left(where) ==
  /\ phase' = where /\ nest' = <<>> /\ done' = FALSE
  /\ UNCHANGED <<contexts, gotos, targets, file>>

Abort == phase = "open" /\ Left("closed") /\ UNCHANGED <<labels, undefined>>

\* Where a statement may begin, and what its end makes of the construct around.
MayStart == phase = "open" /\ ~done
Opened(item) == Len(nest) < MaxNest[file] /\ nest' = Append(nest, item) /\ done' = FALSE
Ended(rest) == nest' = rest /\ done' = (rest[Len(rest)].kind \in Wrapper)
Outer == SubSeq(nest, 1, Len(nest) - 1)
Read(kind) == phase = "open" /\ done /\ Top.kind = kind

Open(kind) ==
  /\ MayStart /\ Opened([kind |-> kind])
  /\ UNCHANGED <<contexts, labels, undefined, gotos, targets, file, phase>>

CloseBlock ==
  /\ MayStart /\ Top.kind = "block" /\ Len(nest) > 1
  /\ labels' = Kept
  /\ Ended(Outer)
  /\ UNCHANGED <<contexts, undefined, gotos, targets, file, phase>>

\* An expression statement, and whatever else leaves the contexts alone.
Statement ==
  /\ MayStart /\ Ended(nest)
  /\ UNCHANGED <<contexts, labels, undefined, gotos, targets, file, phase>>

-----------------------------------------------------------------------------
OpenLoop ==
  /\ MayStart /\ Opened([kind |-> "loop", loop |-> loop])
  /\ loop' = level + 1
  /\ UNCHANGED <<switch, labelList, ready, labels, undefined, gotos, targets, file, phase>>

CloseLoop_Kept ==                          \* a faulty variant
  /\ Read("loop") /\ Ended(Outer)
  /\ UNCHANGED <<contexts, labels, undefined, gotos, targets, file, phase>>
CloseLoop ==
  /\ Read("loop") /\ Ended(Outer)
  /\ loop' = Top.loop
  /\ UNCHANGED <<switch, labelList, ready, labels, undefined, gotos, targets, file, phase>>

\* owned: the cases whose closest switch this is (for the properties only).
SwitchItem == [kind |-> "switch", switch |-> switch, list |-> labelList, owned |-> <<>>]

OpenSwitch_Shared ==                       \* a faulty variant
  /\ MayStart /\ Opened(SwitchItem)
  /\ switch' = level + 1
  /\ UNCHANGED <<loop, labelList, ready, labels, undefined, gotos, targets, file, phase>>
OpenSwitch ==
  /\ MayStart /\ Opened(SwitchItem)
  /\ switch' = level + 1 /\ labelList' = <<>>
  /\ UNCHANGED <<loop, ready, labels, undefined, gotos, targets, file, phase>>

CloseSwitch ==
  /\ Read("switch") /\ Ended(Outer)
  /\ switch' = Top.switch /\ labelList' = Top.list /\ ready' = TRUE
  /\ UNCHANGED <<loop, labels, undefined, gotos, targets, file, phase>>

\* The case is given to the closest switch, if there is one.
Closest == CHOOSE i \in Indices("switch") : \A j \in Indices("switch") : j <= i
Given(c) ==
  IF Indices("switch") = {} THEN Outer
  ELSE [Outer EXCEPT ![Closest].owned = Append(@, c)]

\* case v: and default:, at the end of the statement they label.
CloseCase(c) ==
  /\ Read("case") /\ Len(labelList) < MaxCases
  /\ IF switch = 0 \/ FoundCase(c) # {}
     THEN Left("closed") /\ UNCHANGED <<labels, undefined>>
     ELSE /\ labels' = labels \cup {Label(c, switch, TRUE)}
          /\ IF ready
             THEN /\ labelList' = Append(labelList, c)
                  /\ Ended(Given(c))
                  /\ UNCHANGED <<loop, switch, ready, undefined, gotos, targets, file, phase>>
             ELSE Left("crashed") /\ UNCHANGED undefined

-----------------------------------------------------------------------------
\* goto: the label is declared, and undefined so far, unless the table has it.
Goto(s) ==
  /\ MayStart
  /\ IF Found(s) = {}
     THEN labels' = labels \cup {Label(s, 1, FALSE)} /\ InsertTail(s)
     ELSE UNCHANGED <<labels, undefined>>
  /\ gotos' = gotos \cup {s}
  /\ Ended(nest)
  /\ UNCHANGED <<contexts, targets, file, phase>>

\* name: at the end of its statement.  A label that no goto has declared is
\* built and not inserted.
CloseLabel(s) ==
  /\ Read("label")
  /\ \/ /\ \E x \in Found(s) : x.def
        /\ Left("closed") /\ UNCHANGED <<labels, undefined>>
     \/ /\ \E x \in Found(s) : ~x.def
        /\ labels' = (labels \ Found(s)) \cup {Label(s, 1, TRUE)}
        /\ Unlink(s)
        /\ targets' = targets \cup {s} /\ Ended(Outer)
        /\ UNCHANGED <<contexts, gotos, file, phase>>
     \/ /\ Found(s) = {}
        /\ Ended(Outer)
        /\ UNCHANGED <<contexts, labels, undefined, gotos, targets, file, phase>>

\* break and continue.
Break == 
  /\ MayStart
  /\ IF loop = 0 /\ switch = 0 THEN Left("closed")
     ELSE Ended(nest) /\ UNCHANGED <<contexts, gotos, targets, file, phase>>
  /\ UNCHANGED <<labels, undefined>>

Continue ==
  /\ MayStart
  /\ IF loop = 0 THEN Left("closed")
     ELSE Ended(nest) /\ UNCHANGED <<contexts, gotos, targets, file, phase>>
  /\ UNCHANGED <<labels, undefined>>

\* The end of the body: a label used and not defined ends the file.
CloseBody ==
  /\ MayStart /\ Len(nest) = 1
  /\ labels' = Kept
  /\ Left(IF next[Anchor] = Nil THEN "ended" ELSE "closed")
  /\ UNCHANGED undefined

Next ==
  \/ OpenBody \/ Abort \/ CloseBody
  \/ \E kind \in {"block", "label", "case"} : Open(kind)
  \/ CloseBlock \/ Statement \/ Break \/ Continue
  \/ OpenLoop \/ CloseLoop \/ OpenSwitch \/ CloseSwitch
  \/ \E c \in Cases : CloseCase(c)
  \/ \E s \in Symbols : Goto(s) \/ CloseLabel(s)

Spec == Init /\ [][Next]_vars
-----------------------------------------------------------------------------
(* Properties                                                              *)

Items ==
  [kind : {"block", "label", "case"}]
    \cup [kind : {"loop"}, loop : Nat]
    \cup [kind : {"switch"}, switch : Nat, list : Seq(Cases), owned : Seq(Cases)]

\* Every variable has its type.
TypeOK ==
  /\ nest \in Seq(Items) /\ done \in BOOLEAN
  /\ loop \in Nat /\ switch \in Nat
  /\ labelList \in Seq(Cases) /\ ready \in BOOLEAN
  /\ labels \in SUBSET [key : Symbols \cup Cases, level : Nat, def : BOOLEAN]
  /\ next \in [Symbols \cup {Anchor} -> Symbols \cup {Nil}]
  /\ prev \in [Symbols \cup {Anchor} -> Symbols \cup {Anchor}]
  /\ gotos \in SUBSET Symbols /\ targets \in SUBSET Symbols
  /\ file \in 0..NFiles
  /\ phase \in {"closed", "open", "ended", "crashed"}

Fresh == file = 1                  \* no file has failed before

\* Break, continue and case are accepted in a loop or a switch and nowhere else
\* (eng_rule.y 4132, 4570, 4593): the levels the checks read say whether a loop,
\* or a switch, is open around, whatever was opened and closed inside.
ContextsMatchNest ==
  Fresh /\ phase = "open" =>
    /\ loop # 0 <=> Indices("loop") # {}
    /\ switch # 0 <=> Indices("switch") # {}

\* Every variable has its type, and the levels and lists that outlive a construct
\* are those of the constructs that are open.
ContextsSound == TypeOK /\ ContextsMatchNest

\* A switch gets exactly the cases it is the closest switch of, in their order:
\* label_list goes through the saved contexts of the switches inside it
\* (eng_rule.y 4700-4715).
SwitchOwnsCases ==
  \A i \in Indices("switch") :
    LET inner == {j \in Indices("switch") : j > i}
        list == IF inner = {} THEN labelList
                ELSE nest[CHOOSE j \in inner : \A k \in inner : j <= k].list
    IN nest[i].owned = list

\* Two equal cases in a switch's block that are on one line of the label table
\* are never both accepted, whatever blocks and switches were read in between
\* (eng_rule.y 4167, 4237).
SameLineDistinct ==
  \A i \in Indices("switch") :
    i < Len(nest) /\ nest[i + 1].kind = "block" => IsInjective(nest[i].owned)

\* A body that passes the check of undefined labels defines every label that it
\* jumps to (eng_rule.y 521).
GotosResolved == Fresh /\ phase = "ended" => gotos \subseteq targets

=============================================================================
