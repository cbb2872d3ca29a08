------------------------- MODULE FunctionBodyProofs -------------------------
(***************************************************************************)
(* The contexts of a function's statements are right for any labels, case  *)
(* values, lines of the label table, files and depth of nesting.           *)
(***************************************************************************)
EXTENDS FunctionBody, FiniteSetTheorems, WellFoundedInduction,
        SequenceTheorems, TLAPS

-----------------------------------------------------------------------------
(* The inductive invariant                                                 *)

\* The blocks among the first i open constructs.
Blocks(q, i) == Cardinality({k \in 1..i : q[k].kind = "block"})

Shape ==
  /\ phase = "open" => nest # <<>> /\ nest[1].kind = "block"
  /\ phase # "open" => nest = <<>>

Innermost(i) == i \in Indices("switch") /\ \A j \in Indices("switch") : j <= i
Follows(i, j) ==
  /\ i \in Indices("switch") /\ j \in Indices("switch") /\ i < j
  /\ \A k \in Indices("switch") : k <= i \/ j <= k

\* A switch's context is in force, or saved by the next switch inside it.
SwitchContexts ==
  /\ \A i \in Indices("switch") : Innermost(i) =>
       switch = Blocks(nest, i) + 1 /\ labelList = nest[i].owned
  /\ \A i, j \in Indices("switch") : Follows(i, j) =>
       nest[j].switch = Blocks(nest, i) + 1 /\ nest[j].list = nest[i].owned

\* The cases of a switch's block are in the label table, on the level of the
\* switch, so none of its inner blocks takes them away.
CasesRecorded ==
  \A i \in Indices("switch") :
    /\ i = Len(nest) /\ ~done => nest[i].owned = <<>>
    /\ i < Len(nest) /\ nest[i + 1].kind = "block" =>
         /\ IsInjective(nest[i].owned)
         /\ \A n \in DOMAIN nest[i].owned : \E x \in labels :
              x.key = nest[i].owned[n] /\ x.level = Blocks(nest, i) + 1

Untouched == file = 0 => phase = "closed" /\ loop = 0 /\ switch = 0 /\ labels = {}

\* The level of a kind of construct, in force or saved by one of them, is set
\* exactly inside the first of them.
OfKind(q, kind) == {i \in 1..Len(q) : q[i].kind = kind}
Saved(item) == IF item.kind = "loop" THEN item.loop ELSE item.switch
LevelTells(q, kind, lv) ==
  /\ lv # 0 <=> OfKind(q, kind) # {}
  /\ \A i \in OfKind(q, kind) : Saved(q[i]) # 0 <=> \E j \in OfKind(q, kind) : j < i

LevelsSaved ==
  file = 1 /\ phase = "open" => LevelTells(nest, "loop", loop) /\ LevelTells(nest, "switch", switch)

\* The list of undefined labels, without the table.
Undefined == {s \in Symbols : \E x \in labels : x.key = s /\ ~x.def}
First(q) == IF q = <<>> THEN Nil ELSE q[1]
Final(q) == IF q = <<>> THEN Anchor ELSE q[Len(q)]
Linked(nx, pv, q) ==
  /\ nx[Anchor] = First(q) /\ pv[Anchor] = Final(q)
  /\ \A k \in 1..Len(q) :
       /\ nx[q[k]] = IF k = Len(q) THEN Nil ELSE q[k + 1]
       /\ pv[q[k]] = IF k = 1 THEN Anchor ELSE q[k - 1]
Lists(nx, pv, S) ==
  \E q \in Seq(Symbols) : IsInjective(q) /\ S = {q[k] : k \in 1..Len(q)} /\ Linked(nx, pv, q)

\* In the first file the list is that of the undefined labels, and the others
\* are targets.
GotosListed ==
  file = 1 /\ phase = "open" =>
    /\ Lists(next, prev, Undefined)
    /\ \A x \in labels : x.key \in Symbols => x.level = 1
    /\ \A x, y \in labels : x.key \in Symbols /\ x.key = y.key => x = y
    /\ \A x \in labels : x.key \in Symbols /\ x.def => x.key \in targets
    /\ gotos \subseteq targets \cup Undefined

IInv ==
  /\ TypeOK /\ Shape /\ SwitchContexts /\ CasesRecorded
  /\ Untouched /\ LevelsSaved /\ GotosListed /\ GotosResolved

-----------------------------------------------------------------------------
(* Open constructs and blocks                                              *)

LEMMA BlocksNat ==
  ASSUME NEW q, NEW i \in Nat
  PROVE  Blocks(q, i) \in Nat
<1>1. IsFiniteSet(1..i)
  BY FS_Interval
<1>2. IsFiniteSet({k \in 1..i : q[k].kind = "block"})
  BY <1>1, FS_Subset
<1> QED BY <1>2, FS_CardinalityType DEF Blocks

LEMMA BlocksSame ==
  ASSUME NEW q, NEW r, NEW i \in Nat, \A k \in 1..i : q[k].kind = r[k].kind
  PROVE  Blocks(q, i) = Blocks(r, i)
<1>1. {k \in 1..i : q[k].kind = "block"} = {k \in 1..i : r[k].kind = "block"}
  OBVIOUS
<1> QED BY <1>1 DEF Blocks

LEMMA BlocksNone ==
  ASSUME NEW q, NEW i \in Nat, NEW j \in Nat, i <= j,
         \A k \in (i + 1)..j : q[k].kind # "block"
  PROVE  Blocks(q, j) = Blocks(q, i)
<1>1. {k \in 1..i : q[k].kind = "block"} = {k \in 1..j : q[k].kind = "block"}
  OBVIOUS
<1> QED BY <1>1 DEF Blocks

LEMMA BlocksMore ==
  ASSUME NEW q, NEW i \in Nat, NEW j \in Nat, NEW b \in (i + 1)..j, q[b].kind = "block"
  PROVE  Blocks(q, j) >= Blocks(q, i) + 1
<1> DEFINE S == {k \in 1..i : q[k].kind = "block"}
           T == {k \in 1..j : q[k].kind = "block"}
<1>1. IsFiniteSet(1..j) /\ IsFiniteSet(1..i)
  BY FS_Interval
<1>2. IsFiniteSet(T) /\ IsFiniteSet(S)
  BY <1>1, FS_Subset
<1>3. S \cup {b} \in SUBSET T /\ b \notin S
  OBVIOUS
<1>4. IsFiniteSet(S \cup {b}) /\ Cardinality(S \cup {b}) = Cardinality(S) + 1
  BY <1>2, <1>3, FS_AddElement
<1>5. Cardinality(S \cup {b}) <= Cardinality(T)
  BY <1>2, <1>3, FS_Subset
<1>6. Cardinality(S) \in Nat /\ Cardinality(T) \in Nat
  BY <1>2, FS_CardinalityType
<1> QED BY <1>4, <1>5, <1>6 DEF Blocks

\* The level is the number of blocks that are open.
LEMMA LevelIsBlocks ==
  ASSUME TypeOK
  PROVE  level = Blocks(nest, Len(nest)) /\ level \in Nat
<1>1. Len(nest) \in Nat
  BY DEF TypeOK
<1>2. level = Blocks(nest, Len(nest))
  BY DEF level, Indices, Blocks
<1> QED BY <1>1, <1>2, BlocksNat

LEMMA MinExists ==
  ASSUME NEW B \in SUBSET Nat, B # {}
  PROVE  \E m \in B : \A b \in B : m <= b
<1>1. PICK m \in B : \A y \in B : ~ (<<y, m>> \in OpToRel(<, Nat))
  <2>1. ASSUME NEW R, IsWellFoundedOn(R, Nat)
        PROVE  \E x \in B : \A y \in B : ~ (<<y, x>> \in R)
    BY <2>1, WFMin, Zenon
  <2> QED BY <2>1, NatLessThanWellFounded, Zenon
<1>2. ASSUME NEW b \in B PROVE m <= b
  <2>1. m \in Nat /\ b \in Nat
    OBVIOUS
  <2>2. ~(b < m)
    BY <1>1, <2>1 DEF OpToRel
  <2> QED BY <2>1, <2>2
<1> QED BY <1>2

LEMMA MaxExists ==
  ASSUME NEW A \in SUBSET Nat, A # {}, NEW b \in Nat, \A a \in A : a <= b
  PROVE  \E m \in A : \A a \in A : a <= m
<1> DEFINE B == {b - a : a \in A}
<1>0. \A a \in A : a \in Nat /\ b - a \in Nat
  OBVIOUS
<1>1. B \in SUBSET Nat /\ B # {}
  BY <1>0
<1>2. PICK x \in B : \A y \in B : x <= y
  <2> HIDE DEF B
  <2> QED BY <1>1, MinExists
<1>3. PICK m \in A : x = b - m
  BY <1>2
<1>4. \A a \in A : b - m <= b - a
  BY <1>2, <1>3
<1> QED BY <1>0, <1>3, <1>4

\* The closest switch is there, and the innermost one.
LEMMA ClosestExists ==
  ASSUME TypeOK, Indices("switch") # {}
  PROVE  Innermost(Closest)
<1>1. Indices("switch") \in SUBSET Nat /\ \A i \in Indices("switch") : i <= Len(nest)
  BY DEF Indices, TypeOK
<1>2. Len(nest) \in Nat
  BY DEF TypeOK
<1>3. PICK m \in Indices("switch") : \A i \in Indices("switch") : i <= m
  BY <1>1, <1>2, MaxExists
<1> QED BY <1>3 DEF Innermost, Closest

LEMMA ItemKinds ==
  ASSUME NEW x \in Items
  PROVE  /\ x.kind = "loop" => x \in [kind : {"loop"}, loop : Nat]
         /\ x.kind = "switch" =>
              x \in [kind : {"switch"}, switch : Nat, list : Seq(Cases), owned : Seq(Cases)]
         /\ x.kind \in {"block", "label", "case", "loop", "switch"}
BY DEF Items

LEMMA MarksDistinct == Anchor \notin Symbols /\ Nil \notin Symbols /\ Anchor # Nil
BY DEF Anchor, Nil, Symbols

\* A label's key is not a case's.
LEMMA KeysApart == Symbols \cap Cases = {}
BY NamesAssumption DEF Symbols, Cases

-----------------------------------------------------------------------------
(* What opening and closing a construct does to the open ones              *)

LEMMA Pushes ==
  ASSUME TypeOK, NEW item \in Items, nest' = Append(nest, item)
  PROVE  /\ nest' \in Seq(Items) /\ Len(nest) \in Nat /\ Len(nest') = Len(nest) + 1
         /\ \A k \in 1..Len(nest) : nest'[k] = nest[k]
         /\ nest'[Len(nest) + 1] = item
BY DEF TypeOK

LEMMA Pops ==
  ASSUME TypeOK, nest # <<>>
  PROVE  /\ Outer \in Seq(Items) /\ Len(nest) \in Nat \ {0} /\ Len(Outer) = Len(nest) - 1
         /\ \A k \in 1..(Len(nest) - 1) : Outer[k] = nest[k]
         /\ Top \in Items /\ Top = nest[Len(nest)]
<1>1. nest \in Seq(Items) /\ Len(nest) \in Nat \ {0}
  BY DEF TypeOK
<1>2. \A i \in 1..(Len(nest) - 1) : nest[i] \in Items
  BY <1>1
<1>3. Outer \in Seq(Items) /\ Len(Outer) = Len(nest) - 1
      /\ \A k \in 1..(Len(nest) - 1) : Outer[k] = nest[k]
  <2> DEFINE n == Len(nest) - 1
  <2>1. n \in Nat /\ \A i \in 1..n : nest[i] \in Items
    BY <1>1, <1>2
  <2> HIDE DEF n
  <2>2. SubSeq(nest, 1, n) \in Seq(Items) /\ Len(SubSeq(nest, 1, n)) = n
        /\ \A k \in 1..n : SubSeq(nest, 1, n)[k] = nest[k]
    BY <2>1
  <2> QED BY <2>2 DEF Outer, n
<1> QED BY <1>1, <1>3 DEF Top

LEMMA SwitchItems ==
  ASSUME TypeOK, NEW i \in Indices("switch")
  PROVE  /\ i \in 1..Len(nest) /\ Len(nest) \in Nat /\ nest[i].kind = "switch"
         /\ nest[i] \in [kind : {"switch"}, switch : Nat, list : Seq(Cases), owned : Seq(Cases)]
<1>1. i \in 1..Len(nest) /\ nest[i].kind = "switch" /\ Len(nest) \in Nat /\ nest[i] \in Items
  BY DEF TypeOK, Indices
<1> QED BY <1>1, ItemKinds

\* A case that its closest switch is given.
LEMMA Gives ==
  ASSUME TypeOK, nest # <<>>, Top.kind = "case", NEW c \in Cases
  PROVE  /\ Given(c) \in Seq(Items) /\ Len(Given(c)) = Len(nest) - 1
         /\ \A k \in 1..(Len(nest) - 1) :
              Given(c)[k] = IF Innermost(k)
                            THEN [nest[k] EXCEPT !.owned = Append(nest[k].owned, c)]
                            ELSE nest[k]
<1>1. CASE Indices("switch") = {}
  <2>1. Given(c) = Outer
    BY <1>1 DEF Given
  <2>2. \A k : ~Innermost(k)
    BY <1>1 DEF Innermost
  <2> QED BY <2>1, <2>2, Pops
<1>2. CASE Indices("switch") # {}
  <2> DEFINE m == Closest
  <2>1. Innermost(m)
    BY <1>2, ClosestExists
  <2>2. m \in Indices("switch") /\ m \in 1..Len(nest) /\ Len(nest) \in Nat
        /\ nest[m] \in [kind : {"switch"}, switch : Nat, list : Seq(Cases), owned : Seq(Cases)]
    BY <2>1, SwitchItems DEF Innermost
  <2>3. \A k : Innermost(k) <=> k = m
    <3>1. \A k : Innermost(k) => k \in Nat /\ k <= m /\ m <= k
      BY <2>1, <2>2, SwitchItems DEF Innermost
    <3> QED BY <2>1, <2>2, <3>1
  <2>4. m # Len(nest)
    BY <2>2, Pops, ItemKinds DEF Indices
  <2>5. m \in 1..(Len(nest) - 1)
    BY <2>2, <2>4
  <2> DEFINE x == [nest[m] EXCEPT !.owned = Append(nest[m].owned, c)]
  <2>6. x \in Items
    <3>1. Append(nest[m].owned, c) \in Seq(Cases)
      BY <2>2
    <3>2. x \in [kind : {"switch"}, switch : Nat, list : Seq(Cases), owned : Seq(Cases)]
      BY <2>2, <3>1
    <3> QED BY <3>2 DEF Items
  <2>7. Given(c) = [Outer EXCEPT ![m] = x]
    <3>1. Outer[m] = nest[m]
      BY <2>5, Pops
    <3> QED BY <1>2, <3>1 DEF Given
  <2> HIDE DEF m
  <2>8. Given(c) \in Seq(Items) /\ Len(Given(c)) = Len(nest) - 1
        /\ \A k \in 1..(Len(nest) - 1) : Given(c)[k] = IF k = m THEN x ELSE nest[k]
    BY <2>5, <2>6, <2>7, Pops
  <2> QED BY <2>3, <2>8
<1> QED BY <1>1, <1>2

-----------------------------------------------------------------------------
(* Every variable keeps its type                                           *)

LEMMA LeftTypes ==
  ASSUME TypeOK, NEW where \in {"closed", "open", "ended", "crashed"}, Left(where)
  PROVE  /\ nest' \in Seq(Items) /\ done' \in BOOLEAN /\ phase' \in {"closed", "open", "ended", "crashed"}
         /\ loop' \in Nat /\ switch' \in Nat /\ labelList' \in Seq(Cases) /\ ready' \in BOOLEAN
         /\ gotos' \in SUBSET Symbols /\ targets' \in SUBSET Symbols /\ file' \in 0..NFiles
<1>1. nest' = <<>> /\ done' = FALSE /\ phase' = where
      /\ UNCHANGED <<loop, switch, labelList, ready, gotos, targets, file>>
  BY DEF Left, contexts
<1>2. <<>> \in Seq(Items)
  OBVIOUS
<1> QED BY <1>1, <1>2 DEF TypeOK

LEMMA EndedTypes ==
  ASSUME TypeOK, NEW rest \in Seq(Items), Ended(rest)
  PROVE  nest' \in Seq(Items) /\ done' \in BOOLEAN
BY DEF Ended

LEMMA OpenedTypes ==
  ASSUME TypeOK, NEW item \in Items, Opened(item)
  PROVE  nest' \in Seq(Items) /\ done' \in BOOLEAN
BY Pushes DEF Opened

LEMMA LinkTypes ==
  ASSUME TypeOK, NEW s \in Symbols, InsertTail(s) \/ Unlink(s)
  PROVE  /\ next' \in [Symbols \cup {Anchor} -> Symbols \cup {Nil}]
         /\ prev' \in [Symbols \cup {Anchor} -> Symbols \cup {Anchor}]
<1>1. /\ next \in [Symbols \cup {Anchor} -> Symbols \cup {Nil}]
      /\ prev \in [Symbols \cup {Anchor} -> Symbols \cup {Anchor}]
  BY DEF TypeOK
<1>2. CASE InsertTail(s)
  BY <1>1, <1>2 DEF InsertTail
<1>3. CASE Unlink(s)
  BY <1>1, <1>3 DEF Unlink
<1> QED BY <1>2, <1>3

LEMMA LabelTypes ==
  ASSUME TypeOK, NEW k \in Symbols \cup Cases, NEW lv \in Nat, NEW def \in BOOLEAN
  PROVE  /\ labels \cup {Label(k, lv, def)} \in SUBSET [key : Symbols \cup Cases, level : Nat, def : BOOLEAN]
         /\ \A S : (labels \ S) \cup {Label(k, lv, def)} \in
                    SUBSET [key : Symbols \cup Cases, level : Nat, def : BOOLEAN]
<1>1. Label(k, lv, def) \in [key : Symbols \cup Cases, level : Nat, def : BOOLEAN]
  BY DEF Label
<1> QED BY <1>1 DEF TypeOK

LEMMA ReadPops ==
  ASSUME TypeOK, Shape, NEW kind, Read(kind)
  PROVE  nest # <<>> /\ Top.kind = kind
BY DEF Read, Shape

LEMMA StartsOpen ==
  ASSUME TypeOK, Shape, MayStart
  PROVE  nest # <<>> /\ nest[1].kind = "block" /\ phase = "open" /\ ~done
BY DEF MayStart, Shape

LEMMA SwitchItemTyped ==
  ASSUME TypeOK
  PROVE  SwitchItem \in Items
<1>1. switch \in Nat /\ labelList \in Seq(Cases) /\ <<>> \in Seq(Cases)
  BY DEF TypeOK
<1>2. SwitchItem \in [kind : {"switch"}, switch : Nat, list : Seq(Cases), owned : Seq(Cases)]
  BY <1>1 DEF SwitchItem
<1> QED BY <1>2 DEF Items

LEMMA TypesStep ==
  ASSUME TypeOK, Shape, [Next]_vars
  PROVE  TypeOK'
<1>1. CASE OpenBody
  <2>1. << [kind |-> "block"] >> \in Seq(Items)
    BY DEF Items
  <2>2. file' \in 0..NFiles
    BY <1>1, BoundsAssumption DEF OpenBody, TypeOK
  <2>3. /\ next' \in [Symbols \cup {Anchor} -> Symbols \cup {Nil}]
        /\ prev' \in [Symbols \cup {Anchor} -> Symbols \cup {Anchor}]
    BY <1>1 DEF OpenBody, TypeOK
  <2> QED BY <1>1, <2>1, <2>2, <2>3 DEF OpenBody, TypeOK, contexts
<1>2. CASE Abort
  BY <1>2, LeftTypes DEF Abort, TypeOK, undefined
<1>3. CASE CloseBody
  <2>1. labels' \in SUBSET [key : Symbols \cup Cases, level : Nat, def : BOOLEAN]
    BY <1>3 DEF CloseBody, Kept, TypeOK
  <2> QED BY <1>3, <2>1, LeftTypes DEF CloseBody, TypeOK, undefined
<1>4. ASSUME NEW kind \in {"block", "label", "case"}, Open(kind) PROVE TypeOK'
  <2>1. [kind |-> kind] \in Items
    BY DEF Items
  <2> QED BY <1>4, <2>1, OpenedTypes DEF Open, TypeOK, contexts, undefined
<1>5. CASE CloseBlock
  <2>1. nest # <<>>
    BY <1>5, StartsOpen DEF CloseBlock
  <2>2. nest' \in Seq(Items) /\ done' \in BOOLEAN
    BY <1>5, <2>1, Pops, EndedTypes DEF CloseBlock
  <2>3. labels' \in SUBSET [key : Symbols \cup Cases, level : Nat, def : BOOLEAN]
    BY <1>5 DEF CloseBlock, Kept, TypeOK
  <2> QED BY <1>5, <2>2, <2>3 DEF CloseBlock, TypeOK, contexts, undefined
<1>6. CASE Statement
  BY <1>6, EndedTypes DEF Statement, TypeOK, contexts, undefined
<1>7. CASE Break \/ Continue
  <2>1. nest \in Seq(Items)
    BY DEF TypeOK
  <2>2. CASE Left("closed")
    BY <1>7, <2>2, LeftTypes DEF Break, Continue, TypeOK, undefined
  <2>3. CASE Ended(nest) /\ UNCHANGED <<contexts, gotos, targets, file, phase>>
    BY <1>7, <2>1, <2>3, EndedTypes DEF Break, Continue, TypeOK, undefined, contexts
  <2> QED BY <1>7, <2>2, <2>3 DEF Break, Continue
<1>8. CASE OpenLoop
  <2>1. [kind |-> "loop", loop |-> loop] \in Items /\ loop' \in Nat
    BY <1>8, LevelIsBlocks DEF Items, TypeOK, OpenLoop
  <2> QED BY <1>8, <2>1, OpenedTypes DEF OpenLoop, TypeOK, undefined
<1>9. CASE CloseLoop
  <2>1. nest # <<>> /\ loop' \in Nat
    BY <1>9, ReadPops, Pops, ItemKinds DEF CloseLoop
  <2>2. nest' \in Seq(Items) /\ done' \in BOOLEAN
    BY <1>9, <2>1, Pops, EndedTypes DEF CloseLoop
  <2> QED BY <1>9, <2>1, <2>2 DEF CloseLoop, TypeOK, undefined
<1>10. CASE OpenSwitch
  <2>1. SwitchItem \in Items /\ switch' \in Nat /\ labelList' \in Seq(Cases)
    <3>1. <<>> \in Seq(Cases)
      OBVIOUS
    <3> QED BY <1>10, <3>1, LevelIsBlocks, SwitchItemTyped DEF OpenSwitch
  <2>2. nest' \in Seq(Items) /\ done' \in BOOLEAN
    BY <1>10, <2>1, OpenedTypes DEF OpenSwitch
  <2> QED BY <1>10, <2>1, <2>2 DEF OpenSwitch, TypeOK, undefined
<1>11. CASE CloseSwitch
  <2>1. nest # <<>> /\ switch' \in Nat /\ labelList' \in Seq(Cases)
    BY <1>11, ReadPops, Pops, ItemKinds DEF CloseSwitch
  <2>2. nest' \in Seq(Items) /\ done' \in BOOLEAN
    BY <1>11, <2>1, Pops, EndedTypes DEF CloseSwitch
  <2> QED BY <1>11, <2>1, <2>2 DEF CloseSwitch, TypeOK, undefined
<1>12. ASSUME NEW c \in Cases, CloseCase(c) PROVE TypeOK'
  <2>1. nest # <<>> /\ Top.kind = "case"
    BY <1>12, ReadPops DEF CloseCase
  <2>2. CASE switch = 0 \/ FoundCase(c) # {}
    BY <1>12, <2>2, LeftTypes DEF CloseCase, TypeOK, undefined
  <2>3. CASE ~(switch = 0 \/ FoundCase(c) # {})
    <3>1. labels' \in SUBSET [key : Symbols \cup Cases, level : Nat, def : BOOLEAN]
      BY <1>12, <2>3, LabelTypes DEF CloseCase, TypeOK
    <3>2. CASE ready
      <4>1. nest' \in Seq(Items) /\ done' \in BOOLEAN
        BY <1>12, <2>1, <2>3, <3>2, Gives, EndedTypes DEF CloseCase
      <4>2. labelList' \in Seq(Cases) /\ loop' \in Nat /\ switch' \in Nat /\ ready' \in BOOLEAN
        <5>1. labelList' = Append(labelList, c) /\ UNCHANGED <<loop, switch, ready>>
          BY <1>12, <2>3, <3>2 DEF CloseCase
        <5> QED BY <5>1 DEF TypeOK
      <4> QED BY <1>12, <2>3, <3>1, <3>2, <4>1, <4>2 DEF CloseCase, TypeOK, undefined
    <3>3. CASE ~ready
      BY <1>12, <2>3, <3>1, <3>3, LeftTypes DEF CloseCase, TypeOK, undefined
    <3> QED BY <3>2, <3>3
  <2> QED BY <2>2, <2>3
<1>13. ASSUME NEW s \in Symbols, Goto(s) PROVE TypeOK'
  <2>1. nest' \in Seq(Items) /\ done' \in BOOLEAN
    BY <1>13, EndedTypes DEF Goto, TypeOK
  <2>2. labels' \in SUBSET [key : Symbols \cup Cases, level : Nat, def : BOOLEAN]
    BY <1>13, LabelTypes DEF Goto, TypeOK
  <2>3. /\ next' \in [Symbols \cup {Anchor} -> Symbols \cup {Nil}]
        /\ prev' \in [Symbols \cup {Anchor} -> Symbols \cup {Anchor}]
    BY <1>13, LinkTypes DEF Goto, TypeOK, undefined
  <2> QED BY <1>13, <2>1, <2>2, <2>3 DEF Goto, TypeOK, contexts
<1>14. ASSUME NEW s \in Symbols, CloseLabel(s) PROVE TypeOK'
  <2>0. nest # <<>>
    BY <1>14, ReadPops DEF CloseLabel
  <2>1. CASE Left("closed") /\ UNCHANGED <<labels, undefined>>
    BY <2>1, LeftTypes DEF TypeOK, undefined
  <2>2. CASE /\ labels' = (labels \ Found(s)) \cup {Label(s, 1, TRUE)}
             /\ Unlink(s)
             /\ targets' = targets \cup {s} /\ Ended(Outer)
             /\ UNCHANGED <<contexts, gotos, file, phase>>
    <3>1. nest' \in Seq(Items) /\ done' \in BOOLEAN
      BY <2>0, <2>2, Pops, EndedTypes
    <3>2. labels' \in SUBSET [key : Symbols \cup Cases, level : Nat, def : BOOLEAN]
      BY <2>2, LabelTypes
    <3>3. targets' \in SUBSET Symbols
      BY <2>2 DEF TypeOK
    <3> QED BY <2>2, <3>1, <3>2, <3>3, LinkTypes DEF TypeOK, contexts
  <2>3. CASE Ended(Outer) /\ UNCHANGED <<contexts, labels, undefined, gotos, targets, file, phase>>
    <3>1. nest' \in Seq(Items) /\ done' \in BOOLEAN
      BY <2>0, <2>3, Pops, EndedTypes
    <3> QED BY <2>3, <3>1 DEF TypeOK, contexts, undefined
  <2> QED BY <1>14, <2>1, <2>2, <2>3 DEF CloseLabel
<1>15. CASE UNCHANGED vars
  BY <1>15 DEF vars, contexts, undefined, TypeOK
<1> QED BY <1>1, <1>2, <1>3, <1>4, <1>5, <1>6, <1>7, <1>8, <1>9, <1>10, <1>11, <1>12, <1>13,
           <1>14, <1>15 DEF Next

-----------------------------------------------------------------------------
(* The body's block is the outermost construct                             *)

LEMMA InnerPops ==
  ASSUME TypeOK, Shape, phase = "open", nest # <<>>, Top.kind # "block" \/ Len(nest) > 1
  PROVE  Len(nest) \in Nat /\ Len(nest) > 1 /\ Outer # <<>> /\ Outer[1] = nest[1] /\ nest[1].kind = "block"
<1>1. nest[1].kind = "block" /\ Len(nest) \in Nat \ {0} /\ Top = nest[Len(nest)]
  BY Pops DEF Shape
<1>2. Len(nest) > 1
  BY <1>1
<1>3. 1 \in 1..(Len(nest) - 1)
  BY <1>1, <1>2
<1> QED BY <1>1, <1>2, <1>3, Pops

LEMMA ShapeStep ==
  ASSUME TypeOK, Shape, [Next]_vars
  PROVE  Shape'
<1>1. CASE OpenBody
  BY <1>1 DEF OpenBody, Shape
<1>2. ASSUME NEW where \in {"closed", "ended", "crashed"}, Left(where) PROVE Shape'
  BY <1>2 DEF Left, Shape
<1>3. ASSUME NEW item \in Items, MayStart, Opened(item), UNCHANGED phase PROVE Shape'
  <2>1. nest # <<>> /\ nest[1].kind = "block" /\ phase = "open" /\ nest' = Append(nest, item)
    BY <1>3, StartsOpen DEF Opened
  <2>2. Len(nest) \in Nat \ {0} /\ Len(nest') = Len(nest) + 1 /\ nest'[1] = nest[1]
    BY <2>1, Pushes, Pops
  <2>3. nest' # <<>>
    BY <2>2
  <2> QED BY <1>3, <2>1, <2>2, <2>3 DEF Shape
<1>4. ASSUME NEW kind, kind # "block", Read(kind), Ended(Outer), UNCHANGED phase PROVE Shape'
  BY <1>4, ReadPops, InnerPops DEF Ended, Shape, Read
<1>5. CASE nest' = nest /\ phase' = phase
  BY <1>5 DEF Shape
<1>6. CASE Abort
  BY <1>2, <1>6 DEF Abort
<1>7. CASE CloseBody
  BY <1>2, <1>7 DEF CloseBody
<1>8. ASSUME NEW kind \in {"block", "label", "case"}, Open(kind) PROVE Shape'
  <2>1. [kind |-> kind] \in Items
    BY DEF Items
  <2> QED BY <1>3, <1>8, <2>1 DEF Open
<1>9. CASE CloseBlock
  BY <1>9, StartsOpen, InnerPops DEF CloseBlock, Ended, Shape
<1>10. CASE Statement \/ Break \/ Continue
  BY <1>2, <1>5, <1>10 DEF Statement, Break, Continue, Ended
<1>11. CASE OpenLoop
  <2>1. [kind |-> "loop", loop |-> loop] \in Items
    BY DEF Items, TypeOK
  <2> QED BY <1>3, <1>11, <2>1 DEF OpenLoop
<1>12. CASE CloseLoop
  BY <1>4, <1>12 DEF CloseLoop
<1>13. CASE OpenSwitch
  <2>1. SwitchItem \in Items
    BY SwitchItemTyped
  <2> QED BY <1>3, <1>13, <2>1 DEF OpenSwitch
<1>14. CASE CloseSwitch
  BY <1>4, <1>14 DEF CloseSwitch
<1>15. ASSUME NEW c \in Cases, CloseCase(c) PROVE Shape'
  <2>1. CASE Left("closed") \/ Left("crashed")
    BY <1>2, <2>1
  <2>2. CASE Ended(Given(c)) /\ UNCHANGED phase
    <3>1. nest # <<>> /\ Top.kind = "case" /\ phase = "open"
      BY <1>15, ReadPops DEF CloseCase, Read
    <3>2. Len(nest) > 1 /\ Len(nest) \in Nat /\ nest[1].kind = "block"
      BY <3>1, InnerPops
    <3>3. 1 \in 1..(Len(nest) - 1) /\ ~Innermost(1)
      BY <3>2 DEF Innermost, Indices
    <3>4. Given(c)[1] = nest[1]
      BY <3>1, <3>3, Gives
    <3>5. Given(c) # <<>>
      BY <3>1, <3>2, Gives
    <3> QED BY <2>2, <3>1, <3>2, <3>4, <3>5 DEF Ended, Shape
  <2> QED BY <1>15, <2>1, <2>2 DEF CloseCase
<1>16. ASSUME NEW s \in Symbols, Goto(s) PROVE Shape'
  BY <1>5, <1>16 DEF Goto, Ended
<1>17. ASSUME NEW s \in Symbols, CloseLabel(s) PROVE Shape'
  BY <1>2, <1>4, <1>17 DEF CloseLabel
<1>18. CASE UNCHANGED vars
  BY <1>5, <1>18 DEF vars
<1> QED BY <1>1, <1>6, <1>7, <1>8, <1>9, <1>10, <1>11, <1>12, <1>13, <1>14, <1>15, <1>16, <1>17,
           <1>18 DEF Next

-----------------------------------------------------------------------------
(* The constructs of a kind, and the blocks around them                    *)

LEMMA PushIndices ==
  ASSUME TypeOK, NEW item \in Items, nest' = Append(nest, item)
  PROVE  /\ \A kind : Indices(kind)' = IF item.kind = kind THEN Indices(kind) \cup {Len(nest) + 1}
                                       ELSE Indices(kind)
         /\ \A i \in 0..Len(nest) : Blocks(nest', i) = Blocks(nest, i)
         /\ item.kind # "block" => Blocks(nest', Len(nest) + 1) = Blocks(nest, Len(nest))
<1>1. /\ Len(nest) \in Nat /\ Len(nest') = Len(nest) + 1
      /\ \A k \in 1..Len(nest) : nest'[k] = nest[k]
      /\ nest'[Len(nest) + 1] = item
  BY Pushes
<1>2. \A kind : Indices(kind)' = IF item.kind = kind THEN Indices(kind) \cup {Len(nest) + 1}
                                 ELSE Indices(kind)
  BY <1>1 DEF Indices
<1>3. \A i \in 0..Len(nest) : Blocks(nest', i) = Blocks(nest, i)
  <2> TAKE i \in 0..Len(nest)
  <2>1. i \in Nat /\ \A k \in 1..i : nest'[k].kind = nest[k].kind
    BY <1>1
  <2> QED BY <2>1, BlocksSame
<1>4. ASSUME item.kind # "block" PROVE Blocks(nest', Len(nest) + 1) = Blocks(nest', Len(nest))
  <2> DEFINE n == Len(nest)
  <2>1. n \in Nat /\ n + 1 \in Nat /\ n <= n + 1 /\ \A k \in (n + 1)..(n + 1) : nest'[k].kind # "block"
    BY <1>1, <1>4
  <2> HIDE DEF n
  <2>2. Blocks(nest', n + 1) = Blocks(nest', n)
    BY <2>1, BlocksNone
  <2> QED BY <2>2 DEF n
<1>5. Len(nest) \in 0..Len(nest)
  BY <1>1
<1> QED BY <1>2, <1>3, <1>4, <1>5

LEMMA PopIndices ==
  ASSUME TypeOK, nest # <<>>, Len(nest') = Len(nest) - 1,
         \A k \in 1..(Len(nest) - 1) : nest'[k].kind = nest[k].kind
  PROVE  /\ \A kind : Indices(kind)' = Indices(kind) \ {Len(nest)}
         /\ \A i \in 0..(Len(nest) - 1) : Blocks(nest', i) = Blocks(nest, i)
<1>1. Len(nest) \in Nat \ {0}
  BY Pops
<1>2. \A kind : Indices(kind)' = Indices(kind) \ {Len(nest)}
  BY <1>1 DEF Indices
<1>3. \A i \in 0..(Len(nest) - 1) : Blocks(nest', i) = Blocks(nest, i)
  <2> TAKE i \in 0..(Len(nest) - 1)
  <2>1. i \in Nat /\ \A k \in 1..i : nest'[k].kind = nest[k].kind
    BY <1>1
  <2> QED BY <2>1, BlocksSame
<1> QED BY <1>2, <1>3

-----------------------------------------------------------------------------
(* A switch's context is in force, or saved by the next switch inside it   *)

LEMMA NoSwitches ==
  ASSUME nest' = <<>> \/ nest' = << [kind |-> "block"] >>
  PROVE  SwitchContexts' /\ CasesRecorded'
<1>1. Indices("switch")' = {}
  BY DEF Indices
<1> QED BY <1>1 DEF SwitchContexts, CasesRecorded

LEMMA ContextsSame ==
  ASSUME TypeOK, SwitchContexts, Indices("switch")' = Indices("switch"),
         \A i \in Indices("switch") : nest'[i] = nest[i] /\ Blocks(nest', i) = Blocks(nest, i),
         switch' = switch, labelList' = labelList
  PROVE  SwitchContexts'
BY DEF SwitchContexts, Innermost, Follows

\* Another construct opens or closes.
LEMMA ContextsPush ==
  ASSUME TypeOK, SwitchContexts, NEW item \in Items, item.kind # "switch",
         nest' = Append(nest, item), switch' = switch, labelList' = labelList
  PROVE  SwitchContexts'
<1>1. Indices("switch")' = Indices("switch")
  BY PushIndices
<1>2. \A i \in Indices("switch") : nest'[i] = nest[i] /\ Blocks(nest', i) = Blocks(nest, i)
  BY PushIndices, Pushes, SwitchItems
<1> QED BY <1>1, <1>2, ContextsSame

LEMMA ContextsPop ==
  ASSUME TypeOK, SwitchContexts, nest # <<>>, Top.kind # "switch",
         nest' = Outer, switch' = switch, labelList' = labelList
  PROVE  SwitchContexts'
<1>1. Len(nest) \in Nat \ {0} /\ nest[Len(nest)].kind # "switch"
  BY Pops
<1>2. \A i \in Indices("switch") : i \in 1..(Len(nest) - 1)
  BY <1>1 DEF Indices
<1>3. Len(nest') = Len(nest) - 1 /\ \A k \in 1..(Len(nest) - 1) : nest'[k] = nest[k]
  BY Pops
<1>4. Indices("switch")' = Indices("switch")
  <2>1. Indices("switch")' = Indices("switch") \ {Len(nest)}
    BY <1>3, PopIndices
  <2>2. Len(nest) \notin Indices("switch")
    BY <1>1 DEF Indices
  <2> QED BY <2>1, <2>2
<1>5. \A i \in Indices("switch") : nest'[i] = nest[i] /\ Blocks(nest', i) = Blocks(nest, i)
  BY <1>1, <1>2, <1>3, PopIndices
<1> QED BY <1>4, <1>5, ContextsSame

LEMMA ContextsOpenSwitch ==
  ASSUME TypeOK, SwitchContexts, nest' = Append(nest, SwitchItem),
         switch' = level + 1, labelList' = <<>>
  PROVE  SwitchContexts'
<1> DEFINE n == Len(nest)
           I == Indices("switch")
<1>1. SwitchItem \in Items /\ SwitchItem.kind = "switch" /\ SwitchItem.switch = switch
      /\ SwitchItem.list = labelList /\ SwitchItem.owned = <<>>
  BY SwitchItemTyped DEF SwitchItem
<1>2. /\ n \in Nat /\ nest'[n + 1] = SwitchItem /\ \A k \in 1..n : nest'[k] = nest[k]
  BY <1>1, Pushes
<1>3. /\ Indices("switch")' = I \cup {n + 1}
      /\ \A i \in 0..n : Blocks(nest', i) = Blocks(nest, i)
      /\ Blocks(nest', n + 1) = Blocks(nest, n)
  BY <1>1, PushIndices
<1>4. \A i \in I : i \in 1..n
  BY SwitchItems
<1> HIDE DEF n, I
<1>5. \A i \in Indices("switch")' : Innermost(i)' => i = n + 1
  BY <1>2, <1>3, <1>4 DEF Innermost
<1>6. switch' = Blocks(nest', n + 1) + 1 /\ labelList' = nest'[n + 1].owned
  BY <1>1, <1>2, <1>3, LevelIsBlocks DEF n
<1>7. ASSUME NEW i \in Indices("switch")', NEW j \in Indices("switch")', Follows(i, j)'
      PROVE  nest'[j].switch = Blocks(nest', i) + 1 /\ nest'[j].list = nest'[i].owned
  <2>1. i < j /\ \A k \in Indices("switch")' : k <= i \/ j <= k
    BY <1>7 DEF Follows
  <2>2. i \in I /\ i \in 1..n /\ i \in 0..n
    BY <1>2, <1>3, <1>4, <2>1
  <2>2a. Blocks(nest', i) = Blocks(nest, i) /\ nest'[i] = nest[i]
    <3>1. nest'[i] = nest[i]
      BY <1>2, <2>2
    <3>2. Blocks(nest', i) = Blocks(nest, i)
      BY <1>3, <2>2
    <3> QED BY <3>1, <3>2
  <2>3. CASE j = n + 1
    <3>1. Innermost(i)
      BY <1>2, <1>3, <1>4, <2>1, <2>2, <2>3 DEF Innermost, I
    <3>2. switch = Blocks(nest, i) + 1 /\ labelList = nest[i].owned
      BY <2>2, <3>1 DEF SwitchContexts, I
    <3> QED BY <1>1, <1>2, <2>2a, <2>3, <3>2
  <2>4. CASE j # n + 1
    <3>1. j \in I /\ j \in 1..n
      BY <1>3, <1>4, <2>4
    <3>2. Follows(i, j)
      BY <1>3, <2>1, <2>2, <3>1 DEF Follows, I
    <3>3. nest'[j] = nest[j]
      BY <1>2, <3>1
    <3> QED BY <2>2, <2>2a, <3>1, <3>2, <3>3 DEF SwitchContexts, I
  <2> QED BY <2>3, <2>4
<1> QED BY <1>5, <1>6, <1>7 DEF SwitchContexts

LEMMA ContextsCloseSwitch ==
  ASSUME TypeOK, SwitchContexts, nest # <<>>, Top.kind = "switch",
         nest' = Outer, switch' = Top.switch, labelList' = Top.list
  PROVE  SwitchContexts'
<1> DEFINE n == Len(nest)
           I == Indices("switch")
<1>1. n \in Nat \ {0} /\ n \in I /\ Top = nest[n]
      /\ Len(nest') = n - 1 /\ \A k \in 1..(n - 1) : nest'[k] = nest[k]
  BY Pops DEF Indices
<1>2. Indices("switch")' = I \ {n} /\ \A i \in 0..(n - 1) : Blocks(nest', i) = Blocks(nest, i)
  BY <1>1, PopIndices
<1>3. \A i \in I : i \in 1..n
  BY SwitchItems
<1> HIDE DEF n, I
<1>4. ASSUME NEW i \in Indices("switch")' PROVE i \in 1..(n - 1) /\ i \in I
  <2>1. n \in Nat /\ i \in I /\ i # n /\ i \in 1..n
    BY <1>1, <1>2, <1>3
  <2> QED BY <2>1
<1>5. ASSUME NEW i \in Indices("switch")', Innermost(i)'
      PROVE  switch' = Blocks(nest', i) + 1 /\ labelList' = nest'[i].owned
  <2>1. Follows(i, n)
    BY <1>1, <1>2, <1>3, <1>4, <1>5 DEF Follows, Innermost, I
  <2>2. nest[n].switch = Blocks(nest, i) + 1 /\ nest[n].list = nest[i].owned
    BY <1>1, <1>4, <2>1 DEF SwitchContexts, I
  <2> QED BY <1>1, <1>2, <1>4, <2>2
<1>6. ASSUME NEW i \in Indices("switch")', NEW j \in Indices("switch")', Follows(i, j)'
      PROVE  nest'[j].switch = Blocks(nest', i) + 1 /\ nest'[j].list = nest'[i].owned
  <2>1. Follows(i, j)
    BY <1>1, <1>2, <1>3, <1>4, <1>6 DEF Follows, I
  <2> QED BY <1>1, <1>2, <1>4, <2>1 DEF SwitchContexts, I
<1> QED BY <1>5, <1>6 DEF SwitchContexts

LEMMA GiveIndices ==
  ASSUME TypeOK, nest # <<>>, Top.kind = "case", NEW c \in Cases, nest' = Given(c)
  PROVE  /\ Indices("switch")' = Indices("switch") /\ Len(nest') = Len(nest) - 1
         /\ \A i \in Indices("switch") : i \in 1..(Len(nest) - 1) /\ Blocks(nest', i) = Blocks(nest, i)
         /\ \A k \in 1..(Len(nest) - 1) : nest'[k].kind = nest[k].kind
<1>1. Len(nest) \in Nat \ {0} /\ nest[Len(nest)].kind = "case"
  BY Pops
<1>2. \A i \in Indices("switch") : i \in 1..(Len(nest) - 1)
  BY <1>1 DEF Indices
<1>3. Len(nest') = Len(nest) - 1 /\ \A k \in 1..(Len(nest) - 1) : nest'[k].kind = nest[k].kind
  <2>1. \A k : Innermost(k) => nest[k] \in
          [kind : {"switch"}, switch : Nat, list : Seq(Cases), owned : Seq(Cases)]
    BY SwitchItems DEF Innermost
  <2> QED BY <2>1, Gives
<1>4. \A i \in 0..(Len(nest) - 1) : Blocks(nest', i) = Blocks(nest, i)
  BY <1>3, PopIndices
<1>5. Indices("switch")' = Indices("switch") \ {Len(nest)}
  BY <1>3, PopIndices
<1>6. Len(nest) \notin Indices("switch")
  BY <1>1 DEF Indices
<1>7. \A i \in Indices("switch") : i \in 0..(Len(nest) - 1)
  BY <1>1, <1>2
<1>8. Indices("switch")' = Indices("switch")
  BY <1>5, <1>6
<1> QED BY <1>2, <1>3, <1>4, <1>7, <1>8

LEMMA ContextsCase ==
  ASSUME TypeOK, SwitchContexts, nest # <<>>, Top.kind = "case", NEW c \in Cases,
         nest' = Given(c), switch' = switch, labelList' = Append(labelList, c)
  PROVE  SwitchContexts'
<1>1. /\ Indices("switch")' = Indices("switch")
      /\ \A i \in Indices("switch") : i \in 1..(Len(nest) - 1) /\ Blocks(nest', i) = Blocks(nest, i)
  BY GiveIndices
<1>2. \A i \in Indices("switch") :
        nest'[i] = IF Innermost(i) THEN [nest[i] EXCEPT !.owned = Append(nest[i].owned, c)]
                   ELSE nest[i]
  BY <1>1, Gives
<1>3. \A i \in Indices("switch") : nest[i] \in
        [kind : {"switch"}, switch : Nat, list : Seq(Cases), owned : Seq(Cases)]
  BY SwitchItems
<1>4. \A i : (Innermost(i)' <=> Innermost(i)) /\ \A j : (Follows(i, j)' <=> Follows(i, j))
  BY <1>1 DEF Innermost, Follows
<1>5. ASSUME NEW i \in Indices("switch"), Innermost(i)
      PROVE  switch' = Blocks(nest', i) + 1 /\ labelList' = nest'[i].owned
  <2>1. switch = Blocks(nest, i) + 1 /\ labelList = nest[i].owned
    BY <1>5 DEF SwitchContexts
  <2>2. nest'[i].owned = Append(nest[i].owned, c)
    BY <1>2, <1>3, <1>5
  <2> QED BY <1>1, <2>1, <2>2
<1>6. ASSUME NEW i \in Indices("switch"), NEW j \in Indices("switch"), Follows(i, j)
      PROVE  nest'[j].switch = Blocks(nest', i) + 1 /\ nest'[j].list = nest'[i].owned
  <2>1. i < j /\ i \in 1..(Len(nest) - 1) /\ j \in 1..(Len(nest) - 1) /\ Len(nest) \in Nat
    BY <1>1, <1>6 DEF Follows, TypeOK
  <2>2. ~Innermost(i)
    BY <2>1 DEF Innermost
  <2>3. nest'[i] = nest[i] /\ nest'[j].switch = nest[j].switch /\ nest'[j].list = nest[j].list
    BY <1>2, <1>3, <2>2
  <2> QED BY <1>1, <1>6, <2>3 DEF SwitchContexts
<1> QED BY <1>1, <1>4, <1>5, <1>6 DEF SwitchContexts

LEMMA SwitchContextsStep ==
  ASSUME TypeOK, Shape, SwitchContexts, [Next]_vars
  PROVE  SwitchContexts'
<1>1. CASE OpenBody
  BY <1>1, NoSwitches DEF OpenBody
<1>2. ASSUME NEW where, Left(where) PROVE SwitchContexts'
  BY <1>2, NoSwitches DEF Left
<1>3. CASE nest' = nest /\ switch' = switch /\ labelList' = labelList
  <2>1. Indices("switch")' = Indices("switch")
    BY <1>3 DEF Indices
  <2> QED BY <1>3, <2>1, ContextsSame
<1>4. ASSUME NEW item \in Items, item.kind # "switch", Opened(item),
             switch' = switch, labelList' = labelList
      PROVE  SwitchContexts'
  BY <1>4, ContextsPush DEF Opened
<1>5. ASSUME nest # <<>>, Top.kind # "switch", Ended(Outer), switch' = switch, labelList' = labelList
      PROVE  SwitchContexts'
  BY <1>5, ContextsPop DEF Ended
<1>6. CASE Abort
  BY <1>2, <1>6 DEF Abort
<1>7. CASE CloseBody
  BY <1>2, <1>7 DEF CloseBody
<1>8. ASSUME NEW kind \in {"block", "label", "case"}, Open(kind) PROVE SwitchContexts'
  <2>1. [kind |-> kind] \in Items
    BY DEF Items
  <2> QED BY <1>4, <1>8, <2>1 DEF Open, contexts
<1>9. CASE CloseBlock
  BY <1>5, <1>9, StartsOpen DEF CloseBlock, contexts
<1>10. CASE Statement \/ Break \/ Continue
  BY <1>2, <1>3, <1>10 DEF Statement, Break, Continue, Ended, contexts
<1>11. CASE OpenLoop
  <2>1. [kind |-> "loop", loop |-> loop] \in Items
    BY DEF Items, TypeOK
  <2> QED BY <1>4, <1>11, <2>1 DEF OpenLoop
<1>12. CASE CloseLoop
  BY <1>5, <1>12, ReadPops DEF CloseLoop
<1>13. CASE OpenSwitch
  BY <1>13, ContextsOpenSwitch DEF OpenSwitch, Opened
<1>14. CASE CloseSwitch
  BY <1>14, ReadPops, ContextsCloseSwitch DEF CloseSwitch, Ended
<1>15. ASSUME NEW c \in Cases, CloseCase(c) PROVE SwitchContexts'
  <2>1. nest # <<>> /\ Top.kind = "case"
    BY <1>15, ReadPops DEF CloseCase
  <2>2. CASE Left("closed") \/ Left("crashed")
    BY <1>2, <2>2
  <2>3. CASE labelList' = Append(labelList, c) /\ Ended(Given(c)) /\ switch' = switch
    BY <2>1, <2>3, ContextsCase DEF Ended
  <2> QED BY <1>15, <2>2, <2>3 DEF CloseCase
<1>16. ASSUME NEW s \in Symbols, Goto(s) PROVE SwitchContexts'
  BY <1>3, <1>16 DEF Goto, Ended, contexts
<1>17. ASSUME NEW s \in Symbols, CloseLabel(s) PROVE SwitchContexts'
  <2>1. nest # <<>> /\ Top.kind = "label"
    BY <1>17, ReadPops DEF CloseLabel
  <2> QED BY <1>2, <1>5, <1>17, <2>1 DEF CloseLabel, contexts
<1>18. CASE UNCHANGED vars
  BY <1>3, <1>18 DEF vars, contexts
<1> QED BY <1>1, <1>6, <1>7, <1>8, <1>9, <1>10, <1>11, <1>12, <1>13, <1>14, <1>15, <1>16, <1>17,
           <1>18 DEF Next

-----------------------------------------------------------------------------
(* The cases of a switch's block stay in the label table                   *)

\* The cases of switch i that are in the table, in any state of it.
Recorded(S, own, lv) ==
  IsInjective(own) /\ \A n \in DOMAIN own : \E x \in S : x.key = own[n] /\ x.level = lv

LEMMA RecordedKept ==
  ASSUME NEW S, NEW T, NEW own \in Seq(Cases), NEW lv, Recorded(S, own, lv),
         \A x \in S : x.key \in Cases /\ x.level = lv => x \in T
  PROVE  Recorded(T, own, lv)
<1>1. \A n \in DOMAIN own : own[n] \in Cases
  OBVIOUS
<1> QED BY <1>1 DEF Recorded

LEMMA CasesByRecord ==
  CasesRecorded <=>
    \A i \in Indices("switch") :
      /\ i = Len(nest) /\ ~done => nest[i].owned = <<>>
      /\ i < Len(nest) /\ nest[i + 1].kind = "block" =>
           Recorded(labels, nest[i].owned, Blocks(nest, i) + 1)
BY DEF CasesRecorded, Recorded

LEMMA CasesPush ==
  ASSUME TypeOK, CasesRecorded, NEW item \in Items, nest' = Append(nest, item), ~done,
         item.kind = "switch" => item.owned = <<>>, labels' = labels
  PROVE  CasesRecorded'
<1> DEFINE n == Len(nest)
<1>1. n \in Nat /\ Len(nest') = n + 1 /\ nest'[n + 1] = item /\ \A k \in 1..n : nest'[k] = nest[k]
  BY Pushes
<1>2. /\ Indices("switch")' = IF item.kind = "switch" THEN Indices("switch") \cup {n + 1}
                              ELSE Indices("switch")
      /\ \A i \in 0..n : Blocks(nest', i) = Blocks(nest, i)
  BY PushIndices
<1>3. n = Len(nest)
  OBVIOUS
<1> HIDE DEF n
<1>4. SUFFICES ASSUME NEW i \in Indices("switch")'
               PROVE  /\ i = Len(nest') /\ ~done' => nest'[i].owned = <<>>
                      /\ i < Len(nest') /\ nest'[i + 1].kind = "block" =>
                           Recorded(labels', nest'[i].owned, Blocks(nest', i) + 1)
  BY DEF CasesRecorded, Recorded
<1>5. CASE i = n + 1
  <2>1. item.kind = "switch"
    <3>1. nest'[i].kind = "switch"
      BY DEF Indices
    <3> QED BY <1>1, <1>5, <3>1
  <2> QED BY <1>1, <1>5, <2>1
<1>6. CASE i # n + 1
  <2>1. i \in Indices("switch")
    BY <1>2, <1>6
  <2>2. i \in 1..n /\ i \in 0..n
    BY <1>1, <1>3, <2>1, SwitchItems
  <2>3. Blocks(nest', i) = Blocks(nest, i)
    BY <1>2, <2>2
  <2>4. nest'[i] = nest[i]
    BY <1>1, <2>2
  <2>5. CASE i = n
    <3>1. nest[i].owned = <<>>
      BY <1>3, <2>1, <2>5 DEF CasesRecorded
    <3>2. Recorded(labels', nest'[i].owned, Blocks(nest', i) + 1)
      BY <2>4, <3>1 DEF Recorded, IsInjective
    <3>3. i # Len(nest')
      BY <1>1, <2>5
    <3> QED BY <3>2, <3>3
  <2>6. CASE i # n
    <3>1. i < n /\ i + 1 \in 1..n
      BY <1>1, <2>2, <2>6
    <3>2. nest'[i + 1] = nest[i + 1]
      BY <1>1, <3>1
    <3>3. nest[i + 1].kind = "block" => Recorded(labels, nest[i].owned, Blocks(nest, i) + 1)
      BY <1>3, <2>1, <3>1 DEF CasesRecorded, Recorded
    <3>4. i # Len(nest')
      BY <1>1, <2>2
    <3>5. nest'[i + 1].kind = "block" => Recorded(labels', nest'[i].owned, Blocks(nest', i) + 1)
      BY <2>3, <2>4, <3>2, <3>3
    <3> QED BY <3>4, <3>5
  <2> QED BY <2>5, <2>6
<1> QED BY <1>5, <1>6

LEMMA CasesPop ==
  ASSUME TypeOK, CasesRecorded, nest # <<>>, Len(nest) > 1, Ended(Outer),
         \A i \in Indices("switch") : i < Len(nest) - 1 /\ nest[i + 1].kind = "block" =>
           \A x \in labels : x.key \in Cases /\ x.level = Blocks(nest, i) + 1 => x \in labels'
  PROVE  CasesRecorded'
<1> DEFINE n == Len(nest)
<1>1. n \in Nat /\ n > 1 /\ Len(nest') = n - 1 /\ \A k \in 1..(n - 1) : nest'[k] = nest[k]
  BY Pops DEF Ended
<1>2. /\ Indices("switch")' = Indices("switch") \ {n}
      /\ \A i \in 0..(n - 1) : Blocks(nest', i) = Blocks(nest, i)
  BY <1>1, PopIndices
<1>3. done' = (nest'[n - 1].kind \in Wrapper)
  BY <1>1 DEF Ended
<1>4. n = Len(nest)
  OBVIOUS
<1> HIDE DEF n
<1>5. SUFFICES ASSUME NEW i \in Indices("switch")'
               PROVE  /\ i = Len(nest') /\ ~done' => nest'[i].owned = <<>>
                      /\ i < Len(nest') /\ nest'[i + 1].kind = "block" =>
                           Recorded(labels', nest'[i].owned, Blocks(nest', i) + 1)
  BY DEF CasesRecorded, Recorded
<1>6. i \in Indices("switch") /\ i # n
  BY <1>2
<1>7. i \in 1..(n - 1) /\ i \in 0..(n - 1)
  <2>1. i \in 1..n
    BY <1>4, <1>6, SwitchItems
  <2> QED BY <1>1, <1>6, <2>1
<1>8. nest'[i] = nest[i]
  BY <1>1, <1>7
<1>9. Blocks(nest', i) = Blocks(nest, i)
  BY <1>2, <1>7
<1>10. i = Len(nest') => done'
  <2>1. nest[i].kind = "switch"
    BY <1>6, SwitchItems
  <2> QED BY <1>1, <1>3, <1>8, <2>1 DEF Wrapper
<1>11. ASSUME i < Len(nest'), nest'[i + 1].kind = "block"
       PROVE  Recorded(labels', nest'[i].owned, Blocks(nest', i) + 1)
  <2>1. i < n - 1 /\ i + 1 \in 1..(n - 1) /\ i < n
    BY <1>1, <1>7, <1>11
  <2>2. nest[i + 1].kind = "block"
    BY <1>1, <1>11, <2>1
  <2>3. Recorded(labels, nest[i].owned, Blocks(nest, i) + 1)
    BY <1>4, <1>6, <2>1, <2>2 DEF CasesRecorded, Recorded
  <2>4. \A x \in labels : x.key \in Cases /\ x.level = Blocks(nest, i) + 1 => x \in labels'
    BY <1>4, <1>6, <2>1, <2>2
  <2>5. nest[i].owned \in Seq(Cases)
    BY <1>6, SwitchItems
  <2> QED BY <1>8, <1>9, <2>3, <2>4, <2>5, RecordedKept
<1> QED BY <1>10, <1>11

LEMMA CasesCase ==
  ASSUME TypeOK, SwitchContexts, CasesRecorded, nest # <<>>, Len(nest) > 1, Top.kind = "case",
         NEW c \in Cases, Ended(Given(c)), FoundCase(c) = {},
         labels' = labels \cup {Label(c, switch, TRUE)}
  PROVE  CasesRecorded'
<1> DEFINE n == Len(nest)
<1>1. n \in Nat /\ n > 1 /\ Len(nest') = n - 1
  BY GiveIndices DEF Ended, TypeOK
<1>2. \A k \in 1..(n - 1) :
        nest'[k] = IF Innermost(k) THEN [nest[k] EXCEPT !.owned = Append(nest[k].owned, c)]
                   ELSE nest[k]
  BY Gives DEF Ended
<1>3. /\ Indices("switch")' = Indices("switch")
      /\ \A i \in Indices("switch") : i \in 1..(n - 1) /\ Blocks(nest', i) = Blocks(nest, i)
      /\ \A k \in 1..(n - 1) : nest'[k].kind = nest[k].kind
  BY GiveIndices DEF Ended
<1>4. done' = (nest'[n - 1].kind \in Wrapper) /\ n = Len(nest)
  BY <1>1 DEF Ended
<1> HIDE DEF n
<1>5. SUFFICES ASSUME NEW i \in Indices("switch")
               PROVE  /\ i = Len(nest') /\ ~done' => nest'[i].owned = <<>>
                      /\ i < Len(nest') /\ nest'[i + 1].kind = "block" =>
                           Recorded(labels', nest'[i].owned, Blocks(nest', i) + 1)
  BY <1>3 DEF CasesRecorded, Recorded
<1>6. i \in 1..(n - 1) /\ Blocks(nest', i) = Blocks(nest, i)
      /\ nest[i] \in [kind : {"switch"}, switch : Nat, list : Seq(Cases), owned : Seq(Cases)]
  BY <1>3, SwitchItems
<1>7. i = Len(nest') => done'
  <2>1. nest'[i].kind = "switch"
    BY <1>3, <1>6
  <2> QED BY <1>1, <1>4, <2>1 DEF Wrapper
<1>8. ASSUME i < Len(nest'), nest'[i + 1].kind = "block"
      PROVE  Recorded(labels', nest'[i].owned, Blocks(nest', i) + 1)
  <2> DEFINE own == nest[i].owned
             lv == Blocks(nest, i) + 1
  <2>1. i < n - 1 /\ i + 1 \in 1..(n - 1) /\ i < n
    BY <1>1, <1>6, <1>8
  <2>2. nest[i + 1].kind = "block"
    BY <1>3, <1>8, <2>1
  <2>3. Recorded(labels, own, lv)
    BY <1>4, <2>1, <2>2 DEF CasesRecorded, Recorded
  <2>4. own \in Seq(Cases)
    BY <1>6
  <2>5. CASE ~Innermost(i)
    <3>1. nest'[i] = nest[i]
      BY <1>2, <1>6, <2>5
    <3>2. Recorded(labels', own, lv)
      BY <2>3, <2>4, RecordedKept
    <3> QED BY <1>6, <3>1, <3>2
  <2>6. CASE Innermost(i)
    <3>1. switch = lv
      BY <2>6 DEF SwitchContexts
    <3>2. nest'[i].owned = Append(own, c)
      <4>1. nest'[i] = [nest[i] EXCEPT !.owned = Append(nest[i].owned, c)]
        BY <1>2, <1>6, <2>6
      <4> QED BY <1>6, <4>1
    <3>3. lv \in Nat
      BY <3>1 DEF TypeOK
    <3> HIDE DEF own, lv
    <3>4. \A m \in DOMAIN own : own[m] # c
      <4> SUFFICES ASSUME NEW m \in DOMAIN own, own[m] = c PROVE FALSE
        OBVIOUS
      <4>1. PICK x \in labels : x.key = c /\ x.level = lv
        BY <2>3 DEF Recorded
      <4>2. x \in FoundCase(c)
        BY <3>1, <3>3, <4>1 DEF FoundCase
      <4> QED BY <4>2
    <3>5. Label(c, switch, TRUE) \in labels' /\ labels \subseteq labels'
          /\ Label(c, switch, TRUE).key = c /\ Label(c, switch, TRUE).level = lv
      BY <3>1 DEF Label
    <3>6. DOMAIN Append(own, c) = 1..(Len(own) + 1) /\ DOMAIN own = 1..Len(own) /\ Len(own) \in Nat
          /\ \A m \in 1..(Len(own) + 1) :
               Append(own, c)[m] = IF m = Len(own) + 1 THEN c ELSE own[m]
      BY <2>4
    <3>7. \A m \in 1..(Len(own) + 1) : m # Len(own) + 1 => m \in DOMAIN own
      BY <3>6
    <3>8. IsInjective(Append(own, c))
      <4> SUFFICES ASSUME NEW a \in 1..(Len(own) + 1), NEW b \in 1..(Len(own) + 1),
                          Append(own, c)[a] = Append(own, c)[b]
                   PROVE  a = b
        BY <3>6 DEF IsInjective
      <4> QED BY <2>3, <3>4, <3>6, <3>7 DEF Recorded, IsInjective
    <3>9. ASSUME NEW m \in DOMAIN Append(own, c)
          PROVE  \E x \in labels' : x.key = Append(own, c)[m] /\ x.level = lv
      <4>1. CASE m = Len(own) + 1
        BY <3>5, <3>6, <3>9, <4>1
      <4>2. CASE m # Len(own) + 1
        BY <2>3, <3>5, <3>6, <3>7, <3>9, <4>2 DEF Recorded
      <4> QED BY <4>1, <4>2
    <3>10. Recorded(labels', Append(own, c), lv)
      BY <3>8, <3>9 DEF Recorded
    <3> QED BY <1>6, <3>2, <3>10 DEF lv
  <2> QED BY <2>5, <2>6
<1> QED BY <1>7, <1>8

LEMMA CasesStep ==
  ASSUME TypeOK, Shape, SwitchContexts, CasesRecorded, [Next]_vars
  PROVE  CasesRecorded'
<1>1. CASE OpenBody
  BY <1>1, NoSwitches DEF OpenBody
<1>2. ASSUME NEW where, Left(where) PROVE CasesRecorded'
  BY <1>2, NoSwitches DEF Left
\* An expression, a goto or a jump that is accepted: what is around it is done.
<1>3. ASSUME nest' = nest, done' = done \/ done' = (Top.kind \in Wrapper), labels \subseteq labels'
      PROVE  CasesRecorded'
  <2>1. SUFFICES ASSUME NEW i \in Indices("switch")
                 PROVE  /\ i = Len(nest) /\ ~done' => nest[i].owned = <<>>
                        /\ i < Len(nest) /\ nest[i + 1].kind = "block" =>
                             Recorded(labels', nest[i].owned, Blocks(nest, i) + 1)
    BY <1>3 DEF CasesRecorded, Recorded, Indices
  <2>2. ASSUME i = Len(nest), ~done' PROVE nest[i].owned = <<>>
    <3>1. Top.kind \in Wrapper
      BY <2>1, <2>2, SwitchItems DEF Top, Wrapper
    <3>2. ~done
      BY <1>3, <2>2, <3>1, Zenon
    <3> QED BY <2>1, <2>2, <3>2 DEF CasesRecorded
  <2>3. ASSUME i < Len(nest), nest[i + 1].kind = "block"
        PROVE  Recorded(labels', nest[i].owned, Blocks(nest, i) + 1)
    <3>1. Recorded(labels, nest[i].owned, Blocks(nest, i) + 1)
      BY <2>1, <2>3 DEF CasesRecorded, Recorded
    <3>2. nest[i].owned \in Seq(Cases)
      BY <2>1, SwitchItems
    <3> QED BY <1>3, <3>1, <3>2, RecordedKept
  <2> QED BY <2>2, <2>3
<1>4. ASSUME NEW item \in Items, MayStart, Opened(item), item.kind = "switch" => item.owned = <<>>,
             UNCHANGED labels
      PROVE  CasesRecorded'
  BY <1>4, CasesPush DEF Opened, MayStart
<1>5. ASSUME NEW kind, kind # "block", Read(kind), Ended(Outer), UNCHANGED labels
      PROVE  CasesRecorded'
  <2>1. nest # <<>> /\ Len(nest) > 1
    BY <1>5, ReadPops, InnerPops DEF Read
  <2> QED BY <1>5, <2>1, CasesPop
<1>6. CASE Abort
  BY <1>2, <1>6 DEF Abort
<1>7. CASE CloseBody
  BY <1>2, <1>7 DEF CloseBody
<1>8. ASSUME NEW kind \in {"block", "label", "case"}, Open(kind) PROVE CasesRecorded'
  <2>1. [kind |-> kind] \in Items
    BY DEF Items
  <2> QED BY <1>4, <1>8, <2>1 DEF Open
<1>9. CASE CloseBlock
  <2>1. nest # <<>> /\ Len(nest) > 1 /\ Len(nest) \in Nat /\ nest[Len(nest)].kind = "block"
    BY <1>9, StartsOpen, Pops DEF CloseBlock
  <2>2. ASSUME NEW i \in Indices("switch"), i < Len(nest) - 1, nest[i + 1].kind = "block",
               NEW x \in labels, x.level = Blocks(nest, i) + 1
        PROVE  x \in labels'
    <3> DEFINE n == Len(nest)
    <3>1. i \in 1..n /\ i \in Nat /\ n \in Nat /\ i + 1 \in Nat /\ i + 1 \in (i + 1)..(i + 1)
          /\ n \in (i + 1 + 1)..n
      BY <2>1, <2>2, SwitchItems
    <3>2. nest[n].kind = "block"
      BY <2>1
    <3> HIDE DEF n
    <3>3. Blocks(nest, i + 1) >= Blocks(nest, i) + 1
      BY <2>2, <3>1, BlocksMore
    <3>4. Blocks(nest, n) >= Blocks(nest, i + 1) + 1
      BY <3>1, <3>2, BlocksMore
    <3>5. level = Blocks(nest, n) /\ Blocks(nest, i) \in Nat /\ Blocks(nest, i + 1) \in Nat
          /\ Blocks(nest, n) \in Nat
      BY <3>1, LevelIsBlocks, BlocksNat DEF n
    <3>6. x.level < level
      BY <2>2, <3>3, <3>4, <3>5
    <3> QED BY <1>9, <3>6 DEF CloseBlock, Kept
  <2> QED BY <1>9, <2>1, <2>2, CasesPop DEF CloseBlock
<1>10. CASE Statement \/ Break \/ Continue
  BY <1>2, <1>3, <1>10 DEF Statement, Break, Continue, Ended, Top
<1>11. CASE OpenLoop
  <2>1. [kind |-> "loop", loop |-> loop] \in Items
    BY DEF Items, TypeOK
  <2> QED BY <1>4, <1>11, <2>1 DEF OpenLoop
<1>12. CASE CloseLoop
  BY <1>5, <1>12 DEF CloseLoop
<1>13. CASE OpenSwitch
  <2>1. SwitchItem.owned = <<>>
    BY DEF SwitchItem
  <2> QED BY <1>4, <1>13, <2>1, SwitchItemTyped DEF OpenSwitch
<1>14. CASE CloseSwitch
  BY <1>5, <1>14 DEF CloseSwitch
<1>15. ASSUME NEW c \in Cases, CloseCase(c) PROVE CasesRecorded'
  <2>1. nest # <<>> /\ Top.kind = "case" /\ Len(nest) > 1
    BY <1>15, ReadPops, InnerPops DEF CloseCase, Read
  <2>2. CASE Left("closed") \/ Left("crashed")
    BY <1>2, <2>2
  <2>3. CASE /\ FoundCase(c) = {} /\ labels' = labels \cup {Label(c, switch, TRUE)}
             /\ Ended(Given(c))
    BY <2>1, <2>3, CasesCase
  <2> QED BY <1>15, <2>2, <2>3 DEF CloseCase
<1>16. ASSUME NEW s \in Symbols, Goto(s) PROVE CasesRecorded'
  <2>1. labels \subseteq labels'
    BY <1>16 DEF Goto
  <2> QED BY <1>3, <1>16, <2>1 DEF Goto, Ended, Top
<1>17. ASSUME NEW s \in Symbols, CloseLabel(s) PROVE CasesRecorded'
  <2>1. nest # <<>> /\ Len(nest) > 1
    BY <1>17, ReadPops, InnerPops DEF CloseLabel, Read
  <2>2. CASE Left("closed")
    BY <1>2, <2>2
  <2>3. CASE labels' = (labels \ Found(s)) \cup {Label(s, 1, TRUE)} /\ Ended(Outer)
    <3>1. \A x \in labels : x.key \in Cases => x \in labels'
      BY <2>3, KeysApart DEF Found
    <3> QED BY <2>1, <2>3, <3>1, CasesPop
  <2>4. CASE Ended(Outer) /\ UNCHANGED labels
    BY <2>1, <2>4, CasesPop
  <2> QED BY <1>17, <2>2, <2>3, <2>4 DEF CloseLabel
<1>18. CASE UNCHANGED vars
  BY <1>3, <1>18 DEF vars
<1> QED BY <1>1, <1>6, <1>7, <1>8, <1>9, <1>10, <1>11, <1>12, <1>13, <1>14, <1>15, <1>16, <1>17,
           <1>18 DEF Next

-----------------------------------------------------------------------------
(* In the first file the levels tell whether there is one around           *)

LEMMA SavedPush ==
  ASSUME TypeOK, NEW item \in Items, nest' = Append(nest, item), NEW kind, item.kind # kind,
         NEW lv, LevelTells(nest, kind, lv)
  PROVE  LevelTells(nest', kind, lv)
<1> DEFINE n == Len(nest)
<1>1. n \in Nat /\ Len(nest') = n + 1 /\ nest'[n + 1] = item /\ \A k \in 1..n : nest'[k] = nest[k]
  BY Pushes
<1>2. OfKind(nest', kind) = OfKind(nest, kind)
  BY <1>1 DEF OfKind
<1>3. \A i \in OfKind(nest, kind) : nest'[i] = nest[i]
  BY <1>1 DEF OfKind
<1> QED BY <1>2, <1>3 DEF LevelTells

LEMMA SavedOpen ==
  ASSUME TypeOK, NEW item \in Items, nest' = Append(nest, item),
         NEW lv, LevelTells(nest, item.kind, lv), Saved(item) = lv,
         NEW lw, lw # 0
  PROVE  LevelTells(nest', item.kind, lw)
<1> DEFINE n == Len(nest)
           I == OfKind(nest, item.kind)
<1>1. n \in Nat /\ Len(nest') = n + 1 /\ nest'[n + 1] = item /\ \A k \in 1..n : nest'[k] = nest[k]
  BY Pushes
<1>2. OfKind(nest', item.kind) = I \cup {n + 1}
  BY <1>1 DEF OfKind
<1>3. \A i \in I : nest'[i] = nest[i] /\ i \in Nat /\ i < n + 1 /\ i # n + 1
  BY <1>1 DEF OfKind
<1> HIDE DEF n, I
<1>4. ASSUME NEW i \in I \cup {n + 1}
      PROVE  Saved(nest'[i]) # 0 <=> \E j \in I \cup {n + 1} : j < i
  <2>1. CASE i = n + 1
    <3>1. Saved(nest'[i]) = lv /\ (lv # 0 <=> I # {})
      BY <1>1, <2>1 DEF LevelTells, I
    <3>2. n \in Nat
      BY <1>1
    <3>3. (\E j \in I \cup {n + 1} : j < i) <=> I # {}
      <4>1. \A j \in I : j < i
        BY <1>3, <2>1
      <4>2. ~(n + 1 < i)
        BY <2>1, <3>2
      <4> QED BY <2>1, <4>1, <4>2
    <3> QED BY <3>1, <3>3
  <2>2. CASE i # n + 1
    <3>1. i \in I /\ nest'[i] = nest[i] /\ i < n + 1 /\ i \in Nat
      BY <1>3, <2>2
    <3>2. (\E j \in I \cup {n + 1} : j < i) <=> \E j \in I : j < i
      BY <1>1, <3>1
    <3> QED BY <3>1, <3>2 DEF LevelTells, I
  <2> QED BY <2>1, <2>2
<1> QED BY <1>2, <1>4 DEF LevelTells

LEMMA SavedPop ==
  ASSUME TypeOK, nest # <<>>, Len(nest') = Len(nest) - 1, NEW kind, Top.kind # kind,
         \A k \in 1..(Len(nest) - 1) : nest'[k].kind = nest[k].kind /\ Saved(nest'[k]) = Saved(nest[k]),
         NEW lv, LevelTells(nest, kind, lv)
  PROVE  LevelTells(nest', kind, lv)
<1>1. Len(nest) \in Nat \ {0} /\ nest[Len(nest)].kind # kind
  BY Pops
<1>2. OfKind(nest', kind) = OfKind(nest, kind)
  BY <1>1 DEF OfKind
<1>3. \A i \in OfKind(nest, kind) : Saved(nest'[i]) = Saved(nest[i])
  BY <1>1 DEF OfKind
<1> QED BY <1>2, <1>3 DEF LevelTells

LEMMA SavedClose ==
  ASSUME TypeOK, nest # <<>>, nest' = Outer, NEW lv, LevelTells(nest, Top.kind, lv)
  PROVE  LevelTells(nest', Top.kind, Saved(Top))
<1> DEFINE n == Len(nest)
           I == OfKind(nest, Top.kind)
<1>1. n \in Nat \ {0} /\ Len(nest') = n - 1 /\ \A k \in 1..(n - 1) : nest'[k] = nest[k]
      /\ Top = nest[n]
  BY Pops
<1>2. OfKind(nest', Top.kind) = I \ {n} /\ n \in I
  <2> DEFINE kind == Top.kind
  <2>1. nest[n].kind = kind
    BY DEF Top, n
  <2> HIDE DEF kind
  <2>2. n \in OfKind(nest, kind) /\ OfKind(nest', kind) = OfKind(nest, kind) \ {n}
    BY <1>1, <2>1 DEF OfKind
  <2> QED BY <2>2 DEF kind
<1>3. \A i \in I : i \in Nat /\ i <= n
  BY <1>1 DEF OfKind
<1>3a. \A i \in I \ {n} : nest'[i] = nest[i]
  BY <1>1 DEF OfKind
<1> HIDE DEF n, I
<1>4. Saved(Top) # 0 <=> I \ {n} # {}
  <2>1. Saved(nest[n]) # 0 <=> \E j \in I : j < n
    BY <1>2 DEF LevelTells, I
  <2>2. (\E j \in I : j < n) <=> I \ {n} # {}
    BY <1>1, <1>3
  <2>3. Top = nest[n]
    BY DEF Top, n
  <2> QED BY <2>1, <2>2, <2>3
<1>5. ASSUME NEW i \in I \ {n} PROVE Saved(nest'[i]) # 0 <=> \E j \in I \ {n} : j < i
  <2>1. Saved(nest'[i]) # 0 <=> \E j \in I : j < i
    BY <1>3a DEF LevelTells, I
  <2>2. (\E j \in I : j < i) <=> \E j \in I \ {n} : j < i
    BY <1>1, <1>3
  <2> QED BY <2>1, <2>2
<1> QED BY <1>2, <1>4, <1>5 DEF LevelTells

LEMMA LevelsStep ==
  ASSUME TypeOK, Shape, Untouched, LevelsSaved, [Next]_vars
  PROVE  LevelsSaved'
<1>1. CASE OpenBody
  <2>1. file' = 1 => file = 0
    BY <1>1 DEF OpenBody, TypeOK
  <2>2. file' = 1 => loop' = 0 /\ switch' = 0
    BY <1>1, <2>1 DEF OpenBody, contexts, Untouched
  <2>3. OfKind(nest', "loop") = {} /\ OfKind(nest', "switch") = {}
    BY <1>1 DEF OpenBody, OfKind
  <2> QED BY <2>2, <2>3 DEF LevelsSaved, LevelTells
<1>2. ASSUME phase' # "open" PROVE LevelsSaved'
  BY <1>2 DEF LevelsSaved
<1>3. SUFFICES ASSUME file' = 1, phase' = "open", ~OpenBody
               PROVE  LevelTells(nest', "loop", loop') /\ LevelTells(nest', "switch", switch')
  BY <1>1 DEF LevelsSaved
<1>4. file = 1 /\ phase = "open"
  <2>1. phase = "open"
    BY <1>3 DEF Next, Abort, CloseBody, Open, CloseBlock, Statement, Break, Continue, OpenLoop,
       CloseLoop, OpenSwitch, CloseSwitch, CloseCase, Goto, CloseLabel, MayStart, Read, vars
  <2>2. file' = file
    BY <1>3 DEF Next, Abort, CloseBody, Open, CloseBlock, Statement, Break, Continue, OpenLoop,
       CloseLoop, OpenSwitch, CloseSwitch, CloseCase, Goto, CloseLabel, vars, Left
  <2> QED BY <1>3, <2>1, <2>2
<1>5. LevelTells(nest, "loop", loop) /\ LevelTells(nest, "switch", switch)
  BY <1>4 DEF LevelsSaved
<1>6. ASSUME NEW where \in {"closed", "ended", "crashed"}, Left(where) PROVE FALSE
  BY <1>3, <1>6 DEF Left
<1>7. ASSUME NEW item \in Items, item.kind \notin {"loop", "switch"}, Opened(item),
             UNCHANGED <<loop, switch>>
      PROVE  LevelTells(nest', "loop", loop') /\ LevelTells(nest', "switch", switch')
  BY <1>5, <1>7, SavedPush DEF Opened
<1>8. ASSUME nest # <<>>, Top.kind \notin {"loop", "switch"}, Ended(Outer), UNCHANGED <<loop, switch>>
      PROVE  LevelTells(nest', "loop", loop') /\ LevelTells(nest', "switch", switch')
  BY <1>5, <1>8, SavedPop, Pops DEF Ended
<1>9. CASE nest' = nest /\ UNCHANGED <<loop, switch>>
  BY <1>5, <1>9
<1>10. CASE Abort \/ CloseBody
  BY <1>6, <1>10 DEF Abort, CloseBody
<1>11. ASSUME NEW kind \in {"block", "label", "case"}, Open(kind)
       PROVE  LevelTells(nest', "loop", loop') /\ LevelTells(nest', "switch", switch')
  <2>1. [kind |-> kind] \in Items
    BY DEF Items
  <2> QED BY <1>7, <1>11, <2>1 DEF Open, contexts
<1>12. CASE CloseBlock
  BY <1>8, <1>12, StartsOpen DEF CloseBlock, contexts
<1>13. CASE Statement \/ Break \/ Continue
  BY <1>6, <1>9, <1>13 DEF Statement, Break, Continue, Ended, contexts
<1>14. CASE OpenLoop
  <2> DEFINE item == [kind |-> "loop", loop |-> loop]
  <2>1. item \in Items /\ item.kind = "loop" /\ Saved(item) = loop
    BY DEF Items, TypeOK, Saved
  <2>2. nest' = Append(nest, item) /\ switch' = switch /\ loop' = level + 1
    BY <1>14 DEF OpenLoop, Opened
  <2>3. loop' # 0
    BY <2>2, LevelIsBlocks
  <2> HIDE DEF item
  <2> QED BY <1>5, <2>1, <2>2, <2>3, SavedOpen, SavedPush
<1>15. CASE CloseLoop
  <2>1. nest # <<>> /\ Top.kind = "loop" /\ nest' = Outer
    BY <1>15, ReadPops DEF CloseLoop, Ended
  <2>2. loop' = Saved(Top) /\ switch' = switch
    BY <1>15, <2>1 DEF CloseLoop, Saved
  <2> QED BY <1>5, <2>1, <2>2, SavedClose, SavedPop, Pops
<1>16. CASE OpenSwitch
  <2>1. SwitchItem \in Items /\ SwitchItem.kind = "switch" /\ Saved(SwitchItem) = switch
    BY SwitchItemTyped DEF SwitchItem, Saved
  <2>2. nest' = Append(nest, SwitchItem) /\ loop' = loop /\ switch' = level + 1
    BY <1>16 DEF OpenSwitch, Opened
  <2>3. switch' # 0
    BY <2>2, LevelIsBlocks
  <2> QED BY <1>5, <2>1, <2>2, <2>3, SavedOpen, SavedPush
<1>17. CASE CloseSwitch
  <2>1. nest # <<>> /\ Top.kind = "switch" /\ nest' = Outer
    BY <1>17, ReadPops DEF CloseSwitch, Ended
  <2>2. switch' = Saved(Top) /\ loop' = loop
    BY <1>17, <2>1 DEF CloseSwitch, Saved
  <2> QED BY <1>5, <2>1, <2>2, SavedClose, SavedPop, Pops
<1>18. ASSUME NEW c \in Cases, CloseCase(c)
       PROVE  LevelTells(nest', "loop", loop') /\ LevelTells(nest', "switch", switch')
  <2>1. nest # <<>> /\ Top.kind = "case"
    BY <1>18, ReadPops DEF CloseCase
  <2>2. nest' = Given(c) /\ UNCHANGED <<loop, switch>>
    BY <1>6, <1>18 DEF CloseCase, Ended
  <2>3. Len(nest') = Len(nest) - 1
        /\ \A k \in 1..(Len(nest) - 1) : nest'[k].kind = nest[k].kind
    BY <2>1, <2>2, GiveIndices
  <2>4. ASSUME NEW k \in 1..(Len(nest) - 1) PROVE Saved(nest'[k]) = Saved(nest[k])
    <3>1. CASE Innermost(k)
      <4>1. nest[k] \in [kind : {"switch"}, switch : Nat, list : Seq(Cases), owned : Seq(Cases)]
        BY <3>1, SwitchItems DEF Innermost
      <4>2. nest'[k] = [nest[k] EXCEPT !.owned = Append(nest[k].owned, c)]
        BY <2>1, <2>2, <3>1, Gives
      <4> QED BY <4>1, <4>2 DEF Saved
    <3>2. CASE ~Innermost(k)
      BY <2>1, <2>2, <3>2, Gives
    <3> QED BY <3>1, <3>2
  <2> QED BY <1>5, <2>1, <2>2, <2>3, <2>4, SavedPop
<1>19. ASSUME NEW s \in Symbols, Goto(s)
       PROVE  LevelTells(nest', "loop", loop') /\ LevelTells(nest', "switch", switch')
  BY <1>9, <1>19 DEF Goto, Ended, contexts
<1>20. ASSUME NEW s \in Symbols, CloseLabel(s)
       PROVE  LevelTells(nest', "loop", loop') /\ LevelTells(nest', "switch", switch')
  <2>1. nest # <<>> /\ Top.kind = "label"
    BY <1>20, ReadPops DEF CloseLabel
  <2> QED BY <1>6, <1>8, <1>20, <2>1 DEF CloseLabel, contexts
<1>21. CASE UNCHANGED vars
  BY <1>9, <1>21 DEF vars, contexts
<1> QED BY <1>3, <1>10, <1>11, <1>12, <1>13, <1>14, <1>15, <1>16, <1>17, <1>18, <1>19, <1>20,
           <1>21 DEF Next

-----------------------------------------------------------------------------
(* The list of undefined labels (include/ey_queue.h)                       *)

LEMMA ListEmpty ==
  ASSUME NEW nx, NEW pv, NEW S, Lists(nx, pv, S), nx[Anchor] = Nil
  PROVE  S = {}
<1>1. PICK q \in Seq(Symbols) : S = {q[k] : k \in 1..Len(q)} /\ Linked(nx, pv, q)
  BY DEF Lists
<1>2. First(q) = Nil
  BY <1>1 DEF Linked
<1>3. q = <<>>
  <2> SUFFICES ASSUME q # <<>> PROVE FALSE
    OBVIOUS
  <2>1. First(q) \in Symbols
    BY DEF First
  <2> QED BY <1>2, <2>1, MarksDistinct
<1> QED BY <1>1, <1>3

\* TAILQ_INSERT_TAIL
LEMMA ListInsert ==
  ASSUME TypeOK, NEW S, Lists(next, prev, S), NEW s \in Symbols, s \notin S, InsertTail(s)
  PROVE  Lists(next', prev', S \cup {s})
<1>1. PICK q \in Seq(Symbols) : IsInjective(q) /\ S = {q[k] : k \in 1..Len(q)} /\ Linked(next, prev, q)
  BY DEF Lists
<1> DEFINE r == Append(q, s)
           n == Len(q)
           D == Symbols \cup {Anchor}
<1>2. /\ n \in Nat /\ r \in Seq(Symbols) /\ Len(r) = n + 1 /\ r[n + 1] = s
      /\ \A k \in 1..n : r[k] = q[k] /\ q[k] \in Symbols /\ q[k] # s /\ q[k] # Anchor
  BY <1>1, MarksDistinct
<1>3. \A j, k \in 1..n : q[j] = q[k] => j = k
  BY <1>1, <1>2 DEF IsInjective
<1>4. /\ DOMAIN next = D /\ DOMAIN prev = D /\ s \in D /\ Anchor \in D /\ s # Anchor
      /\ \A k \in 1..n : q[k] \in D
  BY <1>2, MarksDistinct DEF TypeOK
<1>5. /\ next[Anchor] = First(q) /\ prev[Anchor] = Final(q)
      /\ \A k \in 1..n : /\ next[q[k]] = IF k = n THEN Nil ELSE q[k + 1]
                         /\ prev[q[k]] = IF k = 1 THEN Anchor ELSE q[k - 1]
  BY <1>1 DEF Linked
<1>6. /\ next' = [next EXCEPT ![s] = Nil, ![prev[Anchor]] = s]
      /\ prev' = [prev EXCEPT ![s] = prev[Anchor], ![Anchor] = s]
  BY DEF InsertTail
<1>7. prev[Anchor] = IF n = 0 THEN Anchor ELSE q[n]
  BY <1>2, <1>5 DEF Final
<1>8. First(r) = r[1] /\ Final(r) = s
  BY <1>2 DEF First, Final
<1>9. q = <<>> <=> n = 0
  BY <1>1
<1> HIDE DEF r, n, D
<1>10. n # 0 => n \in 1..n /\ 1 \in 1..n
  BY <1>2
<1>11. IsInjective(r)
  <2>1. DOMAIN r = 1..(n + 1)
    BY <1>2
  <2>2. \A k \in 1..(n + 1) : k # n + 1 => k \in 1..n
    BY <1>2
  <2> QED BY <1>2, <1>3, <2>1, <2>2 DEF IsInjective
<1>12. S \cup {s} = {r[k] : k \in 1..(n + 1)}
  <2>1. S = {q[k] : k \in 1..n}
    BY <1>1 DEF n
  <2>2. \A k \in 1..(n + 1) : k # n + 1 => k \in 1..n
    BY <1>2
  <2>3. \A k \in 1..n : k \in 1..(n + 1)
    BY <1>2
  <2>4. n + 1 \in 1..(n + 1)
    BY <1>2
  <2>5. \A x \in {r[k] : k \in 1..(n + 1)} : x \in S \cup {s}
    BY <1>2, <2>1, <2>2
  <2>6. \A x \in S : x \in {r[k] : k \in 1..(n + 1)}
    BY <1>2, <2>1, <2>3
  <2> QED BY <1>2, <2>4, <2>5, <2>6
<1>13. next'[Anchor] = r[1] /\ prev'[Anchor] = s
  <2>1. prev'[Anchor] = s
    BY <1>4, <1>6
  <2>2. CASE n = 0
    <3>1. next'[Anchor] = s
      BY <1>4, <1>6, <1>7, <2>2
    <3> QED BY <1>2, <2>1, <2>2, <3>1
  <2>3. CASE n # 0
    <3>1. prev[Anchor] = q[n] /\ q[n] # Anchor
      BY <1>2, <1>7, <1>10, <2>3
    <3>2. next'[Anchor] = next[Anchor]
      BY <1>4, <1>6, <3>1
    <3>3. next[Anchor] = q[1] /\ r[1] = q[1]
      BY <1>2, <1>5, <1>9, <1>10, <2>3 DEF First
    <3> QED BY <2>1, <3>2, <3>3
  <2> QED BY <2>2, <2>3
<1>14. ASSUME NEW k \in 1..(n + 1)
       PROVE  /\ next'[r[k]] = IF k = n + 1 THEN Nil ELSE r[k + 1]
              /\ prev'[r[k]] = IF k = 1 THEN Anchor ELSE r[k - 1]
  <2>1. CASE k = n + 1
    <3>1. r[k] = s /\ prev'[s] = prev[Anchor]
      BY <1>2, <1>4, <1>6, <2>1
    <3>2. next'[s] = Nil
      <4>1. prev[Anchor] # s
        BY <1>2, <1>4, <1>7, <1>10
      <4> QED BY <1>4, <1>6, <4>1
    <3>3. prev[Anchor] = IF k = 1 THEN Anchor ELSE r[k - 1]
      BY <1>2, <1>7, <1>10, <2>1
    <3> QED BY <2>1, <3>1, <3>2, <3>3
  <2>2. CASE k # n + 1
    <3>1. k \in 1..n /\ k \in Int /\ n \in Nat
      BY <1>2, <2>2
    <3>2. r[k] = q[k] /\ q[k] # s /\ q[k] # Anchor /\ q[k] \in D
      BY <1>2, <1>4, <3>1
    <3>3. prev'[q[k]] = prev[q[k]]
      BY <1>4, <1>6, <3>2
    <3>4. prev[q[k]] = IF k = 1 THEN Anchor ELSE q[k - 1]
      BY <1>5, <3>1
    <3>5. k # 1 => k - 1 \in 1..n
      BY <3>1
    <3>6. prev'[r[k]] = IF k = 1 THEN Anchor ELSE r[k - 1]
      BY <1>2, <3>2, <3>3, <3>4, <3>5
    <3>7. CASE k = n
      <4>1. next'[q[k]] = s
        BY <1>4, <1>6, <1>7, <3>1, <3>2, <3>7
      <4> QED BY <1>2, <2>2, <3>2, <3>6, <3>7, <4>1
    <3>8. CASE k # n
      <4>1. n # 0 /\ n \in 1..n /\ q[k] # q[n]
        BY <1>3, <1>10, <3>1, <3>8
      <4>2. next'[q[k]] = next[q[k]]
        BY <1>4, <1>6, <1>7, <3>2, <4>1
      <4>3. k + 1 \in 1..n
        BY <3>1, <3>8
      <4>4. next[q[k]] = q[k + 1] /\ r[k + 1] = q[k + 1]
        BY <1>2, <1>5, <3>1, <3>8, <4>3
      <4> QED BY <2>2, <3>2, <3>6, <4>2, <4>4
    <3> QED BY <3>7, <3>8
  <2> QED BY <2>1, <2>2
<1>15. Linked(next', prev', r)
  BY <1>2, <1>8, <1>13, <1>14 DEF Linked
<1> QED BY <1>2, <1>11, <1>12, <1>15 DEF Lists

\* TAILQ_REMOVE
LEMMA ListUnlink ==
  ASSUME TypeOK, NEW S, Lists(next, prev, S), NEW s \in S, Unlink(s)
  PROVE  Lists(next', prev', S \ {s})
<1>1. PICK q \in Seq(Symbols) : IsInjective(q) /\ S = {q[k] : k \in 1..Len(q)} /\ Linked(next, prev, q)
  BY DEF Lists
<1> DEFINE n == Len(q)
           D == Symbols \cup {Anchor}
<1>2. PICK m \in 1..n : q[m] = s
  BY <1>1
<1> DEFINE r == [k \in 1..(n - 1) |-> IF k < m THEN q[k] ELSE q[k + 1]]
<1>3. n \in Nat /\ m \in Nat /\ m >= 1 /\ m <= n /\ DOMAIN q = 1..n
      /\ \A k \in 1..n : q[k] \in Symbols /\ q[k] # Anchor /\ q[k] # Nil
  BY <1>1, <1>2, MarksDistinct
<1>4. \A j, k \in 1..n : q[j] = q[k] => j = k
  BY <1>1, <1>3 DEF IsInjective
<1>5. DOMAIN next = D /\ DOMAIN prev = D /\ Anchor \in D /\ \A k \in 1..n : q[k] \in D
  BY <1>3 DEF TypeOK
<1>6. /\ next[Anchor] = First(q) /\ prev[Anchor] = Final(q)
      /\ \A k \in 1..n : /\ next[q[k]] = IF k = n THEN Nil ELSE q[k + 1]
                         /\ prev[q[k]] = IF k = 1 THEN Anchor ELSE q[k - 1]
  BY <1>1 DEF Linked
<1>7. q # <<>>
  BY <1>3
<1>8. next[Anchor] = q[1] /\ prev[Anchor] = q[n]
  BY <1>6, <1>7 DEF First, Final
<1> DEFINE p == prev[s]
           x == next[s]
           y == IF x = Nil THEN Anchor ELSE x
<1>9. /\ p = IF m = 1 THEN Anchor ELSE q[m - 1]
      /\ x = IF m = n THEN Nil ELSE q[m + 1]
      /\ m # 1 => m - 1 \in 1..n
      /\ m # n => m + 1 \in 1..n
  <2>1. prev[q[m]] = (IF m = 1 THEN Anchor ELSE q[m - 1]) /\ next[q[m]] = (IF m = n THEN Nil ELSE q[m + 1])
    BY <1>6
  <2>2. (m # 1 => m - 1 \in 1..n) /\ (m # n => m + 1 \in 1..n)
    <3>1. n \in Nat /\ m \in Nat /\ m >= 1 /\ m <= n
      BY <1>3
    <3> QED BY <3>1
  <2> QED BY <1>2, <2>1, <2>2
<1>10. y = IF m = n THEN Anchor ELSE q[m + 1]
  BY <1>3, <1>9
<1>11. next' = [next EXCEPT ![p] = x] /\ prev' = [prev EXCEPT ![y] = p]
  BY DEF Unlink
<1>12. p \in D /\ y \in D
  BY <1>5, <1>9, <1>10
<1>13. /\ DOMAIN r = 1..(n - 1)
       /\ \A k \in 1..(n - 1) : /\ k < m => r[k] = q[k] /\ k \in 1..n
                                /\ k >= m => r[k] = q[k + 1] /\ k + 1 \in 1..n
  BY <1>3
<1>14. r \in Seq(Symbols) /\ Len(r) = n - 1
  <2>1. n - 1 \in Nat
    BY <1>3
  <2>2. r \in [1..(n - 1) -> Symbols]
    BY <1>3, <1>13
  <2> QED BY <2>1, <2>2
<1> HIDE DEF r, n, D, p, x, y
<1>15. IsInjective(r)
  <2> SUFFICES ASSUME NEW a \in 1..(n - 1), NEW b \in 1..(n - 1), r[a] = r[b] PROVE a = b
    BY <1>13 DEF IsInjective
  <2>1. CASE a < m /\ b < m
    BY <1>4, <1>13, <2>1
  <2>2. CASE a < m /\ b >= m
    <3>1. a = b + 1
      BY <1>4, <1>13, <2>2
    <3> QED BY <1>3, <2>2, <3>1
  <2>3. CASE a >= m /\ b < m
    <3>1. a + 1 = b
      BY <1>4, <1>13, <2>3
    <3> QED BY <1>3, <2>3, <3>1
  <2>4. CASE a >= m /\ b >= m
    <3>1. a + 1 = b + 1
      BY <1>4, <1>13, <2>4
    <3> QED BY <3>1
  <2> QED BY <1>3, <2>1, <2>2, <2>3, <2>4
<1>16. S \ {s} = {r[k] : k \in 1..(n - 1)}
  <2>1. S = {q[k] : k \in 1..n}
    BY <1>1 DEF n
  <2>2. ASSUME NEW u \in S \ {s} PROVE u \in {r[k] : k \in 1..(n - 1)}
    <3>1. PICK k \in 1..n : u = q[k]
      BY <2>1, <2>2
    <3>2. k # m
      BY <1>2, <2>2, <3>1
    <3>3. CASE k < m
      <4>1. k \in 1..(n - 1) /\ r[k] = q[k]
        BY <1>3, <1>13, <3>3
      <4> QED BY <3>1, <4>1
    <3>4. CASE k > m
      <4>1. k - 1 \in 1..(n - 1) /\ k - 1 >= m /\ (k - 1) + 1 = k
        BY <1>3, <3>4
      <4>2. r[k - 1] = q[k]
        BY <1>13, <4>1
      <4> QED BY <3>1, <4>1, <4>2
    <3> QED BY <1>3, <3>2, <3>3, <3>4
  <2>3. ASSUME NEW k \in 1..(n - 1) PROVE r[k] \in S \ {s}
    <3>1. CASE k < m
      <4>1. r[k] = q[k] /\ k \in 1..n /\ k # m
        BY <1>3, <1>13, <3>1
      <4> QED BY <1>2, <1>4, <2>1, <4>1
    <3>2. CASE k >= m
      <4>1. r[k] = q[k + 1] /\ k + 1 \in 1..n /\ k + 1 # m
        BY <1>3, <1>13, <3>2
      <4> QED BY <1>2, <1>4, <2>1, <4>1
    <3> QED BY <1>3, <3>1, <3>2
  <2> QED BY <2>2, <2>3
<1>17. next'[Anchor] = First(r) /\ prev'[Anchor] = Final(r)
  <2>1. CASE n = 1
    <3>1. m = 1 /\ m = n /\ r = <<>>
      BY <1>3, <1>14, <2>1
    <3>2. p = Anchor /\ x = Nil /\ y = Anchor
      BY <1>9, <1>10, <3>1
    <3> QED BY <1>5, <1>11, <3>1, <3>2 DEF First, Final
  <2>2. CASE n # 1
    <3>1. n > 1 /\ 1 \in 1..(n - 1) /\ n - 1 \in 1..(n - 1) /\ r # <<>> /\ 1 \in 1..n /\ n \in 1..n
      BY <1>3, <1>14, <2>2
    <3>2. First(r) = r[1] /\ Final(r) = r[n - 1]
      BY <1>14, <3>1 DEF First, Final
    <3>3. next'[Anchor] = r[1]
      <4>1. CASE m = 1
        BY <1>5, <1>9, <1>11, <1>13, <3>1, <4>1
      <4>2. CASE m # 1
        <5>1. p # Anchor /\ r[1] = q[1]
          BY <1>3, <1>9, <1>13, <3>1, <4>2
        <5> QED BY <1>5, <1>8, <1>11, <5>1
      <4> QED BY <4>1, <4>2
    <3>4. prev'[Anchor] = r[n - 1]
      <4>1. CASE m = n
        <5>1. r[n - 1] = q[n - 1] /\ p = q[n - 1] /\ y = Anchor
          BY <1>3, <1>9, <1>10, <1>13, <3>1, <4>1
        <5> QED BY <1>5, <1>11, <5>1
      <4>2. CASE m # n
        <5>1. y # Anchor /\ n - 1 >= m /\ (n - 1) + 1 = n
          BY <1>3, <1>9, <1>10, <4>2
        <5>2. r[n - 1] = q[n]
          BY <1>13, <3>1, <5>1
        <5> QED BY <1>5, <1>8, <1>11, <5>1, <5>2
      <4> QED BY <4>1, <4>2
    <3> QED BY <3>2, <3>3, <3>4
  <2> QED BY <2>1, <2>2
\* An element keeps its links but for those of its neighbours that met s.
<1>18. ASSUME NEW k \in 1..n, k # m
       PROVE  /\ next'[q[k]] = IF k = m - 1 THEN x ELSE next[q[k]]
              /\ prev'[q[k]] = IF k = m + 1 THEN p ELSE prev[q[k]]
  <2>1. q[k] \in D /\ q[k] # Anchor
    BY <1>3, <1>5
  <2>2. q[k] = p <=> k = m - 1
    BY <1>3, <1>4, <1>9, <1>18, <2>1
  <2>3. q[k] = y <=> k = m + 1
    BY <1>3, <1>4, <1>9, <1>10, <1>18, <2>1
  <2> QED BY <1>5, <1>11, <2>1, <2>2, <2>3
<1>19. ASSUME NEW k \in 1..(n - 1)
       PROVE  /\ next'[r[k]] = IF k = n - 1 THEN Nil ELSE r[k + 1]
              /\ prev'[r[k]] = IF k = 1 THEN Anchor ELSE r[k - 1]
  <2>0. k \in Nat /\ k >= 1 /\ k <= n - 1
    BY <1>3
  <2>0a. k # n - 1 => k + 1 \in 1..(n - 1)
    BY <1>3, <2>0
  <2>0b. k # 1 => k - 1 \in 1..(n - 1)
    BY <1>3, <2>0
  <2>1. CASE k < m
    <3>1. r[k] = q[k] /\ k \in 1..n /\ k # m /\ k # n /\ k # m + 1
      BY <1>3, <1>13, <2>1
    <3>2. next'[q[k]] = (IF k = m - 1 THEN x ELSE q[k + 1])
          /\ prev'[q[k]] = (IF k = 1 THEN Anchor ELSE q[k - 1])
      BY <1>6, <1>18, <3>1
    <3>3. k # 1 => r[k - 1] = q[k - 1]
      <4>1. k - 1 < m
        BY <1>3, <2>0, <2>1
      <4> QED BY <1>13, <2>0b, <4>1
    <3>4. CASE k = m - 1
      <4>1. k + 1 = m /\ (k = n - 1 <=> m = n)
        BY <1>3, <2>0, <3>4
      <4>2. k # n - 1 => r[k + 1] = q[m + 1]
        <5>1. k + 1 >= m
          BY <1>3, <2>0, <3>4
        <5> QED BY <1>13, <2>0a, <4>1, <5>1
      <4> QED BY <1>9, <3>1, <3>2, <3>3, <3>4, <4>1, <4>2
    <3>5. CASE k # m - 1
      <4>1. k + 1 < m /\ k # n - 1
        BY <1>3, <2>0, <2>1, <3>5
      <4>2. r[k + 1] = q[k + 1]
        BY <1>13, <2>0a, <4>1
      <4> QED BY <3>1, <3>2, <3>3, <3>5, <4>1, <4>2
    <3> QED BY <3>4, <3>5
  <2>2. CASE k >= m
    <3>1. r[k] = q[k + 1] /\ k + 1 \in 1..n /\ k + 1 # m /\ k + 1 # m - 1 /\ k + 1 # 1
      BY <1>3, <1>13, <2>0, <2>2
    <3>2. (k + 1 = n <=> k = n - 1) /\ (k + 1) + 1 = k + 2 /\ (k + 1) - 1 = k
          /\ (k + 1 = m + 1 <=> k = m)
      BY <1>3, <2>0
    <3>3. next'[q[k + 1]] = (IF k = n - 1 THEN Nil ELSE q[k + 2])
          /\ prev'[q[k + 1]] = (IF k = m THEN p ELSE q[k])
      BY <1>6, <1>18, <3>1, <3>2
    <3>4. k # n - 1 => r[k + 1] = q[k + 2]
      <4>1. k + 1 >= m
        BY <1>3, <2>0, <2>2
      <4> QED BY <1>13, <2>0a, <3>2, <4>1
    <3>5. CASE k = m
      <4>1. k # 1 => r[k - 1] = q[m - 1]
        <5>1. k - 1 < m
          BY <1>3, <2>0, <3>5
        <5> QED BY <1>13, <2>0b, <3>5, <5>1
      <4> QED BY <1>9, <3>1, <3>3, <3>4, <3>5, <4>1
    <3>6. CASE k # m
      <4>1. k # 1 /\ k - 1 >= m /\ (k - 1) + 1 = k
        BY <1>3, <2>0, <2>2, <3>6
      <4>2. r[k - 1] = q[k]
        BY <1>13, <2>0b, <4>1
      <4> QED BY <3>1, <3>3, <3>4, <3>6, <4>1, <4>2
    <3> QED BY <3>5, <3>6
  <2> QED BY <1>3, <2>0, <2>1, <2>2
<1>20. Linked(next', prev', r)
  BY <1>14, <1>17, <1>19 DEF Linked
<1> QED BY <1>14, <1>15, <1>16, <1>20 DEF Lists

-----------------------------------------------------------------------------
(* In the first file the undefined labels are those on the list            *)

\* What GotosListed says of the table, whatever the phase.
LabelsListed ==
  /\ Lists(next, prev, Undefined)
  /\ \A x \in labels : x.key \in Symbols => x.level = 1
  /\ \A x, y \in labels : x.key \in Symbols /\ x.key = y.key => x = y
  /\ \A x \in labels : x.key \in Symbols /\ x.def => x.key \in targets
  /\ gotos \subseteq targets \cup Undefined

\* Labels of cases come and go.
LEMMA ListedSame ==
  ASSUME LabelsListed, UNCHANGED <<next, prev, gotos, targets>>,
         \A x : x.key \in Symbols => (x \in labels' <=> x \in labels)
  PROVE  LabelsListed'
<1>1. Undefined' = Undefined
  BY DEF Undefined
<1> QED BY <1>1 DEF LabelsListed

LEMMA ListedGoto ==
  ASSUME TypeOK, LabelsListed, NEW s \in Symbols, Goto(s)
  PROVE  LabelsListed'
<1>1. gotos' = gotos \cup {s} /\ targets' = targets
  BY DEF Goto
<1>2. CASE Found(s) = {}
  <2>1. labels' = labels \cup {Label(s, 1, FALSE)} /\ InsertTail(s)
    BY <1>2 DEF Goto
  <2>2. Label(s, 1, FALSE).key = s /\ Label(s, 1, FALSE).level = 1 /\ ~Label(s, 1, FALSE).def
    BY DEF Label
  <2>3. \A x \in labels : x.key # s
    BY <1>2 DEF Found
  <2>4. Undefined' = Undefined \cup {s} /\ s \notin Undefined
    BY <2>1, <2>2, <2>3 DEF Undefined
  <2>5. Lists(next', prev', Undefined')
    BY <2>1, <2>4, ListInsert DEF LabelsListed
  <2>6. /\ \A x \in labels' : x.key \in Symbols => x.level = 1
        /\ \A x, y \in labels' : x.key \in Symbols /\ x.key = y.key => x = y
        /\ \A x \in labels' : x.key \in Symbols /\ x.def => x.key \in targets'
    BY <1>1, <2>1, <2>2, <2>3 DEF LabelsListed
  <2>7. gotos' \subseteq targets' \cup Undefined'
    BY <1>1, <2>4 DEF LabelsListed
  <2> QED BY <2>5, <2>6, <2>7 DEF LabelsListed
<1>3. CASE Found(s) # {}
  <2>1. labels' = labels /\ next' = next /\ prev' = prev
    BY <1>3 DEF Goto, undefined
  <2>2. Undefined' = Undefined
    BY <2>1 DEF Undefined
  <2>3. s \in targets \cup Undefined
    BY <1>3 DEF Found, LabelsListed, Undefined
  <2>4. gotos' \subseteq targets' \cup Undefined'
    BY <1>1, <2>2, <2>3 DEF LabelsListed
  <2> QED BY <1>1, <2>1, <2>2, <2>4 DEF LabelsListed
<1> QED BY <1>2, <1>3

LEMMA ListedDefine ==
  ASSUME TypeOK, LabelsListed, NEW s \in Symbols, \E x \in Found(s) : ~x.def,
         labels' = (labels \ Found(s)) \cup {Label(s, 1, TRUE)}, Unlink(s),
         targets' = targets \cup {s}, gotos' = gotos
  PROVE  LabelsListed'
<1>1. Label(s, 1, TRUE).key = s /\ Label(s, 1, TRUE).level = 1 /\ Label(s, 1, TRUE).def
  BY DEF Label
<1>2. \A x \in labels : x \in labels' <=> x.key # s \/ x = Label(s, 1, TRUE)
  BY <1>1 DEF Found
<1>3. \A x \in labels' : x = Label(s, 1, TRUE) \/ (x \in labels /\ x.key # s)
  BY DEF Found
<1>4. s \in Undefined
  BY DEF Undefined, Found
<1>5. Undefined' = Undefined \ {s}
  <2>1. \A u \in Undefined' : u \in Undefined /\ u # s
    BY <1>1, <1>3 DEF Undefined
  <2>2. \A u \in Undefined : u # s => u \in Undefined'
    BY <1>2 DEF Undefined
  <2> QED BY <2>1, <2>2 DEF Undefined
<1>6. Lists(next', prev', Undefined')
  BY <1>4, <1>5, ListUnlink DEF LabelsListed
<1>7. /\ \A x \in labels' : x.key \in Symbols => x.level = 1
      /\ \A x, y \in labels' : x.key \in Symbols /\ x.key = y.key => x = y
      /\ \A x \in labels' : x.key \in Symbols /\ x.def => x.key \in targets'
  BY <1>1, <1>3 DEF LabelsListed
<1>8. gotos' \subseteq targets' \cup Undefined'
  BY <1>5 DEF LabelsListed
<1> QED BY <1>6, <1>7, <1>8 DEF LabelsListed

LEMMA GotosStep ==
  ASSUME TypeOK, Shape, Untouched, GotosListed, GotosResolved, [Next]_vars
  PROVE  GotosListed' /\ GotosResolved'
<1>1. CASE OpenBody
  <2>1. phase' = "open" /\ (file' = 1 => file = 0)
    BY <1>1 DEF OpenBody, TypeOK
  <2>2. ASSUME file' = 1 PROVE LabelsListed'
    <3>1. labels' = {} /\ gotos' = {} /\ next'[Anchor] = Nil /\ prev'[Anchor] = Anchor
      BY <1>1, <2>1, <2>2 DEF OpenBody, Untouched, TypeOK
    <3>2. Undefined' = {}
      BY <3>1 DEF Undefined
    <3>3. <<>> \in Seq(Symbols) /\ IsInjective(<<>>) /\ Linked(next', prev', <<>>)
          /\ {} = {<<>>[k] : k \in 1..Len(<<>>)}
      BY <3>1 DEF IsInjective, Linked, First, Final
    <3>4. Lists(next', prev', {})
      BY <3>3 DEF Lists
    <3> QED BY <3>1, <3>2, <3>4 DEF LabelsListed
  <2> QED BY <2>1, <2>2 DEF GotosListed, GotosResolved, LabelsListed
<1>2. CASE phase # "open" /\ ~OpenBody
  <2>1. CASE UNCHANGED vars
    <3>1. Undefined' = Undefined
      BY <2>1 DEF vars, Undefined
    <3> QED BY <2>1, <3>1 DEF GotosListed, GotosResolved, vars, undefined, Fresh
  <2>2. CASE Next
    BY <1>2, <2>2 DEF Next, Abort, CloseBody, Open, CloseBlock, Statement, Break, Continue, OpenLoop,
       CloseLoop, OpenSwitch, CloseSwitch, CloseCase, Goto, CloseLabel, MayStart, Read
  <2> QED BY <2>1, <2>2
<1>3. SUFFICES ASSUME phase = "open", file' = file, file = 1
               PROVE  GotosListed' /\ GotosResolved'
  <2>1. ~OpenBody => file' = file
    BY DEF Next, Abort, CloseBody, Open, CloseBlock, Statement, Break, Continue, OpenLoop,
       CloseLoop, OpenSwitch, CloseSwitch, CloseCase, Goto, CloseLabel, vars, Left
  <2>2. file' # 1 => GotosListed' /\ GotosResolved'
    BY DEF GotosListed, GotosResolved, Fresh
  <2> QED BY <1>1, <1>2, <1>3, <2>1, <2>2
<1>4. LabelsListed
  BY <1>3 DEF GotosListed, LabelsListed
<1>5. ASSUME LabelsListed', phase' # "ended" PROVE GotosListed' /\ GotosResolved'
  BY <1>5 DEF GotosListed, GotosResolved, LabelsListed
<1>6. ASSUME NEW where \in {"closed", "crashed"}, Left(where) PROVE GotosListed' /\ GotosResolved'
  BY <1>6 DEF Left, GotosListed, GotosResolved
<1>7. ASSUME UNCHANGED <<undefined, gotos, targets, phase>>,
             \A x : x.key \in Symbols => (x \in labels' <=> x \in labels)
      PROVE  GotosListed' /\ GotosResolved'
  <2>1. LabelsListed'
    BY <1>4, <1>7, ListedSame DEF undefined
  <2> QED BY <1>3, <1>5, <1>7, <2>1
<1>8. CASE OpenBody
  BY <1>3, <1>8 DEF OpenBody
<1>9. CASE Abort
  BY <1>6, <1>9 DEF Abort
<1>10. CASE CloseBody
  <2>1. CASE next[Anchor] = Nil
    <3>1. Undefined = {}
      BY <1>4, <2>1, ListEmpty DEF LabelsListed
    <3>2. gotos \subseteq targets
      BY <1>4, <3>1 DEF LabelsListed
    <3>3. gotos' = gotos /\ targets' = targets /\ phase' = "ended"
      BY <1>10, <2>1 DEF CloseBody, Left
    <3> QED BY <3>2, <3>3 DEF GotosListed, GotosResolved
  <2>2. CASE next[Anchor] # Nil
    BY <1>6, <1>10, <2>2 DEF CloseBody
  <2> QED BY <2>1, <2>2
<1>11. CASE \E kind \in {"block", "label", "case"} : Open(kind)
  BY <1>7, <1>11 DEF Open
<1>12. CASE CloseBlock
  <2>1. Len(nest) \in Nat /\ Len(nest) > 1 /\ nest[1].kind = "block" /\ nest[Len(nest)].kind = "block"
    BY <1>12, StartsOpen, Pops DEF CloseBlock
  <2>2. level > 1
    <3> DEFINE n == Len(nest)
    <3>1. n \in Nat /\ 1 \in (0 + 1)..1 /\ n \in (1 + 1)..n /\ nest[n].kind = "block"
      BY <2>1
    <3> HIDE DEF n
    <3>2. Blocks(nest, 1) >= Blocks(nest, 0) + 1
      BY <2>1, <3>1, BlocksMore
    <3>3. Blocks(nest, n) >= Blocks(nest, 1) + 1
      BY <3>1, BlocksMore
    <3>4. level = Blocks(nest, n) /\ Blocks(nest, 0) \in Nat /\ Blocks(nest, 1) \in Nat
          /\ Blocks(nest, n) \in Nat
      BY <3>1, LevelIsBlocks, BlocksNat DEF n
    <3> QED BY <3>2, <3>3, <3>4
  <2>3. \A x : x.key \in Symbols => (x \in Kept <=> x \in labels)
    BY <1>4, <2>2, LevelIsBlocks DEF Kept, LabelsListed
  <2> QED BY <1>7, <1>12, <2>3 DEF CloseBlock
<1>13. CASE Statement \/ Break \/ Continue
  BY <1>6, <1>7, <1>13 DEF Statement, Break, Continue
<1>14. CASE OpenLoop \/ CloseLoop \/ OpenSwitch \/ CloseSwitch
  BY <1>7, <1>14 DEF OpenLoop, CloseLoop, OpenSwitch, CloseSwitch
<1>15. ASSUME NEW c \in Cases, CloseCase(c) PROVE GotosListed' /\ GotosResolved'
  <2>1. CASE Left("closed") \/ Left("crashed")
    BY <1>6, <2>1
  <2>2. CASE /\ labels' = labels \cup {Label(c, switch, TRUE)}
             /\ UNCHANGED <<undefined, gotos, targets, phase>>
    <3>1. Label(c, switch, TRUE).key \notin Symbols
      BY KeysApart DEF Label
    <3> QED BY <1>7, <2>2, <3>1
  <2> QED BY <1>15, <2>1, <2>2 DEF CloseCase
<1>16. ASSUME NEW s \in Symbols, Goto(s) PROVE GotosListed' /\ GotosResolved'
  <2>1. phase' = phase
    BY <1>16 DEF Goto
  <2> QED BY <1>3, <1>4, <1>5, <1>16, <2>1, ListedGoto
<1>17. ASSUME NEW s \in Symbols, CloseLabel(s) PROVE GotosListed' /\ GotosResolved'
  <2>1. CASE Left("closed")
    BY <1>6, <2>1
  <2>2. CASE /\ \E x \in Found(s) : ~x.def
             /\ labels' = (labels \ Found(s)) \cup {Label(s, 1, TRUE)}
             /\ Unlink(s)
             /\ targets' = targets \cup {s}
             /\ UNCHANGED <<gotos, phase>>
    BY <1>3, <1>4, <1>5, <2>2, ListedDefine
  <2>3. CASE UNCHANGED <<labels, undefined, gotos, targets, phase>>
    BY <1>7, <2>3
  <2> QED BY <1>17, <2>1, <2>2, <2>3 DEF CloseLabel
<1>18. CASE UNCHANGED vars
  BY <1>7, <1>18 DEF vars
<1> QED BY <1>8, <1>9, <1>10, <1>11, <1>12, <1>13, <1>14, <1>15, <1>16, <1>17, <1>18 DEF Next

-----------------------------------------------------------------------------
(* The theorems                                                            *)

LEMMA UntouchedStep ==
  ASSUME TypeOK, Untouched, [Next]_vars
  PROVE  Untouched'
<1>1. CASE OpenBody
  BY <1>1 DEF OpenBody, Untouched, TypeOK
<1>2. CASE ~OpenBody
  <2>1. file' = file
    BY <1>2 DEF Next, Abort, CloseBody, Open, CloseBlock, Statement, Break, Continue, OpenLoop,
       CloseLoop, OpenSwitch, CloseSwitch, CloseCase, Goto, CloseLabel, vars, Left
  <2>2. phase = "closed" => UNCHANGED vars
    BY <1>2 DEF Next, Abort, CloseBody, Open, CloseBlock, Statement, Break, Continue, OpenLoop,
       CloseLoop, OpenSwitch, CloseSwitch, CloseCase, Goto, CloseLabel, MayStart, Read
  <2> QED BY <2>1, <2>2 DEF Untouched, vars, contexts
<1> QED BY <1>1, <1>2

LEMMA InitIInv == Init => IInv
<1> SUFFICES ASSUME Init PROVE IInv
  OBVIOUS
<1>1. TypeOK
  <2>1. <<>> \in Seq(Items) /\ <<>> \in Seq(Cases)
    OBVIOUS
  <2>2. [s \in Symbols \cup {Anchor} |-> Nil] \in [Symbols \cup {Anchor} -> Symbols \cup {Nil}]
    OBVIOUS
  <2>3. [s \in Symbols \cup {Anchor} |-> Anchor] \in [Symbols \cup {Anchor} -> Symbols \cup {Anchor}]
    OBVIOUS
  <2>4. 0 \in 0..NFiles
    BY BoundsAssumption
  <2> QED BY <2>1, <2>2, <2>3, <2>4 DEF Init, TypeOK
<1>2. Indices("switch") = {}
  BY DEF Init, Indices
<1>3. SwitchContexts /\ CasesRecorded
  BY <1>2 DEF SwitchContexts, CasesRecorded
<1>4. Shape /\ Untouched /\ LevelsSaved /\ GotosListed /\ GotosResolved
  <2>1. file = 0 /\ nest = <<>> /\ phase = "closed" /\ loop = 0 /\ switch = 0 /\ labels = {}
    BY DEF Init
  <2>2. file # 1 /\ phase # "ended" /\ phase # "open"
    BY <2>1
  <2> QED BY <2>1, <2>2 DEF Shape, Untouched, LevelsSaved, GotosListed, GotosResolved
<1> QED BY <1>1, <1>3, <1>4 DEF IInv

\* The inductive invariant of a body's contexts (eng_rule.y 4084-4750), for any
\* labels, values, lines, files and depth.
THEOREM BodyInvariant == Spec => []IInv
<1>1. IInv /\ [Next]_vars => IInv'
  BY TypesStep, ShapeStep, SwitchContextsStep, CasesStep, UntouchedStep, LevelsStep, GotosStep DEF IInv
<1> QED BY InitIInv, <1>1, PTL DEF Spec

\* In the first file the levels that break, continue and case read say whether
\* a loop or a switch is open around (eng_rule.y 4132, 4570, 4593).
THEOREM BodyContexts == Spec => []ContextsSound
<1>1. IInv => ContextsSound
  <2>1. LevelsSaved => ContextsMatchNest
    BY DEF LevelsSaved, LevelTells, ContextsMatchNest, Fresh, OfKind, Indices
  <2> QED BY <2>1 DEF IInv, ContextsSound
<1> QED BY <1>1, BodyInvariant, PTL

\* A switch gets the cases it is the closest switch of, in their order,
\* through the saved contexts of the switches inside it (eng_rule.y 4700-4715).
THEOREM BodySwitchOwns == Spec => []SwitchOwnsCases
<1>1. IInv => SwitchOwnsCases
  <2> SUFFICES ASSUME IInv, NEW i \in Indices("switch")
               PROVE  LET inner == {j \in Indices("switch") : j > i}
                          list == IF inner = {} THEN labelList
                                  ELSE nest[CHOOSE j \in inner : \A k \in inner : j <= k].list
                      IN nest[i].owned = list
    BY DEF SwitchOwnsCases
  <2> DEFINE inner == {j \in Indices("switch") : j > i}
  <2>1. TypeOK /\ SwitchContexts
    BY DEF IInv
  <2>2. \A j \in Indices("switch") : j \in Nat
    BY <2>1, SwitchItems
  <2>3. CASE inner = {}
    <3>1. Innermost(i)
      BY <2>2, <2>3 DEF Innermost
    <3> QED BY <2>1, <2>3, <3>1 DEF SwitchContexts
  <2>4. CASE inner # {}
    <3> DEFINE j == CHOOSE j \in inner : \A k \in inner : j <= k
    <3>1. inner \in SUBSET Nat
      BY <2>2
    <3>2. \E x \in inner : \A k \in inner : x <= k
      BY <2>4, <3>1, MinExists
    <3>3. j \in inner /\ \A k \in inner : j <= k
      BY <3>2
    <3> HIDE DEF j
    <3>4. Follows(i, j)
      BY <2>2, <3>3 DEF Follows
    <3>5. nest[i].owned = nest[j].list
      BY <2>1, <3>3, <3>4 DEF SwitchContexts
    <3> QED BY <2>4, <3>5 DEF j
  <2> QED BY <2>3, <2>4
<1> QED BY <1>1, BodyInvariant, PTL

\* Equal cases on one line of the label table are never both in a switch's block
\* (eng_rule.y 4167, 4237).
THEOREM BodySameLine == Spec => []SameLineDistinct
<1>1. IInv => SameLineDistinct
  BY DEF IInv, CasesRecorded, SameLineDistinct
<1> QED BY <1>1, BodyInvariant, PTL

\* A first body that passes the check of undefined labels defines every label
\* that it jumps to (eng_rule.y 521).
THEOREM BodyGotos == Spec => []GotosResolved
<1>1. IInv => GotosResolved
  BY DEF IInv
<1> QED BY <1>1, BodyInvariant, PTL
=============================================================================
