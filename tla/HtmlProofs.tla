----------------------------- MODULE HtmlProofs -----------------------------
(***************************************************************************)
(* The HTML decoder is right for any documents, cut into any fragments,    *)
(* any names that are checked and any depth of the parser's stack.         *)
(***************************************************************************)
EXTENDS HtmlStream, FiniteSetTheorems, WellFoundedInduction,
        SequenceTheorems, TLAPS

-----------------------------------------------------------------------------
(* Types                                                                   *)

Texts == Seq(Chars)
Tokens == [sym : {"text", "<", "</", "=", ">", "name", "end", "none"}, text : Texts]
States == InTagStates \cup {"doc", "accepted", "error", "nomem", "reset", "dead"}
Nodes == [type : {"text", "tag"}, text : Texts, prot : Seq(Nat), child : Seq(Nat)]
Prots == [name : Texts, value : Texts \cup {NULL}]
Reports == [tag : Texts, list : Seq(Nat)]
Parsers ==
  [state : States, end : BOOLEAN, tag : Texts, list : Seq(Nat), name : Texts,
   copy : BOOLEAN, docs : Seq(Seq(Nat)), open : Seq(Nat), root : Seq(Nat),
   nodes : Seq(Nodes), prots : Seq(Prots), strings : Nat, checked : Seq(Reports)]

\* As many documents are known as tags are open, and the one around; only an
\* open tag is ended.
Stacked(q) ==
  /\ Len(q.docs) = Len(q.open) + 1
  /\ q.state \in InTagStates /\ q.end => q.open # <<>>

\* What a token leaves, and what it adds.
SameTag(u, r) ==
  r.end = u.end /\ r.tag = u.tag /\ r.list = u.list /\ r.name = u.name /\ r.copy = u.copy
SameTree(u, r) == r.docs = u.docs /\ r.open = u.open /\ r.root = u.root
SameLists(u, r) ==
  r.nodes = u.nodes /\ r.prots = u.prots /\ r.strings = u.strings /\ r.checked = u.checked

TextNode(text) == [type |-> "text", text |-> text, prot |-> <<>>, child |-> <<>>]
TagNode(u) == [type |-> "tag", text |-> u.tag, prot |-> u.list, child |-> <<>>]
NodesWith(u, node) == Append(u.nodes, node)
DocsWith(u) == [u.docs EXCEPT ![Len(u.docs)] = Append(@, Len(u.nodes) + 1)]
ProtsWith(u, v) == Append(u.prots, [name |-> u.name, value |-> v])
ListWith(u) == Append(u.list, Len(u.prots) + 1)
EndedDocs(src, u) ==
  IF src = "FILE" THEN [Front(u.docs) EXCEPT ![Len(u.docs) - 1] = Append(@, Last(u.open))]
  ELSE Front(u.docs)
ChildWith(nodes, id, l, i) == IF i = id THEN nodes[i].child \o l ELSE nodes[i].child
CheckedWith(u) == Append(u.checked, [tag |-> u.tag, list |-> u.list])

Beginning(u, sym) == [u EXCEPT !.state = "name", !.end = sym = "</"]
NamedAs(u, name) == [u EXCEPT !.state = "named", !.name = name]
InState(u, s) == [u EXCEPT !.state = s]

-----------------------------------------------------------------------------
(* What one token does to the parser                                       *)

LEMMA StartTypes == Start \in Parsers /\ Stacked(Start)
<1>1. <<>> \in Texts /\ <<>> \in Seq(Nat) /\ <<>> \in Seq(Nodes) /\ <<>> \in Seq(Prots)
      /\ <<>> \in Seq(Reports) /\ << <<>> >> \in Seq(Seq(Nat))
  BY DEF Texts
<1>2. Start \in Parsers
  BY <1>1 DEF Start, Parsers, States, InTagStates
<1> QED BY <1>2 DEF Start, Stacked

\* The cases of Shifted.
Fits(u, sym) ==
  \/ u.state = "doc" /\ sym \in {"text", "<", "end"}
  \/ u.state = "doc" /\ sym = "</" /\ u.open # <<>>
  \/ u.state \in {"name", "list"} /\ sym = "name"
  \/ u.state = "named" /\ sym = "="
  \/ u.state = "value" /\ sym = "text"
  \/ u.state = "list" /\ sym = ">"

LEMMA ShiftedCases ==
  ASSUME NEW src, NEW u \in Parsers, NEW tok \in Tokens, NEW r \in Shifted(src, u, tok)
  PROVE  \/ u.state = "doc" /\ tok.sym = "text" /\ r \in TextRead(src, u, tok.text)
         \/ /\ u.state = "doc" /\ tok.sym \in {"<", "</"} /\ (tok.sym = "</" => u.open # <<>>)
            /\ r = Beginning(u, tok.sym)
         \/ u.state = "doc" /\ tok.sym = "end" /\ r = DocumentEnded(src, u)
         \/ u.state = "name" /\ tok.sym = "name" /\ r = NameRead(src, u, tok.text)
         \/ u.state = "list" /\ tok.sym = "name" /\ r = NamedAs(u, tok.text)
         \/ u.state = "named" /\ tok.sym = "=" /\ r = InState(u, "value")
         \/ u.state = "value" /\ tok.sym = "text" /\ r \in ValueRead(src, u, tok.text)
         \/ u.state = "list" /\ tok.sym = ">" /\ u.end /\ r = TagEnded(src, u)
         \/ u.state = "list" /\ tok.sym = ">" /\ ~u.end /\ r \in TagBegun(src, u)
         \/ /\ r = InState(u, "error")
            /\ ~Fits(u, tok.sym)
BY DEF Shifted, Tokens, Beginning, NamedAs, InState, Fits

LEMMA PushedCases ==
  ASSUME NEW src, NEW q \in Parsers, NEW tok \in Tokens, NEW r \in Pushed(src, q, tok)
  PROVE  \E u \in IF tok.sym = "=" THEN {q} ELSE Unvalued(src, q) :
           \/ u.state = "nomem" /\ r = u
           \/ u.state # "nomem" /\ r = Aborted(u)
           \/ u.state # "nomem" /\ r \in Shifted(src, u, tok)
<1> DEFINE B == IF tok.sym = "=" THEN {q} ELSE Unvalued(src, q)
           Sh(u) == {IF x.state # "error" /\ Deepest(u) >= YYMAXDEPTH THEN Aborted(u) ELSE x :
                       x \in Shifted(src, u, tok)}
<1>1. r \in UNION {Sh(u) : u \in {u \in B : u.state # "nomem"}} \/ r \in {u \in B : u.state = "nomem"}
  BY DEF Pushed
<1>2. ASSUME NEW u \in B, u.state # "nomem", r \in Sh(u)
      PROVE  r = Aborted(u) \/ r \in Shifted(src, u, tok)
  BY <1>2
<1>3. CASE r \in {u \in B : u.state = "nomem"}
  BY <1>3
<1>4. CASE r \in UNION {Sh(u) : u \in {u \in B : u.state # "nomem"}}
  <2>1. PICK u \in B : u.state # "nomem" /\ r \in Sh(u)
    BY <1>4
  <2>2. r = Aborted(u) \/ r \in Shifted(src, u, tok)
    BY <1>2, <2>1
  <2> QED BY <2>1, <2>2
<1> QED BY <1>1, <1>3, <1>4

LEMMA NullIsNoText == NULL \notin Texts
<1>1. \A s \in Texts : \A i \in 1..Len(s) : s[i] \in Chars
  BY DEF Texts
<1>2. Len(NULL) = 1 /\ NULL[1] = "none"
  BY DEF NULL
<1>3. "none" \notin Chars
  BY DEF Chars, NameChars
<1> QED BY <1>1, <1>2, <1>3

LEMMA NewProtIs ==
  ASSUME NEW q \in Parsers, NEW v \in Texts \cup {NULL}, NEW n \in Nat,
         NEW r, r = NewProt(q, v, n)
  PROVE  /\ r \in Parsers
         /\ r.state = "list" /\ r.strings = n
         /\ r.prots = ProtsWith(q, v) /\ r.list = ListWith(q)
         /\ r.end = q.end /\ r.tag = q.tag /\ r.name = q.name /\ r.copy = q.copy
         /\ SameTree(q, r) /\ r.nodes = q.nodes /\ r.checked = q.checked
<1>1. ProtsWith(q, v) \in Seq(Prots) /\ ListWith(q) \in Seq(Nat)
  BY DEF Parsers, Prots, ProtsWith, ListWith
<1>2. r = [q EXCEPT !.state = "list", !.prots = ProtsWith(q, v), !.list = ListWith(q), !.strings = n]
  BY DEF NewProt, ProtsWith, ListWith
<1>3. r \in Parsers
  BY <1>1, <1>2 DEF Parsers, States, InTagStates
<1>4. /\ r.state = "list" /\ r.strings = n
      /\ r.prots = ProtsWith(q, v) /\ r.list = ListWith(q)
      /\ r.end = q.end /\ r.tag = q.tag /\ r.name = q.name /\ r.copy = q.copy
      /\ r.docs = q.docs /\ r.open = q.open /\ r.root = q.root
      /\ r.nodes = q.nodes /\ r.checked = q.checked
  BY <1>2 DEF Parsers
<1> QED BY <1>3, <1>4 DEF SameTree

\* Another state and nothing else.
LEMMA StateIs ==
  ASSUME NEW q \in Parsers, NEW s \in States, NEW r, r = [q EXCEPT !.state = s]
  PROVE  /\ r \in Parsers /\ r.state = s
         /\ SameTag(q, r) /\ SameTree(q, r) /\ SameLists(q, r)
BY DEF Parsers, SameTag, SameTree, SameLists

LEMMA UnvaluedCases ==
  ASSUME NEW src, NEW q \in Parsers, NEW u \in Unvalued(src, q)
  PROVE  \/ q.state # "named" /\ u = q
         \/ q.state = "named" /\ ~Copies(src, q) /\ u = [q EXCEPT !.state = "list"]
         \/ q.state = "named" /\ Copies(src, q) /\ u = Aborted(q)
         \/ q.state = "named" /\ Copies(src, q) /\ u = NewProt(q, NULL, q.strings)
BY DEF Unvalued

LEMMA UnvaluedTypes ==
  ASSUME NEW src, NEW q \in Parsers, Stacked(q), NEW u \in Unvalued(src, q)
  PROVE  u \in Parsers /\ Stacked(u)
<1>1. CASE u = [q EXCEPT !.state = "list"] /\ q.state = "named"
  BY <1>1, StateIs DEF Stacked, States, InTagStates
<1>2. CASE u = Aborted(q)
  BY <1>2, StateIs DEF Aborted, Stacked, States, InTagStates
<1>3. CASE u = NewProt(q, NULL, q.strings) /\ q.state = "named"
  <2>1. q.strings \in Nat /\ NULL \in Texts \cup {NULL}
    BY DEF Parsers
  <2>2. u \in Parsers /\ u.state = "list" /\ u.end = q.end /\ u.docs = q.docs /\ u.open = q.open
    BY <1>3, <2>1, NewProtIs DEF SameTree
  <2> QED BY <1>3, <2>2 DEF Stacked, InTagStates
<1> QED BY <1>1, <1>2, <1>3, UnvaluedCases

LEMMA TextReadCases ==
  ASSUME NEW src, NEW u \in Parsers, Stacked(u), u.state = "doc", NEW text \in Texts,
         NEW r \in TextRead(src, u, text)
  PROVE  \/ r = u
         \/ r = Aborted(u)
         \/ /\ r \in Parsers /\ Copies(src, u) /\ r.state = "doc" /\ SameTag(u, r)
            /\ r.nodes = NodesWith(u, TextNode(text)) /\ r.strings = u.strings + 1
            /\ r.prots = u.prots /\ r.checked = u.checked
            /\ r.docs = DocsWith(u) /\ r.open = u.open /\ r.root = u.root
<1> SUFFICES ASSUME r # u, r # Aborted(u)
             PROVE  /\ r \in Parsers /\ Copies(src, u) /\ r.state = "doc" /\ SameTag(u, r)
                    /\ r.nodes = NodesWith(u, TextNode(text)) /\ r.strings = u.strings + 1
                    /\ r.prots = u.prots /\ r.checked = u.checked
                    /\ r.docs = DocsWith(u) /\ r.open = u.open /\ r.root = u.root
  OBVIOUS
<1>1. /\ Copies(src, u)
      /\ r = [u EXCEPT !.nodes = NodesWith(u, TextNode(text)), !.strings = u.strings + 1,
                       !.docs = DocsWith(u)]
  BY DEF TextRead, TextNode, NodesWith, DocsWith, Parsers
<1>2. NodesWith(u, TextNode(text)) \in Seq(Nodes)
  BY DEF Parsers, Nodes, TextNode, Texts, NodesWith
<1>3. DocsWith(u) \in Seq(Seq(Nat))
  BY DEF Parsers, Stacked, DocsWith
<1>4. u.strings + 1 \in Nat
  BY DEF Parsers
<1>5. r \in Parsers
  BY <1>1, <1>2, <1>3, <1>4 DEF Parsers
<1> QED BY <1>1, <1>5 DEF Parsers, SameTag

LEMMA NameReadIs ==
  ASSUME NEW src, NEW u \in Parsers, NEW name \in Texts, NEW r, r = NameRead(src, u, name)
  PROVE  /\ r \in Parsers /\ r.state = "list" /\ r.tag = name /\ r.list = <<>> /\ r.end = u.end
         /\ src # "FILE" => (r.copy <=> ~u.end /\ name \in Detected)
         /\ SameTree(u, r) /\ SameLists(u, r)
<1> DEFINE copy == IF src = "FILE" THEN u.copy ELSE ~u.end /\ name \in Detected
<1>1. copy \in BOOLEAN
  BY DEF Parsers
<1>2. r = [u EXCEPT !.state = "list", !.tag = name, !.list = <<>>, !.copy = copy]
  BY DEF NameRead
<1>3. src # "FILE" => (copy <=> ~u.end /\ name \in Detected)
  OBVIOUS
<1> HIDE DEF copy
<1>4. r \in Parsers
  <2>1. <<>> \in Seq(Nat) /\ "list" \in States
    BY DEF States, InTagStates
  <2> QED BY <1>1, <1>2, <2>1 DEF Parsers
<1>5. r.copy = copy
  BY <1>2 DEF Parsers
<1>6. /\ r.state = "list" /\ r.tag = name /\ r.list = <<>> /\ r.end = u.end
      /\ SameTree(u, r) /\ SameLists(u, r)
  BY <1>2 DEF Parsers, SameTree, SameLists
<1> QED BY <1>3, <1>4, <1>5, <1>6

\* A begun tag with its ">" read.
Opens(u, r, id) ==
  /\ r.state = "doc" /\ r.copy = FALSE
  /\ r.open = Append(u.open, id) /\ r.docs = Append(u.docs, <<>>) /\ r.root = u.root
  /\ r.prots = u.prots /\ r.strings = u.strings

OpenedAs(u, id) ==
  [u EXCEPT !.state = "doc", !.list = <<>>, !.copy = FALSE,
            !.open = Append(@, id), !.docs = Append(@, <<>>)]

LEMMA OpenedIs ==
  ASSUME NEW u \in Parsers, NEW id \in Nat, NEW r, r = OpenedAs(u, id)
  PROVE  r \in Parsers /\ Opens(u, r, id) /\ r.nodes = u.nodes /\ r.checked = u.checked
<1> DEFINE open == Append(u.open, id)
           docs == Append(u.docs, <<>>)
<1>1. open \in Seq(Nat) /\ docs \in Seq(Seq(Nat))
  BY DEF Parsers
<1>2. r = [u EXCEPT !.state = "doc", !.list = <<>>, !.copy = FALSE, !.open = open, !.docs = docs]
  BY DEF OpenedAs
<1> HIDE DEF open, docs
<1>3. "doc" \in States /\ <<>> \in Seq(Nat) /\ FALSE \in BOOLEAN
  BY DEF States
<1>4. r \in Parsers
  BY <1>1, <1>2, <1>3 DEF Parsers
<1>5. /\ r.state = "doc" /\ r.copy = FALSE /\ r.open = open /\ r.docs = docs /\ r.root = u.root
      /\ r.prots = u.prots /\ r.strings = u.strings /\ r.nodes = u.nodes /\ r.checked = u.checked
  BY <1>2 DEF Parsers
<1> QED BY <1>4, <1>5 DEF Opens, open, docs

\* The outcomes of do_html_check.
LEMMA ChecksCases ==
  ASSUME NEW u \in Parsers, NEW q \in Checks(u)
  PROVE  \/ u.list = <<>> /\ q = u
         \/ /\ u.list # <<>> /\ q \in Parsers /\ q.state \in {u.state, "dead", "reset"}
            /\ q.checked = CheckedWith(u) /\ SameTag(u, q) /\ SameTree(u, q)
            /\ q.nodes = u.nodes /\ q.prots = u.prots /\ q.strings = u.strings
<1> DEFINE c == [u EXCEPT !.checked = CheckedWith(u)]
<1> SUFFICES ASSUME u.list # <<>> PROVE
         /\ q \in Parsers /\ q.state \in {u.state, "dead", "reset"}
         /\ q.checked = CheckedWith(u) /\ SameTag(u, q) /\ SameTree(u, q)
         /\ q.nodes = u.nodes /\ q.prots = u.prots /\ q.strings = u.strings
  BY DEF Checks
<1>1. q \in {c, [c EXCEPT !.state = "dead"], [c EXCEPT !.state = "reset"]}
  BY DEF Checks, CheckedWith
<1>2. CheckedWith(u) \in Seq(Reports)
  BY DEF Parsers, CheckedWith, Reports
<1>3. /\ c \in Parsers /\ c.state = u.state /\ c.checked = CheckedWith(u)
      /\ SameTag(u, c) /\ SameTree(u, c)
      /\ c.nodes = u.nodes /\ c.prots = u.prots /\ c.strings = u.strings
  BY <1>2 DEF Parsers, SameTag, SameTree
<1> HIDE DEF c
<1>4. CASE q = c
  BY <1>3, <1>4
<1>5. ASSUME NEW s \in {"dead", "reset"}, q = [c EXCEPT !.state = s]
      PROVE  /\ q \in Parsers /\ q.state = s
             /\ SameTag(c, q) /\ SameTree(c, q) /\ SameLists(c, q)
  <2>1. s \in States
    BY DEF States
  <2> QED BY <1>3, <1>5, <2>1, StateIs
<1>6. CASE q # c
  BY <1>1, <1>3, <1>5, <1>6 DEF SameTag, SameTree, SameLists
<1> QED BY <1>4, <1>6

LEMMA TagBegunCases ==
  ASSUME NEW src, NEW u \in Parsers, u.state = "list", NEW r \in TagBegun(src, u)
  PROVE  \/ src = "FILE" /\ r = Aborted(u)
         \/ /\ src = "FILE" /\ r \in Parsers /\ Opens(u, r, Len(u.nodes) + 1)
            /\ r.nodes = NodesWith(u, TagNode(u)) /\ r.checked = u.checked
         \/ /\ src # "FILE" /\ ~(u.copy /\ u.list # <<>>) /\ r \in Parsers /\ Opens(u, r, 0)
            /\ r.nodes = u.nodes /\ r.checked = u.checked
         \/ /\ src # "FILE" /\ u.copy /\ u.list # <<>> /\ r \in Parsers
            /\ r.nodes = u.nodes /\ r.checked = CheckedWith(u)
            /\ \/ Opens(u, r, 0)
               \/ /\ r.state \in {"dead", "reset"} /\ SameTag(u, r) /\ SameTree(u, r)
                  /\ r.prots = u.prots /\ r.strings = u.strings
<1>1. CASE src = "FILE"
  <2> DEFINE v == [u EXCEPT !.nodes = NodesWith(u, TagNode(u))]
             id == Len(u.nodes) + 1
  <2>1. r = Aborted(u) \/ r = OpenedAs(v, id)
    BY <1>1 DEF TagBegun, OpenedAs, NodesWith, TagNode
  <2>2. NodesWith(u, TagNode(u)) \in Seq(Nodes) /\ id \in Nat
    <3>1. TagNode(u) \in Nodes
      BY DEF TagNode, Nodes, Parsers
    <3> QED BY <3>1 DEF NodesWith, Parsers
  <2>3. /\ v \in Parsers /\ v.nodes = NodesWith(u, TagNode(u)) /\ v.checked = u.checked
        /\ SameTree(u, v) /\ v.prots = u.prots /\ v.strings = u.strings
    BY <2>2 DEF Parsers, SameTree
  <2> HIDE DEF v, id
  <2>4. CASE r = OpenedAs(v, id)
    <3>1. r \in Parsers /\ Opens(v, r, id) /\ r.nodes = v.nodes /\ r.checked = v.checked
      BY <2>2, <2>3, <2>4, OpenedIs
    <3>2. Opens(u, r, id)
      BY <2>3, <3>1 DEF Opens, SameTree
    <3> QED BY <1>1, <2>3, <3>1, <3>2 DEF id
  <2> QED BY <1>1, <2>1, <2>4
<1>2. CASE src # "FILE"
  <2>1. PICK q \in IF u.copy THEN Checks(u) ELSE {u} :
          r = IF q.state = "list" THEN OpenedAs(q, 0) ELSE q
    BY <1>2 DEF TagBegun, OpenedAs
  <2>2. 0 \in Nat
    OBVIOUS
  <2>3. CASE q = u /\ ~(u.copy /\ u.list # <<>>)
    <3>1. r = OpenedAs(u, 0)
      BY <2>1, <2>3
    <3>2. r \in Parsers /\ Opens(u, r, 0) /\ r.nodes = u.nodes /\ r.checked = u.checked
      BY <2>2, <3>1, OpenedIs
    <3> QED BY <1>2, <2>3, <3>2
  <2>4. CASE u.copy /\ u.list # <<>>
    <3>1. q \in Checks(u)
      BY <2>1, <2>4
    <3>2. /\ q \in Parsers /\ q.state \in {"list", "dead", "reset"}
          /\ q.checked = CheckedWith(u) /\ SameTag(u, q) /\ SameTree(u, q)
          /\ q.nodes = u.nodes /\ q.prots = u.prots /\ q.strings = u.strings
      BY <2>4, <3>1, ChecksCases
    <3>3. CASE q.state = "list"
      <4>1. r = OpenedAs(q, 0)
        BY <2>1, <3>3
      <4>2. r \in Parsers /\ Opens(q, r, 0) /\ r.nodes = q.nodes /\ r.checked = q.checked
        BY <2>2, <3>2, <4>1, OpenedIs
      <4>3. Opens(u, r, 0)
        BY <3>2, <4>2 DEF Opens, SameTree
      <4> QED BY <1>2, <2>4, <3>2, <4>2, <4>3
    <3>4. CASE q.state # "list"
      BY <1>2, <2>1, <2>4, <3>2, <3>4
    <3> QED BY <3>3, <3>4
  <2>5. q = u \/ (u.copy /\ u.list # <<>>)
    BY <2>1, ChecksCases
  <2> QED BY <2>1, <2>3, <2>4, <2>5
<1> QED BY <1>1, <1>2

LEMMA PrefixIs ==
  ASSUME NEW S, NEW s \in Seq(S), NEW n \in Nat, n <= Len(s)
  PROVE  /\ SubSeq(s, 1, n) \in Seq(S) /\ Len(SubSeq(s, 1, n)) = n
         /\ \A i \in 1..n : SubSeq(s, 1, n)[i] = s[i]
<1>1. Len(s) \in Nat
  OBVIOUS
<1>2. \A i \in 1..n : s[i] \in S
  BY <1>1, ElementOfSeq
<1>3. /\ SubSeq(s, 1, n) \in Seq(S)
      /\ Len(SubSeq(s, 1, n)) = IF 1 <= n THEN n - 1 + 1 ELSE 0
      /\ \A i \in 1..(n - 1 + 1) : SubSeq(s, 1, n)[i] = s[1 + i - 1]
  BY <1>2, SubSeqProperties
<1> QED BY <1>3

LEMMA FrontIs ==
  ASSUME NEW S, NEW s \in Seq(S), s # <<>>
  PROVE  /\ Front(s) \in Seq(S) /\ Len(Front(s)) = Len(s) - 1
         /\ \A i \in 1..(Len(s) - 1) : Front(s)[i] = s[i]
<1>1. Len(s) - 1 \in Nat /\ Len(s) - 1 <= Len(s)
  OBVIOUS
<1>2. Front(s) = SubSeq(s, 1, Len(s) - 1)
  BY DEF Front
<1> QED BY <1>1, <1>2, PrefixIs

Linking(nodes, id, l, m) ==
  \A i \in 1..Len(nodes) :
    /\ m[i].type = nodes[i].type
    /\ m[i].text = nodes[i].text
    /\ m[i].prot = nodes[i].prot
    /\ m[i].child = ChildWith(nodes, id, l, i)

LEMMA LinkedIs ==
  ASSUME NEW nodes \in Seq(Nodes), NEW id \in Nat, NEW l \in Seq(Nat),
         NEW m, m = Linked(nodes, id, l)
  PROVE  m \in Seq(Nodes) /\ Len(m) = Len(nodes) /\ Linking(nodes, id, l, m)
<1> DEFINE node == [nodes[id] EXCEPT !.child = @ \o l]
<1>1. CASE id \in 1..Len(nodes)
  <2>1. nodes[id] \in Nodes
    BY <1>1
  <2>2. nodes[id].child \o l \in Seq(Nat)
    BY <2>1 DEF Nodes
  <2>3. /\ node \in Nodes /\ node.type = nodes[id].type /\ node.text = nodes[id].text
        /\ node.prot = nodes[id].prot /\ node.child = nodes[id].child \o l
    BY <2>1, <2>2 DEF Nodes
  <2> DEFINE ns == [nodes EXCEPT ![id] = node]
  <2>4. Linked(nodes, id, l) = ns
    <3>1. id \in DOMAIN nodes
      BY <1>1
    <3> QED BY <3>1 DEF Linked
  <2> HIDE DEF node
  <2>5. ns \in Seq(Nodes) /\ Len(ns) = Len(nodes)
    BY <1>1, <2>3, ExceptSeq
  <2>6. \A i \in 1..Len(nodes) : ns[i] = IF i = id THEN node ELSE nodes[i]
    OBVIOUS
  <2> HIDE DEF ns
  <2>7. \A i \in 1..Len(nodes) :
          /\ ns[i].type = nodes[i].type /\ ns[i].text = nodes[i].text /\ ns[i].prot = nodes[i].prot
          /\ ns[i].child = ChildWith(nodes, id, l, i)
    BY <2>3, <2>6 DEF ChildWith
  <2>8. Linking(nodes, id, l, ns)
    BY <2>7 DEF Linking
  <2> QED BY <2>4, <2>5, <2>8
<1>2. CASE id \notin 1..Len(nodes)
  BY <1>2 DEF Linked, ChildWith, Linking
<1> QED BY <1>1, <1>2

\* The parser after an end tag, and after the end of the document.
LEMMA TagEndedIs ==
  ASSUME NEW src, NEW u \in Parsers, Stacked(u), u.open # <<>>, NEW r, r = TagEnded(src, u)
  PROVE  /\ r \in Parsers /\ r.state = "doc"
         /\ r.nodes = Linked(u.nodes, Last(u.open), Last(u.docs))
         /\ r.prots = u.prots /\ r.strings = u.strings /\ r.checked = u.checked
         /\ r.open = Front(u.open) /\ r.root = u.root
         /\ r.docs = EndedDocs(src, u) /\ r.copy = u.copy
<1> DEFINE nodes == Linked(u.nodes, Last(u.open), Last(u.docs))
           docs == EndedDocs(src, u)
           open == Front(u.open)
<1>1. /\ u.open \in Seq(Nat) /\ Len(u.open) \in Nat \ {0}
      /\ u.docs \in Seq(Seq(Nat)) /\ Len(u.docs) = Len(u.open) + 1
  BY DEF Parsers, Stacked
<1>2. Last(u.open) \in Nat /\ Last(u.docs) \in Seq(Nat)
  BY <1>1 DEF Last
<1>3. open \in Seq(Nat) /\ Front(u.docs) \in Seq(Seq(Nat)) /\ Len(Front(u.docs)) = Len(u.docs) - 1
  BY <1>1, FrontIs
<1>4. docs \in Seq(Seq(Nat))
  BY <1>1, <1>2, <1>3 DEF EndedDocs
<1>5. nodes \in Seq(Nodes)
  BY <1>2, LinkedIs DEF Parsers
<1>6. r = [u EXCEPT !.state = "doc", !.list = <<>>, !.nodes = nodes, !.open = open, !.docs = docs]
  BY <1>3 DEF TagEnded, EndedDocs
<1> HIDE DEF nodes, open, docs
<1>7. "doc" \in States /\ <<>> \in Seq(Nat)
  BY DEF States
<1>8. r \in Parsers
  BY <1>3, <1>4, <1>5, <1>6, <1>7 DEF Parsers
<1>9. /\ r.state = "doc" /\ r.nodes = nodes /\ r.open = open /\ r.docs = docs /\ r.root = u.root
      /\ r.copy = u.copy /\ r.prots = u.prots /\ r.strings = u.strings /\ r.checked = u.checked
  BY <1>6 DEF Parsers
<1> QED BY <1>8, <1>9 DEF nodes, open, docs

LEMMA ChildrenType ==
  ASSUME NEW u \in Parsers, Stacked(u), NEW i \in 0..Len(u.open)
  PROVE  Children(u, i) \in Seq(Nat)
<1>1. u.docs \in Seq(Seq(Nat)) /\ u.open \in Seq(Nat) /\ Len(u.docs) = Len(u.open) + 1
      /\ Len(u.open) \in Nat
  BY DEF Parsers, Stacked
<1>2. u.docs[i + 1] \in Seq(Nat)
  BY <1>1
<1>3. i < Len(u.open) => <<u.open[i + 1]>> \in Seq(Nat)
  BY <1>1
<1> QED BY <1>2, <1>3 DEF Children

\* The place of an open tag's node among the open tags.
Place(u, id) == CHOOSE i \in DOMAIN u.open : u.open[i] = id
ClosedNode(u, id) ==
  IF id \in ToSet(u.open) THEN [u.nodes[id] EXCEPT !.child = Children(u, Place(u, id))]
  ELSE u.nodes[id]
ClosedNodes(u) == [id \in DOMAIN u.nodes |-> ClosedNode(u, id)]

LEMMA ClosedNodeIs ==
  ASSUME NEW u \in Parsers, Stacked(u), NEW id \in 1..Len(u.nodes)
  PROVE  /\ ClosedNode(u, id) \in Nodes
         /\ ClosedNode(u, id).type = u.nodes[id].type
         /\ ClosedNode(u, id).text = u.nodes[id].text
         /\ ClosedNode(u, id).prot = u.nodes[id].prot
         /\ ClosedNode(u, id).child = IF id \in ToSet(u.open) THEN Children(u, Place(u, id))
                                      ELSE u.nodes[id].child
<1>1. u.nodes[id] \in Nodes
  BY DEF Parsers
<1>2. CASE id \in ToSet(u.open)
  <2>1. u.open \in Seq(Nat)
    BY DEF Parsers
  <2>2. \E i \in DOMAIN u.open : u.open[i] = id
    BY <1>2 DEF ToSet
  <2>3. Place(u, id) \in DOMAIN u.open
    BY <2>2 DEF Place
  <2>4. Place(u, id) \in 0..Len(u.open)
    BY <2>1, <2>3
  <2>5. Children(u, Place(u, id)) \in Seq(Nat)
    BY <2>4, ChildrenType
  <2>6. ClosedNode(u, id) = [u.nodes[id] EXCEPT !.child = Children(u, Place(u, id))]
    BY <1>2 DEF ClosedNode
  <2> QED BY <1>1, <1>2, <2>5, <2>6 DEF Nodes
<1>3. CASE id \notin ToSet(u.open)
  BY <1>1, <1>3 DEF ClosedNode
<1> QED BY <1>2, <1>3

LEMMA DocumentEndedIs ==
  ASSUME NEW src, NEW u \in Parsers, Stacked(u), NEW r, r = DocumentEnded(src, u)
  PROVE  /\ r \in Parsers /\ r.state = "accepted" /\ SameTag(u, r)
         /\ r.docs = << <<>> >> /\ r.open = <<>>
         /\ r.prots = u.prots /\ r.strings = u.strings /\ r.checked = u.checked
         /\ IF src = "FILE"
            THEN r.nodes = ClosedNodes(u) /\ r.root = u.root \o Children(u, 0)
            ELSE r.nodes = u.nodes /\ r.root = u.root
<1>1. "accepted" \in States /\ << <<>> >> \in Seq(Seq(Nat)) /\ <<>> \in Seq(Nat)
  BY DEF States
<1>2. CASE src # "FILE"
  <2>1. r = [u EXCEPT !.state = "accepted", !.docs = << <<>> >>, !.open = <<>>]
    BY <1>2 DEF DocumentEnded
  <2>2. r \in Parsers
    BY <1>1, <2>1 DEF Parsers
  <2> QED BY <1>2, <2>1, <2>2 DEF Parsers, SameTag
<1>3. CASE src = "FILE"
  <2> DEFINE root == u.root \o Children(u, 0)
  <2>1. r = [u EXCEPT !.state = "accepted", !.nodes = ClosedNodes(u), !.root = root,
                      !.docs = << <<>> >>, !.open = <<>>]
    BY <1>3 DEF DocumentEnded, ClosedNodes, ClosedNode, Place
  <2>2. root \in Seq(Nat)
    <3>1. 0 \in 0..Len(u.open)
      BY DEF Parsers
    <3> QED BY <3>1, ChildrenType DEF Parsers
  <2>3. ClosedNodes(u) \in Seq(Nodes)
    <3>1. \A id \in 1..Len(u.nodes) : ClosedNode(u, id) \in Nodes
      BY ClosedNodeIs
    <3>2. DOMAIN u.nodes = 1..Len(u.nodes) /\ Len(u.nodes) \in Nat
      BY DEF Parsers
    <3> QED BY <3>1, <3>2 DEF ClosedNodes
  <2> HIDE DEF root
  <2>4. r \in Parsers
    BY <1>1, <2>1, <2>2, <2>3 DEF Parsers
  <2>5. /\ r.state = "accepted" /\ SameTag(u, r)
        /\ r.docs = << <<>> >> /\ r.open = <<>>
        /\ r.prots = u.prots /\ r.strings = u.strings /\ r.checked = u.checked
        /\ r.nodes = ClosedNodes(u) /\ r.root = root
    BY <2>1 DEF Parsers, SameTag
  <2> QED BY <1>3, <2>4, <2>5 DEF root
<1> QED BY <1>2, <1>3

-----------------------------------------------------------------------------
(* What the free lists hold                                                *)

TextIds(nodes) == {i \in DOMAIN nodes : nodes[i].type = "text"}
ValueIds(prots) == {i \in DOMAIN prots : prots[i].value # NULL}

LEMMA HeldIs ==
  ASSUME NEW u \in Parsers
  PROVE  /\ IsFiniteSet(TextIds(u.nodes)) /\ IsFiniteSet(ValueIds(u.prots))
         /\ Cardinality(TextIds(u.nodes)) \in Nat /\ Cardinality(ValueIds(u.prots)) \in Nat
         /\ Held(u) = Cardinality(TextIds(u.nodes)) + Cardinality(ValueIds(u.prots))
<1>1. DOMAIN u.nodes = 1..Len(u.nodes) /\ DOMAIN u.prots = 1..Len(u.prots)
      /\ Len(u.nodes) \in Nat /\ Len(u.prots) \in Nat
  BY DEF Parsers
<1>2. IsFiniteSet(1..Len(u.nodes)) /\ IsFiniteSet(1..Len(u.prots))
  BY <1>1, FS_Interval
<1>3. IsFiniteSet(TextIds(u.nodes)) /\ IsFiniteSet(ValueIds(u.prots))
  BY <1>1, <1>2, FS_Subset DEF TextIds, ValueIds
<1>4. Cardinality(TextIds(u.nodes)) \in Nat /\ Cardinality(ValueIds(u.prots)) \in Nat
  BY <1>3, FS_CardinalityType
<1>5. Held(u) = Cardinality(TextIds(u.nodes)) + Cardinality(ValueIds(u.prots))
  BY DEF Held, TextIds, ValueIds
<1> QED BY <1>3, <1>4, <1>5

LEMMA SameTexts ==
  ASSUME NEW u \in Parsers, NEW r \in Parsers, Len(r.nodes) = Len(u.nodes),
         \A i \in 1..Len(u.nodes) : r.nodes[i].type = u.nodes[i].type
  PROVE  TextIds(r.nodes) = TextIds(u.nodes)
<1>1. DOMAIN u.nodes = 1..Len(u.nodes) /\ DOMAIN r.nodes = 1..Len(u.nodes)
  BY DEF Parsers
<1> QED BY <1>1 DEF TextIds

LEMMA HeldSame ==
  ASSUME NEW u \in Parsers, NEW r \in Parsers, Len(r.nodes) = Len(u.nodes),
         \A i \in 1..Len(u.nodes) : r.nodes[i].type = u.nodes[i].type,
         r.prots = u.prots
  PROVE  Held(r) = Held(u)
BY SameTexts, HeldIs

LEMMA HeldLists ==
  ASSUME NEW u \in Parsers, NEW r \in Parsers, r.nodes = u.nodes, r.prots = u.prots
  PROVE  Held(r) = Held(u)
BY HeldIs

LEMMA HeldText ==
  ASSUME NEW u \in Parsers, NEW r \in Parsers, NEW text,
         r.nodes = NodesWith(u, TextNode(text)), r.prots = u.prots
  PROVE  Held(r) = Held(u) + 1
<1>1. /\ DOMAIN u.nodes = 1..Len(u.nodes) /\ Len(u.nodes) \in Nat
      /\ DOMAIN r.nodes = 1..(Len(u.nodes) + 1)
      /\ \A i \in 1..Len(u.nodes) : r.nodes[i] = u.nodes[i]
      /\ r.nodes[Len(u.nodes) + 1] = TextNode(text)
  BY DEF Parsers, NodesWith
<1>2. r.nodes[Len(u.nodes) + 1].type = "text"
  BY <1>1 DEF TextNode
<1>3. TextIds(r.nodes) = TextIds(u.nodes) \cup {Len(u.nodes) + 1}
      /\ Len(u.nodes) + 1 \notin TextIds(u.nodes)
  BY <1>1, <1>2 DEF TextIds
<1>4. Cardinality(TextIds(r.nodes)) = Cardinality(TextIds(u.nodes)) + 1
  BY <1>3, HeldIs, FS_AddElement
<1> QED BY <1>4, HeldIs

LEMMA HeldTag ==
  ASSUME NEW u \in Parsers, NEW r \in Parsers,
         r.nodes = NodesWith(u, TagNode(u)), r.prots = u.prots
  PROVE  Held(r) = Held(u)
<1>1. /\ DOMAIN u.nodes = 1..Len(u.nodes) /\ Len(u.nodes) \in Nat
      /\ DOMAIN r.nodes = 1..(Len(u.nodes) + 1)
      /\ \A i \in 1..Len(u.nodes) : r.nodes[i] = u.nodes[i]
      /\ r.nodes[Len(u.nodes) + 1] = TagNode(u)
  BY DEF Parsers, NodesWith
<1>2. r.nodes[Len(u.nodes) + 1].type # "text"
  BY <1>1 DEF TagNode
<1>3. TextIds(r.nodes) = TextIds(u.nodes)
  BY <1>1, <1>2 DEF TextIds
<1> QED BY <1>3, HeldIs

LEMMA HeldProt ==
  ASSUME NEW u \in Parsers, NEW r \in Parsers, NEW v,
         r.prots = ProtsWith(u, v), r.nodes = u.nodes
  PROVE  Held(r) = IF v = NULL THEN Held(u) ELSE Held(u) + 1
<1>1. /\ DOMAIN u.prots = 1..Len(u.prots) /\ Len(u.prots) \in Nat
      /\ DOMAIN r.prots = 1..(Len(u.prots) + 1)
      /\ \A i \in 1..Len(u.prots) : r.prots[i] = u.prots[i]
      /\ r.prots[Len(u.prots) + 1].value = v
  BY DEF Parsers, ProtsWith
<1>2. CASE v = NULL
  <2>1. ValueIds(r.prots) = ValueIds(u.prots)
    BY <1>1, <1>2 DEF ValueIds
  <2> QED BY <1>2, <2>1, HeldIs
<1>3. CASE v # NULL
  <2>1. ValueIds(r.prots) = ValueIds(u.prots) \cup {Len(u.prots) + 1}
        /\ Len(u.prots) + 1 \notin ValueIds(u.prots)
    BY <1>1, <1>3 DEF ValueIds
  <2>2. Cardinality(ValueIds(r.prots)) = Cardinality(ValueIds(u.prots)) + 1
    BY <2>1, HeldIs, FS_AddElement
  <2> QED BY <1>3, <2>2, HeldIs
<1> QED BY <1>2, <1>3

Sound(q) == q \in Parsers /\ Stacked(q) /\ q.strings = Held(q)
Reads(q) == q.state \in InTagStates \cup {"doc"}

LEMMA StateSound ==
  ASSUME NEW q, Sound(q), NEW s \in States, NEW r, r = [q EXCEPT !.state = s],
         s \in InTagStates /\ q.end => q.open # <<>>
  PROVE  Sound(r)
<1>1. r \in Parsers /\ r.state = s /\ SameTag(q, r) /\ SameTree(q, r) /\ SameLists(q, r)
  BY StateIs DEF Sound
<1>2. Held(r) = Held(q)
  BY <1>1, HeldLists DEF Sound, SameLists
<1>3. Stacked(r)
  BY <1>1 DEF Sound, Stacked, SameTag, SameTree
<1> QED BY <1>1, <1>2, <1>3 DEF Sound, SameLists

LEMMA UnvaluedReads ==
  ASSUME NEW src, NEW q \in Parsers, Reads(q), NEW u \in Unvalued(src, q), u.state # "nomem"
  PROVE  Reads(u) /\ (u.state = IF q.state = "named" THEN "list" ELSE q.state)
<1>1. CASE q.state # "named" /\ u = q
  BY <1>1
<1>2. CASE q.state = "named" /\ u = [q EXCEPT !.state = "list"]
  BY <1>2 DEF Reads, InTagStates, Parsers
<1>3. CASE u = Aborted(q)
  BY <1>3 DEF Aborted, Parsers
<1>4. CASE q.state = "named" /\ u = NewProt(q, NULL, q.strings)
  <2>1. u.state = "list"
    BY <1>4 DEF NewProt, Parsers
  <2> QED BY <1>4, <2>1 DEF Reads, InTagStates
<1> QED BY <1>1, <1>2, <1>3, <1>4, UnvaluedCases

LEMMA UnvaluedSound ==
  ASSUME NEW src, NEW q, Sound(q), NEW u \in Unvalued(src, q)
  PROVE  Sound(u) /\ SameTree(q, u) /\ u.nodes = q.nodes /\ u.checked = q.checked
<1>1. CASE q.state # "named" /\ u = q
  BY <1>1 DEF SameTree
<1>2. CASE q.state = "named" /\ u = [q EXCEPT !.state = "list"]
  <2>1. "list" \in States /\ (q.end => q.open # <<>>)
    BY <1>2 DEF States, InTagStates, Sound, Stacked
  <2>2. SameTree(q, u) /\ SameLists(q, u)
    BY <1>2, <2>1, StateIs DEF Sound
  <2> QED BY <1>2, <2>1, <2>2, StateSound DEF SameLists
<1>3. CASE u = Aborted(q)
  <2>1. "nomem" \in States /\ "nomem" \notin InTagStates
    BY DEF States, InTagStates
  <2>2. SameTree(q, u) /\ SameLists(q, u)
    BY <1>3, <2>1, StateIs DEF Sound, Aborted
  <2> QED BY <1>3, <2>1, <2>2, StateSound DEF Aborted, SameLists
<1>4. CASE q.state = "named" /\ u = NewProt(q, NULL, q.strings)
  <2>1. q.strings \in Nat /\ NULL \in Texts \cup {NULL} /\ q \in Parsers
    BY DEF Parsers, Sound
  <2>2. /\ u \in Parsers /\ u.state = "list" /\ u.strings = q.strings
        /\ u.prots = ProtsWith(q, NULL) /\ SameTree(q, u) /\ u.nodes = q.nodes
        /\ u.end = q.end /\ u.checked = q.checked
    <3> DEFINE v == NULL
    <3>1. v \in Texts \cup {NULL} /\ u = NewProt(q, v, q.strings)
      BY <1>4
    <3> HIDE DEF v
    <3>2. /\ u \in Parsers /\ u.state = "list" /\ u.strings = q.strings
          /\ u.prots = ProtsWith(q, v) /\ SameTree(q, u) /\ u.nodes = q.nodes
          /\ u.end = q.end /\ u.checked = q.checked
      BY <2>1, <3>1, NewProtIs
    <3> QED BY <3>2 DEF v
  <2>3. Held(u) = Held(q)
    BY <2>1, <2>2, HeldProt
  <2>4. Stacked(u)
    BY <1>4, <2>2 DEF Sound, Stacked, SameTree, InTagStates
  <2> QED BY <2>2, <2>3, <2>4 DEF Sound
<1> QED BY <1>1, <1>2, <1>3, <1>4, UnvaluedCases DEF Sound

LEMMA ValueSound ==
  ASSUME NEW src, NEW u, Sound(u), u.state = "value", NEW text \in Texts,
         NEW r \in ValueRead(src, u, text)
  PROVE  \/ ~Copies(src, u) /\ r = [u EXCEPT !.state = "list"] /\ Sound(r)
         \/ r = Aborted(u)
         \/ Copies(src, u) /\ r = NewProt(u, text, u.strings + 1) /\ Sound(r)
<1>1. CASE ~Copies(src, u)
  <2>1. r = [u EXCEPT !.state = "list"]
    BY <1>1 DEF ValueRead
  <2>2. "list" \in States /\ (u.end => u.open # <<>>)
    BY DEF States, InTagStates, Sound, Stacked
  <2> QED BY <1>1, <2>1, <2>2, StateSound
<1>2. CASE Copies(src, u) /\ r # Aborted(u)
  <2>1. r = NewProt(u, text, u.strings + 1)
    BY <1>2 DEF ValueRead
  <2>2. u.strings + 1 \in Nat /\ text \in Texts \cup {NULL} /\ u \in Parsers /\ text # NULL
    BY NullIsNoText DEF Parsers, Sound
  <2>3. /\ r \in Parsers /\ r.state = "list" /\ r.strings = u.strings + 1
        /\ r.prots = ProtsWith(u, text) /\ SameTree(u, r) /\ r.nodes = u.nodes
        /\ r.end = u.end
    BY <2>1, <2>2, NewProtIs
  <2>4. Held(r) = Held(u) + 1
    BY <2>2, <2>3, HeldProt
  <2>5. Stacked(r)
    BY <2>3 DEF Sound, Stacked, SameTree, InTagStates
  <2> QED BY <1>2, <2>1, <2>3, <2>4, <2>5 DEF Sound
<1> QED BY <1>1, <1>2

\* Opening and closing a tag keep the stacks together.
LEMMA OpensStacked ==
  ASSUME NEW u, Sound(u), NEW r \in Parsers, NEW id \in Nat, Opens(u, r, id)
  PROVE  Stacked(r)
<1>1. Len(r.docs) = Len(u.docs) + 1 /\ Len(r.open) = Len(u.open) + 1 /\ r.state = "doc"
  BY DEF Opens, Sound, Parsers
<1> QED BY <1>1 DEF Stacked, Sound, InTagStates

LEMMA BegunSound ==
  ASSUME NEW src, NEW u, Sound(u), u.state = "list", NEW r \in TagBegun(src, u), r # Aborted(u)
  PROVE  Sound(r)
<1>1. u \in Parsers /\ Stacked(u) /\ Len(u.nodes) + 1 \in Nat /\ 0 \in Nat
  BY DEF Sound, Parsers
<1>2. CASE /\ r \in Parsers /\ Opens(u, r, Len(u.nodes) + 1)
           /\ r.nodes = NodesWith(u, TagNode(u))
  <2>1. Held(r) = Held(u)
    BY <1>1, <1>2, HeldTag DEF Opens
  <2>2. Stacked(r)
    BY <1>1, <1>2, OpensStacked
  <2> QED BY <1>2, <2>1, <2>2 DEF Sound, Opens
<1>3. CASE r \in Parsers /\ Opens(u, r, 0) /\ r.nodes = u.nodes
  <2>1. Held(r) = Held(u)
    BY <1>1, <1>3, HeldLists DEF Opens
  <2>2. Stacked(r)
    BY <1>1, <1>3, OpensStacked
  <2> QED BY <1>3, <2>1, <2>2 DEF Sound, Opens
<1>4. CASE /\ r \in Parsers /\ r.nodes = u.nodes /\ r.state \in {"dead", "reset"}
           /\ SameTree(u, r) /\ r.prots = u.prots /\ r.strings = u.strings
  <2>1. Held(r) = Held(u)
    BY <1>1, <1>4, HeldLists
  <2>2. Stacked(r)
    BY <1>1, <1>4 DEF Stacked, SameTree, InTagStates
  <2> QED BY <1>4, <2>1, <2>2 DEF Sound
<1> QED BY <1>1, <1>2, <1>3, <1>4, TagBegunCases

LEMMA EndedSound ==
  ASSUME NEW src, NEW u, Sound(u), u.open # <<>>, NEW r, r = TagEnded(src, u)
  PROVE  Sound(r)
<1>1. /\ u \in Parsers /\ u.nodes \in Seq(Nodes) /\ u.open \in Seq(Nat) /\ u.docs \in Seq(Seq(Nat))
      /\ Len(u.docs) = Len(u.open) + 1 /\ Len(u.open) \in Nat /\ Stacked(u) /\ u.docs # <<>>
  BY DEF Sound, Parsers, Stacked
<1>2. Last(u.open) \in Nat /\ Last(u.docs) \in Seq(Nat)
  BY <1>1 DEF Last
<1>3. /\ r \in Parsers /\ r.state = "doc" /\ r.prots = u.prots /\ r.strings = u.strings
      /\ r.nodes = Linked(u.nodes, Last(u.open), Last(u.docs)) /\ r.open = Front(u.open)
      /\ r.docs = EndedDocs(src, u)
  BY <1>1, TagEndedIs
<1>4. Len(Front(u.docs)) = Len(u.docs) - 1 /\ Len(Front(u.open)) = Len(u.open) - 1
      /\ Front(u.docs) \in Seq(Seq(Nat))
  BY <1>1, FrontIs
<1>5. Len(r.docs) = Len(u.docs) - 1
  BY <1>3, <1>4 DEF EndedDocs
<1>6. Stacked(r)
  BY <1>1, <1>3, <1>4, <1>5 DEF Stacked, InTagStates
<1>7. Held(r) = Held(u)
  <2>1. /\ Len(r.nodes) = Len(u.nodes)
        /\ \A i \in 1..Len(u.nodes) : r.nodes[i].type = u.nodes[i].type
    <3> DEFINE id == Last(u.open)
               l == Last(u.docs)
    <3>1. id \in Nat /\ l \in Seq(Nat) /\ r.nodes = Linked(u.nodes, id, l)
      BY <1>2, <1>3
    <3> HIDE DEF id, l
    <3>2. u.nodes \in Seq(Nodes)
      BY <1>1
    <3>3. Len(r.nodes) = Len(u.nodes)
      BY <3>1, <3>2, LinkedIs
    <3>4. \A i \in 1..Len(u.nodes) : r.nodes[i].type = u.nodes[i].type
      BY <3>1, <3>2, LinkedIs DEF Linking
    <3> QED BY <3>3, <3>4
  <2> QED BY <1>1, <1>3, <2>1, HeldSame
<1> QED BY <1>3, <1>6, <1>7 DEF Sound

LEMMA DocumentSound ==
  ASSUME NEW src, NEW u, Sound(u), NEW r, r = DocumentEnded(src, u)
  PROVE  Sound(r)
<1>1. u \in Parsers /\ Stacked(u)
  BY DEF Sound
<1>2. /\ r \in Parsers /\ r.state = "accepted" /\ r.docs = << <<>> >> /\ r.open = <<>>
      /\ r.prots = u.prots /\ r.strings = u.strings
      /\ r.nodes = u.nodes \/ r.nodes = ClosedNodes(u)
  BY <1>1, DocumentEndedIs
<1>3. Stacked(r)
  BY <1>2 DEF Stacked, InTagStates
<1>4. CASE r.nodes = ClosedNodes(u)
  <2>1. DOMAIN u.nodes = 1..Len(u.nodes) /\ Len(u.nodes) \in Nat
    BY <1>1 DEF Parsers
  <2>2. Len(r.nodes) = Len(u.nodes)
    BY <1>4, <2>1 DEF ClosedNodes
  <2>3. \A i \in 1..Len(u.nodes) : r.nodes[i].type = u.nodes[i].type
    BY <1>1, <1>4, <2>1, ClosedNodeIs DEF ClosedNodes
  <2>4. Held(r) = Held(u)
    BY <1>1, <1>2, <2>2, <2>3, HeldSame
  <2> QED BY <1>2, <1>3, <2>4 DEF Sound
<1>5. CASE r.nodes = u.nodes
  <2>1. Held(r) = Held(u)
    BY <1>1, <1>2, <1>5, HeldLists
  <2> QED BY <1>2, <1>3, <2>1 DEF Sound
<1> QED BY <1>2, <1>4, <1>5

LEMMA TextSound ==
  ASSUME NEW src, NEW u, Sound(u), u.state = "doc", NEW text \in Texts,
         NEW r \in TextRead(src, u, text), r # Aborted(u)
  PROVE  Sound(r)
<1>1. u \in Parsers /\ Stacked(u) /\ u.docs \in Seq(Seq(Nat)) /\ Len(u.docs) = Len(u.open) + 1
  BY DEF Sound, Parsers, Stacked
<1>2. \/ r = u
      \/ /\ r \in Parsers /\ r.state = "doc" /\ r.nodes = NodesWith(u, TextNode(text))
         /\ r.strings = u.strings + 1 /\ r.prots = u.prots
         /\ r.docs = DocsWith(u) /\ r.open = u.open
  BY <1>1, TextReadCases
<1>3. CASE r # u
  <2>1. Held(r) = Held(u) + 1
    BY <1>1, <1>2, <1>3, HeldText
  <2>2. Len(DocsWith(u)) = Len(u.docs)
    BY <1>1 DEF DocsWith
  <2>3. Stacked(r)
    BY <1>1, <1>2, <1>3, <2>2 DEF Stacked, InTagStates
  <2> QED BY <1>2, <1>3, <2>1, <2>3 DEF Sound
<1> QED BY <1>3

LEMMA ShiftedSound ==
  ASSUME NEW src, NEW u, Sound(u), Reads(u), NEW tok \in Tokens, NEW r \in Shifted(src, u, tok)
  PROVE  Sound(r)
<1>1. u \in Parsers /\ Stacked(u) /\ tok.text \in Texts
  BY DEF Sound, Tokens
<1>2. \A q : q = Aborted(u) => Sound(q)
  <2>1. "nomem" \in States /\ "nomem" \notin InTagStates
    BY DEF States, InTagStates
  <2> QED BY <2>1, StateSound DEF Aborted
<1>3. CASE u.state = "doc" /\ r \in TextRead(src, u, tok.text)
  BY <1>1, <1>2, <1>3, TextSound
<1>4. CASE /\ u.state = "doc" /\ tok.sym \in {"<", "</"} /\ (tok.sym = "</" => u.open # <<>>)
           /\ r = Beginning(u, tok.sym)
  <2>1. /\ r \in Parsers /\ r.state = "name" /\ (r.end <=> tok.sym = "</")
        /\ SameTree(u, r) /\ SameLists(u, r)
    BY <1>1, <1>4 DEF Beginning, Parsers, States, InTagStates, SameTree, SameLists
  <2>2. Held(r) = Held(u)
    BY <1>1, <2>1, HeldLists DEF SameLists
  <2>3. Stacked(r)
    BY <1>1, <1>4, <2>1 DEF Stacked, SameTree
  <2> QED BY <2>1, <2>2, <2>3 DEF Sound, SameLists
<1>5. CASE r = DocumentEnded(src, u)
  BY <1>5, DocumentSound
<1>6. CASE u.state = "name" /\ r = NameRead(src, u, tok.text)
  <2>1. /\ r \in Parsers /\ r.state = "list" /\ r.end = u.end
        /\ SameTree(u, r) /\ SameLists(u, r)
    BY <1>1, <1>6, NameReadIs
  <2>2. Held(r) = Held(u)
    BY <1>1, <2>1, HeldLists DEF SameLists
  <2>3. Stacked(r)
    BY <1>1, <1>6, <2>1 DEF Stacked, SameTree, InTagStates
  <2> QED BY <2>1, <2>2, <2>3 DEF Sound, SameLists
<1>7. CASE u.state = "list" /\ r = NamedAs(u, tok.text)
  <2>1. /\ r \in Parsers /\ r.state = "named" /\ r.end = u.end
        /\ SameTree(u, r) /\ SameLists(u, r)
    BY <1>1, <1>7 DEF NamedAs, Parsers, States, InTagStates, SameTree, SameLists
  <2>2. Held(r) = Held(u)
    BY <1>1, <2>1, HeldLists DEF SameLists
  <2>3. Stacked(r)
    BY <1>1, <1>7, <2>1 DEF Stacked, SameTree, InTagStates
  <2> QED BY <2>1, <2>2, <2>3 DEF Sound, SameLists
<1>8. CASE u.state = "named" /\ r = InState(u, "value")
  <2>1. "value" \in States /\ (u.end => u.open # <<>>)
    BY <1>1, <1>8 DEF States, InTagStates, Stacked
  <2> QED BY <1>8, <2>1, StateSound DEF InState
<1>9. CASE u.state = "value" /\ r \in ValueRead(src, u, tok.text)
  BY <1>1, <1>2, <1>9, ValueSound
<1>10. CASE u.state = "list" /\ u.end /\ r = TagEnded(src, u)
  <2>1. u.open # <<>>
    BY <1>1, <1>10 DEF Stacked, InTagStates
  <2> QED BY <1>10, <2>1, EndedSound
<1>11. CASE u.state = "list" /\ r \in TagBegun(src, u)
  BY <1>2, <1>11, BegunSound
<1>12. CASE r = InState(u, "error")
  <2>1. "error" \in States /\ "error" \notin InTagStates
    BY DEF States, InTagStates
  <2> QED BY <1>12, <2>1, StateSound DEF InState
<1> QED BY <1>1, <1>3, <1>4, <1>5, <1>6, <1>7, <1>8, <1>9, <1>10, <1>11, <1>12, ShiftedCases

LEMMA PushedSound ==
  ASSUME NEW src, NEW q, Sound(q), Reads(q), NEW tok \in Tokens, NEW r \in Pushed(src, q, tok)
  PROVE  Sound(r)
<1>1. PICK u \in IF tok.sym = "=" THEN {q} ELSE Unvalued(src, q) :
           \/ u.state = "nomem" /\ r = u
           \/ u.state # "nomem" /\ r = Aborted(u)
           \/ u.state # "nomem" /\ r \in Shifted(src, u, tok)
  BY PushedCases DEF Sound
<1>2. Sound(u)
  BY <1>1, UnvaluedSound
<1>3. CASE r = Aborted(u)
  <2>1. "nomem" \in States /\ "nomem" \notin InTagStates
    BY DEF States, InTagStates
  <2> QED BY <1>2, <1>3, <2>1, StateSound DEF Aborted
<1>4. CASE u.state # "nomem" /\ r \in Shifted(src, u, tok)
  <2>1. Reads(u)
    <3>1. CASE u = q
      BY <3>1
    <3>2. CASE u \in Unvalued(src, q) /\ u # q
      BY <1>4, <3>2, UnvaluedReads DEF Sound
    <3> QED BY <1>1, <3>1, <3>2
  <2> QED BY <1>2, <1>4, <2>1, ShiftedSound
<1> QED BY <1>1, <1>2, <1>3, <1>4

-----------------------------------------------------------------------------
(* The scanner                                                             *)

LEMMA MinExists ==
  ASSUME NEW B \in SUBSET Nat, B # {}
  PROVE  \E m \in B : \A b \in B : m <= b
<1>1. PICK m \in B : \A y \in B : ~ (<<y, m>> \in OpToRel(<, Nat))
  <2>1. ASSUME NEW R, IsWellFoundedOn(R, Nat)
        PROVE  \E x \in B : \A y \in B : ~ (<<y, x>> \in R)
    BY <2>1, WFMin, Zenon
  <2> QED BY <2>1, NatLessThanWellFounded, Zenon
<1>2. ASSUME NEW b \in B PROVE m <= b
  <2>1. m \in Nat /\ b \in Nat
    OBVIOUS
  <2>2. ~(b < m)
    BY <1>1, <2>1 DEF OpToRel
  <2> QED BY <2>1, <2>2
<1> QED BY <1>2

LEMMA MaxExists ==
  ASSUME NEW A \in SUBSET Nat, A # {}, NEW b \in Nat, \A a \in A : a <= b
  PROVE  \E m \in A : \A a \in A : a <= m
<1> DEFINE B == {b - a : a \in A}
<1>0. \A a \in A : a \in Nat /\ b - a \in Nat
  OBVIOUS
<1>1. B \in SUBSET Nat /\ B # {}
  BY <1>0
<1>2. PICK x \in B : \A y \in B : x <= y
  <2> HIDE DEF B
  <2> QED BY <1>1, MinExists
<1>3. PICK m \in A : x = b - m
  BY <1>2
<1>4. \A a \in A : b - m <= b - a
  BY <1>2, <1>3
<1> QED BY <1>0, <1>3, <1>4

Conds == DOMAIN Rules
RuleNames == DOMAIN Literal \cup {"text", "space", "name", "close2", "quoted", "unquoted", "stop", "other"}

LEMMA CondsAre ==
  Conds = {"INITIAL", "COMMENT", "META", "TAG_NAME", "PROT_NAME", "PROT_VALUE"}
BY DEF Conds, Rules

LEMMA LiteralsAre ==
  /\ DOMAIN Literal = {"comment", "meta", "endtag", "begintag", "endcomment", "close", "equal"}
  /\ \A r \in DOMAIN Literal : Literal[r] \in Texts
<1>1. DOMAIN Literal = {"comment", "meta", "endtag", "begintag", "endcomment", "close", "equal"}
  BY DEF Literal
<1>2. {"<", ">", "!", "-", "/", "="} \subseteq Chars
  BY DEF Chars, NameChars
<1>3. /\ <<"<", "!", "-", "-">> \in Texts /\ <<"<", "!">> \in Texts /\ <<"<", "/">> \in Texts
      /\ <<"<">> \in Texts /\ <<"-", "-", ">">> \in Texts /\ <<">">> \in Texts /\ <<"=">> \in Texts
  BY <1>2 DEF Texts
<1> QED BY <1>1, <1>3 DEF Literal

LEMMA RulesAre ==
  ASSUME NEW c \in Conds
  PROVE  /\ Rules[c] \in Seq(RuleNames) /\ RuleSet(c) \subseteq RuleNames
         /\ c # "INITIAL" => "other" \in RuleSet(c)
         /\ c = "INITIAL" => "begintag" \in RuleSet(c) /\ "text" \in RuleSet(c)
<1>1. Rules[c] \in Seq(RuleNames)
  <2> DEFINE N == RuleNames
  <2>1. {"comment", "meta", "endtag", "begintag", "text", "endcomment", "other", "close", "space", "name",
         "equal", "close2", "quoted", "unquoted", "stop"} \subseteq N
    BY LiteralsAre DEF RuleNames
  <2> HIDE DEF N
  <2>2. /\ <<"comment", "meta", "endtag", "begintag", "text">> \in Seq(N)
        /\ <<"endcomment", "other">> \in Seq(N)
        /\ <<"close", "other">> \in Seq(N)
        /\ <<"space", "name", "other">> \in Seq(N)
        /\ <<"space", "equal", "close", "close2", "name", "other">> \in Seq(N)
        /\ <<"space", "quoted", "unquoted", "stop", "other">> \in Seq(N)
    BY <2>1
  <2>3. /\ Rules["INITIAL"] \in Seq(N) /\ Rules["COMMENT"] \in Seq(N) /\ Rules["META"] \in Seq(N)
        /\ Rules["TAG_NAME"] \in Seq(N) /\ Rules["PROT_NAME"] \in Seq(N)
        /\ Rules["PROT_VALUE"] \in Seq(N)
    BY <2>2 DEF Rules
  <2>4. Rules[c] \in Seq(N)
    BY <2>3, CondsAre
  <2> QED BY <2>4 DEF N
<1>2. RuleSet(c) \subseteq RuleNames
  BY <1>1 DEF RuleSet, ToSet
<1>3. c # "INITIAL" => "other" \in RuleSet(c)
  <2>1. \E i \in 1..6 : c # "INITIAL" => i \in DOMAIN Rules[c] /\ Rules[c][i] = "other"
    <3>1. CASE c = "COMMENT" \/ c = "META"
      <4>1. 2 \in DOMAIN Rules[c] /\ Rules[c][2] = "other"
        BY <3>1 DEF Rules
      <4> QED BY <4>1
    <3>2. CASE c = "TAG_NAME"
      <4>1. 3 \in DOMAIN Rules[c] /\ Rules[c][3] = "other"
        BY <3>2 DEF Rules
      <4> QED BY <4>1
    <3>3. CASE c = "PROT_NAME"
      <4>1. 6 \in DOMAIN Rules[c] /\ Rules[c][6] = "other"
        BY <3>3 DEF Rules
      <4> QED BY <4>1
    <3>4. CASE c = "PROT_VALUE"
      <4>1. 5 \in DOMAIN Rules[c] /\ Rules[c][5] = "other"
        BY <3>4 DEF Rules
      <4> QED BY <4>1
    <3> QED BY <3>1, <3>2, <3>3, <3>4, CondsAre
  <2> QED BY <2>1 DEF RuleSet, ToSet
<1>4. c = "INITIAL" => "begintag" \in RuleSet(c) /\ "text" \in RuleSet(c)
  <2>1. /\ 4 \in DOMAIN Rules["INITIAL"] /\ Rules["INITIAL"][4] = "begintag"
        /\ 5 \in DOMAIN Rules["INITIAL"] /\ Rules["INITIAL"][5] = "text"
    BY DEF Rules
  <2> QED BY <2>1 DEF RuleSet, ToSet
<1> QED BY <1>1, <1>2, <1>3, <1>4

LEMMA MatchesIs ==
  ASSUME NEW rule \in RuleNames, NEW s
  PROVE  /\ rule \in DOMAIN Literal => (Matches(rule, s) <=> s = Literal[rule])
         /\ rule = "text" => (Matches(rule, s) <=> AllIn(s, Chars \ {"<"}))
         /\ rule = "space" => (Matches(rule, s) <=> AllIn(s, {" "}))
         /\ rule = "name" => (Matches(rule, s) <=> AllIn(s, NameChars))
         /\ rule = "close2" => (Matches(rule, s) <=> Framed(s, "/", {" "}, ">"))
         /\ rule = "quoted" => (Matches(rule, s) <=> Framed(s, "'", Chars \ {"'"}, "'"))
         /\ rule = "unquoted" => (Matches(rule, s) <=> AllIn(s, Chars \ {" ", "/", ">"}))
         /\ rule = "stop" => (Matches(rule, s) <=> s \in {<<"/">>, <<">">>})
         /\ rule = "other" => (Matches(rule, s) <=> Len(s) = 1)
<1> DEFINE D == DOMAIN Literal
<1>1. \A r \in {"text", "space", "name", "close2", "quoted", "unquoted", "stop", "other"} : r \notin D
  BY LiteralsAre
<1> HIDE DEF D
<1>2. CASE rule \in D
  BY <1>1, <1>2 DEF Matches, D
<1>3. CASE rule = "text"
  BY <1>1, <1>3 DEF Matches, D
<1>4. CASE rule = "space"
  BY <1>1, <1>4 DEF Matches, D
<1>5. CASE rule = "name"
  BY <1>1, <1>5 DEF Matches, D
<1>6. CASE rule = "close2"
  BY <1>1, <1>6 DEF Matches, D
<1>7. CASE rule = "quoted"
  BY <1>1, <1>7 DEF Matches, D
<1>8. CASE rule = "unquoted"
  BY <1>1, <1>8 DEF Matches, D
<1>9. CASE rule = "stop"
  BY <1>1, <1>9 DEF Matches, D
<1>10. CASE rule = "other"
  BY <1>1, <1>10 DEF Matches, D
<1> QED BY <1>2, <1>3, <1>4, <1>5, <1>6, <1>7, <1>8, <1>9, <1>10 DEF RuleNames, D

LEMMA BeginsIs ==
  ASSUME NEW rule \in RuleNames, NEW s
  PROVE  /\ rule \in DOMAIN Literal => (Begins(rule, s) <=> IsPrefix(s, Literal[rule]))
         /\ rule = "close2" => (Begins(rule, s) <=> Matches(rule, s) \/ (s[1] = "/" /\ AllIn(Tail(s), {" "})))
         /\ rule = "quoted" =>
              (Begins(rule, s) <=> Matches(rule, s) \/ (s[1] = "'" /\ AllIn(Tail(s), Chars \ {"'"})))
         /\ rule \notin DOMAIN Literal \cup {"close2", "quoted"} => (Begins(rule, s) <=> Matches(rule, s))
<1> DEFINE D == DOMAIN Literal
<1>1. "close2" \notin D /\ "quoted" \notin D
  BY LiteralsAre
<1> HIDE DEF D
<1>2. CASE rule \in D
  BY <1>1, <1>2 DEF Begins, D
<1>3. CASE rule = "close2"
  BY <1>1, <1>3 DEF Begins, D
<1>4. CASE rule = "quoted"
  BY <1>1, <1>4 DEF Begins, D
<1>5. CASE rule \notin D \cup {"close2", "quoted"}
  BY <1>5 DEF Begins, D
<1> QED BY <1>2, <1>3, <1>4, <1>5 DEF D

\* What a rule matches begins with what can still become a match of it.
LEMMA MatchBegins ==
  ASSUME NEW rule \in RuleNames, NEW u \in Texts, NEW s \in Texts, s # <<>>,
         Len(s) <= Len(u), \A i \in 1..Len(s) : s[i] = u[i], Matches(rule, u)
  PROVE  Begins(rule, s)
<1>1. /\ Len(s) \in Nat /\ Len(u) \in Nat /\ Len(s) >= 1
      /\ DOMAIN s = 1..Len(s) /\ DOMAIN u = 1..Len(u)
  BY DEF Texts
<1>2. \A i \in DOMAIN s : i \in DOMAIN u /\ s[i] = u[i]
  BY <1>1
<1>3. CASE rule \in DOMAIN Literal
  <2>1. u = Literal[rule]
    BY <1>3, MatchesIs
  <2>2. SubSeq(s, 1, Len(s)) = s
    BY SubSeqFull DEF Texts
  <2>3. /\ SubSeq(u, 1, Len(s)) \in Texts /\ Len(SubSeq(u, 1, Len(s))) = Len(s)
        /\ \A i \in 1..Len(s) : SubSeq(u, 1, Len(s))[i] = u[i]
    BY <1>1, PrefixIs DEF Texts
  <2>4. SubSeq(u, 1, Len(s)) = s
    BY <2>3, SeqEqual DEF Texts
  <2>5. IsPrefix(s, Literal[rule])
    BY <2>1, <2>2, <2>4 DEF IsPrefix
  <2> QED BY <1>3, <2>5, BeginsIs
<1>4. CASE rule \in {"text", "space", "name", "unquoted"}
  <2>1. rule \notin DOMAIN Literal \cup {"close2", "quoted"}
    BY <1>4, LiteralsAre
  <2>2. \A cs : AllIn(u, cs) => AllIn(s, cs)
    BY <1>2 DEF AllIn
  <2>3. Matches(rule, s)
    BY <1>4, <2>2, MatchesIs
  <2> QED BY <2>1, <2>3, BeginsIs
<1>5. CASE rule \in {"other", "stop"}
  <2>1. rule \notin DOMAIN Literal \cup {"close2", "quoted"}
    BY <1>5, LiteralsAre
  <2>2. Len(u) = 1
    <3>1. rule = "stop" => u \in {<<"/">>, <<">">>}
      BY MatchesIs
    <3>2. rule = "other" => Len(u) = 1
      BY MatchesIs
    <3> QED BY <1>5, <3>1, <3>2
  <2>3. s = u
    BY <1>1, <2>2, SeqEqual DEF Texts
  <2> QED BY <2>1, <2>3, BeginsIs
<1>6. ASSUME NEW a, NEW cs, NEW b, Framed(u, a, cs, b)
      PROVE  s = u \/ (s[1] = a /\ AllIn(Tail(s), cs))
  <2>1. u[1] = a /\ \A i \in 2..(Len(u) - 1) : u[i] \in cs
    BY <1>6 DEF Framed, Between
  <2>2. CASE Len(s) = Len(u)
    BY <2>2, SeqEqual DEF Texts
  <2>3. CASE Len(s) < Len(u)
    <3>1. \A i \in 2..Len(s) : s[i] \in cs
      <4> SUFFICES ASSUME NEW i \in 2..Len(s) PROVE s[i] \in cs
        OBVIOUS
      <4>1. i \in 1..Len(s) /\ i \in 2..(Len(u) - 1)
        BY <1>1, <2>3
      <4> QED BY <2>1, <4>1
    <3>2. /\ Len(Tail(s)) = Len(s) - 1 /\ Tail(s) \in Texts
          /\ \A i \in 1..Len(Tail(s)) : Tail(s)[i] = s[i + 1]
      BY HeadTailProperties DEF Texts
    <3>3. DOMAIN Tail(s) = 1..(Len(s) - 1)
      BY <3>2 DEF Texts
    <3>4. \A i \in 1..(Len(s) - 1) : i + 1 \in 2..Len(s)
      BY <1>1
    <3>5. AllIn(Tail(s), cs)
      BY <3>1, <3>2, <3>3, <3>4 DEF AllIn
    <3>6. s[1] = a
      BY <1>1, <2>1
    <3> QED BY <3>5, <3>6
  <2>4. Len(s) = Len(u) \/ Len(s) < Len(u)
    <3>1. \A m, n \in Nat : m <= n => m = n \/ m < n
      OBVIOUS
    <3>2. Len(s) \in Nat /\ Len(u) \in Nat
      BY <1>1
    <3> HIDE <1>1
    <3> QED BY <3>1, <3>2, Zenon
  <2> QED BY <2>2, <2>3, <2>4
<1>7. CASE rule = "close2"
  <2>1. Framed(u, "/", {" "}, ">")
    BY <1>7, MatchesIs
  <2>2. s = u \/ (s[1] = "/" /\ AllIn(Tail(s), {" "}))
    BY <1>6, <2>1
  <2> QED BY <1>7, <2>2, BeginsIs
<1>8. CASE rule = "quoted"
  <2>1. Framed(u, "'", Chars \ {"'"}, "'")
    BY <1>8, MatchesIs
  <2>2. s = u \/ (s[1] = "'" /\ AllIn(Tail(s), Chars \ {"'"}))
    BY <1>6, <2>1
  <2> QED BY <1>8, <2>2, BeginsIs
<1> QED BY <1>3, <1>4, <1>5, <1>7, <1>8 DEF RuleNames

FitsAt(c, s, n) == {r \in RuleSet(c) : Matches(r, SubSeq(s, 1, n))}
FitLens(c, s) == {n \in 1..Len(s) : FitsAt(c, s, n) # {}}
FirstOf(c, fits) == Rules[c][Min({i \in DOMAIN Rules[c] : Rules[c][i] \in fits})]
Scanned(c, rule, u, len) ==
  [rule |-> rule, taken |-> IF rule = "stop" THEN 0 ELSE len, cond |-> After(c, rule),
   token |-> TokenOf(c, rule, u)]

LEMMA ScanIsScanned ==
  ASSUME NEW c, NEW s
  PROVE  LET len == Max(FitLens(c, s))
         IN Scan(c, s) = Scanned(c, FirstOf(c, FitsAt(c, s, len)), SubSeq(s, 1, len), len)
BY DEF Scan, Scanned, FirstOf, FitsAt, FitLens

LEMMA MaxIs ==
  ASSUME NEW S \in SUBSET Nat, S # {}, NEW b \in Nat, \A x \in S : x <= b
  PROVE  Max(S) \in S /\ \A x \in S : x <= Max(S)
<1>1. \E m \in S : \A x \in S : x <= m
  BY MaxExists
<1>2. \E m \in S : \A x \in S : m >= x
  BY <1>1
<1>3. Max(S) \in S /\ \A x \in S : Max(S) >= x
  BY <1>2 DEF Max
<1> QED BY <1>3

LEMMA MinIs ==
  ASSUME NEW S \in SUBSET Nat, S # {}
  PROVE  Min(S) \in S
<1>1. \E m \in S : \A x \in S : m =< x
  BY MinExists
<1> QED BY <1>1 DEF Min

\* One character is always matched.
LEMMA OneFits ==
  ASSUME NEW c \in Conds, NEW s \in Texts, s # <<>>
  PROVE  1 \in FitLens(c, s)
<1> DEFINE u == SubSeq(s, 1, 1)
<1>1. Len(s) \in Nat /\ 1 <= Len(s)
  BY DEF Texts
<1>2. u \in Texts /\ Len(u) = 1 /\ \A i \in 1..1 : u[i] = s[i]
  BY <1>1, PrefixIs DEF Texts
<1> HIDE DEF u
<1>3. u[1] \in Chars /\ DOMAIN u = 1..1
  BY <1>2 DEF Texts
<1>4. CASE c # "INITIAL"
  <2>1. "other" \in RuleSet(c) /\ "other" \in RuleNames
    BY <1>4, RulesAre DEF RuleNames
  <2>2. Matches("other", u)
    BY <1>2, <2>1, MatchesIs
  <2> QED BY <1>1, <2>1, <2>2 DEF FitLens, FitsAt, u
<1>5. CASE c = "INITIAL" /\ u[1] = "<"
  <2>1. "begintag" \in RuleSet(c) /\ "begintag" \in DOMAIN Literal /\ "begintag" \in RuleNames
    BY <1>5, RulesAre, LiteralsAre DEF RuleNames
  <2>2. Literal["begintag"] = <<"<">>
    BY DEF Literal
  <2>3. Literal["begintag"] \in Texts /\ Len(<<"<">>) = 1 /\ <<"<">>[1] = "<"
    BY <2>1, LiteralsAre
  <2>4. u = Literal["begintag"]
    BY <1>2, <1>5, <2>2, <2>3, SeqEqual DEF Texts
  <2>5. Matches("begintag", u)
    BY <2>1, <2>4, MatchesIs
  <2> QED BY <1>1, <2>1, <2>5 DEF FitLens, FitsAt, u
<1>6. CASE c = "INITIAL" /\ u[1] # "<"
  <2>1. "text" \in RuleSet(c) /\ "text" \in RuleNames
    BY <1>6, RulesAre DEF RuleNames
  <2>2. AllIn(u, Chars \ {"<"})
    BY <1>3, <1>6 DEF AllIn
  <2>3. Matches("text", u)
    BY <2>1, <2>2, MatchesIs
  <2> QED BY <1>1, <2>1, <2>3 DEF FitLens, FitsAt, u
<1> QED BY <1>4, <1>5, <1>6

\* What one match of the scanner is.
LEMMA ScanIs ==
  ASSUME NEW c \in Conds, NEW s \in Texts, s # <<>>
  PROVE  \E len \in 1..Len(s), rule \in RuleSet(c) :
           /\ Matches(rule, SubSeq(s, 1, len))
           /\ Scan(c, s) = Scanned(c, rule, SubSeq(s, 1, len), len)
<1> DEFINE len == Max(FitLens(c, s))
           fits == FitsAt(c, s, len)
           at == {i \in DOMAIN Rules[c] : Rules[c][i] \in fits}
           rule == FirstOf(c, fits)
<1>1. Len(s) \in Nat /\ FitLens(c, s) \in SUBSET Nat /\ \A x \in FitLens(c, s) : x <= Len(s)
  BY DEF Texts, FitLens
<1>2. len \in FitLens(c, s)
  BY <1>1, OneFits, MaxIs
<1>3. len \in 1..Len(s) /\ fits # {} /\ fits \subseteq RuleSet(c)
  BY <1>2 DEF FitLens, FitsAt
<1>4. at \in SUBSET Nat /\ at # {}
  <2>1. Rules[c] \in Seq(RuleNames)
    BY RulesAre
  <2> QED BY <1>3, <2>1 DEF RuleSet, ToSet
<1>5. Min(at) \in at
  <2> HIDE DEF at
  <2> QED BY <1>4, MinIs
<1>6. rule \in fits
  BY <1>5 DEF FirstOf
<1>7. rule \in RuleSet(c) /\ Matches(rule, SubSeq(s, 1, len))
  BY <1>6 DEF FitsAt
<1>8. Scan(c, s) = Scanned(c, rule, SubSeq(s, 1, len), len)
  BY ScanIsScanned
<1> QED BY <1>3, <1>7, <1>8

LEMMA ScanTypes ==
  ASSUME NEW c \in Conds, NEW s \in Texts, s # <<>>
  PROVE  /\ Scan(c, s).taken \in 0..Len(s) /\ Scan(c, s).cond \in Conds
         /\ Scan(c, s).token \in Tokens
<1>1. PICK len \in 1..Len(s), rule \in RuleSet(c) :
         Scan(c, s) = Scanned(c, rule, SubSeq(s, 1, len), len)
  BY ScanIs
<1> DEFINE u == SubSeq(s, 1, len)
<1>2. Len(s) \in Nat /\ len \in Nat /\ len <= Len(s)
  BY DEF Texts
<1>3. u \in Texts
  BY <1>2, PrefixIs DEF Texts
<1> HIDE DEF u
<1>4. Scan(c, s) = Scanned(c, rule, u, len)
  BY <1>1 DEF u
<1>5. SubSeq(u, 2, Len(u) - 1) \in Texts /\ <<>> \in Texts
  <2>1. Len(u) - 1 \in Int /\ \A i \in 2..(Len(u) - 1) : u[i] \in Chars
    BY <1>3 DEF Texts
  <2> QED BY <2>1, SubSeqProperties DEF Texts
<1>6. TokenOf(c, rule, u) \in Tokens
  BY <1>3, <1>5 DEF TokenOf, Tokens, NoToken
<1>7. After(c, rule) \in Conds
  BY CondsAre DEF After
<1>8. /\ Scan(c, s).taken = IF rule = "stop" THEN 0 ELSE len
      /\ Scan(c, s).cond = After(c, rule) /\ Scan(c, s).token = TokenOf(c, rule, u)
  BY <1>4 DEF Scanned
<1> QED BY <1>2, <1>6, <1>7, <1>8

\* What is decided at the end of a fragment is so whatever comes after it: the
\* match, the start condition and the token (the rules of html.l, and its saving
\* of what is undecided, 8-20 and 502-538).
THEOREM ScanExtends ==
  ASSUME NEW c \in Conds, NEW s \in Texts, NEW t \in Texts, s # <<>>, ~Undecided(c, s)
  PROVE  Scan(c, s \o t) = Scan(c, s)
<1> DEFINE w == s \o t
<1>1. /\ Len(s) \in Nat /\ Len(t) \in Nat /\ w \in Texts /\ Len(w) = Len(s) + Len(t)
      /\ \A i \in 1..Len(s) : w[i] = s[i]
  BY DEF Texts
<1>2. ASSUME NEW n \in 1..Len(s)
      PROVE  SubSeq(w, 1, n) = SubSeq(s, 1, n)
  <2>1. 1 \in 1..Len(s)
    BY <1>1
  <2> QED BY <2>1, SubSeqOfConcat1 DEF Texts
<1> HIDE DEF w
<1>3. \A n \in 1..Len(s) : FitsAt(c, w, n) = FitsAt(c, s, n)
  BY <1>2 DEF FitsAt
<1>4. ASSUME NEW n \in 1..Len(w), n \notin 1..Len(s)
      PROVE  FitsAt(c, w, n) = {}
  <2> SUFFICES ASSUME NEW r \in RuleSet(c), Matches(r, SubSeq(w, 1, n)) PROVE FALSE
    BY DEF FitsAt
  <2>1. n \in Nat /\ n <= Len(w) /\ Len(s) <= n
    BY <1>1, <1>4
  <2> DEFINE u == SubSeq(w, 1, n)
  <2>2. u \in Texts /\ Len(u) = n /\ \A i \in 1..n : u[i] = w[i]
    BY <1>1, <2>1, PrefixIs DEF Texts
  <2>3. \A i \in 1..Len(s) : i \in 1..n
    BY <1>1, <2>1
  <2>4. \A i \in 1..Len(s) : s[i] = u[i]
    BY <1>1, <2>2, <2>3
  <2>5. r \in RuleNames
    BY RulesAre
  <2> HIDE DEF u
  <2>6. Len(s) <= Len(u) /\ Matches(r, u)
    BY <2>1, <2>2 DEF u
  <2>7. Begins(r, s)
    BY <2>2, <2>4, <2>5, <2>6, MatchBegins
  <2> QED BY <2>7 DEF Undecided
<1>5. FitLens(c, w) = FitLens(c, s)
  <2>1. \A n \in 1..Len(s) : n \in 1..Len(w)
    BY <1>1
  <2> QED BY <1>3, <1>4, <2>1 DEF FitLens
<1> DEFINE len == Max(FitLens(c, s))
<1>6. len \in 1..Len(s)
  <2>1. FitLens(c, s) \in SUBSET Nat /\ \A x \in FitLens(c, s) : x <= Len(s)
    BY <1>1 DEF FitLens
  <2>2. len \in FitLens(c, s)
    BY <1>1, <2>1, OneFits, MaxIs
  <2> QED BY <2>2 DEF FitLens
<1> HIDE DEF len
<1>7. Scan(c, s) = Scanned(c, FirstOf(c, FitsAt(c, s, len)), SubSeq(s, 1, len), len)
  BY ScanIsScanned DEF len
<1>8. Scan(c, w) = Scanned(c, FirstOf(c, FitsAt(c, w, len)), SubSeq(w, 1, len), len)
  BY <1>5, ScanIsScanned DEF len
<1>9. FitsAt(c, w, len) = FitsAt(c, s, len) /\ SubSeq(w, 1, len) = SubSeq(s, 1, len)
  BY <1>2, <1>3, <1>6
<1> QED BY <1>7, <1>8, <1>9 DEF w

\* Only the end of the document is accepted.
LEMMA ShiftedState ==
  ASSUME NEW src, NEW u, Sound(u), Reads(u), NEW tok \in Tokens, NEW r \in Shifted(src, u, tok),
         r.state = "accepted"
  PROVE  tok.sym = "end" /\ u.state = "doc" /\ r = DocumentEnded(src, u)
<1>1. u \in Parsers /\ Stacked(u) /\ tok.text \in Texts /\ u.state # "accepted"
  BY DEF Sound, Tokens, Reads, InTagStates
<1>2. Aborted(u).state = "nomem"
  BY <1>1 DEF Aborted, Parsers
<1>3. CASE u.state = "doc" /\ r \in TextRead(src, u, tok.text)
  BY <1>1, <1>2, <1>3, TextReadCases
<1>4. CASE r = Beginning(u, tok.sym) \/ r = NamedAs(u, tok.text)
           \/ r = InState(u, "value") \/ r = InState(u, "error")
  BY <1>1, <1>4 DEF Beginning, NamedAs, InState, Parsers
<1>5. CASE r = NameRead(src, u, tok.text)
  BY <1>1, <1>5, NameReadIs
<1>6. CASE u.state = "value" /\ r \in ValueRead(src, u, tok.text)
  <2>1. \/ r = [u EXCEPT !.state = "list"] \/ r = Aborted(u)
        \/ r = NewProt(u, tok.text, u.strings + 1)
    BY <1>1, <1>6, ValueSound
  <2> QED BY <1>1, <1>2, <2>1 DEF NewProt, Parsers
<1>7. CASE u.state = "list" /\ u.end /\ r = TagEnded(src, u)
  <2>1. u.open # <<>>
    BY <1>1, <1>7 DEF Stacked, InTagStates
  <2> QED BY <1>1, <1>7, <2>1, TagEndedIs
<1>8. CASE u.state = "list" /\ r \in TagBegun(src, u)
  <2>1. \/ r = Aborted(u) \/ r.state \in {"dead", "reset"}
        \/ Opens(u, r, Len(u.nodes) + 1) \/ Opens(u, r, 0)
    BY <1>1, <1>8, TagBegunCases
  <2> QED BY <1>2, <2>1 DEF Opens
<1> QED BY <1>1, <1>3, <1>4, <1>5, <1>6, <1>7, <1>8, ShiftedCases

LEMMA PushedState ==
  ASSUME NEW src, NEW q, Sound(q), Reads(q), NEW tok \in Tokens, NEW r \in Pushed(src, q, tok),
         r.state = "accepted"
  PROVE  tok.sym = "end" /\ r.open = <<>> /\ r.docs = << <<>> >>
<1>1. PICK u \in IF tok.sym = "=" THEN {q} ELSE Unvalued(src, q) :
           \/ u.state = "nomem" /\ r = u
           \/ u.state # "nomem" /\ r = Aborted(u)
           \/ u.state # "nomem" /\ r \in Shifted(src, u, tok)
  BY PushedCases DEF Sound
<1>2. Sound(u)
  BY <1>1, UnvaluedSound
<1>3. Aborted(u).state = "nomem"
  BY <1>2 DEF Aborted, Sound, Parsers
<1>4. u.state # "nomem" /\ r \in Shifted(src, u, tok)
  BY <1>1, <1>3
<1>5. Reads(u)
  BY <1>1, <1>4, UnvaluedReads DEF Sound
<1>6. tok.sym = "end" /\ r = DocumentEnded(src, u)
  BY <1>2, <1>4, <1>5, ShiftedState
<1> QED BY <1>2, <1>6, DocumentEndedIs DEF Sound

LEMMA ScanToken ==
  ASSUME NEW c \in Conds, NEW s \in Texts, s # <<>>
  PROVE  Scan(c, s).token.sym # "end"
<1>1. PICK len \in 1..Len(s), rule \in RuleSet(c) :
         Scan(c, s) = Scanned(c, rule, SubSeq(s, 1, len), len)
  BY ScanIs
<1> DEFINE u == SubSeq(s, 1, len)
<1> HIDE DEF u
<1>2. Scan(c, s).token = TokenOf(c, rule, u)
  BY <1>1 DEF Scanned, u
<1>3. TokenOf(c, rule, u).sym # "end"
  BY DEF TokenOf, NoToken
<1> QED BY <1>2, <1>3

\* A match of all there is would have been saved.
LEMMA ScanLeaves ==
  ASSUME NEW c \in Conds, NEW s \in Texts, s # <<>>, ~Undecided(c, s)
  PROVE  Scan(c, s).taken < Len(s)
<1>1. PICK len \in 1..Len(s), rule \in RuleSet(c) :
         Matches(rule, SubSeq(s, 1, len)) /\ Scan(c, s) = Scanned(c, rule, SubSeq(s, 1, len), len)
  BY ScanIs
<1>2. Len(s) \in Nat /\ 1 <= Len(s)
  BY DEF Texts
<1>3. len # Len(s)
  <2> SUFFICES ASSUME len = Len(s) PROVE FALSE
    OBVIOUS
  <2>1. SubSeq(s, 1, len) = s
    BY SubSeqFull DEF Texts
  <2>2. rule \in RuleNames /\ Matches(rule, s)
    BY <1>1, <2>1, RulesAre
  <2>3. Len(s) <= Len(s)
    BY <1>2
  <2>4. Begins(rule, s)
    BY <2>2, <2>3, MatchBegins
  <2> QED BY <1>1, <2>4 DEF Undecided
<1>4. Scan(c, s).taken = IF rule = "stop" THEN 0 ELSE len
  BY <1>1 DEF Scanned
<1> QED BY <1>2, <1>3, <1>4

\* The end of the document ends the parser's loop.
LEMMA EndStops ==
  ASSUME NEW src, NEW q, Sound(q), Reads(q), NEW r \in Pushed(src, q, EndToken)
  PROVE  /\ ~Reads(r)
         /\ q.state = "doc" => r.state \in {"accepted", "nomem"}
<1>1. EndToken \in Tokens /\ EndToken.sym = "end"
  BY DEF EndToken, Tokens, Texts
<1>2. PICK u \in IF EndToken.sym = "=" THEN {q} ELSE Unvalued(src, q) :
           \/ u.state = "nomem" /\ r = u
           \/ u.state # "nomem" /\ r = Aborted(u)
           \/ u.state # "nomem" /\ r \in Shifted(src, u, EndToken)
  BY <1>1, PushedCases DEF Sound
<1>3. Sound(u) /\ u \in Unvalued(src, q)
  BY <1>1, <1>2, UnvaluedSound
<1>4. Aborted(u).state = "nomem" /\ InState(u, "error").state = "error"
  BY <1>3 DEF Aborted, InState, Sound, Parsers
<1>5. CASE r.state = "nomem"
  BY <1>5 DEF Reads, InTagStates
<1>6. CASE u.state # "nomem" /\ r \in Shifted(src, u, EndToken)
  <2>1. Reads(u) /\ (u.state = IF q.state = "named" THEN "list" ELSE q.state)
    BY <1>3, <1>6, UnvaluedReads DEF Sound
  <2>2. \/ u.state = "doc" /\ r = DocumentEnded(src, u)
        \/ r = InState(u, "error") /\ u.state # "doc"
    BY <1>1, <1>3, <1>6, ShiftedCases DEF Sound, Fits
  <2>3. CASE u.state = "doc" /\ r = DocumentEnded(src, u)
    <3>1. r.state = "accepted"
      BY <1>3, <2>3, DocumentEndedIs DEF Sound
    <3> QED BY <3>1 DEF Reads, InTagStates
  <2>4. CASE r = InState(u, "error") /\ u.state # "doc"
    <3>1. q.state # "doc"
      BY <2>1, <2>4
    <3> QED BY <1>4, <2>4, <3>1 DEF Reads, InTagStates
  <2> QED BY <2>2, <2>3, <2>4
<1> QED BY <1>2, <1>4, <1>5, <1>6

-----------------------------------------------------------------------------
(* The invariant                                                           *)

Types ==
  /\ doc \in Texts /\ source \in {"FILE", "STREAM"}
  /\ rest \in Texts /\ last_string \in Texts /\ buf \in Texts
  /\ fresh \in BOOLEAN /\ last_frag \in BOOLEAN /\ cond \in Conds
  /\ phase \in {"idle", "scanning", "failed", "dead", "freed"}

Phases ==
  /\ phase = "scanning" => Reads(p) /\ last_string = <<>>
  /\ phase = "idle" =>
       buf = <<>> /\ IF last_frag THEN p.state = "accepted" ELSE Reads(p)
  /\ phase = "failed" => Reads(p) \/ p.state \in {"error", "nomem", "reset"}
  /\ phase = "dead" => Reads(p) \/ p.state = "dead"
  /\ phase = "freed" => p.state # "dead"
  /\ last_frag => rest = <<>>

\* Where nothing has come that is not read, nothing has come at all since the
\* parser last began.
AtStart ==
  ~last_frag /\ ((phase = "idle" /\ last_string = <<>>) \/ (phase = "scanning" /\ buf = <<>>)) =>
    p.state = "doc" /\ p.docs = << <<>> >> /\ p.open = <<>>

\* The text saved, the buffer and what has not arrived end the document.
Lies(s, at) == \A i \in 1..Len(s) : s[i] = doc[at + i]
Placed ==
  /\ At >= 0
  /\ Lies(last_string, At)
  /\ Lies(buf, At + Len(last_string))
  /\ Lies(rest, At + Len(last_string) + Len(buf))

Inv == Types /\ Phases /\ AtStart /\ Placed /\ Sound(p) /\ NothingLost

\* What a token does to the rest of the decoder.
LEMMA PushStep ==
  ASSUME Inv, phase = "scanning", NEW tok \in Tokens, Push(tok)
  PROVE  /\ Sound(p)'
         /\ phase' \in {"scanning", "idle", "failed", "dead"}
         /\ phase' = "scanning" => Reads(p')
         /\ phase' = "idle" =>
              /\ tok.sym = "end"
              /\ IF last_frag THEN p'.state = "accepted"
                 ELSE p'.state = "doc" /\ p'.docs = << <<>> >> /\ p'.open = <<>>
         /\ phase' = "failed" => p'.state \in {"error", "nomem", "reset"}
         /\ phase' = "dead" => p'.state = "dead"
         /\ live' = [nodes |-> Len(p'.nodes), prots |-> Len(p'.prots), strings |-> Held(p')]
         /\ tok = EndToken => phase' # "scanning"
<1>1. Sound(p) /\ Reads(p)
  BY DEF Inv, Phases
<1>2. PICK q \in Pushed(source, p, tok) :
    /\ p' = IF q.state = "accepted" /\ ~last_frag THEN [q EXCEPT !.state = "doc"] ELSE q
    /\ phase' = CASE q.state = "dead" -> "dead"
                  [] q.state \in {"error", "nomem", "reset"} -> "failed"
                  [] q.state = "accepted" -> "idle"
                  [] OTHER -> "scanning"
    /\ live' = [nodes |-> Len(q.nodes), prots |-> Len(q.prots), strings |-> q.strings]
  BY DEF Push
<1>3. Sound(q)
  BY <1>1, PushedSound
<1>4. q.state \in States
  BY <1>3 DEF Sound, Parsers
<1>5. live' = [nodes |-> Len(q.nodes), prots |-> Len(q.prots), strings |-> Held(q)]
  BY <1>2, <1>3 DEF Sound
<1>6. CASE q.state = "accepted" /\ ~last_frag
  <2>1. tok.sym = "end" /\ q.open = <<>> /\ q.docs = << <<>> >>
    BY <1>1, <1>6, PushedState
  <2>2. phase' = "idle" /\ p' = [q EXCEPT !.state = "doc"]
    BY <1>2, <1>6
  <2>3. "doc" \in States /\ "doc" \notin InTagStates
    BY DEF States, InTagStates
  <2>4. Sound(p')
    BY <1>3, <2>2, <2>3, StateSound
  <2>5. p'.state = "doc" /\ SameTree(q, p') /\ SameLists(q, p') /\ p' \in Parsers
    BY <1>3, <2>2, <2>3, StateIs DEF Sound
  <2>6. Held(p') = Held(q)
    BY <1>3, <2>5, HeldLists DEF Sound, SameLists
  <2> QED BY <1>5, <1>6, <2>1, <2>2, <2>4, <2>5, <2>6 DEF SameTree, SameLists
<1>7. CASE ~(q.state = "accepted" /\ ~last_frag)
  <2>1. p' = q
    BY <1>2, <1>7
  <2>2. tok = EndToken => ~Reads(q)
    BY <1>1, EndStops
  <2>3. q.state = "accepted" => tok.sym = "end"
    BY <1>1, PushedState
  <2>4. /\ phase' \in {"scanning", "idle", "failed", "dead"}
        /\ phase' = "scanning" => Reads(q)
        /\ phase' = "idle" => q.state = "accepted"
        /\ phase' = "failed" => q.state \in {"error", "nomem", "reset"}
        /\ phase' = "dead" => q.state = "dead"
    BY <1>2, <1>4 DEF States, InTagStates, Reads
  <2> QED BY <1>3, <1>5, <1>7, <2>1, <2>2, <2>3, <2>4
<1> QED BY <1>6, <1>7

LEMMA SuffixIs ==
  ASSUME NEW S, NEW s \in Seq(S), NEW n \in Nat, n <= Len(s)
  PROVE  /\ SubSeq(s, n + 1, Len(s)) \in Seq(S)
         /\ Len(SubSeq(s, n + 1, Len(s))) = Len(s) - n
         /\ \A i \in 1..(Len(s) - n) : SubSeq(s, n + 1, Len(s))[i] = s[n + i]
<1>1. Len(s) \in Nat
  OBVIOUS
<1>2. \A i \in (n + 1)..Len(s) : s[i] \in S
  BY <1>1, ElementOfSeq
<1>3. /\ SubSeq(s, n + 1, Len(s)) \in Seq(S)
      /\ Len(SubSeq(s, n + 1, Len(s))) = IF n + 1 <= Len(s) THEN Len(s) - (n + 1) + 1 ELSE 0
      /\ \A i \in 1..(Len(s) - (n + 1) + 1) : SubSeq(s, n + 1, Len(s))[i] = s[n + 1 + i - 1]
  BY <1>1, <1>2, SubSeqProperties
<1> QED BY <1>1, <1>3

LEMMA TextLengths ==
  ASSUME Inv
  PROVE  /\ Len(doc) \in Nat /\ Len(rest) \in Nat /\ Len(last_string) \in Nat /\ Len(buf) \in Nat
         /\ At \in Nat
<1>1. Len(doc) \in Nat /\ Len(rest) \in Nat /\ Len(last_string) \in Nat /\ Len(buf) \in Nat
  BY DEF Inv, Types, Texts
<1> QED BY <1>1 DEF Inv, Placed, At

LEMMA InitInv == Init => Inv
<1> SUFFICES ASSUME Init PROVE Inv
  OBVIOUS
<1>1. doc \in Texts /\ rest = doc /\ last_string = <<>> /\ buf = <<>> /\ p = Start
  BY DocumentsAssumption DEF Init, Texts
<1>2. Types
  <2>1. cond \in Conds
    BY CondsAre DEF Init
  <2>2. <<>> \in Texts
    BY DEF Texts
  <2>3. rest \in Texts /\ last_string \in Texts /\ buf \in Texts
    BY <1>1, <2>2
  <2> QED BY <1>1, <2>1, <2>3 DEF Init, Types
<1>3. Phases /\ AtStart
  BY <1>1 DEF Init, Phases, AtStart, Start, Reads, InTagStates
<1>4. Placed
  <2>1. Len(doc) \in Nat /\ Len(rest) = Len(doc) /\ Len(last_string) = 0 /\ Len(buf) = 0
    BY <1>1 DEF Texts
  <2> QED BY <1>1, <2>1 DEF Placed, Lies, At
<1>5. Start \in Parsers /\ Start.nodes = <<>> /\ Start.prots = <<>> /\ Start.strings = 0
  BY StartTypes DEF Start
<1>6. Held(Start) = 0
  <2>1. DOMAIN Start.nodes = {} /\ DOMAIN Start.prots = {}
    BY <1>5
  <2>2. TextIds(Start.nodes) = {} /\ ValueIds(Start.prots) = {}
    BY <2>1 DEF TextIds, ValueIds
  <2> QED BY <1>5, <2>2, HeldIs, FS_EmptySet
<1>7. Sound(p)
  BY <1>1, <1>5, <1>6, StartTypes DEF Sound
<1>8. NothingLost
  BY <1>1, <1>5, <1>6 DEF Init, NothingLost
<1> QED BY <1>2, <1>3, <1>4, <1>7, <1>8 DEF Inv

LEMMA DeliverInv ==
  ASSUME Inv, NEW n \in 0..Len(rest), NEW last \in BOOLEAN, Deliver(n, last)
  PROVE  Inv' /\ At' = At
<1>1. /\ phase = "idle" /\ ~last_frag /\ (last => n = Len(rest)) /\ buf = <<>> /\ Reads(p)
      /\ phase' = "scanning" /\ last_frag' = last /\ fresh' = TRUE /\ last_string' = <<>>
      /\ doc' = doc /\ source' = source /\ cond' = cond /\ p' = p /\ live' = live
      /\ buf' = last_string \o SubSeq(rest, 1, n)
      /\ rest' = SubSeq(rest, n + 1, Len(rest))
  BY DEF Deliver, Inv, Phases
<1>2. /\ doc \in Texts /\ rest \in Texts /\ last_string \in Texts /\ Len(buf) = 0
      /\ Len(rest) \in Nat /\ n \in Nat /\ n <= Len(rest) /\ Len(last_string) \in Nat /\ At \in Nat
      /\ Len(doc) \in Nat
  BY <1>1, TextLengths DEF Inv, Types
<1>3. /\ SubSeq(rest, 1, n) \in Texts /\ Len(SubSeq(rest, 1, n)) = n
      /\ \A i \in 1..n : SubSeq(rest, 1, n)[i] = rest[i]
  BY <1>2, PrefixIs DEF Texts
<1>4. /\ rest' \in Texts /\ Len(rest') = Len(rest) - n
      /\ \A i \in 1..(Len(rest) - n) : rest'[i] = rest[n + i]
  BY <1>1, <1>2, SuffixIs DEF Texts
<1>5. /\ buf' \in Texts /\ Len(buf') = Len(last_string) + n
      /\ \A i \in 1..Len(buf') : buf'[i] = IF i <= Len(last_string) THEN last_string[i]
                                           ELSE rest[i - Len(last_string)]
  <2> DEFINE t == SubSeq(rest, 1, n)
  <2>1. t \in Texts /\ Len(t) = n /\ \A i \in 1..n : t[i] = rest[i]
    BY <1>3
  <2>2. buf' = last_string \o t
    BY <1>1
  <2> HIDE DEF t
  <2>3. last_string \in Texts
    BY <1>2
  <2>4. buf' \in Texts /\ Len(buf') = Len(last_string) + n
    BY <2>1, <2>2, <2>3, ConcatProperties DEF Texts
  <2>5. \A i \in 1..(Len(last_string) + n) :
          buf'[i] = IF i <= Len(last_string) THEN last_string[i] ELSE t[i - Len(last_string)]
    BY <2>1, <2>2, <2>3 DEF Texts
  <2>6. \A i \in 1..(Len(last_string) + n) :
          i <= Len(last_string) \/ i - Len(last_string) \in 1..n
    BY <1>2
  <2> QED BY <2>1, <2>4, <2>5, <2>6
<1>6. Types'
  BY <1>1, <1>4, <1>5 DEF Inv, Types, Texts
<1>7. Phases'
  <2>1. last => rest' = <<>>
    BY <1>1, <1>2, <1>4 DEF Texts
  <2> QED BY <1>1, <2>1 DEF Phases
<1>8. AtStart'
  <2>1. buf' = <<>> => last_string = <<>>
    BY <1>2, <1>5 DEF Texts
  <2> QED BY <1>1, <2>1 DEF Inv, AtStart
<1>9. Placed' /\ At' = At
  <2>0. Len(last_string') = 0
    BY <1>1
  <2>1. At' = At
    <3>1. doc' = doc
      BY <1>1
    <3> QED BY <1>2, <1>4, <1>5, <2>0, <3>1 DEF At
  <2>2. /\ \A i \in 1..Len(last_string) : last_string[i] = doc[At + i]
        /\ \A i \in 1..Len(rest) : rest[i] = doc[At + Len(last_string) + i]
    BY <1>2 DEF Inv, Placed, Lies
  <2>3. \A i \in 1..Len(buf') : buf'[i] = doc[At + i]
    BY <1>2, <1>5, <2>2
  <2>4. \A i \in 1..(Len(rest) - n) : rest'[i] = doc[At + Len(buf') + i]
    BY <1>2, <1>4, <1>5, <2>2
  <2>5. doc' = doc /\ At >= 0 /\ At + 0 = At /\ Len(rest') = Len(rest) - n
    BY <1>1, <1>2, <1>4
  <2>6. At' + Len(last_string') = At /\ At' + Len(last_string') + Len(buf') = At + Len(buf')
    BY <1>2, <2>0, <2>1
  <2>7. Lies(last_string, At)'
    BY <2>0 DEF Lies
  <2>8. Lies(buf, At + Len(last_string))'
    BY <2>3, <2>5, <2>6 DEF Lies
  <2>9. Lies(rest, At + Len(last_string) + Len(buf))'
    BY <2>4, <2>5, <2>6 DEF Lies
  <2> QED BY <2>1, <2>5, <2>7, <2>8, <2>9 DEF Placed
<1>10. Sound(p)' /\ NothingLost'
  BY <1>1 DEF Inv, NothingLost
<1> QED BY <1>6, <1>7, <1>8, <1>9, <1>10 DEF Inv

LEMMA SaveInv ==
  ASSUME Inv, Save
  PROVE  Inv' /\ At' = At
<1>1. /\ phase = "scanning" /\ ~last_frag /\ buf # <<>> /\ last_string = <<>> /\ Reads(p)
      /\ phase' = "idle" /\ last_string' = buf /\ buf' = <<>> /\ last_frag' = last_frag
      /\ UNCHANGED <<doc, source, rest, fresh, cond, p, live>>
  BY DEF Save, Saves, Inv, Phases
<1>2. Types' /\ Phases' /\ AtStart'
  BY <1>1 DEF Inv, Types, Phases, AtStart, Texts
<1>3. Placed' /\ At' = At
  <2>1. Len(last_string) = 0 /\ Len(buf') = 0 /\ At' = At
    BY <1>1, TextLengths DEF At
  <2>2. At + 0 + Len(buf) = At + Len(buf) + 0 /\ At + 0 = At
    BY TextLengths
  <2> QED BY <1>1, <2>1, <2>2 DEF Inv, Placed, Lies
<1> QED BY <1>1, <1>2, <1>3 DEF Inv, NothingLost

\* Reading what is in the buffer, from any number of its characters on.
Passes(n) == buf' = SubSeq(buf, n + 1, Len(buf))
LEMMA ReadPlaced ==
  ASSUME Inv, last_string = <<>>, NEW n \in Nat, n <= Len(buf), Passes(n),
         UNCHANGED <<doc, rest, last_string>>
  PROVE  Placed' /\ At' = At + n /\ buf' \in Texts /\ Len(buf') = Len(buf) - n
<1>1. /\ Len(doc) \in Nat /\ Len(rest) \in Nat /\ Len(buf) \in Nat /\ At \in Nat
      /\ Len(last_string) = 0 /\ Len(last_string') = 0 /\ buf \in Texts
  BY TextLengths DEF Inv, Types
<1>2. /\ buf' \in Texts /\ Len(buf') = Len(buf) - n
      /\ \A i \in 1..(Len(buf) - n) : buf'[i] = buf[n + i]
  BY <1>1, SuffixIs DEF Texts, Passes
<1>3. doc' = doc /\ rest' = rest
  OBVIOUS
<1>4. At' = At + n
  <2>1. Len(doc') = Len(doc) /\ Len(rest') = Len(rest)
    BY <1>3
  <2>2. Len(buf') = Len(buf) - n
    BY <1>2
  <2> QED BY <1>1, <2>1, <2>2 DEF At
<1>5. /\ \A i \in 1..Len(buf) : buf[i] = doc[At + i]
      /\ \A i \in 1..Len(rest) : rest[i] = doc[At + Len(buf) + i]
  BY <1>1 DEF Inv, Placed, Lies
<1>6. \A i \in 1..(Len(buf) - n) : buf'[i] = doc[At + n + i]
  BY <1>1, <1>2, <1>5
<1>7. /\ At' >= 0 /\ At' + Len(last_string') = At + n
      /\ At' + Len(last_string') + Len(buf') = At + Len(buf)
  <2>1. Len(buf') = Len(buf) - n
    BY <1>2
  <2>2. At \in Nat /\ Len(buf) \in Nat /\ Len(last_string') = 0
    BY <1>1
  <2> QED BY <1>4, <2>1, <2>2
<1>8. Lies(last_string, At)'
  BY <1>1 DEF Lies
<1>9. Lies(buf, At + Len(last_string))'
  BY <1>2, <1>3, <1>6, <1>7 DEF Lies
<1>10. Lies(rest, At + Len(last_string) + Len(buf))'
  BY <1>3, <1>5, <1>7 DEF Lies
<1> QED BY <1>2, <1>4, <1>7, <1>8, <1>9, <1>10 DEF Placed

LEMMA LexInv ==
  ASSUME Inv, Lex
  PROVE  Inv'
<1> DEFINE s == Scan(cond, buf)
<1>1. /\ phase = "scanning" /\ buf # <<>> /\ ~Saves(buf) /\ last_string = <<>> /\ Reads(p)
      /\ UNCHANGED <<doc, source, rest, last_string, last_frag>>
      /\ buf \in Texts /\ cond \in Conds /\ Types /\ Sound(p)
      /\ last_frag => rest = <<>>
  BY DEF Lex, Inv, Phases, Types
<1>2. s.taken \in 0..Len(buf) /\ s.cond \in Conds /\ s.token \in Tokens /\ s.token.sym # "end"
  BY <1>1, ScanTypes, ScanToken
<1>3. Len(buf) \in Nat
  BY <1>1 DEF Texts
<1>4. CASE s.rule = "stop" /\ fresh
  <2>1. phase' = "dead" /\ UNCHANGED <<buf, cond, fresh, p, live>>
    BY <1>4 DEF Lex
  <2>2. Types' /\ Phases' /\ AtStart' /\ Placed' /\ Sound(p)' /\ NothingLost'
    BY <1>1, <2>1 DEF Inv, Types, Phases, AtStart, Placed, At, Lies, NothingLost
  <2> QED BY <2>2 DEF Inv
<1>5. CASE ~(s.rule = "stop" /\ fresh)
  <2>1. /\ buf' = SubSeq(buf, s.taken + 1, Len(buf)) /\ cond' = s.cond /\ fresh' = FALSE
        /\ IF s.token = NoToken THEN UNCHANGED <<p, phase, live>> ELSE Push(s.token)
    BY <1>5 DEF Lex
  <2> DEFINE n == s.taken
             tok == s.token
  <2>2. n \in Nat /\ n <= Len(buf) /\ Passes(n)
    BY <1>2, <1>3, <2>1 DEF Passes
  <2>3. ~last_frag => n < Len(buf)
    BY <1>1, ScanLeaves DEF Saves
  <2>4. /\ tok \in Tokens /\ tok.sym # "end" /\ cond' \in Conds
        /\ tok = NoToken \/ Push(tok)
        /\ tok = NoToken => UNCHANGED <<p, phase, live>>
    BY <1>2, <2>1
  <2> HIDE DEF n, tok, s
  <2>5. Placed' /\ buf' \in Texts /\ Len(buf') = Len(buf) - n
    BY <1>1, <2>2, ReadPlaced
  <2>6. ~last_frag => buf' # <<>>
    BY <1>3, <2>2, <2>3, <2>5
  <2>7. CASE tok = NoToken
    <3>1. UNCHANGED <<p, phase, live>>
      BY <2>4, <2>7
    <3>2. Types' /\ Phases' /\ AtStart' /\ Sound(p)' /\ NothingLost'
      BY <1>1, <2>1, <2>4, <2>5, <2>6, <3>1 DEF Inv, Types, Phases, AtStart, NothingLost
    <3> QED BY <2>5, <3>2 DEF Inv
  <2>8. CASE Push(tok)
    <3>1. /\ Sound(p)' /\ phase' \in {"scanning", "failed", "dead"}
          /\ phase' = "scanning" => Reads(p')
          /\ phase' = "failed" => p'.state \in {"error", "nomem", "reset"}
          /\ phase' = "dead" => p'.state = "dead"
          /\ live' = [nodes |-> Len(p'.nodes), prots |-> Len(p'.prots), strings |-> Held(p')]
      BY <1>1, <2>4, <2>8, PushStep
    <3>2. Types'
      BY <1>1, <2>1, <2>4, <2>5, <3>1 DEF Types
    <3>3. Phases' /\ AtStart' /\ NothingLost'
      BY <1>1, <2>6, <3>1 DEF Phases, AtStart, NothingLost
    <3> QED BY <2>5, <3>1, <3>2, <3>3 DEF Inv
  <2> QED BY <2>4, <2>7, <2>8
<1> QED BY <1>4, <1>5

LEMMA LexEndInv ==
  ASSUME Inv, LexEnd
  PROVE  Inv'
<1>1. /\ phase = "scanning" /\ buf = <<>> /\ last_string = <<>> /\ Push(EndToken)
      /\ UNCHANGED <<doc, source, rest, last_string, buf, fresh, last_frag, cond>>
      /\ Types /\ (last_frag => rest = <<>>)
  BY DEF LexEnd, Inv, Phases
<1>2. EndToken \in Tokens
  BY DEF EndToken, Tokens, Texts
<1>3. /\ Sound(p)' /\ phase' \in {"idle", "failed", "dead"}
      /\ phase' = "idle" =>
           IF last_frag THEN p'.state = "accepted"
           ELSE p'.state = "doc" /\ p'.docs = << <<>> >> /\ p'.open = <<>>
      /\ phase' = "failed" => p'.state \in {"error", "nomem", "reset"}
      /\ phase' = "dead" => p'.state = "dead"
      /\ live' = [nodes |-> Len(p'.nodes), prots |-> Len(p'.prots), strings |-> Held(p')]
  BY <1>1, <1>2, PushStep
<1>4. Types' /\ Placed'
  BY <1>1, <1>3 DEF Inv, Types, Placed, At, Lies
<1>5. Phases' /\ AtStart' /\ NothingLost'
  BY <1>1, <1>3 DEF Phases, AtStart, NothingLost, Reads
<1> QED BY <1>3, <1>4, <1>5 DEF Inv

LEMMA FreeInv ==
  ASSUME Inv, Free
  PROVE  Inv'
<1>1. /\ phase \in {"idle", "failed"} /\ phase' = "freed"
      /\ UNCHANGED <<doc, source, rest, last_string, buf, fresh, last_frag, cond, p>>
      /\ live' = [nodes |-> live.nodes - Len(p.nodes), prots |-> live.prots - Len(p.prots),
                  strings |-> live.strings - Held(p)]
  BY DEF Free
<1>2. live = [nodes |-> Len(p.nodes), prots |-> Len(p.prots), strings |-> Held(p)]
  BY <1>1 DEF Inv, NothingLost
<1>3. Len(p.nodes) \in Nat /\ Len(p.prots) \in Nat /\ Held(p) \in Nat
  BY DEF Inv, Sound, Parsers
<1>4. NothingLost'
  BY <1>1, <1>2, <1>3 DEF NothingLost
<1>5. Types' /\ Phases' /\ AtStart' /\ Placed' /\ Sound(p)'
  BY <1>1 DEF Inv, Types, Phases, AtStart, Placed, At, Lies, Reads, InTagStates
<1> QED BY <1>4, <1>5 DEF Inv

LEMMA NextInv == Inv /\ [Next]_vars => Inv'
<1> SUFFICES ASSUME Inv, [Next]_vars PROVE Inv'
  OBVIOUS
<1>1. ASSUME NEW n \in 0..Len(rest), NEW last \in BOOLEAN, Deliver(n, last) PROVE Inv'
  BY <1>1, DeliverInv
<1>2. CASE DeliverFailed
  BY <1>2 DEF DeliverFailed, Inv, Types, Phases, AtStart, Placed, At, Lies, NothingLost
<1>3. CASE Save
  BY <1>3, SaveInv
<1>4. CASE Lex
  BY <1>4, LexInv
<1>5. CASE LexEnd
  BY <1>5, LexEndInv
<1>6. CASE Free
  BY <1>6, FreeInv
<1>7. CASE UNCHANGED vars
  BY <1>7 DEF vars, Inv, Types, Phases, AtStart, Placed, At, Lies, NothingLost
<1> QED BY <1>1, <1>2, <1>3, <1>4, <1>5, <1>6, <1>7 DEF Next

\* The parser's stacks agree with one another and its count of strings with its
\* lists, between fragments nothing is in the buffer, and what is saved, what is
\* in the buffer and what has not arrived are the end of the document
\* (html_scan_stream and save_stream_context, html.l 456-538; html.y 455-709).
THEOREM HtmlInvariant == Spec => []Inv
<1>1. Inv /\ [Next]_vars => Inv'
  BY NextInv
<1> QED BY <1>1, InitInv, PTL DEF Spec

\* Whatever allocation fails, and wherever the stream is given up, each node,
\* property and string is found from the free lists and freed once
\* (html.y 475-499, 598-653; html_mem.c 31-106).
THEOREM HtmlNothingLost == Spec => []NothingLost
<1>1. Inv => NothingLost
  BY DEF Inv
<1> QED BY <1>1, HtmlInvariant, PTL

-----------------------------------------------------------------------------
(* Where a node hangs                                                      *)

Inner(q) == IF q.open = <<>> THEN 0 ELSE Last(q.open)
OpenedOnce(q) ==
  /\ \A k \in 1..Len(q.open) : q.open[k] \in 1..Len(q.nodes)
  /\ \A j, k \in 1..Len(q.open) : q.open[j] = q.open[k] => j = k

LEMMA NodeType ==
  ASSUME NEW u \in Parsers, NEW id \in 1..Len(u.nodes)
  PROVE  /\ u.nodes[id] \in Nodes /\ u.nodes[id].child \in Seq(Nat)
         /\ u.nodes[id].prot \in Seq(Nat)
<1>1. u.nodes \in Seq(Nodes)
  BY DEF Parsers
<1>2. u.nodes[id] \in Nodes
  BY <1>1
<1> QED BY <1>2 DEF Nodes

LEMMA ParserIs ==
  ASSUME NEW u \in Parsers, Stacked(u)
  PROVE  /\ Len(u.nodes) \in Nat /\ Len(u.open) \in Nat /\ Len(u.docs) = Len(u.open) + 1
         /\ u.nodes \in Seq(Nodes) /\ u.open \in Seq(Nat) /\ u.docs \in Seq(Seq(Nat))
         /\ u.root \in Seq(Nat) /\ u.docs # <<>>
BY DEF Parsers, Stacked

LEMMA NodesWithIs ==
  ASSUME NEW u \in Parsers, NEW node
  PROVE  /\ Len(NodesWith(u, node)) = Len(u.nodes) + 1
         /\ NodesWith(u, node)[Len(u.nodes) + 1] = node
         /\ \A id \in 1..Len(u.nodes) : NodesWith(u, node)[id] = u.nodes[id]
<1>1. u.nodes \in Seq(Nodes)
  BY DEF Parsers
<1> QED BY <1>1 DEF NodesWith

LEMMA OpenSet ==
  ASSUME NEW u \in Parsers
  PROVE  \A x : x \in ToSet(u.open) <=> \E k \in 1..Len(u.open) : u.open[k] = x
<1>1. DOMAIN u.open = 1..Len(u.open)
  BY DEF Parsers
<1> QED BY <1>1 DEF ToSet

LEMMA ConcatAppend ==
  ASSUME NEW s \in Seq(Nat), NEW t \in Seq(Nat), NEW e \in Nat
  PROVE  s \o Append(t, e) = Append(s \o t, e)
<1>1. Append(t, e) = t \o <<e>> /\ s \o t \in Seq(Nat) /\ <<e>> \in Seq(Nat)
  BY AppendIsConcat, ConcatProperties
<1>2. Append(s \o t, e) = (s \o t) \o <<e>>
  BY <1>1, AppendIsConcat
<1> QED BY <1>1, <1>2, ConcatAssociative

LEMMA ChildrenIs ==
  ASSUME NEW u \in Parsers, Stacked(u), NEW k \in 0..Len(u.open)
  PROVE  /\ k < Len(u.open) => Children(u, k) = Append(u.docs[k + 1], u.open[k + 1])
         /\ ~(k < Len(u.open)) => Children(u, k) = u.docs[k + 1]
         /\ u.docs[k + 1] \in Seq(Nat) /\ Children(u, k) \in Seq(Nat)
<1>1. /\ u.docs \in Seq(Seq(Nat)) /\ u.open \in Seq(Nat) /\ Len(u.docs) = Len(u.open) + 1
      /\ Len(u.open) \in Nat
  BY DEF Parsers, Stacked
<1>2. u.docs[k + 1] \in Seq(Nat)
  BY <1>1
<1>3. k < Len(u.open) => u.open[k + 1] \in Nat
  BY <1>1
<1> DEFINE d == u.docs[k + 1]
           e == u.open[k + 1]
<1>4. Children(u, k) = d \o (IF k < Len(u.open) THEN <<e>> ELSE <<>>)
  BY DEF Children
<1> HIDE DEF d, e
<1>5. d \in Seq(Nat) /\ (k < Len(u.open) => e \in Nat)
  BY <1>2, <1>3 DEF d, e
<1>6. k < Len(u.open) => Children(u, k) = Append(d, e)
  BY <1>4, <1>5, AppendIsConcat
<1>7. ~(k < Len(u.open)) => Children(u, k) = d
  BY <1>4, <1>5, ConcatEmptySeq
<1>8. Children(u, k) \in Seq(Nat)
  <2>1. k < Len(u.open) => Append(d, e) \in Seq(Nat)
    BY <1>5, AppendProperties
  <2> QED BY <1>5, <1>6, <1>7, <2>1
<1> QED BY <1>5, <1>6, <1>7, <1>8 DEF d, e

LEMMA PlaceIs ==
  ASSUME NEW u \in Parsers, OpenedOnce(u), NEW k \in 1..Len(u.open)
  PROVE  Place(u, u.open[k]) = k /\ u.open[k] \in ToSet(u.open)
<1>1. DOMAIN u.open = 1..Len(u.open)
  BY DEF Parsers
<1>2. Place(u, u.open[k]) \in DOMAIN u.open /\ u.open[Place(u, u.open[k])] = u.open[k]
  BY <1>1 DEF Place
<1>3. Place(u, u.open[k]) = k
  BY <1>1, <1>2 DEF OpenedOnce
<1> QED BY <1>1, <1>3 DEF ToSet

LEMMA KidsIs ==
  ASSUME NEW u \in Parsers, Stacked(u), OpenedOnce(u)
  PROVE  /\ Kids(u, 0) = u.root \o Children(u, 0)
         /\ \A k \in 1..Len(u.open) :
              Kids(u, u.open[k]) = u.nodes[u.open[k]].child \o Children(u, k)
         /\ \A id \in 1..Len(u.nodes) : id \notin ToSet(u.open) => Kids(u, id) = u.nodes[id].child
<1>1. Kids(u, 0) = u.root \o Children(u, 0)
  BY DEF Kids
<1>2. ASSUME NEW k \in 1..Len(u.open)
      PROVE  Kids(u, u.open[k]) = u.nodes[u.open[k]].child \o Children(u, k)
  <2>1. u.open[k] # 0 /\ u.open[k] \in ToSet(u.open) /\ Place(u, u.open[k]) = k
    BY PlaceIs DEF OpenedOnce
  <2> QED BY <2>1 DEF Kids, Place
<1>3. ASSUME NEW id \in 1..Len(u.nodes), id \notin ToSet(u.open)
      PROVE  Kids(u, id) = u.nodes[id].child
  <2> DEFINE c == u.nodes[id].child
  <2>1. c \in Seq(Nat)
    BY NodeType
  <2>2. Kids(u, id) = c \o <<>>
    BY <1>3 DEF Kids
  <2> HIDE DEF c
  <2>3. c \o <<>> = c
    BY <2>1, ConcatEmptySeq
  <2> QED BY <2>2, <2>3 DEF c
<1> QED BY <1>1, <1>2, <1>3

LEMMA KidsType ==
  ASSUME NEW u \in Parsers, Stacked(u), OpenedOnce(u), NEW id \in 0..Len(u.nodes)
  PROVE  Kids(u, id) \in Seq(Nat)
<1>1. CASE id = 0
  <2>1. u.root \in Seq(Nat) /\ 0 \in 0..Len(u.open)
    BY DEF Parsers
  <2>2. Children(u, 0) \in Seq(Nat)
    BY <2>1, ChildrenIs
  <2> QED BY <1>1, <2>1, <2>2, KidsIs, ConcatProperties
<1>2. CASE id \in 1..Len(u.nodes)
  <2>1. u.nodes[id].child \in Seq(Nat)
    BY <1>2, NodeType
  <2>2. CASE id \in ToSet(u.open)
    <3>1. PICK k \in 1..Len(u.open) : u.open[k] = id
      BY <2>2 DEF ToSet, Parsers
    <3>2. k \in 0..Len(u.open)
      OBVIOUS
    <3>3. Children(u, k) \in Seq(Nat)
      BY <3>2, ChildrenIs
    <3>4. Kids(u, id) = u.nodes[id].child \o Children(u, k)
      BY <3>1, KidsIs
    <3> QED BY <2>1, <3>3, <3>4, ConcatProperties
  <2>3. CASE id \notin ToSet(u.open)
    BY <1>2, <2>1, <2>3, KidsIs
  <2> QED BY <2>2, <2>3
<1>3. id = 0 \/ id \in 1..Len(u.nodes)
  BY DEF Parsers
<1> QED BY <1>1, <1>2, <1>3

\* A node is added as the last child of the innermost open tag.
Grown(u, r) ==
  /\ Kids(r, Len(u.nodes) + 1) = <<>>
  /\ \A id \in 0..Len(u.nodes) :
       Kids(r, id) = IF id = Inner(u) THEN Append(Kids(u, id), Len(u.nodes) + 1) ELSE Kids(u, id)

\* So it is where the open tags stay, but for one more, and the innermost list
\* takes the node.
Added(u, r) ==
  /\ Len(u.open) <= Len(r.open) /\ \A k \in 1..Len(u.open) : r.open[k] = u.open[k]
  /\ \A k \in (Len(u.open) + 1)..Len(r.open) :
       r.open[k] = Len(u.nodes) + 1 /\ Children(r, k) = <<>>
  /\ \A k \in 0..Len(u.open) :
       Children(r, k) = IF k = Len(u.open) THEN Append(Children(u, k), Len(u.nodes) + 1)
                        ELSE Children(u, k)

LEMMA GrownIs ==
  ASSUME NEW u \in Parsers, Stacked(u), OpenedOnce(u), NEW r \in Parsers, Stacked(r), OpenedOnce(r),
         NEW node, node.child = <<>>, r.nodes = NodesWith(u, node), r.root = u.root, Added(u, r)
  PROVE  Grown(u, r)
<1> DEFINE n == Len(u.nodes)
           top == Len(u.open)
<1>1. /\ n \in Nat /\ top \in Nat /\ u.open \in Seq(Nat) /\ r.open \in Seq(Nat)
      /\ u.root \in Seq(Nat) /\ u.nodes \in Seq(Nodes)
  BY DEF Parsers
<1>2. /\ Len(r.nodes) = n + 1 /\ r.nodes[n + 1] = node
      /\ \A id \in 1..n : r.nodes[id] = u.nodes[id]
  BY <1>1 DEF NodesWith
<1>3. Inner(u) = IF top = 0 THEN 0 ELSE u.open[top]
  BY <1>1 DEF Inner, Last
<1>4. \A k \in 1..top : u.open[k] \in 1..n /\ r.open[k] = u.open[k] /\ k \in 1..Len(r.open)
  BY <1>1 DEF OpenedOnce, Added
<1> HIDE DEF n, top
<1>5. ASSUME NEW k \in 0..top, NEW b \in Seq(Nat)
      PROVE  b \o Children(r, k) = IF k = top THEN Append(b \o Children(u, k), n + 1)
                                   ELSE b \o Children(u, k)
  <2>1. Children(u, k) \in Seq(Nat)
    BY ChildrenIs DEF top
  <2>2. Children(r, k) = IF k = top THEN Append(Children(u, k), n + 1) ELSE Children(u, k)
    BY DEF Added, top, n
  <2>3. b \o Append(Children(u, k), n + 1) = Append(b \o Children(u, k), n + 1)
    BY <1>1, <2>1, ConcatAppend
  <2> QED BY <2>2, <2>3
<1>6. ASSUME NEW id \in 0..n
      PROVE  Kids(r, id) = IF id = Inner(u) THEN Append(Kids(u, id), n + 1) ELSE Kids(u, id)
  <2>1. CASE id = 0
    <3>1. Kids(u, id) = u.root \o Children(u, 0) /\ Kids(r, id) = u.root \o Children(r, 0)
      BY <2>1, KidsIs
    <3>2. 0 \in 0..top /\ (0 = Inner(u) <=> 0 = top)
      BY <1>1, <1>3, <1>4
    <3> QED BY <1>1, <1>5, <2>1, <3>1, <3>2
  <2>2. ASSUME NEW k \in 1..top, id = u.open[k]
        PROVE  Kids(r, id) = IF id = Inner(u) THEN Append(Kids(u, id), n + 1) ELSE Kids(u, id)
    <3>1. id \in 1..n /\ r.open[k] = id /\ k \in 1..Len(r.open) /\ k \in 0..top
      BY <1>4, <2>2
    <3> DEFINE b == u.nodes[id].child
    <3>2. b \in Seq(Nat)
      BY <3>1, NodeType DEF n
    <3>3. Kids(u, id) = b \o Children(u, k)
      BY <2>2, KidsIs DEF top
    <3>4. Kids(r, id) = b \o Children(r, k)
      BY <1>2, <3>1, KidsIs
    <3>5. id = Inner(u) <=> k = top
      <4>1. top # 0 /\ Inner(u) = u.open[top] /\ top \in 1..top
        BY <1>1, <1>3
      <4> QED BY <2>2, <4>1 DEF OpenedOnce, top
    <3> HIDE DEF b
    <3> QED BY <1>5, <3>1, <3>2, <3>3, <3>4, <3>5
  <2>3. CASE id # 0 /\ id \notin ToSet(u.open)
    <3>1. id \in 1..n /\ \A k \in 1..top : u.open[k] # id
      BY <1>1, <2>3 DEF ToSet, top
    <3>2. id # Inner(u)
      BY <1>1, <1>3, <2>3, <3>1
    <3>3. id \notin ToSet(r.open)
      <4> SUFFICES ASSUME NEW k \in 1..Len(r.open), r.open[k] = id PROVE FALSE
        BY <1>1 DEF ToSet
      <4>1. CASE k \in 1..top
        BY <1>4, <3>1, <4>1
      <4>2. CASE k \in (top + 1)..Len(r.open)
        <5>1. r.open[k] = n + 1
          BY <4>2 DEF Added, top, n
        <5> QED BY <1>1, <3>1, <5>1
      <4>3. k \in 1..top \/ k \in (top + 1)..Len(r.open)
        BY <1>1
      <4> QED BY <4>1, <4>2, <4>3
    <3>4. id \in 1..Len(r.nodes)
      BY <1>1, <1>2, <3>1
    <3>5. Kids(u, id) = u.nodes[id].child
      BY <2>3, <3>1, KidsIs DEF n
    <3>6. Kids(r, id) = r.nodes[id].child
      BY <3>3, <3>4, KidsIs
    <3> QED BY <1>2, <3>1, <3>2, <3>5, <3>6
  <2> QED BY <1>1, <2>1, <2>2, <2>3 DEF ToSet, top
<1>7. Kids(r, n + 1) = <<>>
  <2>1. n + 1 \in 1..Len(r.nodes) /\ r.nodes[n + 1].child = <<>>
    BY <1>1, <1>2
  <2>2. CASE n + 1 \notin ToSet(r.open)
    BY <2>1, <2>2, KidsIs
  <2>3. CASE n + 1 \in ToSet(r.open)
    <3>1. PICK k \in 1..Len(r.open) : r.open[k] = n + 1
      BY <2>3, OpenSet
    <3>2. k \notin 1..top
      <4> SUFFICES ASSUME k \in 1..top PROVE FALSE
        OBVIOUS
      <4>1. r.open[k] \in 1..n
        BY <1>4
      <4> QED BY <1>1, <3>1, <4>1
    <3>3. k \in (top + 1)..Len(r.open)
      BY <1>1, <3>2
    <3>4. Children(r, k) = <<>>
      BY <3>3 DEF Added, top
    <3>5. Kids(r, n + 1) = r.nodes[n + 1].child \o Children(r, k)
      BY <3>1, KidsIs
    <3>6. <<>> \o <<>> = <<>>
      OBVIOUS
    <3> QED BY <2>1, <3>4, <3>5, <3>6
  <2> QED BY <2>2, <2>3
<1> QED BY <1>6, <1>7 DEF Grown, n

LEMMA TextAdds ==
  ASSUME NEW u \in Parsers, Stacked(u), OpenedOnce(u), NEW r \in Parsers, Stacked(r),
         NEW node, r.nodes = NodesWith(u, node), r.docs = DocsWith(u), r.open = u.open
  PROVE  OpenedOnce(r) /\ Added(u, r)
<1> DEFINE n == Len(u.nodes)
           top == Len(u.open)
<1>1. /\ n \in Nat /\ top \in Nat /\ u.docs \in Seq(Seq(Nat)) /\ Len(u.docs) = top + 1
      /\ Len(r.nodes) = n + 1 /\ Len(r.open) = top
  <2>1. Len(r.nodes) = n + 1
    BY NodesWithIs
  <2> HIDE DEF n, top
  <2> QED BY <2>1, ParserIs DEF n, top
<1>2. OpenedOnce(r)
  BY <1>1 DEF OpenedOnce
<1>3. \A k \in 1..(top + 1) :
        r.docs[k] = IF k = top + 1 THEN Append(u.docs[k], n + 1) ELSE u.docs[k]
  BY <1>1 DEF DocsWith
<1>4. ASSUME NEW k \in 0..top
      PROVE  Children(r, k) = IF k = top THEN Append(Children(u, k), n + 1) ELSE Children(u, k)
  <2>1. k \in 0..Len(u.open) /\ k \in 0..Len(r.open) /\ k + 1 \in 1..(top + 1)
    BY <1>1
  <2> HIDE DEF n, top
  <2>2. CASE k < top
    <3>1. r.docs[k + 1] = u.docs[k + 1]
      BY <1>1, <1>3, <2>1, <2>2
    <3>2. Children(u, k) = Append(u.docs[k + 1], u.open[k + 1])
      BY <2>1, <2>2, ChildrenIs DEF top
    <3>3. Children(r, k) = Append(r.docs[k + 1], r.open[k + 1])
      BY <1>1, <2>1, <2>2, ChildrenIs
    <3> QED BY <2>2, <3>1, <3>2, <3>3
  <2>3. CASE k = top
    <3>1. r.docs[k + 1] = Append(u.docs[k + 1], n + 1)
      BY <1>3, <2>1, <2>3
    <3>2. ~(k < top)
      BY <1>1, <2>3
    <3>3. Children(u, k) = u.docs[k + 1]
      BY <2>1, <3>2, ChildrenIs DEF top
    <3>4. Children(r, k) = r.docs[k + 1]
      BY <1>1, <2>1, <3>2, ChildrenIs
    <3> QED BY <2>3, <3>1, <3>3, <3>4
  <2> QED BY <1>1, <2>2, <2>3
<1>5. \A k \in (top + 1)..Len(r.open) : FALSE
  BY <1>1
<1> QED BY <1>1, <1>2, <1>4, <1>5 DEF Added

LEMMA BeginAdds ==
  ASSUME NEW u \in Parsers, Stacked(u), OpenedOnce(u), NEW r \in Parsers, Stacked(r),
         NEW node, r.nodes = NodesWith(u, node), Opens(u, r, Len(u.nodes) + 1)
  PROVE  OpenedOnce(r) /\ Added(u, r)
<1> DEFINE n == Len(u.nodes)
           top == Len(u.open)
<1>1. /\ n \in Nat /\ top \in Nat /\ u.docs \in Seq(Seq(Nat)) /\ Len(u.docs) = top + 1
      /\ u.open \in Seq(Nat) /\ Len(r.nodes) = n + 1
  <2>1. Len(r.nodes) = n + 1
    BY NodesWithIs
  <2> HIDE DEF n, top
  <2> QED BY <2>1, ParserIs DEF n, top
<1>2. /\ Len(r.open) = top + 1 /\ r.open[top + 1] = n + 1
      /\ \A k \in 1..top : r.open[k] = u.open[k]
      /\ r.docs[top + 2] = <<>> /\ \A k \in 1..(top + 1) : r.docs[k] = u.docs[k]
  BY <1>1 DEF Opens
<1> HIDE DEF n, top
<1>3. OpenedOnce(r)
  <2>1. \A k \in 1..top : r.open[k] \in 1..n
    BY <1>2 DEF OpenedOnce, n, top
  <2>2. \A k \in 1..(top + 1) : r.open[k] = n + 1 <=> k = top + 1
    BY <1>1, <1>2, <2>1
  <2>3. \A k \in 1..(top + 1) : k \in 1..top \/ k = top + 1
    BY <1>1
  <2>4. \A k \in 1..(top + 1) : r.open[k] \in 1..(n + 1)
    BY <1>1, <1>2, <2>1, <2>3
  <2>5. \A j, k \in 1..(top + 1) : r.open[j] = r.open[k] => j = k
    BY <1>2, <2>2, <2>3 DEF OpenedOnce, top
  <2> QED BY <1>1, <1>2, <2>4, <2>5 DEF OpenedOnce
<1>4. ASSUME NEW k \in 0..top
      PROVE  Children(r, k) = IF k = top THEN Append(Children(u, k), n + 1) ELSE Children(u, k)
  <2>1. /\ k \in 0..Len(u.open) /\ k \in 0..Len(r.open) /\ k + 1 \in 1..(top + 1)
        /\ k < Len(r.open)
    BY <1>1, <1>2 DEF top
  <2>2. Children(r, k) = Append(r.docs[k + 1], r.open[k + 1]) /\ r.docs[k + 1] = u.docs[k + 1]
    BY <1>2, <2>1, ChildrenIs
  <2>3. CASE k < top
    <3>1. Children(u, k) = Append(u.docs[k + 1], u.open[k + 1])
      BY <2>1, <2>3, ChildrenIs DEF top
    <3>2. k + 1 \in 1..top /\ k # top
      BY <1>1, <2>1, <2>3
    <3> QED BY <1>2, <2>2, <3>1, <3>2
  <2>4. CASE k = top
    <3>1. ~(k < top)
      BY <1>1, <2>4
    <3>2. Children(u, k) = u.docs[k + 1]
      BY <2>1, <3>1, ChildrenIs DEF top
    <3> QED BY <1>2, <2>2, <2>4, <3>2
  <2> QED BY <1>1, <2>3, <2>4
<1>5. ASSUME NEW k \in (top + 1)..Len(r.open)
      PROVE  r.open[k] = n + 1 /\ Children(r, k) = <<>>
  <2>1. k = top + 1 /\ k \in 0..Len(r.open) /\ ~(k < Len(r.open)) /\ k + 1 = top + 2
    BY <1>1, <1>2
  <2>2. Children(r, k) = r.docs[k + 1]
    BY <2>1, ChildrenIs
  <2> QED BY <1>2, <2>1, <2>2
<1>6. Len(u.open) <= Len(r.open) /\ \A k \in 1..Len(u.open) : r.open[k] = u.open[k]
  BY <1>1, <1>2 DEF top
<1> QED BY <1>3, <1>4, <1>5, <1>6 DEF Added, n, top

\* Nothing moves when tags are closed.
SameKids(u, r) == \A id \in 0..Len(u.nodes) : Kids(r, id) = Kids(u, id)

Ends(u, r) ==
  /\ r.nodes = Linked(u.nodes, Last(u.open), Last(u.docs))
  /\ r.open = Front(u.open) /\ r.docs = EndedDocs("FILE", u) /\ r.root = u.root

LEMMA EndMovesNone ==
  ASSUME NEW u \in Parsers, Stacked(u), OpenedOnce(u), u.open # <<>>,
         NEW r \in Parsers, Stacked(r), Ends(u, r)
  PROVE  OpenedOnce(r) /\ SameKids(u, r)
<1> DEFINE n == Len(u.nodes)
           top == Len(u.open)
           last == Last(u.open)
           l == Last(u.docs)
<1>1. /\ n \in Nat /\ top \in Nat /\ top >= 1 /\ u.docs \in Seq(Seq(Nat)) /\ Len(u.docs) = top + 1
      /\ u.open \in Seq(Nat) /\ u.docs # <<>> /\ u.nodes \in Seq(Nodes)
  <2>1. Len(u.open) >= 1
    BY ParserIs
  <2> QED BY <2>1, ParserIs
<1>2. /\ r.nodes = Linked(u.nodes, last, l) /\ r.open = Front(u.open)
      /\ r.root = u.root /\ r.docs = EndedDocs("FILE", u)
  BY DEF Ends
<1>0. n \in Nat /\ top \in Nat /\ top >= 1 /\ Len(u.docs) = top + 1 /\ top \in 1..top
  BY <1>1
<1>3. last = u.open[top] /\ last \in 1..n /\ l = u.docs[top + 1] /\ l \in Seq(Nat)
  BY <1>1 DEF Last, OpenedOnce
<1> HIDE DEF n, top, last, l
<1>4. /\ Len(r.nodes) = n
      /\ \A i \in 1..n : r.nodes[i].child = ChildWith(u.nodes, last, l, i)
  <2>1. last \in Nat
    BY <1>1, <1>3
  <2> DEFINE m == r.nodes
             ns == u.nodes
  <2>2. m = Linked(ns, last, l)
    BY <1>2
  <2>3. ns \in Seq(Nodes) /\ l \in Seq(Nat)
    BY <1>1, <1>3
  <2> HIDE DEF m, ns
  <2>4. Len(m) = Len(ns)
    BY <2>1, <2>2, <2>3, LinkedIs
  <2>5. \A i \in 1..Len(ns) : m[i].child = ChildWith(ns, last, l, i)
    BY <2>1, <2>2, <2>3, LinkedIs DEF Linking
  <2> QED BY <2>4, <2>5 DEF m, ns, n
<1>5. Len(r.open) = top - 1 /\ \A k \in 1..(top - 1) : r.open[k] = u.open[k]
  BY <1>1, <1>2, FrontIs DEF top
<1>6. \A k \in 1..top :
        r.docs[k] = IF k = top THEN Append(u.docs[k], last) ELSE u.docs[k]
  <2> DEFINE f == Front(u.docs)
  <2>1. f \in Seq(Seq(Nat)) /\ Len(f) = top /\ \A k \in 1..top : f[k] = u.docs[k]
    <3> DEFINE docs == u.docs
               S == Seq(Nat)
    <3>1. docs \in Seq(S) /\ docs # <<>>
      BY <1>1
    <3>3. Len(docs) = top + 1
      BY <1>0
    <3> HIDE DEF docs, S
    <3>2. /\ Front(docs) \in Seq(S) /\ Len(Front(docs)) = Len(docs) - 1
          /\ \A k \in 1..(Len(docs) - 1) : Front(docs)[k] = docs[k]
      BY <3>1, FrontIs
    <3>4. Len(docs) - 1 = top
      BY <1>0, <3>3
    <3> QED BY <3>2, <3>4 DEF docs, S
  <2>2. r.docs = [f EXCEPT ![top] = Append(@, last)]
    BY <1>1, <1>2 DEF EndedDocs, last
  <2> HIDE DEF f
  <2>3. top \in 1..top /\ Append(f[top], last) = Append(u.docs[top], last)
    BY <1>0, <2>1
  <2>4. \A k \in 1..top : r.docs[k] = IF k = top THEN Append(f[top], last) ELSE f[k]
    BY <2>1, <2>2
  <2> QED BY <2>1, <2>3, <2>4
<1>7. OpenedOnce(r)
  <2>1. \A k \in 1..Len(r.open) : k \in 1..top /\ r.open[k] = u.open[k]
    BY <1>1, <1>5
  <2>2. Len(r.nodes) = Len(u.nodes)
    BY <1>4 DEF n
  <2> QED BY <2>1, <2>2 DEF OpenedOnce, top
<1>8. ASSUME NEW k \in 0..(top - 1)
      PROVE  Children(r, k) = Children(u, k)
  <2>1. /\ k \in 0..Len(u.open) /\ k < Len(u.open) /\ k \in 0..Len(r.open)
        /\ k + 1 \in 1..top
    BY <1>1, <1>5 DEF top
  <2>2. Children(u, k) = Append(u.docs[k + 1], u.open[k + 1])
    BY <2>1, ChildrenIs
  <2>3. CASE k = top - 1
    <3>1. ~(k < Len(r.open)) /\ k + 1 = top
      BY <1>1, <1>5, <2>3
    <3>2. Children(r, k) = r.docs[k + 1]
      BY <1>2, <2>1, <3>1, ChildrenIs
    <3> QED BY <1>3, <1>6, <2>1, <2>2, <3>1, <3>2
  <2>4. CASE k # top - 1
    <3>1. k < Len(r.open) /\ k + 1 \in 1..(top - 1) /\ k + 1 # top
      BY <1>1, <1>5, <2>1, <2>4
    <3>2. Children(r, k) = Append(r.docs[k + 1], r.open[k + 1])
      BY <1>2, <2>1, <3>1, ChildrenIs
    <3> QED BY <1>5, <1>6, <2>1, <2>2, <3>1, <3>2
  <2> QED BY <2>3, <2>4
<1>9. Children(u, top) = l
  <2>1. top \in 0..Len(u.open) /\ ~(top < Len(u.open))
    BY <1>1 DEF top
  <2> QED BY <1>3, <2>1, ChildrenIs
<1>10. Kids(r, 0) = Kids(u, 0)
  <2>1. 0 \in 0..(top - 1)
    BY <1>1
  <2>2. Kids(r, 0) = r.root \o Children(r, 0) /\ Kids(u, 0) = u.root \o Children(u, 0)
    BY <1>2, <1>7, KidsIs
  <2> QED BY <1>2, <1>8, <2>1, <2>2
<1>11. ASSUME NEW k \in 1..(top - 1)
       PROVE  Kids(r, u.open[k]) = Kids(u, u.open[k])
  <2>1. /\ k \in 1..Len(u.open) /\ k \in 1..Len(r.open) /\ k \in 0..(top - 1)
        /\ top \in 1..Len(u.open) /\ k # top
    BY <1>1, <1>5 DEF top
  <2>2. u.open[k] \in 1..n /\ u.open[k] # last
    BY <1>3, <2>1 DEF OpenedOnce, n
  <2>3. r.nodes[u.open[k]].child = u.nodes[u.open[k]].child
    BY <1>4, <2>2 DEF ChildWith
  <2>4. Kids(u, u.open[k]) = u.nodes[u.open[k]].child \o Children(u, k)
    BY <2>1, KidsIs
  <2>5. Kids(r, r.open[k]) = r.nodes[r.open[k]].child \o Children(r, k)
    BY <1>2, <1>7, <2>1, KidsIs
  <2> QED BY <1>5, <1>8, <2>1, <2>3, <2>4, <2>5
<1>12. \A k \in 1..Len(r.open) : r.open[k] = u.open[k] /\ k \in 1..top /\ k # top
  BY <1>1, <1>5
<1>13. Kids(r, last) = Kids(u, last)
  <2>1. last \notin ToSet(r.open)
    <3>1. \A k \in 1..Len(r.open) : r.open[k] # last
      <4> SUFFICES ASSUME NEW k \in 1..Len(r.open), r.open[k] = last PROVE FALSE
        OBVIOUS
      <4>1. u.open[k] = u.open[top] /\ k \in 1..Len(u.open) /\ k # top
        BY <1>3, <1>12 DEF top
      <4>2. top \in 1..Len(u.open)
        BY <1>1 DEF top
      <4> QED BY <4>1, <4>2 DEF OpenedOnce
    <3> QED BY <3>1, OpenSet
  <2>2. Kids(r, last) = r.nodes[last].child
    BY <1>2, <1>3, <1>4, <1>7, <2>1, KidsIs
  <2>3. r.nodes[last].child = u.nodes[last].child \o l
    BY <1>3, <1>4 DEF ChildWith
  <2>4. top \in 1..Len(u.open)
    BY <1>1 DEF top
  <2> QED BY <1>3, <1>9, <2>2, <2>3, <2>4, KidsIs
<1>14. ASSUME NEW id \in 1..n, id \notin ToSet(u.open)
       PROVE  Kids(r, id) = Kids(u, id)
  <2>1. \A k \in 1..top : u.open[k] # id
    BY <1>14, OpenSet DEF top
  <2>2. top \in 1..top
    BY <1>1
  <2>3. id # last
    BY <1>3, <2>1, <2>2
  <2>4. id \notin ToSet(r.open)
    <3>1. \A k \in 1..Len(r.open) : r.open[k] # id
      BY <1>12, <2>1
    <3> QED BY <3>1, OpenSet
  <2>5. Kids(u, id) = u.nodes[id].child
    BY <1>14, KidsIs DEF n
  <2>6. Kids(r, id) = r.nodes[id].child
    BY <1>2, <1>4, <1>7, <2>4, KidsIs
  <2> QED BY <1>4, <2>3, <2>5, <2>6 DEF ChildWith
<1>15. ASSUME NEW id \in 0..n
       PROVE  Kids(r, id) = Kids(u, id)
  <2>1. CASE id \in ToSet(u.open)
    <3>1. PICK k \in 1..top : u.open[k] = id
      BY <2>1, OpenSet DEF top
    <3>2. k \in 1..(top - 1) \/ k = top
      BY <1>1
    <3> QED BY <1>3, <1>11, <1>13, <3>1, <3>2
  <2>2. id = 0 \/ id \in 1..n
    BY <1>1
  <2> QED BY <1>10, <1>14, <2>1, <2>2
<1> QED BY <1>7, <1>15 DEF SameKids, n

Accepts(u, r) ==
  /\ r.nodes = ClosedNodes(u) /\ r.root = u.root \o Children(u, 0)
  /\ r.docs = << <<>> >> /\ r.open = <<>>

LEMMA AcceptMovesNone ==
  ASSUME NEW u \in Parsers, Stacked(u), OpenedOnce(u),
         \A k \in 1..Len(u.open) : u.nodes[u.open[k]].child = <<>>,
         NEW r \in Parsers, Stacked(r), Accepts(u, r)
  PROVE  OpenedOnce(r) /\ SameKids(u, r)
<1>1. Len(r.open) = 0 /\ r.docs[1] = <<>> /\ OpenedOnce(r) /\ ToSet(r.open) = {}
  <2>1. Len(r.open) = 0 /\ r.docs[1] = <<>>
    BY DEF Accepts
  <2>2. ToSet(r.open) = {}
    BY <2>1, OpenSet
  <2> QED BY <2>1, <2>2 DEF OpenedOnce
<1>2. /\ DOMAIN u.nodes = 1..Len(u.nodes) /\ Len(u.nodes) \in Nat /\ u.root \in Seq(Nat)
      /\ 0 \in 0..Len(u.open) /\ 0 \in 0..Len(r.open)
  BY <1>1, ParserIs DEF Parsers
<1>3. Len(r.nodes) = Len(u.nodes) /\ \A id \in 1..Len(u.nodes) : r.nodes[id] = ClosedNode(u, id)
  BY <1>2 DEF Accepts, ClosedNodes
<1>4. Kids(r, 0) = Kids(u, 0)
  <2>1. Children(u, 0) \in Seq(Nat)
    BY <1>2, ChildrenIs
  <2>2. Children(r, 0) = <<>>
    <3>1. ~(0 < Len(r.open))
      BY <1>1
    <3> QED BY <1>1, <1>2, <3>1, ChildrenIs
  <2>3. Kids(r, 0) = r.root \o <<>> /\ Kids(u, 0) = u.root \o Children(u, 0)
    BY <1>1, <2>2, KidsIs
  <2>4. r.root = Kids(u, 0) /\ r.root \in Seq(Nat)
    BY <2>3, ParserIs DEF Accepts
  <2>5. r.root \o <<>> = r.root
    BY <2>4, ConcatEmptySeq
  <2> QED BY <2>3, <2>4, <2>5
<1>5. ASSUME NEW id \in 1..Len(u.nodes)
      PROVE  Kids(r, id) = Kids(u, id)
  <2>1. Kids(r, id) = ClosedNode(u, id).child
    BY <1>1, <1>3, KidsIs
  <2>2. ClosedNode(u, id).child = IF id \in ToSet(u.open) THEN Children(u, Place(u, id))
                                  ELSE u.nodes[id].child
    BY ClosedNodeIs
  <2>3. CASE id \in ToSet(u.open)
    <3>1. PICK k \in 1..Len(u.open) : u.open[k] = id
      BY <2>3, OpenSet
    <3>2. Place(u, id) = k /\ u.nodes[id].child = <<>>
      BY <3>1, PlaceIs
    <3>3. Kids(u, id) = <<>> \o Children(u, k)
      BY <3>1, <3>2, KidsIs
    <3>4. k \in 0..Len(u.open)
      BY ParserIs
    <3>5. Children(u, k) \in Seq(Nat)
      BY <3>4, ChildrenIs
    <3>6. <<>> \o Children(u, k) = Children(u, k)
      BY <3>5, ConcatEmptySeq
    <3> QED BY <2>1, <2>2, <2>3, <3>2, <3>3, <3>6
  <2>4. CASE id \notin ToSet(u.open)
    BY <2>1, <2>2, <2>4, KidsIs
  <2> QED BY <2>3, <2>4
<1>6. \A id \in 0..Len(u.nodes) : id = 0 \/ id \in 1..Len(u.nodes)
  BY <1>2
<1> QED BY <1>1, <1>4, <1>5, <1>6 DEF SameKids

\* d has the depths of the nodes, 0 for the document, and g what each hangs from.
Heights(n, d, g) ==
  /\ d \in [0..n -> Nat] /\ g \in [1..n -> Nat] /\ d[0] = 0
  /\ \A c \in 1..n :
       /\ g[c] \in 0..(c - 1) /\ d[c] = d[g[c]] + 1
       /\ \A m \in (g[c] + 1)..(c - 1) : d[m] > d[g[c]]
HangsFrom(id, l, n, g) ==
  /\ \A j \in 1..Len(l) : l[j] \in 1..n /\ g[l[j]] = id
  /\ \A c \in 1..n : g[c] = id => \E j \in 1..Len(l) : l[j] = c
  /\ \A j, k \in 1..Len(l) : j < k => l[j] < l[k]
Hung(q, g) == \A id \in 0..Len(q.nodes) : HangsFrom(id, Kids(q, id), Len(q.nodes), g)
Opened(q, d) ==
  /\ OpenedOnce(q)
  /\ \A k \in 1..Len(q.open) :
       /\ q.nodes[q.open[k]].child = <<>> /\ d[q.open[k]] = k
       /\ \A m \in (q.open[k] + 1)..Len(q.nodes) : d[m] > k
Forest(q, d, g) == Heights(Len(q.nodes), d, g) /\ Hung(q, g) /\ Opened(q, d)

DepthsWith(n, d, e) == [id \in 0..(n + 1) |-> IF id = n + 1 THEN e ELSE d[id]]
ParentsWith(n, g, i) == [id \in 1..(n + 1) |-> IF id = n + 1 THEN i ELSE g[id]]

LEMMA HeightsGrow ==
  ASSUME NEW n \in Nat, NEW d, NEW g, Heights(n, d, g), NEW i \in 0..n,
         \A m \in (i + 1)..n : d[m] > d[i],
         NEW e, e = d[i] + 1
  PROVE  Heights(n + 1, DepthsWith(n, d, e), ParentsWith(n, g, i))
<1> DEFINE dd == DepthsWith(n, d, e)
           gg == ParentsWith(n, g, i)
<1>1. d \in [0..n -> Nat] /\ g \in [1..n -> Nat] /\ d[0] = 0 /\ e \in Nat
  BY DEF Heights
<1>2. dd \in [0..(n + 1) -> Nat] /\ gg \in [1..(n + 1) -> Nat]
  BY <1>1 DEF DepthsWith, ParentsWith
<1>3. /\ dd[n + 1] = e /\ gg[n + 1] = i
      /\ \A id \in 0..n : dd[id] = d[id]
      /\ \A id \in 1..n : gg[id] = g[id]
  BY <1>1 DEF DepthsWith, ParentsWith
<1> HIDE DEF dd, gg
<1>4. dd[0] = 0
  BY <1>1, <1>3
<1>5. ASSUME NEW c \in 1..n
      PROVE  /\ gg[c] \in 0..(c - 1) /\ dd[c] = dd[gg[c]] + 1
             /\ \A m \in (gg[c] + 1)..(c - 1) : dd[m] > dd[gg[c]]
  <2>1. /\ g[c] \in 0..(c - 1) /\ d[c] = d[g[c]] + 1
        /\ \A m \in (g[c] + 1)..(c - 1) : d[m] > d[g[c]]
    BY DEF Heights
  <2>2. gg[c] = g[c] /\ dd[c] = d[c] /\ dd[g[c]] = d[g[c]]
    BY <1>3, <2>1
  <2>3. \A m \in (g[c] + 1)..(c - 1) : m \in 0..n
    BY <2>1
  <2> QED BY <1>3, <2>1, <2>2, <2>3
<1>6. /\ gg[n + 1] \in 0..(n + 1 - 1) /\ dd[n + 1] = dd[gg[n + 1]] + 1
      /\ \A m \in (gg[n + 1] + 1)..(n + 1 - 1) : dd[m] > dd[gg[n + 1]]
  <2>1. \A m \in (i + 1)..n : m \in 0..n
    OBVIOUS
  <2> QED BY <1>3, <2>1
<1>7. \A c \in 1..(n + 1) : c \in 1..n \/ c = n + 1
  OBVIOUS
<1>8. \A c \in 1..(n + 1) :
        /\ gg[c] \in 0..(c - 1) /\ dd[c] = dd[gg[c]] + 1
        /\ \A m \in (gg[c] + 1)..(c - 1) : dd[m] > dd[gg[c]]
  BY <1>5, <1>6, <1>7
<1> QED BY <1>2, <1>4, <1>8 DEF Heights, dd, gg

LEMMA HangGrows ==
  ASSUME NEW n \in Nat, NEW g, NEW i \in Nat, NEW id \in 0..n, NEW l \in Seq(Nat),
         HangsFrom(id, l, n, g), NEW k, k = IF id = i THEN Append(l, n + 1) ELSE l
  PROVE  HangsFrom(id, k, n + 1, ParentsWith(n, g, i))
<1> DEFINE gg == ParentsWith(n, g, i)
<1>1. gg[n + 1] = i /\ \A c \in 1..n : gg[c] = g[c]
  BY DEF ParentsWith
<1> HIDE DEF gg
<1>2. /\ \A j \in 1..Len(l) : l[j] \in 1..n /\ g[l[j]] = id
      /\ \A c \in 1..n : g[c] = id => \E j \in 1..Len(l) : l[j] = c
      /\ \A j, m \in 1..Len(l) : j < m => l[j] < l[m]
      /\ Len(l) \in Nat
  BY DEF HangsFrom
<1>3. \A c \in 1..(n + 1) : c \in 1..n \/ c = n + 1
  OBVIOUS
<1>4. CASE id # i
  <2>1. k = l
    BY <1>4
  <2>2. \A j \in 1..Len(l) : l[j] \in 1..(n + 1) /\ gg[l[j]] = id
    BY <1>1, <1>2
  <2>3. \A c \in 1..(n + 1) : gg[c] = id => \E j \in 1..Len(l) : l[j] = c
    BY <1>1, <1>2, <1>3, <1>4
  <2> QED BY <1>2, <2>1, <2>2, <2>3 DEF HangsFrom, gg
<1>5. CASE id = i
  <2>1. /\ Len(k) = Len(l) + 1 /\ k[Len(l) + 1] = n + 1
        /\ \A j \in 1..Len(l) : k[j] = l[j]
    BY <1>5, AppendProperties
  <2>2. \A j \in 1..(Len(l) + 1) : j \in 1..Len(l) \/ j = Len(l) + 1
    BY <1>2
  <2>3. \A j \in 1..(Len(l) + 1) : k[j] \in 1..(n + 1) /\ gg[k[j]] = id
    <3> SUFFICES ASSUME NEW j \in 1..(Len(l) + 1)
                 PROVE  k[j] \in 1..(n + 1) /\ gg[k[j]] = id
      OBVIOUS
    <3>1. CASE j \in 1..Len(l)
      <4>1. k[j] \in 1..n /\ g[k[j]] = id
        BY <1>2, <2>1, <3>1
      <4> QED BY <1>1, <4>1
    <3>2. CASE j = Len(l) + 1
      BY <1>1, <1>5, <2>1, <3>2
    <3> QED BY <2>2, <3>1, <3>2
  <2>4. ASSUME NEW c \in 1..(n + 1), gg[c] = id
        PROVE  \E j \in 1..(Len(l) + 1) : k[j] = c
    <3>1. CASE c = n + 1
      BY <1>2, <2>1, <3>1
    <3>2. CASE c \in 1..n
      <4>1. PICK j \in 1..Len(l) : l[j] = c
        BY <1>1, <1>2, <2>4, <3>2
      <4>2. j \in 1..(Len(l) + 1) /\ k[j] = c
        BY <1>2, <2>1, <4>1
      <4> QED BY <4>2
    <3> QED BY <1>3, <3>1, <3>2
  <2>5. ASSUME NEW j \in 1..(Len(l) + 1), NEW m \in 1..(Len(l) + 1), j < m
        PROVE  k[j] < k[m]
    <3>1. j \in 1..Len(l)
      BY <1>2, <2>5
    <3>2. CASE m \in 1..Len(l)
      BY <1>2, <2>1, <2>5, <3>1, <3>2
    <3>3. CASE m = Len(l) + 1
      BY <1>2, <2>1, <3>1, <3>3
    <3> QED BY <2>2, <3>2, <3>3
  <2> QED BY <2>1, <2>3, <2>4, <2>5 DEF HangsFrom, gg
<1> QED BY <1>4, <1>5

LEMMA InnerIs ==
  ASSUME NEW u \in Parsers, Stacked(u), NEW d, NEW g, Forest(u, d, g)
  PROVE  /\ Inner(u) \in 0..Len(u.nodes) /\ d[Inner(u)] = Len(u.open)
         /\ \A m \in (Inner(u) + 1)..Len(u.nodes) : d[m] > d[Inner(u)]
<1>1. Len(u.open) \in Nat /\ Len(u.nodes) \in Nat /\ u.open \in Seq(Nat)
  BY ParserIs
<1>2. CASE u.open = <<>>
  <2>1. Inner(u) = 0 /\ Len(u.open) = 0 /\ d[0] = 0
    BY <1>2 DEF Inner, Forest, Heights
  <2>2. ASSUME NEW m \in 1..Len(u.nodes)
        PROVE  d[m] > 0
    <3>1. g[m] \in 0..(m - 1) /\ d[m] = d[g[m]] + 1 /\ d \in [0..Len(u.nodes) -> Nat]
      BY DEF Forest, Heights
    <3>2. d[g[m]] \in Nat
      BY <1>1, <3>1
    <3> QED BY <3>1, <3>2
  <2> QED BY <1>1, <2>1, <2>2
<1>3. CASE u.open # <<>>
  <2>1. Inner(u) = u.open[Len(u.open)] /\ Len(u.open) \in 1..Len(u.open)
    BY <1>1, <1>3 DEF Inner, Last
  <2>2. /\ u.open[Len(u.open)] \in 1..Len(u.nodes) /\ d[u.open[Len(u.open)]] = Len(u.open)
        /\ \A m \in (u.open[Len(u.open)] + 1)..Len(u.nodes) : d[m] > Len(u.open)
    BY <2>1 DEF Forest, Opened, OpenedOnce
  <2> QED BY <1>1, <2>1, <2>2
<1> QED BY <1>2, <1>3

LEMMA ForestGrows ==
  ASSUME NEW u \in Parsers, Stacked(u), NEW d, NEW g, Forest(u, d, g),
         NEW r \in Parsers, Stacked(r), OpenedOnce(r), NEW node, node.child = <<>>,
         r.nodes = NodesWith(u, node), r.root = u.root, Added(u, r)
  PROVE  Forest(r, DepthsWith(Len(u.nodes), d, Len(u.open) + 1),
                ParentsWith(Len(u.nodes), g, Inner(u)))
<1> DEFINE n == Len(u.nodes)
           e == Len(u.open) + 1
           i == Inner(u)
           dd == DepthsWith(n, d, e)
           gg == ParentsWith(n, g, i)
<1>1. /\ n \in Nat /\ i \in 0..n /\ d[i] = Len(u.open) /\ \A m \in (i + 1)..n : d[m] > d[i]
      /\ Len(u.open) \in Nat /\ e = d[i] + 1
  BY InnerIs, ParserIs
<1>2. Heights(n, d, g) /\ Hung(u, g) /\ Opened(u, d)
  BY DEF Forest
<1>3. /\ Len(r.nodes) = n + 1 /\ r.nodes[n + 1] = node
      /\ \A id \in 1..n : r.nodes[id] = u.nodes[id]
  BY NodesWithIs
<1>4. Grown(u, r)
  BY <1>2, GrownIs DEF Opened
<1> HIDE DEF n, e, i, dd, gg
<1>5. Heights(n + 1, dd, gg)
  BY <1>1, <1>2, HeightsGrow DEF dd, gg
<1>6. ASSUME NEW id \in 0..(n + 1)
      PROVE  HangsFrom(id, Kids(r, id), n + 1, gg)
  <2>1. CASE id \in 0..n
    <3>1. Kids(u, id) \in Seq(Nat)
      BY <1>2, <2>1, KidsType DEF Opened, n
    <3>2. HangsFrom(id, Kids(u, id), n, g)
      BY <1>2, <2>1 DEF Hung, n
    <3>3. Kids(r, id) = IF id = i THEN Append(Kids(u, id), n + 1) ELSE Kids(u, id)
      BY <1>4, <2>1 DEF Grown, n, i
    <3>4. i \in Nat
      BY <1>1
    <3> DEFINE l == Kids(u, id)
               k == Kids(r, id)
    <3>5. l \in Seq(Nat) /\ HangsFrom(id, l, n, g) /\ k = IF id = i THEN Append(l, n + 1) ELSE l
      BY <3>1, <3>2, <3>3
    <3> HIDE DEF l, k
    <3>6. HangsFrom(id, k, n + 1, gg)
      BY <1>1, <2>1, <3>4, <3>5, HangGrows DEF gg
    <3> QED BY <3>6 DEF k
  <2>2. CASE id = n + 1
    <3>1. Kids(r, id) = <<>>
      BY <1>4, <2>2 DEF Grown, n
    <3>2. \A c \in 1..(n + 1) : gg[c] # id
      <4>1. /\ \A c \in 1..n : gg[c] = g[c] /\ g[c] \in 0..(c - 1)
            /\ gg[n + 1] = i
        BY <1>1, <1>2 DEF gg, ParentsWith, Heights
      <4> QED BY <1>1, <2>2, <4>1
    <3> QED BY <3>1, <3>2 DEF HangsFrom
  <2> QED BY <1>1, <2>1, <2>2
<1>7. Hung(r, gg)
  BY <1>3, <1>6 DEF Hung
<1>8. \A id \in 0..n : dd[id] = d[id]
  BY <1>1 DEF dd, DepthsWith
<1>9. dd[n + 1] = e
  BY <1>1 DEF dd, DepthsWith
<1>10. ASSUME NEW k \in 1..Len(r.open)
       PROVE  /\ r.nodes[r.open[k]].child = <<>> /\ dd[r.open[k]] = k
              /\ \A m \in (r.open[k] + 1)..(n + 1) : dd[m] > k
  <2>1. CASE k \in 1..Len(u.open)
    <3>1. r.open[k] = u.open[k] /\ u.open[k] \in 1..n
      BY <1>2, <2>1 DEF Added, Opened, OpenedOnce, n
    <3>2. /\ u.nodes[u.open[k]].child = <<>> /\ d[u.open[k]] = k
          /\ \A m \in (u.open[k] + 1)..n : d[m] > k
      BY <1>2, <2>1 DEF Opened, n
    <3>3. r.nodes[r.open[k]].child = <<>> /\ dd[r.open[k]] = k
      BY <1>3, <1>8, <3>1, <3>2
    <3>4. ASSUME NEW m \in (u.open[k] + 1)..(n + 1)
          PROVE  dd[m] > k
      <4>1. (m \in (u.open[k] + 1)..n /\ m \in 0..n) \/ m = n + 1
        BY <1>1, <3>1
      <4> QED BY <1>1, <1>8, <1>9, <2>1, <3>2, <4>1 DEF e
    <3> QED BY <3>1, <3>3, <3>4
  <2>2. CASE k \in (Len(u.open) + 1)..Len(r.open)
    <3>1. r.open[k] = n + 1
      BY <2>2 DEF Added, n
    <3>2. Len(r.open) <= Len(u.open) + 1
      <4> SUFFICES ASSUME ~(Len(r.open) <= Len(u.open) + 1) PROVE FALSE
        OBVIOUS
      <4>1. Len(r.open) \in Nat
        BY ParserIs
      <4> DEFINE a == Len(u.open) + 1
      <4>2. a \in (Len(u.open) + 1)..Len(r.open) /\ a + 1 \in (Len(u.open) + 1)..Len(r.open)
            /\ a \in 1..Len(r.open) /\ a + 1 \in 1..Len(r.open) /\ a # a + 1
        BY <1>1, <4>1
      <4>3. r.open[a] = n + 1 /\ r.open[a + 1] = n + 1
        BY <4>2 DEF Added, n
      <4> HIDE DEF a
      <4> QED BY <4>2, <4>3 DEF OpenedOnce
    <3>3. k = Len(u.open) + 1
      BY <1>1, <2>2, <3>2
    <3> QED BY <1>1, <1>3, <1>9, <3>1, <3>3 DEF e
  <2>3. k \in 1..Len(u.open) \/ k \in (Len(u.open) + 1)..Len(r.open)
    BY <1>1, ParserIs
  <2> QED BY <2>1, <2>2, <2>3
<1>11. Opened(r, dd)
  BY <1>3, <1>10 DEF Opened
<1> QED BY <1>3, <1>5, <1>7, <1>11 DEF Forest, n, e, i, dd, gg

LEMMA ForestStays ==
  ASSUME NEW u \in Parsers, Stacked(u), NEW d, NEW g, Forest(u, d, g),
         NEW r \in Parsers, Stacked(r), OpenedOnce(r), SameKids(u, r), Len(r.nodes) = Len(u.nodes),
         Len(r.open) <= Len(u.open),
         \A k \in 1..Len(r.open) : r.open[k] = u.open[k] /\ r.nodes[u.open[k]].child = <<>>
  PROVE  Forest(r, d, g)
<1>1. Heights(Len(r.nodes), d, g) /\ Hung(r, g)
  BY DEF Forest, Hung, SameKids
<1>2. ASSUME NEW k \in 1..Len(r.open)
      PROVE  /\ r.nodes[r.open[k]].child = <<>> /\ d[r.open[k]] = k
             /\ \A m \in (r.open[k] + 1)..Len(r.nodes) : d[m] > k
  <2>0. Len(r.open) \in Nat /\ Len(u.open) \in Nat
    BY ParserIs
  <2>1. k \in 1..Len(u.open) /\ r.open[k] = u.open[k] /\ r.nodes[u.open[k]].child = <<>>
    BY <2>0
  <2>2. d[u.open[k]] = k /\ \A m \in (u.open[k] + 1)..Len(u.nodes) : d[m] > k
    BY <2>1 DEF Forest, Opened
  <2> QED BY <2>1, <2>2
<1> QED BY <1>1, <1>2 DEF Forest, Opened

LEMMA ParentIs ==
  ASSUME NEW q \in Parsers, Stacked(q), NEW d, NEW g, Forest(q, d, g)
  PROVE  /\ \A i \in 0..Len(q.nodes) : \A c : c \in ToSet(Kids(q, i)) <=> c \in 1..Len(q.nodes) /\ g[c] = i
         /\ \A c \in 1..Len(q.nodes) : Parent(q, c) = g[c] /\ g[c] \in 0..(c - 1)
<1>1. ASSUME NEW i \in 0..Len(q.nodes), NEW c
      PROVE  c \in ToSet(Kids(q, i)) <=> c \in 1..Len(q.nodes) /\ g[c] = i
  <2> DEFINE l == Kids(q, i)
  <2>1. l \in Seq(Nat) /\ HangsFrom(i, l, Len(q.nodes), g)
    BY KidsType DEF Forest, Opened, Hung
  <2> HIDE DEF l
  <2>2. DOMAIN l = 1..Len(l)
    BY <2>1
  <2>3. c \in ToSet(l) <=> \E j \in 1..Len(l) : l[j] = c
    BY <2>2 DEF ToSet
  <2>4. c \in ToSet(l) <=> c \in 1..Len(q.nodes) /\ g[c] = i
    BY <2>1, <2>3 DEF HangsFrom
  <2> QED BY <2>4 DEF l
<1>2. ASSUME NEW c \in 1..Len(q.nodes)
      PROVE  Parent(q, c) = g[c] /\ g[c] \in 0..(c - 1)
  <2>1. g[c] \in 0..(c - 1)
    BY DEF Forest, Heights
  <2>2. g[c] \in 0..Len(q.nodes)
    BY <2>1, ParserIs
  <2>3. \A i \in 0..Len(q.nodes) : c \in ToSet(Kids(q, i)) <=> i = g[c]
    BY <1>1
  <2>4. Parent(q, c) = g[c]
    BY <2>2, <2>3 DEF Parent
  <2> QED BY <2>1, <2>4
<1> QED BY <1>1, <1>2

LEMMA DepthsIs ==
  ASSUME NEW q \in Parsers, Stacked(q), NEW d, NEW g, Forest(q, d, g)
  PROVE  Depths(q) = d
<1> DEFINE n == Len(q.nodes)
           Body(f, id) == IF id = 0 THEN 0 ELSE f[Parent(q, id)] + 1
           Is(f) == f = [id \in 0..n |-> Body(f, id)]
<1>1. n \in Nat /\ d \in [0..n -> Nat] /\ d[0] = 0
  BY ParserIs DEF Forest, Heights
<1>2. \A c \in 1..n : Parent(q, c) = g[c] /\ g[c] \in 0..(c - 1) /\ d[c] = d[g[c]] + 1
  <2>1. \A c \in 1..n : Parent(q, c) = g[c] /\ g[c] \in 0..(c - 1)
    BY ParentIs
  <2>2. \A c \in 1..n : d[c] = d[g[c]] + 1
    BY DEF Forest, Heights
  <2> QED BY <2>1, <2>2
<1>3. Depths(q) = CHOOSE f : Is(f)
  BY DEF Depths
<1> HIDE DEF n
<1>4. Is(d)
  <2>1. \A id \in 0..n : d[id] = Body(d, id)
    <3>1. \A id \in 0..n : id = 0 \/ id \in 1..n
      BY <1>1
    <3>2. Body(d, 0) = 0 /\ \A id \in 1..n : Body(d, id) = d[Parent(q, id)] + 1
      OBVIOUS
    <3> QED BY <1>1, <1>2, <3>1, <3>2
  <2> QED BY <1>1, <2>1
<1>5. ASSUME NEW f, Is(f)
      PROVE  f = d
  <2>1. \A id \in 0..n : f[id] = Body(f, id)
    BY <1>5
  <2> DEFINE B == {id \in 0..n : f[id] # d[id]}
  <2>2. CASE B # {}
    <3>1. B \in SUBSET Nat
      BY <1>1
    <3>2. PICK m \in B : \A b \in B : m <= b
      <4> HIDE DEF B
      <4> QED BY <2>2, <3>1, MinExists
    <3>3. m \in 1..n
      <4>1. f[0] = 0
        BY <1>1, <2>1
      <4> QED BY <1>1, <3>2, <4>1
    <3>4. g[m] \in 0..n /\ g[m] \notin B
      BY <1>1, <1>2, <3>2, <3>3
    <3>5. f[g[m]] = d[g[m]]
      BY <3>4
    <3>6. f[m] = f[g[m]] + 1 /\ d[m] = d[g[m]] + 1
      BY <1>2, <2>1, <3>3
    <3> QED BY <3>2, <3>5, <3>6
  <2>3. CASE B = {}
    <3>1. \A id \in 0..n : f[id] = d[id]
      BY <2>3
    <3> QED BY <1>1, <1>5, <3>1
  <2> QED BY <2>2, <2>3
<1> QED BY <1>3, <1>4, <1>5

LEMMA ForestInOrder ==
  ASSUME NEW q \in Parsers, Stacked(q), NEW d, NEW g, Forest(q, d, g)
  PROVE  InOrder(q)
<1> DEFINE n == Len(q.nodes)
<1>1. n \in Nat /\ DOMAIN q.nodes = 1..n
  BY ParserIs DEF Parsers
<1> HIDE DEF n
<1>2. Depths(q) = d
  BY DepthsIs
<1>3. ASSUME NEW id \in 1..n
      PROVE  \E i \in 0..(id - 1) : id \in ToSet(Kids(q, i))
  <2>1. g[id] \in 0..(id - 1) /\ g[id] \in 0..n
    BY <1>1, ParentIs DEF n
  <2>2. id \in ToSet(Kids(q, g[id]))
    BY <2>1, ParentIs DEF n
  <2> QED BY <2>1, <2>2
<1>4. ASSUME NEW i \in 0..n
      PROVE  \A j, k \in DOMAIN Kids(q, i) : j < k => Kids(q, i)[j] < Kids(q, i)[k]
  <2> DEFINE l == Kids(q, i)
  <2>1. l \in Seq(Nat) /\ HangsFrom(i, l, n, g)
    BY KidsType DEF Forest, Opened, Hung, n
  <2> HIDE DEF l
  <2>2. \A j, k \in DOMAIN l : j < k => l[j] < l[k]
    BY <2>1 DEF HangsFrom
  <2> QED BY <2>2 DEF l
<1>5. ASSUME NEW i \in 0..n, NEW id \in ToSet(Kids(q, i))
      PROVE  /\ id \in 1..n /\ Parent(q, id) = i
             /\ \A k \in (i + 1)..(id - 1) : d[k] > d[i]
  <2>1. id \in 1..n /\ g[id] = i
    BY ParentIs DEF n
  <2>2. Parent(q, id) = i
    BY <2>1, ParentIs DEF n
  <2>3. \A k \in (g[id] + 1)..(id - 1) : d[k] > d[g[id]]
    BY <2>1 DEF Forest, Heights, n
  <2> QED BY <2>1, <2>2, <2>3
<1> QED BY <1>1, <1>2, <1>3, <1>4, <1>5 DEF InOrder, n

-----------------------------------------------------------------------------
(* What is read of the nodes, the properties and the tags checked          *)

Lists == {"list", "named", "value"}
KnownIn(l, prots) == \A i \in 1..Len(l) : l[i] \in 1..Len(prots)
Known(q) ==
  /\ \A i \in 1..Len(q.nodes) : KnownIn(q.nodes[i].prot, q.prots)
  /\ \A i \in 1..Len(q.checked) : KnownIn(q.checked[i].list, q.prots)
  /\ q.state \in Lists => KnownIn(q.list, q.prots)

\* In a stream properties are copied for the tags that are checked, while they
\* are read.
CopyTells(src, q) ==
  src # "FILE" => (q.copy <=> q.state \in Lists /\ ~q.end /\ q.tag \in Detected)

Laid(src, q) ==
  /\ Known(q) /\ CopyTells(src, q)
  /\ src = "FILE" => \E d, g : Forest(q, d, g)

Extends(prots, more) ==
  Len(prots) <= Len(more) /\ \A i \in 1..Len(prots) : more[i] = prots[i]

LEMMA ExtendsIs ==
  ASSUME NEW q \in Parsers, NEW v
  PROVE  /\ Extends(q.prots, q.prots) /\ Extends(q.prots, ProtsWith(q, v))
         /\ Len(q.prots) \in Nat /\ Len(ProtsWith(q, v)) = Len(q.prots) + 1
         /\ ProtsWith(q, v)[Len(q.prots) + 1] = [name |-> q.name, value |-> v]
<1>1. q.prots \in Seq(Prots) /\ Len(q.prots) \in Nat
  BY DEF Parsers
<1> QED BY <1>1 DEF Extends, ProtsWith

LEMMA KnownStays ==
  ASSUME NEW l, NEW prots, NEW more, Len(prots) \in Nat, Len(more) \in Nat,
         Extends(prots, more), KnownIn(l, prots)
  PROVE  KnownIn(l, more)
BY DEF KnownIn, Extends

LEMMA ProtsOfType ==
  ASSUME NEW q \in Parsers, NEW l \in Seq(Nat), KnownIn(l, q.prots)
  PROVE  /\ ProtsOf(q, l) \in Seq(Prots) /\ Len(ProtsOf(q, l)) = Len(l)
         /\ \A i \in 1..Len(l) : ProtsOf(q, l)[i] = q.prots[l[i]]
<1>1. q.prots \in Seq(Prots)
  BY DEF Parsers
<1>2. \A i \in 1..Len(l) : q.prots[l[i]] \in Prots
  BY <1>1 DEF KnownIn
<1>3. DOMAIN l = 1..Len(l) /\ Len(l) \in Nat
  OBVIOUS
<1> QED BY <1>2, <1>3 DEF ProtsOf

LEMMA ProtsOfStays ==
  ASSUME NEW q \in Parsers, NEW r \in Parsers, Extends(q.prots, r.prots),
         NEW l \in Seq(Nat), KnownIn(l, q.prots)
  PROVE  ProtsOf(r, l) = ProtsOf(q, l)
<1>1. DOMAIN l = 1..Len(l)
  OBVIOUS
<1>2. \A i \in 1..Len(l) : r.prots[l[i]] = q.prots[l[i]]
  BY DEF KnownIn, Extends
<1> QED BY <1>1, <1>2 DEF ProtsOf

LEMMA ProtsOfGrows ==
  ASSUME NEW q \in Parsers, KnownIn(q.list, q.prots), NEW v \in Texts \cup {NULL},
         NEW r \in Parsers, r.prots = ProtsWith(q, v), r.list = ListWith(q)
  PROVE  /\ KnownIn(r.list, r.prots)
         /\ ProtsOf(r, r.list) = Append(ProtsOf(q, q.list), [name |-> q.name, value |-> v])
<1> DEFINE n == Len(q.list)
           m == Len(q.prots)
           e == [name |-> q.name, value |-> v]
<1>1. q.list \in Seq(Nat) /\ r.list \in Seq(Nat) /\ n \in Nat /\ m \in Nat
  BY DEF Parsers
<1>2. Len(r.list) = n + 1 /\ r.list[n + 1] = m + 1 /\ \A i \in 1..n : r.list[i] = q.list[i]
  BY <1>1 DEF ListWith
<1>3. /\ Len(r.prots) = m + 1 /\ r.prots[m + 1] = e
      /\ Extends(q.prots, r.prots)
  BY ExtendsIs
<1>4. e \in Prots
  BY DEF Prots, Parsers
<1> HIDE DEF n, m, e
<1>5. \A i \in 1..n : q.list[i] \in 1..m
  BY DEF KnownIn, n, m
<1>6. \A i \in 1..(n + 1) : i \in 1..n \/ i = n + 1
  BY <1>1
<1>7. KnownIn(r.list, r.prots)
  <2>1. \A i \in 1..(n + 1) : r.list[i] \in 1..(m + 1)
    BY <1>1, <1>2, <1>5, <1>6
  <2> QED BY <1>2, <1>3, <2>1 DEF KnownIn
<1>8. /\ ProtsOf(r, r.list) \in Seq(Prots) /\ Len(ProtsOf(r, r.list)) = n + 1
      /\ \A i \in 1..(n + 1) : ProtsOf(r, r.list)[i] = r.prots[r.list[i]]
  BY <1>1, <1>2, <1>7, ProtsOfType
<1> DEFINE s == ProtsOf(q, q.list)
           t == ProtsOf(r, r.list)
<1>9. /\ s \in Seq(Prots) /\ Len(s) = n
      /\ \A i \in 1..n : s[i] = q.prots[q.list[i]]
  BY <1>1, ProtsOfType DEF n
<1>10. \A i \in 1..n : r.prots[r.list[i]] = q.prots[q.list[i]]
  BY <1>2, <1>3, <1>5 DEF Extends, m
<1> HIDE DEF s
<1>11. /\ Append(s, e) \in Seq(Prots) /\ Len(Append(s, e)) = n + 1
       /\ Append(s, e)[n + 1] = e /\ \A i \in 1..n : Append(s, e)[i] = s[i]
  BY <1>4, <1>9, AppendProperties
<1>12. \A i \in 1..(n + 1) : t[i] = Append(s, e)[i]
  <2> SUFFICES ASSUME NEW i \in 1..(n + 1) PROVE t[i] = Append(s, e)[i]
    OBVIOUS
  <2>1. t[i] = r.prots[r.list[i]]
    BY <1>8
  <2>2. CASE i \in 1..n
    BY <1>9, <1>10, <1>11, <2>1, <2>2
  <2>3. CASE i = n + 1
    BY <1>2, <1>3, <1>11, <2>1, <2>3
  <2> QED BY <1>6, <2>2, <2>3
<1>13. t \in Seq(Prots) /\ Len(t) = n + 1
  BY <1>8
<1> HIDE DEF t
<1>14. t = Append(s, e)
  BY <1>11, <1>12, <1>13, SeqEqual
<1> QED BY <1>7, <1>14 DEF s, t, e

LEMMA AppendIs ==
  ASSUME NEW S, NEW s \in Seq(S), NEW t \in Seq(S), NEW e, Len(t) = Len(s) + 1,
         t[Len(s) + 1] = e, \A i \in 1..Len(s) : t[i] = s[i]
  PROVE  t = Append(s, e)
<1> DEFINE w == Append(s, e)
<1>1. Len(s) \in Nat /\ e \in S
  BY ElementOfSeq
<1>2. /\ w \in Seq(S) /\ Len(w) = Len(s) + 1 /\ w[Len(s) + 1] = e
      /\ \A i \in 1..Len(s) : w[i] = s[i]
  BY <1>1, AppendProperties
<1> HIDE DEF w
<1>3. \A i \in 1..(Len(s) + 1) : i \in 1..Len(s) \/ i = Len(s) + 1
  BY <1>1
<1>4. \A i \in 1..Len(t) : t[i] = w[i]
  BY <1>2, <1>3
<1>5. t = w
  BY <1>2, <1>4, SeqEqual
<1> QED BY <1>5 DEF w

Readings == [depth : Int, kind : {"text", "tag"}, what : Texts, prots : Seq(Prots)]
Reading(depth, kind, what, prots) == [depth |-> depth, kind |-> kind, what |-> what, prots |-> prots]
NodeRead(q, d, i) == Reading(d[i] - 1, q.nodes[i].type, q.nodes[i].text, ProtsOf(q, q.nodes[i].prot))
CheckRead(q, i) == Reading(0, "tag", q.checked[i].tag, ProtsOf(q, q.checked[i].list))

LEMMA FileIs ==
  ASSUME NEW q \in Parsers, Stacked(q), NEW d, NEW g, Forest(q, d, g), Known(q)
  PROVE  /\ ReadOf("FILE", q) \in Seq(Readings) /\ Len(ReadOf("FILE", q)) = Len(q.nodes)
         /\ \A i \in 1..Len(q.nodes) : ReadOf("FILE", q)[i] = NodeRead(q, d, i)
<1>1. Depths(q) = d /\ InOrder(q)
  BY DepthsIs, ForestInOrder
<1>2. DOMAIN q.nodes = 1..Len(q.nodes) /\ Len(q.nodes) \in Nat /\ d \in [0..Len(q.nodes) -> Nat]
  BY ParserIs DEF Parsers, Forest, Heights
<1>3. ReadOf("FILE", q) = [i \in 1..Len(q.nodes) |-> NodeRead(q, d, i)]
  BY <1>1, <1>2 DEF ReadOf, NodesRead, NodeRead, Reading
<1>4. ASSUME NEW i \in 1..Len(q.nodes)
      PROVE  NodeRead(q, d, i) \in Readings
  <2>1. /\ q.nodes[i].type \in {"text", "tag"} /\ q.nodes[i].text \in Texts
        /\ q.nodes[i].prot \in Seq(Nat)
    BY NodeType DEF Nodes
  <2>2. ProtsOf(q, q.nodes[i].prot) \in Seq(Prots)
    BY <2>1, ProtsOfType DEF Known
  <2>3. d[i] - 1 \in Int
    BY <1>2
  <2> QED BY <2>1, <2>2, <2>3 DEF NodeRead, Reading, Readings
<1> QED BY <1>2, <1>3, <1>4

LEMMA StreamIs ==
  ASSUME NEW src, src # "FILE", NEW q \in Parsers, Known(q)
  PROVE  /\ ReadOf(src, q) \in Seq(Readings) /\ Len(ReadOf(src, q)) = Len(q.checked)
         /\ \A i \in 1..Len(q.checked) : ReadOf(src, q)[i] = CheckRead(q, i)
<1>1. DOMAIN q.checked = 1..Len(q.checked) /\ Len(q.checked) \in Nat /\ q.checked \in Seq(Reports)
  BY DEF Parsers
<1>2. ReadOf(src, q) = [i \in 1..Len(q.checked) |-> CheckRead(q, i)]
  BY <1>1 DEF ReadOf, CheckRead, Reading
<1>3. ASSUME NEW i \in 1..Len(q.checked)
      PROVE  CheckRead(q, i) \in Readings
  <2>1. q.checked[i] \in Reports
    BY <1>1
  <2>2. q.checked[i].tag \in Texts /\ q.checked[i].list \in Seq(Nat)
    BY <2>1 DEF Reports
  <2>3. ProtsOf(q, q.checked[i].list) \in Seq(Prots)
    BY <2>2, ProtsOfType DEF Known
  <2> QED BY <2>2, <2>3 DEF CheckRead, Reading, Readings
<1> QED BY <1>1, <1>2, <1>3

\* Nothing more is read where the nodes and the tags checked are the same.
SameRead(u, r) ==
  /\ Len(r.nodes) = Len(u.nodes)
  /\ \A i \in 1..Len(u.nodes) :
       r.nodes[i].type = u.nodes[i].type /\ r.nodes[i].text = u.nodes[i].text
       /\ r.nodes[i].prot = u.nodes[i].prot
  /\ r.checked = u.checked /\ Extends(u.prots, r.prots)

LEMMA ReadStays ==
  ASSUME NEW src, NEW u \in Parsers, Stacked(u), NEW r \in Parsers, Stacked(r), Known(u),
         SameRead(u, r), src = "FILE" => \E d, g : Forest(u, d, g) /\ Forest(r, d, g)
  PROVE  ReadOf(src, r) = ReadOf(src, u)
<1>1. Len(u.prots) \in Nat /\ Len(r.prots) \in Nat
  BY DEF Parsers
<1>2. ASSUME NEW i \in 1..Len(u.nodes)
      PROVE  /\ KnownIn(r.nodes[i].prot, r.prots)
             /\ ProtsOf(r, r.nodes[i].prot) = ProtsOf(u, u.nodes[i].prot)
  <2>1. r.nodes[i].prot = u.nodes[i].prot /\ KnownIn(u.nodes[i].prot, u.prots)
    BY DEF SameRead, Known
  <2>2. u.nodes[i].prot \in Seq(Nat) /\ Extends(u.prots, r.prots)
    BY NodeType DEF SameRead
  <2> QED BY <1>1, <2>1, <2>2, KnownStays, ProtsOfStays
<1>3. ASSUME NEW i \in 1..Len(u.checked)
      PROVE  /\ KnownIn(r.checked[i].list, r.prots)
             /\ ProtsOf(r, r.checked[i].list) = ProtsOf(u, u.checked[i].list)
  <2>1. r.checked[i] = u.checked[i] /\ KnownIn(u.checked[i].list, u.prots)
    BY DEF SameRead, Known
  <2>2. u.checked[i] \in Reports /\ Extends(u.prots, r.prots)
    BY DEF SameRead, Parsers
  <2>3. u.checked[i].list \in Seq(Nat)
    BY <2>2 DEF Reports
  <2> QED BY <1>1, <2>1, <2>2, <2>3, KnownStays, ProtsOfStays
<1> DEFINE s == ReadOf(src, u)
           t == ReadOf(src, r)
<1>4. CASE src = "FILE"
  <2>1. PICK d, g : Forest(u, d, g) /\ Forest(r, d, g)
    BY <1>4
  <2>2. Depths(u) = d /\ InOrder(u) /\ Depths(r) = d /\ InOrder(r)
    BY <2>1, DepthsIs, ForestInOrder
  <2>3. DOMAIN u.nodes = 1..Len(u.nodes) /\ DOMAIN r.nodes = 1..Len(u.nodes)
    BY DEF Parsers, SameRead
  <2>4. /\ s = [i \in 1..Len(u.nodes) |-> NodeRead(u, d, i)]
        /\ t = [i \in 1..Len(u.nodes) |-> NodeRead(r, d, i)]
    BY <1>4, <2>2, <2>3 DEF ReadOf, NodesRead, NodeRead, Reading
  <2>5. \A i \in 1..Len(u.nodes) : NodeRead(u, d, i) = NodeRead(r, d, i)
    BY <1>2 DEF NodeRead, SameRead
  <2> QED BY <2>4, <2>5
<1>5. CASE src # "FILE"
  <2>1. DOMAIN u.checked = 1..Len(u.checked) /\ r.checked = u.checked
    BY DEF Parsers, SameRead
  <2>2. /\ s = [i \in 1..Len(u.checked) |-> CheckRead(u, i)]
        /\ t = [i \in 1..Len(u.checked) |-> CheckRead(r, i)]
    BY <1>5, <2>1 DEF ReadOf, CheckRead, Reading
  <2>3. \A i \in 1..Len(u.checked) : CheckRead(u, i) = CheckRead(r, i)
    BY <1>3, <2>1 DEF CheckRead
  <2> QED BY <2>2, <2>3
<1> QED BY <1>4, <1>5

\* A node more, or a tag checked more, is one reading more.
LEMMA FileGrows ==
  ASSUME NEW u \in Parsers, Stacked(u), Known(u), NEW d, NEW g, Forest(u, d, g),
         NEW r \in Parsers, Stacked(r), OpenedOnce(r), Known(r), NEW node, node.child = <<>>,
         r.nodes = NodesWith(u, node), r.root = u.root, r.prots = u.prots, Added(u, r)
  PROVE  ReadOf("FILE", r) =
           Append(ReadOf("FILE", u),
                  Reading(Len(u.open), node.type, node.text, ProtsOf(u, node.prot)))
<1> DEFINE n == Len(u.nodes)
           dd == DepthsWith(n, d, Len(u.open) + 1)
           s == ReadOf("FILE", u)
           t == ReadOf("FILE", r)
           e == Reading(Len(u.open), node.type, node.text, ProtsOf(u, node.prot))
<1>1. n \in Nat /\ Len(u.open) \in Nat
  BY ParserIs
<1>2. PICK gg : Forest(r, dd, gg)
  BY ForestGrows
<1>3. /\ Len(r.nodes) = n + 1 /\ r.nodes[n + 1] = node
      /\ \A id \in 1..n : r.nodes[id] = u.nodes[id]
  BY NodesWithIs
<1>4. dd[n + 1] = Len(u.open) + 1 /\ \A i \in 1..n : dd[i] = d[i]
  BY <1>1 DEF DepthsWith
<1>5. \A l : ProtsOf(r, l) = ProtsOf(u, l)
  BY DEF ProtsOf
<1> HIDE DEF dd, n
<1>6. NodeRead(r, dd, n + 1) = e
  BY <1>1, <1>3, <1>4, <1>5 DEF NodeRead
<1>7. \A i \in 1..n : NodeRead(r, dd, i) = NodeRead(u, d, i)
  BY <1>3, <1>4, <1>5 DEF NodeRead
<1>8. /\ s \in Seq(Readings) /\ Len(s) = n /\ \A i \in 1..n : s[i] = NodeRead(u, d, i)
  BY FileIs DEF n
<1>9. /\ t \in Seq(Readings) /\ Len(t) = n + 1 /\ \A i \in 1..(n + 1) : t[i] = NodeRead(r, dd, i)
  BY <1>2, <1>3, FileIs
<1> HIDE DEF s, t, e
<1>10. t[n + 1] = e /\ \A i \in 1..n : t[i] = s[i]
  BY <1>1, <1>6, <1>7, <1>8, <1>9
<1>11. t = Append(s, e)
  BY <1>8, <1>9, <1>10, AppendIs
<1> QED BY <1>11 DEF s, t, e

LEMMA StreamGrows ==
  ASSUME NEW src, src # "FILE", NEW u \in Parsers, Known(u), NEW r \in Parsers, Known(r),
         r.checked = CheckedWith(u), r.prots = u.prots
  PROVE  ReadOf(src, r) = Append(ReadOf(src, u), Reading(0, "tag", u.tag, ProtsOf(u, u.list)))
<1> DEFINE n == Len(u.checked)
           s == ReadOf(src, u)
           t == ReadOf(src, r)
           e == Reading(0, "tag", u.tag, ProtsOf(u, u.list))
           c == [tag |-> u.tag, list |-> u.list]
<1>1. n \in Nat /\ u.checked \in Seq(Reports)
  BY DEF Parsers
<1>2. /\ Len(r.checked) = n + 1 /\ r.checked[n + 1] = c
      /\ \A i \in 1..n : r.checked[i] = u.checked[i]
  BY <1>1 DEF CheckedWith
<1>3. \A l : ProtsOf(r, l) = ProtsOf(u, l)
  BY DEF ProtsOf
<1> HIDE DEF n
<1>4. CheckRead(r, n + 1) = e /\ \A i \in 1..n : CheckRead(r, i) = CheckRead(u, i)
  BY <1>2, <1>3 DEF CheckRead
<1>5. s \in Seq(Readings) /\ Len(s) = n /\ \A i \in 1..n : s[i] = CheckRead(u, i)
  BY StreamIs DEF n
<1>6. t \in Seq(Readings) /\ Len(t) = n + 1 /\ \A i \in 1..(n + 1) : t[i] = CheckRead(r, i)
  BY <1>2, StreamIs
<1> HIDE DEF s, t, e, c
<1>7. t[n + 1] = e /\ \A i \in 1..n : t[i] = s[i]
  BY <1>1, <1>4, <1>5, <1>6
<1>8. t = Append(s, e)
  BY <1>5, <1>6, <1>7, AppendIs
<1> QED BY <1>8 DEF s, t, e

-----------------------------------------------------------------------------
(* The tag being read                                                      *)

Told(u) == ProtsOf(u, u.list) \o Pending(u)
Unended(u) == [name |-> u.name, value |-> NULL]

LEMMA ToldIs ==
  ASSUME NEW u \in Parsers, KnownIn(u.list, u.prots)
  PROVE  /\ ProtsOf(u, u.list) \in Seq(Prots) /\ Unended(u) \in Prots
         /\ Len(ProtsOf(u, u.list)) = Len(u.list)
         /\ u.state \notin {"named", "value"} => Told(u) = ProtsOf(u, u.list)
         /\ u.state \in {"named", "value"} => Told(u) = Append(ProtsOf(u, u.list), Unended(u))
<1> DEFINE s == ProtsOf(u, u.list)
           e == Unended(u)
<1>1. s \in Seq(Prots) /\ Len(s) = Len(u.list)
  BY ProtsOfType DEF Parsers
<1>2. e \in Prots
  BY DEF Unended, Parsers, Prots
<1>3. CASE u.state \notin {"named", "value"}
  <2>1. Told(u) = s \o <<>>
    BY <1>3 DEF Told, Pending
  <2> HIDE DEF s
  <2>2. s \o <<>> = s
    BY <1>1, ConcatEmptySeq
  <2> QED BY <1>1, <1>2, <1>3, <2>1, <2>2 DEF s, e
<1>4. CASE u.state \in {"named", "value"}
  <2>1. Told(u) = s \o <<e>>
    BY <1>4 DEF Told, Pending, Unended
  <2> HIDE DEF s, e
  <2>2. s \o <<e>> = Append(s, e)
    BY <1>1, <1>2, AppendIsConcat
  <2> QED BY <1>1, <1>2, <1>4, <2>1, <2>2 DEF s, e
<1> QED BY <1>3, <1>4

\* The properties of a tag are told where they are copied, and there they are
\* wanted.
Telling(src, u) == ~u.end /\ Copies(src, u)

LEMMA TagIs ==
  ASSUME NEW src, NEW u \in Parsers, u.state \in Lists, CopyTells(src, u)
  PROVE  /\ TagOf(src, u) =
              [end |-> u.end, name |-> u.tag, prots |-> IF Telling(src, u) THEN Told(u) ELSE <<>>]
         /\ Whole!Wanted(src, TagOf(src, u)) <=> Telling(src, u)
<1>1. TagOf(src, u) =
        [end |-> u.end, name |-> u.tag, prots |-> IF Telling(src, u) THEN Told(u) ELSE <<>>]
  BY DEF TagOf, Telling, Told, Lists
<1>2. TagOf(src, u).end = u.end /\ TagOf(src, u).name = u.tag
  BY <1>1
<1>3. Whole!Wanted(src, TagOf(src, u)) <=> ~u.end /\ (src = "FILE" \/ u.tag \in Detected)
  BY <1>2 DEF Whole!Wanted
<1>4. Telling(src, u) <=> ~u.end /\ (src = "FILE" \/ u.copy)
  BY DEF Telling, Copies
<1> QED BY <1>1, <1>3, <1>4 DEF CopyTells

\* What holds of the lists and of the tree stays where the parser only goes on
\* in the tag, and nothing is read.
LEMMA LaidStays ==
  ASSUME NEW src, NEW u \in Parsers, Stacked(u), Laid(src, u),
         NEW r \in Parsers, Stacked(r), SameTree(u, r), r.nodes = u.nodes, r.checked = u.checked,
         Extends(u.prots, r.prots)
  PROVE  /\ ReadOf(src, r) = ReadOf(src, u)
         /\ CopyTells(src, r) /\ (r.state \in Lists => KnownIn(r.list, r.prots)) => Laid(src, r)
<1>1. Len(u.prots) \in Nat /\ Len(r.prots) \in Nat
  BY DEF Parsers
<1>2. ASSUME NEW d, NEW g, Forest(u, d, g)
      PROVE  Forest(r, d, g)
  <2>1. \A i : Children(r, i) = Children(u, i)
    BY DEF Children, SameTree
  <2>2. \A id : Kids(r, id) = Kids(u, id)
    BY <2>1 DEF Kids, SameTree
  <2>3. Hung(r, g)
    BY <1>2, <2>2 DEF Forest, Hung
  <2>4. Opened(r, d)
    BY <1>2 DEF Forest, Opened, OpenedOnce, SameTree
  <2> QED BY <1>2, <2>3, <2>4 DEF Forest
<1>3. SameRead(u, r)
  BY DEF SameRead
<1>4. ReadOf(src, r) = ReadOf(src, u)
  <2>1. src = "FILE" => \E d, g : Forest(u, d, g) /\ Forest(r, d, g)
    BY <1>2 DEF Laid
  <2> QED BY <1>3, <2>1, ReadStays DEF Laid
<1>5. /\ \A i \in 1..Len(r.nodes) : KnownIn(r.nodes[i].prot, r.prots)
      /\ \A i \in 1..Len(r.checked) : KnownIn(r.checked[i].list, r.prots)
  BY <1>1, KnownStays DEF Laid, Known
<1> QED BY <1>2, <1>4, <1>5 DEF Laid, Known

LEMMA StateStays ==
  ASSUME NEW src, NEW u, Sound(u), Laid(src, u), NEW s \in States \ InTagStates,
         NEW r, r = [u EXCEPT !.state = s]
  PROVE  /\ Sound(r) /\ r.state = s /\ ReadOf(src, r) = ReadOf(src, u)
         /\ r.open = u.open /\ r.docs = u.docs
         /\ src = "FILE" \/ ~u.copy => Laid(src, r)
<1>1. /\ r \in Parsers /\ r.state = s /\ SameTag(u, r) /\ SameTree(u, r) /\ SameLists(u, r)
      /\ Sound(r)
  BY StateIs, StateSound DEF Sound
<1>2. Extends(u.prots, r.prots)
  BY <1>1, ExtendsIs DEF Sound, SameLists
<1>3. s \notin Lists
  BY DEF Lists, InTagStates
<1>4. ~u.copy /\ src # "FILE" => CopyTells(src, r)
  BY <1>1, <1>3 DEF CopyTells, SameTag
<1>5. src = "FILE" => CopyTells(src, r)
  BY DEF CopyTells
<1> QED BY <1>1, <1>2, <1>3, <1>4, <1>5, LaidStays DEF Sound, SameTree, SameLists

\* A name without "=" is added to the list of properties, and nothing else
\* changes.
LEMMA UnvaluedTells ==
  ASSUME NEW src, NEW q, Sound(q), Reads(q), Laid(src, q),
         NEW u \in Unvalued(src, q), u.state # "nomem"
  PROVE  /\ Sound(u) /\ Reads(u) /\ Laid(src, u) /\ SameTree(q, u)
         /\ ReadOf(src, u) = ReadOf(src, q) /\ TagOf(src, u) = TagOf(src, q)
<1>1. /\ Sound(u) /\ SameTree(q, u) /\ u.nodes = q.nodes /\ u.checked = q.checked
      /\ Reads(u) /\ q \in Parsers /\ Stacked(q) /\ u \in Parsers /\ Stacked(u)
  BY UnvaluedSound, UnvaluedReads DEF Sound
<1>2. CASE u = q
  BY <1>1, <1>2
<1>3. CASE q.state = "named" /\ u # q
  <2>0. q.state \in Lists /\ CopyTells(src, q) /\ KnownIn(q.list, q.prots)
    BY <1>3 DEF Lists, Laid, Known
  <2>1. CASE ~Copies(src, q) /\ u = [q EXCEPT !.state = "list"]
    <3>1. u.state = "list" /\ SameTag(q, u) /\ u.prots = q.prots
      BY <1>1, <2>1, StateIs DEF States, InTagStates, SameLists
    <3>2. u.state \in Lists /\ CopyTells(src, u) /\ KnownIn(u.list, u.prots)
      BY <2>0, <3>1 DEF Lists, CopyTells, SameTag
    <3>3. Extends(q.prots, u.prots)
      BY <1>1, <3>1, ExtendsIs
    <3>4. ReadOf(src, u) = ReadOf(src, q) /\ Laid(src, u)
      BY <1>1, <3>2, <3>3, LaidStays
    <3>5. ~Telling(src, u) /\ ~Telling(src, q)
      BY <2>1, <3>1 DEF Telling, Copies, SameTag
    <3>6. /\ TagOf(src, q) = [end |-> q.end, name |-> q.tag, prots |-> <<>>]
          /\ TagOf(src, u) = [end |-> u.end, name |-> u.tag, prots |-> <<>>]
      BY <1>1, <2>0, <3>2, <3>5, TagIs
    <3> QED BY <1>1, <3>1, <3>4, <3>6 DEF SameTag
  <2>2. CASE u = NewProt(q, NULL, q.strings)
    <3> DEFINE v == NULL
    <3>1. v \in Texts \cup {NULL} /\ u = NewProt(q, v, q.strings) /\ q.strings \in Nat
      BY <1>1, <2>2 DEF Parsers
    <3> HIDE DEF v
    <3>2. /\ u.state = "list" /\ u.prots = ProtsWith(q, v) /\ u.list = ListWith(q)
          /\ u.end = q.end /\ u.tag = q.tag /\ u.copy = q.copy
      BY <1>1, <3>1, NewProtIs
    <3>3. /\ KnownIn(u.list, u.prots)
          /\ ProtsOf(u, u.list) = Append(ProtsOf(q, q.list), [name |-> q.name, value |-> v])
      BY <1>1, <2>0, <3>1, <3>2, ProtsOfGrows
    <3>4. u.state \in Lists /\ CopyTells(src, u)
      BY <2>0, <3>2 DEF Lists, CopyTells
    <3>5. Extends(q.prots, u.prots)
      BY <1>1, <3>2, ExtendsIs
    <3>6. ReadOf(src, u) = ReadOf(src, q) /\ Laid(src, u)
      BY <1>1, <3>3, <3>4, <3>5, LaidStays
    <3>7. Told(u) = ProtsOf(u, u.list) /\ Told(q) = Append(ProtsOf(q, q.list), Unended(q))
      <4>1. u.state \notin {"named", "value"} /\ q.state \in {"named", "value"}
        BY <1>3, <3>2
      <4> QED BY <1>1, <2>0, <3>3, <4>1, ToldIs
    <3>8. Told(u) = Told(q)
      BY <3>3, <3>7 DEF Unended, v
    <3>9. Telling(src, u) <=> Telling(src, q)
      BY <3>2 DEF Telling, Copies
    <3>10. TagOf(src, u) = TagOf(src, q)
      BY <1>1, <2>0, <3>2, <3>4, <3>8, <3>9, TagIs
    <3> QED BY <1>1, <3>6, <3>10
  <2>3. Aborted(q).state = "nomem"
    BY <1>1 DEF Aborted, Parsers
  <2> QED BY <1>1, <1>3, <2>1, <2>2, <2>3, UnvaluedCases
<1> QED BY <1>1, <1>2, <1>3, UnvaluedCases

-----------------------------------------------------------------------------
(* What one token reads                                                    *)

ReadsNone(src, u, r) == ReadOf(src, r) = ReadOf(src, u)
ReadsMore(src, u, r, x) == ReadOf(src, r) = Append(ReadOf(src, u), x)
Deep(u, r) == Len(r.open) = Len(u.open)

\* As HtmlDocument takes a token, on parsers.
StepsText(src, tok, u, r) ==
  /\ u.state = "doc" /\ tok.sym = "text" /\ r.state = "doc" /\ Deep(u, r)
  /\ src = "FILE" => ReadsMore(src, u, r, Reading(Len(u.open), "text", tok.text, <<>>))
  /\ src # "FILE" => ReadsNone(src, u, r)
StepsBegin(src, tok, u, r) ==
  /\ u.state = "doc" /\ (tok.sym = "<" \/ (tok.sym = "</" /\ Len(u.open) > 0))
  /\ r.state = "name" /\ TagOf(src, r) = [Whole!NoTag EXCEPT !.end = tok.sym = "</"]
  /\ Deep(u, r) /\ ReadsNone(src, u, r)
StepsName(src, tok, u, r) ==
  /\ u.state = "name" /\ tok.sym = "name" /\ r.state = "list"
  /\ TagOf(src, r) = [TagOf(src, u) EXCEPT !.name = tok.text]
  /\ Deep(u, r) /\ ReadsNone(src, u, r)
PropertyAdded(src, t, name) ==
  IF Whole!Wanted(src, t)
  THEN [t EXCEPT !.prots = Append(@, [name |-> name, value |-> Whole!NoValue])] ELSE t
StepsProperty(src, tok, u, r) ==
  /\ u.state \in {"list", "named"} /\ tok.sym = "name" /\ r.state = "named"
  /\ TagOf(src, r) = PropertyAdded(src, TagOf(src, u), tok.text)
  /\ Deep(u, r) /\ ReadsNone(src, u, r)
StepsEqual(src, tok, u, r) ==
  /\ u.state = "named" /\ tok.sym = "=" /\ r.state = "value"
  /\ TagOf(src, r) = TagOf(src, u) /\ Deep(u, r) /\ ReadsNone(src, u, r)
ValueAdded(src, t, text) ==
  IF Whole!Wanted(src, t) THEN [t EXCEPT !.prots[Len(t.prots)].value = text] ELSE t
StepsValue(src, tok, u, r) ==
  /\ u.state = "value" /\ tok.sym = "text" /\ r.state = "list"
  /\ TagOf(src, r) = ValueAdded(src, TagOf(src, u), tok.text)
  /\ Deep(u, r) /\ ReadsNone(src, u, r)
TagReported(src, t) == Whole!Wanted(src, t) /\ (src = "FILE" \/ t.prots # <<>>)
TagReading(src, t, depth) ==
  Reading(IF src = "FILE" THEN depth ELSE 0, "tag", t.name, t.prots)
StepsClose(src, tok, u, r) ==
  /\ u.state \in {"list", "named"} /\ tok.sym = ">" /\ r.state = "doc"
  /\ Len(r.open) = IF TagOf(src, u).end THEN Len(u.open) - 1 ELSE Len(u.open) + 1
  /\ TagReported(src, TagOf(src, u)) =>
       ReadsMore(src, u, r, TagReading(src, TagOf(src, u), Len(u.open)))
  /\ ~TagReported(src, TagOf(src, u)) => ReadsNone(src, u, r)
StepsEnd(src, tok, u, r) ==
  /\ u.state = "doc" /\ tok.sym = "end" /\ r.state = "accepted" /\ Len(r.open) = 0
  /\ ReadsNone(src, u, r)
Lawful(u, sym) ==
  \/ u.state = "doc" /\ (sym \in {"text", "<", "end"} \/ (sym = "</" /\ Len(u.open) > 0))
  \/ u.state = "name" /\ sym = "name"
  \/ u.state = "list" /\ sym \in {"name", ">"}
  \/ u.state = "named" /\ sym \in {"name", "=", ">"}
  \/ u.state = "value" /\ sym = "text"
StepsRefuse(src, tok, u, r) ==
  ~Lawful(u, tok.sym) /\ r.state = "error" /\ ReadsNone(src, u, r)

\* And as it gives up, where memory runs out or what is reported stops it.
StepsStop(src, u, r) ==
  /\ r.state \in {"nomem", "reset", "dead"}
  /\ \/ ReadsNone(src, u, r)
     \/ /\ src # "FILE" /\ u.state \in InTagStates
        /\ ReadsMore(src, u, r, TagReading(src, TagOf(src, u), 0))

Steps(src, tok, u, r) ==
  \/ StepsText(src, tok, u, r) \/ StepsBegin(src, tok, u, r) \/ StepsName(src, tok, u, r)
  \/ StepsProperty(src, tok, u, r) \/ StepsEqual(src, tok, u, r) \/ StepsValue(src, tok, u, r)
  \/ StepsClose(src, tok, u, r) \/ StepsEnd(src, tok, u, r) \/ StepsRefuse(src, tok, u, r)
  \/ StepsStop(src, u, r)

\* The parser that takes a token still reads what the lists say.
Taken(src, tok, u, r) ==
  Steps(src, tok, u, r) /\ (Reads(r) \/ r.state = "accepted" => Laid(src, r))

LEMMA AbortTakes ==
  ASSUME NEW src, NEW tok, NEW u, Sound(u), Laid(src, u), NEW r, r = Aborted(u)
  PROVE  Taken(src, tok, u, r)
<1>1. r = [u EXCEPT !.state = "nomem"] /\ "nomem" \in States \ InTagStates
  BY DEF Aborted, States, InTagStates
<1>2. r.state = "nomem" /\ ReadOf(src, r) = ReadOf(src, u)
  BY <1>1, StateStays
<1>3. StepsStop(src, u, r)
  BY <1>2 DEF StepsStop, ReadsNone
<1> QED BY <1>2, <1>3 DEF Taken, Steps, Reads, InTagStates

LEMMA TextTakes ==
  ASSUME NEW src, NEW tok \in Tokens, NEW u, Sound(u), Laid(src, u), u.state = "doc",
         tok.sym = "text", NEW r \in TextRead(src, u, tok.text)
  PROVE  Taken(src, tok, u, r)
<1>1. u \in Parsers /\ Stacked(u) /\ tok.text \in Texts
  BY DEF Sound, Tokens
<1>2. src # "FILE" => ~Copies(src, u)
  BY DEF Laid, CopyTells, Lists, Copies
<1>3. CASE r = Aborted(u)
  BY <1>3, AbortTakes
<1>4. CASE r = u /\ src # "FILE"
  <2>1. StepsText(src, tok, u, r)
    BY <1>4 DEF StepsText, Deep, ReadsNone
  <2> QED BY <1>4, <2>1 DEF Taken, Steps
<1>5. CASE src = "FILE" /\ r # Aborted(u)
  <2> DEFINE node == TextNode(tok.text)
  <2>0. r # u
    <3>1. r = u => Len(r.nodes) = Len(u.nodes)
      OBVIOUS
    <3>2. Len(NodesWith(u, node)) = Len(u.nodes) + 1 /\ Len(u.nodes) \in Nat
      BY <1>1, NodesWithIs, ParserIs
    <3>3. r.nodes = NodesWith(u, node)
      BY <1>1, <1>5 DEF TextRead, Copies, NodesWith, TextNode, Parsers
    <3> QED BY <3>1, <3>2, <3>3
  <2>1. /\ r \in Parsers /\ r.state = "doc" /\ SameTag(u, r)
        /\ r.nodes = NodesWith(u, node) /\ r.prots = u.prots /\ r.checked = u.checked
        /\ r.docs = DocsWith(u) /\ r.open = u.open /\ r.root = u.root
    BY <1>1, <1>5, <2>0, TextReadCases
  <2>2. /\ node.child = <<>> /\ node.prot = <<>> /\ node.type = "text" /\ node.text = tok.text
    BY DEF TextNode
  <2> HIDE DEF node
  <2>3. PICK d, g : Forest(u, d, g)
    BY <1>5 DEF Laid
  <2>4. Stacked(r)
    <3>1. Len(r.docs) = Len(u.docs)
      BY <1>1, <2>1 DEF DocsWith, Parsers
    <3> QED BY <1>1, <2>1, <3>1 DEF Stacked, InTagStates
  <2>5. OpenedOnce(r) /\ Added(u, r)
    BY <1>1, <2>1, <2>3, <2>4, TextAdds DEF Forest, Opened
  <2>6. \E dd, gg : Forest(r, dd, gg)
    BY <1>1, <2>1, <2>2, <2>3, <2>4, <2>5, ForestGrows
  <2>7. Known(r)
    <3>1. /\ Len(r.nodes) = Len(u.nodes) + 1 /\ r.nodes[Len(u.nodes) + 1] = node
          /\ \A i \in 1..Len(u.nodes) : r.nodes[i] = u.nodes[i]
          /\ Len(u.nodes) \in Nat
      BY <1>1, <2>1, NodesWithIs, ParserIs
    <3>2. \A i \in 1..Len(r.nodes) : i \in 1..Len(u.nodes) \/ i = Len(u.nodes) + 1
      BY <3>1
    <3>3. KnownIn(node.prot, u.prots)
      BY <2>2 DEF KnownIn
    <3>4. \A i \in 1..Len(u.nodes) : KnownIn(u.nodes[i].prot, u.prots)
      BY DEF Laid, Known
    <3>5. \A i \in 1..Len(r.nodes) : KnownIn(r.nodes[i].prot, r.prots)
      BY <2>1, <3>1, <3>2, <3>3, <3>4
    <3>6. r.state \notin Lists
      BY <2>1 DEF Lists
    <3> QED BY <2>1, <3>5, <3>6 DEF Laid, Known
  <2>8. Laid(src, r)
    BY <1>5, <2>6, <2>7 DEF Laid, CopyTells
  <2>9. ProtsOf(u, node.prot) = <<>>
    BY <2>2 DEF ProtsOf
  <2>10. ReadOf("FILE", r) = Append(ReadOf("FILE", u), Reading(Len(u.open), "text", tok.text, <<>>))
    BY <1>1, <2>1, <2>2, <2>3, <2>4, <2>5, <2>7, <2>9, FileGrows DEF Laid
  <2>11. StepsText(src, tok, u, r)
    BY <1>5, <2>1, <2>10 DEF StepsText, Deep, ReadsMore
  <2> QED BY <2>8, <2>11 DEF Taken, Steps
<1> QED BY <1>1, <1>2, <1>3, <1>4, <1>5, TextReadCases

LEMMA BeginTakes ==
  ASSUME NEW src, NEW tok \in Tokens, NEW u, Sound(u), Laid(src, u), u.state = "doc",
         tok.sym \in {"<", "</"}, tok.sym = "</" => u.open # <<>>,
         NEW r, r = Beginning(u, tok.sym), Sound(r)
  PROVE  Taken(src, tok, u, r)
<1>1. /\ u \in Parsers /\ Stacked(u) /\ r \in Parsers /\ Stacked(r)
      /\ Len(u.open) \in Nat /\ (u.open # <<>> => Len(u.open) > 0)
  BY ParserIs DEF Sound
<1>2. /\ r.state = "name" /\ (r.end <=> tok.sym = "</") /\ r.copy = u.copy
      /\ SameTree(u, r) /\ SameLists(u, r)
  BY <1>1 DEF Beginning, Parsers, SameTree, SameLists
<1>3. CopyTells(src, r) /\ r.state \notin Lists
  BY <1>2 DEF Laid, CopyTells, Lists
<1>4. Extends(u.prots, r.prots)
  BY <1>1, <1>2, ExtendsIs DEF SameLists
<1>5. Laid(src, r) /\ ReadOf(src, r) = ReadOf(src, u)
  BY <1>1, <1>2, <1>3, <1>4, LaidStays DEF SameLists
<1>6. TagOf(src, r) = [Whole!NoTag EXCEPT !.end = tok.sym = "</"]
  <2>1. TagOf(src, r) = [end |-> r.end, name |-> <<>>, prots |-> <<>>]
    BY <1>2 DEF TagOf
  <2>2. r.end = (tok.sym = "</")
    BY <1>1, <1>2 DEF Parsers
  <2> QED BY <2>1, <2>2 DEF Whole!NoTag
<1>7. StepsBegin(src, tok, u, r)
  BY <1>1, <1>2, <1>5, <1>6 DEF StepsBegin, Deep, ReadsNone, SameTree
<1> QED BY <1>5, <1>7 DEF Taken, Steps

LEMMA NameTakes ==
  ASSUME NEW src, NEW tok \in Tokens, NEW u, Sound(u), Laid(src, u), u.state = "name",
         tok.sym = "name", NEW r, r = NameRead(src, u, tok.text), Sound(r)
  PROVE  Taken(src, tok, u, r)
<1>1. u \in Parsers /\ Stacked(u) /\ r \in Parsers /\ Stacked(r) /\ tok.text \in Texts
  BY DEF Sound, Tokens
<1>2. /\ r.state = "list" /\ r.tag = tok.text /\ r.list = <<>> /\ r.end = u.end
      /\ src # "FILE" => (r.copy <=> ~u.end /\ tok.text \in Detected)
      /\ SameTree(u, r) /\ SameLists(u, r)
  BY <1>1, NameReadIs
<1>3. CopyTells(src, r) /\ KnownIn(r.list, r.prots) /\ r.state \in Lists
  BY <1>2 DEF CopyTells, Lists, KnownIn
<1>4. Extends(u.prots, r.prots)
  BY <1>1, <1>2, ExtendsIs DEF SameLists
<1>5. Laid(src, r) /\ ReadOf(src, r) = ReadOf(src, u)
  BY <1>1, <1>2, <1>3, <1>4, LaidStays DEF SameLists
<1>6. TagOf(src, r) = [end |-> r.end, name |-> r.tag, prots |-> <<>>]
  <2>1. Told(r) = ProtsOf(r, r.list)
    BY <1>1, <1>2, <1>3, ToldIs
  <2>2. ProtsOf(r, r.list) = <<>>
    BY <1>2 DEF ProtsOf
  <2> QED BY <1>1, <1>3, <2>1, <2>2, TagIs
<1>7. TagOf(src, u) = [end |-> u.end, name |-> <<>>, prots |-> <<>>]
  BY DEF TagOf
<1>8. TagOf(src, r) = [TagOf(src, u) EXCEPT !.name = tok.text]
  BY <1>2, <1>6, <1>7
<1>9. StepsName(src, tok, u, r)
  BY <1>2, <1>5, <1>8 DEF StepsName, Deep, ReadsNone, SameTree
<1> QED BY <1>5, <1>9 DEF Taken, Steps

LEMMA NamedTakes ==
  ASSUME NEW src, NEW tok \in Tokens, NEW u, Sound(u), Laid(src, u), u.state = "list",
         tok.sym = "name", NEW r, r = NamedAs(u, tok.text), Sound(r)
  PROVE  Taken(src, tok, u, r)
<1>1. u \in Parsers /\ Stacked(u) /\ r \in Parsers /\ Stacked(r) /\ tok.text \in Texts
  BY DEF Sound, Tokens
<1>2. /\ r.state = "named" /\ r.name = tok.text /\ r.end = u.end /\ r.tag = u.tag
      /\ r.list = u.list /\ r.copy = u.copy /\ SameTree(u, r) /\ SameLists(u, r)
  BY <1>1 DEF NamedAs, Parsers, SameTree, SameLists
<1>3. /\ CopyTells(src, u) /\ KnownIn(u.list, u.prots) /\ u.state \in Lists
      /\ CopyTells(src, r) /\ KnownIn(r.list, r.prots) /\ r.state \in Lists
  BY <1>2 DEF Laid, Known, CopyTells, Lists, SameLists
<1>4. Extends(u.prots, r.prots)
  BY <1>1, <1>2, ExtendsIs DEF SameLists
<1>5. Laid(src, r) /\ ReadOf(src, r) = ReadOf(src, u)
  BY <1>1, <1>2, <1>3, <1>4, LaidStays DEF SameLists
<1> DEFINE e == [name |-> tok.text, value |-> Whole!NoValue]
           t == TagOf(src, u)
<1>6. Told(u) = ProtsOf(u, u.list) /\ Told(r) = Append(ProtsOf(u, u.list), e)
  <2>1. Told(r) = Append(ProtsOf(r, r.list), Unended(r)) /\ Told(u) = ProtsOf(u, u.list)
    BY <1>1, <1>2, <1>3, ToldIs
  <2>2. ProtsOf(r, r.list) = ProtsOf(u, u.list)
    BY <1>2 DEF ProtsOf, SameLists
  <2>3. Unended(r) = e
    BY <1>2 DEF Unended, Whole!NoValue, NULL
  <2> QED BY <2>1, <2>2, <2>3
<1>7. Telling(src, r) <=> Telling(src, u)
  BY <1>2 DEF Telling, Copies
<1>8. /\ t = [end |-> u.end, name |-> u.tag, prots |-> IF Telling(src, u) THEN Told(u) ELSE <<>>]
      /\ TagOf(src, r) =
           [end |-> u.end, name |-> u.tag, prots |-> IF Telling(src, u) THEN Told(r) ELSE <<>>]
      /\ Whole!Wanted(src, t) <=> Telling(src, u)
  BY <1>1, <1>2, <1>3, <1>7, TagIs
<1> HIDE DEF e, t
<1>9. TagOf(src, r) = IF Telling(src, u) THEN [t EXCEPT !.prots = Append(t.prots, e)] ELSE t
  <2> DEFINE a == Told(u)
             c == Append(a, e)
  <2>1. Told(r) = c
    BY <1>6
  <2> HIDE DEF a, c
  <2>2. CASE Telling(src, u)
    <3>1. t = [end |-> u.end, name |-> u.tag, prots |-> a]
      BY <1>8, <2>2 DEF a
    <3>2. TagOf(src, r) = [end |-> u.end, name |-> u.tag, prots |-> c]
      BY <1>8, <2>1, <2>2
    <3>3. TagOf(src, r) = [t EXCEPT !.prots = c] /\ t.prots = a
      BY <3>1, <3>2
    <3> QED BY <2>2, <3>3 DEF c
  <2>3. CASE ~Telling(src, u)
    BY <1>8, <2>3
  <2> QED BY <2>2, <2>3
<1>10. TagOf(src, r) = PropertyAdded(src, t, tok.text)
  BY <1>8, <1>9 DEF PropertyAdded, e
<1>11. StepsProperty(src, tok, u, r)
  BY <1>2, <1>5, <1>10 DEF StepsProperty, t, Deep, ReadsNone, SameTree
<1> QED BY <1>5, <1>11 DEF Taken, Steps

LEMMA EqualTakes ==
  ASSUME NEW src, NEW tok \in Tokens, NEW u, Sound(u), Laid(src, u), u.state = "named",
         tok.sym = "=", NEW r, r = InState(u, "value"), Sound(r)
  PROVE  Taken(src, tok, u, r)
<1>1. u \in Parsers /\ Stacked(u) /\ r \in Parsers /\ Stacked(r)
  BY DEF Sound
<1>2. /\ r.state = "value" /\ SameTag(u, r) /\ SameTree(u, r) /\ SameLists(u, r)
  BY <1>1, StateIs DEF InState, States, InTagStates
<1>3. /\ CopyTells(src, u) /\ KnownIn(u.list, u.prots) /\ u.state \in Lists
      /\ CopyTells(src, r) /\ KnownIn(r.list, r.prots) /\ r.state \in Lists
  BY <1>2 DEF Laid, Known, CopyTells, Lists, SameLists, SameTag
<1>4. Extends(u.prots, r.prots)
  BY <1>1, <1>2, ExtendsIs DEF SameLists
<1>5. Laid(src, r) /\ ReadOf(src, r) = ReadOf(src, u)
  BY <1>1, <1>2, <1>3, <1>4, LaidStays DEF SameLists
<1>6. Told(r) = Told(u)
  <2>1. ProtsOf(r, r.list) = ProtsOf(u, u.list)
    BY <1>2 DEF ProtsOf, SameLists, SameTag
  <2>2. Pending(r) = Pending(u)
    BY <1>2 DEF Pending, SameTag
  <2> QED BY <2>1, <2>2 DEF Told
<1>7. Telling(src, r) <=> Telling(src, u)
  BY <1>2 DEF Telling, Copies, SameTag
<1>8. TagOf(src, r) = TagOf(src, u)
  BY <1>1, <1>2, <1>3, <1>6, <1>7, TagIs DEF SameTag
<1>9. StepsEqual(src, tok, u, r)
  BY <1>2, <1>5, <1>8 DEF StepsEqual, Deep, ReadsNone, SameTree
<1> QED BY <1>5, <1>9 DEF Taken, Steps

LEMMA ValueTakes ==
  ASSUME NEW src, NEW tok \in Tokens, NEW u, Sound(u), Laid(src, u), u.state = "value",
         tok.sym = "text", NEW r \in ValueRead(src, u, tok.text)
  PROVE  Taken(src, tok, u, r)
<1>1. u \in Parsers /\ Stacked(u) /\ tok.text \in Texts /\ u.strings + 1 \in Nat
  BY DEF Sound, Tokens, Parsers
<1>2. CopyTells(src, u) /\ KnownIn(u.list, u.prots) /\ u.state \in Lists
  BY DEF Laid, Known, Lists
<1> DEFINE t == TagOf(src, u)
<1>3. /\ t = [end |-> u.end, name |-> u.tag, prots |-> IF Telling(src, u) THEN Told(u) ELSE <<>>]
      /\ Whole!Wanted(src, t) <=> Telling(src, u)
  BY <1>1, <1>2, TagIs
<1>4. CASE r = Aborted(u)
  BY <1>4, AbortTakes
<1>5. CASE ~Copies(src, u) /\ r = [u EXCEPT !.state = "list"] /\ Sound(r)
  <2>1. r \in Parsers /\ Stacked(r) /\ r.state = "list" /\ SameTag(u, r) /\ SameTree(u, r)
        /\ SameLists(u, r)
    BY <1>1, <1>5, StateIs DEF Sound, States, InTagStates
  <2>2. CopyTells(src, r) /\ KnownIn(r.list, r.prots) /\ r.state \in Lists
    BY <1>2, <2>1 DEF CopyTells, Lists, SameLists, SameTag
  <2>3. Extends(u.prots, r.prots)
    BY <1>1, <2>1, ExtendsIs DEF SameLists
  <2>4. Laid(src, r) /\ ReadOf(src, r) = ReadOf(src, u)
    BY <1>1, <2>1, <2>2, <2>3, LaidStays DEF SameLists
  <2>5. ~Telling(src, u) /\ ~Telling(src, r)
    BY <1>5, <2>1 DEF Telling, Copies, SameTag
  <2>6. TagOf(src, r) = t
    BY <1>1, <1>3, <2>1, <2>2, <2>5, TagIs DEF SameTag
  <2>7. TagOf(src, r) = ValueAdded(src, t, tok.text)
    BY <1>3, <2>5, <2>6 DEF ValueAdded
  <2>8. StepsValue(src, tok, u, r)
    BY <2>1, <2>4, <2>7 DEF StepsValue, Deep, ReadsNone, SameTree
  <2> QED BY <2>4, <2>8 DEF Taken, Steps
<1>6. CASE Copies(src, u) /\ r = NewProt(u, tok.text, u.strings + 1) /\ Sound(r)
  <2>1. /\ r \in Parsers /\ Stacked(r) /\ r.state = "list"
        /\ r.prots = ProtsWith(u, tok.text) /\ r.list = ListWith(u)
        /\ r.end = u.end /\ r.tag = u.tag /\ r.copy = u.copy
        /\ SameTree(u, r) /\ r.nodes = u.nodes /\ r.checked = u.checked
    <3>1. tok.text \in Texts \cup {NULL}
      BY <1>1
    <3> QED BY <1>1, <1>6, <3>1, NewProtIs DEF Sound
  <2> DEFINE s == ProtsOf(u, u.list)
             e == [name |-> u.name, value |-> tok.text]
             n == Unended(u)
  <2>2. KnownIn(r.list, r.prots) /\ ProtsOf(r, r.list) = Append(s, e)
    <3>1. tok.text \in Texts \cup {NULL}
      BY <1>1
    <3> QED BY <1>1, <1>2, <2>1, <3>1, ProtsOfGrows
  <2>3. CopyTells(src, r) /\ r.state \in Lists
    BY <1>2, <2>1 DEF CopyTells, Lists
  <2>4. Extends(u.prots, r.prots)
    BY <1>1, <2>1, ExtendsIs
  <2>5. Laid(src, r) /\ ReadOf(src, r) = ReadOf(src, u)
    BY <1>1, <2>1, <2>2, <2>3, <2>4, LaidStays
  <2>6. Told(r) = Append(s, e) /\ Told(u) = Append(s, n) /\ s \in Seq(Prots) /\ n \in Prots
    BY <1>1, <1>2, <2>1, <2>2, ToldIs
  <2>7. Telling(src, r) <=> Telling(src, u)
    BY <2>1 DEF Telling, Copies
  <2>8. TagOf(src, r) =
          [end |-> u.end, name |-> u.tag, prots |-> IF Telling(src, u) THEN Told(r) ELSE <<>>]
    BY <2>1, <2>3, <2>7, TagIs
  <2>9. e = [n EXCEPT !.value = tok.text]
    BY DEF Unended
  <2> HIDE DEF s, e, n
  <2>10. Append(s, e) = [Append(s, n) EXCEPT ![Len(Append(s, n))].value = tok.text]
    <3>1. e \in Prots
      BY <1>1, <2>6, <2>9 DEF Prots
    <3> DEFINE a == Append(s, n)
               b == [a EXCEPT ![Len(a)].value = tok.text]
               c == Append(s, e)
               m == Len(s)
    <3>2. /\ a \in Seq(Prots) /\ m \in Nat /\ Len(a) = m + 1 /\ a[m + 1] = n
          /\ \A i \in 1..m : a[i] = s[i]
      BY <2>6, AppendProperties
    <3>3. /\ c \in Seq(Prots) /\ Len(c) = m + 1 /\ c[m + 1] = e
          /\ \A i \in 1..m : c[i] = s[i]
      BY <2>6, <3>1, AppendProperties
    <3>4. b = [a EXCEPT ![m + 1] = e]
      BY <2>9, <3>2
    <3> HIDE DEF a, b, c, m
    <3>5. m + 1 \in 1..Len(a)
      BY <3>2
    <3>6. b \in Seq(Prots) /\ Len(b) = m + 1 /\ b[m + 1] = e /\ \A i \in 1..m : b[i] = a[i]
      BY <3>1, <3>2, <3>4, <3>5, ExceptSeq
    <3>7. \A i \in 1..(m + 1) : i \in 1..m \/ i = m + 1
      BY <3>2
    <3>8. \A i \in 1..(m + 1) : b[i] = c[i]
      BY <3>2, <3>3, <3>6, <3>7
    <3>9. b = c
      BY <3>3, <3>6, <3>8, SeqEqual
    <3> QED BY <3>9 DEF a, b, c
  <2>11. CASE Telling(src, u)
    <3> DEFINE a == Append(s, n)
               c == Append(s, e)
    <3>1. /\ t = [end |-> u.end, name |-> u.tag, prots |-> a]
          /\ TagOf(src, r) = [end |-> u.end, name |-> u.tag, prots |-> c]
          /\ c = [a EXCEPT ![Len(a)].value = tok.text]
      BY <1>3, <2>6, <2>8, <2>10, <2>11
    <3> HIDE DEF a, c
    <3>2. TagOf(src, r) = [t EXCEPT !.prots[Len(t.prots)].value = tok.text]
      BY <3>1
    <3>3. TagOf(src, r) = ValueAdded(src, t, tok.text)
      BY <1>3, <2>11, <3>2 DEF ValueAdded
    <3> QED BY <2>1, <2>5, <3>3 DEF StepsValue, Deep, ReadsNone, SameTree, Taken, Steps
  <2>12. CASE ~Telling(src, u)
    <3>1. TagOf(src, r) = t
      BY <1>3, <2>8, <2>12
    <3>2. TagOf(src, r) = ValueAdded(src, t, tok.text)
      BY <1>3, <2>12, <3>1 DEF ValueAdded
    <3> QED BY <2>1, <2>5, <3>2 DEF StepsValue, Deep, ReadsNone, SameTree, Taken, Steps
  <2> QED BY <2>11, <2>12
<1> QED BY <1>1, <1>4, <1>5, <1>6, ValueSound

LEMMA EndTakes ==
  ASSUME NEW src, NEW tok \in Tokens, NEW u, Sound(u), Laid(src, u), u.state = "list",
         tok.sym = ">", u.end, NEW r, r = TagEnded(src, u), Sound(r)
  PROVE  Taken(src, tok, u, r)
<1>0. u.docs \in Seq(Seq(Nat)) /\ u.docs # <<>> /\ u.nodes \in Seq(Nodes)
  BY ParserIs DEF Sound
<1>1. /\ u \in Parsers /\ Stacked(u) /\ r \in Parsers /\ Stacked(r) /\ u.open # <<>>
      /\ u.open \in Seq(Nat) /\ Len(u.open) \in Nat
  BY ParserIs DEF Sound, Stacked, InTagStates
<1>2. /\ r.state = "doc" /\ r.nodes = Linked(u.nodes, Last(u.open), Last(u.docs))
      /\ r.prots = u.prots /\ r.checked = u.checked
      /\ r.open = Front(u.open) /\ r.root = u.root
      /\ r.docs = EndedDocs(src, u) /\ r.copy = u.copy
  BY <1>1, TagEndedIs
<1>3. /\ Len(r.nodes) = Len(u.nodes)
      /\ \A i \in 1..Len(u.nodes) :
           /\ r.nodes[i].type = u.nodes[i].type /\ r.nodes[i].text = u.nodes[i].text
           /\ r.nodes[i].prot = u.nodes[i].prot
           /\ r.nodes[i].child = ChildWith(u.nodes, Last(u.open), Last(u.docs), i)
  <2>1. Last(u.open) \in Nat /\ Last(u.docs) \in Seq(Nat)
    BY <1>0, <1>1 DEF Last
  <2> DEFINE a == Last(u.open)
             b == Last(u.docs)
             m == r.nodes
             ns == u.nodes
  <2>2. ns \in Seq(Nodes) /\ a \in Nat /\ b \in Seq(Nat) /\ m = Linked(ns, a, b)
    BY <1>0, <1>2, <2>1
  <2> HIDE DEF a, b, m, ns
  <2>3. Linking(ns, a, b, m) /\ Len(m) = Len(ns)
    BY <2>2, LinkedIs
  <2> QED BY <2>3 DEF Linking, a, b, m, ns
<1>4. /\ Len(r.open) = Len(u.open) - 1
      /\ \A k \in 1..Len(r.open) : r.open[k] = u.open[k]
  <2> DEFINE o == u.open
             f == r.open
  <2>1. o \in Seq(Nat) /\ o # <<>> /\ f = Front(o)
    BY <1>1, <1>2
  <2> HIDE DEF o, f
  <2>2. Len(f) = Len(o) - 1 /\ \A k \in 1..(Len(o) - 1) : f[k] = o[k]
    BY <2>1, FrontIs
  <2> QED BY <2>2 DEF o, f
<1>5. SameRead(u, r) /\ Known(r)
  <2>1. Extends(u.prots, r.prots)
    BY <1>1, <1>2, ExtendsIs
  <2>2. r.state \notin Lists
    BY <1>2 DEF Lists
  <2> QED BY <1>2, <1>3, <2>1, <2>2 DEF SameRead, Known, Laid
<1>6. ASSUME src = "FILE"
      PROVE  \E d, g : Forest(u, d, g) /\ Forest(r, d, g)
  <2>1. PICK d, g : Forest(u, d, g)
    BY <1>6 DEF Laid
  <2>2. OpenedOnce(u)
    BY <2>1 DEF Forest, Opened
  <2>3. Ends(u, r)
    BY <1>2, <1>6 DEF Ends
  <2>4. OpenedOnce(r) /\ SameKids(u, r)
    BY <1>1, <2>2, <2>3, EndMovesNone
  <2>5. ASSUME NEW k \in 1..Len(r.open)
        PROVE  r.open[k] = u.open[k] /\ r.nodes[u.open[k]].child = <<>>
    <3>1. r.open[k] = u.open[k] /\ k \in 1..Len(u.open) /\ k # Len(u.open)
          /\ Len(u.open) \in 1..Len(u.open)
      BY <1>1, <1>4
    <3>2. u.open[k] \in 1..Len(u.nodes) /\ u.nodes[u.open[k]].child = <<>>
      BY <2>1, <3>1 DEF Forest, Opened, OpenedOnce
    <3>3. u.open[k] # Last(u.open)
      <4>1. Last(u.open) = u.open[Len(u.open)]
        BY DEF Last
      <4> QED BY <2>2, <3>1, <4>1 DEF OpenedOnce
    <3>4. r.nodes[u.open[k]].child = u.nodes[u.open[k]].child
      <4>1. r.nodes[u.open[k]].child = ChildWith(u.nodes, Last(u.open), Last(u.docs), u.open[k])
        BY <1>3, <3>2
      <4> QED BY <3>3, <4>1 DEF ChildWith
    <3> QED BY <3>1, <3>2, <3>4
  <2>6. Len(r.open) <= Len(u.open)
    BY <1>1, <1>4
  <2>7. Forest(r, d, g)
    BY <1>1, <1>3, <2>1, <2>4, <2>5, <2>6, ForestStays
  <2> QED BY <2>1, <2>7
<1>7. ReadOf(src, r) = ReadOf(src, u)
  BY <1>1, <1>5, <1>6, ReadStays DEF Laid
<1>8. CopyTells(src, r)
  BY <1>2 DEF Laid, CopyTells, Lists
<1>9. Laid(src, r)
  BY <1>5, <1>6, <1>8 DEF Laid
<1>10. TagOf(src, u).end = TRUE /\ ~TagReported(src, TagOf(src, u))
  <2>1. CopyTells(src, u) /\ u.state \in Lists
    BY DEF Laid, Lists
  <2>2. /\ TagOf(src, u) =
             [end |-> u.end, name |-> u.tag, prots |-> IF Telling(src, u) THEN Told(u) ELSE <<>>]
        /\ Whole!Wanted(src, TagOf(src, u)) <=> Telling(src, u)
    BY <1>1, <2>1, TagIs
  <2>3. TagOf(src, u).end = u.end /\ u.end = TRUE
    BY <1>1, <2>2 DEF Parsers
  <2> QED BY <2>2, <2>3 DEF TagReported, Telling
<1>11. StepsClose(src, tok, u, r)
  BY <1>2, <1>4, <1>7, <1>10 DEF StepsClose, ReadsNone
<1> QED BY <1>9, <1>11 DEF Taken, Steps

LEMMA DocumentTakes ==
  ASSUME NEW src, NEW tok \in Tokens, NEW u, Sound(u), Laid(src, u), u.state = "doc",
         tok.sym = "end", NEW r, r = DocumentEnded(src, u), Sound(r)
  PROVE  Taken(src, tok, u, r)
<1>1. /\ u \in Parsers /\ Stacked(u) /\ r \in Parsers /\ Stacked(r)
      /\ DOMAIN u.nodes = 1..Len(u.nodes) /\ Len(u.nodes) \in Nat /\ Len(u.open) \in Nat
  BY ParserIs DEF Sound, Parsers
<1>2. /\ r.state = "accepted" /\ SameTag(u, r) /\ r.docs = << <<>> >> /\ r.open = <<>>
      /\ r.prots = u.prots /\ r.checked = u.checked
      /\ src = "FILE" => r.nodes = ClosedNodes(u) /\ r.root = u.root \o Children(u, 0)
      /\ src # "FILE" => r.nodes = u.nodes
  BY <1>1, DocumentEndedIs
<1>3. /\ Len(r.nodes) = Len(u.nodes)
      /\ \A i \in 1..Len(u.nodes) :
           /\ r.nodes[i].type = u.nodes[i].type /\ r.nodes[i].text = u.nodes[i].text
           /\ r.nodes[i].prot = u.nodes[i].prot
  <2>1. CASE src # "FILE"
    BY <1>2, <2>1
  <2>2. CASE src = "FILE"
    <3>1. Len(r.nodes) = Len(u.nodes) /\ \A i \in 1..Len(u.nodes) : r.nodes[i] = ClosedNode(u, i)
      BY <1>1, <1>2, <2>2 DEF ClosedNodes
    <3> QED BY <1>1, <3>1, ClosedNodeIs
  <2> QED BY <2>1, <2>2
<1>4. SameRead(u, r) /\ Known(r)
  <2>1. Extends(u.prots, r.prots)
    BY <1>1, <1>2, ExtendsIs
  <2>2. r.state \notin Lists
    BY <1>2 DEF Lists
  <2> QED BY <1>2, <1>3, <2>1, <2>2 DEF SameRead, Known, Laid
<1>5. Len(r.open) = 0
  BY <1>2
<1>6. ASSUME src = "FILE"
      PROVE  \E d, g : Forest(u, d, g) /\ Forest(r, d, g)
  <2>1. PICK d, g : Forest(u, d, g)
    BY <1>6 DEF Laid
  <2>2. OpenedOnce(u) /\ \A k \in 1..Len(u.open) : u.nodes[u.open[k]].child = <<>>
    BY <2>1 DEF Forest, Opened
  <2>3. Accepts(u, r)
    BY <1>2, <1>6 DEF Accepts
  <2>4. OpenedOnce(r) /\ SameKids(u, r)
    BY <1>1, <2>2, <2>3, AcceptMovesNone
  <2>5. Len(r.open) <= Len(u.open) /\ \A k \in 1..Len(r.open) : FALSE
    BY <1>1, <1>5
  <2>6. Forest(r, d, g)
    BY <1>1, <1>3, <2>1, <2>4, <2>5, ForestStays
  <2> QED BY <2>1, <2>6
<1>7. ReadOf(src, r) = ReadOf(src, u)
  BY <1>1, <1>4, <1>6, ReadStays DEF Laid
<1>8. CopyTells(src, r)
  BY <1>2 DEF Laid, CopyTells, Lists, SameTag
<1>9. Laid(src, r)
  BY <1>4, <1>6, <1>8 DEF Laid
<1>10. StepsEnd(src, tok, u, r)
  BY <1>2, <1>5, <1>7 DEF StepsEnd, ReadsNone
<1> QED BY <1>9, <1>10 DEF Taken, Steps

LEMMA OpenTakes ==
  ASSUME NEW src, NEW tok \in Tokens, NEW u, Sound(u), Laid(src, u), u.state = "list",
         tok.sym = ">", ~u.end, NEW r \in TagBegun(src, u), r = Aborted(u) \/ Sound(r)
  PROVE  Taken(src, tok, u, r)
<1>1. /\ u \in Parsers /\ Stacked(u) /\ Len(u.nodes) \in Nat /\ Len(u.open) \in Nat
      /\ u.open \in Seq(Nat) /\ u.checked \in Seq(Reports) /\ Len(u.checked) \in Nat
  BY ParserIs DEF Sound, Parsers
<1>2. CopyTells(src, u) /\ u.state \in Lists /\ KnownIn(u.list, u.prots)
  BY DEF Laid, Known, Lists
<1> DEFINE t == TagOf(src, u)
           s == ProtsOf(u, u.list)
<1>3. /\ t.end = FALSE /\ t.name = u.tag /\ (Telling(src, u) => t.prots = s)
      /\ Whole!Wanted(src, t) <=> Telling(src, u)
      /\ Len(s) = Len(u.list) /\ s \in Seq(Prots)
  <2>1. /\ t = [end |-> u.end, name |-> u.tag, prots |-> IF Telling(src, u) THEN Told(u) ELSE <<>>]
        /\ Whole!Wanted(src, t) <=> Telling(src, u)
    BY <1>1, <1>2, TagIs
  <2>2. Told(u) = s /\ Len(s) = Len(u.list) /\ s \in Seq(Prots)
    BY <1>1, <1>2, ToldIs
  <2>3. u.end = FALSE
    BY <1>1 DEF Parsers
  <2> HIDE DEF s, t
  <2>4. t.end = FALSE /\ t.name = u.tag /\ (Telling(src, u) => t.prots = Told(u))
    BY <2>1, <2>3
  <2> QED BY <2>1, <2>2, <2>4
<1> HIDE DEF s, t
<1>4. Telling(src, u) <=> src = "FILE" \/ u.copy
  BY DEF Telling, Copies
<1>5. CASE r = Aborted(u)
  BY <1>5, AbortTakes
<1>6. CASE /\ src = "FILE" /\ Sound(r) /\ Opens(u, r, Len(u.nodes) + 1)
           /\ r.nodes = NodesWith(u, TagNode(u)) /\ r.checked = u.checked
  <2> DEFINE node == TagNode(u)
  <2>1. /\ node.child = <<>> /\ node.prot = u.list /\ node.type = "tag" /\ node.text = u.tag
    BY DEF TagNode
  <2> HIDE DEF node
  <2>2. /\ r \in Parsers /\ Stacked(r) /\ r.nodes = NodesWith(u, node) /\ r.state = "doc"
        /\ r.root = u.root /\ r.prots = u.prots
    BY <1>6 DEF Sound, Opens, node
  <2>3. PICK d, g : Forest(u, d, g)
    BY <1>6 DEF Laid
  <2>4. OpenedOnce(r) /\ Added(u, r)
    BY <1>1, <1>6, <2>2, <2>3, BeginAdds DEF Forest, Opened
  <2>5. \E dd, gg : Forest(r, dd, gg)
    BY <1>1, <2>1, <2>2, <2>3, <2>4, ForestGrows
  <2>6. Known(r)
    <3>1. /\ Len(r.nodes) = Len(u.nodes) + 1 /\ r.nodes[Len(u.nodes) + 1] = node
          /\ \A i \in 1..Len(u.nodes) : r.nodes[i] = u.nodes[i]
      BY <1>1, <2>2, NodesWithIs
    <3>2. \A i \in 1..Len(r.nodes) : i \in 1..Len(u.nodes) \/ i = Len(u.nodes) + 1
      BY <1>1, <3>1
    <3>3. KnownIn(node.prot, u.prots)
      BY <1>2, <2>1
    <3>4. \A i \in 1..Len(u.nodes) : KnownIn(u.nodes[i].prot, u.prots)
      BY DEF Laid, Known
    <3>5. \A i \in 1..Len(r.nodes) : KnownIn(r.nodes[i].prot, r.prots)
      BY <2>2, <3>1, <3>2, <3>3, <3>4
    <3>6. r.state \notin Lists
      BY <2>2 DEF Lists
    <3> QED BY <1>6, <2>2, <3>5, <3>6 DEF Laid, Known
  <2>7. Laid(src, r)
    BY <1>6, <2>5, <2>6 DEF Laid, CopyTells
  <2>8. ReadOf("FILE", r) = Append(ReadOf("FILE", u), Reading(Len(u.open), "tag", u.tag, s))
    BY <1>1, <2>1, <2>2, <2>3, <2>4, <2>6, FileGrows DEF Laid, s
  <2>9. Len(r.open) = Len(u.open) + 1
    BY <1>1, <1>6 DEF Opens
  <2>10. TagReported(src, t) /\ TagReading(src, t, Len(u.open)) = Reading(Len(u.open), "tag", u.tag, s)
    BY <1>3, <1>4, <1>6 DEF TagReported, TagReading
  <2>11. StepsClose(src, tok, u, r)
    BY <1>3, <1>6, <2>2, <2>8, <2>9, <2>10 DEF StepsClose, ReadsMore, t
  <2> QED BY <2>7, <2>11 DEF Taken, Steps
<1>7. ASSUME src # "FILE", Sound(r), Opens(u, r, 0), r.nodes = u.nodes,
             \/ r.checked = u.checked /\ ~(u.copy /\ u.list # <<>>)
             \/ r.checked = CheckedWith(u) /\ u.copy /\ u.list # <<>>
      PROVE  Taken(src, tok, u, r)
  <2>1. /\ r \in Parsers /\ Stacked(r) /\ r.state = "doc" /\ r.copy = FALSE
        /\ r.prots = u.prots /\ Len(r.open) = Len(u.open) + 1 /\ r.state \notin Lists
    BY <1>1, <1>7 DEF Sound, Opens, Lists
  <2>2. \A i \in 1..Len(r.nodes) : KnownIn(r.nodes[i].prot, r.prots)
    BY <1>7, <2>1 DEF Laid, Known
  <2>3. TagReported(src, t) <=> u.copy /\ u.list # <<>>
    <3>1. u.copy => (t.prots # <<>> <=> u.list # <<>>)
      <4>1. u.list \in Seq(Nat)
        BY <1>1 DEF Parsers
      <4>2. s # <<>> <=> u.list # <<>>
        BY <1>3, <4>1
      <4> QED BY <1>3, <1>4, <4>2
    <3> QED BY <1>3, <1>4, <1>7, <3>1 DEF TagReported
  <2>4. CASE r.checked = u.checked /\ ~(u.copy /\ u.list # <<>>)
    <3>1. Known(r)
      BY <2>1, <2>2, <2>4 DEF Laid, Known
    <3>2. SameRead(u, r)
      BY <1>1, <1>7, <2>1, <2>4, ExtendsIs DEF SameRead
    <3>3. ReadOf(src, r) = ReadOf(src, u)
      BY <1>1, <1>7, <2>1, <3>2, ReadStays DEF Laid
    <3>4. Laid(src, r)
      BY <1>7, <2>1, <3>1 DEF Laid, CopyTells
    <3>5. StepsClose(src, tok, u, r)
      BY <1>3, <2>1, <2>3, <2>4, <3>3 DEF StepsClose, ReadsNone, t
    <3> QED BY <3>4, <3>5 DEF Taken, Steps
  <2>5. CASE r.checked = CheckedWith(u) /\ u.copy /\ u.list # <<>>
    <3>1. Known(r)
      <4> DEFINE c == [tag |-> u.tag, list |-> u.list]
                 n == Len(u.checked)
      <4>1. /\ Len(r.checked) = n + 1 /\ r.checked[n + 1] = c
            /\ \A i \in 1..n : r.checked[i] = u.checked[i]
        BY <1>1, <2>5 DEF CheckedWith
      <4>2. c.list = u.list
        OBVIOUS
      <4> HIDE DEF c
      <4>3. \A i \in 1..Len(r.checked) : i \in 1..n \/ i = n + 1
        BY <1>1, <4>1
      <4>4. \A i \in 1..n : KnownIn(u.checked[i].list, u.prots)
        BY DEF Laid, Known
      <4>5. \A i \in 1..Len(r.checked) : KnownIn(r.checked[i].list, r.prots)
        BY <1>2, <2>1, <4>1, <4>2, <4>3, <4>4
      <4> QED BY <2>1, <2>2, <4>5 DEF Known
    <3>2. ReadOf(src, r) = Append(ReadOf(src, u), Reading(0, "tag", u.tag, s))
      BY <1>1, <1>7, <2>1, <2>5, <3>1, StreamGrows DEF Laid, s
    <3>3. Laid(src, r)
      BY <1>7, <2>1, <3>1 DEF Laid, CopyTells
    <3>4. TagReading(src, t, Len(u.open)) = Reading(0, "tag", u.tag, s)
      BY <1>3, <1>4, <1>7, <2>5 DEF TagReading
    <3>5. StepsClose(src, tok, u, r)
      BY <1>3, <2>1, <2>3, <2>5, <3>2, <3>4 DEF StepsClose, ReadsMore, t
    <3> QED BY <3>3, <3>5 DEF Taken, Steps
  <2> QED BY <1>7, <2>4, <2>5
<1>8. CASE /\ src # "FILE" /\ u.copy /\ u.list # <<>> /\ Sound(r)
           /\ r.nodes = u.nodes /\ r.checked = CheckedWith(u) /\ r.prots = u.prots
           /\ r.state \in {"dead", "reset"}
  <2>1. Known(r)
    <3> DEFINE c == [tag |-> u.tag, list |-> u.list]
               n == Len(u.checked)
    <3>1. /\ Len(r.checked) = n + 1 /\ r.checked[n + 1] = c
          /\ \A i \in 1..n : r.checked[i] = u.checked[i]
      BY <1>1, <1>8 DEF CheckedWith
    <3>2. c.list = u.list
      OBVIOUS
    <3> HIDE DEF c
    <3>3. \A i \in 1..Len(r.checked) : i \in 1..n \/ i = n + 1
      BY <1>1, <3>1
    <3>4. \A i \in 1..n : KnownIn(u.checked[i].list, u.prots)
      BY DEF Laid, Known
    <3>5. \A i \in 1..Len(r.checked) : KnownIn(r.checked[i].list, r.prots)
      BY <1>2, <1>8, <3>1, <3>2, <3>3, <3>4
    <3>6. \A i \in 1..Len(r.nodes) : KnownIn(r.nodes[i].prot, r.prots)
      BY <1>8 DEF Laid, Known
    <3>7. r.state \notin Lists
      BY <1>8 DEF Lists
    <3> QED BY <3>5, <3>6, <3>7 DEF Known
  <2>2. ReadOf(src, r) = Append(ReadOf(src, u), Reading(0, "tag", u.tag, s))
    BY <1>1, <1>8, <2>1, StreamGrows DEF Laid, Sound, s
  <2>3. TagReading(src, t, 0) = Reading(0, "tag", u.tag, s)
    BY <1>3, <1>4, <1>8 DEF TagReading
  <2>4. StepsStop(src, u, r)
    BY <1>8, <2>2, <2>3 DEF StepsStop, ReadsMore, InTagStates, t
  <2> QED BY <1>8, <2>4 DEF Taken, Steps, Reads, InTagStates
<1>9. CASE r # Aborted(u)
  <2>1. Sound(r)
    BY <1>9
  <2>2. \/ /\ src = "FILE" /\ Opens(u, r, Len(u.nodes) + 1)
           /\ r.nodes = NodesWith(u, TagNode(u)) /\ r.checked = u.checked
        \/ /\ src # "FILE" /\ ~(u.copy /\ u.list # <<>>) /\ Opens(u, r, 0)
           /\ r.nodes = u.nodes /\ r.checked = u.checked
        \/ /\ src # "FILE" /\ u.copy /\ u.list # <<>>
           /\ r.nodes = u.nodes /\ r.checked = CheckedWith(u)
           /\ \/ Opens(u, r, 0)
              \/ r.state \in {"dead", "reset"} /\ r.prots = u.prots
    BY <1>1, <1>9, TagBegunCases
  <2> QED BY <1>6, <1>7, <1>8, <2>1, <2>2
<1> QED BY <1>5, <1>9

LEMMA ErrorTakes ==
  ASSUME NEW src, NEW tok, NEW u, Sound(u), Laid(src, u), ~Lawful(u, tok.sym),
         NEW r, r = InState(u, "error")
  PROVE  Taken(src, tok, u, r)
<1>1. r = [u EXCEPT !.state = "error"] /\ "error" \in States \ InTagStates
  BY DEF InState, States, InTagStates
<1>2. r.state = "error" /\ ReadOf(src, r) = ReadOf(src, u)
  BY <1>1, StateStays
<1>3. StepsRefuse(src, tok, u, r)
  BY <1>2 DEF StepsRefuse, ReadsNone
<1> QED BY <1>2, <1>3 DEF Taken, Steps, Reads, InTagStates

LEMMA ShiftedTakes ==
  ASSUME NEW src, NEW tok \in Tokens, NEW u, Sound(u), Reads(u), Laid(src, u),
         u.state = "named" => tok.sym = "=", NEW r \in Shifted(src, u, tok)
  PROVE  Taken(src, tok, u, r)
<1>1. u \in Parsers /\ Sound(r)
  BY ShiftedSound DEF Sound
<1>2. CASE u.state = "doc" /\ tok.sym = "text" /\ r \in TextRead(src, u, tok.text)
  BY <1>2, TextTakes
<1>3. CASE /\ u.state = "doc" /\ tok.sym \in {"<", "</"} /\ (tok.sym = "</" => u.open # <<>>)
           /\ r = Beginning(u, tok.sym)
  BY <1>1, <1>3, BeginTakes
<1>4. CASE u.state = "doc" /\ tok.sym = "end" /\ r = DocumentEnded(src, u)
  BY <1>1, <1>4, DocumentTakes
<1>5. CASE u.state = "name" /\ tok.sym = "name" /\ r = NameRead(src, u, tok.text)
  BY <1>1, <1>5, NameTakes
<1>6. CASE u.state = "list" /\ tok.sym = "name" /\ r = NamedAs(u, tok.text)
  BY <1>1, <1>6, NamedTakes
<1>7. CASE u.state = "named" /\ tok.sym = "=" /\ r = InState(u, "value")
  BY <1>1, <1>7, EqualTakes
<1>8. CASE u.state = "value" /\ tok.sym = "text" /\ r \in ValueRead(src, u, tok.text)
  BY <1>8, ValueTakes
<1>9. CASE u.state = "list" /\ tok.sym = ">" /\ u.end /\ r = TagEnded(src, u)
  BY <1>1, <1>9, EndTakes
<1>10. CASE u.state = "list" /\ tok.sym = ">" /\ ~u.end /\ r \in TagBegun(src, u)
  BY <1>1, <1>10, OpenTakes
<1>11. CASE r = InState(u, "error") /\ ~Fits(u, tok.sym)
  <2>1. Len(u.open) > 0 => u.open # <<>>
    OBVIOUS
  <2>2. ~Lawful(u, tok.sym)
    BY <1>11, <2>1 DEF Lawful, Fits
  <2> QED BY <1>11, <2>2, ErrorTakes
<1> QED BY <1>1, <1>2, <1>3, <1>4, <1>5, <1>6, <1>7, <1>8, <1>9, <1>10, <1>11, ShiftedCases

\* A name without "=" may as well be in the list already.
LEMMA NamedSteps ==
  ASSUME NEW src, NEW tok, NEW q, NEW u, NEW r, q.state = "named", u.state = "list",
         tok.sym # "=", u.open = q.open,
         ReadOf(src, u) = ReadOf(src, q), TagOf(src, u) = TagOf(src, q), Steps(src, tok, u, r)
  PROVE  Steps(src, tok, q, r)
<1>1. CASE StepsProperty(src, tok, u, r)
  BY <1>1 DEF Steps, StepsProperty, Deep, ReadsNone
<1>2. CASE StepsClose(src, tok, u, r)
  BY <1>2 DEF Steps, StepsClose, ReadsNone, ReadsMore
<1>3. CASE StepsRefuse(src, tok, u, r)
  BY <1>3 DEF Steps, StepsRefuse, Lawful, ReadsNone
<1>4. CASE StepsStop(src, u, r)
  BY <1>4 DEF Steps, StepsStop, ReadsNone, ReadsMore, InTagStates
<1> QED BY <1>1, <1>2, <1>3, <1>4
        DEF Steps, StepsText, StepsBegin, StepsName, StepsEqual, StepsValue, StepsEnd

\* Each token is taken as HtmlDocument takes it.
LEMMA PushedTakes ==
  ASSUME NEW src, NEW tok \in Tokens, NEW q, Sound(q), Reads(q), Laid(src, q),
         NEW r \in Pushed(src, q, tok)
  PROVE  Taken(src, tok, q, r)
<1>1. PICK u \in IF tok.sym = "=" THEN {q} ELSE Unvalued(src, q) :
           \/ u.state = "nomem" /\ r = u
           \/ u.state # "nomem" /\ r = Aborted(u)
           \/ u.state # "nomem" /\ r \in Shifted(src, u, tok)
  BY PushedCases DEF Sound
<1>2. q.state # "nomem" /\ q \in Parsers
  BY DEF Reads, InTagStates, Sound
<1>3. CASE u.state = "nomem"
  <2>1. u \in Unvalued(src, q)
    BY <1>1, <1>2, <1>3
  <2>2. u # NewProt(q, NULL, q.strings)
    BY <1>2, <1>3 DEF NewProt, Parsers
  <2>3. u # [q EXCEPT !.state = "list"]
    BY <1>2, <1>3 DEF Parsers
  <2>4. u = Aborted(q)
    BY <1>2, <1>3, <2>1, <2>2, <2>3, UnvaluedCases
  <2> QED BY <1>1, <1>3, <2>4, AbortTakes
<1>4. CASE u = q
  <2>1. tok.sym # "=" => q.state # "named"
    <3> SUFFICES ASSUME tok.sym # "=", q.state = "named" PROVE FALSE
      OBVIOUS
    <3>1. q \in Unvalued(src, q)
      BY <1>1, <1>4
    <3> QED BY <1>2, <3>1, UnvaluedReads
  <2>2. r = Aborted(q) \/ r \in Shifted(src, q, tok)
    BY <1>1, <1>2, <1>4
  <2> QED BY <2>1, <2>2, AbortTakes, ShiftedTakes
<1>5. CASE u.state # "nomem" /\ u # q
  <2>1. u \in Unvalued(src, q) /\ tok.sym # "="
    BY <1>1, <1>5
  <2>2. q.state = "named" /\ u.state = "list"
    BY <1>2, <1>5, <2>1, UnvaluedCases, UnvaluedReads
  <2>3. /\ Sound(u) /\ Reads(u) /\ Laid(src, u) /\ u.open = q.open
        /\ ReadOf(src, u) = ReadOf(src, q) /\ TagOf(src, u) = TagOf(src, q)
    BY <1>5, <2>1, UnvaluedTells DEF SameTree
  <2>4. r = Aborted(u) \/ r \in Shifted(src, u, tok)
    BY <1>1, <1>5
  <2>5. Taken(src, tok, u, r)
    BY <2>2, <2>3, <2>4, AbortTakes, ShiftedTakes
  <2>6. Steps(src, tok, q, r)
    BY <2>1, <2>2, <2>3, <2>5, NamedSteps DEF Taken
  <2> QED BY <2>5, <2>6 DEF Taken
<1> QED BY <1>3, <1>4, <1>5

-----------------------------------------------------------------------------
(* The scanner of the whole document is the same                           *)

LEMMA SameMatches ==
  ASSUME NEW r, NEW s
  PROVE  Whole!Matches(r, s) <=> Matches(r, s)
BY DEF Matches, Literal, AllIn, Chars, NameChars, Framed, Between, Last,
       Whole!Matches, Whole!Literal, Whole!AllIn, Whole!Chars, Whole!NameChars,
       Whole!Framed, Whole!Between, Whole!Last

LEMMA SameTokens ==
  ASSUME NEW c, NEW r, NEW s
  PROVE  Whole!TokenOf(c, r, s) = TokenOf(c, r, s) /\ Whole!After(c, r) = After(c, r)
<1>1. Whole!TokenOf(c, r, s) = TokenOf(c, r, s)
  BY DEF TokenOf, NoToken, Whole!TokenOf, Whole!NoToken
<1>2. Whole!After(c, r) = After(c, r)
  BY DEF After, Whole!After
<1> QED BY <1>1, <1>2

LEMMA SameRules ==
  ASSUME NEW c
  PROVE  Whole!RuleSet(c) = RuleSet(c) /\ Whole!Rules = Rules
BY DEF RuleSet, Whole!RuleSet, Rules, Whole!Rules, ToSet, Whole!ToSet

WholeFits(c, s, n) == {r \in Whole!RuleSet(c) : Whole!Matches(r, SubSeq(s, 1, n))}
WholeLens(c, s) == {n \in 1..Len(s) : WholeFits(c, s, n) # {}}
WholeFirst(c, fits) ==
  Whole!Rules[c][Whole!Min({i \in DOMAIN Whole!Rules[c] : Whole!Rules[c][i] \in fits})]
WholeScanned(c, rule, u, len) ==
  [rule |-> rule, taken |-> IF rule = "stop" THEN 0 ELSE len, cond |-> Whole!After(c, rule),
   token |-> Whole!TokenOf(c, rule, u)]

LEMMA SameScan ==
  ASSUME NEW c, NEW s
  PROVE  Whole!Scan(c, s) = Scan(c, s)
<1>1. ASSUME NEW n
      PROVE  WholeFits(c, s, n) = FitsAt(c, s, n)
  BY SameMatches, SameRules DEF WholeFits, FitsAt
<1>2. WholeLens(c, s) = FitLens(c, s)
  BY <1>1 DEF WholeLens, FitLens
<1>3. \A x : Whole!Max(x) = Max(x) /\ Whole!Min(x) = Min(x)
  BY DEF Max, Min, Whole!Max, Whole!Min
<1>4. \A fits : WholeFirst(c, fits) = FirstOf(c, fits)
  BY <1>3, SameRules DEF WholeFirst, FirstOf
<1>5. \A rule, u, len : WholeScanned(c, rule, u, len) = Scanned(c, rule, u, len)
  BY SameTokens DEF WholeScanned, Scanned
<1> DEFINE wlen == Whole!Max(WholeLens(c, s))
           len == Max(FitLens(c, s))
<1>6. Whole!Scan(c, s) =
        WholeScanned(c, WholeFirst(c, WholeFits(c, s, wlen)), SubSeq(s, 1, wlen), wlen)
  BY DEF Whole!Scan, WholeScanned, WholeFirst, WholeFits, WholeLens
<1>7. Scan(c, s) = Scanned(c, FirstOf(c, FitsAt(c, s, len)), SubSeq(s, 1, len), len)
  BY ScanIsScanned
<1>8. wlen = len
  BY <1>2, <1>3
<1> HIDE DEF wlen, len
<1>9. WholeFits(c, s, len) = FitsAt(c, s, len)
  BY <1>1
<1> QED BY <1>4, <1>5, <1>6, <1>7, <1>8, <1>9

-----------------------------------------------------------------------------
(* The decoder implements HtmlDocument                                     *)

\* What is read is known of a parser that still reads or has read everything.
ReadInv == Inv /\ (Reads(p) \/ p.state = "accepted" => Laid(source, p))

LEMMA StartLaid ==
  ASSUME NEW src
  PROVE  Laid(src, Start) /\ ReadOf(src, Start) = <<>>
<1>1. /\ Start \in Parsers /\ Stacked(Start) /\ Start.nodes = <<>> /\ Start.checked = <<>>
      /\ Start.open = <<>> /\ Start.root = <<>> /\ Start.docs = << <<>> >>
      /\ Start.state = "doc" /\ Start.copy = FALSE
  BY StartTypes DEF Start
<1>2. Len(Start.nodes) = 0 /\ Len(Start.checked) = 0 /\ Len(Start.open) = 0
  BY <1>1
<1>3. Known(Start) /\ CopyTells(src, Start)
  BY <1>1, <1>2 DEF Known, CopyTells, Lists
<1> DEFINE d == [i \in 0..0 |-> 0]
           g == [i \in 1..0 |-> 0]
<1>4. Forest(Start, d, g)
  <2>1. Heights(0, d, g)
    BY DEF Heights
  <2>2. OpenedOnce(Start) /\ Opened(Start, d)
    BY <1>2 DEF Opened, OpenedOnce
  <2>3. Kids(Start, 0) = <<>>
    <3>1. 0 \in 0..Len(Start.open) /\ ~(0 < Len(Start.open)) /\ Start.docs[0 + 1] = <<>>
      BY <1>1, <1>2
    <3>2. Children(Start, 0) = <<>>
      BY <1>1, <3>1, ChildrenIs
    <3>3. <<>> \o <<>> = <<>>
      OBVIOUS
    <3> QED BY <1>1, <3>2, <3>3 DEF Kids
  <2>4. HangsFrom(0, Kids(Start, 0), 0, g)
    BY <2>3 DEF HangsFrom
  <2>5. Hung(Start, g)
    BY <1>2, <2>4 DEF Hung
  <2> QED BY <1>2, <2>1, <2>2, <2>5 DEF Forest
<1>5. Laid(src, Start)
  BY <1>3, <1>4 DEF Laid
<1>6. ReadOf(src, Start) = <<>>
  <2>1. CASE src = "FILE"
    <3>1. ReadOf(src, Start) \in Seq(Readings) /\ Len(ReadOf(src, Start)) = 0
      BY <1>1, <1>2, <1>3, <1>4, <2>1, FileIs
    <3> QED BY <3>1
  <2>2. CASE src # "FILE"
    <3>1. ReadOf(src, Start) \in Seq(Readings) /\ Len(ReadOf(src, Start)) = 0
      BY <1>1, <1>2, <1>3, <2>2, StreamIs
    <3> QED BY <3>1
  <2> QED BY <2>1, <2>2
<1> QED BY <1>5, <1>6

LEMMA InitWhole == Init => ReadInv /\ Whole!Init
<1> SUFFICES ASSUME Init PROVE ReadInv /\ Whole!Init
  OBVIOUS
<1>1. /\ doc \in Documents /\ source \in {"FILE", "STREAM"} /\ rest = doc
      /\ last_string = <<>> /\ buf = <<>> /\ cond = "INITIAL" /\ p = Start /\ phase = "idle"
  BY DEF Init
<1>2. Inv /\ Laid(source, p) /\ ReadOf(source, p) = <<>>
  BY <1>1, InitInv, StartLaid
<1>3. At = 0
  <2>1. Len(doc) \in Nat
    BY <1>2 DEF Inv, Types, Texts
  <2>2. Len(rest) = Len(doc) /\ Len(last_string) = 0 /\ Len(buf) = 0
    BY <1>1
  <2> QED BY <2>1, <2>2 DEF At
<1>4. p.state = "doc" /\ p.open = <<>>
  BY <1>1 DEF Start
<1>5. ~Stopped
  BY <1>1, <1>4 DEF Stopped
<1>6. Stage = "doc" /\ OpenTags = 0 /\ TagRead = Whole!NoTag
  BY <1>4, <1>5 DEF Stage, OpenTags, TagRead, InTagStates, Whole!NoTag
<1> QED BY <1>1, <1>2, <1>3, <1>6 DEF ReadInv, Whole!Init

\* A parser that reads is where HtmlDocument is.
LEMMA ReadingIs ==
  ASSUME Inv, Reads(p), phase \in {"idle", "scanning"}
  PROVE  /\ Stage = p.state /\ OpenTags = Len(p.open) /\ Stage \in Whole!Reading
         /\ p.state \in InTagStates => TagRead = TagOf(source, p)
         /\ p.state = "doc" => TagRead = Whole!NoTag
<1>1. ~Stopped /\ p.state # "error"
  BY DEF Stopped, Reads, InTagStates
<1>2. Stage = p.state /\ OpenTags = Len(p.open)
  BY <1>1 DEF Stage, OpenTags
<1>3. /\ p.state \in InTagStates => TagRead = TagOf(source, p)
      /\ p.state = "doc" => TagRead = Whole!NoTag
  BY <1>1 DEF TagRead, Whole!NoTag, InTagStates
<1> QED BY <1>2, <1>3 DEF Whole!Reading, Reads, InTagStates

Remains == SubSeq(doc, At + 1, Len(doc))
LEMMA RemainsIs ==
  ASSUME Inv, last_string = <<>>
  PROVE  Remains = buf \o rest
<1>1. /\ Len(doc) \in Nat /\ Len(rest) \in Nat /\ Len(buf) \in Nat /\ At \in Nat
      /\ Len(last_string) = 0 /\ doc \in Texts /\ buf \in Texts /\ rest \in Texts
  BY TextLengths DEF Inv, Types
<1>2. Len(doc) = At + Len(buf) + Len(rest)
  BY <1>1 DEF At
<1>3. /\ \A i \in 1..Len(buf) : buf[i] = doc[At + i]
      /\ \A i \in 1..Len(rest) : rest[i] = doc[At + Len(buf) + i]
  BY <1>1 DEF Inv, Placed, Lies
<1> DEFINE w == buf \o rest
           v == Remains
           n == At
<1>4. /\ v \in Texts /\ Len(v) = Len(doc) - n
      /\ \A i \in 1..(Len(doc) - n) : v[i] = doc[n + i]
  <2>1. n \in Nat /\ n <= Len(doc) /\ v = SubSeq(doc, n + 1, Len(doc))
    BY <1>1, <1>2 DEF Remains
  <2> HIDE DEF n, v
  <2> QED BY <1>1, <2>1, SuffixIs DEF Texts
<1>5. /\ w \in Texts /\ Len(w) = Len(buf) + Len(rest)
      /\ \A i \in 1..(Len(buf) + Len(rest)) :
           w[i] = IF i <= Len(buf) THEN buf[i] ELSE rest[i - Len(buf)]
  BY <1>1 DEF Texts
<1> HIDE DEF w, v
<1>6. \A i \in 1..(Len(buf) + Len(rest)) : w[i] = doc[n + i]
  <2> SUFFICES ASSUME NEW i \in 1..(Len(buf) + Len(rest)) PROVE w[i] = doc[n + i]
    OBVIOUS
  <2>1. CASE i <= Len(buf)
    BY <1>1, <1>3, <1>5, <2>1
  <2>2. CASE ~(i <= Len(buf))
    <3>1. i - Len(buf) \in 1..Len(rest) /\ At + Len(buf) + (i - Len(buf)) = n + i
      BY <1>1, <2>2
    <3> QED BY <1>3, <1>5, <2>2, <3>1
  <2> QED BY <2>1, <2>2
<1>7. Len(doc) - n = Len(buf) + Len(rest)
  BY <1>1, <1>2
<1>8. v = w
  <2>1. Len(v) = Len(w) /\ \A i \in 1..Len(v) : v[i] = w[i]
    BY <1>4, <1>5, <1>6, <1>7
  <2> QED BY <1>4, <1>5, <2>1, SeqEqual DEF Texts
<1> QED BY <1>8 DEF v, w

\* A match in the buffer is the one there would be in the whole document.
LEMMA ScanWhole ==
  ASSUME Inv, last_string = <<>>, buf # <<>>, ~Saves(buf)
  PROVE  /\ Whole!Scan(cond, Remains) = Scan(cond, buf)
         /\ At < Len(doc)
<1>1. /\ cond \in Conds /\ buf \in Texts /\ rest \in Texts /\ (last_frag => rest = <<>>)
      /\ ~last_frag => ~Undecided(cond, buf)
  BY DEF Inv, Types, Phases, Saves
<1>2. Remains = buf \o rest
  BY RemainsIs
<1>3. Scan(cond, buf \o rest) = Scan(cond, buf)
  <2>1. CASE last_frag
    <3>1. buf \o <<>> = buf
      BY <1>1, ConcatEmptySeq DEF Texts
    <3> QED BY <1>1, <2>1, <3>1
  <2>2. CASE ~last_frag
    BY <1>1, <2>2, ScanExtends
  <2> QED BY <2>1, <2>2
<1>4. At < Len(doc)
  <2>1. Len(buf) > 0
    BY <1>1 DEF Texts
  <2>2. Len(last_string) = 0
    OBVIOUS
  <2> QED BY <2>1, <2>2, TextLengths DEF At
<1> QED BY <1>2, <1>3, <1>4, SameScan

\* What HtmlDocument sees of a parser that has taken a token.
Outcome(q) ==
  CASE q.state = "dead" -> "dead"
    [] q.state \in {"error", "nomem", "reset"} -> "failed"
    [] q.state = "accepted" -> "idle"
    [] OTHER -> "scanning"

LEMMA OutcomeIs ==
  ASSUME NEW q, p' = q, phase' = Outcome(q), source' = source
  PROVE  /\ Reads(q) => Stage' = q.state /\ OpenTags' = Len(q.open)
         /\ q.state \in InTagStates => TagRead' = TagOf(source, q)
         /\ q.state = "doc" => TagRead' = Whole!NoTag
         /\ q.state = "accepted" =>
              Stage' = "accepted" /\ OpenTags' = Len(q.open) /\ TagRead' = Whole!NoTag
         /\ q.state = "error" => Stage' = "refused" /\ OpenTags' = 0 /\ TagRead' = Whole!NoTag
         /\ q.state \in {"nomem", "reset", "dead"} =>
              Stage' = "stopped" /\ OpenTags' = 0 /\ TagRead' = Whole!NoTag
<1>1. Stopped' <=> q.state \in {"nomem", "reset", "dead"}
  BY DEF Stopped, Outcome, InTagStates
<1>2. Stage' = IF q.state \in {"nomem", "reset", "dead"} THEN "stopped"
               ELSE IF q.state = "error" THEN "refused" ELSE q.state
  BY <1>1 DEF Stage
<1>3. OpenTags' = IF q.state \in {"nomem", "reset", "dead"} \/ q.state = "error" THEN 0
                  ELSE Len(q.open)
  BY <1>1 DEF OpenTags
<1>4. TagRead' = IF q.state \in InTagStates THEN TagOf(source, q) ELSE Whole!NoTag
  BY <1>1 DEF TagRead, InTagStates, Whole!NoTag
<1> QED BY <1>2, <1>3, <1>4 DEF Reads, InTagStates

\* Giving up reads nothing more, or of a stream the tag that is being read.
StopsWhole ==
  /\ Stage' = "stopped" /\ OpenTags' = 0 /\ TagRead' = Whole!NoTag
  /\ \/ UNCHANGED ReadOf(source, p)
     \/ source = "STREAM" /\ Whole!Adds("tag", TagRead.name, TagRead.prots)

LEMMA TakeIs ==
  ASSUME Inv, phase = "scanning", NEW tok \in Tokens, NEW q, Taken(source, tok, p, q),
         p' = q, phase' = Outcome(q), source' = source
  PROVE  Whole!Take(tok) \/ StopsWhole
<1>0. Reads(p) /\ source \in {"FILE", "STREAM"} /\ Steps(source, tok, p, q)
  BY DEF Inv, Phases, Types, Taken
<1>1. /\ Stage = p.state /\ OpenTags = Len(p.open)
      /\ p.state \in InTagStates => TagRead = TagOf(source, p)
      /\ p.state = "doc" => TagRead = Whole!NoTag
  BY <1>0, ReadingIs
<1>2. /\ Reads(q) => Stage' = q.state /\ OpenTags' = Len(q.open)
      /\ q.state \in InTagStates => TagRead' = TagOf(source, q)
      /\ q.state = "doc" => TagRead' = Whole!NoTag
      /\ q.state = "accepted" =>
           Stage' = "accepted" /\ OpenTags' = Len(q.open) /\ TagRead' = Whole!NoTag
      /\ q.state = "error" => Stage' = "refused" /\ OpenTags' = 0 /\ TagRead' = Whole!NoTag
      /\ q.state \in {"nomem", "reset", "dead"} =>
           Stage' = "stopped" /\ OpenTags' = 0 /\ TagRead' = Whole!NoTag
  BY OutcomeIs
<1>3. /\ ReadsNone(source, p, q) => UNCHANGED ReadOf(source, p)
      /\ \A x : ReadsMore(source, p, q, x) => ReadOf(source, p)' = Append(ReadOf(source, p), x)
  BY DEF ReadsNone, ReadsMore
<1>4. \A kind, what, prots :
        Whole!Adds(kind, what, prots) <=>
          ReadOf(source, p)' = Append(ReadOf(source, p),
            Reading(IF source = "FILE" THEN OpenTags ELSE 0, kind, what, prots))
  BY DEF Whole!Adds, Reading
<1>5. CASE StepsText(source, tok, p, q)
  BY <1>1, <1>2, <1>3, <1>4, <1>5 DEF StepsText, Deep, Whole!Take, Whole!Text, Reads
<1>6. CASE StepsBegin(source, tok, p, q)
  BY <1>1, <1>2, <1>3, <1>6 DEF StepsBegin, Deep, Whole!Take, Whole!Begin, Reads, InTagStates
<1>7. CASE StepsName(source, tok, p, q)
  BY <1>1, <1>2, <1>3, <1>7 DEF StepsName, Deep, Whole!Take, Whole!Name, Reads, InTagStates
<1>8. CASE StepsProperty(source, tok, p, q)
  BY <1>1, <1>2, <1>3, <1>8
     DEF StepsProperty, PropertyAdded, Deep, Whole!Take, Whole!Property, Reads, InTagStates
<1>9. CASE StepsEqual(source, tok, p, q)
  BY <1>1, <1>2, <1>3, <1>9 DEF StepsEqual, Deep, Whole!Take, Whole!Equal, Reads, InTagStates
<1>10. CASE StepsValue(source, tok, p, q)
  BY <1>1, <1>2, <1>3, <1>10
     DEF StepsValue, ValueAdded, Deep, Whole!Take, Whole!Value, Reads, InTagStates
<1>11. CASE StepsClose(source, tok, p, q)
  BY <1>1, <1>2, <1>3, <1>4, <1>11
     DEF StepsClose, TagReported, TagReading, Whole!Take, Whole!Close, Reads, InTagStates
<1>12. CASE StepsEnd(source, tok, p, q)
  BY <1>1, <1>2, <1>3, <1>12 DEF StepsEnd, Whole!Take, Whole!End, Reads, InTagStates
<1>13. CASE StepsRefuse(source, tok, p, q)
  <2>1. ~Whole!Legal(tok.sym)
    BY <1>0, <1>1, <1>13 DEF StepsRefuse, Lawful, Whole!Legal, Reads, InTagStates
  <2> QED BY <1>2, <1>3, <1>13, <2>1 DEF StepsRefuse, Whole!Take, Whole!Refuse
<1>14. CASE StepsStop(source, p, q)
  BY <1>0, <1>1, <1>2, <1>3, <1>4, <1>14 DEF StepsStop, StopsWhole, TagReading
<1> QED BY <1>0, <1>5, <1>6, <1>7, <1>8, <1>9, <1>10, <1>11, <1>12, <1>13, <1>14 DEF Steps

LEMMA AtGrows ==
  ASSUME Inv, Inv', doc' = doc, At' >= At
  PROVE  At' \in At..Len(doc)
<1>1. /\ Len(doc') \in Nat /\ Len(rest') \in Nat /\ Len(last_string') \in Nat /\ Len(buf') \in Nat
      /\ At' \in Nat
  <2>1. /\ Len(doc') \in Nat /\ Len(rest') \in Nat /\ Len(last_string') \in Nat /\ Len(buf') \in Nat
    BY DEF Inv, Types, Texts
  <2> QED BY <2>1 DEF Inv, Placed, At
<1>2. At' <= Len(doc')
  BY <1>1 DEF At
<1>3. At \in Nat
  BY TextLengths
<1>4. Len(doc') = Len(doc)
  OBVIOUS
<1> QED BY <1>1, <1>2, <1>3, <1>4

LEMMA GiveUpIs ==
  ASSUME Inv, Inv', Stage \in Whole!Reading, StopsWhole, At' >= At, UNCHANGED <<doc, source>>
  PROVE  Whole!Next
<1>1. At' \in At..Len(doc)
  BY AtGrows
<1>2. cond' \in DOMAIN Whole!Rules
  BY SameRules DEF Inv, Types, Conds
<1> QED BY <1>1, <1>2 DEF Whole!Next, Whole!GiveUp, StopsWhole

\* Where the decoder goes on with the parser as it is, nothing changes.
SameView == UNCHANGED <<Stage, OpenTags, TagRead, ReadOf(source, p)>>

LEMMA SameParser ==
  ASSUME p' = p, source' = source, Stopped' <=> Stopped
  PROVE  SameView
BY DEF SameView, Stage, OpenTags, TagRead

LEMMA Stutters ==
  ASSUME SameView, At' = At, UNCHANGED <<doc, source, cond>>
  PROVE  UNCHANGED Whole!vars
BY DEF SameView, Whole!vars

LEMMA StopsHere ==
  ASSUME p' = p, source' = source, Stopped'
  PROVE  StopsWhole
<1>1. Stage' = "stopped" /\ OpenTags' = 0 /\ TagRead' = Whole!NoTag
  BY DEF Stage, OpenTags, TagRead, Whole!NoTag
<1> QED BY <1>1 DEF StopsWhole

\* A token but the end of one part of a document that goes on.
LEMMA PushIs ==
  ASSUME ReadInv, phase = "scanning", NEW tok \in Tokens, Push(tok), source' = source,
         tok.sym = "end" => last_frag
  PROVE  /\ Whole!Take(tok) \/ StopsWhole
         /\ (Reads(p) \/ p.state = "accepted" => Laid(source, p))'
<1>1. Inv /\ Sound(p) /\ Reads(p) /\ Laid(source, p)
  BY DEF ReadInv, Inv, Phases
<1>2. PICK q \in Pushed(source, p, tok) :
    /\ p' = IF q.state = "accepted" /\ ~last_frag THEN [q EXCEPT !.state = "doc"] ELSE q
    /\ phase' = Outcome(q)
  BY DEF Push, Outcome
<1>3. q.state = "accepted" => tok.sym = "end"
  BY <1>1, PushedState
<1>4. p' = q
  BY <1>2, <1>3
<1>5. Taken(source, tok, p, q)
  BY <1>1, PushedTakes
<1>6. Whole!Take(tok) \/ StopsWhole
  BY <1>1, <1>2, <1>4, <1>5, TakeIs
<1>7. Reads(q) \/ q.state = "accepted" => Laid(source, q)
  BY <1>5 DEF Taken
<1> QED BY <1>4, <1>6, <1>7

\* The end of one that does go on, before anything of the rest has come: the
\* parser has nothing open and begins anew.
LEMMA RestartIs ==
  ASSUME ReadInv, phase = "scanning", buf = <<>>, ~last_frag, Push(EndToken), source' = source
  PROVE  /\ SameView \/ StopsWhole
         /\ (Reads(p) \/ p.state = "accepted" => Laid(source, p))'
<1>1. /\ Inv /\ Sound(p) /\ Reads(p) /\ Laid(source, p) /\ p.state = "doc" /\ p.open = <<>>
      /\ source \in {"FILE", "STREAM"}
  BY DEF ReadInv, Inv, Phases, AtStart, Types
<1>2. EndToken \in Tokens /\ EndToken.sym = "end"
  BY DEF EndToken, Tokens, Texts
<1>3. PICK q \in Pushed(source, p, EndToken) :
    /\ p' = IF q.state = "accepted" /\ ~last_frag THEN [q EXCEPT !.state = "doc"] ELSE q
    /\ phase' = Outcome(q)
  BY DEF Push, Outcome
<1>4. Taken(source, EndToken, p, q) /\ Sound(q) /\ q.state \in {"accepted", "nomem"}
  BY <1>1, <1>2, EndStops, PushedTakes, PushedSound
<1>5. CASE q.state = "nomem"
  <2>1. p' = q
    BY <1>3, <1>5
  <2>2. Whole!Take(EndToken) \/ StopsWhole
    BY <1>1, <1>2, <1>3, <1>4, <2>1, TakeIs
  <2>3. Stage' = "stopped"
    BY <1>3, <1>5, <2>1, OutcomeIs
  <2>4. Stage = "doc" /\ Stage' # "accepted" /\ Stage' # "refused"
    BY <1>1, <2>3, ReadingIs
  <2>5. ~Whole!Take(EndToken)
    BY <1>2, <2>4 DEF Whole!Take, Whole!Text, Whole!Begin, Whole!Name, Whole!Property,
       Whole!Equal, Whole!Value, Whole!Close, Whole!End, Whole!Refuse
  <2>6. ~Reads(p') /\ p'.state # "accepted"
    BY <1>5, <2>1 DEF Reads, InTagStates
  <2> QED BY <2>2, <2>5, <2>6
<1>6. CASE q.state = "accepted"
  <2>1. p' = [q EXCEPT !.state = "doc"] /\ phase' = "idle"
    BY <1>3, <1>6 DEF Outcome
  <2>2. Laid(source, q) /\ q.open = <<>>
    BY <1>1, <1>2, <1>4, <1>6, PushedState DEF Taken
  <2>3. ReadOf(source, q) = ReadOf(source, p)
    <3>1. \/ StepsEnd(source, EndToken, p, q) \/ StepsRefuse(source, EndToken, p, q)
          \/ StepsStop(source, p, q)
      BY <1>1, <1>2, <1>4, <1>6 DEF Taken, Steps, StepsText, StepsBegin, StepsName,
         StepsProperty, StepsEqual, StepsValue, StepsClose
    <3> QED BY <1>6, <3>1 DEF StepsEnd, StepsRefuse, StepsStop, ReadsNone
  <2>4. "doc" \in States \ InTagStates
    BY DEF States, InTagStates
  <2>5. source = "FILE" \/ ~q.copy
    BY <1>1, <1>6, <2>2 DEF Laid, CopyTells, Lists
  <2>6. /\ p'.state = "doc" /\ p'.open = <<>> /\ ReadOf(source, p') = ReadOf(source, q)
        /\ Laid(source, p')
    BY <1>4, <2>1, <2>2, <2>4, <2>5, StateStays
  <2>7. ~Stopped'
    BY <2>1, <2>6 DEF Stopped
  <2>8. Stage' = "doc" /\ OpenTags' = Len(p.open) /\ TagRead' = Whole!NoTag
    BY <1>1, <2>6, <2>7 DEF Stage, OpenTags, TagRead, InTagStates, Whole!NoTag
  <2>9. Stage = "doc" /\ OpenTags = Len(p.open) /\ TagRead = Whole!NoTag
    BY <1>1, ReadingIs
  <2>10. ReadOf(source, p)' = ReadOf(source, p)
    BY <2>3, <2>6
  <2> QED BY <2>6, <2>8, <2>9, <2>10 DEF SameView
<1> QED BY <1>4, <1>5, <1>6

LEMMA DeliverWhole ==
  ASSUME ReadInv, NEW n \in 0..Len(rest), NEW last \in BOOLEAN, Deliver(n, last)
  PROVE  ReadInv' /\ UNCHANGED Whole!vars
<1>1. Inv /\ Inv' /\ At' = At
  BY DeliverInv DEF ReadInv
<1>2. p' = p /\ UNCHANGED <<doc, source, cond>> /\ phase = "idle" /\ phase' = "scanning"
  BY DEF Deliver
<1>3. Stopped' <=> Stopped
  BY <1>2 DEF Stopped
<1>4. UNCHANGED Whole!vars
  BY <1>1, <1>2, <1>3, SameParser, Stutters
<1> QED BY <1>1, <1>2, <1>4 DEF ReadInv

LEMMA DeliverFailedWhole ==
  ASSUME ReadInv, DeliverFailed, Inv'
  PROVE  ReadInv' /\ Whole!Next
<1>1. /\ Inv /\ p' = p /\ phase = "idle" /\ phase' = "failed" /\ ~last_frag
      /\ UNCHANGED <<doc, source, rest, last_string, buf>>
  BY DEF DeliverFailed, ReadInv
<1>2. Reads(p) /\ At \in Nat
  BY <1>1, TextLengths DEF Inv, Phases
<1>3. At' = At
  BY <1>1 DEF At
<1>4. Stage \in Whole!Reading
  BY <1>1, <1>2, ReadingIs
<1>5. Stopped'
  BY <1>1, <1>2 DEF Stopped, Reads
<1>6. StopsWhole
  BY <1>1, <1>5, StopsHere
<1>7. Whole!Next
  BY <1>1, <1>2, <1>3, <1>4, <1>6, GiveUpIs
<1> QED BY <1>1, <1>7 DEF ReadInv

LEMMA SaveWhole ==
  ASSUME ReadInv, Save
  PROVE  ReadInv' /\ UNCHANGED Whole!vars
<1>1. Inv /\ Inv' /\ At' = At
  BY SaveInv DEF ReadInv
<1>2. p' = p /\ UNCHANGED <<doc, source, cond>> /\ phase = "scanning" /\ phase' = "idle"
  BY DEF Save
<1>3. Stopped' <=> Stopped
  BY <1>2 DEF Stopped
<1>4. UNCHANGED Whole!vars
  BY <1>1, <1>2, <1>3, SameParser, Stutters
<1> QED BY <1>1, <1>2, <1>4 DEF ReadInv

LEMMA LexWhole ==
  ASSUME ReadInv, Lex, Inv'
  PROVE  ReadInv' /\ Whole!Next
<1> DEFINE s == Scan(cond, buf)
<1>1. /\ phase = "scanning" /\ buf # <<>> /\ ~Saves(buf) /\ last_string = <<>> /\ Reads(p)
      /\ UNCHANGED <<doc, source, rest, last_string, last_frag>>
      /\ buf \in Texts /\ cond \in Conds /\ Inv
  BY DEF Lex, ReadInv, Inv, Phases, Types
<1>2. s.taken \in 0..Len(buf) /\ s.cond \in Conds /\ s.token \in Tokens /\ s.token.sym # "end"
  BY <1>1, ScanTypes, ScanToken
<1>3. Len(buf) \in Nat /\ At \in Nat
  BY <1>1, TextLengths DEF Texts
<1>4. Stage \in Whole!Reading
  BY <1>1, ReadingIs
<1>5. CASE s.rule = "stop" /\ fresh
  <2>1. phase' = "dead" /\ UNCHANGED <<buf, cond, fresh, p, live>>
    BY <1>5 DEF Lex
  <2>2. At' = At
    BY <1>1, <2>1 DEF At
  <2>3. StopsWhole
    BY <1>1, <2>1, StopsHere DEF Stopped
  <2>4. Whole!Next
    BY <1>1, <1>3, <1>4, <2>2, <2>3, GiveUpIs
  <2> QED BY <1>1, <2>1, <2>4 DEF ReadInv
<1>6. CASE ~(s.rule = "stop" /\ fresh)
  <2>1. /\ buf' = SubSeq(buf, s.taken + 1, Len(buf)) /\ cond' = s.cond /\ fresh' = FALSE
        /\ IF s.token = NoToken THEN UNCHANGED <<p, phase, live>> ELSE Push(s.token)
    BY <1>6 DEF Lex
  <2> DEFINE n == s.taken
             tok == s.token
  <2>2. n \in Nat /\ n <= Len(buf) /\ Passes(n)
    BY <1>2, <1>3, <2>1 DEF Passes
  <2>3. Whole!Scan(cond, Remains) = s /\ At < Len(doc)
    BY <1>1, ScanWhole
  <2>4. /\ tok \in Tokens /\ tok.sym # "end" /\ cond' = s.cond
        /\ tok = NoToken \/ Push(tok)
        /\ tok = NoToken => UNCHANGED <<p, phase, live>>
    BY <1>2, <2>1
  <2>5. At' = At + n
    BY <1>1, <2>2, ReadPlaced
  <2>6. Whole!NoToken = NoToken
    BY DEF NoToken, Whole!NoToken
  <2>7. CASE tok = NoToken
    <3>1. UNCHANGED <<p, phase>>
      BY <2>4, <2>7
    <3>2. SameView
      BY <1>1, <3>1, SameParser DEF Stopped
    <3>3. Whole!Read
      BY <1>1, <1>4, <2>3, <2>4, <2>5, <2>6, <2>7, <3>2 DEF Whole!Read, Remains, SameView
    <3> QED BY <1>1, <3>1, <3>3 DEF ReadInv, Whole!Next
  <2>8. CASE tok # NoToken
    <3>1. Push(tok)
      BY <2>4, <2>8
    <3>2. /\ Whole!Take(tok) \/ StopsWhole
          /\ (Reads(p) \/ p.state = "accepted" => Laid(source, p))'
      BY <1>1, <2>4, <3>1, PushIs
    <3>3. CASE StopsWhole
      <4>1. At' >= At
        BY <1>3, <2>2, <2>5
      <4>2. Whole!Next
        BY <1>1, <1>4, <3>3, <4>1, GiveUpIs
      <4> QED BY <3>2, <4>2 DEF ReadInv
    <3>4. CASE Whole!Take(tok)
      <4>1. Whole!Read
        BY <1>1, <1>4, <2>3, <2>4, <2>5, <2>6, <2>8, <3>4 DEF Whole!Read, Remains
      <4> QED BY <3>2, <4>1 DEF ReadInv, Whole!Next
    <3> QED BY <3>2, <3>3, <3>4
  <2> QED BY <2>7, <2>8
<1> QED BY <1>5, <1>6

LEMMA LexEndWhole ==
  ASSUME ReadInv, LexEnd, Inv'
  PROVE  ReadInv' /\ (Whole!Next \/ UNCHANGED Whole!vars)
<1>1. /\ phase = "scanning" /\ buf = <<>> /\ last_string = <<>> /\ Push(EndToken)
      /\ UNCHANGED <<doc, source, rest, last_string, buf, fresh, last_frag, cond>>
      /\ Inv /\ Reads(p) /\ (last_frag => rest = <<>>)
  BY DEF LexEnd, ReadInv, Inv, Phases
<1>2. EndToken \in Tokens /\ Whole!EndToken = EndToken
  BY DEF EndToken, Tokens, Texts, Whole!EndToken
<1>3. At' = At /\ At \in Nat /\ Stage \in Whole!Reading
  <2>1. At' = At
    BY <1>1 DEF At
  <2> QED BY <1>1, <2>1, TextLengths, ReadingIs
<1>4. CASE last_frag
  <2>1. /\ Whole!Take(EndToken) \/ StopsWhole
        /\ (Reads(p) \/ p.state = "accepted" => Laid(source, p))'
    BY <1>1, <1>2, <1>4, PushIs
  <2>2. At = Len(doc)
    <3>1. Len(rest) = 0 /\ Len(buf) = 0 /\ Len(last_string) = 0 /\ Len(doc) \in Nat
      BY <1>1, <1>4, TextLengths
    <3> QED BY <3>1 DEF At
  <2>3. CASE Whole!Take(EndToken)
    <3>1. Whole!ReadEnd
      BY <1>1, <1>2, <1>3, <2>2, <2>3 DEF Whole!ReadEnd
    <3> QED BY <2>1, <3>1 DEF ReadInv, Whole!Next
  <2>4. CASE StopsWhole
    <3>1. Whole!Next
      BY <1>1, <1>3, <2>4, GiveUpIs
    <3> QED BY <2>1, <3>1 DEF ReadInv
  <2> QED BY <2>1, <2>3, <2>4
<1>5. CASE ~last_frag
  <2>1. /\ SameView \/ StopsWhole
        /\ (Reads(p) \/ p.state = "accepted" => Laid(source, p))'
    BY <1>1, <1>5, RestartIs
  <2>2. SameView => UNCHANGED Whole!vars
    BY <1>1, <1>3, Stutters
  <2>3. StopsWhole => Whole!Next
    BY <1>1, <1>3, GiveUpIs
  <2> QED BY <2>1, <2>2, <2>3 DEF ReadInv
<1> QED BY <1>4, <1>5

LEMMA FreeWhole ==
  ASSUME ReadInv, Free, Inv'
  PROVE  ReadInv' /\ (Whole!Next \/ UNCHANGED Whole!vars)
<1>1. /\ phase \in {"idle", "failed"} /\ phase' = "freed" /\ p' = p /\ Inv
      /\ UNCHANGED <<doc, source, rest, last_string, buf, fresh, last_frag, cond>>
  BY DEF Free, ReadInv
<1>2. At' = At /\ At \in Nat
  <2>1. At' = At
    BY <1>1 DEF At
  <2> QED BY <1>1, <2>1, TextLengths
<1>3. ReadInv'
  BY <1>1 DEF ReadInv
<1>4. CASE phase = "idle" /\ Reads(p)
  <2>1. Stopped'
    BY <1>1, <1>4 DEF Stopped, Reads
  <2>2. StopsWhole
    BY <1>1, <2>1, StopsHere
  <2>3. Stage \in Whole!Reading
    BY <1>1, <1>4, ReadingIs
  <2> QED BY <1>1, <1>2, <1>3, <2>2, <2>3, GiveUpIs
<1>5. CASE ~(phase = "idle" /\ Reads(p))
  <2>1. Stopped' <=> Stopped
    BY <1>1, <1>5 DEF Stopped, Reads
  <2> QED BY <1>1, <1>2, <1>3, <2>1, SameParser, Stutters
<1> QED BY <1>4, <1>5

LEMMA NextWhole == ReadInv /\ [Next]_vars => ReadInv' /\ [Whole!Next]_(Whole!vars)
<1> SUFFICES ASSUME ReadInv, [Next]_vars PROVE ReadInv' /\ [Whole!Next]_(Whole!vars)
  OBVIOUS
<1>1. Inv'
  BY NextInv DEF ReadInv
<1>2. ASSUME NEW n \in 0..Len(rest), NEW last \in BOOLEAN, Deliver(n, last)
      PROVE  ReadInv' /\ [Whole!Next]_(Whole!vars)
  BY <1>2, DeliverWhole
<1>3. CASE DeliverFailed
  BY <1>1, <1>3, DeliverFailedWhole
<1>4. CASE Save
  BY <1>4, SaveWhole
<1>5. CASE Lex
  BY <1>1, <1>5, LexWhole
<1>6. CASE LexEnd
  BY <1>1, <1>6, LexEndWhole
<1>7. CASE Free
  BY <1>1, <1>7, FreeWhole
<1>8. CASE UNCHANGED vars
  <2>1. p' = p /\ UNCHANGED <<doc, source, rest, last_string, buf, cond, phase>>
    BY <1>8 DEF vars
  <2>2. At' = At /\ (Stopped' <=> Stopped)
    BY <2>1 DEF At, Stopped
  <2>3. UNCHANGED Whole!vars
    BY <2>1, <2>2, SameParser, Stutters
  <2> QED BY <1>1, <2>1, <2>3 DEF ReadInv
<1> QED BY <1>2, <1>3, <1>4, <1>5, <1>6, <1>7, <1>8 DEF Next

\* However a document is cut into fragments, and whatever allocation fails, the
\* decoder reads it as HtmlDocument does with the whole of it: the same nodes at
\* the same depths, the same properties checked, the same documents refused
\* (html.l 8-20, 456-538; html.y 455-709).
THEOREM HtmlImplementsWhole == Spec => ImplementsWhole
<1>1. Init => ReadInv /\ Whole!Init
  BY InitWhole
<1>2. ReadInv /\ [Next]_vars => ReadInv' /\ [Whole!Next]_(Whole!vars)
  BY NextWhole
<1> QED BY <1>1, <1>2, PTL DEF Spec, ImplementsWhole, Whole!Spec

\* The nodes of a file that is read hang from one another in one tree, each
\* after all that come before it in the document, and stay where they are when
\* tags are closed or the document ends (html.y 455-653).
THEOREM HtmlInOrder ==
  Spec => [](source = "FILE" /\ (Reads(p) \/ p.state = "accepted") => InOrder(p))
<1>1. ReadInv => (source = "FILE" /\ (Reads(p) \/ p.state = "accepted") => InOrder(p))
  BY ForestInOrder DEF ReadInv, Inv, Laid, Sound
<1>2. Init => ReadInv
  BY InitWhole
<1>3. ReadInv /\ [Next]_vars => ReadInv'
  BY NextWhole
<1> QED BY <1>1, <1>2, <1>3, PTL DEF Spec
=============================================================================
