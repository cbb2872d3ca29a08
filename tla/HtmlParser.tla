----------------------------- MODULE HtmlParser -----------------------------
(***************************************************************************)
(* The push parser of decoder/html/html.y with the actions of its rules:   *)
(* what one token does to the parser's stack, to the nodes and properties  *)
(* on the free lists, and to the strings they hold.  Every allocation may  *)
(* fail, so a token has a set of outcomes.  Property values have none of   *)
(* the entities and line ends that html_value_string_decode rewrites; the  *)
(* events among the properties are treated like them.                      *)
(***************************************************************************)
EXTENDS HtmlLexer

CONSTANTS YYMAXDEPTH,    \* the states the parser's stack holds at most
          Detected       \* the names of IS_DETECT_NODE

SrcName == <<"S">>
NULL == <<"none">>       \* a property without a value

\* docs[i + 1] is the html_doc inside the i-th open tag, docs[1] the outermost.
Start ==
  [state   |-> "doc",    \* what it waits for, or how parsing ended
   end     |-> FALSE,    \* an end tag is being read
   tag     |-> <<>>,     \* its name
   list    |-> <<>>,     \* its properties
   name    |-> <<>>,     \* the one still without its "="
   copy    |-> FALSE,
   docs    |-> << <<>> >>,
   open    |-> <<>>,     \* the nodes of the open tags
   root    |-> <<>>,     \* html_root
   nodes   |-> <<>>,     \* free_node, the oldest first
   prots   |-> <<>>,     \* free_prot, the oldest first
   strings |-> 0,        \* strings allocated and not freed
   checked |-> <<>>]     \* the calls of do_html_check

\* NOCOPY_BREAK lets an action allocate only then.
Copies(source, p) == source = "FILE" \/ p.copy

Aborted(p) == [p EXCEPT !.state = "nomem"]

\* How deep shifting a token takes the stack of states.
Deepest(p) ==
  2 + 2 * Len(p.open) +
    CASE p.state = "doc"   -> 1
      [] p.state = "name"  -> 4
      [] p.state = "list"  -> 5
      [] p.state = "named" -> 6
      [] p.state = "value" -> 7

\* A list without its node, as the end of a tag or of the document links it.
Linked(nodes, id, children) ==
  IF id \in DOMAIN nodes THEN [nodes EXCEPT ![id].child = @ \o children] ELSE nodes

\* html_doc SYM_TEXT
TextRead(source, p, text) ==
  LET node == [type |-> "text", text |-> text, prot |-> <<>>, child |-> <<>>]
      id == Len(p.nodes) + 1
  IN IF ~Copies(source, p) THEN {p}
     ELSE {Aborted(p),                 \* no value; or a value freed, no node
           [p EXCEPT !.nodes = Append(@, node), !.strings = @ + 1,
                     !.docs[Len(p.docs)] = Append(@, id)]}

\* html_tag_begin_: the name of a begin tag, before its properties.
NameRead(source, p, name) ==
  [p EXCEPT !.state = "list", !.tag = name, !.list = <<>>,
            !.copy = IF source = "FILE" THEN @ ELSE ~p.end /\ name \in Detected]

NewProt(p, value, strings) ==
  [p EXCEPT !.state = "list", !.prots = Append(@, [name |-> p.name, value |-> value]),
            !.list = Append(@, Len(p.prots) + 1), !.strings = strings]

\* html_tag_prot_ without a value, reduced when the next token is known.
Unvalued(source, p) ==
  IF p.state # "named" THEN {p}
  ELSE IF ~Copies(source, p) THEN {[p EXCEPT !.state = "list"]}
  ELSE {Aborted(p), NewProt(p, NULL, p.strings)}

\* The value is allocated before its property, and freed when that fails.
ValueRead_Leaks(source, p, text) ==                            \* a faulty variant
  IF ~Copies(source, p) THEN {[p EXCEPT !.state = "list"]}
  ELSE {Aborted(p), [Aborted(p) EXCEPT !.strings = @ + 1], NewProt(p, text, p.strings + 1)}
ValueRead(source, p, text) ==
  IF ~Copies(source, p) THEN {[p EXCEPT !.state = "list"]}
  ELSE {Aborted(p), NewProt(p, text, p.strings + 1)}

\* do_html_check of a tag with properties.  A property that is not there is
\* read through a null pointer, one without a value where the link check is
\* compiled in; and the check may tell the decoder to stop.
Checks(p) ==
  LET q == [p EXCEPT !.checked = Append(@, [tag |-> p.tag, list |-> p.list])]
      dead == [q EXCEPT !.state = "dead"]
      srcs == SelectSeq(p.list, LAMBDA i : p.prots[i].name = SrcName)
  IN IF p.list = <<>> THEN {p}
     ELSE IF srcs = <<>> THEN {dead}
     ELSE {q, [q EXCEPT !.state = "reset"]}
            \cup (IF p.prots[srcs[1]].value = NULL THEN {dead} ELSE {})

TagBegun(source, p) ==
  LET node == [type |-> "tag", text |-> p.tag, prot |-> p.list, child |-> <<>>]
      opened(q, id) == [q EXCEPT !.state = "doc", !.list = <<>>, !.copy = FALSE,
                                 !.open = Append(@, id), !.docs = Append(@, <<>>)]
  IN IF source = "FILE"
     THEN {Aborted(p),
           opened([p EXCEPT !.nodes = Append(@, node)], Len(p.nodes) + 1)}
     ELSE {IF q.state = "list" THEN opened(q, 0) ELSE q :
             q \in IF p.copy THEN Checks(p) ELSE {p}}

\* html_tag, then html_doc: the innermost open tag takes its children and is
\* itself the next of the list around it.
TagEnded(source, p) ==
  LET id == Last(p.open)
      outer == Front(p.docs)
  IN [p EXCEPT !.state = "doc", !.list = <<>>,
               !.nodes = Linked(@, id, Last(p.docs)),
               !.open = Front(@),
               !.docs = IF source = "FILE"
                        THEN [outer EXCEPT ![Len(outer)] = Append(@, id)]
                        ELSE outer]

\* At the end of the document every open tag is closed, from the innermost.
Children(p, i) == p.docs[i + 1] \o (IF i < Len(p.open) THEN <<p.open[i + 1]>> ELSE <<>>)
DocumentEnded(source, p) ==
  IF source # "FILE" THEN [p EXCEPT !.state = "accepted", !.docs = << <<>> >>, !.open = <<>>]
  ELSE [p EXCEPT
    !.state = "accepted",
    !.nodes = [id \in DOMAIN @ |->
                 IF id \in ToSet(p.open)
                 THEN [@[id] EXCEPT !.child = Children(p, CHOOSE i \in DOMAIN p.open : p.open[i] = id)]
                 ELSE @[id]],
    !.root = @ \o Children(p, 0),
    !.docs = << <<>> >>, !.open = <<>>]

\* What is legal once a name without "=" has been reduced.
Shifted(source, p, tok) ==
  CASE p.state = "doc" /\ tok.sym = "text" -> TextRead(source, p, tok.text)
    [] p.state = "doc" /\ tok.sym \in {"<", "</"} /\ (tok.sym = "</" => p.open # <<>>) ->
         {[p EXCEPT !.state = "name", !.end = tok.sym = "</"]}
    [] p.state = "doc" /\ tok.sym = "end" -> {DocumentEnded(source, p)}
    [] p.state = "name" /\ tok.sym = "name" -> {NameRead(source, p, tok.text)}
    [] p.state = "list" /\ tok.sym = "name" ->
         {[p EXCEPT !.state = "named", !.name = tok.text]}
    [] p.state = "named" /\ tok.sym = "=" -> {[p EXCEPT !.state = "value"]}
    [] p.state = "value" /\ tok.sym = "text" -> ValueRead(source, p, tok.text)
    [] p.state = "list" /\ tok.sym = ">" ->
         IF p.end THEN {TagEnded(source, p)} ELSE TagBegun(source, p)
    [] OTHER -> {[p EXCEPT !.state = "error"]}

\* htmlpush_parse
Pushed(source, p, tok) ==
  LET before == IF tok.sym = "=" THEN {p} ELSE Unvalued(source, p)
  IN {u \in before : u.state = "nomem"} \cup
     UNION {{IF r.state # "error" /\ Deepest(q) >= YYMAXDEPTH THEN Aborted(q) ELSE r :
               r \in Shifted(source, q, tok)} :
              q \in {u \in before : u.state # "nomem"}}

\* html_priv_free gives back each node and property once, with its string.
Held(p) ==
  Cardinality({i \in DOMAIN p.nodes : p.nodes[i].type = "text"}) +
  Cardinality({i \in DOMAIN p.prots : p.prots[i].value # NULL})
=============================================================================
