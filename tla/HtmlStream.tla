----------------------------- MODULE HtmlStream -----------------------------
(***************************************************************************)
(* The HTML decoder as it is fed, parse_html_stream of decoder/html: a     *)
(* document comes in fragments cut anywhere.  What the scanner cannot yet  *)
(* decide at the end of a fragment is saved and put before the next one    *)
(* (save_stream_context and html_scan_stream in html.l); with the last     *)
(* fragment everything is decided.  The stream may be given up between     *)
(* fragments.  Memory may run out in html_scan_stream and in the parser;   *)
(* that the saved text finds room is assumed.                              *)
(***************************************************************************)
EXTENDS HtmlParser

CONSTANT Documents       \* the documents, sequences of characters

ASSUME DocumentsAssumption == \A d \in Documents : d \in Seq(Chars)

VARIABLES
  doc, source,
  rest,          \* what of the document has not arrived
  last_string,   \* what was saved of the fragments before
  buf,           \* what of the buffer has not been scanned
  fresh,         \* nothing of it has
  last_frag,
  cond,          \* the scanner's start condition
  p,             \* the parser
  phase,         \* "idle", "scanning", "failed", "dead" or "freed"
  live           \* what the decoder has allocated: nodes, properties, strings

vars == <<doc, source, rest, last_string, buf, fresh, last_frag, cond, p, phase, live>>

Init ==
  /\ doc \in Documents /\ source \in {"FILE", "STREAM"}
  /\ rest = doc /\ last_string = <<>> /\ buf = <<>> /\ fresh = TRUE
  /\ last_frag = FALSE /\ cond = "INITIAL"
  /\ p = Start /\ phase = "idle"
  /\ live = [nodes |-> 0, prots |-> 0, strings |-> 0]

\* html_scan_stream: what was saved, then what arrives.
Deliver(n, last) ==
  /\ phase = "idle" /\ ~last_frag
  /\ last => n = Len(rest)
  /\ buf' = last_string \o SubSeq(rest, 1, n)
  /\ rest' = SubSeq(rest, n + 1, Len(rest))
  /\ last_string' = <<>> /\ last_frag' = last /\ fresh' = TRUE
  /\ phase' = "scanning"
  /\ UNCHANGED <<doc, source, cond, p, live>>

DeliverFailed ==
  /\ phase = "idle" /\ ~last_frag
  /\ phase' = "failed"
  /\ UNCHANGED <<doc, source, rest, last_string, buf, fresh, last_frag, cond, p, live>>

\* The text is undecided: YY_USER_ACTION and YY_RESTORE_YY_MORE_OFFSET.
Saves_OnlyPartial(text) ==                                     \* a faulty variant
  ~last_frag /\ text # <<>> /\ Undecided(cond, text) /\ Scan(cond, text).taken < Len(text)
Saves(text) == ~last_frag /\ text # <<>> /\ Undecided(cond, text)

Save ==
  /\ phase = "scanning" /\ Saves(buf)
  /\ last_string' = buf /\ buf' = <<>>
  /\ phase' = "idle"
  /\ UNCHANGED <<doc, source, rest, fresh, last_frag, cond, p, live>>

\* The loop of parse_html_stream ends with anything but YYPUSH_MORE; after an
\* accepted end the parser begins anew, with the same free lists and root.
Push(tok) ==
  \E q \in Pushed(source, p, tok) :
    /\ p' = IF q.state = "accepted" /\ ~last_frag THEN [q EXCEPT !.state = "doc"] ELSE q
    /\ phase' = CASE q.state = "dead" -> "dead"
                  [] q.state \in {"error", "nomem", "reset"} -> "failed"
                  [] q.state = "accepted" -> "idle"
                  [] OTHER -> "scanning"
    /\ live' = [nodes |-> Len(q.nodes), prots |-> Len(q.prots), strings |-> q.strings]

\* One call of htmllex that finds a match.  unput needs two characters scanned
\* of the buffer, the one it puts back included, or it ends the process.
Lex ==
  /\ phase = "scanning" /\ buf # <<>> /\ ~Saves(buf)
  /\ LET s == Scan(cond, buf)
     IN IF s.rule = "stop" /\ fresh
        THEN phase' = "dead" /\ UNCHANGED <<buf, cond, fresh, p, live>>
        ELSE /\ buf' = SubSeq(buf, s.taken + 1, Len(buf))
             /\ cond' = s.cond
             /\ fresh' = FALSE
             /\ IF s.token = NoToken THEN UNCHANGED <<p, phase, live>> ELSE Push(s.token)
  /\ UNCHANGED <<doc, source, rest, last_string, last_frag>>

\* Nothing to scan and nothing to save is the end, as the scanner sees it.
LexEnd ==
  /\ phase = "scanning" /\ buf = <<>>
  /\ Push(EndToken)
  /\ UNCHANGED <<doc, source, rest, last_string, buf, fresh, last_frag, cond>>

\* html_priv_free goes through the free lists, after the last fragment or
\* whenever the stream is given up.
Free ==
  /\ phase \in {"idle", "failed"}
  /\ live' = [nodes |-> live.nodes - Len(p.nodes), prots |-> live.prots - Len(p.prots),
              strings |-> live.strings - Held(p)]
  /\ phase' = "freed"
  /\ UNCHANGED <<doc, source, rest, last_string, buf, fresh, last_frag, cond, p>>

Next ==
  \/ \E n \in 0..Len(rest), last \in BOOLEAN : Deliver(n, last)
  \/ DeliverFailed \/ Save \/ Lex \/ LexEnd \/ Free

Spec == Init /\ [][Next]_vars

-----------------------------------------------------------------------------
(* What has been read, as HtmlDocument has it                              *)

InTagStates == {"name", "list", "named", "value"}
Stopped ==
  \/ phase = "dead" \/ p.state \in {"nomem", "reset"}
  \/ phase \in {"failed", "freed"} /\ p.state \in InTagStates \cup {"doc"}

At == Len(doc) - Len(rest) - Len(last_string) - Len(buf)
Stage == IF Stopped THEN "stopped" ELSE IF p.state = "error" THEN "refused" ELSE p.state
OpenTags == IF Stopped \/ p.state = "error" THEN 0 ELSE Len(p.open)

\* The tag being read.
ProtsOf(q, list) == [i \in DOMAIN list |-> q.prots[list[i]]]
Pending(q) == IF q.state \in {"named", "value"} THEN <<[name |-> q.name, value |-> NULL]>> ELSE <<>>
TagOf(src, q) ==
  [end   |-> q.end,
   name  |-> IF q.state = "name" THEN <<>> ELSE q.tag,
   prots |-> IF q.state # "name" /\ ~q.end /\ Copies(src, q)
             THEN ProtsOf(q, q.list) \o Pending(q) ELSE <<>>]
TagRead ==
  IF ~Stopped /\ p.state \in InTagStates THEN TagOf(source, p)
  ELSE [end |-> FALSE, name |-> <<>>, prots |-> <<>>]

\* The children of a node, or of the document, which is 0: those it is linked
\* to, and those still on the parser's stack.
Kids(q, id) ==
  IF id = 0 THEN q.root \o Children(q, 0)
  ELSE q.nodes[id].child \o
    (IF id \in ToSet(q.open) THEN Children(q, CHOOSE i \in DOMAIN q.open : q.open[i] = id)
     ELSE <<>>)
Parent(q, id) == CHOOSE i \in 0..Len(q.nodes) : id \in ToSet(Kids(q, i))
Depths(q) ==
  LET d[id \in 0..Len(q.nodes)] == IF id = 0 THEN 0 ELSE d[Parent(q, id)] + 1 IN d

\* Who goes through the children of each node meets every node once, and in
\* the order in which they were allocated.
InOrder(q) ==
  /\ \A id \in DOMAIN q.nodes : \E i \in 0..(id - 1) : id \in ToSet(Kids(q, i))
  /\ \A i \in 0..Len(q.nodes) :
       /\ \A j, k \in DOMAIN Kids(q, i) : j < k => Kids(q, i)[j] < Kids(q, i)[k]
       /\ \A id \in ToSet(Kids(q, i)) :
            /\ id \in DOMAIN q.nodes /\ Parent(q, id) = i
            /\ \A k \in (i + 1)..(id - 1) : Depths(q)[k] > Depths(q)[i]

\* What was read: of a file its nodes, of a stream the tags checked.
NodesRead(q) ==
  [i \in DOMAIN q.nodes |->
     [depth |-> Depths(q)[i] - 1, kind |-> q.nodes[i].type, what |-> q.nodes[i].text,
      prots |-> ProtsOf(q, q.nodes[i].prot)]]
ReadOf(src, q) ==
  IF src = "FILE" THEN IF InOrder(q) THEN NodesRead(q) ELSE <<NULL>>
  ELSE [i \in DOMAIN q.checked |->
          [depth |-> 0, kind |-> "tag", what |-> q.checked[i].tag,
           prots |-> ProtsOf(q, q.checked[i].list)]]

Whole == INSTANCE HtmlDocument WITH
  at <- At, stage <- Stage, depth <- OpenTags, tag <- TagRead, reads <- ReadOf(source, p)

-----------------------------------------------------------------------------
(* Properties                                                              *)

\* Whatever allocation fails, each node, property and string is found from the
\* free lists, and freeing a decoder leaves none (html.y 475-499, 598-653;
\* html_mem.c 31-106).
NothingLost ==
  /\ phase # "freed" => live = [nodes |-> Len(p.nodes), prots |-> Len(p.prots), strings |-> Held(p)]
  /\ phase = "freed" => live = [nodes |-> 0, prots |-> 0, strings |-> 0]

\* However a document is cut into fragments it is read as if it came whole:
\* the same nodes at the same depths, the same properties checked, the same
\* documents refused (html.l 8-20, 456-538; html.y 455-709).
ImplementsWhole == Whole!Spec
=============================================================================
