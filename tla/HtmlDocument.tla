---------------------------- MODULE HtmlDocument ----------------------------
(***************************************************************************)
(* What the HTML decoder promises: to read a document as if it had it all  *)
(* at once.  A file is read into nodes, each at its depth; of a stream the *)
(* properties of the tags that are checked are reported.  (html.y 455-709  *)
(* and html.l.)                                                            *)
(***************************************************************************)
EXTENDS HtmlLexer

CONSTANTS Documents,     \* the documents, sequences of characters
          Detected       \* names of the tags whose properties are checked

VARIABLES doc, source,   \* the document, from a "FILE" or a "STREAM"
          at, cond,      \* how much is read, and the start condition there
          stage,         \* what the grammar waits for, or how reading ended
          depth,         \* how many tags are open
          tag,           \* the tag being read
          reads          \* what was read so far, in the order of the document

vars == <<doc, source, at, cond, stage, depth, tag, reads>>

Reading == {"doc", "name", "list", "named", "value"}

NoTag == [end |-> FALSE, name |-> <<>>, prots |-> <<>>]
NoValue == <<"none">>

\* Only these properties matter: those of an end tag never do.
Wanted(src, t) == ~t.end /\ (src = "FILE" \/ t.name \in Detected)

Init ==
  /\ doc \in Documents /\ source \in {"FILE", "STREAM"}
  /\ at = 0 /\ cond = "INITIAL"
  /\ stage = "doc" /\ depth = 0 /\ tag = NoTag
  /\ reads = <<>>

Adds(kind, what, prots) ==
  reads' = Append(reads,
    [depth |-> IF source = "FILE" THEN depth ELSE 0, kind |-> kind, what |-> what, prots |-> prots])

Text(tok) ==
  /\ stage = "doc" /\ tok.sym = "text"
  /\ IF source = "FILE" THEN Adds("text", tok.text, <<>>) ELSE UNCHANGED reads
  /\ UNCHANGED <<stage, depth, tag>>

\* An end tag closes the innermost open tag, whatever its name.
Begin(tok) ==
  /\ stage = "doc"
  /\ tok.sym = "<" \/ (tok.sym = "</" /\ depth > 0)
  /\ stage' = "name"
  /\ tag' = [NoTag EXCEPT !.end = tok.sym = "</"]
  /\ UNCHANGED <<depth, reads>>

Name(tok) ==
  /\ stage = "name" /\ tok.sym = "name"
  /\ stage' = "list"
  /\ tag' = [tag EXCEPT !.name = tok.text]
  /\ UNCHANGED <<depth, reads>>

Property(tok) ==
  /\ stage \in {"list", "named"} /\ tok.sym = "name"
  /\ stage' = "named"
  /\ tag' = IF Wanted(source, tag)
            THEN [tag EXCEPT !.prots = Append(@, [name |-> tok.text, value |-> NoValue])]
            ELSE tag
  /\ UNCHANGED <<depth, reads>>

Equal(tok) ==
  /\ stage = "named" /\ tok.sym = "="
  /\ stage' = "value"
  /\ UNCHANGED <<depth, tag, reads>>

Value(tok) ==
  /\ stage = "value" /\ tok.sym = "text"
  /\ stage' = "list"
  /\ tag' = IF Wanted(source, tag)
            THEN [tag EXCEPT !.prots[Len(tag.prots)].value = tok.text]
            ELSE tag
  /\ UNCHANGED <<depth, reads>>

\* Every begun tag stays open until an end tag or the end of the document.
Close(tok) ==
  /\ stage \in {"list", "named"} /\ tok.sym = ">"
  /\ stage' = "doc" /\ tag' = NoTag
  /\ depth' = IF tag.end THEN depth - 1 ELSE depth + 1
  /\ IF Wanted(source, tag) /\ (source = "FILE" \/ tag.prots # <<>>)
     THEN Adds("tag", tag.name, tag.prots)
     ELSE UNCHANGED reads

End(tok) ==
  /\ stage = "doc" /\ tok.sym = "end"
  /\ stage' = "accepted" /\ depth' = 0
  /\ UNCHANGED <<tag, reads>>

Legal(sym) ==
  CASE stage = "doc"   -> sym \in {"text", "<", "end"} \/ (sym = "</" /\ depth > 0)
    [] stage = "name"  -> sym = "name"
    [] stage = "list"  -> sym \in {"name", ">"}
    [] stage = "named" -> sym \in {"name", "=", ">"}
    [] stage = "value" -> sym = "text"

Refuse(tok) ==
  /\ ~Legal(tok.sym)
  /\ stage' = "refused" /\ depth' = 0 /\ tag' = NoTag
  /\ UNCHANGED reads

Take(tok) ==
  \/ Text(tok) \/ Begin(tok) \/ Name(tok) \/ Property(tok) \/ Equal(tok)
  \/ Value(tok) \/ Close(tok) \/ End(tok) \/ Refuse(tok)

Read ==
  /\ stage \in Reading /\ at < Len(doc)
  /\ LET s == Scan(cond, SubSeq(doc, at + 1, Len(doc)))
     IN /\ at' = at + s.taken /\ cond' = s.cond
        /\ IF s.token = NoToken THEN UNCHANGED <<stage, depth, tag, reads>> ELSE Take(s.token)
  /\ UNCHANGED <<doc, source>>

ReadEnd ==
  /\ stage \in Reading /\ at = Len(doc)
  /\ Take(EndToken)
  /\ UNCHANGED <<doc, source, at, cond>>

\* The decoder may stop before the end, for lack of memory, because of what it
\* reported last or because it is told to; what it has read stands.
GiveUp ==
  /\ stage \in Reading
  /\ stage' = "stopped" /\ depth' = 0 /\ tag' = NoTag
  /\ \/ UNCHANGED reads
     \/ source = "STREAM" /\ Adds("tag", tag.name, tag.prots)
  /\ at' \in at..Len(doc) /\ cond' \in DOMAIN Rules
  /\ UNCHANGED <<doc, source>>

Next == Read \/ ReadEnd \/ GiveUp

Spec == Init /\ [][Next]_vars
=============================================================================
