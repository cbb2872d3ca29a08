------------------------------ MODULE HtmlLexer ------------------------------
(***************************************************************************)
(* The scanner of decoder/html/html.l on characters that its rules tell    *)
(* apart.  flex takes the longest match of the rules of the start          *)
(* condition, and of equally long ones the first.                          *)
(***************************************************************************)
EXTENDS Naturals, Sequences, FiniteSetsExt, SequencesExt

\* "F" is all of a keyword and "FF" a name that only begins like one; one kind
\* of quote and of white space stands for all.
NameChars == {"F", "S", "a", "-"}
Chars == NameChars \cup {"<", ">", "!", "/", "=", "'", " "}

Literal ==
  [comment |-> <<"<", "!", "-", "-">>, meta |-> <<"<", "!">>, endtag |-> <<"<", "/">>,
   begintag |-> <<"<">>, endcomment |-> <<"-", "-", ">">>, close |-> <<">">>,
   equal |-> <<"=">>]

Rules ==
  [INITIAL    |-> <<"comment", "meta", "endtag", "begintag", "text">>,
   COMMENT    |-> <<"endcomment", "other">>,
   META       |-> <<"close", "other">>,
   TAG_NAME   |-> <<"space", "name", "other">>,
   PROT_NAME  |-> <<"space", "equal", "close", "close2", "name", "other">>,
   PROT_VALUE |-> <<"space", "quoted", "unquoted", "stop", "other">>]

AllIn(s, cs) == \A i \in DOMAIN s : s[i] \in cs

\* The inside of a quoted string, or of "/" and ">".
Between(s, cs) == \A i \in 2..(Len(s) - 1) : s[i] \in cs
Framed(s, a, cs, b) == Len(s) >= 2 /\ s[1] = a /\ Last(s) = b /\ Between(s, cs)

Matches(rule, s) ==
  CASE rule \in DOMAIN Literal -> s = Literal[rule]
    [] rule = "text"     -> AllIn(s, Chars \ {"<"})
    [] rule = "space"    -> AllIn(s, {" "})
    [] rule = "name"     -> AllIn(s, NameChars)
    [] rule = "close2"   -> Framed(s, "/", {" "}, ">")
    [] rule = "quoted"   -> Framed(s, "'", Chars \ {"'"}, "'")
    [] rule = "unquoted" -> AllIn(s, Chars \ {" ", "/", ">"})
    [] rule = "stop"     -> s \in {<<"/">>, <<">">>}
    [] rule = "other"    -> Len(s) = 1

\* s could still become a match, or is one.
Begins(rule, s) ==
  CASE rule \in DOMAIN Literal -> IsPrefix(s, Literal[rule])
    [] rule = "close2" -> Matches(rule, s) \/ (s[1] = "/" /\ AllIn(Tail(s), {" "}))
    [] rule = "quoted" -> Matches(rule, s) \/ (s[1] = "'" /\ AllIn(Tail(s), Chars \ {"'"}))
    [] OTHER           -> Matches(rule, s)

RuleSet(cond) == ToSet(Rules[cond])

\* The scanner reaches the end of the buffer without having decided.
Undecided(cond, s) == \E r \in RuleSet(cond) : Begins(r, s)

\* The start condition after each rule; most keep it.
After(cond, rule) ==
  CASE rule = "comment"                        -> "COMMENT"
    [] rule = "meta"                           -> "META"
    [] rule \in {"endtag", "begintag"}         -> "TAG_NAME"
    [] rule \in {"endcomment", "close", "close2"} -> "INITIAL"
    [] rule = "equal"                          -> "PROT_VALUE"
    [] rule \in {"quoted", "unquoted", "stop"} -> "PROT_NAME"
    [] rule = "name"                           -> "PROT_NAME"
    [] OTHER                                   -> cond

\* What the parser is given: a token, or none.
NoToken == [sym |-> "none", text |-> <<>>]
EndToken == [sym |-> "end", text |-> <<>>]
TokenOf(cond, rule, s) ==
  CASE rule = "begintag" -> [sym |-> "<", text |-> <<>>]
    [] rule = "endtag"   -> [sym |-> "</", text |-> <<>>]
    [] rule = "equal"    -> [sym |-> "=", text |-> <<>>]
    [] rule \in {"close", "close2"} /\ cond = "PROT_NAME" -> [sym |-> ">", text |-> <<>>]
    [] rule = "name"     -> [sym |-> "name", text |-> s]
    [] rule \in {"text", "unquoted"} -> [sym |-> "text", text |-> s]
    [] rule = "quoted"   -> [sym |-> "text", text |-> SubSeq(s, 2, Len(s) - 1)]
    [] OTHER             -> NoToken

\* One match at the front of s, which is not empty.  "stop" puts its character
\* back for the next condition.
Scan(cond, s) ==
  LET fits(n) == {r \in RuleSet(cond) : Matches(r, SubSeq(s, 1, n))}
      len == Max({n \in 1..Len(s) : fits(n) # {}})
      rule == Rules[cond][Min({i \in DOMAIN Rules[cond] : Rules[cond][i] \in fits(len)})]
  IN [rule  |-> rule,
      taken |-> IF rule = "stop" THEN 0 ELSE len,
      cond  |-> After(cond, rule),
      token |-> TokenOf(cond, rule, SubSeq(s, 1, len))]
=============================================================================
