---------------------------- MODULE MC_HtmlStream ----------------------------
(***************************************************************************)
(* HtmlStream for TLC.  The documents are every short sequence of          *)
(* characters, every tag of a few parts with what follows it, and some in  *)
(* which much happens.  "F" is the name of a tag that is checked, "S" the  *)
(* one of the property that is looked for.                                 *)
(***************************************************************************)
EXTENDS HtmlStream

Short == UNION {[1..n -> {"F", "-", "<", ">", "/", "=", "'"}] : n \in 0..3}

Opening == {<<"<", "F">>, <<"<", "a">>, <<"<", "/", "a">>, <<"<", "!", "-", "-">>, <<"<", "!">>, <<"F">>}
Names == {<<>>, <<" ", "S">>, <<" ", "S", "=">>}
Values == {<<>>, <<"a">>, <<"'", ">", "'">>}
Closing == {<<>>, <<">">>, <<"/", ">">>, <<"-", "-", ">">>}
Following == {<<>>, <<"F">>, <<"<", "/", "a", ">">>}

Tags == {a \o b \o c \o d \o e : a \in Opening, b \in Names, c \in Values, d \in Closing, e \in Following}

Begin == <<"<", "F", " ", "S", "=">>
Nested == <<"<", "a", ">">>

Longer ==
  {Begin \o <<"'", ">", "'", ">", "F", "<", "/", "F", ">", "a">>,
   Begin \o <<"a", "/", ">", "<", "!", "-", ">", "-", "-", ">", "a">>,
   <<"<", "a", " ", "F", "S", "=", "'", "a">> \o Nested,
   Nested \o <<"F">> \o Nested \o <<"<", "/", "F", " ", "S", "=", "a", ">", "S">>,
   Nested \o Nested \o <<"S", "<", "/", ">", "a", "/", " ", ">">> \o Nested,
   Nested \o Nested \o Nested \o Nested}

MCDocuments == Short \cup Tags \cup Longer
MCDetected == {<<"F">>}
=============================================================================
