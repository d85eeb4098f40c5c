---------------------------- MODULE MCInjaLexer ----------------------------
(* The lexer on every template of at most four fragments, the first of      *)
(* which may begin a string in an expression.                               *)
EXTENDS InjaLexer

Fragments ==
  {<<>>, <<"{", "{">>, <<"}", "}">>, <<"{", "%">>, <<"%", "}">>, <<"{", "#">>, <<"#", "}">>,
   <<"#", "#">>, <<"\n">>, <<"\r">>, <<" ">>, <<"#">>, <<"\"">>, <<"\\">>, <<"e">>, <<"1">>}
Beginnings == Fragments \cup {<<"{", "{", "\"">>}
MCTemplates == {a \o b \o c \o d : a \in Beginnings, b, c, d \in Fragments}
MCSettings == {[trim_blocks |-> b, lstrip_blocks |-> b] : b \in BOOLEAN}
=============================================================================
