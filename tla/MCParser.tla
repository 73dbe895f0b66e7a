------------------------------- MODULE MCParser --------------------------------
(* Instances of Parser: sources that start with the header of a function, in   *)
(* a statement or behind operands, and go on in every way the parser accepts.  *)
EXTENDS Parser

MCToken == {"x", "f", "integer", "*", "/", "+", "==", "=", "&", "(", ")", "[", "]",
            ",", ";", "{", "}", "func", "->", "int", "char", "var", "if", "while",
            "return", "string"}

Header == <<"func", "f", "(", "int", "*", "x", ")", "->", "int", "{">>

Forward == <<"func", "f", "(", "int", "x", ",", "char", "x", ")", "->", "int", ";">>

\* Operators of two levels behind each other, in front of what may follow.
Operations == {<<"x", "[", "integer", "]", "+">>, <<"x", "=", "*", "x", "*">>,
               <<"*", "x", "==", "integer", "+", "integer", "*">>}

\* Places inside of calls, conditions, blocks and declarations.
Inside == {<<"f", "(", "&", "x", ",">>, <<"if", "(", "*", "x", ")", "{">>,
           <<"while", "(", "(", "x", ")", "[", "integer">>,
           <<"{", "var", "char", "*", "[", "integer", "]", "x", ";">>,
           <<"var", "int", "f", "=", "f", "(", "string", ")">>}

MCStart == {<<>>, Header, Forward, Forward \o Header,
            <<"func", "f", "(", "int", "*", "x">>}
           \cup {Header \o s : s \in Operations \cup Inside}
================================================================================
