-------------------------------- MODULE MCLexer --------------------------------
(* Instances of Lexer: every text over an alphabet with a character of each    *)
(* class, and some longer ones that are made of keywords and long runs.        *)
EXTENDS Lexer

CONSTANT MaxLength      \* bound: characters of a text

Alphabet == {"-", ">", "=", "!", "i", "f", "7", Quote, " ", "%"}

MCLetter == {"i", "f", "n", "t", "_"}

Longer == {<<"i", "n", "t", " ", "i", "n", "t", "7", " ", "i", "n">>,
           <<"i", "f", "=", "=", "=", "7", "7", "7", "-", "-", ">", ";", "_", "{">>,
           <<Quote, "i", "f", " ", "-", ">", Quote, Quote, Quote, "7", "i", "f">>}

AllText == UNION {[1..n -> Alphabet] : n \in 0..MaxLength} \cup Longer

MCText == AllText
================================================================================
