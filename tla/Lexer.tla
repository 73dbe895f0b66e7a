--------------------------------- MODULE Lexer ---------------------------------
(***************************************************************************)
(* lexer_tokenize of lexer.c: one action per iteration of its loop.  The   *)
(* source is a sequence of characters, NUL-terminated in the code: a read  *)
(* at Len(text) + 1 is the terminator, which no branch matches.  The token *)
(* list grows by Block tokens; the list is checked at the start of an      *)
(* iteration, before it is known whether the iteration adds a token.       *)
(***************************************************************************)
EXTENDS Integers, Sequences, SequencesExt

CONSTANTS
    Text,           \* source texts: sequences of characters
    Letter,         \* the letters and the underscore
    Block,          \* tokens of one allocation (ALLOCATION_BLOCK_SIZE)
    ValueLimit      \* integers are kept modulo this (2^64)

VARIABLES
    text,           \* the source code
    at,             \* src_code: position of the next character
    list,           \* the tokens so far, with the span [from, to) of each
    listSize,       \* list_size: tokens that fit into the memory of list
    status          \* "running", or how the function ended

vars == <<text, at, list, listSize, status>>

------------------------------------------------------------------------------
(* The tables of lexer.c and lexer.h. *)

Space == {" ", "\n", "\t", "\r"}

Quote == "\""

Digits == <<"0", "1", "2", "3", "4", "5", "6", "7", "8", "9">>

Digit == ToSet(Digits)

DigitValue(c) == (CHOOSE i \in DOMAIN Digits : Digits[i] = c) - 1

\* A token of two characters, a single character or a keyword has the text it
\* is written with for its type.
Pairs == {<<"-", ">">>, <<"=", "=">>, <<"!", "=">>}

Singles == {",", "(", ")", "{", "}", "[", "]", "=", "+", "-", "*", "/", "&", ";"}

Keywords == {<<"f", "u", "n", "c">>, <<"v", "a", "r">>, <<"i", "f">>,
             <<"w", "h", "i", "l", "e">>, <<"r", "e", "t", "u", "r", "n">>,
             <<"c", "h", "a", "r">>, <<"i", "n", "t">>}

WordType(word) == IF word \in Keywords THEN word ELSE <<"identifier">>

ASSUME LexerAssumption ==
    /\ Block \in Nat \ {0}
    /\ ValueLimit \in Nat \ {0}
    /\ \A t \in Text : t \in Seq(STRING)
    /\ Letter \cap (Digit \cup Singles \cup Space \cup {"!", Quote}) = {}

------------------------------------------------------------------------------

\* The text from one position up to, and without, another.
Slice(from, to) == SubSeq(text, from, to - 1)

\* Where a run of characters of a class that starts at a position ends: the
\* first position that holds another character or the terminator.
RunEnd(class, from) ==
    CHOOSE to \in from..Len(text) + 1 :
        /\ \A i \in from..to - 1 : text[i] \in class
        /\ to <= Len(text) => text[to] \notin class

\* The value of a run of digits, as the multiplications in uint64_t leave it.
IntegerValue(digits) ==
    FoldLeft(LAMBDA value, c : (value * 10 + DigitValue(c)) % ValueLimit, 0, digits)

\* Mutant: the list grows only when it is full.
Full_NoSpare == Len(list) = listSize

\* One slot is kept for the token that ends the list.
Full == Len(list) + 1 = listSize

Grown == IF Full THEN listSize + Block ELSE listSize

\* Mutant: characters that are tokens of their own are tried before pairs.
AtPair_Late ==
    at < Len(text) /\ text[at] \notin Singles /\ Slice(at, at + 2) \in Pairs

\* The next two characters make a token.
AtPair == at < Len(text) /\ Slice(at, at + 2) \in Pairs

------------------------------------------------------------------------------

Init ==
    /\ text \in Text
    /\ at = 1
    /\ list = <<>>
    /\ listSize = Block
    /\ status = "running"

\* An iteration that sees a character and finds the memory it needs.
Iteration ==
    /\ status = "running"
    /\ at <= Len(text)
    /\ listSize' = Grown
    /\ UNCHANGED text

\* list[token_count++] = ..., and the cursor moves behind the token.
Take(type, value, to) ==
    /\ list' = Append(list, [type |-> type, value |-> value, from |-> at, to |-> to])
    /\ at' = to
    /\ UNCHANGED status

DoubleCharacter ==
    /\ Iteration
    /\ AtPair
    /\ Take(Slice(at, at + 2), 0, at + 2)

Whitespace ==
    /\ Iteration
    /\ text[at] \in Space
    /\ at' = at + 1
    /\ UNCHANGED <<list, status>>

SingleCharacter ==
    /\ Iteration
    /\ ~AtPair
    /\ text[at] \in Singles
    /\ Take(<<text[at]>>, 0, at + 1)

Integer ==
    /\ Iteration
    /\ text[at] \in Digit
    /\ LET to == RunEnd(Digit, at)
       IN Take(<<"integer">>, IntegerValue(Slice(at, to)), to)

String ==
    /\ Iteration
    /\ text[at] = Quote
    /\ LET closing == RunEnd(STRING \ {Quote}, at + 1)
       IN /\ closing <= Len(text)
          /\ Take(<<"string">>, Slice(at + 1, closing), closing + 1)

\* log_error: the process ends.
UnclosedString ==
    /\ Iteration
    /\ text[at] = Quote
    /\ RunEnd(STRING \ {Quote}, at + 1) > Len(text)
    /\ status' = "unclosed"
    /\ UNCHANGED <<at, list>>

Word ==
    /\ Iteration
    /\ text[at] \in Letter
    /\ LET to   == RunEnd(Letter \cup Digit, at)
           word == Slice(at, to)
       IN Take(WordType(word), IF word \in Keywords THEN 0 ELSE word, to)

Unexpected ==
    /\ Iteration
    /\ ~AtPair
    /\ text[at] \notin Space \cup Singles \cup Digit \cup Letter \cup {Quote}
    /\ status' = "unexpected"
    /\ UNCHANGED <<at, list>>

\* malloc or realloc fails: NULL is returned.
OutOfMemory ==
    /\ status = "running"
    /\ at = 1 \/ (at <= Len(text) /\ Full)
    /\ status' = "no memory"
    /\ UNCHANGED <<text, at, list, listSize>>

\* The loop ends at the terminator.
EndOfFile ==
    /\ status = "running"
    /\ at = Len(text) + 1
    /\ list' = Append(list, [type |-> <<"end of file">>, value |-> 0,
                             from |-> at, to |-> at])
    /\ status' = "done"
    /\ UNCHANGED <<text, at, listSize>>

Next ==
    \/ DoubleCharacter \/ Whitespace \/ SingleCharacter
    \/ Integer \/ String \/ UnclosedString \/ Word
    \/ Unexpected \/ OutOfMemory \/ EndOfFile

Spec == Init /\ [][Next]_vars

------------------------------------------------------------------------------
(* Properties. *)

\* Every token is written inside the memory of the list, the one that ends it
\* included: "We check for one before to leave spare room for the End Of File
\* token" (lexer.c:63-64); and the source is not read behind its terminator.
StaysInBounds ==
    /\ Len(list) <= listSize
    /\ at <= Len(text) + 1

\* The lexical grammar: the texts of the tokens of each kind.
IsFixed(s) == s \in Pairs \cup {<<c>> : c \in Singles}

IsInteger(s) == s # <<>> /\ \A i \in DOMAIN s : s[i] \in Digit

IsString(s) ==
    /\ Len(s) >= 2
    /\ \A i \in DOMAIN s : s[i] = Quote <=> i \in {1, Len(s)}

IsWord(s) ==
    /\ s # <<>>
    /\ s[1] \in Letter
    /\ \A i \in DOMAIN s : s[i] \in Letter \cup Digit

IsLexeme(s) == IsFixed(s) \/ IsInteger(s) \/ IsString(s) \/ IsWord(s)

\* The text of a token and its type; the last token has no text.
Denotes(s, type) ==
    \/ IsFixed(s) /\ type = s
    \/ IsInteger(s) /\ type = <<"integer">>
    \/ IsString(s) /\ type = <<"string">>
    \/ IsWord(s) /\ type = IF s \in Keywords THEN s ELSE <<"identifier">>
    \/ s = <<>> /\ type = <<"end of file">>

\* Where the text behind the first i tokens begins.
Behind(i) == IF i = 0 THEN 1 ELSE list[i].to

\* A stretch of the source has only white space in it.
OnlySpace(from, to) == from <= to /\ \A p \in from..to - 1 : text[p] \in Space

\* Only white space lies between two tokens, and behind the last one.
SpaceBetween ==
    /\ \A i \in DOMAIN list : OnlySpace(Behind(i - 1), list[i].from)
    /\ OnlySpace(Behind(Len(list)), at)

\* No token ends earlier than it could.
NoLonger(from, to) == \A longer \in to + 1..Len(text) + 1 : ~IsLexeme(Slice(from, longer))

EachLongest ==
    \A i \in DOMAIN list :
        /\ Denotes(Slice(list[i].from, list[i].to), list[i].type)
        /\ NoLonger(list[i].from, list[i].to)

\* The function gives up only where no token starts.
RejectsErrors == status \in {"unexpected", "unclosed"} => NoLonger(at, at)

\* The tokens are the source, cut greedily.  This is what the order of the
\* tests in the loop has to achieve (lexer.c:74-153): a pair before its first
\* character, a whole run of digits or letters before a keyword is looked up.
LongestMatch ==
    /\ SpaceBetween
    /\ EachLongest
    /\ RejectsErrors
    /\ status = "done" => at = Len(text) + 1
================================================================================
