------------------------------ MODULE LexerProofs ------------------------------
(***************************************************************************)
(* The tokens of lexer_tokenize are the source, cut greedily, and they fit *)
(* into the memory of the list: for every source text, every set of        *)
(* letters that is none of the other characters, and every size of block.  *)
(***************************************************************************)
EXTENDS Lexer, SequenceTheorems, WellFoundedInduction, TLAPS

\* Tokens without their values, which no property speaks of.
Spans ==
    /\ \E S : list \in Seq(S)
    /\ \A i \in 1..Len(list) : list[i].from \in 1..at /\ list[i].to \in 1..at

\* What is true of the cursor and the memory: a slot is kept for the last token.
Cursor ==
    /\ text \in Seq(STRING)
    /\ at \in 1..Len(text) + 1
    /\ listSize \in Nat
    /\ Len(list) <= listSize
    /\ status = "running" => Len(list) < listSize

LexerInv == Cursor /\ Spans /\ LongestMatch

------------------------------------------------------------------------------
(* Sets of numbers have a least element; runs of characters have an end.   *)

LEMMA LeastNumber ==
    ASSUME NEW T, T \subseteq Nat, T # {}
    PROVE  \E n \in T : \A m \in T : n <= m
<1>1. PICK n \in T : \A m \in T : ~(<<m, n>> \in OpToRel(<, Nat))
  BY WFMin, NatLessThanWellFounded, Zenon
<1>2. \A m \in T : ~(m < n)
  BY <1>1 DEF OpToRel
<1>3. \A m \in T : m \in Nat /\ n \in Nat
  OBVIOUS
<1> QED
  BY <1>2, <1>3

\* RunEnd is the first position at or behind another that holds no character of
\* the class.
LEMMA RunEnds ==
    ASSUME text \in Seq(STRING), NEW class, NEW from \in 1..Len(text) + 1
    PROVE  /\ RunEnd(class, from) \in from..Len(text) + 1
           /\ \A i \in from..RunEnd(class, from) - 1 : text[i] \in class
           /\ RunEnd(class, from) <= Len(text) => text[RunEnd(class, from)] \notin class
<1> DEFINE Stops == {to \in from..Len(text) + 1 : to <= Len(text) => text[to] \notin class}
<1>0. Len(text) \in Nat
  BY LenProperties
<1>1. Stops \subseteq Nat /\ Len(text) + 1 \in Stops
  BY <1>0
<1>2. PICK to \in Stops : \A m \in Stops : to <= m
  <2> HIDE DEF Stops
  <2> QED
    BY <1>1, LeastNumber
<1>3. \A i \in from..to - 1 : text[i] \in class
  BY <1>0, <1>2
<1> QED
  BY <1>2, <1>3 DEF RunEnd

------------------------------------------------------------------------------
(* Slices of the text.                                                     *)

LEMMA Slices ==
    ASSUME text \in Seq(STRING),
           NEW from \in 1..Len(text) + 1, NEW to \in from..Len(text) + 1
    PROVE  /\ Slice(from, to) \in Seq(STRING)
           /\ Len(Slice(from, to)) = to - from
           /\ \A i \in 1..to - from : Slice(from, to)[i] = text[from + i - 1]
<1>0. Len(text) \in Nat
  BY LenProperties
<1>1. \A i \in from..to - 1 : text[i] \in STRING
  BY <1>0, ElementOfSeq
<1>2. from \in Int /\ to - 1 \in Int
  BY <1>0
<1>3. /\ SubSeq(text, from, to - 1) \in Seq(STRING)
      /\ Len(SubSeq(text, from, to - 1)) = IF from <= to - 1 THEN (to - 1) - from + 1 ELSE 0
      /\ \A i \in 1..(to - 1) - from + 1 : SubSeq(text, from, to - 1)[i] = text[from + i - 1]
  BY <1>1, <1>2, SubSeqProperties
<1> QED
  BY <1>0, <1>3 DEF Slice

------------------------------------------------------------------------------
(* Characters: which classes have nothing in common.                       *)

LEMMA DigitsAre ==
    Digit = {"0", "1", "2", "3", "4", "5", "6", "7", "8", "9"}
<1>1. DOMAIN Digits = 1..10
  BY DEF Digits
<1>2. 1..10 = {1, 2, 3, 4, 5, 6, 7, 8, 9, 10}
  OBVIOUS
<1>3. Digit = {Digits[1], Digits[2], Digits[3], Digits[4], Digits[5], Digits[6],
               Digits[7], Digits[8], Digits[9], Digits[10]}
  BY <1>1, <1>2 DEF Digit, ToSet
<1> QED
  BY <1>3 DEF Digits

LEMMA Classes ==
    /\ Digit \cap (Singles \cup Space \cup {"!", Quote}) = {}
    /\ Letter \cap (Digit \cup Singles \cup Space \cup {"!", Quote}) = {}
    /\ Quote \notin Singles \cup Space \cup {"!"}
    /\ Space \cap (Singles \cup {"!"}) = {}
<1>1. Digit \cap (Singles \cup Space \cup {"!", Quote}) = {}
  BY DigitsAre DEF Singles, Space, Quote
<1>2. Quote \notin Singles \cup Space \cup {"!"}
  BY DEF Singles, Space, Quote
<1>3. Space \cap (Singles \cup {"!"}) = {}
  BY DEF Singles, Space
<1> QED
  BY <1>1, <1>2, <1>3, LexerAssumption

\* A pair begins with a single character or an exclamation mark.
LEMMA PairsAre ==
    ASSUME NEW s \in Pairs
    PROVE  Len(s) = 2 /\ s[1] \in Singles \cup {"!"}
<1>1. CASE s = <<"-", ">">>
  BY <1>1 DEF Singles
<1>2. CASE s = <<"=", "=">>
  BY <1>2 DEF Singles
<1>3. CASE s = <<"!", "=">>
  BY <1>3 DEF Singles
<1> QED
  BY <1>1, <1>2, <1>3 DEF Pairs

\* What a stretch of the source has to be to be a lexeme, in terms of its
\* characters.
LEMMA LexemesAre ==
    ASSUME text \in Seq(STRING),
           NEW from \in 1..Len(text) + 1, NEW to \in from + 1..Len(text) + 1
    PROVE  /\ IsFixed(Slice(from, to)) =>
                 /\ text[from] \in Singles \cup {"!"}
                 /\ \/ to = from + 2 /\ Slice(from, to) \in Pairs
                    \/ to = from + 1 /\ text[from] \in Singles
           /\ to = from + 1 /\ text[from] \in Singles => Slice(from, to) = <<text[from]>>
           /\ IsInteger(Slice(from, to)) <=> \A i \in from..to - 1 : text[i] \in Digit
           /\ IsString(Slice(from, to)) <=>
                 /\ to >= from + 2
                 /\ \A i \in from..to - 1 : text[i] = Quote <=> i \in {from, to - 1}
           /\ IsWord(Slice(from, to)) <=>
                 /\ text[from] \in Letter
                 /\ \A i \in from..to - 1 : text[i] \in Letter \cup Digit
<1> DEFINE s == Slice(from, to)
<1>0. /\ Len(text) \in Nat /\ from \in Nat /\ to \in Nat
      /\ 1 <= from /\ from < to /\ to <= Len(text) + 1
      /\ to \in from..Len(text) + 1
  BY LenProperties
<1>1. /\ s \in Seq(STRING)
      /\ Len(s) = to - from
      /\ \A i \in 1..to - from : s[i] = text[from + i - 1]
  BY <1>0, Slices
<1>2. /\ DOMAIN s = 1..to - from
      /\ s # <<>>
      /\ s[1] = text[from]
  BY <1>0, <1>1, LenProperties, EmptySeq
<1> HIDE DEF s
<1>3. \A i \in from..to - 1 : i - from + 1 \in 1..to - from /\ s[i - from + 1] = text[i]
  BY <1>0, <1>1
<1>4. IsFixed(s) => /\ text[from] \in Singles \cup {"!"}
                    /\ \/ to = from + 2 /\ s \in Pairs
                       \/ to = from + 1 /\ text[from] \in Singles
  <2>1. CASE s \in Pairs
    <3>1. Len(s) = 2 /\ s[1] \in Singles \cup {"!"}
      BY <2>1, PairsAre
    <3>2. Len(s) = to - from /\ s[1] = text[from]
      BY <1>1, <1>2
    <3>3. to - from = 2 /\ text[from] \in Singles \cup {"!"}
      BY <3>1, <3>2
    <3>4. to = from + 2
      BY <1>0, <3>3
    <3> QED
      BY <2>1, <3>3, <3>4
  <2>2. ASSUME NEW c \in Singles, s = <<c>>
        PROVE  to = from + 1 /\ text[from] \in Singles
    <3>1. Len(s) = 1 /\ s[1] = c
      BY <2>2
    <3>2. Len(s) = to - from /\ s[1] = text[from]
      BY <1>1, <1>2
    <3>3. to - from = 1 /\ text[from] = c
      BY <3>1, <3>2
    <3>4. to = from + 1
      BY <1>0, <3>3
    <3> QED
      BY <3>3, <3>4
  <2> QED
    BY <2>1, <2>2 DEF IsFixed
<1>5. to = from + 1 /\ text[from] \in Singles => s = <<text[from]>>
  <2> SUFFICES ASSUME to = from + 1 PROVE s = <<text[from]>>
    OBVIOUS
  <2>1. text[from] \in STRING
    BY <1>0, ElementOfSeq
  <2>2. <<text[from]>> \in Seq(STRING) /\ Len(<<text[from]>>) = 1
    BY <2>1
  <2>3. Len(s) = 1 /\ \A i \in 1..1 : s[i] = <<text[from]>>[i]
    BY <1>0, <1>1, <1>2
  <2> QED
    BY <1>1, <2>2, <2>3, SeqEqual
<1>A. \A class : (\A i \in DOMAIN s : s[i] \in class)
                     <=> \A i \in from..to - 1 : text[i] \in class
  <2> SUFFICES ASSUME NEW class
               PROVE  (\A i \in DOMAIN s : s[i] \in class)
                         <=> \A i \in from..to - 1 : text[i] \in class
    OBVIOUS
  <2>1. ASSUME \A i \in DOMAIN s : s[i] \in class, NEW i \in from..to - 1
        PROVE  text[i] \in class
    BY <1>2, <1>3, <2>1
  <2>2. ASSUME \A i \in from..to - 1 : text[i] \in class, NEW i \in DOMAIN s
        PROVE  s[i] \in class
    <3>1. from + i - 1 \in from..to - 1 /\ s[i] = text[from + i - 1]
      BY <1>0, <1>1, <1>2
    <3> QED
      BY <2>2, <3>1
  <2> QED
    BY <2>1, <2>2
<1>6. IsInteger(s) <=> \A i \in from..to - 1 : text[i] \in Digit
  BY <1>2, <1>A DEF IsInteger
<1>7. IsString(s) <=> /\ to >= from + 2
                      /\ \A i \in from..to - 1 : text[i] = Quote <=> i \in {from, to - 1}
  <2>1. (Len(s) >= 2) <=> (to >= from + 2)
    BY <1>0, <1>1
  <2>2. ASSUME \A i \in DOMAIN s : s[i] = Quote <=> i \in {1, Len(s)},
               NEW i \in from..to - 1
        PROVE  text[i] = Quote <=> i \in {from, to - 1}
    <3> DEFINE k == i - from + 1
    <3>1. k \in DOMAIN s /\ s[k] = text[i]
      BY <1>2, <1>3
    <3>2. (k = 1 <=> i = from) /\ (k = Len(s) <=> i = to - 1)
      BY <1>0, <1>1
    <3> HIDE DEF k
    <3> QED
      BY <2>2, <3>1, <3>2
  <2>3. ASSUME \A i \in from..to - 1 : text[i] = Quote <=> i \in {from, to - 1},
               NEW i \in DOMAIN s
        PROVE  s[i] = Quote <=> i \in {1, Len(s)}
    <3>1. from + i - 1 \in from..to - 1 /\ s[i] = text[from + i - 1]
      BY <1>0, <1>1, <1>2
    <3> QED
      BY <1>0, <1>1, <1>2, <2>3, <3>1
  <2> QED
    BY <2>1, <2>2, <2>3 DEF IsString
<1>8. IsWord(s) <=> /\ text[from] \in Letter
                    /\ \A i \in from..to - 1 : text[i] \in Letter \cup Digit
  BY <1>2, <1>A DEF IsWord
<1> QED
  BY <1>4, <1>5, <1>6, <1>7, <1>8 DEF s

------------------------------------------------------------------------------
(* Where each branch of the loop cuts the source there is a lexeme, and no *)
(* longer one.                                                             *)

\* The character at the cursor says which lexemes may begin there.
LEMMA FirstCharacter ==
    ASSUME Cursor, at <= Len(text),
           NEW to \in at + 1..Len(text) + 1, IsLexeme(Slice(at, to))
    PROVE  \/ IsFixed(Slice(at, to)) /\ text[at] \in Singles \cup {"!"}
           \/ IsInteger(Slice(at, to)) /\ text[at] \in Digit
           \/ IsString(Slice(at, to)) /\ text[at] = Quote
           \/ IsWord(Slice(at, to)) /\ text[at] \in Letter
<1>0. Len(text) \in Nat /\ at \in Nat /\ to \in Nat /\ text \in Seq(STRING)
  BY LenProperties DEF Cursor
<1>1. at \in 1..Len(text) + 1 /\ at \in at..to - 1
  BY <1>0 DEF Cursor
<1>2. CASE IsFixed(Slice(at, to))
  BY <1>0, <1>1, <1>2, LexemesAre
<1>3. CASE IsInteger(Slice(at, to))
  BY <1>0, <1>1, <1>3, LexemesAre
<1>4. CASE IsString(Slice(at, to))
  BY <1>0, <1>1, <1>4, LexemesAre
<1>5. CASE IsWord(Slice(at, to))
  BY <1>0, <1>1, <1>5, LexemesAre
<1> QED
  BY <1>2, <1>3, <1>4, <1>5 DEF IsLexeme

LEMMA PairIsLongest ==
    ASSUME Cursor, AtPair
    PROVE  /\ at + 2 \in at + 1..Len(text) + 1
           /\ Denotes(Slice(at, at + 2), Slice(at, at + 2))
           /\ NoLonger(at, at + 2)
<1>0. Len(text) \in Nat /\ at \in Nat /\ at < Len(text) /\ text \in Seq(STRING)
  BY LenProperties DEF Cursor, AtPair
<1>1. at + 2 \in at + 1..Len(text) + 1 /\ at + 2 \in at..Len(text) + 1
      /\ at \in 1..Len(text) + 1
  BY <1>0 DEF Cursor
<1>2. IsFixed(Slice(at, at + 2))
  BY DEF AtPair, IsFixed
<1>3. text[at] \in Singles \cup {"!"}
  BY <1>0, <1>1, <1>2, LexemesAre
<1>4. ASSUME NEW longer \in at + 3..Len(text) + 1, IsLexeme(Slice(at, longer))
      PROVE  FALSE
  <2>1. longer \in at + 1..Len(text) + 1 /\ longer # at + 1 /\ longer # at + 2
    BY <1>0
  <2>2. IsFixed(Slice(at, longer))
    BY <1>0, <1>3, <1>4, <2>1, FirstCharacter, Classes
  <2> QED
    BY <1>0, <1>1, <2>1, <2>2, LexemesAre
<1>5. at + 2 + 1 = at + 3
  BY <1>0
<1> QED
  BY <1>1, <1>2, <1>4, <1>5 DEF Denotes, NoLonger

LEMMA SingleIsLongest ==
    ASSUME Cursor, at <= Len(text), ~AtPair, text[at] \in Singles
    PROVE  /\ at + 1 \in at + 1..Len(text) + 1
           /\ Denotes(Slice(at, at + 1), <<text[at]>>)
           /\ NoLonger(at, at + 1)
<1>0. Len(text) \in Nat /\ at \in Nat /\ text \in Seq(STRING)
  BY LenProperties DEF Cursor
<1>1. at + 1 \in at + 1..Len(text) + 1 /\ at \in 1..Len(text) + 1
  BY <1>0 DEF Cursor
<1>2. Slice(at, at + 1) = <<text[at]>>
  BY <1>0, <1>1, LexemesAre
<1>3. IsFixed(Slice(at, at + 1))
  BY <1>2 DEF IsFixed
<1>4. ASSUME NEW longer \in at + 2..Len(text) + 1, IsLexeme(Slice(at, longer))
      PROVE  FALSE
  <2>1. longer \in at + 1..Len(text) + 1 /\ longer # at + 1
    BY <1>0
  <2>2. IsFixed(Slice(at, longer))
    BY <1>0, <1>4, <2>1, FirstCharacter, Classes
  <2>3. longer = at + 2 /\ Slice(at, longer) \in Pairs
    BY <1>0, <1>1, <2>1, <2>2, LexemesAre
  <2>4. at < Len(text)
    BY <1>0, <1>4
  <2> QED
    BY <2>3, <2>4 DEF AtPair
<1>5. at + 1 + 1 = at + 2
  BY <1>0
<1> QED
  BY <1>1, <1>2, <1>3, <1>4, <1>5 DEF Denotes, NoLonger

LEMMA IntegerIsLongest ==
    ASSUME Cursor, at <= Len(text), text[at] \in Digit,
           NEW to, to = RunEnd(Digit, at)
    PROVE  /\ to \in at + 1..Len(text) + 1
           /\ Denotes(Slice(at, to), <<"integer">>)
           /\ NoLonger(at, to)
<1>0. Len(text) \in Nat /\ at \in Nat /\ text \in Seq(STRING) /\ at \in 1..Len(text) + 1
  BY LenProperties DEF Cursor
<1>1. /\ to \in at..Len(text) + 1
      /\ \A i \in at..to - 1 : text[i] \in Digit
      /\ to <= Len(text) => text[to] \notin Digit
  BY <1>0, RunEnds
<1>2. to # at
  BY <1>1
<1>3. to \in at + 1..Len(text) + 1
  BY <1>0, <1>1, <1>2
<1>4. IsInteger(Slice(at, to))
  BY <1>0, <1>1, <1>3, LexemesAre
<1>5. ASSUME NEW longer \in to + 1..Len(text) + 1, IsLexeme(Slice(at, longer))
      PROVE  FALSE
  <2>1. longer \in at + 1..Len(text) + 1 /\ to \in at..longer - 1 /\ to <= Len(text)
    BY <1>0, <1>3
  <2>2. IsInteger(Slice(at, longer))
    BY <1>0, <1>5, <2>1, FirstCharacter, Classes
  <2> QED
    BY <1>0, <1>1, <2>1, <2>2, LexemesAre
<1> QED
  BY <1>3, <1>4, <1>5 DEF Denotes, NoLonger

LEMMA WordIsLongest ==
    ASSUME Cursor, at <= Len(text), text[at] \in Letter,
           NEW to, to = RunEnd(Letter \cup Digit, at)
    PROVE  /\ to \in at + 1..Len(text) + 1
           /\ Denotes(Slice(at, to), WordType(Slice(at, to)))
           /\ NoLonger(at, to)
<1>0. Len(text) \in Nat /\ at \in Nat /\ text \in Seq(STRING) /\ at \in 1..Len(text) + 1
  BY LenProperties DEF Cursor
<1>1. /\ to \in at..Len(text) + 1
      /\ \A i \in at..to - 1 : text[i] \in Letter \cup Digit
      /\ to <= Len(text) => text[to] \notin Letter \cup Digit
  BY <1>0, RunEnds
<1>2. to # at
  BY <1>1
<1>3. to \in at + 1..Len(text) + 1
  BY <1>0, <1>1, <1>2
<1>4. IsWord(Slice(at, to))
  BY <1>0, <1>1, <1>3, LexemesAre
<1>5. ASSUME NEW longer \in to + 1..Len(text) + 1, IsLexeme(Slice(at, longer))
      PROVE  FALSE
  <2>1. longer \in at + 1..Len(text) + 1 /\ to \in at..longer - 1 /\ to <= Len(text)
    BY <1>0, <1>3
  <2>2. IsWord(Slice(at, longer))
    BY <1>0, <1>5, <2>1, FirstCharacter, Classes
  <2> QED
    BY <1>0, <1>1, <2>1, <2>2, LexemesAre
<1> QED
  BY <1>3, <1>4, <1>5 DEF Denotes, WordType, NoLonger

LEMMA StringIsLongest ==
    ASSUME Cursor, at <= Len(text), text[at] = Quote,
           NEW closing, closing = RunEnd(STRING \ {Quote}, at + 1)
    PROVE  /\ closing <= Len(text) =>
                 /\ closing + 1 \in at + 1..Len(text) + 1
                 /\ Denotes(Slice(at, closing + 1), <<"string">>)
                 /\ NoLonger(at, closing + 1)
           /\ closing > Len(text) => NoLonger(at, at)
<1>0. /\ Len(text) \in Nat /\ at \in Nat /\ text \in Seq(STRING)
      /\ at \in 1..Len(text) + 1 /\ at + 1 \in 1..Len(text) + 1
  BY LenProperties DEF Cursor
<1>1. /\ closing \in at + 1..Len(text) + 1
      /\ \A i \in at + 1..closing - 1 : text[i] # Quote
      /\ closing <= Len(text) => text[closing] \notin STRING \ {Quote}
  BY <1>0, RunEnds
<1>2. closing <= Len(text) => text[closing] = Quote
  <2>1. closing <= Len(text) => text[closing] \in STRING
    BY <1>0, <1>1, ElementOfSeq
  <2> QED
    BY <1>1, <2>1
<1>3. ASSUME NEW to \in at + 1..Len(text) + 1, IsLexeme(Slice(at, to))
      PROVE  to = closing + 1 /\ closing <= Len(text)
  <2>1. IsString(Slice(at, to))
    BY <1>0, <1>3, FirstCharacter, Classes
  <2>2. /\ to >= at + 2
        /\ \A i \in at..to - 1 : text[i] = Quote <=> i \in {at, to - 1}
    BY <1>0, <2>1, LexemesAre
  <2>3. to - 1 \in at..to - 1 /\ to \in Nat /\ closing \in Nat
    BY <1>0, <1>1
  <2>4. text[to - 1] = Quote
    BY <2>2, <2>3
  <2>5. ~(to - 1 \in at + 1..closing - 1)
    BY <1>1, <2>4
  <2>6. closing <= to - 1
    BY <1>0, <1>1, <2>2, <2>3, <2>5
  <2>7. closing <= Len(text) /\ closing \in at..to - 1 /\ closing # at
    BY <1>0, <1>1, <2>3, <2>6
  <2>8. closing = to - 1
    BY <1>2, <2>2, <2>7
  <2> QED
    BY <2>3, <2>7, <2>8
<1>4. ASSUME closing <= Len(text)
      PROVE  IsString(Slice(at, closing + 1))
  <2>1. closing + 1 \in at + 1..Len(text) + 1 /\ closing + 1 >= at + 2
    BY <1>0, <1>1, <1>4
  <2>2. ASSUME NEW i \in at..(closing + 1) - 1
        PROVE  text[i] = Quote <=> i \in {at, (closing + 1) - 1}
    <3>1. i = at \/ i = closing \/ i \in at + 1..closing - 1
      BY <1>0, <1>1
    <3>2. (closing + 1) - 1 = closing /\ closing \notin at + 1..closing - 1
          /\ at \notin at + 1..closing - 1
      BY <1>0, <1>1
    <3> QED
      BY <1>1, <1>2, <1>4, <3>1, <3>2
  <2> QED
    BY <1>0, <2>1, <2>2, LexemesAre
<1>5. ASSUME closing <= Len(text)
      PROVE  /\ closing + 1 \in at + 1..Len(text) + 1
             /\ Denotes(Slice(at, closing + 1), <<"string">>)
             /\ NoLonger(at, closing + 1)
  <2>1. closing + 1 \in at + 1..Len(text) + 1
    BY <1>0, <1>1, <1>5
  <2>2. \A longer \in closing + 1 + 1..Len(text) + 1 :
           longer \in at + 1..Len(text) + 1 /\ longer # closing + 1
    BY <1>0, <1>1
  <2> QED
    BY <1>3, <1>4, <1>5, <2>1, <2>2 DEF Denotes, NoLonger
<1>6. ASSUME closing > Len(text)
      PROVE  NoLonger(at, at)
  <2>1. ~(closing <= Len(text))
    BY <1>0, <1>1, <1>6
  <2> QED
    BY <1>3, <2>1 DEF NoLonger
<1> QED
  BY <1>5, <1>6

\* No lexeme begins where no branch of the loop applies, nor at the end.
LEMMA NothingBegins ==
    ASSUME Cursor, at <= Len(text), ~AtPair,
           text[at] \notin Space \cup Singles \cup Digit \cup Letter \cup {Quote}
    PROVE  NoLonger(at, at)
<1>0. Len(text) \in Nat /\ at \in Nat /\ text \in Seq(STRING) /\ at \in 1..Len(text) + 1
  BY LenProperties DEF Cursor
<1>1. ASSUME NEW to \in at + 1..Len(text) + 1, IsLexeme(Slice(at, to))
      PROVE  FALSE
  <2>1. IsFixed(Slice(at, to))
    BY <1>1, FirstCharacter
  <2>2. to = at + 2 /\ Slice(at, to) \in Pairs
    BY <1>0, <1>1, <2>1, LexemesAre
  <2>3. at < Len(text)
    BY <1>0, <1>1, <2>2
  <2> QED
    BY <2>2, <2>3 DEF AtPair
<1> QED
  BY <1>1 DEF NoLonger

------------------------------------------------------------------------------
(* The inductive invariant.                                                *)

LEMMA LexerInit == Init => LexerInv
<1> SUFFICES ASSUME Init PROVE LexerInv
  OBVIOUS
<1>1. text \in Seq(STRING) /\ Block \in Nat \ {0}
  BY LexerAssumption DEF Init
<1>2. list = <<>> /\ Len(list) = 0 /\ DOMAIN list = {} /\ list \in Seq({})
  BY EmptySeq DEF Init
<1>3. at = 1 /\ status = "running" /\ listSize = Block /\ Len(text) \in Nat
  BY <1>1, LenProperties DEF Init
<1>4. Cursor
  BY <1>1, <1>2, <1>3 DEF Cursor
<1>5. Spans
  <2>1. 1..Len(list) = {}
    BY <1>2
  <2> QED
    BY <1>2, <2>1 DEF Spans
<1>6. SpaceBetween
  BY <1>2, <1>3 DEF SpaceBetween, OnlySpace, Behind
<1>7. EachLongest /\ RejectsErrors
  BY <1>2, <1>3 DEF EachLongest, RejectsErrors
<1> QED
  BY <1>3, <1>4, <1>5, <1>6, <1>7 DEF LexerInv, LongestMatch

\* An iteration leaves room for one more token than it may add.
LEMMA GrownHasRoom ==
    ASSUME Cursor, status = "running"
    PROVE  Grown \in Nat /\ Len(list) + 1 < Grown
<1>1. Len(list) \in Nat /\ listSize \in Nat /\ Block \in Nat /\ Block > 0 /\ Len(list) < listSize
  BY LexerAssumption DEF Cursor
<1> QED
  BY <1>1 DEF Grown, Full

\* A step that appends a token of the longest lexeme at the cursor, within the
\* memory, keeps the invariant.
LEMMA TokenKeeps ==
    ASSUME LexerInv, NEW type, NEW value, NEW to, text' = text, at' = to,
           list' = Append(list, [type |-> type, value |-> value, from |-> at, to |-> to]),
           listSize' \in Nat, Len(list) + 1 <= listSize',
           status' \in {"running", "done"},
           status' = "running" => Len(list) + 1 < listSize',
           status' = "done" => to = Len(text) + 1,
           to \in at..Len(text) + 1,
           Denotes(Slice(at, to), type), NoLonger(at, to)
    PROVE  LexerInv'
<1> DEFINE token == [type |-> type, value |-> value, from |-> at, to |-> to]
<1>0. text' = text /\ at' = to /\ list' = Append(list, token)
  OBVIOUS
<1>1. /\ Len(text) \in Nat /\ at \in Nat /\ to \in Nat /\ at >= 1 /\ at <= to
      /\ to <= Len(text) + 1 /\ Cursor /\ Spans
  BY LenProperties DEF LexerInv, Cursor
<1>2. PICK S : list \in Seq(S)
  BY <1>1 DEF Spans
<1>T. token.type = type /\ token.from = at /\ token.to = to
  OBVIOUS
<1> HIDE DEF token
<1>3. list \in Seq(S \cup {token})
  BY <1>2, SeqMonotonic
<1>4. /\ list' \in Seq(S \cup {token}) /\ Len(list') = Len(list) + 1
      /\ \A i \in 1..Len(list) : list'[i] = list[i]
      /\ list'[Len(list) + 1] = token
  BY <1>0, <1>3, AppendProperties
<1>5. Len(list) \in Nat /\ DOMAIN list = 1..Len(list) /\ DOMAIN list' = 1..Len(list) + 1
  BY <1>2, <1>4, LenProperties
<1>6. \A i \in DOMAIN list' : i \in 1..Len(list) \/ i = Len(list) + 1
  BY <1>5
<1>7. Cursor'
  <2>1. to \in 1..Len(text) + 1
    BY <1>1
  <2> QED
    BY <1>0, <1>1, <1>4, <1>5, <2>1 DEF Cursor
<1>8. Spans'
  <2>1. ASSUME NEW i \in 1..Len(list)
        PROVE  list'[i].from \in 1..to /\ list'[i].to \in 1..to
    BY <1>1, <1>4 DEF Spans
  <2>2. list'[Len(list) + 1].from \in 1..to /\ list'[Len(list) + 1].to \in 1..to
    BY <1>1, <1>4, <1>T
  <2> QED
    BY <1>0, <1>4, <1>5, <1>6, <2>1, <2>2 DEF Spans
<1>9. SpaceBetween'
  <2>0. SpaceBetween
    BY DEF LexerInv, LongestMatch
  <2>1. \A i \in 0..Len(list) : Behind(i)' = Behind(i)
    BY <1>4, <1>5 DEF Behind
  <2>2. ASSUME NEW i \in DOMAIN list'
        PROVE  OnlySpace(Behind(i - 1), list[i].from)'
    <3>1. i - 1 \in 0..Len(list) /\ Behind(i - 1)' = Behind(i - 1)
      BY <1>5, <2>1
    <3>2. OnlySpace(Behind(i - 1), list'[i].from)
      <4>1. CASE i \in 1..Len(list)
        BY <1>4, <1>5, <2>0, <4>1 DEF SpaceBetween
      <4>2. CASE i = Len(list) + 1
        <5>1. i - 1 = Len(list) /\ list'[i].from = at
          BY <1>4, <1>5, <1>T, <4>2
        <5> QED
          BY <2>0, <5>1 DEF SpaceBetween
      <4> QED
        BY <1>6, <4>1, <4>2
    <3> QED
      BY <1>0, <3>1, <3>2 DEF OnlySpace
  <2>3. OnlySpace(Behind(Len(list)), at)'
    <3>1. Behind(Len(list))' = to
      BY <1>4, <1>5, <1>T DEF Behind
    <3> QED
      BY <1>0, <1>1, <3>1 DEF OnlySpace
  <2> QED
    BY <2>2, <2>3 DEF SpaceBetween
<1>10. EachLongest'
  <2>0. EachLongest
    BY DEF LexerInv, LongestMatch
  <2>1. ASSUME NEW i \in DOMAIN list'
        PROVE  (/\ Denotes(Slice(list[i].from, list[i].to), list[i].type)
                /\ NoLonger(list[i].from, list[i].to))'
    <3> DEFINE from == list'[i].from
               until == list'[i].to
    <3>1. Denotes(Slice(from, until), list'[i].type) /\ NoLonger(from, until)
      <4>1. CASE i \in 1..Len(list)
        BY <1>4, <1>5, <2>0, <4>1 DEF EachLongest
      <4>2. CASE i = Len(list) + 1
        BY <1>4, <1>T, <4>2
      <4> QED
        BY <1>6, <4>1, <4>2
    <3>2. (Slice(list[i].from, list[i].to))' = Slice(from, until)
      BY <1>0 DEF Slice
    <3>3. NoLonger(list[i].from, list[i].to)' <=> NoLonger(from, until)
      BY <1>0 DEF NoLonger, Slice, IsLexeme
    <3>4. Denotes(Slice(list[i].from, list[i].to), list[i].type)'
             <=> Denotes(Slice(from, until), list'[i].type)
      BY <3>2 DEF Denotes
    <3> QED
      BY <3>1, <3>3, <3>4
  <2> QED
    BY <2>1 DEF EachLongest
<1> QED
  BY <1>0, <1>7, <1>8, <1>9, <1>10 DEF LexerInv, LongestMatch, RejectsErrors

\* A branch of the loop that appends a token.
LEMMA TakeKeeps ==
    ASSUME LexerInv, Iteration, NEW type, NEW value, NEW to, Take(type, value, to),
           to \in at + 1..Len(text) + 1,
           Denotes(Slice(at, to), type), NoLonger(at, to)
    PROVE  LexerInv'
<1>1. Cursor /\ \E S : list \in Seq(S)
  BY DEF LexerInv, Spans
<1>2. /\ Len(text) \in Nat /\ at \in Nat /\ Len(list) \in Nat
      /\ status = "running" /\ status' = "running"
      /\ listSize' \in Nat /\ Len(list) + 1 < listSize'
  BY <1>1, GrownHasRoom, LenProperties DEF Cursor, Iteration, Take
<1>3. to \in at..Len(text) + 1 /\ Len(list) + 1 <= listSize'
  BY <1>2
<1> QED
  BY <1>2, <1>3, TokenKeeps DEF Iteration, Take

\* So does a step that adds no token, passes at most one space, and gives up
\* only where no lexeme begins.
LEMMA NoTokenKeeps ==
    ASSUME LexerInv, text' = text, list' = list,
           listSize' \in Nat, Len(list) < listSize',
           at' = at \/ (at' = at + 1 /\ at <= Len(text) /\ text[at] \in Space),
           status' \in {"unexpected", "unclosed"} => at' = at /\ NoLonger(at, at),
           status' # "done"
    PROVE  LexerInv'
<1>0. /\ Len(text) \in Nat /\ at \in Nat /\ at >= 1 /\ at <= Len(text) + 1
      /\ Cursor /\ Spans /\ SpaceBetween /\ EachLongest /\ Len(list) \in Nat
  <2>1. \E S : list \in Seq(S)
    BY DEF LexerInv, Spans
  <2> QED
    BY <2>1, LenProperties DEF LexerInv, LongestMatch, Cursor
<1>1. at' \in Nat /\ at <= at' /\ at' <= Len(text) + 1
  BY <1>0
<1>2. Cursor'
  BY <1>0, <1>1 DEF Cursor
<1>3. Spans'
  <2>1. 1..at \subseteq 1..at'
    BY <1>0, <1>1
  <2> QED
    BY <1>0, <2>1 DEF Spans
<1>4. SpaceBetween'
  <2>1. \A i \in DOMAIN list : OnlySpace(Behind(i - 1), list[i].from)'
    BY <1>0 DEF SpaceBetween, OnlySpace, Behind
  <2>2. OnlySpace(Behind(Len(list)), at)'
    <3> DEFINE start == Behind(Len(list))
    <3>1. start <= at /\ \A i \in start..at - 1 : text[i] \in Space
      BY <1>0 DEF SpaceBetween, OnlySpace
    <3>2. start \in Nat
      <4>1. CASE Len(list) = 0
        BY <4>1 DEF Behind
      <4>2. CASE Len(list) # 0
        <5>1. Len(list) \in 1..Len(list)
          BY <1>0, <4>2
        <5> QED
          BY <1>0, <4>2, <5>1 DEF Behind, Spans
      <4> QED
        BY <4>1, <4>2
    <3>3. start' = start
      BY DEF Behind
    <3> HIDE DEF start
    <3>4. start <= at'
      BY <1>0, <1>1, <3>1, <3>2
    <3>5. ASSUME NEW i \in start..at' - 1
          PROVE  text[i] \in Space
      <4>1. i \in start..at - 1 \/ (i = at /\ at' = at + 1)
        BY <1>0, <3>2
      <4> QED
        BY <3>1, <4>1, <1>0
    <3> QED
      BY <3>3, <3>4, <3>5 DEF OnlySpace, start
  <2> QED
    BY <2>1, <2>2 DEF SpaceBetween
<1>5. EachLongest'
  BY <1>0 DEF EachLongest, NoLonger, IsLexeme, Slice
<1>6. RejectsErrors'
  BY DEF RejectsErrors, NoLonger, IsLexeme, Slice
<1> QED
  BY <1>2, <1>3, <1>4, <1>5, <1>6 DEF LexerInv, LongestMatch

\* The token that ends the list takes the slot kept for it.
LEMMA EndOfFileKeeps == LexerInv /\ EndOfFile => LexerInv'
<1> SUFFICES ASSUME LexerInv, EndOfFile PROVE LexerInv'
  OBVIOUS
<1>1. Cursor /\ \E S : list \in Seq(S)
  BY DEF LexerInv, Spans
<1>2. /\ Len(text) \in Nat /\ at \in Nat /\ Len(list) \in Nat /\ at = Len(text) + 1
      /\ listSize' \in Nat /\ Len(list) + 1 <= listSize'
  <2>1. Len(text) \in Nat /\ at \in Nat /\ at = Len(text) + 1
    <3>1. at = Len(text) + 1
      BY DEF EndOfFile
    <3>2. text \in Seq(STRING)
      BY <1>1 DEF Cursor
    <3> QED
      BY <3>1, <3>2, LenProperties
  <2>2. Len(list) \in Nat
    BY <1>1, LenProperties
  <2>3. listSize' = listSize /\ listSize \in Nat /\ Len(list) < listSize
    BY <1>1 DEF Cursor, EndOfFile
  <2> QED
    BY <2>1, <2>2, <2>3
<1>3. at \in at..Len(text) + 1
  BY <1>2
<1>4. Denotes(Slice(at, at), <<"end of file">>) /\ NoLonger(at, at)
  <2>1. Slice(at, at) = <<>>
    BY <1>2, SubSeqEmpty DEF Slice
  <2>2. at + 1..Len(text) + 1 = {}
    BY <1>2
  <2> QED
    BY <2>1, <2>2 DEF Denotes, NoLonger
<1> QED
  BY <1>2, <1>3, <1>4, TokenKeeps DEF EndOfFile

LEMMA LexerStep == LexerInv /\ [Next]_vars => LexerInv'
<1> SUFFICES ASSUME LexerInv, [Next]_vars PROVE LexerInv'
  OBVIOUS
<1>0. Cursor
  BY DEF LexerInv
<1>1. ASSUME Iteration
      PROVE  /\ text' = text /\ at <= Len(text) /\ listSize' = Grown /\ status = "running"
             /\ Grown \in Nat /\ Len(list) + 1 < Grown /\ Len(list) < Grown
  <2>1. Grown \in Nat /\ Len(list) + 1 < Grown
    BY <1>0, <1>1, GrownHasRoom DEF Iteration
  <2>2. Len(list) \in Nat
    BY LenProperties DEF LexerInv, Spans
  <2> QED
    BY <1>1, <2>1, <2>2 DEF Iteration
<1>2. CASE DoubleCharacter
  BY <1>0, <1>2, PairIsLongest, TakeKeeps DEF DoubleCharacter
<1>3. CASE Whitespace
  <2>1. status' = "running"
    BY <1>1, <1>3 DEF Whitespace
  <2> QED
    BY <1>1, <1>3, <2>1, NoTokenKeeps DEF Whitespace
<1>4. CASE SingleCharacter
  BY <1>0, <1>1, <1>4, SingleIsLongest, TakeKeeps DEF SingleCharacter
<1>5. CASE Integer
  <2> DEFINE to == RunEnd(Digit, at)
  <2>1. /\ Iteration /\ text[at] \in Digit
        /\ Take(<<"integer">>, IntegerValue(Slice(at, to)), to)
    BY <1>5 DEF Integer
  <2>2. /\ to \in at + 1..Len(text) + 1
        /\ Denotes(Slice(at, to), <<"integer">>)
        /\ NoLonger(at, to)
    BY <1>0, <1>1, <2>1, IntegerIsLongest
  <2> HIDE DEF to
  <2> QED
    BY <2>1, <2>2, TakeKeeps
<1>6. CASE String
  <2> DEFINE closing == RunEnd(STRING \ {Quote}, at + 1)
  <2>1. /\ Iteration /\ text[at] = Quote /\ closing <= Len(text)
        /\ Take(<<"string">>, Slice(at + 1, closing), closing + 1)
    BY <1>6 DEF String
  <2>2. /\ closing + 1 \in at + 1..Len(text) + 1
        /\ Denotes(Slice(at, closing + 1), <<"string">>)
        /\ NoLonger(at, closing + 1)
    BY <1>0, <1>1, <2>1, StringIsLongest
  <2> HIDE DEF closing
  <2> QED
    BY <2>1, <2>2, TakeKeeps
<1>7. CASE UnclosedString
  <2> DEFINE closing == RunEnd(STRING \ {Quote}, at + 1)
  <2>1. /\ Iteration /\ text[at] = Quote /\ closing > Len(text)
        /\ status' = "unclosed" /\ at' = at /\ list' = list
    BY <1>7 DEF UnclosedString
  <2>2. NoLonger(at, at)
    BY <1>0, <1>1, <2>1, StringIsLongest
  <2> QED
    BY <1>1, <2>1, <2>2, NoTokenKeeps
<1>8. CASE Word
  <2> DEFINE to == RunEnd(Letter \cup Digit, at)
             word == Slice(at, to)
  <2>1. /\ Iteration /\ text[at] \in Letter
        /\ Take(WordType(word), IF word \in Keywords THEN 0 ELSE word, to)
    BY <1>8 DEF Word
  <2>2. /\ to \in at + 1..Len(text) + 1
        /\ Denotes(word, WordType(word))
        /\ NoLonger(at, to)
    BY <1>0, <1>1, <2>1, WordIsLongest
  <2>3. word = Slice(at, to)
    OBVIOUS
  <2> HIDE DEF to, word
  <2> QED
    BY <2>1, <2>2, <2>3, TakeKeeps
<1>9. CASE Unexpected
  <2>1. NoLonger(at, at)
    BY <1>0, <1>1, <1>9, NothingBegins DEF Unexpected
  <2> QED
    BY <1>1, <1>9, <2>1, NoTokenKeeps DEF Unexpected
<1>10. CASE OutOfMemory
  BY <1>0, <1>10, NoTokenKeeps DEF OutOfMemory, Cursor
<1>11. CASE EndOfFile
  BY <1>11, EndOfFileKeeps
<1>12. CASE UNCHANGED vars
  BY <1>12 DEF vars, LexerInv, Cursor, Spans, LongestMatch, SpaceBetween, OnlySpace, Behind,
               EachLongest, RejectsErrors, NoLonger, IsLexeme, Slice
<1> QED
  BY <1>2, <1>3, <1>4, <1>5, <1>6, <1>7, <1>8, <1>9, <1>10, <1>11, <1>12 DEF Next

\* The inductive invariant holds in every reachable state.
THEOREM LexerInvariant == Spec => []LexerInv
BY LexerInit, LexerStep, PTL DEF Spec

\* No token of any source text is written behind the memory of the list, and
\* nothing is read behind the terminator (lexer.c:62-69, :155).
THEOREM LexerInBounds == Spec => []StaysInBounds
<1>1. LexerInv => StaysInBounds
  BY LenProperties DEF LexerInv, Cursor, StaysInBounds
<1> QED
  BY LexerInvariant, <1>1, PTL

\* The tokens of any source text are its lexemes, each as long as it can be, and
\* lexer_tokenize gives up only where none begins.
THEOREM LexerIsGreedy == Spec => []LongestMatch
<1>1. LexerInv => LongestMatch
  BY DEF LexerInv
<1> QED
  BY LexerInvariant, <1>1, PTL
================================================================================
