----------------------------- MODULE ParserProofs ------------------------------
(***************************************************************************)
(* Facts about the parser for sources of any length, with any names.  It   *)
(* stops in front of the end of the file, its stacks never run dry, and    *)
(* every expression of a statement has a type when the statement is built. *)
(*                                                                         *)
(* The invariant follows the calls that remain to be made: each finds the  *)
(* results it takes and leaves those that the next one needs.              *)
(***************************************************************************)
EXTENDS Parser, SequenceTheorems, WellFoundedInduction, TLAPS

------------------------------------------------------------------------------
(* What the variables hold. *)

Constructor == {"int", "char", "*", "[]"}

AnyType == Seq(Constructor)

FullType == AnyType \ {NoType}

Unary == {"dereference", "address of"}

Binary == {"*", "/", "+", "-", "==", "!=", "="}

Expressions ==
    Unary \cup Binary \cup {"subscript", "call", "integer", "string", "identifier"}

Node == [kind : Expressions \cup Statements, kids : Seq(Nat), type : AnyType,
         name : Name \cup {"", "integer", "string"}, from : Nat, to : Nat, parens : Nat]

Param == [name : Name, type : FullType]

Function == [type : FullType, args : Seq(Param), defined : BOOLEAN]

\* Tables from some of the names to S.
Tables(S) == UNION {[D -> S] : D \in SUBSET Name}

\* What calls do, what they expect and what they build: no call expects the
\* end of the source.
Do ==
    {"expect", "build", "prefix", "primary", "parenthesis", "suffix", "subscripts",
     "arguments", "argument", "call", "operators", "assignment", "post parse", "type",
     "basic type", "derived type", "array type", "name", "statement", "initial value",
     "declare", "block", "program", "parameters", "parameter", "signature", "body"}

Op ==
    {"", "(", ")", "]", "integer", ";", "}", "->"} \cup Unary \cup Binary
    \cup {"subscript", "expression", "return", "if", "while", "block"}

Calls == [do : Do, n : Nat, op : Op, from : Nat]

TypeOK ==
    /\ tokens \in Seq(Token \cup {EndOfFile})
    /\ at \in Nat \ {0}
    /\ todo \in Seq(Calls)
    /\ exprs \in Seq(Nat) /\ types \in Seq(FullType) /\ names \in Seq(Name)
    /\ nodes \in Seq(Node)
    /\ scope \in Seq(Tables(FullType)) /\ functions \in Tables(Function)
    /\ header \in Seq(Param)
    /\ status \in {"running", "done", "failed"}

------------------------------------------------------------------------------
(* The calls that remain. *)

\* n results, what is known of each, the number of types, of names and of
\* scopes; node is the one on top or 0, typed are nodes that have a type.
Layout == [n : Nat, e : [Nat -> {"raw", "typed", "statement"}],
           t : Nat, m : Nat, d : Nat, node : Nat, typed : SUBSET Nat]

\* The last k results are replaced by one, of which x is known.
Yields(a, b, k, x) ==
    /\ a.n >= k /\ b.n = a.n + 1 - k
    /\ \A i \in 1..a.n - k : b.e[i] = a.e[i]
    /\ b.e[b.n] = x

Same(a, b) == b.n = a.n /\ \A i \in 1..a.n : b.e[i] = a.e[i]

\* Of the last results, the one at k from the top.
TopIs(a, k, x) == a.n >= k /\ a.e[a.n + 1 - k] = x

TopsAre(a, k, x) == a.n >= k /\ \A i \in a.n + 1 - k..a.n : a.e[i] = x

\* So many types, names and scopes more.
Counts(a, b, t, m, d) == b.t = a.t + t /\ b.m = a.m + m /\ b.d = a.d + d

Plain(b) == b.node = 0 /\ b.typed = {}

BuildTakes(c, a, b) ==
    /\ Counts(a, b, 0, 0, 0)
    /\ \/ /\ c.op \in Unary /\ c.n = 1
          /\ TopIs(a, 1, "raw") /\ Yields(a, b, 1, "raw")
       \/ /\ c.op \in Binary /\ c.n = 2
          /\ TopIs(a, 1, "raw") /\ TopIs(a, 2, "raw") /\ Yields(a, b, 2, "raw")
       \/ /\ c.op = "subscript" /\ c.n = 2
          /\ TopIs(a, 1, "typed") /\ TopIs(a, 2, "raw") /\ Yields(a, b, 2, "raw")
       \/ /\ c.op \in {"expression", "return"} /\ c.n = 1
          /\ TopIs(a, 1, "typed") /\ Yields(a, b, 1, "statement")
       \/ /\ c.op \in {"if", "while"} /\ c.n = 2
          /\ TopIs(a, 1, "statement") /\ TopIs(a, 2, "typed")
          /\ Yields(a, b, 2, "statement")
       \/ /\ c.op = "block"
          /\ TopsAre(a, c.n, "statement") /\ Yields(a, b, c.n, "statement")

\* Something that is parsed behind an expression.
SuffixTakes(c, a, b) ==
    /\ Counts(a, b, 0, 0, 0)
    /\ TopIs(a, 1, "raw") /\ Same(a, b)
    /\ c.do = "operators" => c.n \in 1..3

ArgumentsTake(c, a, b) ==
    /\ Counts(a, b, 0, 0, 0)
    /\ TopsAre(a, c.n, "typed") /\ TopIs(a, c.n + 1, "raw")
    /\ Yields(a, b, c.n + 1, "raw")

StatementTakes(c, a, b) ==
    /\ a.d >= 1
    /\ \/ c.do = "statement" /\ Yields(a, b, 0, "statement") /\ Counts(a, b, 0, 0, 0)
       \/ /\ c.do = "initial value" /\ Yields(a, b, 0, "statement")
          /\ Counts(a, b, -1, -1, 0)
       \/ /\ c.do = "declare" /\ c.n \in {0, 1} /\ TopsAre(a, c.n, "typed")
          /\ Yields(a, b, c.n, "statement") /\ Counts(a, b, -1, -1, 0)
       \/ /\ c.do = "block" /\ a.d >= 2 /\ TopsAre(a, c.n, "statement")
          /\ Yields(a, b, c.n, "statement") /\ Counts(a, b, 0, 0, -1)
       \/ /\ c.do = "signature" /\ a.d = 1 /\ Yields(a, b, 0, "statement")
          /\ Counts(a, b, -1, -1, 0)
       \/ /\ c.do = "body" /\ a.d = 1 /\ TopsAre(a, c.n, "statement")
          /\ Yields(a, b, c.n, "statement") /\ Counts(a, b, 0, -1, 0)

\* Post parsing of node c.n in N, which is below the one on top.
OperandTakes(N, c, a, b) ==
    /\ c.n \in DOMAIN N /\ N[c.n].kind \in Expressions
    /\ Counts(a, b, 0, 0, 0)
    /\ b.typed \subseteq a.typed \cup {c.n}
    /\ b.node \in {0, a.node}
    /\ \/ Same(a, b)
       \/ /\ c.do = "type" /\ a.node = c.n
          /\ TopIs(a, 1, "raw") /\ Yields(a, b, 1, "typed")
    /\ c.do = "type" => ToSet(PostParsed(N[c.n])) \subseteq a.typed

\* The call c, made when the stacks are as a says, leaves them as b says, for
\* the nodes N.
Takes(N, c, a, b) ==
    /\ c.do = "type" \/ (c.do = "post parse" /\ c.n # 0) => OperandTakes(N, c, a, b)
    /\ ~(c.do = "type" \/ (c.do = "post parse" /\ c.n # 0)) => Plain(b)
    /\ c.do = "post parse" /\ c.n = 0 =>
          TopIs(a, 1, "raw") /\ Yields(a, b, 1, "typed") /\ Counts(a, b, 0, 0, 0)
    /\ c.do = "expect" => Same(a, b) /\ Counts(a, b, 0, 0, 0)
    /\ c.do = "build" => BuildTakes(c, a, b)
    /\ c.do \in {"prefix", "primary"} => Yields(a, b, 0, "raw") /\ Counts(a, b, 0, 0, 0)
    /\ c.do = "parenthesis" =>
          TopIs(a, 1, "typed") /\ Yields(a, b, 1, "raw") /\ Counts(a, b, 0, 0, 0)
    /\ c.do \in {"suffix", "subscripts", "operators", "assignment"} => SuffixTakes(c, a, b)
    /\ c.do \in {"arguments", "argument", "call"} => ArgumentsTake(c, a, b)
    /\ c.do = "basic type" => Same(a, b) /\ Counts(a, b, 1, 0, 0)
    /\ c.do \in {"derived type", "array type"} =>
          a.t >= 1 /\ Same(a, b) /\ Counts(a, b, 0, 0, 0)
    /\ c.do = "name" => Same(a, b) /\ Counts(a, b, 0, 1, 0)
    /\ c.do = "parameters" => Same(a, b) /\ Counts(a, b, 0, 0, 0)
    /\ c.do = "parameter" =>
          a.t >= 1 /\ a.m >= 1 /\ Same(a, b) /\ Counts(a, b, -1, -1, 0)
    /\ c.do \in {"statement", "initial value", "declare", "block", "signature", "body"} =>
          StatementTakes(c, a, b)
    /\ c.do = "program" => a.d = 1

\* The calls s, one after the other, lead from the layout a to the layout b.
Effect(N, s, a, b) ==
    \E h \in [1..Len(s) + 1 -> Layout] :
        /\ h[1] = a /\ h[Len(s) + 1] = b
        /\ \A k \in 1..Len(s) : Takes(N, s[k], h[k], h[k + 1])

\* The stacks are as the layout says.
Fits(a) ==
    /\ Len(exprs) = a.n /\ Len(types) = a.t /\ Len(names) = a.m /\ Len(scope) = a.d
    /\ \A i \in 1..a.n :
          /\ exprs[i] \in 1..Len(nodes)
          /\ a.e[i] = "statement" => nodes[exprs[i]].kind \in Statements
          /\ a.e[i] # "statement" => nodes[exprs[i]].kind \in Expressions
          /\ a.e[i] = "typed" => nodes[exprs[i]].type # NoType
    /\ a.node # 0 => a.n >= 1 /\ exprs[a.n] = a.node
    /\ \A i \in a.typed : i \in 1..Len(nodes) /\ nodes[i].type # NoType

WorkInv == \E a, z \in Layout : Fits(a) /\ Effect(nodes, todo, a, z)

------------------------------------------------------------------------------
(* The nodes. *)

\* The operands of node, the one at i of N, come before it; they are as many as
\* its kind has, and expressions if it is one.
OperandsSound(N, node, i) ==
    /\ \A k \in 1..Len(node.kids) :
          node.kids[k] \in 1..i - 1
          /\ (node.kind \in Expressions => N[node.kids[k]].kind \in Expressions)
    /\ node.kind \in Unary => Len(node.kids) = 1
    /\ node.kind \in Binary \cup {"subscript"} => Len(node.kids) = 2
    /\ node.kind = "call" => Len(node.kids) >= 1
    /\ node.kind \in {"integer", "string", "identifier"} => Len(node.kids) = 0

\* The operands that post_parse does not reach have a type already, and once
\* the node has one, so have the others.
OperandsTyped(N, node) ==
    /\ node.kind = "subscript" => N[node.kids[2]].type # NoType
    /\ node.kind = "call" => \A k \in 2..Len(node.kids) : N[node.kids[k]].type # NoType
    /\ node.type # NoType \/ node.kind \in Statements =>
          \A k \in Operand(node) : N[k].type # NoType \/ N[k].kind \in Statements

Sound(N, node, i) == OperandsSound(N, node, i) /\ OperandsTyped(N, node)

NodesInv == \A i \in 1..Len(nodes) : Sound(nodes, nodes[i], i)

\* What has been read does not hold the end of the source.
SourceInv == at <= Len(tokens) + 1 /\ \A k \in 1..at - 1 : tokens[k] # EndOfFile

ParserInv == TypeOK /\ SourceInv /\ NodesInv /\ WorkInv

------------------------------------------------------------------------------
(* Effects compose. *)

IsSeq(s) == \E S : s \in Seq(S)

LEMMA ListsAreSeqs ==
    /\ \A t : IsSeq(<<t>>)
    /\ \A t, u : IsSeq(<<t, u>>)
    /\ \A t, u, v : IsSeq(<<t, u, v>>)
    /\ \A t, u, v, w : IsSeq(<<t, u, v, w>>)
<1>1. ASSUME NEW t PROVE IsSeq(<<t>>)
  <2>1. <<t>> \in Seq({t})
    OBVIOUS
  <2> QED
    BY <2>1 DEF IsSeq
<1>2. ASSUME NEW t, NEW u PROVE IsSeq(<<t, u>>)
  <2>1. <<t, u>> \in Seq({t, u})
    OBVIOUS
  <2> QED
    BY <2>1 DEF IsSeq
<1>3. ASSUME NEW t, NEW u, NEW v PROVE IsSeq(<<t, u, v>>)
  <2>1. <<t, u, v>> \in Seq({t, u, v})
    OBVIOUS
  <2> QED
    BY <2>1 DEF IsSeq
<1>4. ASSUME NEW t, NEW u, NEW v, NEW w PROVE IsSeq(<<t, u, v, w>>)
  <2>1. <<t, u, v, w>> \in Seq({t, u, v, w})
    OBVIOUS
  <2> QED
    BY <2>1 DEF IsSeq
<1> QED
  BY <1>1, <1>2, <1>3, <1>4

LEMMA EffectNone ==
    ASSUME NEW N, NEW a \in Layout
    PROVE  /\ Effect(N, <<>>, a, a)
           /\ \A z : Effect(N, <<>>, a, z) => z = a
<1>1. Len(<<>>) = 0 /\ 1..0 = {} /\ 1..1 = {1}
  BY EmptySeq
<1>2. Effect(N, <<>>, a, a)
  <2> DEFINE h == [k \in 1..1 |-> a]
  <2>1. h \in [1..1 -> Layout] /\ h[1] = a
    OBVIOUS
  <2> HIDE DEF h
  <2> QED
    BY <1>1, <2>1 DEF Effect
<1>3. \A z : Effect(N, <<>>, a, z) => z = a
  BY <1>1 DEF Effect
<1> QED
  BY <1>2, <1>3

LEMMA EffectOne ==
    ASSUME NEW N, NEW t, NEW a \in Layout, NEW b \in Layout, Takes(N, t, a, b)
    PROVE  Effect(N, <<t>>, a, b)
<1> DEFINE h == [k \in 1..2 |-> IF k = 1 THEN a ELSE b]
           s == <<t>>
<1>1. Len(s) = 1 /\ s[1] = t /\ 1..1 = {1}
  OBVIOUS
<1>2. h \in [1..2 -> Layout] /\ h[1] = a /\ h[2] = b
  OBVIOUS
<1> HIDE DEF h, s
<1>3. Effect(N, s, a, b)
  <2>1. h \in [1..Len(s) + 1 -> Layout] /\ h[Len(s) + 1] = b
    BY <1>1, <1>2
  <2>2. \A k \in 1..Len(s) : Takes(N, s[k], h[k], h[k + 1])
    BY <1>1, <1>2
  <2> QED
    BY <1>2, <2>1, <2>2 DEF Effect
<1> QED
  BY <1>3 DEF s

LEMMA EffectThen ==
    ASSUME NEW N, NEW s, NEW t, IsSeq(s), IsSeq(t), NEW a, NEW b, NEW c,
           Effect(N, s, a, b), Effect(N, t, b, c)
    PROVE  Effect(N, s \o t, a, c) /\ IsSeq(s \o t)
<1>0. PICK S, T : s \in Seq(S) /\ t \in Seq(T)
  BY DEF IsSeq
<1>1. PICK g \in [1..Len(s) + 1 -> Layout] :
        /\ g[1] = a /\ g[Len(s) + 1] = b
        /\ \A k \in 1..Len(s) : Takes(N, s[k], g[k], g[k + 1])
  BY DEF Effect
<1>2. PICK h \in [1..Len(t) + 1 -> Layout] :
        /\ h[1] = b /\ h[Len(t) + 1] = c
        /\ \A k \in 1..Len(t) : Takes(N, t[k], h[k], h[k + 1])
  BY DEF Effect
<1> DEFINE n == Len(s)
           m == Len(t)
           u == s \o t
           f == [k \in 1..n + m + 1 |-> IF k <= n THEN g[k] ELSE h[k - n]]
<1>3. n \in Nat /\ m \in Nat
  BY <1>0, LenProperties
<1>4. /\ u \in Seq(S \cup T) /\ Len(u) = n + m
      /\ \A k \in 1..n + m : u[k] = IF k <= n THEN s[k] ELSE t[k - n]
  <2>1. s \in Seq(S \cup T) /\ t \in Seq(S \cup T)
    BY <1>0, SeqMonotonic
  <2> QED
    BY <2>1, ConcatProperties
<1>5. /\ g \in [1..n + 1 -> Layout] /\ g[1] = a /\ g[n + 1] = b
      /\ h \in [1..m + 1 -> Layout] /\ h[1] = b /\ h[m + 1] = c
      /\ \A k \in 1..n : Takes(N, s[k], g[k], g[k + 1])
      /\ \A k \in 1..m : Takes(N, t[k], h[k], h[k + 1])
  BY <1>1, <1>2
<1>6. \A k \in 1..n + m + 1 : f[k] = IF k <= n THEN g[k] ELSE h[k - n]
  OBVIOUS
<1>7. f \in [1..n + m + 1 -> Layout]
  <2>1. ASSUME NEW k \in 1..n + m + 1
        PROVE  (IF k <= n THEN g[k] ELSE h[k - n]) \in Layout
    <3> HIDE DEF n, m
    <3>1. CASE k <= n
      <4>1. k \in 1..n + 1
        BY <1>3, <3>1
      <4> QED
        BY <1>5, <3>1, <4>1
    <3>2. CASE ~(k <= n)
      <4>1. k - n \in 1..m + 1
        BY <1>3, <3>2
      <4> QED
        BY <1>5, <3>2, <4>1
    <3> QED
      BY <3>1, <3>2
  <2> QED
    BY <2>1
<1> HIDE DEF f, n, m, u
<1>8. f[1] = a
  <2>1. CASE n = 0
    <3>1. f[1] = h[1 - n] /\ a = b
      BY <1>3, <1>5, <1>6, <2>1
    <3> QED
      BY <1>5, <2>1, <3>1
  <2>2. CASE n # 0
    BY <1>3, <1>5, <1>6, <2>2
  <2> QED
    BY <2>1, <2>2
<1>9. f[n + m + 1] = c
  <2>1. n + m + 1 \in 1..n + m + 1 /\ ~(n + m + 1 <= n) /\ (n + m + 1) - n = m + 1
    BY <1>3
  <2> QED
    BY <1>5, <1>6, <2>1
<1>10. ASSUME NEW k \in 1..n + m
       PROVE  Takes(N, u[k], f[k], f[k + 1])
  <2>1. CASE k <= n
    <3>1. k \in 1..n /\ k \in 1..n + m + 1 /\ k + 1 \in 1..n + m + 1
      BY <1>3, <2>1
    <3>2. u[k] = s[k] /\ f[k] = g[k]
      BY <1>4, <1>6, <2>1, <3>1
    <3>3. f[k + 1] = g[k + 1]
      <4>1. CASE k + 1 <= n
        BY <1>6, <3>1, <4>1
      <4>2. CASE ~(k + 1 <= n)
        <5>1. k + 1 = n + 1 /\ (k + 1) - n = 1
          BY <1>3, <2>1, <4>2
        <5>2. f[k + 1] = h[1]
          BY <1>6, <3>1, <4>2, <5>1
        <5> QED
          BY <1>5, <5>1, <5>2
      <4> QED
        BY <4>1, <4>2
    <3> QED
      BY <1>5, <3>1, <3>2, <3>3
  <2>2. CASE ~(k <= n)
    <3>1. PICK l : l = k - n
      OBVIOUS
    <3>2. /\ l \in 1..m /\ k \in 1..n + m + 1 /\ k + 1 \in 1..n + m + 1
          /\ ~(k + 1 <= n) /\ (k + 1) - n = l + 1
      BY <1>3, <2>2, <3>1
    <3>3. u[k] = t[l] /\ f[k] = h[l]
      BY <1>4, <1>6, <2>2, <3>1, <3>2
    <3>4. f[k + 1] = h[l + 1]
      BY <1>6, <3>2
    <3> QED
      BY <1>5, <3>2, <3>3, <3>4
  <2> QED
    BY <2>1, <2>2
<1>11. Effect(N, u, a, c)
  <2>1. Len(u) + 1 = n + m + 1
    BY <1>3, <1>4
  <2> QED
    BY <1>4, <1>7, <1>8, <1>9, <1>10, <2>1 DEF Effect
<1> QED
  BY <1>4, <1>11 DEF u, IsSeq

\* The first call, and what the others do then.
LEMMA EffectFirst ==
    ASSUME NEW N, NEW S, NEW s \in Seq(S), s # <<>>, NEW a, NEW z, Effect(N, s, a, z)
    PROVE  \E b \in Layout : Takes(N, s[1], a, b) /\ Effect(N, Tail(s), b, z)
<1>1. PICK h \in [1..Len(s) + 1 -> Layout] :
        /\ h[1] = a /\ h[Len(s) + 1] = z
        /\ \A k \in 1..Len(s) : Takes(N, s[k], h[k], h[k + 1])
  BY DEF Effect
<1> DEFINE n == Len(s)
           t == Tail(s)
           g == [k \in 1..n |-> h[k + 1]]
<1>2. /\ n \in Nat /\ n >= 1
      /\ t \in Seq(S) /\ Len(t) = n - 1
      /\ \A k \in 1..Len(t) : t[k] = s[k + 1]
  BY EmptySeq, LenProperties, HeadTailProperties
<1>3. /\ h \in [1..n + 1 -> Layout] /\ h[1] = a /\ h[n + 1] = z
      /\ \A k \in 1..n : Takes(N, s[k], h[k], h[k + 1])
  BY <1>1
<1>4. \A k \in 1..n : g[k] = h[k + 1]
  OBVIOUS
<1>5. g \in [1..n -> Layout]
  <2>1. ASSUME NEW k \in 1..n PROVE h[k + 1] \in Layout
    <3> HIDE DEF n
    <3>1. k + 1 \in 1..n + 1
      BY <1>2
    <3> QED
      BY <1>3, <3>1
  <2> QED
    BY <2>1
<1> HIDE DEF g, n, t
<1>6. h[2] \in Layout /\ Takes(N, s[1], a, h[2])
  <2>1. 1 \in 1..n /\ 2 \in 1..n + 1 /\ 1 + 1 = 2
    BY <1>2
  <2> QED
    BY <1>3, <2>1
<1>7. Effect(N, t, h[2], z)
  <2>1. Len(t) + 1 = n
    BY <1>2
  <2>2. g[1] = h[2] /\ g[n] = z
    <3>1. 1 \in 1..n /\ n \in 1..n /\ 1 + 1 = 2
      BY <1>2
    <3> QED
      BY <1>3, <1>4, <3>1
  <2>3. ASSUME NEW k \in 1..Len(t)
        PROVE  Takes(N, t[k], g[k], g[k + 1])
    <3>1. k \in 1..n /\ k + 1 \in 1..n
      BY <1>2, <2>1
    <3>2. t[k] = s[k + 1] /\ g[k] = h[k + 1] /\ g[k + 1] = h[k + 1 + 1]
      BY <1>2, <1>4, <3>1
    <3> QED
      BY <1>3, <3>1, <3>2
  <2> QED
    BY <1>5, <2>1, <2>2, <2>3 DEF Effect
<1> QED
  BY <1>6, <1>7 DEF t

\* The nodes of N stay in M what they are, with at least the types they have.
Grows(N, M) ==
    /\ DOMAIN N \subseteq DOMAIN M
    /\ \A i \in DOMAIN N : /\ M[i].kind = N[i].kind /\ M[i].kids = N[i].kids
                           /\ N[i].type # NoType => M[i].type # NoType

LEMMA TakesKept ==
    ASSUME NEW N, NEW M, Grows(N, M), NEW c, NEW a, NEW b, Takes(N, c, a, b)
    PROVE  Takes(M, c, a, b)
<1>1. ASSUME OperandTakes(N, c, a, b) PROVE OperandTakes(M, c, a, b)
  <2>1. c.n \in DOMAIN N /\ c.n \in DOMAIN M
    BY <1>1 DEF OperandTakes, Grows
  <2>2. M[c.n].kind = N[c.n].kind /\ M[c.n].kids = N[c.n].kids
    BY <2>1 DEF Grows
  <2>3. PostParsed(M[c.n]) = PostParsed(N[c.n])
    BY <2>2 DEF PostParsed
  <2> QED
    BY <1>1, <2>1, <2>2, <2>3 DEF OperandTakes
<1> QED
  BY <1>1 DEF Takes

LEMMA EffectKept ==
    ASSUME NEW N, NEW M, Grows(N, M), NEW s, NEW a, NEW b, Effect(N, s, a, b)
    PROVE  Effect(M, s, a, b)
BY TakesKept DEF Effect

\* A call that runs makes others: the stacks fit those, which lead to where it
\* would have led itself.
LEMMA WorkGoesOn ==
    ASSUME TypeOK, todo # <<>>, NEW c \in Layout, NEW z \in Layout,
           Effect(nodes, Tail(todo), c, z), NEW calls, IsSeq(calls), Then(calls),
           NEW b \in Layout, Fits(b)', Effect(nodes', calls, b, c), Grows(nodes, nodes')
    PROVE  WorkInv'
<1>1. todo \in Seq(Calls) /\ Tail(todo) \in Seq(Calls)
  BY HeadTailProperties DEF TypeOK
<1>2. IsSeq(Tail(todo))
  BY <1>1 DEF IsSeq
<1>3. Effect(nodes', Tail(todo), c, z)
  BY EffectKept
<1>4. Effect(nodes', calls \o Tail(todo), b, z)
  BY <1>2, <1>3, EffectThen
<1>5. todo' = calls \o Tail(todo)
  BY DEF Then
<1>6. Effect(nodes', todo', b, z)
  BY <1>4, <1>5
<1> QED
  BY <1>6 DEF WorkInv

LEMMA FirstCall ==
    ASSUME TypeOK, WorkInv, todo # <<>>
    PROVE  /\ Top \in Calls
           /\ \E a, c, z \in Layout : /\ Fits(a) /\ Takes(nodes, Top, a, c)
                                      /\ Effect(nodes, Tail(todo), c, z)
<1>1. todo \in Seq(Calls)
  BY DEF TypeOK
<1>2. PICK a \in Layout, z \in Layout : Fits(a) /\ Effect(nodes, todo, a, z)
  BY DEF WorkInv
<1>3. PICK c \in Layout : Takes(nodes, todo[1], a, c) /\ Effect(nodes, Tail(todo), c, z)
  BY <1>1, <1>2, EffectFirst
<1>4. Top = todo[1] /\ Top \in Calls
  BY <1>1, HeadTailProperties DEF Top
<1> QED
  BY <1>2, <1>3, <1>4

------------------------------------------------------------------------------
(* The source. *)

\* What is done with the next token.
Moves == Stay \/ (Eat /\ Known /\ Tok # EndOfFile)

LEMMA MovesKeep ==
    ASSUME TypeOK, SourceInv, Moves
    PROVE  SourceInv' /\ tokens' = tokens /\ at' \in Nat \ {0} /\ at' \in at..at + 1
<1>1. at \in Nat \ {0} /\ Len(tokens) \in Nat
  BY LenProperties DEF TypeOK
<1>2. CASE Stay
  BY <1>1, <1>2 DEF Stay, SourceInv, input
<1>3. CASE Eat /\ Known /\ Tok # EndOfFile
  BY <1>1, <1>3 DEF Eat, SourceInv, input, Known, Tok
<1> QED
  BY <1>2, <1>3 DEF Moves

LEMMA RevealKeeps ==
    ASSUME ParserInv, Reveal
    PROVE  ParserInv'
<1>1. PICK t \in Token \cup {EndOfFile} : tokens' = Append(tokens, t)
  BY DEF Reveal
<1>2. /\ tokens \in Seq(Token \cup {EndOfFile}) /\ at \in Nat \ {0}
      /\ Len(tokens) \in Nat
  BY LenProperties DEF ParserInv, TypeOK
<1>3. /\ tokens' \in Seq(Token \cup {EndOfFile}) /\ Len(tokens') = Len(tokens) + 1
      /\ \A i \in 1..Len(tokens) : tokens'[i] = tokens[i]
  BY <1>1, <1>2, AppendProperties
<1>4. UNCHANGED <<limit, at, todo, results, nodes, tables, status>>
  BY DEF Reveal
<1>5. TypeOK'
  BY <1>3, <1>4 DEF ParserInv, TypeOK, results, tables
<1>6. SourceInv'
  BY <1>2, <1>3, <1>4 DEF ParserInv, SourceInv
<1>7. NodesInv'
  BY <1>4 DEF ParserInv, NodesInv
<1>8. WorkInv'
  BY <1>4 DEF ParserInv, WorkInv, Fits, results, tables
<1> QED
  BY <1>5, <1>6, <1>7, <1>8 DEF ParserInv

LEMMA FailKeeps ==
    ASSUME ParserInv, Fail
    PROVE  ParserInv'
<1>1. /\ UNCHANGED <<input, at, todo, results, nodes, tables>> /\ status' = "failed"
  BY DEF Fail
<1>2. TypeOK'
  BY <1>1 DEF ParserInv, TypeOK, input, results, tables
<1>3. SourceInv' /\ NodesInv'
  BY <1>1 DEF ParserInv, SourceInv, NodesInv, input
<1>4. WorkInv'
  BY <1>1 DEF ParserInv, WorkInv, Fits, results, tables
<1> QED
  BY <1>2, <1>3, <1>4 DEF ParserInv

\* A call that only makes others.
LEMMA GoesKeeps ==
    ASSUME ParserInv, todo # <<>>, Moves, NEW calls \in Seq(Calls), Goes(calls),
           NEW b \in Layout, NEW c \in Layout, NEW z \in Layout,
           Fits(b), Effect(nodes, calls, b, c), Effect(nodes, Tail(todo), c, z)
    PROVE  ParserInv'
<1>1. /\ Then(calls) /\ UNCHANGED <<results, nodes, tables, status>>
  BY DEF Goes
<1>2. SourceInv' /\ tokens' = tokens /\ at' \in Nat \ {0}
  BY MovesKeep DEF ParserInv
<1>3. todo' \in Seq(Calls)
  <2>1. Tail(todo) \in Seq(Calls)
    BY HeadTailProperties DEF ParserInv, TypeOK
  <2> QED
    BY <1>1, <2>1, ConcatProperties DEF Then
<1>4. TypeOK'
  BY <1>1, <1>2, <1>3 DEF ParserInv, TypeOK, results, tables
<1>5. NodesInv'
  BY <1>1 DEF ParserInv, NodesInv
<1>6. Fits(b)'
  BY <1>1 DEF Fits, results, tables
<1>7. Grows(nodes, nodes') /\ nodes' = nodes
  BY <1>1 DEF Grows
<1>8. IsSeq(calls)
  BY DEF IsSeq
<1>9. WorkInv'
  <2>1. Effect(nodes', calls, b, c)
    BY <1>7
  <2> QED
    BY <1>1, <1>6, <1>7, <1>8, <2>1, WorkGoesOn DEF ParserInv
<1> QED
  BY <1>2, <1>4, <1>5, <1>9 DEF ParserInv

------------------------------------------------------------------------------
(* The calls that the functions of the parser are made of. *)

\* A layout with one result more, and with other counts.
Pushed(a, x) ==
    [n |-> a.n + 1, e |-> [a.e EXCEPT ![a.n + 1] = x],
     t |-> a.t, m |-> a.m, d |-> a.d, node |-> 0, typed |-> {}]

Counted(a, t, m, d) ==
    [n |-> a.n, e |-> a.e, t |-> a.t + t, m |-> a.m + m, d |-> a.d + d,
     node |-> 0, typed |-> {}]

LEMMA LayoutIs ==
    ASSUME NEW a \in Layout
    PROVE  /\ a.n \in Nat /\ a.t \in Nat /\ a.m \in Nat /\ a.d \in Nat /\ a.node \in Nat
           /\ a.e \in [Nat -> {"raw", "typed", "statement"}]
BY DEF Layout

LEMMA PushedIs ==
    ASSUME NEW a \in Layout, NEW x \in {"raw", "typed", "statement"}
    PROVE  /\ Pushed(a, x) \in Layout /\ Plain(Pushed(a, x))
           /\ Yields(a, Pushed(a, x), 0, x) /\ Counts(a, Pushed(a, x), 0, 0, 0)
           /\ TopIs(Pushed(a, x), 1, x)
           /\ Pushed(a, x).n = a.n + 1 /\ Pushed(a, x).e[a.n + 1] = x
           /\ \A i \in 1..a.n : Pushed(a, x).e[i] = a.e[i]
<1> DEFINE p == Pushed(a, x)
<1>1. a.n \in Nat /\ a.t \in Nat /\ a.m \in Nat /\ a.d \in Nat
      /\ a.e \in [Nat -> {"raw", "typed", "statement"}]
  BY LayoutIs
<1>2. /\ p.n = a.n + 1 /\ p.e = [a.e EXCEPT ![a.n + 1] = x]
      /\ p.t = a.t /\ p.m = a.m /\ p.d = a.d /\ p.node = 0 /\ p.typed = {}
  BY DEF Pushed
<1>3. p.e \in [Nat -> {"raw", "typed", "statement"}]
  BY <1>1, <1>2
<1>4. p \in Layout
  BY <1>1, <1>3 DEF Pushed, Layout
<1>5. p.e[a.n + 1] = x /\ \A i \in 1..a.n : p.e[i] = a.e[i]
  BY <1>1, <1>2
<1> HIDE DEF p
<1> QED
  <2>1. Yields(a, p, 0, x)
    BY <1>1, <1>2, <1>5 DEF Yields
  <2>2. Counts(a, p, 0, 0, 0) /\ Plain(p)
    BY <1>1, <1>2 DEF Counts, Plain
  <2>3. TopIs(p, 1, x)
    BY <1>1, <1>2, <1>5 DEF TopIs
  <2> QED
    BY <1>2, <1>4, <1>5, <2>1, <2>2, <2>3 DEF p

LEMMA CountedIs ==
    ASSUME NEW a \in Layout, NEW t \in Int, NEW m \in Int, NEW d \in Int,
           a.t + t >= 0, a.m + m >= 0, a.d + d >= 0
    PROVE  /\ Counted(a, t, m, d) \in Layout /\ Plain(Counted(a, t, m, d))
           /\ Same(a, Counted(a, t, m, d)) /\ Counts(a, Counted(a, t, m, d), t, m, d)
           /\ Counted(a, t, m, d).n = a.n /\ Counted(a, t, m, d).e = a.e
BY LayoutIs DEF Counted, Plain, Same, Counts, Layout

LEMMA CallsAre ==
    ASSUME NEW from \in Nat, NEW do \in Do, NEW n \in Nat
    PROVE  /\ Since(from, do, n) \in Calls
           /\ Since(from, do, n).do = do /\ Since(from, do, n).n = n
           /\ Since(from, do, n).from = from
BY DEF Since, Calls, Op

LEMMA HandlersAre ==
    ASSUME at \in Nat, NEW n \in Nat
    PROVE  /\ Since(at, "post parse", n) \in Calls
           /\ Since(at, "post parse", n).do = "post parse"
           /\ Since(at, "post parse", n).n = n
BY DEF Since, Calls, Op, Do

LEMMA CallIs ==
    ASSUME at \in Nat
    PROVE  \A do \in Do : Call(do) \in Calls /\ Call(do).do = do /\ Call(do).n = 0
BY CallsAre DEF Call

LEMMA ExpectIs ==
    ASSUME at \in Nat
    PROVE  \A token \in Op : /\ Expect(token) \in Calls /\ Expect(token).do = "expect"
                                 /\ Expect(token).op = token
BY DEF Expect, Call, Since, Calls, Do

LEMMA BuildIs ==
    ASSUME NEW from \in Nat
    PROVE  \A kind \in Op, n \in Nat :
              /\ Build(from, kind, n) \in Calls /\ Build(from, kind, n).do = "build"
              /\ Build(from, kind, n).op = kind /\ Build(from, kind, n).n = n
BY DEF Build, Since, Calls, Do

LEMMA ListsAre ==
    /\ \A t \in Calls : <<t>> \in Seq(Calls)
    /\ \A t, u \in Calls : <<t, u>> \in Seq(Calls) /\ <<t, u>> = <<t>> \o <<u>>
    /\ \A t, u, v \in Calls : <<t, u, v>> \in Seq(Calls) /\ <<t, u, v>> = <<t, u>> \o <<v>>
    /\ \A t, u, v, w \in Calls :
          <<t, u, v, w>> \in Seq(Calls) /\ <<t, u, v, w>> = <<t, u, v>> \o <<w>>
<1>1. \A t \in Calls : <<t>> \in Seq(Calls)
  OBVIOUS
<1>2. ASSUME NEW t \in Calls, NEW u \in Calls
      PROVE  <<t, u>> \in Seq(Calls) /\ <<t, u>> = <<t>> \o <<u>>
  <2>1. <<t, u>> \in Seq(Calls) /\ <<t>> \in Seq(Calls) /\ <<u>> \in Seq(Calls)
    OBVIOUS
  <2>2. /\ <<t>> \o <<u>> \in Seq(Calls) /\ Len(<<t>>) = 1 /\ Len(<<u>>) = 1
        /\ Len(<<t>> \o <<u>>) = 2
        /\ (<<t>> \o <<u>>)[1] = t /\ (<<t>> \o <<u>>)[2] = u
    BY <2>1, ConcatProperties
  <2>3. Len(<<t, u>>) = 2 /\ 1..2 = {1, 2} /\ <<t, u>>[1] = t /\ <<t, u>>[2] = u
    OBVIOUS
  <2> QED
    BY <2>1, <2>2, <2>3, SeqEqual
<1>3. ASSUME NEW t \in Calls, NEW u \in Calls, NEW v \in Calls
      PROVE  <<t, u, v>> \in Seq(Calls) /\ <<t, u, v>> = <<t, u>> \o <<v>>
  OBVIOUS
<1>4. ASSUME NEW t \in Calls, NEW u \in Calls, NEW v \in Calls, NEW w \in Calls
      PROVE  <<t, u, v, w>> \in Seq(Calls) /\ <<t, u, v, w>> = <<t, u, v>> \o <<w>>
  OBVIOUS
<1> QED
  BY <1>1, <1>2, <1>3, <1>4

LEMMA FourAre ==
    ASSUME NEW t \in Calls, NEW u \in Calls, NEW v \in Calls, NEW w \in Calls
    PROVE  <<t, u>> \o <<v, w>> = <<t, u, v, w>>
<1>1. /\ <<v>> \in Seq(Calls) /\ <<w>> \in Seq(Calls) /\ <<t, u>> \in Seq(Calls)
      /\ <<v, w>> = <<v>> \o <<w>>
  BY ListsAre
<1>2. <<t, u, v>> = <<t, u>> \o <<v>>
  BY ListsAre
<1>3. <<t, u, v, w>> = <<t, u, v>> \o <<w>>
  BY ListsAre
<1>4. <<t, u>> \o (<<v>> \o <<w>>) = (<<t, u>> \o <<v>>) \o <<w>>
  BY <1>1, ConcatAssociative
<1> QED
  BY <1>1, <1>2, <1>3, <1>4

\* What is parsed behind an expression leaves one.
LEMMA SuffixesRun ==
    ASSUME NEW N, NEW n \in Nat, NEW s, Len(s) = n,
           \A k \in 1..n : /\ s[k].do \in {"suffix", "subscripts", "operators", "assignment"}
                           /\ s[k].do = "operators" => s[k].n \in 1..3,
           NEW p \in Layout, TopIs(p, 1, "raw"), Plain(p)
    PROVE  Effect(N, s, p, p)
<1> DEFINE h == [k \in 1..n + 1 |-> p]
<1>1. h \in [1..n + 1 -> Layout] /\ h[1] = p /\ h[n + 1] = p
  OBVIOUS
<1>2. \A k \in 1..n : h[k] = p /\ h[k + 1] = p
  OBVIOUS
<1> HIDE DEF h
<1>3. Counts(p, p, 0, 0, 0) /\ Same(p, p)
  BY LayoutIs DEF Counts, Same
<1>4. \A k \in 1..n : Takes(N, s[k], p, p)
  BY <1>3 DEF Takes, SuffixTakes
<1> QED
  BY <1>1, <1>2, <1>4 DEF Effect

LEMMA LevelRuns ==
    ASSUME NEW N, at \in Nat, NEW n \in 0..3, NEW a \in Layout
    PROVE  Level(n) \in Seq(Calls) /\ Effect(N, Level(n), a, Pushed(a, "raw"))
<1> DEFINE s == [k \in 1..n |-> Since(at, "operators", k)]
           p == Pushed(a, "raw")
<1>1. /\ p \in Layout /\ Plain(p) /\ TopIs(p, 1, "raw")
      /\ Yields(a, p, 0, "raw") /\ Counts(a, p, 0, 0, 0)
  BY PushedIs
<1>2. s \in Seq(Calls) /\ Len(s) = n
  <2>1. \A k \in 1..n : Since(at, "operators", k) \in Calls
    <3>1. ASSUME NEW k \in 1..n PROVE Since(at, "operators", k) \in Calls
      <4>1. k \in Nat /\ "operators" \in Do
        BY DEF Do
      <4> QED
        BY <4>1, CallsAre
    <3> QED
      BY <3>1
  <2> QED
    BY <2>1
<1>3. \A k \in 1..n : s[k].do = "operators" /\ s[k].n \in 1..3
  <2>1. ASSUME NEW k \in 1..n PROVE s[k].do = "operators" /\ s[k].n \in 1..3
    <3>1. k \in Nat /\ k \in 1..3 /\ "operators" \in Do
      BY DEF Do
    <3>2. s[k] = Since(at, "operators", k)
      OBVIOUS
    <3> QED
      BY <3>1, <3>2, CallsAre
  <2> QED
    BY <2>1
<1> HIDE DEF s, p
<1>4. Effect(N, s, p, p)
  BY <1>1, <1>2, <1>3, SuffixesRun
<1>5. Call("prefix") \in Calls /\ Call("prefix").do = "prefix"
  BY CallIs DEF Do
<1>6. Effect(N, <<Call("prefix")>>, a, p)
  <2>1. Takes(N, Call("prefix"), a, p)
    BY <1>1, <1>5 DEF Takes
  <2> QED
    BY <1>1, <2>1, EffectOne
<1>7. IsSeq(<<Call("prefix")>>) /\ IsSeq(s)
  BY <1>2, ListsAreSeqs DEF IsSeq
<1>8. Level(n) = <<Call("prefix")>> \o s
  BY DEF Level, s
<1>9. <<Call("prefix")>> \o s \in Seq(Calls)
  <2>1. <<Call("prefix")>> \in Seq(Calls)
    BY <1>5
  <2> QED
    BY <1>2, <2>1, ConcatProperties
<1> QED
  BY <1>4, <1>6, <1>7, <1>8, <1>9, EffectThen DEF p

\* One call behind others.
LEMMA EffectMore ==
    ASSUME NEW N, NEW s \in Seq(Calls), NEW t \in Calls, NEW a, NEW b \in Layout,
           NEW c \in Layout, Effect(N, s, a, b), Takes(N, t, b, c)
    PROVE  s \o <<t>> \in Seq(Calls) /\ Effect(N, s \o <<t>>, a, c)
<1>1. <<t>> \in Seq(Calls) /\ IsSeq(<<t>>) /\ IsSeq(s)
  BY ListsAreSeqs DEF IsSeq
<1>2. s \o <<t>> \in Seq(Calls)
  BY <1>1, ConcatProperties
<1> QED
  BY <1>1, <1>2, EffectOne, EffectThen

LEMMA AssignmentRuns ==
    ASSUME NEW N, at \in Nat, NEW a \in Layout
    PROVE  Assignment \in Seq(Calls) /\ Effect(N, Assignment, a, Pushed(a, "raw"))
<1> DEFINE p == Pushed(a, "raw")
<1>1. p \in Layout /\ Plain(p) /\ TopIs(p, 1, "raw")
  BY PushedIs
<1>2. Level(3) \in Seq(Calls) /\ Effect(N, Level(3), a, p)
  BY LevelRuns
<1> HIDE DEF p
<1>3. Call("assignment") \in Calls /\ Call("assignment").do = "assignment"
  BY CallIs DEF Do
<1>4. Takes(N, Call("assignment"), p, p)
  <2>1. Counts(p, p, 0, 0, 0) /\ Same(p, p)
    BY <1>1, LayoutIs DEF Counts, Same
  <2> QED
    BY <1>1, <1>3, <2>1 DEF Takes, SuffixTakes
<1> QED
  BY <1>1, <1>2, <1>3, <1>4, EffectMore DEF Assignment, p

LEMMA ExpressionRuns ==
    ASSUME NEW N, at \in Nat, NEW a \in Layout
    PROVE  Expression \in Seq(Calls) /\ Effect(N, Expression, a, Pushed(a, "typed"))
<1> DEFINE p == Pushed(a, "raw")
           q == Pushed(a, "typed")
<1>1. /\ p \in Layout /\ p.n = a.n + 1 /\ TopIs(p, 1, "raw") /\ Counts(a, p, 0, 0, 0)
      /\ \A i \in 1..a.n : p.e[i] = a.e[i]
  BY PushedIs
<1>2. /\ q \in Layout /\ Plain(q) /\ q.n = a.n + 1 /\ q.e[a.n + 1] = "typed"
      /\ Counts(a, q, 0, 0, 0)
      /\ \A i \in 1..a.n : q.e[i] = a.e[i]
  BY PushedIs
<1>3. Assignment \in Seq(Calls) /\ Effect(N, Assignment, a, p)
  BY AssignmentRuns
<1> HIDE DEF p, q
<1>4. /\ Call("post parse") \in Calls /\ Call("post parse").do = "post parse"
      /\ Call("post parse").n = 0
  BY CallIs DEF Do
<1>5. Takes(N, Call("post parse"), p, q)
  <2>1. Yields(p, q, 1, "typed")
    BY <1>1, <1>2, LayoutIs DEF Yields
  <2>2. Counts(p, q, 0, 0, 0)
    BY <1>1, <1>2, LayoutIs DEF Counts
  <2> QED
    BY <1>1, <1>2, <1>4, <2>1, <2>2 DEF Takes
<1> QED
  BY <1>1, <1>2, <1>3, <1>4, <1>5, EffectMore DEF Expression, q

\* A type, which becomes the last one.
LEMMA TypeRuns ==
    ASSUME NEW N, at \in Nat, NEW a \in Layout
    PROVE  Type \in Seq(Calls) /\ Effect(N, Type, a, Counted(a, 1, 0, 0))
<1> DEFINE p == Counted(a, 1, 0, 0)
<1>0. a.t \in Nat /\ a.m \in Nat /\ a.d \in Nat
  BY LayoutIs
<1>1. p \in Layout /\ Plain(p) /\ Same(a, p) /\ Counts(a, p, 1, 0, 0)
  BY <1>0, CountedIs
<1> HIDE DEF p
<1>2. /\ Call("basic type") \in Calls /\ Call("basic type").do = "basic type"
      /\ Call("derived type") \in Calls /\ Call("derived type").do = "derived type"
  BY CallIs DEF Do
<1>3. Takes(N, Call("basic type"), a, p)
  BY <1>1, <1>2 DEF Takes
<1>4. Takes(N, Call("derived type"), p, p)
  <2>1. Counts(p, p, 0, 0, 0) /\ Same(p, p) /\ p.t >= 1
    BY <1>0, <1>1, LayoutIs DEF Counts, Same
  <2> QED
    BY <1>1, <1>2, <2>1 DEF Takes
<1>5. Type = <<Call("basic type")>> \o <<Call("derived type")>>
  BY <1>2, ListsAre DEF Type
<1>6. <<Call("basic type")>> \in Seq(Calls)
  BY <1>2, ListsAre
<1> QED
  BY <1>1, <1>2, <1>3, <1>4, <1>5, <1>6, EffectOne, EffectMore DEF p

LEMMA ParameterRuns ==
    ASSUME NEW N, at \in Nat, NEW a \in Layout, NEW b \in Layout,
           Same(a, b), Counts(a, b, 0, 0, 0), Plain(b)
    PROVE  Parameter \in Seq(Calls) /\ Effect(N, Parameter, a, b)
<1> DEFINE p == Counted(a, 1, 0, 0)
           q == Counted(a, 1, 1, 0)
<1>0. a.t \in Nat /\ a.m \in Nat /\ a.d \in Nat /\ a.n \in Nat
  BY LayoutIs
<1>1. p \in Layout /\ Plain(p) /\ Counts(a, p, 1, 0, 0) /\ p.n = a.n /\ p.e = a.e
  BY <1>0, CountedIs
<1>2. q \in Layout /\ Plain(q) /\ Counts(a, q, 1, 1, 0) /\ q.n = a.n /\ q.e = a.e
  BY <1>0, CountedIs
<1>3. Type \in Seq(Calls) /\ Effect(N, Type, a, p)
  BY TypeRuns
<1> HIDE DEF p, q
<1>4. /\ Call("name") \in Calls /\ Call("name").do = "name"
      /\ Call("parameter") \in Calls /\ Call("parameter").do = "parameter"
  BY CallIs DEF Do
<1>5. Takes(N, Call("name"), p, q)
  <2>1. Same(p, q) /\ Counts(p, q, 0, 1, 0)
    BY <1>0, <1>1, <1>2 DEF Same, Counts
  <2> QED
    BY <1>2, <1>4, <2>1 DEF Takes
<1>6. Takes(N, Call("parameter"), q, b)
  <2>1. /\ Same(q, b) /\ Counts(q, b, -1, -1, 0) /\ q.t >= 1 /\ q.m >= 1
    BY <1>0, <1>1, <1>2 DEF Same, Counts
  <2> QED
    BY <1>2, <1>4, <2>1 DEF Takes
<1>7. /\ Type \o <<Call("name")>> \in Seq(Calls)
      /\ Effect(N, Type \o <<Call("name")>>, a, q)
  BY <1>1, <1>2, <1>3, <1>4, <1>5, EffectMore
<1>8. /\ (Type \o <<Call("name")>>) \o <<Call("parameter")>> \in Seq(Calls)
      /\ Effect(N, (Type \o <<Call("name")>>) \o <<Call("parameter")>>, a, b)
  BY <1>2, <1>4, <1>6, <1>7, EffectMore
<1>9. Parameter = (Type \o <<Call("name")>>) \o <<Call("parameter")>>
  <2>1. <<Call("name")>> \in Seq(Calls) /\ <<Call("parameter")>> \in Seq(Calls)
    BY <1>4
  <2>2. <<Call("name"), Call("parameter")>> = <<Call("name")>> \o <<Call("parameter")>>
    OBVIOUS
  <2> QED
    BY <1>3, <2>1, <2>2, ConcatAssociative DEF Parameter
<1> QED
  BY <1>8, <1>9

LEMMA EffectMoreTwo ==
    ASSUME NEW N, NEW s \in Seq(Calls), NEW t \in Calls, NEW u \in Calls, NEW a,
           NEW b \in Layout, NEW c \in Layout, NEW d \in Layout,
           Effect(N, s, a, b), Takes(N, t, b, c), Takes(N, u, c, d)
    PROVE  s \o <<t, u>> \in Seq(Calls) /\ Effect(N, s \o <<t, u>>, a, d)
<1>1. s \o <<t>> \in Seq(Calls) /\ Effect(N, s \o <<t>>, a, c)
  BY EffectMore
<1>2. (s \o <<t>>) \o <<u>> \in Seq(Calls) /\ Effect(N, (s \o <<t>>) \o <<u>>, a, d)
  BY <1>1, EffectMore
<1>3. (s \o <<t>>) \o <<u>> = s \o <<t, u>>
  <2>1. <<t>> \in Seq(Calls) /\ <<u>> \in Seq(Calls) /\ <<t, u>> = <<t>> \o <<u>>
    BY ListsAre
  <2> QED
    BY <2>1, ConcatAssociative
<1> QED
  BY <1>2, <1>3

LEMMA EffectMoreThree ==
    ASSUME NEW N, NEW s \in Seq(Calls), NEW t \in Calls, NEW u \in Calls, NEW v \in Calls,
           NEW a, NEW b \in Layout, NEW c \in Layout, NEW d \in Layout, NEW e \in Layout,
           Effect(N, s, a, b), Takes(N, t, b, c), Takes(N, u, c, d), Takes(N, v, d, e)
    PROVE  s \o <<t, u, v>> \in Seq(Calls) /\ Effect(N, s \o <<t, u, v>>, a, e)
<1>1. s \o <<t, u>> \in Seq(Calls) /\ Effect(N, s \o <<t, u>>, a, d)
  BY EffectMoreTwo
<1>2. (s \o <<t, u>>) \o <<v>> \in Seq(Calls) /\ Effect(N, (s \o <<t, u>>) \o <<v>>, a, e)
  BY <1>1, EffectMore
<1>3. (s \o <<t, u>>) \o <<v>> = s \o <<t, u, v>>
  <2>1. /\ <<t, u>> \in Seq(Calls) /\ <<v>> \in Seq(Calls)
        /\ <<t, u, v>> = <<t, u>> \o <<v>>
    BY ListsAre
  <2> QED
    BY <2>1, ConcatAssociative
<1> QED
  BY <1>2, <1>3

LEMMA EffectOfTwo ==
    ASSUME NEW N, NEW t \in Calls, NEW u \in Calls, NEW a \in Layout, NEW b \in Layout,
           NEW c \in Layout, Takes(N, t, a, b), Takes(N, u, b, c)
    PROVE  <<t, u>> \in Seq(Calls) /\ Effect(N, <<t, u>>, a, c)
<1>1. <<t>> \in Seq(Calls) /\ <<t, u>> \in Seq(Calls) /\ <<t, u>> = <<t>> \o <<u>>
  BY ListsAre
<1>2. Effect(N, <<t>>, a, b)
  BY EffectOne
<1> QED
  BY <1>1, <1>2, EffectMore

------------------------------------------------------------------------------
(* The steps. *)

\* The call on top may run: a is the layout before it, c the one it is to leave.
Ready(a, c, z) ==
    /\ todo # <<>> /\ a \in Layout /\ c \in Layout /\ z \in Layout
    /\ Fits(a) /\ Takes(nodes, Top, a, c) /\ Effect(nodes, Tail(todo), c, z)

LEMMA ReadyIs ==
    ASSUME ParserInv, todo # <<>>
    PROVE  /\ Top \in Calls /\ Top.n \in Nat /\ Top.from \in Nat /\ at \in Nat
           /\ \E a, c, z : Ready(a, c, z)
<1>1. Top \in Calls
  BY FirstCall DEF ParserInv
<1>2. \E a, c, z : Ready(a, c, z)
  BY FirstCall DEF ParserInv, Ready
<1> QED
  BY <1>1, <1>2 DEF Calls, ParserInv, TypeOK

\* Layouts that say the same of the stacks.
LEMMA FitsSame ==
    ASSUME NEW a \in Layout, NEW b \in Layout, Fits(a), Same(a, b), Counts(a, b, 0, 0, 0),
           Plain(b)
    PROVE  Fits(b)
BY LayoutIs DEF Fits, Same, Counts, Plain

\* The result on top is a node.
LEMMA TopIsNode ==
    ASSUME TypeOK, NEW a \in Layout, Fits(a), a.n >= 1
    PROVE  /\ Last(exprs) = exprs[a.n] /\ Last(exprs) \in 1..Len(nodes)
           /\ nodes[Last(exprs)] \in Node /\ nodes[Last(exprs)].from \in Nat
<1>1. a.n \in Nat /\ Len(exprs) = a.n /\ a.n \in 1..a.n
  BY LayoutIs DEF Fits
<1>2. Last(exprs) = exprs[a.n] /\ Last(exprs) \in 1..Len(nodes)
  BY <1>1 DEF Last, Fits
<1>3. nodes[Last(exprs)] \in Node
  BY <1>2, ElementOfSeq DEF TypeOK
<1> QED
  BY <1>2, <1>3 DEF Node

\* A call that only makes others, which do the same.
LEMMA GoesOn ==
    ASSUME ParserInv, NEW a, NEW c, NEW z, Ready(a, c, z), Moves,
           NEW calls \in Seq(Calls), Goes(calls), Effect(nodes, calls, a, c)
    PROVE  ParserInv'
BY GoesKeeps DEF Ready

\* A call that does nothing.
LEMMA GoesNowhere ==
    ASSUME ParserInv, NEW a, NEW c, NEW z, Ready(a, c, z), Moves, Goes(<<>>),
           Same(a, c), Counts(a, c, 0, 0, 0), Plain(c)
    PROVE  ParserInv'
<1>1. c \in Layout /\ Fits(c)
  BY FitsSame DEF Ready
<1>2. Effect(nodes, <<>>, c, c) /\ <<>> \in Seq(Calls)
  BY <1>1, EffectNone
<1> QED
  BY <1>1, <1>2, GoesKeeps DEF Ready

LEMMA ExpectTokenKeeps ==
    ASSUME ParserInv, ExpectToken
    PROVE  ParserInv'
<1>1. todo # <<>> /\ Top.do = "expect" /\ Known
  BY DEF ExpectToken, Reads, Runs
<1>2. PICK a, c, z : Ready(a, c, z)
  BY <1>1, ReadyIs
<1>3. CASE Matches(Top.op) /\ Eat /\ Goes(<<>>)
  <2>1. Moves
    <3>1. Top.op \in Op
      BY <1>1, ReadyIs DEF Calls
    <3>2. Tok # EndOfFile
      BY <1>3, <3>1 DEF Matches, Op, EndOfFile, Unary, Binary
    <3> QED
      BY <1>1, <1>3, <3>2 DEF Moves
  <2>2. Same(a, c) /\ Counts(a, c, 0, 0, 0) /\ Plain(c)
    BY <1>1, <1>2 DEF Ready, Takes
  <2> QED
    BY <1>2, <1>3, <2>1, <2>2, GoesNowhere
<1> QED
  BY <1>3, FailKeeps DEF ExpectToken

\* One result more, and what a call does that leaves it there.
LEMMA OneMore ==
    ASSUME NEW a \in Layout, NEW c \in Layout, NEW x \in {"raw", "typed", "statement"},
           NEW y, Yields(a, c, 0, y), Counts(a, c, 0, 0, 0)
    PROVE  /\ Yields(Pushed(a, x), c, 1, y) /\ Counts(Pushed(a, x), c, 0, 0, 0)
           /\ x = y => Same(Pushed(a, x), c)
<1> DEFINE p == Pushed(a, x)
<1>1. /\ p \in Layout /\ p.n = a.n + 1 /\ p.e[a.n + 1] = x /\ Counts(a, p, 0, 0, 0)
      /\ \A i \in 1..a.n : p.e[i] = a.e[i]
  BY PushedIs
<1>2. a.n \in Nat /\ a.t \in Nat /\ a.m \in Nat /\ a.d \in Nat
  BY LayoutIs
<1> HIDE DEF p
<1>3. Yields(p, c, 1, y)
  BY <1>1, <1>2 DEF Yields
<1>4. Counts(p, c, 0, 0, 0)
  BY <1>1, <1>2 DEF Counts
<1>5. x = y => Same(p, c)
  BY <1>1, <1>2 DEF Yields, Same
<1> QED
  BY <1>3, <1>4, <1>5 DEF p

LEMMA PrefixKeeps ==
    ASSUME ParserInv, Prefix
    PROVE  ParserInv'
<1>1. todo # <<>> /\ Top.do = "prefix" /\ Known
  BY DEF Prefix, Reads, Runs
<1>2. PICK a, c, z : Ready(a, c, z)
  BY <1>1, ReadyIs
<1>3. at \in Nat /\ a \in Layout /\ c \in Layout
  BY <1>1, <1>2, ReadyIs DEF Ready
<1>4. Yields(a, c, 0, "raw") /\ Counts(a, c, 0, 0, 0) /\ Plain(c)
  BY <1>1, <1>2 DEF Ready, Takes
<1> DEFINE p == Pushed(a, "raw")
<1>5. /\ p \in Layout /\ Plain(p) /\ Yields(a, p, 0, "raw") /\ Counts(a, p, 0, 0, 0)
      /\ TopIs(p, 1, "raw")
  BY <1>3, PushedIs
<1>6. Yields(p, c, 1, "raw") /\ Same(p, c) /\ Counts(p, c, 0, 0, 0)
  BY <1>3, <1>4, OneMore
<1> HIDE DEF p
<1>7. /\ Call("prefix") \in Calls /\ Call("prefix").do = "prefix"
      /\ Call("primary") \in Calls /\ Call("primary").do = "primary"
      /\ Call("suffix") \in Calls /\ Call("suffix").do = "suffix"
  BY <1>3, CallIs DEF Do
<1>8. Takes(nodes, Call("prefix"), a, p) /\ Takes(nodes, Call("primary"), a, p)
  BY <1>5, <1>7 DEF Takes
<1>9. ASSUME NEW kind \in Unary, Eat, Tok # EndOfFile,
             Goes(<<Call("prefix"), Build(at, kind, 1)>>)
      PROVE  ParserInv'
  <2>1. /\ Build(at, kind, 1) \in Calls /\ Build(at, kind, 1).do = "build"
        /\ Build(at, kind, 1).op = kind /\ Build(at, kind, 1).n = 1
    <3>1. kind \in Op /\ 1 \in Nat
      BY DEF Op
    <3> QED
      BY <1>3, <3>1, BuildIs
  <2>2. Takes(nodes, Build(at, kind, 1), p, c)
    BY <1>4, <1>5, <1>6, <1>9, <2>1 DEF Takes, BuildTakes
  <2>3. /\ <<Call("prefix"), Build(at, kind, 1)>> \in Seq(Calls)
        /\ Effect(nodes, <<Call("prefix"), Build(at, kind, 1)>>, a, c)
    BY <1>3, <1>5, <1>7, <1>8, <2>1, <2>2, EffectOfTwo
  <2> QED
    BY <1>1, <1>2, <1>9, <2>3, GoesOn DEF Moves
<1>10. CASE Stay /\ Goes(<<Call("primary"), Call("suffix")>>)
  <2>1. Takes(nodes, Call("suffix"), p, c)
    BY <1>4, <1>5, <1>6, <1>7 DEF Takes, SuffixTakes
  <2>2. /\ <<Call("primary"), Call("suffix")>> \in Seq(Calls)
        /\ Effect(nodes, <<Call("primary"), Call("suffix")>>, a, c)
    BY <1>3, <1>5, <1>7, <1>8, <2>1, EffectOfTwo
  <2> QED
    BY <1>2, <1>10, <2>2, GoesOn DEF Moves
<1> QED
  BY <1>9, <1>10 DEF Prefix, Unary, EndOfFile

\* An expression in parentheses.
LEMMA InParentheses ==
    ASSUME ParserInv, Runs("primary"), Eat, Known, Tok # EndOfFile,
           Goes(Expression \o <<Call("parenthesis")>>)
    PROVE  ParserInv'
<1>1. todo # <<>> /\ Top.do = "primary"
  BY DEF Runs
<1>2. PICK a, c, z : Ready(a, c, z)
  BY <1>1, ReadyIs
<1>3. at \in Nat /\ a \in Layout /\ c \in Layout
  BY <1>1, <1>2, ReadyIs DEF Ready
<1>4. Yields(a, c, 0, "raw") /\ Counts(a, c, 0, 0, 0) /\ Plain(c)
  BY <1>1, <1>2 DEF Ready, Takes
<1> DEFINE p == Pushed(a, "typed")
<1>5. p \in Layout /\ TopIs(p, 1, "typed")
  BY <1>3, PushedIs
<1>6. Yields(p, c, 1, "raw") /\ Counts(p, c, 0, 0, 0)
  BY <1>3, <1>4, OneMore
<1>7. Expression \in Seq(Calls) /\ Effect(nodes, Expression, a, p)
  BY <1>3, ExpressionRuns
<1> HIDE DEF p
<1>8. Call("parenthesis") \in Calls /\ Call("parenthesis").do = "parenthesis"
  BY <1>3, CallIs DEF Do
<1>9. Takes(nodes, Call("parenthesis"), p, c)
  BY <1>4, <1>5, <1>6, <1>8 DEF Takes
<1>10. /\ Expression \o <<Call("parenthesis")>> \in Seq(Calls)
       /\ Effect(nodes, Expression \o <<Call("parenthesis")>>, a, c)
  BY <1>3, <1>5, <1>7, <1>8, <1>9, EffectMore
<1> QED
  BY <1>2, <1>10, GoesOn DEF Moves

LEMMA SuffixKeeps ==
    ASSUME ParserInv, Suffix
    PROVE  ParserInv'
<1>1. todo # <<>> /\ Top.do = "suffix" /\ Known
  BY DEF Suffix, Reads, Runs
<1>2. PICK a, c, z : Ready(a, c, z)
  BY <1>1, ReadyIs
<1>3. at \in Nat /\ a \in Layout /\ c \in Layout
  BY <1>1, <1>2, ReadyIs DEF Ready
<1>4. TopIs(a, 1, "raw") /\ Same(a, c) /\ Counts(a, c, 0, 0, 0) /\ Plain(c)
  BY <1>1, <1>2 DEF Ready, Takes, SuffixTakes
<1>5. \A do \in {"arguments", "subscripts"} :
         /\ Call(do) \in Calls /\ Call(do).do = do /\ Call(do).n = 0
         /\ <<Call(do)>> \in Seq(Calls)
  <2>1. {"arguments", "subscripts"} \subseteq Do
    BY DEF Do
  <2>2. \A do \in Do : Call(do) \in Calls /\ Call(do).do = do /\ Call(do).n = 0
    BY ONLY <1>3, CallIs
  <2>3. \A t \in Calls : <<t>> \in Seq(Calls)
    BY ONLY ListsAre
  <2> QED
    BY ONLY <2>1, <2>2, <2>3
<1>6. CASE Tok = "(" /\ Eat /\ Goes(<<Call("arguments")>>)
  <2>1. TopsAre(a, 0, "typed") /\ TopIs(a, 0 + 1, "raw") /\ Yields(a, c, 0 + 1, "raw")
    BY <1>3, <1>4, LayoutIs DEF TopsAre, TopIs, Yields, Same
  <2>2. Takes(nodes, Call("arguments"), a, c)
    BY <1>4, <1>5, <2>1 DEF Takes, ArgumentsTake
  <2>3. Effect(nodes, <<Call("arguments")>>, a, c)
    BY <1>3, <2>2, EffectOne
  <2> QED
    BY <1>1, <1>2, <1>5, <1>6, <2>3, GoesOn DEF Moves, EndOfFile
<1>7. CASE Stay /\ Goes(<<Call("subscripts")>>)
  <2>1. Takes(nodes, Call("subscripts"), a, c)
    BY <1>4, <1>5 DEF Takes, SuffixTakes
  <2>2. Effect(nodes, <<Call("subscripts")>>, a, c)
    BY <1>3, <2>1, EffectOne
  <2> QED
    BY <1>2, <1>5, <1>7, <2>2, GoesOn DEF Moves
<1> QED
  BY <1>6, <1>7 DEF Suffix

\* One result more behind an expression: they become one.
LEMMA TwoMore ==
    ASSUME NEW a \in Layout, NEW c \in Layout, NEW x \in {"raw", "typed", "statement"},
           TopIs(a, 1, "raw"), Same(a, c), Counts(a, c, 0, 0, 0)
    PROVE  /\ TopIs(Pushed(a, x), 1, x) /\ TopIs(Pushed(a, x), 2, "raw")
           /\ Yields(Pushed(a, x), c, 2, "raw") /\ Counts(Pushed(a, x), c, 0, 0, 0)
<1> DEFINE p == Pushed(a, x)
<1>1. /\ p \in Layout /\ p.n = a.n + 1 /\ Counts(a, p, 0, 0, 0) /\ TopIs(p, 1, x)
      /\ \A i \in 1..a.n : p.e[i] = a.e[i]
  BY PushedIs
<1>2. a.n \in Nat /\ a.t \in Nat /\ a.m \in Nat /\ a.d \in Nat
  BY LayoutIs
<1> HIDE DEF p
<1>3. TopIs(p, 2, "raw")
  BY <1>1, <1>2 DEF TopIs
<1>4. Yields(p, c, 2, "raw")
  BY <1>1, <1>2 DEF TopIs, Same, Yields
<1>5. Counts(p, c, 0, 0, 0)
  BY <1>1, <1>2 DEF Counts
<1> QED
  BY <1>1, <1>3, <1>4, <1>5 DEF p

\* What is parsed behind an expression may be parsed again.
LEMMA SuffixAgain ==
    ASSUME NEW N, NEW t, t.do \in {"subscripts", "operators"},
           NEW a \in Layout, NEW c \in Layout, Takes(N, t, a, c)
    PROVE  Takes(N, t, c, c)
<1>1. /\ TopIs(a, 1, "raw") /\ Same(a, c) /\ Plain(c)
      /\ t.do = "operators" => t.n \in 1..3
  BY DEF Takes, SuffixTakes
<1>2. TopIs(c, 1, "raw") /\ Same(c, c) /\ Counts(c, c, 0, 0, 0)
  BY <1>1, LayoutIs DEF TopIs, Same, Counts
<1> QED
  BY <1>1, <1>2 DEF Takes, SuffixTakes

LEMMA SubscriptsKeeps ==
    ASSUME ParserInv, Subscripts
    PROVE  ParserInv'
<1>1. todo # <<>> /\ Top.do = "subscripts" /\ Known
  BY DEF Subscripts, Reads, Runs
<1>2. PICK a, c, z : Ready(a, c, z)
  BY <1>1, ReadyIs
<1>3. at \in Nat /\ a \in Layout /\ c \in Layout /\ Top \in Calls
  BY <1>1, <1>2, ReadyIs DEF Ready
<1>4. TopIs(a, 1, "raw") /\ Same(a, c) /\ Counts(a, c, 0, 0, 0) /\ Plain(c)
  BY <1>1, <1>2 DEF Ready, Takes, SuffixTakes
<1> DEFINE from == nodes[Last(exprs)].from
           p == Pushed(a, "typed")
           close == Expect("]")
           build == Build(from, "subscript", 2)
<1>5. from \in Nat
  BY <1>2, <1>3, <1>4, TopIsNode DEF ParserInv, Ready, TopIs
<1>6. /\ p \in Layout /\ Plain(p)
      /\ TopIs(p, 1, "typed") /\ TopIs(p, 2, "raw")
      /\ Yields(p, c, 2, "raw") /\ Counts(p, c, 0, 0, 0)
  BY <1>3, <1>4, PushedIs, TwoMore
<1>7. Expression \in Seq(Calls) /\ Effect(nodes, Expression, a, p)
  BY <1>3, ExpressionRuns
<1>8. close \in Calls /\ close.do = "expect"
  BY <1>3, ExpectIs DEF Op
<1>9. build \in Calls /\ build.do = "build" /\ build.op = "subscript" /\ build.n = 2
  <2>1. "subscript" \in Op /\ 2 \in Nat
    BY DEF Op
  <2> QED
    BY <1>5, <2>1, BuildIs
<1> HIDE DEF from, p, close, build
<1>10. CASE Tok = "[" /\ Eat /\ Goes(Expression \o <<close, build, Top>>)
  <2>1. Takes(nodes, close, p, p)
    <3>1. Same(p, p) /\ Counts(p, p, 0, 0, 0)
      BY <1>6, LayoutIs DEF Same, Counts
    <3> QED
      BY <1>6, <1>8, <3>1 DEF Takes
  <2>2. Takes(nodes, build, p, c)
    BY <1>4, <1>6, <1>9 DEF Takes, BuildTakes
  <2>3. Takes(nodes, Top, c, c)
    BY <1>1, <1>2, <1>3, SuffixAgain DEF Ready
  <2>4. /\ Expression \o <<close, build, Top>> \in Seq(Calls)
        /\ Effect(nodes, Expression \o <<close, build, Top>>, a, c)
    BY <1>3, <1>6, <1>7, <1>8, <1>9, <2>1, <2>2, <2>3, EffectMoreThree
  <2> QED
    BY <1>1, <1>2, <1>10, <2>4, GoesOn DEF Moves, EndOfFile
<1>11. CASE Stay /\ Goes(<<>>)
  BY <1>2, <1>4, <1>11, GoesNowhere DEF Moves
<1> QED
  BY <1>10, <1>11 DEF Subscripts, from, close, build

LEMMA BinaryOperatorKeeps ==
    ASSUME ParserInv, BinaryOperator
    PROVE  ParserInv'
<1>1. todo # <<>> /\ Top.do = "operators" /\ Known
  BY DEF BinaryOperator, Reads, Runs
<1>2. PICK a, c, z : Ready(a, c, z)
  BY <1>1, ReadyIs
<1>3. at \in Nat /\ a \in Layout /\ c \in Layout /\ Top \in Calls
  BY <1>1, <1>2, ReadyIs DEF Ready
<1>4. /\ TopIs(a, 1, "raw") /\ Same(a, c) /\ Counts(a, c, 0, 0, 0) /\ Plain(c)
      /\ Top.n \in 1..3
  BY <1>1, <1>2 DEF Ready, Takes, SuffixTakes
<1> DEFINE from == nodes[Last(exprs)].from
           p == Pushed(a, "raw")
           build == Build(from, Tok, 2)
<1>5. from \in Nat
  BY <1>2, <1>3, <1>4, TopIsNode DEF ParserInv, Ready, TopIs
<1>6. /\ p \in Layout /\ Plain(p)
      /\ TopIs(p, 1, "raw") /\ TopIs(p, 2, "raw")
      /\ Yields(p, c, 2, "raw") /\ Counts(p, c, 0, 0, 0)
  BY <1>3, <1>4, PushedIs, TwoMore
<1>7. Level(Top.n - 1) \in Seq(Calls) /\ Effect(nodes, Level(Top.n - 1), a, p)
  <2>1. Top.n - 1 \in 0..3
    BY <1>4
  <2> QED
    BY <1>3, <2>1, LevelRuns
<1>8. ASSUME Tok \in Operators[Top.n]
      PROVE  /\ Tok \in Binary /\ Tok # EndOfFile
             /\ build \in Calls /\ build.do = "build" /\ build.op = Tok /\ build.n = 2
  <2>1. Tok \in Binary
    <3>1. Top.n = 1 \/ Top.n = 2 \/ Top.n = 3
      BY <1>4
    <3> QED
      BY <1>8, <3>1 DEF Operators, Binary
  <2>2. Tok \in Op /\ 2 \in Nat
    BY <2>1 DEF Op
  <2>3. Tok # EndOfFile
    BY <2>1 DEF Binary, EndOfFile
  <2> QED
    BY <1>5, <2>1, <2>2, <2>3, BuildIs
<1> HIDE DEF from, p, build
<1>9. CASE Tok \in Operators[Top.n] /\ Eat /\ Goes(Level(Top.n - 1) \o <<build, Top>>)
  <2>1. Takes(nodes, build, p, c)
    BY <1>4, <1>6, <1>8, <1>9 DEF Takes, BuildTakes
  <2>2. Takes(nodes, Top, c, c)
    BY <1>1, <1>2, <1>3, SuffixAgain DEF Ready
  <2>3. /\ Level(Top.n - 1) \o <<build, Top>> \in Seq(Calls)
        /\ Effect(nodes, Level(Top.n - 1) \o <<build, Top>>, a, c)
    BY <1>3, <1>6, <1>7, <1>8, <1>9, <2>1, <2>2, EffectMoreTwo
  <2> QED
    BY <1>1, <1>2, <1>8, <1>9, <2>3, GoesOn DEF Moves
<1>10. CASE Stay /\ Goes(<<>>)
  BY <1>2, <1>4, <1>10, GoesNowhere DEF Moves
<1> QED
  BY <1>9, <1>10 DEF BinaryOperator, OperandLevel, from, build

LEMMA AssignmentOperatorKeeps ==
    ASSUME ParserInv, AssignmentOperator
    PROVE  ParserInv'
<1>1. todo # <<>> /\ Top.do = "assignment" /\ Known
  BY DEF AssignmentOperator, Reads, Runs
<1>2. PICK a, c, z : Ready(a, c, z)
  BY <1>1, ReadyIs
<1>3. at \in Nat /\ a \in Layout /\ c \in Layout
  BY <1>1, <1>2, ReadyIs DEF Ready
<1>4. TopIs(a, 1, "raw") /\ Same(a, c) /\ Counts(a, c, 0, 0, 0) /\ Plain(c)
  BY <1>1, <1>2 DEF Ready, Takes, SuffixTakes
<1> DEFINE from == nodes[Last(exprs)].from
           p == Pushed(a, "raw")
           build == Build(from, "=", 2)
<1>5. from \in Nat
  BY <1>2, <1>3, <1>4, TopIsNode DEF ParserInv, Ready, TopIs
<1>6. /\ p \in Layout
      /\ TopIs(p, 1, "raw") /\ TopIs(p, 2, "raw")
      /\ Yields(p, c, 2, "raw") /\ Counts(p, c, 0, 0, 0)
  BY <1>3, <1>4, PushedIs, TwoMore
<1>7. Assignment \in Seq(Calls) /\ Effect(nodes, Assignment, a, p)
  BY <1>3, AssignmentRuns
<1>8. build \in Calls /\ build.do = "build" /\ build.op = "=" /\ build.n = 2
  <2>1. "=" \in Op /\ 2 \in Nat
    BY DEF Op, Binary
  <2> QED
    BY <1>5, <2>1, BuildIs
<1> HIDE DEF from, p, build
<1>9. CASE Tok = "=" /\ Eat /\ Goes(Assignment \o <<build>>)
  <2>1. Takes(nodes, build, p, c)
    BY <1>4, <1>6, <1>8 DEF Takes, BuildTakes, Binary
  <2>2. /\ Assignment \o <<build>> \in Seq(Calls)
        /\ Effect(nodes, Assignment \o <<build>>, a, c)
    BY <1>3, <1>6, <1>7, <1>8, <2>1, EffectMore
  <2> QED
    BY <1>1, <1>2, <1>9, <2>2, GoesOn DEF Moves, EndOfFile
<1>10. CASE Stay /\ Goes(<<>>)
  BY <1>2, <1>4, <1>10, GoesNowhere DEF Moves
<1> QED
  BY <1>9, <1>10 DEF AssignmentOperator, from, build

------------------------------------------------------------------------------
(* The arguments of a call. *)

LEMMA ArgumentsClose ==
    ASSUME NEW N, at \in Nat, Top \in Calls, NEW a \in Layout, NEW c \in Layout,
           ArgumentsTake(Top, a, c), Plain(c)
    PROVE  /\ CloseArguments(Top.n) \in Seq(Calls)
           /\ Effect(N, CloseArguments(Top.n), a, c)
<1> DEFINE p == Counted(a, 0, 0, 0)
           close == Expect(")")
           call == Since(Top.from, "call", Top.n)
<1>1. Top.n \in Nat /\ Top.from \in Nat
  BY DEF Calls
<1>2. a.n \in Nat /\ a.t \in Nat /\ a.m \in Nat /\ a.d \in Nat
  BY LayoutIs
<1>3. /\ p \in Layout /\ Plain(p) /\ Same(a, p) /\ Counts(a, p, 0, 0, 0)
      /\ p.n = a.n /\ p.e = a.e
  BY <1>2, CountedIs
<1>4. close \in Calls /\ close.do = "expect"
  BY ExpectIs DEF Op
<1>5. call \in Calls /\ call.do = "call" /\ call.n = Top.n
  <2>1. "call" \in Do
    BY DEF Do
  <2> QED
    BY <1>1, <2>1, CallsAre
<1>6. CloseArguments(Top.n) = <<close, call>>
  BY DEF CloseArguments
<1> HIDE DEF p, close, call
<1>7. Takes(N, close, a, p)
  BY <1>3, <1>4 DEF Takes
<1>8. ArgumentsTake(call, p, c)
  <2>1. Counts(p, c, 0, 0, 0)
    BY <1>2, <1>3 DEF ArgumentsTake, Counts
  <2>2. /\ TopsAre(p, Top.n, "typed") /\ TopIs(p, Top.n + 1, "raw")
        /\ Yields(p, c, Top.n + 1, "raw")
    BY <1>3 DEF ArgumentsTake, TopsAre, TopIs, Yields
  <2> QED
    BY <1>5, <2>1, <2>2 DEF ArgumentsTake
<1>9. Takes(N, call, p, c)
  BY <1>5, <1>8 DEF Takes
<1> QED
  BY <1>3, <1>4, <1>5, <1>6, <1>7, <1>9, EffectOfTwo

LEMMA ArgumentsKeeps ==
    ASSUME ParserInv, Arguments
    PROVE  ParserInv'
<1>1. todo # <<>> /\ Top.do = "arguments" /\ Stay
  BY DEF Arguments, Reads, Runs
<1>2. PICK a, c, z : Ready(a, c, z)
  BY <1>1, ReadyIs
<1>3. /\ at \in Nat /\ a \in Layout /\ c \in Layout
      /\ Top \in Calls /\ Top.n \in Nat /\ Top.from \in Nat
  BY <1>1, <1>2, ReadyIs DEF Ready
<1>4. ArgumentsTake(Top, a, c) /\ Plain(c)
  BY <1>1, <1>2 DEF Ready, Takes
<1>5. CASE Goes(CloseArguments(Top.n))
  BY <1>1, <1>2, <1>3, <1>4, <1>5, ArgumentsClose, GoesOn DEF Moves
<1> DEFINE p == Pushed(a, "typed")
           more == Since(Top.from, "argument", Top.n + 1)
<1>6. CASE Goes(Expression \o <<more>>)
  <2>1. a.n \in Nat /\ a.t \in Nat /\ a.m \in Nat /\ a.d \in Nat
    BY <1>3, LayoutIs
  <2>2. /\ p \in Layout /\ p.n = a.n + 1 /\ Counts(a, p, 0, 0, 0)
        /\ p.e[a.n + 1] = "typed" /\ \A i \in 1..a.n : p.e[i] = a.e[i]
    BY <1>3, PushedIs
  <2>3. Expression \in Seq(Calls) /\ Effect(nodes, Expression, a, p)
    BY <1>3, ExpressionRuns
  <2>4. more \in Calls /\ more.do = "argument" /\ more.n = Top.n + 1
    <3>1. "argument" \in Do /\ Top.n + 1 \in Nat
      BY <1>3 DEF Do
    <3> QED
      BY <1>3, <3>1, CallsAre
  <2> HIDE DEF p, more
  <2>5. Counts(p, c, 0, 0, 0)
    BY <1>4, <2>1, <2>2 DEF ArgumentsTake, Counts
  <2>6. TopsAre(p, Top.n + 1, "typed")
    BY <1>3, <1>4, <2>1, <2>2 DEF ArgumentsTake, TopsAre
  <2>7. TopIs(p, (Top.n + 1) + 1, "raw")
    BY <1>3, <1>4, <2>1, <2>2 DEF ArgumentsTake, TopIs
  <2>8. Yields(p, c, (Top.n + 1) + 1, "raw")
    BY <1>3, <1>4, <2>1, <2>2 DEF ArgumentsTake, Yields
  <2>9. Takes(nodes, more, p, c)
    BY <1>4, <2>4, <2>5, <2>6, <2>7, <2>8 DEF Takes, ArgumentsTake
  <2>10. /\ Expression \o <<more>> \in Seq(Calls)
         /\ Effect(nodes, Expression \o <<more>>, a, c)
    BY <1>3, <2>2, <2>3, <2>4, <2>9, EffectMore
  <2> QED
    BY <1>1, <1>2, <1>6, <2>10, GoesOn DEF Moves
<1> QED
  BY <1>5, <1>6 DEF Arguments

LEMMA NextArgumentKeeps ==
    ASSUME ParserInv, NextArgument
    PROVE  ParserInv'
<1>1. todo # <<>> /\ Top.do = "argument" /\ Known
  BY DEF NextArgument, Reads, Runs
<1>2. PICK a, c, z : Ready(a, c, z)
  BY <1>1, ReadyIs
<1>3. /\ at \in Nat /\ a \in Layout /\ c \in Layout
      /\ Top \in Calls /\ Top.n \in Nat /\ Top.from \in Nat
  BY <1>1, <1>2, ReadyIs DEF Ready
<1>4. ArgumentsTake(Top, a, c) /\ Plain(c)
  BY <1>1, <1>2 DEF Ready, Takes
<1>5. CASE Stay /\ Goes(CloseArguments(Top.n))
  BY <1>2, <1>3, <1>4, <1>5, ArgumentsClose, GoesOn DEF Moves
<1> DEFINE more == Since(Top.from, "arguments", Top.n)
<1>6. CASE Tok = "," /\ Eat /\ Goes(<<more>>)
  <2>1. more \in Calls /\ more.do = "arguments" /\ more.n = Top.n
    <3>1. "arguments" \in Do
      BY DEF Do
    <3> QED
      BY <1>3, <3>1, CallsAre
  <2>2. <<more>> \in Seq(Calls)
    BY <2>1, ListsAre
  <2> HIDE DEF more
  <2>3. Takes(nodes, more, a, c)
    BY <1>4, <2>1 DEF Takes, ArgumentsTake
  <2>4. Effect(nodes, <<more>>, a, c)
    BY <1>3, <2>3, EffectOne
  <2> QED
    BY <1>1, <1>2, <1>6, <2>2, <2>4, GoesOn DEF Moves, EndOfFile
<1>7. CASE Fail
  BY <1>7, FailKeeps
<1> QED
  BY <1>5, <1>6, <1>7 DEF NextArgument

------------------------------------------------------------------------------
(* post_parse. *)

LEMMA KindsAre ==
    /\ BinaryKinds = Binary \ {"="}
    /\ Operators[1] = {"*", "/"} /\ Operators[2] = {"+", "-"} /\ Operators[3] = {"==", "!="}
    /\ Expressions \cap Statements = {}
<1>1. Operators[1] = {"*", "/"} /\ Operators[2] = {"+", "-"} /\ Operators[3] = {"==", "!="}
  BY DEF Operators
<1>2. DOMAIN Operators = {1, 2, 3}
  BY DEF Operators
<1>3. ToSet(Operators) = {Operators[1], Operators[2], Operators[3]}
  BY <1>2 DEF ToSet
<1>4. BinaryKinds = Operators[1] \cup Operators[2] \cup Operators[3]
  BY <1>3 DEF BinaryKinds
<1> QED
  BY <1>1, <1>4 DEF Binary, Expressions, Statements, Unary

LEMMA NodeIs ==
    ASSUME TypeOK, NodesInv, NEW i \in 1..Len(nodes)
    PROVE  /\ DOMAIN nodes = 1..Len(nodes) /\ Len(nodes) \in Nat /\ i \in Nat
           /\ nodes[i] \in Node /\ nodes[i].kids \in Seq(Nat)
           /\ Len(nodes[i].kids) \in Nat /\ DOMAIN nodes[i].kids = 1..Len(nodes[i].kids)
           /\ Sound(nodes, nodes[i], i)
<1>1. nodes \in Seq(Node)
  BY DEF TypeOK
<1>2. DOMAIN nodes = 1..Len(nodes) /\ Len(nodes) \in Nat /\ nodes[i] \in Node
  BY <1>1, LenProperties, ElementOfSeq
<1>3. nodes[i].kids \in Seq(Nat)
  BY <1>2 DEF Node
<1>4. Len(nodes[i].kids) \in Nat /\ DOMAIN nodes[i].kids = 1..Len(nodes[i].kids)
  BY <1>3, LenProperties
<1> QED
  BY <1>2, <1>3, <1>4 DEF NodesInv

IsExpression(i) == i \in 1..Len(nodes) /\ nodes[i].kind \in Expressions

\* The operands that are post-parsed are expressions.
LEMMA PostParsedAre ==
    ASSUME TypeOK, NodesInv, NEW i, IsExpression(i)
    PROVE  /\ PostParsed(nodes[i]) \in Seq(Nat)
           /\ \A k \in 1..Len(PostParsed(nodes[i])) :
                 /\ PostParsed(nodes[i])[k] \in 1..Len(nodes)
                 /\ nodes[PostParsed(nodes[i])[k]].kind \in Expressions
<1> DEFINE node == nodes[i]
<1>1. /\ Len(nodes) \in Nat /\ i \in Nat /\ node \in Node /\ node.kids \in Seq(Nat)
      /\ Len(node.kids) \in Nat /\ Sound(nodes, node, i)
  BY NodeIs DEF IsExpression
<1>2. \A k \in 1..Len(node.kids) : /\ node.kids[k] \in 1..Len(nodes)
                                   /\ nodes[node.kids[k]].kind \in Expressions
  BY <1>1 DEF Sound, OperandsSound, IsExpression
<1>3. /\ node.kind \in Unary => Len(node.kids) = 1
      /\ node.kind = "subscript" => Len(node.kids) = 2
  BY <1>1 DEF Sound, OperandsSound
<1> HIDE DEF node
<1>4. CASE node.kind \in Binary
  <2>1. PostParsed(node) = node.kids
    <3>1. node.kind \in BinaryKinds \cup {"="}
      BY <1>4, KindsAre
    <3>2. node.kind \notin {"subscript", "dereference", "address of"}
      BY <1>4 DEF Binary
    <3> QED
      BY <3>1, <3>2 DEF PostParsed
  <2> QED
    BY <1>1, <1>2, <2>1 DEF node
<1>5. CASE node.kind \in Unary \cup {"subscript"}
  <2>1. PostParsed(node) = <<node.kids[1]>>
    BY <1>5, KindsAre DEF PostParsed, Unary, Binary
  <2>2. 1 \in 1..Len(node.kids)
    <3>1. Len(node.kids) = 1 \/ Len(node.kids) = 2
      BY <1>3, <1>5
    <3> QED
      BY <3>1
  <2>3. node.kids[1] \in Nat
    BY <1>1, <2>2, ElementOfSeq
  <2>4. PostParsed(node) \in Seq(Nat) /\ Len(PostParsed(node)) = 1
        /\ PostParsed(node)[1] = node.kids[1] /\ 1..1 = {1}
    BY <2>1, <2>3
  <2> QED
    BY <1>2, <2>2, <2>4 DEF node
<1>6. CASE node.kind \notin Binary \cup Unary \cup {"subscript"}
  <2>1. PostParsed(node) = <<>>
    BY <1>6, KindsAre DEF PostParsed, Unary, Binary
  <2>2. PostParsed(node) \in Seq(Nat) /\ Len(PostParsed(node)) = 0 /\ 1..0 = {}
    BY <2>1
  <2> QED
    BY <2>2 DEF node
<1> QED
  BY <1>4, <1>5, <1>6

\* What the post-parsing of node i does, from b to c.
Types(i, b, c) ==
    /\ Counts(b, c, 0, 0, 0) /\ c.typed \subseteq b.typed \cup {i} /\ c.node \in {0, b.node}
    /\ \/ Same(b, c)
       \/ b.node = i /\ TopIs(b, 1, "raw") /\ Yields(b, c, 1, "typed")

\* The calls that it makes.
PostParsing(i, kids) ==
    [k \in DOMAIN kids |-> Since(at, "post parse", kids[k])] \o <<Since(at, "type", i)>>

\* A handler calls post_parse of its operands and sets the type: the layout
\* knows which of the operands have been through it.
LEMMA PostParseRuns ==
    ASSUME ParserInv, NEW i, IsExpression(i), NEW b \in Layout, NEW c \in Layout,
           Types(i, b, c)
    PROVE  /\ PostParsing(i, PostParsed(nodes[i])) \in Seq(Calls)
           /\ Effect(nodes, PostParsing(i, PostParsed(nodes[i])), b, c)
<1> DEFINE kids == PostParsed(nodes[i])
           calls == PostParsing(i, kids)
           n == Len(kids)
           s == [k \in 1..n |-> Since(at, "post parse", kids[k])]
           done(j) == {kids[k] : k \in 1..j - 1}
           h == [j \in 1..n + 1 |-> [b EXCEPT !.typed = @ \cup done(j)]]
           last == Since(at, "type", i)
<1>1. /\ kids \in Seq(Nat)
      /\ \A k \in 1..n : kids[k] \in 1..Len(nodes) /\ nodes[kids[k]].kind \in Expressions
  BY PostParsedAre DEF ParserInv
<1>2. /\ n \in Nat /\ DOMAIN kids = 1..n /\ \A k \in 1..n : kids[k] \in Nat
      /\ at \in Nat /\ i \in Nat
      /\ DOMAIN nodes = 1..Len(nodes) /\ Len(nodes) \in Nat
  BY <1>1, LenProperties, NodeIs DEF ParserInv, TypeOK, IsExpression
<1>3. \A k \in 1..n : /\ s[k] \in Calls /\ s[k].do = "post parse" /\ s[k].n = kids[k]
  <2>1. "post parse" \in Do
    BY DEF Do
  <2>2. ASSUME NEW k \in 1..n
        PROVE  s[k] \in Calls /\ s[k].do = "post parse" /\ s[k].n = kids[k]
    <3>1. s[k] = Since(at, "post parse", kids[k]) /\ kids[k] \in Nat /\ at \in Nat
      BY <1>2
    <3> HIDE DEF s, kids
    <3>2. PICK m \in Nat : m = kids[k]
      BY <3>1
    <3>3. /\ Since(at, "post parse", m) \in Calls
          /\ Since(at, "post parse", m).do = "post parse"
          /\ Since(at, "post parse", m).n = m
      <4>1. at \in Nat
        BY <1>2
      <4> QED
        BY <4>1, HandlersAre
    <3> QED
      BY <3>1, <3>2, <3>3
  <2> QED
    BY <2>2
<1>4. s \in Seq(Calls) /\ Len(s) = n
  <2>1. s \in [1..n -> Calls]
    <3>1. \A k \in 1..n : s[k] \in Calls
      BY <1>3
    <3>2. s = [k \in 1..n |-> s[k]]
      OBVIOUS
    <3> HIDE DEF s, n
    <3> QED
      BY <3>1, <3>2
  <2>2. DOMAIN s = 1..n
    OBVIOUS
  <2> HIDE DEF s
  <2> QED
    BY <1>2, <2>1, <2>2
<1>5. last \in Calls /\ last.do = "type" /\ last.n = i
  <2>1. "type" \in Do
    BY DEF Do
  <2> QED
    BY <1>2, <2>1, CallsAre
<1>6. calls = s \o <<last>>
  BY <1>2 DEF PostParsing
<1>7. \A j \in 1..n + 1 :
         /\ h[j].n = b.n /\ h[j].e = b.e /\ h[j].t = b.t /\ h[j].m = b.m /\ h[j].d = b.d
         /\ h[j].node = b.node /\ h[j].typed = b.typed \cup done(j)
         /\ h[j] \in Layout
  <2>1. ASSUME NEW j \in 1..n + 1
        PROVE  /\ h[j].n = b.n /\ h[j].e = b.e /\ h[j].t = b.t /\ h[j].m = b.m
               /\ h[j].d = b.d
               /\ h[j].node = b.node /\ h[j].typed = b.typed \cup done(j)
               /\ h[j] \in Layout
    <3>1. done(j) \subseteq Nat
      BY <1>2
    <3>2. h[j] = [b EXCEPT !.typed = @ \cup done(j)]
      OBVIOUS
    <3> HIDE DEF done, h, n
    <3> QED
      BY <3>1, <3>2 DEF Layout
  <2> QED
    BY <2>1
<1>8. h \in [1..n + 1 -> Layout]
  <2>1. \A j \in 1..n + 1 : h[j] \in Layout
    BY <1>7
  <2>2. h = [j \in 1..n + 1 |-> h[j]]
    OBVIOUS
  <2> HIDE DEF h, n
  <2> QED
    BY <2>1, <2>2
<1>9. done(1) = {} /\ done(n + 1) = ToSet(kids)
  BY <1>2 DEF ToSet
<1>10. \A k \in 1..n : done(k + 1) = done(k) \cup {kids[k]}
  <2>1. ASSUME NEW k \in 1..n PROVE done(k + 1) = done(k) \cup {kids[k]}
    <3>1. 1..(k + 1) - 1 = (1..k - 1) \cup {k}
      BY <1>2
    <3> QED
      BY <3>1
  <2> QED
    BY <2>1
<1> HIDE DEF n, s, done, h, last, kids, calls
<1>11. h[1] = b
  <2>1. 1 \in 1..n + 1 /\ b.typed \cup {} = b.typed
    BY <1>2
  <2>2. /\ h[1] \in Layout /\ h[1].n = b.n /\ h[1].e = b.e /\ h[1].t = b.t
        /\ h[1].m = b.m /\ h[1].d = b.d /\ h[1].node = b.node /\ h[1].typed = b.typed
    BY <1>7, <1>9, <2>1
  <2> QED
    BY <2>2 DEF Layout
<1>12. ASSUME NEW k \in 1..n
       PROVE  Takes(nodes, s[k], h[k], h[k + 1])
  <2>1. k \in 1..n + 1 /\ k + 1 \in 1..n + 1
    BY <1>2
  <2>2. s[k].do = "post parse" /\ s[k].n = kids[k] /\ kids[k] # 0
        /\ kids[k] \in DOMAIN nodes /\ nodes[kids[k]].kind \in Expressions
    <3>1. kids[k] \in 1..Len(nodes) /\ nodes[kids[k]].kind \in Expressions
      BY <1>1
    <3>2. s[k].do = "post parse" /\ s[k].n = kids[k]
      BY <1>3
    <3>3. kids[k] # 0
      BY <3>1
    <3>4. kids[k] \in DOMAIN nodes
      <4>1. DOMAIN nodes = 1..Len(nodes)
        BY <1>2
      <4> QED
        BY <3>1, <4>1
    <3> QED
      BY <3>1, <3>2, <3>3, <3>4
  <2>3. Same(h[k], h[k + 1]) /\ Counts(h[k], h[k + 1], 0, 0, 0)
    BY <1>7, <2>1, LayoutIs DEF Same, Counts
  <2>4. h[k + 1].node = h[k].node /\ h[k + 1].typed = h[k].typed \cup {kids[k]}
    BY <1>7, <1>10, <2>1
  <2>5. OperandTakes(nodes, s[k], h[k], h[k + 1])
    BY <2>2, <2>3, <2>4 DEF OperandTakes
  <2> QED
    BY <2>2, <2>5 DEF Takes
<1>13. Effect(nodes, s, b, h[n + 1])
  BY <1>4, <1>8, <1>11, <1>12 DEF Effect
<1>14. n + 1 \in 1..n + 1 /\ h[n + 1] \in Layout
  BY <1>2, <1>7
<1>15. Takes(nodes, last, h[n + 1], c)
  <2>1. /\ h[n + 1].n = b.n /\ h[n + 1].e = b.e /\ h[n + 1].node = b.node
        /\ h[n + 1].t = b.t /\ h[n + 1].m = b.m /\ h[n + 1].d = b.d
        /\ h[n + 1].typed = b.typed \cup ToSet(kids)
    BY <1>7, <1>9, <1>14
  <2>2. Counts(h[n + 1], c, 0, 0, 0)
    BY <2>1 DEF Counts, Types
  <2>3. \/ Same(h[n + 1], c)
        \/ h[n + 1].node = i /\ TopIs(h[n + 1], 1, "raw") /\ Yields(h[n + 1], c, 1, "typed")
    BY <2>1 DEF Same, TopIs, Yields, Types
  <2>4. OperandTakes(nodes, last, h[n + 1], c)
    BY <1>2, <1>5, <2>1, <2>2, <2>3 DEF OperandTakes, Types, IsExpression, kids
  <2> QED
    BY <1>5, <2>4 DEF Takes
<1> QED
  BY <1>4, <1>5, <1>6, <1>13, <1>14, <1>15, EffectMore DEF calls, kids

LEMMA PostParseKeeps ==
    ASSUME ParserInv, PostParse
    PROVE  ParserInv'
<1> DEFINE i == IF Top.n = 0 THEN Last(exprs) ELSE Top.n
           calls == PostParsing(i, PostParsed(nodes[i]))
<1>1. todo # <<>> /\ Top.do = "post parse" /\ Stay /\ Goes(calls)
  BY DEF PostParse, PostParsing, Runs
<1>2. PICK a, c, z : Ready(a, c, z)
  BY <1>1, ReadyIs
<1>3. /\ a \in Layout /\ c \in Layout /\ Fits(a) /\ Takes(nodes, Top, a, c)
      /\ Effect(nodes, Tail(todo), c, z) /\ z \in Layout
      /\ Top \in Calls /\ Top.n \in Nat
  BY <1>1, <1>2, ReadyIs DEF Ready
<1>4. /\ a.n \in Nat /\ a.t \in Nat /\ a.m \in Nat /\ a.d \in Nat
      /\ a.e \in [Nat -> {"raw", "typed", "statement"}]
  BY <1>3, LayoutIs
<1>5. CASE Top.n = 0
  <2> DEFINE b == [n |-> a.n, e |-> a.e, t |-> a.t, m |-> a.m, d |-> a.d,
                   node |-> i, typed |-> {}]
  <2>1. TopIs(a, 1, "raw") /\ Yields(a, c, 1, "typed") /\ Counts(a, c, 0, 0, 0) /\ Plain(c)
    BY <1>1, <1>3, <1>5 DEF Takes
  <2>2. i = exprs[a.n] /\ i \in 1..Len(nodes) /\ nodes[i].kind \in Expressions
        /\ i \in Nat /\ a.n >= 1
    <3>1. a.n >= 1 /\ a.n \in 1..a.n /\ a.e[a.n] = "raw"
      BY <1>4, <2>1 DEF TopIs
    <3>2. i = exprs[a.n] /\ i \in 1..Len(nodes)
      BY <1>3, <1>5, <3>1, TopIsNode DEF ParserInv
    <3>3. nodes[exprs[a.n]].kind \in Expressions
      BY <1>3, <3>1 DEF Fits
    <3>4. i \in Nat
      BY <3>2, NodeIs DEF ParserInv
    <3> QED
      BY <3>1, <3>2, <3>3, <3>4
  <2> HIDE DEF i
  <2>3. b \in Layout
    BY <1>4, <2>2 DEF Layout
  <2>4. /\ b.n = a.n /\ b.e = a.e /\ b.t = a.t /\ b.m = a.m /\ b.d = a.d
        /\ b.node = i /\ b.typed = {}
    OBVIOUS
  <2> HIDE DEF b
  <2>5. Fits(b)
    BY <1>3, <2>2, <2>4 DEF Fits
  <2>6. Types(i, b, c)
    BY <2>1, <2>4 DEF Counts, TopIs, Yields, Plain, Types
  <2>7. calls \in Seq(Calls) /\ Effect(nodes, calls, b, c)
    BY <1>3, <2>2, <2>3, <2>6, PostParseRuns DEF IsExpression
  <2> HIDE DEF calls
  <2> QED
    BY <1>1, <1>3, <2>3, <2>5, <2>7, GoesKeeps DEF Moves
<1>6. CASE Top.n # 0
  <2>1. OperandTakes(nodes, Top, a, c)
    BY <1>1, <1>3, <1>6 DEF Takes
  <2>2. i = Top.n /\ i \in 1..Len(nodes) /\ nodes[i].kind \in Expressions
    <3>1. DOMAIN nodes = 1..Len(nodes)
      BY LenProperties DEF ParserInv, TypeOK
    <3> QED
      BY <1>6, <2>1, <3>1 DEF OperandTakes
  <2> HIDE DEF i
  <2>3. Types(i, a, c)
    BY <1>1, <2>1, <2>2 DEF OperandTakes, Types
  <2>4. calls \in Seq(Calls) /\ Effect(nodes, calls, a, c)
    BY <1>3, <2>2, <2>3, PostParseRuns DEF IsExpression
  <2> HIDE DEF calls
  <2> QED
    BY <1>1, <1>2, <2>4, GoesOn DEF Moves
<1> QED
  BY <1>5, <1>6

------------------------------------------------------------------------------
(* Types and statements. *)

\* A layout as it is before a call: what was known of the operands of the node
\* on top is forgotten.
LEMMA PlainIs ==
    ASSUME NEW a \in Layout
    PROVE  /\ Counted(a, 0, 0, 0) \in Layout /\ Plain(Counted(a, 0, 0, 0))
           /\ Same(a, Counted(a, 0, 0, 0)) /\ Counts(a, Counted(a, 0, 0, 0), 0, 0, 0)
           /\ Counted(a, 0, 0, 0).n = a.n /\ Counted(a, 0, 0, 0).e = a.e
           /\ Counted(a, 0, 0, 0).t = a.t /\ Counted(a, 0, 0, 0).m = a.m
           /\ Counted(a, 0, 0, 0).d = a.d
<1>1. a.t + 0 >= 0 /\ a.m + 0 >= 0 /\ a.d + 0 >= 0
  BY LayoutIs
<1>2. a.t + 0 = a.t /\ a.m + 0 = a.m /\ a.d + 0 = a.d
  BY LayoutIs
<1>3. /\ Counted(a, 0, 0, 0).t = a.t /\ Counted(a, 0, 0, 0).m = a.m
      /\ Counted(a, 0, 0, 0).d = a.d
  BY <1>2 DEF Counted
<1> QED
  BY <1>1, <1>3, CountedIs

\* Tokens that are expected change no stack.
LEMMA ExpectRuns ==
    ASSUME NEW N, at \in Nat, NEW token \in Op, NEW a \in Layout, NEW b \in Layout,
           Same(a, b), Counts(a, b, 0, 0, 0), Plain(b)
    PROVE  Expect(token) \in Calls /\ Takes(N, Expect(token), a, b)
<1>1. Expect(token) \in Calls /\ Expect(token).do = "expect"
  BY ExpectIs
<1> QED
  BY <1>1 DEF Takes

LEMMA SameIsSame ==
    ASSUME NEW a \in Layout
    PROVE  Same(a, a) /\ Counts(a, a, 0, 0, 0)
BY LayoutIs DEF Same, Counts

\* What DerivedType does but for a pointer.
DerivedTypeEnds ==
    \/ /\ Known /\ Tok = "[" /\ Eat
       /\ Goes(<<Expect("integer"), Expect("]"), Call("array type"), Top>>)
    \/ Stay /\ Goes(<<>>)

LEMMA DerivedTypeGoes ==
    ASSUME ParserInv, Runs("derived type"), DerivedTypeEnds
    PROVE  ParserInv'
<1>1. todo # <<>> /\ Top.do = "derived type"
  BY DEF Runs
<1>2. PICK a, c, z : Ready(a, c, z)
  BY <1>1, ReadyIs
<1>3. at \in Nat /\ a \in Layout /\ c \in Layout /\ Top \in Calls
  BY <1>1, <1>2, ReadyIs DEF Ready
<1>4. a.t >= 1 /\ Same(a, c) /\ Counts(a, c, 0, 0, 0) /\ Plain(c)
  BY <1>1, <1>2 DEF Ready, Takes
<1>5. CASE Stay /\ Goes(<<>>)
  BY <1>2, <1>4, <1>5, GoesNowhere DEF Moves
<1> DEFINE p == Counted(a, 0, 0, 0)
           size == Expect("integer")
           close == Expect("]")
           array == Call("array type")
<1>6. /\ p \in Layout /\ Plain(p) /\ Same(a, p) /\ Counts(a, p, 0, 0, 0)
      /\ p.n = a.n /\ p.e = a.e /\ p.t = a.t /\ p.m = a.m /\ p.d = a.d
  BY <1>3, PlainIs
<1> HIDE DEF p
<1>7. p.t >= 1
  BY <1>4, <1>6
<1>8. Same(p, c) /\ Counts(p, c, 0, 0, 0)
  BY <1>4, <1>6 DEF Same, Counts
<1>9. CASE Known /\ Tok = "[" /\ Eat /\ Goes(<<size, close, array, Top>>)
  <2>1. "integer" \in Op /\ "]" \in Op
    BY DEF Op
  <2>2. array \in Calls /\ array.do = "array type"
    BY <1>3, CallIs DEF Do
  <2> HIDE DEF array
  <2>3. Same(p, p) /\ Counts(p, p, 0, 0, 0)
    BY <1>6, SameIsSame
  <2>4. /\ size \in Calls /\ Takes(nodes, size, a, p)
        /\ close \in Calls /\ Takes(nodes, close, p, p)
    BY <1>3, <1>6, <2>1, <2>3, ExpectRuns
  <2>5. Takes(nodes, array, p, p)
    BY <1>6, <2>2, <2>3, <1>7 DEF Takes
  <2>6. Takes(nodes, Top, p, c)
    BY <1>1, <1>4, <1>7, <1>8 DEF Takes
  <2> HIDE DEF size, close
  <2>7. /\ <<size, close>> \in Seq(Calls) /\ Effect(nodes, <<size, close>>, a, p)
    BY <1>3, <1>6, <2>4, EffectOfTwo
  <2>8. /\ <<size, close>> \o <<array>> \in Seq(Calls)
         /\ Effect(nodes, <<size, close>> \o <<array>>, a, p)
    BY <1>6, <2>2, <2>5, <2>7, EffectMore
  <2>9. /\ (<<size, close>> \o <<array>>) \o <<Top>> \in Seq(Calls)
         /\ Effect(nodes, (<<size, close>> \o <<array>>) \o <<Top>>, a, c)
    BY <1>3, <1>6, <2>6, <2>8, EffectMore
  <2>10. <<size, close, array, Top>> = (<<size, close>> \o <<array>>) \o <<Top>>
    <3>0. size \in Calls /\ close \in Calls /\ array \in Calls /\ Top \in Calls
      BY <1>3, <2>2, <2>4
    <3>1. <<size, close, array>> = <<size, close>> \o <<array>>
      BY ONLY <3>0, ListsAre
    <3>2. <<size, close, array, Top>> = <<size, close, array>> \o <<Top>>
      BY ONLY <3>0, ListsAre
    <3> QED
      BY <3>1, <3>2
  <2> QED
    BY <1>2, <1>9, <2>9, <2>10, GoesOn DEF Moves, EndOfFile
<1> QED
  BY <1>5, <1>9 DEF DerivedTypeEnds, size, close, array

\* What Statement does for each kind.
Evaluates(kind) == Goes(Expression \o <<Expect(";"), Build(at, kind, 1)>>)

Declares == Goes(Type \o <<Call("name"), Call("initial value")>>)

Decides(kind) ==
    Goes(<<Expect("(")>> \o Expression \o
         <<Expect(")"), Call("statement"), Build(at, kind, 2)>>)

\* A statement that is an expression, or returns one.
LEMMA ExpressionStatement ==
    ASSUME ParserInv, Runs("statement"), Moves, NEW kind \in {"expression", "return"},
           Evaluates(kind)
    PROVE  ParserInv'
<1>1. todo # <<>> /\ Top.do = "statement"
  BY DEF Runs
<1>2. PICK a, c, z : Ready(a, c, z)
  BY <1>1, ReadyIs
<1>3. at \in Nat /\ a \in Layout /\ c \in Layout
  BY <1>1, <1>2, ReadyIs DEF Ready
<1>4. Yields(a, c, 0, "statement") /\ Counts(a, c, 0, 0, 0) /\ Plain(c)
  BY <1>1, <1>2 DEF Ready, Takes, StatementTakes
<1> DEFINE p == Pushed(a, "typed")
           end == Expect(";")
           build == Build(at, kind, 1)
<1>5. p \in Layout /\ TopIs(p, 1, "typed") /\ Plain(p)
  BY <1>3, PushedIs
<1>6. Yields(p, c, 1, "statement") /\ Counts(p, c, 0, 0, 0)
  BY <1>3, <1>4, OneMore
<1>7. Expression \in Seq(Calls) /\ Effect(nodes, Expression, a, p)
  BY <1>3, ExpressionRuns
<1>8. build \in Calls /\ build.do = "build" /\ build.op = kind /\ build.n = 1
  <2>1. kind \in Op /\ 1 \in Nat
    BY DEF Op
  <2> QED
    BY <1>3, <2>1, BuildIs
<1> HIDE DEF p, build
<1>9. end \in Calls /\ Takes(nodes, end, p, p)
  <2>1. ";" \in Op
    BY DEF Op
  <2> QED
    BY <1>3, <1>5, <2>1, SameIsSame, ExpectRuns
<1> HIDE DEF end
<1>10. Takes(nodes, build, p, c)
  BY <1>4, <1>5, <1>6, <1>8 DEF Takes, BuildTakes
<1>11. /\ Expression \o <<end, build>> \in Seq(Calls)
       /\ Effect(nodes, Expression \o <<end, build>>, a, c)
  BY <1>3, <1>5, <1>7, <1>8, <1>9, <1>10, EffectMoreTwo
<1> QED
  BY <1>2, <1>11, GoesOn DEF end, build, Evaluates

LEMMA VariableStatement ==
    ASSUME ParserInv, Runs("statement"), Moves, Declares
    PROVE  ParserInv'
<1>1. todo # <<>> /\ Top.do = "statement"
  BY DEF Runs
<1>2. PICK a, c, z : Ready(a, c, z)
  BY <1>1, ReadyIs
<1>3. at \in Nat /\ a \in Layout /\ c \in Layout
  BY <1>1, <1>2, ReadyIs DEF Ready
<1>4. Yields(a, c, 0, "statement") /\ Counts(a, c, 0, 0, 0) /\ Plain(c) /\ a.d >= 1
  BY <1>1, <1>2 DEF Ready, Takes, StatementTakes
<1> DEFINE p == Counted(a, 1, 0, 0)
           q == Counted(a, 1, 1, 0)
           name == Call("name")
           value == Call("initial value")
<1>5. a.n \in Nat /\ a.t \in Nat /\ a.m \in Nat /\ a.d \in Nat
  BY <1>3, LayoutIs
<1>6. /\ p \in Layout /\ Counts(a, p, 1, 0, 0) /\ p.n = a.n /\ p.e = a.e
      /\ q \in Layout /\ Plain(q) /\ Counts(a, q, 1, 1, 0) /\ q.n = a.n /\ q.e = a.e
  <2>1. a.t + 1 >= 0 /\ a.m + 0 >= 0 /\ a.m + 1 >= 0 /\ a.d + 0 >= 0
    BY <1>5
  <2> QED
    BY <1>3, <2>1, CountedIs
<1>7. Type \in Seq(Calls) /\ Effect(nodes, Type, a, p)
  BY <1>3, TypeRuns
<1>8. name \in Calls /\ name.do = "name" /\ value \in Calls /\ value.do = "initial value"
  BY <1>3, CallIs DEF Do
<1> HIDE DEF p, q, name, value
<1>9. Takes(nodes, name, p, q)
  <2>1. Same(p, q) /\ Counts(p, q, 0, 1, 0)
    BY <1>5, <1>6 DEF Same, Counts
  <2> QED
    BY <1>6, <1>8, <2>1 DEF Takes
<1>10. Takes(nodes, value, q, c)
  <2>1. q.d >= 1 /\ Yields(q, c, 0, "statement") /\ Counts(q, c, -1, -1, 0)
    BY <1>4, <1>5, <1>6 DEF Yields, Counts
  <2> QED
    BY <1>4, <1>8, <2>1 DEF Takes, StatementTakes
<1>11. /\ Type \o <<name, value>> \in Seq(Calls)
       /\ Effect(nodes, Type \o <<name, value>>, a, c)
  BY <1>3, <1>6, <1>7, <1>8, <1>9, <1>10, EffectMoreTwo
<1> QED
  BY <1>2, <1>11, GoesOn DEF name, value, Declares

LEMMA ConditionStatement ==
    ASSUME ParserInv, Runs("statement"), Moves, NEW kind \in {"if", "while"}, Decides(kind)
    PROVE  ParserInv'
<1>1. todo # <<>> /\ Top.do = "statement"
  BY DEF Runs
<1>2. PICK a, c, z : Ready(a, c, z)
  BY <1>1, ReadyIs
<1>3. at \in Nat /\ a \in Layout /\ c \in Layout
  BY <1>1, <1>2, ReadyIs DEF Ready
<1>4. Yields(a, c, 0, "statement") /\ Counts(a, c, 0, 0, 0) /\ Plain(c) /\ a.d >= 1
  BY <1>1, <1>2 DEF Ready, Takes, StatementTakes
<1> DEFINE b == Counted(a, 0, 0, 0)
           p == Pushed(b, "typed")
           q == Pushed(p, "statement")
           open == Expect("(")
           close == Expect(")")
           body == Call("statement")
           build == Build(at, kind, 2)
<1>5. a.n \in Nat /\ a.t \in Nat /\ a.m \in Nat /\ a.d \in Nat
  BY <1>3, LayoutIs
<1>6. /\ b \in Layout /\ Plain(b) /\ Same(a, b) /\ Counts(a, b, 0, 0, 0)
      /\ b.n = a.n /\ b.e = a.e
  BY <1>3, PlainIs
<1> HIDE DEF b
<1>7. /\ p \in Layout /\ Plain(p) /\ Counts(b, p, 0, 0, 0) /\ p.n = b.n + 1
      /\ p.e[b.n + 1] = "typed" /\ \A i \in 1..b.n : p.e[i] = b.e[i]
  BY <1>6, PushedIs
<1>8. Expression \in Seq(Calls) /\ Effect(nodes, Expression, b, p)
  BY <1>3, <1>6, ExpressionRuns
<1> HIDE DEF p
<1>9. /\ q \in Layout /\ Plain(q) /\ Counts(p, q, 0, 0, 0) /\ q.n = p.n + 1
      /\ Yields(p, q, 0, "statement")
      /\ q.e[p.n + 1] = "statement" /\ \A i \in 1..p.n : q.e[i] = p.e[i]
  BY <1>7, PushedIs
<1> HIDE DEF q
<1>10. open \in Calls /\ Takes(nodes, open, a, b)
  <2>1. "(" \in Op
    BY DEF Op
  <2> QED
    BY <1>3, <1>6, <2>1, ExpectRuns
<1>11. close \in Calls /\ Takes(nodes, close, p, p)
  <2>1. ")" \in Op
    BY DEF Op
  <2> QED
    BY <1>3, <1>7, <2>1, SameIsSame, ExpectRuns
<1>12. body \in Calls /\ body.do = "statement"
  BY <1>3, CallIs DEF Do
<1>13. build \in Calls /\ build.do = "build" /\ build.op = kind /\ build.n = 2
  <2>1. kind \in Op /\ 2 \in Nat
    BY DEF Op
  <2> QED
    BY <1>3, <2>1, BuildIs
<1> HIDE DEF open, close, body, build
<1>14. Takes(nodes, body, p, q)
  <2>1. p.d >= 1
    BY <1>4, <1>5, <1>6, <1>7 DEF Counts
  <2> QED
    BY <1>9, <1>12, <2>1 DEF Takes, StatementTakes
<1>15. Takes(nodes, build, q, c)
  <2>1. TopIs(q, 1, "statement") /\ TopIs(q, 2, "typed")
    BY <1>5, <1>6, <1>7, <1>9 DEF TopIs
  <2>2. Yields(q, c, 2, "statement")
    BY <1>4, <1>5, <1>6, <1>7, <1>9 DEF Yields
  <2>3. Counts(q, c, 0, 0, 0)
    BY <1>4, <1>5, <1>6, <1>7, <1>9 DEF Counts
  <2> QED
    BY <1>4, <1>13, <2>1, <2>2, <2>3 DEF Takes, BuildTakes
<1>16. <<open>> \o Expression \in Seq(Calls) /\ Effect(nodes, <<open>> \o Expression, a, p)
  <2>1. <<open>> \in Seq(Calls) /\ Effect(nodes, <<open>>, a, b)
    BY <1>3, <1>6, <1>10, EffectOne, ListsAre
  <2> QED
    BY <1>8, <2>1, EffectThen, ConcatProperties DEF IsSeq
<1>17. /\ (<<open>> \o Expression) \o <<close, body, build>> \in Seq(Calls)
       /\ Effect(nodes, (<<open>> \o Expression) \o <<close, body, build>>, a, c)
  BY <1>3, <1>7, <1>9, <1>11, <1>12, <1>13, <1>14, <1>15, <1>16, EffectMoreThree
<1> QED
  BY <1>2, <1>17, GoesOn DEF open, close, body, build, Decides

LEMMA InitialValueKeeps ==
    ASSUME ParserInv, InitialValue
    PROVE  ParserInv'
<1>1. todo # <<>> /\ Top.do = "initial value" /\ Known
  BY DEF InitialValue, Reads, Runs
<1>2. PICK a, c, z : Ready(a, c, z)
  BY <1>1, ReadyIs
<1>3. /\ at \in Nat /\ a \in Layout /\ c \in Layout
      /\ Top.n \in Nat /\ Top.from \in Nat
  BY <1>1, <1>2, ReadyIs DEF Ready
<1>4. Yields(a, c, 0, "statement") /\ Counts(a, c, -1, -1, 0) /\ Plain(c) /\ a.d >= 1
  BY <1>1, <1>2 DEF Ready, Takes, StatementTakes
<1> DEFINE b == Counted(a, 0, 0, 0)
           p == Pushed(a, "typed")
           end == Expect(";")
           with == Since(Top.from, "declare", 1)
           without == Since(Top.from, "declare", 0)
<1>5. a.n \in Nat /\ a.t \in Nat /\ a.m \in Nat /\ a.d \in Nat
  BY <1>3, LayoutIs
<1>6. /\ b \in Layout /\ Plain(b) /\ Same(a, b) /\ Counts(a, b, 0, 0, 0)
      /\ b.n = a.n /\ b.e = a.e /\ b.t = a.t /\ b.m = a.m /\ b.d = a.d
  BY <1>3, PlainIs
<1>7. /\ p \in Layout /\ Plain(p) /\ Counts(a, p, 0, 0, 0) /\ p.n = a.n + 1
      /\ p.e[a.n + 1] = "typed" /\ \A i \in 1..a.n : p.e[i] = a.e[i]
  BY <1>3, PushedIs
<1>8. Expression \in Seq(Calls) /\ Effect(nodes, Expression, a, p)
  BY <1>3, ExpressionRuns
<1>9. /\ with \in Calls /\ with.do = "declare" /\ with.n = 1
      /\ without \in Calls /\ without.do = "declare" /\ without.n = 0
  <2>1. "declare" \in Do /\ 0 \in Nat /\ 1 \in Nat
    BY DEF Do
  <2> QED
    BY <1>3, <2>1, CallsAre
<1> HIDE DEF b, p, with, without
<1>10. /\ end \in Calls /\ Takes(nodes, end, p, p) /\ Takes(nodes, end, a, b)
  <2>1. ";" \in Op
    BY DEF Op
  <2> QED
    BY <1>3, <1>6, <1>7, <2>1, SameIsSame, ExpectRuns
<1> HIDE DEF end
<1>11. Takes(nodes, with, p, c)
  <2>1. TopsAre(p, 1, "typed") /\ p.d >= 1
    BY <1>4, <1>5, <1>7 DEF TopsAre, Counts
  <2>2. Yields(p, c, 1, "statement")
    BY <1>4, <1>5, <1>7 DEF Yields
  <2>3. Counts(p, c, -1, -1, 0)
    BY <1>4, <1>5, <1>7 DEF Counts
  <2> QED
    BY <1>4, <1>9, <2>1, <2>2, <2>3 DEF Takes, StatementTakes
<1>12. Takes(nodes, without, b, c)
  <2>1. TopsAre(b, 0, "typed") /\ b.d >= 1
    BY <1>4, <1>5, <1>6 DEF TopsAre
  <2>2. Yields(b, c, 0, "statement") /\ Counts(b, c, -1, -1, 0)
    BY <1>4, <1>6 DEF Yields, Counts
  <2> QED
    BY <1>4, <1>9, <2>1, <2>2 DEF Takes, StatementTakes
<1>13. /\ Expression \o <<end, with>> \in Seq(Calls)
       /\ Effect(nodes, Expression \o <<end, with>>, a, c)
  BY <1>3, <1>7, <1>8, <1>9, <1>10, <1>11, EffectMoreTwo
<1>14. /\ <<end, without>> \in Seq(Calls) /\ Effect(nodes, <<end, without>>, a, c)
  BY <1>3, <1>6, <1>9, <1>10, <1>12, EffectOfTwo
<1>15. CASE Tok = "=" /\ Eat /\ Goes(Expression \o <<end, with>>)
  BY <1>1, <1>2, <1>13, <1>15, GoesOn DEF Moves, EndOfFile
<1>16. CASE Stay /\ Goes(<<end, without>>)
  BY <1>2, <1>14, <1>16, GoesOn DEF Moves
<1> QED
  BY <1>15, <1>16 DEF InitialValue, end, with, without

\* One statement more of a block, or of the body of a function.
LEMMA MoreStatements ==
    ASSUME at \in Nat, Top \in Calls, Top.do \in {"block", "body"},
           NEW a \in Layout, NEW c \in Layout, StatementTakes(Top, a, c), Plain(c)
    PROVE  /\ <<Call("statement"), Since(Top.from, Top.do, Top.n + 1)>> \in Seq(Calls)
           /\ Effect(nodes, <<Call("statement"), Since(Top.from, Top.do, Top.n + 1)>>, a, c)
<1> DEFINE p == Pushed(a, "statement")
           first == Call("statement")
           more == Since(Top.from, Top.do, Top.n + 1)
<1>1. a.n \in Nat /\ a.t \in Nat /\ a.m \in Nat /\ a.d \in Nat
  BY LayoutIs
<1>2. /\ p \in Layout /\ Plain(p) /\ Counts(a, p, 0, 0, 0) /\ p.n = a.n + 1
      /\ Yields(a, p, 0, "statement")
      /\ p.e[a.n + 1] = "statement" /\ \A i \in 1..a.n : p.e[i] = a.e[i]
  BY PushedIs
<1>3. Top.n \in Nat /\ Top.from \in Nat /\ Top.n + 1 \in Nat /\ Top.do \in Do
  BY DEF Calls
<1>4. more \in Calls /\ more.do = Top.do /\ more.n = Top.n + 1
  BY <1>3, CallsAre
<1>5. first \in Calls /\ first.do = "statement"
  BY CallIs DEF Do
<1> HIDE DEF p, first, more
<1>6. p.t = a.t /\ p.m = a.m /\ p.d = a.d
  BY <1>1, <1>2 DEF Counts
<1>7. a.d >= 1
  BY DEF StatementTakes
<1>8. Takes(nodes, first, a, p)
  BY <1>2, <1>5, <1>7 DEF Takes, StatementTakes
<1>9. /\ a.d >= 1 /\ TopsAre(a, Top.n, "statement") /\ Yields(a, c, Top.n, "statement")
  BY DEF StatementTakes
<1>10. TopsAre(p, Top.n + 1, "statement")
  BY <1>1, <1>2, <1>3, <1>9 DEF TopsAre
<1>11. Yields(p, c, Top.n + 1, "statement")
  BY <1>1, <1>2, <1>3, <1>9 DEF Yields
<1>12. \A t, m, d : Counts(a, c, t, m, d) => Counts(p, c, t, m, d)
  BY <1>6 DEF Counts
<1>13. StatementTakes(more, p, c)
  <2>1. CASE Top.do = "block"
    <3>1. a.d >= 2 /\ Counts(a, c, 0, 0, -1)
      BY <2>1 DEF StatementTakes
    <3> QED
      BY <1>4, <1>6, <1>9, <1>10, <1>11, <1>12, <2>1, <3>1 DEF StatementTakes
  <2>2. CASE Top.do = "body"
    <3>1. a.d = 1 /\ Counts(a, c, 0, -1, 0)
      BY <2>2 DEF StatementTakes
    <3> QED
      BY <1>4, <1>6, <1>9, <1>10, <1>11, <1>12, <2>2, <3>1 DEF StatementTakes
  <2> QED
    BY <2>1, <2>2
<1>14. Takes(nodes, more, p, c)
  BY <1>4, <1>13 DEF Takes
<1> QED
  BY <1>2, <1>4, <1>5, <1>8, <1>14, EffectOfTwo DEF first, more

\* What Block and Body do in front of a statement.
Continues ==
    Stay /\ Goes(<<Call("statement"), Since(Top.from, Top.do, Top.n + 1)>>)

LEMMA StatementFollows ==
    ASSUME ParserInv, todo # <<>>, Top.do \in {"block", "body"}, Continues
    PROVE  ParserInv'
<1>1. PICK a, c, z : Ready(a, c, z)
  BY ReadyIs
<1>2. at \in Nat /\ Top \in Calls /\ a \in Layout /\ c \in Layout
  BY <1>1, ReadyIs DEF Ready
<1>3. StatementTakes(Top, a, c) /\ Plain(c)
  BY <1>1 DEF Ready, Takes
<1> DEFINE calls == <<Call("statement"), Since(Top.from, Top.do, Top.n + 1)>>
<1>4. calls \in Seq(Calls) /\ Effect(nodes, calls, a, c)
  BY <1>2, <1>3, MoreStatements
<1>5. Stay /\ Goes(calls)
  BY DEF Continues
<1> HIDE DEF calls
<1> QED
  BY <1>1, <1>4, <1>5, GoesOn DEF Moves

\* A function, and what comes behind it.
FunctionFollows ==
    Goes(<<Call("name"), Expect("("), Call("parameters"), Expect("->")>>
         \o Type \o <<Call("signature"), Top>>)

LEMMA ProgramGoesOn ==
    ASSUME ParserInv, Runs("program"), Eat, Known, Tok # EndOfFile, FunctionFollows
    PROVE  ParserInv'
<1>1. todo # <<>> /\ Top.do = "program"
  BY DEF Runs
<1>2. PICK a, c, z : Ready(a, c, z)
  BY <1>1, ReadyIs
<1>3. at \in Nat /\ a \in Layout /\ c \in Layout /\ Top \in Calls
  BY <1>1, <1>2, ReadyIs DEF Ready
<1>4. a.d = 1 /\ Plain(c)
  BY <1>1, <1>2 DEF Ready, Takes
<1> DEFINE p == Counted(a, 0, 1, 0)
           q == Counted(p, 1, 0, 0)
           r == Pushed(a, "statement")
           name == Call("name")
           open == Expect("(")
           params == Call("parameters")
           arrow == Expect("->")
           signature == Call("signature")
<1>5. a.n \in Nat /\ a.t \in Nat /\ a.m \in Nat /\ a.d \in Nat
  BY <1>3, LayoutIs
<1>6. /\ p \in Layout /\ Plain(p) /\ Same(a, p) /\ Counts(a, p, 0, 1, 0)
      /\ p.n = a.n /\ p.e = a.e
  <2>1. a.t + 0 >= 0 /\ a.m + 1 >= 0 /\ a.d + 0 >= 0
    BY <1>5
  <2> QED
    BY <1>3, <2>1, CountedIs
<1> HIDE DEF p
<1>7. p.t = a.t /\ p.m = a.m + 1 /\ p.d = a.d
  BY <1>5, <1>6 DEF Counts
<1>8. /\ q \in Layout /\ Plain(q) /\ Counts(p, q, 1, 0, 0)
      /\ q.n = p.n /\ q.e = p.e
  <2>1. p.t + 1 >= 0 /\ p.m + 0 >= 0 /\ p.d + 0 >= 0
    BY <1>5, <1>7
  <2> QED
    BY <1>6, <2>1, CountedIs
<1>9. Type \in Seq(Calls) /\ Effect(nodes, Type, p, q)
  BY <1>3, <1>6, TypeRuns
<1> HIDE DEF q
<1>10. q.t = a.t + 1 /\ q.m = a.m + 1 /\ q.d = a.d
  BY <1>5, <1>7, <1>8 DEF Counts
<1>11. /\ r \in Layout /\ Plain(r) /\ Yields(a, r, 0, "statement") /\ Counts(a, r, 0, 0, 0)
  BY <1>3, PushedIs
<1> HIDE DEF r
<1>12. r.t = a.t /\ r.m = a.m /\ r.d = a.d
  BY <1>5, <1>11 DEF Counts
<1>13. Yields(q, r, 0, "statement") /\ Counts(q, r, -1, -1, 0)
  BY <1>5, <1>6, <1>8, <1>10, <1>11, <1>12 DEF Yields, Counts
<1>14. /\ name \in Calls /\ name.do = "name" /\ params \in Calls /\ params.do = "parameters"
       /\ signature \in Calls /\ signature.do = "signature"
  BY <1>3, CallIs DEF Do
<1>15. Same(p, p) /\ Counts(p, p, 0, 0, 0)
  BY <1>6, SameIsSame
<1> HIDE DEF name, params, signature
<1>16. /\ open \in Calls /\ Takes(nodes, open, p, p)
       /\ arrow \in Calls /\ Takes(nodes, arrow, p, p)
  <2>1. "(" \in Op /\ "->" \in Op
    BY DEF Op
  <2> QED
    BY <1>3, <1>6, <1>15, <2>1, ExpectRuns
<1> HIDE DEF open, arrow
<1>17. Takes(nodes, name, a, p)
  BY <1>6, <1>14 DEF Takes
<1>18. Takes(nodes, params, p, p)
  BY <1>6, <1>14, <1>15 DEF Takes
<1>19. Takes(nodes, signature, q, r)
  BY <1>4, <1>10, <1>11, <1>13, <1>14 DEF Takes, StatementTakes
<1>20. Takes(nodes, Top, r, c)
  BY <1>1, <1>4, <1>12 DEF Takes
<1>21. /\ <<name, open, params, arrow>> \in Seq(Calls)
       /\ Effect(nodes, <<name, open, params, arrow>>, a, p)
  <2>1. <<name, open>> \in Seq(Calls) /\ Effect(nodes, <<name, open>>, a, p)
    BY <1>3, <1>6, <1>14, <1>16, <1>17, EffectOfTwo
  <2>2. /\ <<name, open>> \o <<params, arrow>> \in Seq(Calls)
        /\ Effect(nodes, <<name, open>> \o <<params, arrow>>, a, p)
    BY <1>6, <1>14, <1>16, <1>18, <2>1, EffectMoreTwo
  <2>3. <<name, open>> \o <<params, arrow>> = <<name, open, params, arrow>>
    BY <1>14, <1>16, FourAre
  <2> QED
    BY <2>2, <2>3
<1>22. /\ <<name, open, params, arrow>> \o Type \in Seq(Calls)
       /\ Effect(nodes, <<name, open, params, arrow>> \o Type, a, q)
  BY <1>9, <1>21, EffectThen, ConcatProperties DEF IsSeq
<1>23. /\ (<<name, open, params, arrow>> \o Type) \o <<signature, Top>> \in Seq(Calls)
       /\ Effect(nodes, (<<name, open, params, arrow>> \o Type) \o <<signature, Top>>, a, c)
  BY <1>3, <1>8, <1>11, <1>14, <1>19, <1>20, <1>22, EffectMoreTwo
<1>24. Goes((<<name, open, params, arrow>> \o Type) \o <<signature, Top>>)
  BY DEF FunctionFollows, name, open, params, arrow, signature
<1> QED
  BY <1>2, <1>23, <1>24, GoesOn DEF Moves

------------------------------------------------------------------------------
(* New nodes. *)

\* A stack without its last elements, and those.
LEMMA UnderIs ==
    ASSUME NEW S, NEW s \in Seq(S), NEW n \in 0..Len(s)
    PROVE  /\ Under(s, n) \in Seq(S) /\ Len(Under(s, n)) = Len(s) - n
           /\ \A i \in 1..Len(s) - n : Under(s, n)[i] = s[i]
           /\ Taken(s, n) \in Seq(S) /\ Len(Taken(s, n)) = n
           /\ \A k \in 1..n : Taken(s, n)[k] = s[Len(s) - n + k]
<1>1. Len(s) \in Nat /\ n \in Nat /\ n <= Len(s)
  BY LenProperties
<1> DEFINE m == Len(s) - n
<1>2. m \in Nat /\ m <= Len(s)
  BY <1>1
<1>3. \A i \in 1..m : s[i] \in S
  <2>1. \A i \in 1..m : i \in 1..Len(s)
    BY <1>1
  <2> QED
    BY <2>1, ElementOfSeq
<1>4. /\ SubSeq(s, 1, m) \in Seq(S) /\ Len(SubSeq(s, 1, m)) = m
      /\ \A i \in 1..m : SubSeq(s, 1, m)[i] = s[i]
  <2> HIDE DEF m
  <2>1. /\ SubSeq(s, 1, m) \in Seq(S)
        /\ Len(SubSeq(s, 1, m)) = IF 1 <= m THEN m - 1 + 1 ELSE 0
        /\ \A i \in 1..m - 1 + 1 : SubSeq(s, 1, m)[i] = s[1 + i - 1]
    BY <1>2, <1>3, SubSeqProperties
  <2> QED
    BY <1>2, <2>1
<1>5. /\ SubSeq(s, m + 1, Len(s)) \in Seq(S) /\ Len(SubSeq(s, m + 1, Len(s))) = n
      /\ \A k \in 1..n : SubSeq(s, m + 1, Len(s))[k] = s[m + k]
  <2>1. \A i \in m + 1..Len(s) : s[i] \in S
    <3>1. \A i \in m + 1..Len(s) : i \in 1..Len(s)
      BY <1>1
    <3> QED
      BY <3>1, ElementOfSeq
  <2>2. Len(s) = m + n /\ m + 1 \in Int /\ Len(s) \in Int
    BY <1>1
  <2> HIDE DEF m
  <2>3. /\ SubSeq(s, m + 1, Len(s)) \in Seq(S)
        /\ Len(SubSeq(s, m + 1, Len(s))) = IF m + 1 <= Len(s) THEN Len(s) - (m + 1) + 1 ELSE 0
        /\ \A k \in 1..Len(s) - (m + 1) + 1 : SubSeq(s, m + 1, Len(s))[k] = s[(m + 1) + k - 1]
    BY <2>1, <2>2, SubSeqProperties
  <2>4. Len(s) - (m + 1) + 1 = n
    BY <1>1, <1>2, <2>2
  <2>5. Len(SubSeq(s, m + 1, Len(s))) = n
    BY <1>1, <1>2, <2>2, <2>3
  <2>6. ASSUME NEW k \in 1..n PROVE SubSeq(s, m + 1, Len(s))[k] = s[m + k]
    <3>1. k \in 1..Len(s) - (m + 1) + 1 /\ (m + 1) + k - 1 = m + k
      BY <1>1, <1>2, <2>4
    <3> QED
      BY <2>3, <3>1
  <2> QED
    BY <2>3, <2>5, <2>6
<1>6. Under(s, n) = SubSeq(s, 1, m) /\ Taken(s, n) = SubSeq(s, m + 1, Len(s))
  BY DEF Under, Taken
<1> QED
  BY <1>4, <1>5, <1>6

\* What the node is that replaces the last n results.
LEMMA MakeIs ==
    ASSUME TypeOK, NEW n \in 0..Len(exprs), NEW node \in Node, Make(n, node)
    PROVE  /\ nodes' \in Seq(Node) /\ Len(nodes') = Len(nodes) + 1
           /\ \A i \in 1..Len(nodes) : nodes'[i] = nodes[i]
           /\ nodes'[Len(nodes) + 1] = node
           /\ exprs' \in Seq(Nat) /\ Len(exprs') = Len(exprs) - n + 1
           /\ \A i \in 1..Len(exprs) - n : exprs'[i] = exprs[i]
           /\ exprs'[Len(exprs) - n + 1] = Len(nodes) + 1
           /\ Grows(nodes, nodes')
<1>1. nodes \in Seq(Node) /\ exprs \in Seq(Nat) /\ Len(nodes) \in Nat /\ Len(exprs) \in Nat
  BY LenProperties DEF TypeOK
<1>2. /\ nodes' \in Seq(Node) /\ Len(nodes') = Len(nodes) + 1
      /\ \A i \in 1..Len(nodes) : nodes'[i] = nodes[i]
      /\ nodes'[Len(nodes) + 1] = node
  BY <1>1, AppendProperties DEF Make
<1>3. /\ Under(exprs, n) \in Seq(Nat) /\ Len(Under(exprs, n)) = Len(exprs) - n
      /\ \A i \in 1..Len(exprs) - n : Under(exprs, n)[i] = exprs[i]
  BY <1>1, UnderIs
<1>4. exprs' = Append(Under(exprs, n), Len(nodes) + 1) /\ Len(nodes) + 1 \in Nat
  BY <1>1 DEF Make
<1>5. /\ exprs' \in Seq(Nat) /\ Len(exprs') = Len(exprs) - n + 1
      /\ \A i \in 1..Len(exprs) - n : exprs'[i] = exprs[i]
      /\ exprs'[Len(exprs) - n + 1] = Len(nodes) + 1
  <2> DEFINE u == Under(exprs, n)
             e == Len(nodes) + 1
  <2>1. u \in Seq(Nat) /\ e \in Nat /\ exprs' = Append(u, e) /\ Len(u) = Len(exprs) - n
    BY <1>3, <1>4
  <2>2. \A i \in 1..Len(exprs) - n : u[i] = exprs[i]
    BY <1>3
  <2> HIDE DEF u, e
  <2>3. /\ exprs' \in Seq(Nat) /\ Len(exprs') = Len(u) + 1
        /\ \A i \in 1..Len(u) : exprs'[i] = u[i]
        /\ exprs'[Len(u) + 1] = e
    BY <2>1, AppendProperties
  <2> QED
    BY <2>1, <2>2, <2>3 DEF e
<1>6. Grows(nodes, nodes')
  <2>1. DOMAIN nodes = 1..Len(nodes) /\ DOMAIN nodes' = 1..Len(nodes) + 1
    BY <1>1, <1>2, LenProperties
  <2> QED
    BY <1>1, <1>2, <2>1 DEF Grows
<1> QED
  BY <1>2, <1>5, <1>6

\* A node is sound for more than one state of the nodes below it.
LEMMA SoundKept ==
    ASSUME NEW N, NEW M, NEW node \in Node, NEW i \in Nat, Sound(N, node, i), Grows(N, M),
           1..i - 1 \subseteq DOMAIN N
    PROVE  Sound(M, node, i)
<1>1. \A k \in 1..Len(node.kids) : node.kids[k] \in DOMAIN N
  BY DEF Sound, OperandsSound
<1>2. \A j \in DOMAIN N : M[j].kind = N[j].kind /\ (N[j].type # NoType => M[j].type # NoType)
  BY DEF Grows
<1>3. node.kids \in Seq(Nat) /\ DOMAIN node.kids = 1..Len(node.kids) /\ Len(node.kids) \in Nat
  BY LenProperties DEF Node
<1>4. OperandsSound(M, node, i)
  BY <1>1, <1>2 DEF Sound, OperandsSound
<1>5. OperandsTyped(M, node)
  <2>1. node.kind = "subscript" => M[node.kids[2]].type # NoType
    <3>1. SUFFICES ASSUME node.kind = "subscript" PROVE M[node.kids[2]].type # NoType
      OBVIOUS
    <3>2. Len(node.kids) = 2
      BY <3>1 DEF Sound, OperandsSound
    <3>3. node.kids[2] \in DOMAIN N
      BY <1>1, <3>2
    <3> QED
      BY <1>2, <3>1, <3>3 DEF Sound, OperandsTyped
  <2>2. node.kind = "call" => \A k \in 2..Len(node.kids) : M[node.kids[k]].type # NoType
    <3>1. \A k \in 2..Len(node.kids) : k \in 1..Len(node.kids)
      BY <1>3
    <3> QED
      BY <1>1, <1>2, <3>1 DEF Sound, OperandsTyped
  <2>3. \A k \in Operand(node) : k \in DOMAIN N
    <3>1. ASSUME NEW k \in Operand(node) PROVE k \in DOMAIN N
      <4>1. PICK j \in 1..Len(node.kids) : k = node.kids[j]
        BY <1>3 DEF Operand
      <4> QED
        BY <1>1, <4>1
    <3> QED
      BY <3>1
  <2>4. node.type # NoType \/ node.kind \in Statements =>
           \A k \in Operand(node) : M[k].type # NoType \/ M[k].kind \in Statements
    BY <1>2, <2>3 DEF Sound, OperandsTyped
  <2> QED
    BY <2>1, <2>2, <2>4 DEF OperandsTyped
<1> QED
  BY <1>4, <1>5 DEF Sound

\* A call that ends and makes a node of the last n results.
MakesNode(n, node, a, c) ==
    /\ n \in Nat /\ node \in Node /\ Make(n, node)
    /\ Sound(nodes, node, Len(nodes) + 1)
    /\ Plain(c)
    /\ \/ node.kind \in Expressions /\ Yields(a, c, n, "raw")
       \/ node.kind \in Statements /\ Yields(a, c, n, "statement")

\* What it does to the other variables.
OthersFit(c) ==
    /\ Moves /\ Then(<<>>) /\ status' = status
    /\ types' \in Seq(FullType) /\ Len(types') = c.t
    /\ names' \in Seq(Name) /\ Len(names') = c.m
    /\ scope' \in Seq(Tables(FullType)) /\ Len(scope') = c.d
    /\ functions' \in Tables(Function) /\ header' \in Seq(Param)

LEMMA EndsWithNothing ==
    ASSUME TypeOK, todo # <<>>, Then(<<>>)
    PROVE  todo' = Tail(todo) /\ todo' \in Seq(Calls)
<1>1. Tail(todo) \in Seq(Calls)
  BY HeadTailProperties DEF TypeOK
<1> QED
  BY <1>1, ConcatEmptySeq DEF Then

LEMMA MakeKeeps ==
    ASSUME ParserInv, NEW a, NEW c, NEW z, Ready(a, c, z), NEW n, NEW node,
           MakesNode(n, node, a, c), OthersFit(c)
    PROVE  ParserInv'
<1>1. /\ TypeOK /\ SourceInv /\ NodesInv /\ todo # <<>>
      /\ a \in Layout /\ c \in Layout /\ z \in Layout /\ Fits(a)
      /\ Effect(nodes, Tail(todo), c, z)
  BY DEF ParserInv, Ready
<1>2. /\ n \in Nat /\ node \in Node /\ Make(n, node) /\ Sound(nodes, node, Len(nodes) + 1)
      /\ Plain(c)
  BY DEF MakesNode
<1>3. /\ Moves /\ Then(<<>>) /\ status' = status
      /\ types' \in Seq(FullType) /\ Len(types') = c.t
      /\ names' \in Seq(Name) /\ Len(names') = c.m
      /\ scope' \in Seq(Tables(FullType)) /\ Len(scope') = c.d
      /\ functions' \in Tables(Function) /\ header' \in Seq(Param)
  BY DEF OthersFit
<1>4. a.n >= n /\ c.n = a.n + 1 - n /\ \A i \in 1..a.n - n : c.e[i] = a.e[i]
  BY DEF MakesNode, Yields
<1>5. a.n \in Nat /\ Len(exprs) = a.n /\ n \in 0..Len(exprs) /\ Len(nodes) \in Nat
  BY <1>1, <1>2, <1>4, LayoutIs, LenProperties DEF Fits, TypeOK
<1>6. /\ nodes' \in Seq(Node) /\ Len(nodes') = Len(nodes) + 1
      /\ \A i \in 1..Len(nodes) : nodes'[i] = nodes[i]
      /\ nodes'[Len(nodes) + 1] = node
      /\ exprs' \in Seq(Nat) /\ Len(exprs') = Len(exprs) - n + 1
      /\ \A i \in 1..Len(exprs) - n : exprs'[i] = exprs[i]
      /\ exprs'[Len(exprs) - n + 1] = Len(nodes) + 1
      /\ Grows(nodes, nodes')
  BY <1>1, <1>2, <1>5, MakeIs
<1>7. SourceInv' /\ tokens' = tokens /\ at' \in Nat \ {0}
  BY <1>1, <1>3, MovesKeep
<1>8. todo' \in Seq(Calls)
  BY <1>1, <1>3, EndsWithNothing
<1>9. TypeOK'
  BY <1>1, <1>3, <1>6, <1>7, <1>8 DEF TypeOK
<1>10. NodesInv'
  <2>1. ASSUME NEW i \in 1..Len(nodes) + 1 PROVE Sound(nodes', nodes'[i], i)
    <3>1. DOMAIN nodes = 1..Len(nodes) /\ i \in Nat
      BY <1>1, LenProperties DEF TypeOK
    <3>2. 1..i - 1 \subseteq DOMAIN nodes
      BY <1>5, <3>1
    <3>3. CASE i = Len(nodes) + 1
      BY <1>2, <1>6, <3>1, <3>2, <3>3, SoundKept
    <3>4. CASE i # Len(nodes) + 1
      <4>1. i \in 1..Len(nodes)
        BY <1>5, <3>4
      <4>2. Sound(nodes, nodes[i], i) /\ nodes[i] \in Node /\ nodes'[i] = nodes[i]
        BY <1>1, <1>6, <4>1, NodeIs
      <4> QED
        BY <1>6, <3>1, <3>2, <4>2, SoundKept
    <3> QED
      BY <3>3, <3>4
  <2> QED
    BY <1>6, <2>1 DEF NodesInv
<1>11. Fits(c)'
  <2>1. Len(exprs') = c.n
    BY <1>4, <1>5, <1>6
  <2>2. ASSUME NEW i \in 1..c.n
        PROVE  /\ exprs'[i] \in 1..Len(nodes')
               /\ c.e[i] = "statement" => nodes'[exprs'[i]].kind \in Statements
               /\ c.e[i] # "statement" => nodes'[exprs'[i]].kind \in Expressions
               /\ c.e[i] = "typed" => nodes'[exprs'[i]].type # NoType
    <3>1. CASE i = c.n
      <4>1. i = Len(exprs) - n + 1
        BY <1>4, <1>5, <3>1
      <4>2. exprs'[i] = Len(nodes) + 1 /\ nodes'[exprs'[i]] = node
        BY <1>6, <4>1
      <4>3. \/ node.kind \in Expressions /\ c.e[i] = "raw"
            \/ node.kind \in Statements /\ c.e[i] = "statement"
        BY <3>1 DEF MakesNode, Yields
      <4>4. exprs'[i] \in 1..Len(nodes')
        BY <1>5, <1>6, <4>2
      <4> QED
        BY <4>2, <4>3, <4>4
    <3>2. CASE i # c.n
      <4>1. i \in 1..a.n - n /\ i \in 1..a.n /\ i \in 1..Len(exprs) - n
        BY <1>2, <1>4, <1>5, <3>2
      <4>2. exprs'[i] = exprs[i] /\ c.e[i] = a.e[i]
        BY <1>4, <1>6, <4>1
      <4>3. /\ exprs[i] \in 1..Len(nodes)
            /\ a.e[i] = "statement" => nodes[exprs[i]].kind \in Statements
            /\ a.e[i] # "statement" => nodes[exprs[i]].kind \in Expressions
            /\ a.e[i] = "typed" => nodes[exprs[i]].type # NoType
        BY <1>1, <4>1 DEF Fits
      <4>4. nodes'[exprs[i]] = nodes[exprs[i]] /\ exprs[i] \in 1..Len(nodes')
        BY <1>5, <1>6, <4>3
      <4> QED
        BY <4>2, <4>3, <4>4
    <3> QED
      BY <3>1, <3>2
  <2> QED
    BY <1>2, <1>3, <2>1, <2>2 DEF Fits, Plain
<1>12. WorkInv'
  <2>1. Effect(nodes', <<>>, c, c) /\ IsSeq(<<>>)
    BY <1>1, EffectNone, EmptySeq DEF IsSeq
  <2> QED
    BY <1>1, <1>3, <1>6, <1>11, <2>1, WorkGoesOn
<1> QED
  BY <1>7, <1>9, <1>10, <1>12 DEF ParserInv

\* What the layout says of a result.
IsKnown(i, x) ==
    /\ i \in 1..Len(nodes)
    /\ x = "statement" => nodes[i].kind \in Statements
    /\ x # "statement" => nodes[i].kind \in Expressions
    /\ x = "typed" => nodes[i].type # NoType

LEMMA TakenAre ==
    ASSUME TypeOK, NEW a \in Layout, Fits(a), NEW n \in Nat, n <= a.n
    PROVE  /\ Taken(exprs, n) \in Seq(Nat) /\ Len(Taken(exprs, n)) = n
           /\ DOMAIN Taken(exprs, n) = 1..n
           /\ \A k \in 1..n : IsKnown(Taken(exprs, n)[k], a.e[a.n - n + k])
<1>1. /\ exprs \in Seq(Nat) /\ Len(exprs) = a.n /\ a.n \in Nat /\ n \in 0..Len(exprs)
  BY LayoutIs DEF TypeOK, Fits
<1>2. /\ Taken(exprs, n) \in Seq(Nat) /\ Len(Taken(exprs, n)) = n
      /\ \A k \in 1..n : Taken(exprs, n)[k] = exprs[Len(exprs) - n + k]
  BY <1>1, UnderIs
<1>3. DOMAIN Taken(exprs, n) = 1..n
  BY <1>2, LenProperties
<1>4. ASSUME NEW k \in 1..n
      PROVE  IsKnown(Taken(exprs, n)[k], a.e[a.n - n + k])
  <2>1. a.n - n + k \in 1..a.n /\ Taken(exprs, n)[k] = exprs[a.n - n + k]
    <3>1. a.n - n + k \in 1..a.n
      BY <1>1
    <3> QED
      BY <1>1, <1>2, <3>1
  <2>2. \A i \in 1..a.n : IsKnown(exprs[i], a.e[i])
    BY DEF Fits, IsKnown
  <2> QED
    BY <2>1, <2>2
<1> QED
  BY <1>2, <1>3, <1>4

LEMMA EmptyTypeIs == NoType \in AnyType
BY EmptySeq DEF NoType, AnyType

\* A statement is sound if its parts are statements or have a type.
LEMMA StatementSound ==
    ASSUME TypeOK, NEW node \in Node, node.kind \in Statements,
           \A k \in 1..Len(node.kids) :
               IsKnown(node.kids[k], "typed") \/ IsKnown(node.kids[k], "statement")
    PROVE  Sound(nodes, node, Len(nodes) + 1)
<1>1. node.kids \in Seq(Nat) /\ DOMAIN node.kids = 1..Len(node.kids) /\ Len(nodes) \in Nat
  BY LenProperties DEF Node, TypeOK
<1>2. node.kind \notin Expressions
  BY KindsAre
<1>3. node.kind \notin Unary \cup Binary \cup {"subscript", "call", "integer", "string", "identifier"}
  BY <1>2 DEF Expressions
<1>4. \A k \in 1..Len(node.kids) : node.kids[k] \in 1..Len(nodes)
  BY DEF IsKnown
<1>5. 1..(Len(nodes) + 1) - 1 = 1..Len(nodes)
  BY <1>1
<1>6. OperandsSound(nodes, node, Len(nodes) + 1)
  BY <1>2, <1>3, <1>4, <1>5 DEF OperandsSound
<1>7. Operand(node) = {node.kids[k] : k \in 1..Len(node.kids)}
  BY <1>1, <1>3 DEF Operand
<1>8. \A k \in 1..Len(node.kids) :
         nodes[node.kids[k]].type # NoType \/ nodes[node.kids[k]].kind \in Statements
  BY DEF IsKnown
<1>9. OperandsTyped(nodes, node)
  BY <1>3, <1>7, <1>8 DEF OperandsTyped
<1> QED
  BY <1>6, <1>9 DEF Sound

\* The number of operands, and those that have a type at once.
Arity(kind, n) ==
    /\ kind \in Unary => n = 1
    /\ kind \in Binary \cup {"subscript"} => n = 2
    /\ kind = "call" => n >= 1
    /\ kind \in {"integer", "string", "identifier"} => n = 0

\* An expression that has been built has no type yet.
LEMMA ExpressionSound ==
    ASSUME TypeOK, NEW node \in Node, node.kind \in Expressions, node.type = NoType,
           Arity(node.kind, Len(node.kids)),
           \A k \in 1..Len(node.kids) :
               IsKnown(node.kids[k], "typed") \/ IsKnown(node.kids[k], "raw"),
           \A k \in 2..Len(node.kids) :
               node.kind \in {"subscript", "call"} => IsKnown(node.kids[k], "typed")
    PROVE  Sound(nodes, node, Len(nodes) + 1)
<1>1. node.kids \in Seq(Nat) /\ DOMAIN node.kids = 1..Len(node.kids) /\ Len(nodes) \in Nat
  BY LenProperties DEF Node, TypeOK
<1>2. node.kind \notin Statements
  BY KindsAre
<1>3. \A k \in 1..Len(node.kids) :
         node.kids[k] \in 1..Len(nodes) /\ nodes[node.kids[k]].kind \in Expressions
  BY DEF IsKnown
<1>4. 1..(Len(nodes) + 1) - 1 = 1..Len(nodes)
  BY <1>1
<1>5. OperandsSound(nodes, node, Len(nodes) + 1)
  BY <1>3, <1>4 DEF OperandsSound, Arity
<1>6. ASSUME node.kind = "subscript" PROVE nodes[node.kids[2]].type # NoType
  <2>1. Len(node.kids) = 2
    BY <1>6 DEF Arity
  <2>2. 2 \in 2..Len(node.kids)
    BY <2>1
  <2> QED
    BY <1>6, <2>2 DEF IsKnown
<1>7. ASSUME node.kind = "call", NEW k \in 2..Len(node.kids)
      PROVE  nodes[node.kids[k]].type # NoType
  BY <1>7 DEF IsKnown
<1>8. OperandsTyped(nodes, node)
  BY <1>2, <1>6, <1>7 DEF OperandsTyped
<1> QED
  BY <1>5, <1>8 DEF Sound

LEMMA OthersStay ==
    ASSUME TypeOK, NEW a, NEW c, Fits(a), Counts(a, c, 0, 0, 0), a \in Layout,
           Moves, Then(<<>>), UNCHANGED <<types, names, tables, status>>
    PROVE  OthersFit(c)
<1>1. types' = types /\ names' = names /\ scope' = scope /\ functions' = functions
      /\ header' = header /\ status' = status
  BY DEF tables
<1>2. c.t = a.t /\ c.m = a.m /\ c.d = a.d
  BY LayoutIs DEF Counts
<1>3. /\ types \in Seq(FullType) /\ names \in Seq(Name) /\ scope \in Seq(Tables(FullType))
      /\ functions \in Tables(Function) /\ header \in Seq(Param)
  BY DEF TypeOK
<1>4. Len(types) = a.t /\ Len(names) = a.m /\ Len(scope) = a.d
  BY DEF Fits
<1> QED
  BY <1>1, <1>2, <1>3, <1>4 DEF OthersFit

LEMMA TopsAreKnown ==
    ASSUME TypeOK, NEW a \in Layout, Fits(a), NEW n \in Nat,
           NEW x, TopsAre(a, n, x), NEW k \in 1..n
    PROVE  IsKnown(Taken(exprs, n)[k], x)
<1>1. a.n >= n /\ \A i \in a.n + 1 - n..a.n : a.e[i] = x
  BY DEF TopsAre
<1>2. a.n \in Nat
  BY LayoutIs
<1>3. a.n - n + k \in a.n + 1 - n..a.n
  BY <1>1, <1>2
<1>4. IsKnown(Taken(exprs, n)[k], a.e[a.n - n + k])
  BY <1>1, <1>2, TakenAre
<1> QED
  BY <1>1, <1>3, <1>4

LEMMA TopIsKnown ==
    ASSUME TypeOK, NEW a \in Layout, Fits(a), NEW n \in Nat, NEW k \in 1..n, n <= a.n,
           NEW x, TopIs(a, n + 1 - k, x)
    PROVE  IsKnown(Taken(exprs, n)[k], x)
<1>1. a.n \in Nat
  BY LayoutIs
<1>2. a.n + 1 - (n + 1 - k) = a.n - n + k
  BY <1>1
<1>3. a.e[a.n - n + k] = x
  BY <1>2 DEF TopIs
<1>4. IsKnown(Taken(exprs, n)[k], a.e[a.n - n + k])
  BY TakenAre
<1> QED
  BY <1>3, <1>4

\* The operands of an operator; of a statement with an expression.
LEMMA BuildsExpression ==
    ASSUME TypeOK, at' \in Nat, NEW a \in Layout, Fits(a), NEW kind, NEW n \in {1, 2},
           n <= a.n, NEW from \in Nat,
           (kind \in Unary /\ n = 1) \/ (kind \in Binary \cup {"subscript"} /\ n = 2),
           TopIs(a, 1, "raw") \/ TopIs(a, 1, "typed"),
           n = 2 => TopIs(a, 2, "raw"),
           kind = "subscript" => TopIs(a, 1, "typed")
    PROVE  /\ NewNode(kind, Taken(exprs, n), "", from) \in Node
           /\ NewNode(kind, Taken(exprs, n), "", from).kind \in Expressions
           /\ Sound(nodes, NewNode(kind, Taken(exprs, n), "", from), Len(nodes) + 1)
<1> DEFINE kids == Taken(exprs, n)
           node == NewNode(kind, kids, "", from)
<1>1. kind \in Expressions /\ n \in Nat
  BY DEF Expressions
<1>2. kids \in Seq(Nat) /\ Len(kids) = n
  BY <1>1, TakenAre
<1>3. n \in 1..n /\ n + 1 - n = 1 /\ n = 2 => 1 \in 1..n /\ n + 1 - 1 = 2
  BY <1>1
<1>4. IsKnown(kids[n], "raw") \/ IsKnown(kids[n], "typed")
  BY <1>1, <1>3, TopIsKnown
<1>5. n = 2 => IsKnown(kids[1], "raw")
  BY <1>1, <1>3, TopIsKnown
<1>6. kind = "subscript" => IsKnown(kids[n], "typed") /\ n = 2
  <2>1. kind = "subscript" => IsKnown(kids[n], "typed")
    BY <1>1, <1>3, TopIsKnown
  <2> QED
    BY <2>1 DEF Unary
<1> HIDE DEF kids
<1>7. node \in Node /\ node.kind = kind /\ node.kids = kids /\ node.type = NoType
  <2>1. kind \in Expressions \cup Statements /\ "" \in Name \cup {"", "integer", "string"}
    BY <1>1
  <2>2. kids \in Seq(Nat)
    BY <1>2
  <2> QED
    BY <2>1, <2>2, EmptyTypeIs DEF node, NewNode, Node
<1> HIDE DEF node
<1>8. \A k \in 1..Len(node.kids) :
         IsKnown(node.kids[k], "typed") \/ IsKnown(node.kids[k], "raw")
  <2>1. \A k \in 1..n : k = n \/ (n = 2 /\ k = 1)
    OBVIOUS
  <2> QED
    BY <1>2, <1>4, <1>5, <1>7, <2>1
<1>9. \A k \in 2..Len(node.kids) :
         node.kind \in {"subscript", "call"} => IsKnown(node.kids[k], "typed")
  <2>1. kind # "call"
    BY DEF Unary, Binary
  <2>2. \A k \in 2..n : k = n
    OBVIOUS
  <2> QED
    BY <1>2, <1>6, <1>7, <2>1, <2>2
<1>10. Arity(node.kind, Len(node.kids))
  BY <1>2, <1>7 DEF Arity, Unary, Binary
<1>11. Sound(nodes, node, Len(nodes) + 1)
  BY <1>1, <1>7, <1>8, <1>9, <1>10, ExpressionSound
<1> QED
  BY <1>1, <1>7, <1>11 DEF node, kids

LEMMA BuildsStatement ==
    ASSUME TypeOK, at' \in Nat, NEW a \in Layout, Fits(a), NEW kind \in Statements,
           NEW n \in Nat, n <= a.n, NEW name \in Name \cup {"", "integer", "string"},
           NEW from \in Nat,
           \A k \in 1..n : \/ IsKnown(Taken(exprs, n)[k], "typed")
                           \/ IsKnown(Taken(exprs, n)[k], "statement")
    PROVE  /\ NewNode(kind, Taken(exprs, n), name, from) \in Node
           /\ NewNode(kind, Taken(exprs, n), name, from).kind \in Statements
           /\ Sound(nodes, NewNode(kind, Taken(exprs, n), name, from), Len(nodes) + 1)
<1> DEFINE kids == Taken(exprs, n)
           node == NewNode(kind, kids, name, from)
<1>1. kids \in Seq(Nat) /\ Len(kids) = n
  BY TakenAre
<1>2. \A k \in 1..n : IsKnown(kids[k], "typed") \/ IsKnown(kids[k], "statement")
  OBVIOUS
<1> HIDE DEF kids
<1>3. node \in Node /\ node.kind = kind /\ node.kids = kids
  <2>1. kind \in Expressions \cup Statements
    OBVIOUS
  <2>2. kids \in Seq(Nat)
    BY <1>1
  <2> QED
    BY <2>1, <2>2, EmptyTypeIs DEF node, NewNode, Node
<1> HIDE DEF node
<1>4. Sound(nodes, node, Len(nodes) + 1)
  BY <1>1, <1>2, <1>3, StatementSound
<1> QED
  BY <1>3, <1>4 DEF node, kids

LEMMA BuildNodeKeeps ==
    ASSUME ParserInv, BuildNode
    PROVE  ParserInv'
<1>1. /\ Runs("build") /\ todo # <<>> /\ Top.do = "build" /\ Stay /\ Then(<<>>)
      /\ Make(Top.n, NewNode(Top.op, Taken(exprs, Top.n), "", Top.from))
      /\ UNCHANGED <<types, names, tables, status>>
  BY DEF BuildNode, Runs
<1>2. Top \in Calls /\ Top.n \in Nat /\ Top.from \in Nat /\ at \in Nat /\ TypeOK
  BY <1>1, ReadyIs DEF ParserInv
<1>3. PICK a, c, z : Ready(a, c, z)
  BY <1>1, ReadyIs
<1>4. a \in Layout /\ c \in Layout /\ Fits(a) /\ Takes(nodes, Top, a, c) /\ Moves
  BY <1>1, <1>3 DEF Ready, Moves
<1>5. BuildTakes(Top, a, c) /\ Plain(c)
  BY <1>1, <1>4 DEF Takes
<1>6. OthersFit(c)
  <2>1. Counts(a, c, 0, 0, 0)
    BY <1>5 DEF BuildTakes
  <2> QED
    BY <1>1, <1>2, <1>4, <2>1, OthersStay
<1>7. at' \in Nat
  BY <1>1, <1>2 DEF Stay
<1> DEFINE node == NewNode(Top.op, Taken(exprs, Top.n), "", Top.from)
<1>8. /\ node \in Node /\ Sound(nodes, node, Len(nodes) + 1)
      /\ \/ node.kind \in Expressions /\ Yields(a, c, Top.n, "raw")
         \/ node.kind \in Statements /\ Yields(a, c, Top.n, "statement")
  <2>1. CASE /\ Top.op \in Unary /\ Top.n = 1
             /\ TopIs(a, 1, "raw") /\ Yields(a, c, 1, "raw")
    <3>0. Top.n <= a.n
      BY <2>1 DEF Yields
    <3>1. Top.n \in {1, 2} /\ ~(Top.n = 2)
      BY ONLY <2>1
    <3>4. Top.op # "subscript"
      BY ONLY <2>1 DEF Unary
    <3>2. \/ Top.op \in Unary /\ Top.n = 1
          \/ Top.op \in Binary \cup {"subscript"} /\ Top.n = 2
      BY <2>1
    <3>3. node \in Node /\ node.kind \in Expressions /\ Sound(nodes, node, Len(nodes) + 1)
      BY ONLY <1>2, <1>4, <1>7, <2>1, <3>0, <3>1, <3>2, <3>4, BuildsExpression
    <3> QED
      BY <2>1, <3>3
  <2>2. CASE /\ Top.op \in Binary /\ Top.n = 2
             /\ TopIs(a, 1, "raw") /\ TopIs(a, 2, "raw") /\ Yields(a, c, 2, "raw")
    <3>1. Top.n <= a.n /\ Top.n \in {1, 2} /\ Top.op # "subscript"
      BY <2>2 DEF Yields, Binary
    <3>2. node \in Node /\ node.kind \in Expressions /\ Sound(nodes, node, Len(nodes) + 1)
      BY <1>2, <1>4, <1>7, <2>2, <3>1, BuildsExpression
    <3> QED
      BY <2>2, <3>2
  <2>3. CASE /\ Top.op = "subscript" /\ Top.n = 2
             /\ TopIs(a, 1, "typed") /\ TopIs(a, 2, "raw") /\ Yields(a, c, 2, "raw")
    <3>1. Top.n <= a.n /\ Top.n \in {1, 2}
      BY <2>3 DEF Yields
    <3>2. node \in Node /\ node.kind \in Expressions /\ Sound(nodes, node, Len(nodes) + 1)
      BY <1>2, <1>4, <1>7, <2>3, <3>1, BuildsExpression
    <3> QED
      BY <2>3, <3>2
  <2>4. CASE /\ Top.op \in {"expression", "return"} /\ Top.n = 1
             /\ TopIs(a, 1, "typed") /\ Yields(a, c, 1, "statement")
    <3>1. Top.n <= a.n /\ Top.op \in Statements
      BY <2>4 DEF Yields, Statements
    <3>2. \A k \in 1..Top.n : IsKnown(Taken(exprs, Top.n)[k], "typed")
      <4>1. SUFFICES ASSUME NEW k \in 1..Top.n
                     PROVE  IsKnown(Taken(exprs, Top.n)[k], "typed")
        OBVIOUS
      <4>2. Top.n + 1 - k = 1
        BY <2>4
      <4> QED
        BY <1>2, <1>4, <2>4, <3>1, <4>2, TopIsKnown
    <3>3. /\ node \in Node /\ node.kind \in Statements
          /\ Sound(nodes, node, Len(nodes) + 1)
      BY <1>2, <1>4, <1>7, <3>1, <3>2, BuildsStatement
    <3> QED
      BY <2>4, <3>3
  <2>5. CASE /\ Top.op \in {"if", "while"} /\ Top.n = 2
             /\ TopIs(a, 1, "statement") /\ TopIs(a, 2, "typed")
             /\ Yields(a, c, 2, "statement")
    <3>1. Top.n <= a.n /\ Top.op \in Statements
      BY <2>5 DEF Yields, Statements
    <3>2. /\ IsKnown(Taken(exprs, Top.n)[1], "typed")
          /\ IsKnown(Taken(exprs, Top.n)[2], "statement")
      <4>1. 1 \in 1..Top.n /\ 2 \in 1..Top.n /\ Top.n + 1 - 1 = 2 /\ Top.n + 1 - 2 = 1
        BY <2>5
      <4> QED
        BY <1>2, <1>4, <2>5, <3>1, <4>1, TopIsKnown
    <3>3. \A k \in 1..Top.n : \/ IsKnown(Taken(exprs, Top.n)[k], "typed")
                              \/ IsKnown(Taken(exprs, Top.n)[k], "statement")
      <4>1. \A k \in 1..Top.n : k = 1 \/ k = 2
        BY <2>5
      <4> QED
        BY <3>2, <4>1
    <3>4. /\ node \in Node /\ node.kind \in Statements
          /\ Sound(nodes, node, Len(nodes) + 1)
      BY <1>2, <1>4, <1>7, <3>1, <3>3, BuildsStatement
    <3> QED
      BY <2>5, <3>4
  <2>6. CASE /\ Top.op = "block"
             /\ TopsAre(a, Top.n, "statement") /\ Yields(a, c, Top.n, "statement")
    <3>1. Top.n <= a.n /\ Top.op \in Statements
      BY <2>6 DEF Yields, Statements
    <3>2. \A k \in 1..Top.n : IsKnown(Taken(exprs, Top.n)[k], "statement")
      BY <1>2, <1>4, <2>6, TopsAreKnown
    <3>3. /\ node \in Node /\ node.kind \in Statements
          /\ Sound(nodes, node, Len(nodes) + 1)
      BY <1>2, <1>4, <1>7, <3>1, <3>2, BuildsStatement
    <3> QED
      BY <2>6, <3>3
  <2> QED
    BY <1>5, <2>1, <2>2, <2>3, <2>4, <2>5, <2>6 DEF BuildTakes
<1>9. MakesNode(Top.n, node, a, c)
  BY <1>1, <1>2, <1>5, <1>8 DEF MakesNode
<1> QED
  BY <1>3, <1>6, <1>9, MakeKeeps

LEMMA PrimaryKeeps ==
    ASSUME ParserInv, Primary
    PROVE  ParserInv'
<1>1. /\ Runs("primary") /\ todo # <<>> /\ Top.do = "primary" /\ Known
      /\ TypeOK /\ at \in Nat
  BY ReadyIs DEF Primary, Reads, Runs, ParserInv
<1>2. CASE Tok = "(" /\ Eat /\ Goes(Expression \o <<Call("parenthesis")>>)
  <2>1. Tok # EndOfFile
    BY <1>2 DEF EndOfFile
  <2> QED
    BY <1>1, <1>2, <2>1, InParentheses
<1>3. CASE /\ Tok \in Name \cup {"integer", "string"} /\ Eat
           /\ Then(<<>>)
           /\ Make(0, NewNode(LeafKind, <<>>, Tok, at))
           /\ UNCHANGED <<types, names, tables, status>>
  <2>1. PICK a, c, z : Ready(a, c, z)
    BY <1>1, ReadyIs
  <2>2. /\ a \in Layout /\ c \in Layout /\ Fits(a) /\ Plain(c)
        /\ Yields(a, c, 0, "raw") /\ Counts(a, c, 0, 0, 0)
    BY <1>1, <2>1 DEF Ready, Takes
  <2>3. Tok # EndOfFile
    BY <1>3, ParserAssumption DEF EndOfFile
  <2>4. Moves /\ at' \in Nat
    BY <1>1, <1>3, <2>3 DEF Moves, Eat
  <2>5. OthersFit(c)
    BY <1>1, <1>3, <2>2, <2>4, OthersStay
  <2> DEFINE node == NewNode(LeafKind, <<>>, Tok, at)
  <2>6. LeafKind \in {"identifier", "integer", "string"}
    BY <1>3 DEF LeafKind
  <2>7. LeafKind \in Expressions
    BY <2>6 DEF Expressions
  <2>8. /\ node \in Node /\ node.kind = LeafKind /\ node.kids = <<>> /\ node.type = NoType
    <3>1. Tok \in Name \cup {"", "integer", "string"} /\ <<>> \in Seq(Nat)
      BY <1>3, EmptySeq
    <3> QED
      BY <1>1, <2>4, <2>7, <3>1, EmptyTypeIs DEF NewNode, Node
  <2> HIDE DEF node
  <2>9. Len(node.kids) = 0 /\ 1..0 = {} /\ 2..0 = {}
    BY <2>8, EmptySeq
  <2>10. Arity(node.kind, Len(node.kids))
    BY <2>6, <2>8, <2>9 DEF Arity, Unary, Binary
  <2>11. Sound(nodes, node, Len(nodes) + 1)
    BY <1>1, <2>7, <2>8, <2>9, <2>10, ExpressionSound
  <2>12. Make(0, node) /\ 0 \in Nat
    BY <1>3 DEF node
  <2>13. MakesNode(0, node, a, c)
    BY <2>2, <2>7, <2>8, <2>11, <2>12 DEF MakesNode
  <2> QED
    BY <2>1, <2>5, <2>13, MakeKeeps
<1>4. CASE Fail
  BY <1>4, FailKeeps
<1> QED
  BY <1>2, <1>3, <1>4 DEF Primary

LEMMA FunctionCallKeeps ==
    ASSUME ParserInv, FunctionCall
    PROVE  ParserInv'
<1> DEFINE n     == Top.n + 1
           parts == Taken(exprs, n)
           callee == nodes[parts[1]]
<1>1. /\ Runs("call") /\ todo # <<>> /\ Top.do = "call" /\ TypeOK /\ at \in Nat
      /\ Top.n \in Nat /\ n \in Nat
  BY ReadyIs DEF FunctionCall, Runs, ParserInv
<1>2. CASE /\ Stay /\ Then(<<>>)
           /\ Make(n, NewNode("call", parts, callee.name, callee.from))
           /\ UNCHANGED <<types, names, tables, status>>
  <2>1. PICK a, c, z : Ready(a, c, z)
    BY <1>1, ReadyIs
  <2>2. /\ a \in Layout /\ c \in Layout /\ Fits(a) /\ Plain(c)
        /\ ArgumentsTake(Top, a, c)
    BY <1>1, <2>1 DEF Ready, Takes
  <2>3. /\ Counts(a, c, 0, 0, 0) /\ TopsAre(a, Top.n, "typed") /\ TopIs(a, n, "raw")
        /\ Yields(a, c, n, "raw") /\ n <= a.n
    BY <2>2 DEF ArgumentsTake, Yields
  <2>4. Moves /\ at' \in Nat
    BY <1>1, <1>2 DEF Moves, Stay
  <2>5. OthersFit(c)
    BY <1>1, <1>2, <2>2, <2>3, <2>4, OthersStay
  <2>6. parts \in Seq(Nat) /\ Len(parts) = n
    BY <1>1, <2>2, <2>3, TakenAre
  <2>7. 1 \in 1..n /\ n + 1 - 1 = n
    BY <1>1
  <2>8. IsKnown(parts[1], "raw")
    <3>1. n + 1 - 1 = n
      BY <2>7
    <3>2. TopIs(a, n + 1 - 1, "raw")
      BY <2>3, <3>1
    <3> HIDE DEF n
    <3> QED
      BY <1>1, <2>2, <2>3, <2>7, <3>2, TopIsKnown
  <2>9. \A k \in 2..n : IsKnown(parts[k], "typed")
    <3>1. SUFFICES ASSUME NEW k \in 2..n PROVE IsKnown(parts[k], "typed")
      OBVIOUS
    <3>2. a.n \in Nat /\ a.n >= Top.n /\ k \in 1..n
      BY <1>1, <2>2, <2>3, <3>1, LayoutIs DEF TopsAre
    <3>3. a.n - n + k \in a.n + 1 - Top.n..a.n
      BY <1>1, <3>1, <3>2
    <3>4. a.e[a.n - n + k] = "typed"
      BY <2>3, <3>3 DEF TopsAre
    <3>5. IsKnown(parts[k], a.e[a.n - n + k])
      <4> HIDE DEF n
      <4> QED
        BY <1>1, <2>2, <2>3, <3>2, TakenAre
    <3> QED
      BY <3>4, <3>5
  <2>10. callee \in Node
    <3>1. parts[1] \in 1..Len(nodes) /\ nodes \in Seq(Node)
      BY <1>1, <2>8 DEF IsKnown, TypeOK
    <3> HIDE DEF parts
    <3> QED
      BY <3>1, ElementOfSeq
  <2>11. callee.name \in Name \cup {"", "integer", "string"} /\ callee.from \in Nat
    <3> HIDE DEF callee
    <3> QED
      BY <2>10 DEF Node
  <2> DEFINE node == NewNode("call", parts, callee.name, callee.from)
  <2>12. /\ node \in Node /\ node.kind = "call" /\ node.kids = parts /\ node.type = NoType
    <3>1. "call" \in Expressions
      BY DEF Expressions
    <3> HIDE DEF parts, callee
    <3> QED
      BY <2>4, <2>6, <2>11, <3>1, EmptyTypeIs DEF NewNode, Node
  <2>13. Make(n, node)
    BY <1>2
  <2> HIDE DEF node, parts, callee, n
  <2>14. Arity(node.kind, Len(node.kids))
    <3>1. n >= 1
      BY <1>1, <2>7
    <3> QED
      BY <2>6, <2>12, <3>1 DEF Arity, Unary, Binary
  <2>15. node.kind \in Expressions
    BY <2>12 DEF Expressions
  <2>16. \A k \in 1..n : k = 1 \/ k \in 2..n
    BY <1>1
  <2>17. Sound(nodes, node, Len(nodes) + 1)
    BY <1>1, <2>6, <2>8, <2>9, <2>12, <2>14, <2>15, <2>16, ExpressionSound
  <2>18. MakesNode(n, node, a, c)
    BY <1>1, <2>2, <2>3, <2>12, <2>13, <2>15, <2>17 DEF MakesNode
  <2> QED
    BY <2>1, <2>5, <2>18, MakeKeeps
<1>3. CASE Fail
  BY <1>3, FailKeeps
<1> QED
  BY <1>2, <1>3 DEF FunctionCall

\* The last of a sequence and the rest of it.
LEMMA LastIs ==
    ASSUME NEW S, NEW s \in Seq(S), Len(s) >= 1
    PROVE  /\ Last(s) \in S /\ Last(s) = s[Len(s)]
           /\ Front(s) \in Seq(S) /\ Len(Front(s)) = Len(s) - 1
<1>1. Len(s) \in Nat /\ Len(s) \in 1..Len(s)
  BY LenProperties
<1>2. Last(s) = s[Len(s)] /\ Last(s) \in S
  BY <1>1, ElementOfSeq DEF Last
<1>3. \A i \in 1..Len(s) - 1 : s[i] \in S
  <2>1. \A i \in 1..Len(s) - 1 : i \in 1..Len(s)
    BY <1>1
  <2> QED
    BY <2>1, ElementOfSeq
<1>4. Front(s) \in Seq(S) /\ Len(Front(s)) = Len(s) - 1
  <2> DEFINE m == Len(s) - 1
  <2>1. m \in Nat
    BY <1>1
  <2>2. Front(s) = SubSeq(s, 1, m)
    BY DEF Front
  <2> HIDE DEF m
  <2>3. /\ SubSeq(s, 1, m) \in Seq(S)
        /\ Len(SubSeq(s, 1, m)) = IF 1 <= m THEN m - 1 + 1 ELSE 0
    <3>1. \A i \in 1..m : s[i] \in S
      BY <1>3 DEF m
    <3> QED
      BY <2>1, <3>1, SubSeqProperties
  <2>4. Len(Front(s)) = m
    BY <2>1, <2>2, <2>3
  <2> QED
    BY <2>2, <2>3, <2>4 DEF m
<1> QED
  BY <1>2, <1>4

\* The last of a sequence is replaced, or another is appended.
LEMMA ReplacedIs ==
    ASSUME NEW S, NEW s \in Seq(S), Len(s) >= 1, NEW x \in S
    PROVE  Append(Front(s), x) \in Seq(S) /\ Len(Append(Front(s), x)) = Len(s)
<1>1. Front(s) \in Seq(S) /\ Len(Front(s)) = Len(s) - 1 /\ Len(s) \in Nat
  BY LastIs, LenProperties
<1> QED
  BY <1>1, AppendProperties

\* Tables: one more entry, and the empty one.
LEMMA TablesAre ==
    ASSUME NEW S
    PROVE  /\ <<>> \in Tables(S)
           /\ \A table \in Tables(S), name \in Name, x \in S :
                 Entered(table, name, x) \in Tables(S)
<1>1. <<>> \in Tables(S)
  <2>1. {} \in SUBSET Name /\ <<>> \in [{} -> S]
    BY EmptySeq
  <2> QED
    BY <2>1 DEF Tables
<1>2. ASSUME NEW table \in Tables(S), NEW name \in Name, NEW x \in S
      PROVE  Entered(table, name, x) \in Tables(S)
  <2>1. PICK D \in SUBSET Name : table \in [D -> S]
    BY DEF Tables
  <2>2. Entered(table, name, x) \in [D \cup {name} -> S]
    BY <2>1 DEF Entered
  <2>3. D \cup {name} \in SUBSET Name
    BY <2>1
  <2> QED
    BY <2>2, <2>3 DEF Tables
<1> QED
  BY <1>1, <1>2

LEMMA DeclaredIs ==
    ASSUME TypeOK, Len(types) >= 1, NEW name \in Name, NEW defined \in BOOLEAN
    PROVE  Declared(name, defined) \in Function /\ Declared(name, defined).args \in Seq(Param)
<1>1. functions \in Tables(Function) /\ header \in Seq(Param) /\ Last(types) \in FullType
  BY LastIs DEF TypeOK
<1>2. CASE name \in DOMAIN functions
  <2>1. PICK D \in SUBSET Name : functions \in [D -> Function]
    BY <1>1 DEF Tables
  <2>2. functions[name] \in Function
    BY <1>2, <2>1
  <2>3. PICK f : f = functions[name]
    OBVIOUS
  <2>4. Declared(name, defined) = [f EXCEPT !.defined = @ \/ defined]
    BY <1>2, <2>3 DEF Declared
  <2>5. f \in [type : FullType, args : Seq(Param), defined : BOOLEAN]
    BY <2>2, <2>3 DEF Function
  <2>6. [f EXCEPT !.defined = @ \/ defined] \in [type : FullType, args : Seq(Param), defined : BOOLEAN]
    BY <2>5
  <2>7. [f EXCEPT !.defined = @ \/ defined].args = f.args /\ f.args \in Seq(Param)
    BY <2>5
  <2> QED
    BY <2>4, <2>6, <2>7 DEF Function
<1>3. CASE name \notin DOMAIN functions
  BY <1>1, <1>3 DEF Declared, Function
<1> QED
  BY <1>2, <1>3

LEMMA WithArgsIs ==
    ASSUME TypeOK, Len(scope) >= 1, NEW args \in Seq(Param)
    PROVE  WithArgs(args) \in Tables(FullType)
<1>1. Last(scope) \in Tables(FullType)
  BY LastIs DEF TypeOK
<1>2. PICK D \in SUBSET Name : Last(scope) \in [D -> FullType]
  BY <1>1 DEF Tables
<1>3. PICK table : table = Last(scope)
  OBVIOUS
<1> DEFINE E == D \cup {args[i].name : i \in DOMAIN args}
<1>4. \A i \in DOMAIN args : args[i].name \in Name /\ args[i].type \in FullType
  <2>1. \A i \in DOMAIN args : args[i] \in Param
    BY ElementOfSeq, LenProperties
  <2> QED
    BY <2>1 DEF Param
<1>5. E \in SUBSET Name
  BY <1>4
<1>6. DOMAIN table = D /\ \A name \in D : table[name] \in FullType
  BY <1>2, <1>3
<1> DEFINE f(name) == IF name \in DOMAIN table THEN table[name]
                      ELSE args[CHOOSE i \in DOMAIN args : args[i].name = name].type
<1>7. ASSUME NEW name \in E PROVE f(name) \in FullType
  <2>1. CASE name \in D
    BY <1>6, <2>1
  <2>2. CASE name \notin D
    <3>1. PICK i \in DOMAIN args : args[i].name = name
      BY <1>7, <2>2
    <3>2. (CHOOSE j \in DOMAIN args : args[j].name = name) \in DOMAIN args
      BY <3>1, Zenon
    <3> QED
      BY <1>4, <1>6, <2>2, <3>2
  <2> QED
    BY <2>1, <2>2
<1>8. WithArgs(args) = [name \in E |-> f(name)]
  BY <1>3, <1>6 DEF WithArgs
<1> HIDE DEF E, f
<1>9. WithArgs(args) \in [E -> FullType]
  BY <1>7, <1>8
<1> QED
  BY <1>5, <1>9 DEF Tables

LEMMA DeclareKeeps ==
    ASSUME ParserInv, Declare
    PROVE  ParserInv'
<1>1. /\ Runs("declare") /\ todo # <<>> /\ Top.do = "declare" /\ TypeOK /\ at \in Nat
      /\ Top.n \in Nat /\ Top.from \in Nat
  BY ReadyIs DEF Declare, Runs, ParserInv
<1>2. CASE /\ Stay /\ Then(<<>>)
           /\ scope' = Append(Front(scope), Entered(Last(scope), Last(names), Last(types)))
           /\ Make(Top.n, [NewNode("var", Taken(exprs, Top.n), Last(names), Top.from)
                             EXCEPT !.type = Last(types)])
           /\ types' = Front(types) /\ names' = Front(names)
           /\ UNCHANGED <<functions, header, status>>
  <2>1. PICK a, c, z : Ready(a, c, z)
    BY <1>1, ReadyIs
  <2>2. /\ a \in Layout /\ c \in Layout /\ Fits(a) /\ Plain(c)
        /\ StatementTakes(Top, a, c)
    BY <1>1, <2>1 DEF Ready, Takes
  <2>3. /\ a.d >= 1 /\ TopsAre(a, Top.n, "typed") /\ Yields(a, c, Top.n, "statement")
        /\ Counts(a, c, -1, -1, 0)
    BY <1>1, <2>2 DEF StatementTakes
  <2>4. /\ Top.n <= a.n /\ c.t \in Nat /\ c.m \in Nat /\ a.t = c.t + 1 /\ a.m = c.m + 1
        /\ c.d = a.d /\ c.t = a.t - 1 /\ c.m = a.m - 1
    BY <2>2, <2>3, LayoutIs DEF Yields, Counts
  <2>5. Len(types) = a.t /\ Len(names) = a.m /\ Len(scope) = a.d
    BY <2>2 DEF Fits
  <2>6. Len(types) >= 1 /\ Len(names) >= 1 /\ Len(scope) >= 1
    <3>1. a.t >= 1 /\ a.m >= 1
      BY <2>4
    <3>2. a.d >= 1
      BY <2>3
    <3> QED
      BY <2>5, <3>1, <3>2
  <2>7. /\ types \in Seq(FullType) /\ names \in Seq(Name) /\ scope \in Seq(Tables(FullType))
        /\ functions \in Tables(Function) /\ header \in Seq(Param)
    BY <1>1 DEF TypeOK
  <2>8. /\ Last(types) \in FullType /\ Front(types) \in Seq(FullType)
        /\ Len(Front(types)) = c.t
    BY <2>4, <2>5, <2>6, <2>7, LastIs
  <2>9. /\ Last(names) \in Name /\ Front(names) \in Seq(Name) /\ Len(Front(names)) = c.m
    BY <2>4, <2>5, <2>6, <2>7, LastIs
  <2>10. Moves /\ at' \in Nat
    BY <1>1, <1>2 DEF Moves, Stay
  <2>11. scope' \in Seq(Tables(FullType)) /\ Len(scope') = c.d
    <3>1. Last(scope) \in Tables(FullType)
      BY <2>6, <2>7, LastIs
    <3>2. Entered(Last(scope), Last(names), Last(types)) \in Tables(FullType)
      BY <2>8, <2>9, <3>1, TablesAre
    <3> QED
      BY <1>2, <2>4, <2>5, <2>6, <2>7, <3>2, ReplacedIs
  <2>12. OthersFit(c)
    BY <1>2, <2>7, <2>8, <2>9, <2>10, <2>11 DEF OthersFit
  <2> DEFINE kids == Taken(exprs, Top.n)
             node == [NewNode("var", kids, Last(names), Top.from) EXCEPT !.type = Last(types)]
  <2>13. kids \in Seq(Nat) /\ Len(kids) = Top.n
    BY <1>1, <2>2, <2>4, TakenAre
  <2>14. \A k \in 1..Top.n : IsKnown(kids[k], "typed")
    BY <1>1, <2>2, <2>3, TopsAreKnown
  <2>15. node \in Node /\ node.kind = "var" /\ node.kids = kids
    <3>1. "var" \in Statements
      BY DEF Statements
    <3>2. Last(types) \in AnyType
      BY <2>8 DEF FullType
    <3> HIDE DEF kids
    <3> QED
      BY <1>1, <2>9, <2>10, <2>13, <3>1, <3>2, EmptyTypeIs DEF NewNode, Node
  <2>16. Make(Top.n, node)
    BY <1>2
  <2> HIDE DEF node, kids
  <2>17. node.kind \in Statements
    BY <2>15 DEF Statements
  <2>18. Sound(nodes, node, Len(nodes) + 1)
    BY <1>1, <2>13, <2>14, <2>15, <2>17, StatementSound
  <2>19. MakesNode(Top.n, node, a, c)
    BY <1>1, <2>2, <2>3, <2>15, <2>16, <2>17, <2>18 DEF MakesNode
  <2> QED
    BY <2>1, <2>12, <2>19, MakeKeeps
<1>3. CASE Fail
  BY <1>3, FailKeeps
<1> QED
  BY <1>2, <1>3 DEF Declare

------------------------------------------------------------------------------
(* Calls that change the other stacks and the tables. *)

\* A call that goes on with calls, the stacks as b says.
Changes(calls, a, b) ==
    /\ calls \in Seq(Calls) /\ Then(calls)
    /\ Moves /\ UNCHANGED <<exprs, nodes, status>>
    /\ b \in Layout /\ Same(a, b) /\ Plain(b)
    /\ types' \in Seq(FullType) /\ Len(types') = b.t
    /\ names' \in Seq(Name) /\ Len(names') = b.m
    /\ scope' \in Seq(Tables(FullType)) /\ Len(scope') = b.d
    /\ functions' \in Tables(Function) /\ header' \in Seq(Param)

LEMMA ChangesKeep ==
    ASSUME ParserInv, NEW a, NEW c, NEW z, Ready(a, c, z), NEW calls, NEW b,
           Changes(calls, a, b), Effect(nodes, calls, b, c)
    PROVE  ParserInv'
<1>1. /\ TypeOK /\ SourceInv /\ NodesInv /\ todo # <<>>
      /\ a \in Layout /\ c \in Layout /\ z \in Layout /\ Fits(a)
      /\ Effect(nodes, Tail(todo), c, z)
  BY DEF ParserInv, Ready
<1>2. /\ calls \in Seq(Calls) /\ Then(calls)
      /\ Moves /\ exprs' = exprs /\ nodes' = nodes /\ status' = status
      /\ b \in Layout /\ Same(a, b) /\ Plain(b)
      /\ types' \in Seq(FullType) /\ Len(types') = b.t
      /\ names' \in Seq(Name) /\ Len(names') = b.m
      /\ scope' \in Seq(Tables(FullType)) /\ Len(scope') = b.d
      /\ functions' \in Tables(Function) /\ header' \in Seq(Param)
  BY DEF Changes
<1>3. SourceInv' /\ tokens' = tokens /\ at' \in Nat \ {0}
  BY <1>1, <1>2, MovesKeep
<1>4. todo' \in Seq(Calls)
  <2>1. Tail(todo) \in Seq(Calls)
    BY <1>1, HeadTailProperties DEF TypeOK
  <2> QED
    BY <1>2, <2>1, ConcatProperties DEF Then
<1>5. TypeOK'
  BY <1>1, <1>2, <1>3, <1>4 DEF TypeOK
<1>6. NodesInv'
  BY <1>1, <1>2 DEF NodesInv
<1>7. Fits(b)'
  BY <1>1, <1>2 DEF Fits, Same, Plain
<1>8. Grows(nodes, nodes')
  BY <1>2 DEF Grows
<1>9. Effect(nodes', calls, b, c) /\ IsSeq(calls)
  BY <1>2 DEF IsSeq
<1>10. WorkInv'
  BY <1>1, <1>2, <1>7, <1>8, <1>9, WorkGoesOn
<1> QED
  BY <1>3, <1>5, <1>6, <1>10 DEF ParserInv

\* A declaration of a function; the head of a definition.
LEMMA SignatureKeeps ==
    ASSUME ParserInv, Signature
    PROVE  ParserInv'
<1> DEFINE name     == Last(names)
           function == Declared(name, Tok = "{")
<1>1. /\ Runs("signature") /\ todo # <<>> /\ Top.do = "signature" /\ Known
      /\ TypeOK /\ at \in Nat /\ Top.n \in Nat /\ Top.from \in Nat
  BY ReadyIs DEF Signature, Reads, Runs, ParserInv
<1>2. PICK a, c, z : Ready(a, c, z)
  BY <1>1, ReadyIs
<1>3. /\ a \in Layout /\ c \in Layout /\ Fits(a) /\ Plain(c) /\ StatementTakes(Top, a, c)
  BY <1>1, <1>2 DEF Ready, Takes
<1>4. a.d = 1 /\ Yields(a, c, 0, "statement") /\ Counts(a, c, -1, -1, 0)
  BY <1>1, <1>3 DEF StatementTakes
<1>5. /\ c.t \in Nat /\ c.m \in Nat /\ a.t = c.t + 1 /\ a.m = c.m + 1 /\ c.d = a.d
      /\ c.t = a.t - 1 /\ c.m = a.m - 1 /\ a.t \in Nat /\ a.m \in Nat
  BY <1>3, <1>4, LayoutIs DEF Counts
<1>6. Len(types) = a.t /\ Len(names) = a.m /\ Len(scope) = a.d
  BY <1>3 DEF Fits
<1>7. Len(types) >= 1 /\ Len(names) >= 1 /\ Len(scope) >= 1
  <2>1. a.t >= 1 /\ a.m >= 1
    BY <1>5
  <2>2. a.d >= 1
    BY <1>4
  <2> QED
    BY <1>6, <2>1, <2>2
<1>8. /\ types \in Seq(FullType) /\ names \in Seq(Name) /\ scope \in Seq(Tables(FullType))
      /\ functions \in Tables(Function) /\ header \in Seq(Param)
  BY <1>1 DEF TypeOK
<1>9. Front(types) \in Seq(FullType) /\ Len(Front(types)) = c.t
  BY <1>5, <1>6, <1>7, <1>8, LastIs
<1>10. name \in Name /\ Front(names) \in Seq(Name) /\ Len(Front(names)) = c.m
  BY <1>5, <1>6, <1>7, <1>8, LastIs
<1>11. function \in Function /\ function.args \in Seq(Param)
  <2> HIDE DEF name
  <2> QED
    BY <1>1, <1>7, <1>10, DeclaredIs
<1>12. Entered(functions, name, function) \in Tables(Function)
  <2> HIDE DEF name, function
  <2> QED
    BY <1>8, <1>10, <1>11, TablesAre
<1>13. CASE /\ Tok = "{" /\ Eat
            /\ functions' = Entered(functions, name, function)
            /\ scope' = Append(Front(scope), WithArgs(function.args))
            /\ Then(<<Since(Top.from, "body", 0)>>)
            /\ types' = Front(types)
            /\ UNCHANGED <<exprs, names, nodes, header, status>>
  <2>1. Tok # EndOfFile
    BY <1>13 DEF EndOfFile
  <2>2. Moves
    BY <1>1, <1>13, <2>1 DEF Moves
  <2>3. scope' \in Seq(Tables(FullType)) /\ Len(scope') = a.d
    <3>1. WithArgs(function.args) \in Tables(FullType)
      <4> HIDE DEF function
      <4> QED
        BY <1>1, <1>7, <1>11, WithArgsIs
    <3> QED
      BY <1>6, <1>7, <1>8, <1>13, <3>1, ReplacedIs
  <2> DEFINE b == Counted(a, -1, 0, 0)
             call == Since(Top.from, "body", 0)
  <2>4. /\ b \in Layout /\ Plain(b) /\ Same(a, b) /\ Counts(a, b, -1, 0, 0)
        /\ b.n = a.n /\ b.e = a.e
    <3>1. -1 \in Int /\ 0 \in Int /\ a.t + (-1) >= 0 /\ a.m + 0 >= 0 /\ a.d + 0 >= 0
      BY <1>4, <1>5
    <3> QED
      BY <1>3, <3>1, CountedIs
  <2>5. /\ call \in Calls /\ call.do = "body" /\ call.n = 0
    <3>1. "body" \in Do /\ 0 \in Nat
      BY DEF Do
    <3> QED
      BY <1>1, <3>1, CallsAre
  <2> HIDE DEF b, call
  <2>6. b.t = c.t /\ b.m = a.m /\ b.d = a.d
    BY <1>5, <2>4, <1>3, LayoutIs DEF Counts
  <2>7. <<call>> \in Seq(Calls)
    BY <2>5, ListsAre
  <2>8. Changes(<<call>>, a, b)
    BY <1>6, <1>8, <1>9, <1>12, <1>13, <2>2, <2>3, <2>4, <2>6, <2>7 DEF Changes, call
  <2>9. StatementTakes(call, b, c)
    <3>1. TopsAre(b, 0, "statement")
      <4>1. b.n \in Nat /\ b.n + 1 - 0..b.n = {}
        BY <2>4, LayoutIs
      <4> QED
        BY <4>1 DEF TopsAre
    <3>2. Yields(b, c, 0, "statement")
      BY <1>4, <2>4 DEF Yields
    <3>3. Counts(b, c, 0, -1, 0)
      BY <1>3, <1>5, <2>6, LayoutIs DEF Counts
    <3> QED
      BY <1>4, <2>5, <2>6, <3>1, <3>2, <3>3 DEF StatementTakes
  <2>10. Takes(nodes, call, b, c)
    BY <1>3, <2>5, <2>9 DEF Takes
  <2>11. Effect(nodes, <<call>>, b, c)
    BY <1>3, <2>4, <2>10, EffectOne
  <2> QED
    BY <1>2, <2>8, <2>11, ChangesKeep
<1>14. CASE /\ Tok = ";" /\ Eat
            /\ functions' = Entered(functions, name, function)
            /\ Then(<<>>)
            /\ Make(0, NewNode("declaration", <<>>, name, Top.from))
            /\ types' = Front(types) /\ names' = Front(names)
            /\ UNCHANGED <<scope, header, status>>
  <2>1. Tok # EndOfFile
    BY <1>14 DEF EndOfFile
  <2>2. Moves /\ at' \in Nat
    <3>1. Eat
      BY <1>14
    <3>2. at' \in Nat
      BY <1>1, <3>1 DEF Eat
    <3> QED
      BY <1>1, <2>1, <3>1, <3>2 DEF Moves
  <2>3. OthersFit(c)
    BY <1>5, <1>6, <1>8, <1>9, <1>10, <1>12, <1>14, <2>2 DEF OthersFit
  <2> DEFINE node == NewNode("declaration", <<>>, name, Top.from)
  <2>4. node \in Node /\ node.kind = "declaration" /\ node.kids = <<>>
    <3>1. "declaration" \in Statements /\ <<>> \in Seq(Nat)
      BY EmptySeq DEF Statements
    <3> HIDE DEF name
    <3> QED
      BY <1>1, <1>10, <2>2, <3>1, EmptyTypeIs DEF NewNode, Node
  <2>5. Make(0, node) /\ 0 \in Nat
    BY <1>14
  <2> HIDE DEF node
  <2>6. node.kind \in Statements
    BY <2>4 DEF Statements
  <2>7. Len(node.kids) = 0 /\ 1..0 = {}
    BY <2>4, EmptySeq
  <2>8. Sound(nodes, node, Len(nodes) + 1)
    BY <1>1, <2>4, <2>6, <2>7, StatementSound
  <2>9. MakesNode(0, node, a, c)
    BY <1>3, <1>4, <2>4, <2>5, <2>6, <2>8 DEF MakesNode
  <2> QED
    BY <1>2, <2>3, <2>9, MakeKeeps
<1>15. CASE Fail
  BY <1>15, FailKeeps
<1> QED
  BY <1>13, <1>14, <1>15 DEF Signature

LEMMA BodyKeeps ==
    ASSUME ParserInv, Body
    PROVE  ParserInv'
<1>1. /\ Runs("body") /\ todo # <<>> /\ Top.do = "body" /\ Known
      /\ TypeOK /\ at \in Nat /\ Top.n \in Nat /\ Top.from \in Nat
  BY ReadyIs DEF Body, Reads, Runs, ParserInv
<1>2. CASE /\ Tok = "}" /\ Eat
           /\ Then(<<>>)
           /\ scope' = <<<<>>>>
           /\ Make(Top.n, NewNode("function", Taken(exprs, Top.n), Last(names), Top.from))
           /\ names' = Front(names)
           /\ UNCHANGED <<types, functions, header, status>>
  <2>1. PICK a, c, z : Ready(a, c, z)
    BY <1>1, ReadyIs
  <2>2. /\ a \in Layout /\ c \in Layout /\ Fits(a) /\ Plain(c)
        /\ StatementTakes(Top, a, c)
    BY <1>1, <2>1 DEF Ready, Takes
  <2>3. /\ a.d = 1 /\ TopsAre(a, Top.n, "statement") /\ Yields(a, c, Top.n, "statement")
        /\ Counts(a, c, 0, -1, 0)
    BY <1>1, <2>2 DEF StatementTakes
  <2>4. Top.n <= a.n
    BY <2>3 DEF Yields
  <2>5. c.t = a.t /\ c.m = a.m - 1 /\ c.d = 1 /\ a.m >= 1
    BY <2>2, <2>3, LayoutIs DEF Counts
  <2>6. Len(types) = a.t /\ Len(names) = a.m /\ Len(scope) = a.d
    BY <2>2 DEF Fits
  <2>7. /\ types \in Seq(FullType) /\ names \in Seq(Name)
        /\ functions \in Tables(Function) /\ header \in Seq(Param)
    BY <1>1 DEF TypeOK
  <2>8. /\ Last(names) \in Name /\ Front(names) \in Seq(Name) /\ Len(Front(names)) = c.m
    BY <2>5, <2>6, <2>7, LastIs
  <2>9. scope' \in Seq(Tables(FullType)) /\ Len(scope') = 1
    <3>1. PICK t : t = <<>>
      OBVIOUS
    <3>2. t \in Tables(FullType)
      BY <3>1, TablesAre
    <3>3. scope' = <<t>>
      BY <1>2, <3>1
    <3> QED
      BY <3>2, <3>3
  <2>10. Moves /\ at' \in Nat
    <3>1. Eat
      BY <1>2
    <3>2. at' \in Nat
      BY <1>1, <3>1 DEF Eat
    <3>3. Tok # EndOfFile
      BY <1>2 DEF EndOfFile
    <3> QED
      BY <1>1, <3>1, <3>2, <3>3 DEF Moves
  <2>11. OthersFit(c)
    BY <1>2, <2>5, <2>6, <2>7, <2>8, <2>9, <2>10 DEF OthersFit
  <2>12. \A k \in 1..Top.n : IsKnown(Taken(exprs, Top.n)[k], "statement")
    BY <1>1, <2>2, <2>3, TopsAreKnown
  <2> DEFINE node == NewNode("function", Taken(exprs, Top.n), Last(names), Top.from)
  <2>13. node \in Node /\ node.kind \in Statements /\ Sound(nodes, node, Len(nodes) + 1)
    <3>1. "function" \in Statements /\ Last(names) \in Name \cup {"", "integer", "string"}
      BY <2>8 DEF Statements
    <3> QED
      BY <1>1, <2>2, <2>4, <2>10, <2>12, <3>1, BuildsStatement
  <2>14. MakesNode(Top.n, node, a, c)
    BY <1>1, <1>2, <2>2, <2>3, <2>13 DEF MakesNode
  <2> QED
    BY <2>1, <2>11, <2>14, MakeKeeps
<1>3. CASE Tok # "}" /\ Continues
  BY <1>1, <1>3, StatementFollows
<1> QED
  BY <1>1, <1>2, <1>3 DEF Body, Continues

\* A call that changes something and makes no other.
LEMMA ChangesEnd ==
    ASSUME ParserInv, NEW a, NEW c, NEW z, Ready(a, c, z), Changes(<<>>, a, c)
    PROVE  ParserInv'
<1>1. c \in Layout
  BY DEF Ready
<1>2. Effect(nodes, <<>>, c, c)
  BY <1>1, EffectNone
<1> QED
  BY <1>2, ChangesKeep

LEMMA EmptyCalls == <<>> \in Seq(Calls)
BY EmptySeq

LEMMA BasicTypeKeeps ==
    ASSUME ParserInv, BasicType
    PROVE  ParserInv'
<1>1. /\ Runs("basic type") /\ todo # <<>> /\ Top.do = "basic type" /\ Known
      /\ TypeOK /\ at \in Nat
  BY ReadyIs DEF BasicType, Reads, Runs, ParserInv
<1>2. CASE /\ Tok \in {"char", "int"} /\ Eat
           /\ Then(<<>>)
           /\ types' = Append(types, <<Tok>>)
           /\ UNCHANGED <<exprs, names, nodes, tables, status>>
  <2>1. PICK a, c, z : Ready(a, c, z)
    BY <1>1, ReadyIs
  <2>2. /\ a \in Layout /\ c \in Layout /\ Fits(a) /\ Plain(c)
        /\ Same(a, c) /\ Counts(a, c, 1, 0, 0)
    BY <1>1, <2>1 DEF Ready, Takes
  <2>3. c.t = a.t + 1 /\ c.m = a.m /\ c.d = a.d
    BY <2>2, LayoutIs DEF Counts
  <2>4. Len(types) = a.t /\ Len(names) = a.m /\ Len(scope) = a.d
    BY <2>2 DEF Fits
  <2>5. /\ types \in Seq(FullType) /\ names \in Seq(Name) /\ scope \in Seq(Tables(FullType))
        /\ functions \in Tables(Function) /\ header \in Seq(Param)
    BY <1>1 DEF TypeOK
  <2>6. <<Tok>> \in FullType
    <3>1. PICK t : t = Tok
      OBVIOUS
    <3>2. t \in Constructor
      BY <1>2, <3>1 DEF Constructor
    <3>3. <<t>> \in Seq(Constructor) /\ Len(<<t>>) = 1
      BY <3>2
    <3>4. <<t>> # <<>>
      BY <3>3, EmptySeq
    <3> QED
      BY <3>1, <3>3, <3>4 DEF FullType, AnyType, NoType
  <2>7. types' \in Seq(FullType) /\ Len(types') = c.t
    <3>1. types' = Append(types, <<Tok>>)
      BY <1>2
    <3> QED
      BY <2>3, <2>4, <2>5, <2>6, <3>1, AppendProperties
  <2>8. Moves
    <3>1. Tok # EndOfFile
      BY <1>2 DEF EndOfFile
    <3> QED
      BY <1>1, <1>2, <3>1 DEF Moves
  <2>9. UNCHANGED <<exprs, names, nodes, scope, functions, header, status>>
    BY <1>2 DEF tables
  <2>10. Changes(<<>>, a, c)
    BY <1>2, <2>2, <2>3, <2>4, <2>5, <2>7, <2>8, <2>9, EmptyCalls DEF Changes
  <2> QED
    BY <2>1, <2>10, ChangesEnd
<1>3. CASE Fail
  BY <1>3, FailKeeps
<1> QED
  BY <1>2, <1>3 DEF BasicType

LEMMA IdentifierKeeps ==
    ASSUME ParserInv, Identifier
    PROVE  ParserInv'
<1>1. /\ Runs("name") /\ todo # <<>> /\ Top.do = "name" /\ Known
      /\ TypeOK /\ at \in Nat
  BY ReadyIs DEF Identifier, Reads, Runs, ParserInv
<1>2. CASE /\ Tok \in Name /\ Eat
           /\ Then(<<>>)
           /\ names' = Append(names, Tok)
           /\ UNCHANGED <<exprs, types, nodes, tables, status>>
  <2>1. PICK a, c, z : Ready(a, c, z)
    BY <1>1, ReadyIs
  <2>2. /\ a \in Layout /\ c \in Layout /\ Fits(a) /\ Plain(c)
        /\ Same(a, c) /\ Counts(a, c, 0, 1, 0)
    BY <1>1, <2>1 DEF Ready, Takes
  <2>3. c.t = a.t /\ c.m = a.m + 1 /\ c.d = a.d
    BY <2>2, LayoutIs DEF Counts
  <2>4. Len(types) = a.t /\ Len(names) = a.m /\ Len(scope) = a.d
    BY <2>2 DEF Fits
  <2>5. /\ types \in Seq(FullType) /\ names \in Seq(Name) /\ scope \in Seq(Tables(FullType))
        /\ functions \in Tables(Function) /\ header \in Seq(Param)
    BY <1>1 DEF TypeOK
  <2>6. names' \in Seq(Name) /\ Len(names') = c.m
    <3>1. names' = Append(names, Tok) /\ Tok \in Name
      BY <1>2
    <3> QED
      BY <2>3, <2>4, <2>5, <3>1, AppendProperties
  <2>7. Moves
    <3>1. Tok # EndOfFile
      BY <1>2, ParserAssumption
    <3> QED
      BY <1>1, <1>2, <3>1 DEF Moves
  <2>8. UNCHANGED <<exprs, types, nodes, scope, functions, header, status>>
    BY <1>2 DEF tables
  <2>9. Changes(<<>>, a, c)
    BY <1>2, <2>2, <2>3, <2>4, <2>5, <2>6, <2>7, <2>8, EmptyCalls DEF Changes
  <2> QED
    BY <2>1, <2>9, ChangesEnd
<1>3. CASE Fail
  BY <1>3, FailKeeps
<1> QED
  BY <1>2, <1>3 DEF Identifier

\* A pointer or an array of the type on top.
LEMMA WrapIs ==
    ASSUME TypeOK, Len(types) >= 1, NEW constructor \in Constructor, Wrap(constructor)
    PROVE  /\ types' \in Seq(FullType) /\ Len(types') = Len(types)
           /\ UNCHANGED <<exprs, names, nodes, scope, functions, header, status>>
<1>1. types \in Seq(FullType) /\ Last(types) \in FullType
  BY LastIs DEF TypeOK
<1>2. PICK t : t = Last(types)
  OBVIOUS
<1>3. t \in Seq(Constructor)
  BY <1>1, <1>2 DEF FullType, AnyType
<1>4. <<constructor>> \in Seq(Constructor) /\ Len(<<constructor>>) = 1
  OBVIOUS
<1>5. <<constructor>> \o t \in Seq(Constructor) /\ Len(<<constructor>> \o t) = 1 + Len(t)
  BY <1>3, <1>4, ConcatProperties
<1>6. <<constructor>> \o t # <<>>
  <2>1. Len(t) \in Nat /\ 1 + Len(t) # 0
    BY <1>3, LenProperties
  <2> QED
    BY <1>5, <2>1, EmptySeq
<1>7. <<constructor>> \o t \in FullType
  BY <1>5, <1>6 DEF FullType, AnyType, NoType
<1>8. types' = Append(Front(types), <<constructor>> \o t)
  BY <1>2 DEF Wrap
<1>9. types' \in Seq(FullType) /\ Len(types') = Len(types)
  BY <1>1, <1>7, <1>8, ReplacedIs
<1> QED
  BY <1>9 DEF Wrap, tables

\* What is left alone is as the layout says.
LEMMA OthersAre ==
    ASSUME TypeOK, NEW a, Fits(a)
    PROVE  /\ types \in Seq(FullType) /\ Len(types) = a.t
           /\ names \in Seq(Name) /\ Len(names) = a.m
           /\ scope \in Seq(Tables(FullType)) /\ Len(scope) = a.d
           /\ functions \in Tables(Function) /\ header \in Seq(Param)
BY DEF TypeOK, Fits

LEMMA ArrayTypeKeeps ==
    ASSUME ParserInv, ArrayType
    PROVE  ParserInv'
<1>1. /\ todo # <<>> /\ Top.do = "array type" /\ TypeOK
      /\ Stay /\ Then(<<>>) /\ Wrap("[]")
  BY DEF ArrayType, Runs, ParserInv
<1>2. PICK a, c, z : Ready(a, c, z)
  BY <1>1, ReadyIs
<1>3. /\ a \in Layout /\ c \in Layout /\ Fits(a) /\ Plain(c)
      /\ a.t >= 1 /\ Same(a, c) /\ Counts(a, c, 0, 0, 0)
  BY <1>1, <1>2 DEF Ready, Takes
<1>4. c.t = a.t /\ c.m = a.m /\ c.d = a.d
  BY <1>3, LayoutIs DEF Counts
<1>5. /\ Len(types) = a.t
      /\ names \in Seq(Name) /\ Len(names) = a.m
      /\ scope \in Seq(Tables(FullType)) /\ Len(scope) = a.d
      /\ functions \in Tables(Function) /\ header \in Seq(Param)
  BY <1>1, <1>3, OthersAre
<1>6. "[]" \in Constructor /\ Len(types) >= 1
  BY <1>3, <1>5 DEF Constructor
<1>7. /\ types' \in Seq(FullType) /\ Len(types') = a.t
      /\ UNCHANGED <<exprs, names, nodes, scope, functions, header, status>>
  BY <1>1, <1>5, <1>6, WrapIs
<1>8. Moves
  BY <1>1 DEF Moves
<1>9. Changes(<<>>, a, c)
  BY <1>1, <1>3, <1>4, <1>5, <1>7, <1>8, EmptyCalls DEF Changes
<1> QED
  BY <1>2, <1>9, ChangesEnd

LEMMA DerivedTypeKeeps ==
    ASSUME ParserInv, DerivedType
    PROVE  ParserInv'
<1>1. /\ Runs("derived type") /\ todo # <<>> /\ Top.do = "derived type" /\ Known /\ TypeOK
      /\ Top \in Calls
  BY ReadyIs DEF DerivedType, Reads, Runs, ParserInv
<1>2. CASE Tok = "*" /\ Eat /\ Then(<<Top>>) /\ Wrap("*")
  <2>1. PICK a, c, z : Ready(a, c, z)
    BY <1>1, ReadyIs
  <2>2. /\ a \in Layout /\ c \in Layout /\ Fits(a) /\ Plain(c) /\ Takes(nodes, Top, a, c)
        /\ a.t >= 1 /\ Same(a, c) /\ Counts(a, c, 0, 0, 0)
    BY <1>1, <2>1 DEF Ready, Takes
  <2> DEFINE b == Counted(a, 0, 0, 0)
  <2>3. /\ b \in Layout /\ Plain(b) /\ Same(a, b) /\ b.n = a.n /\ b.e = a.e
        /\ b.t = a.t /\ b.m = a.m /\ b.d = a.d
    BY <2>2, PlainIs
  <2>4. /\ Len(types) = a.t
        /\ names \in Seq(Name) /\ Len(names) = a.m
        /\ scope \in Seq(Tables(FullType)) /\ Len(scope) = a.d
        /\ functions \in Tables(Function) /\ header \in Seq(Param)
    BY <1>1, <2>2, OthersAre
  <2>5. "*" \in Constructor /\ Len(types) >= 1
    BY <2>2, <2>4 DEF Constructor
  <2>6. /\ types' \in Seq(FullType) /\ Len(types') = a.t
        /\ UNCHANGED <<exprs, names, nodes, scope, functions, header, status>>
    BY <1>1, <1>2, <2>4, <2>5, WrapIs
  <2>7. Moves
    <3>1. Tok # EndOfFile
      BY <1>2 DEF EndOfFile
    <3> QED
      BY <1>1, <1>2, <3>1 DEF Moves
  <2>8. <<Top>> \in Seq(Calls)
    BY <1>1, ListsAre
  <2> HIDE DEF b
  <2>9. Changes(<<Top>>, a, b)
    BY <1>2, <2>3, <2>4, <2>6, <2>7, <2>8 DEF Changes
  <2>10. Takes(nodes, Top, b, c)
    <3>1. Same(b, c)
      BY <2>2, <2>3 DEF Same
    <3>2. Counts(b, c, 0, 0, 0)
      BY <2>2, <2>3 DEF Counts
    <3>3. b.t >= 1
      BY <2>2, <2>3
    <3> QED
      BY <1>1, <2>2, <3>1, <3>2, <3>3 DEF Takes
  <2>11. Effect(nodes, <<Top>>, b, c)
    BY <2>2, <2>3, <2>10, EffectOne
  <2> QED
    BY <2>1, <2>9, <2>11, ChangesKeep
<1>3. CASE DerivedTypeEnds
  BY <1>1, <1>3, DerivedTypeGoes
<1> QED
  BY <1>1, <1>2, <1>3 DEF DerivedType, DerivedTypeEnds

LEMMA NextParameterKeeps ==
    ASSUME ParserInv, NextParameter
    PROVE  ParserInv'
<1>1. /\ Runs("parameter") /\ todo # <<>> /\ Top.do = "parameter" /\ Known /\ TypeOK
      /\ at \in Nat
  BY ReadyIs DEF NextParameter, Reads, Runs, ParserInv
<1>2. CASE /\ Tok \in {")", ","} /\ Eat
           /\ Then(IF Tok = ")" THEN <<>> ELSE Parameter)
           /\ header' = Append(header, [name |-> Last(names), type |-> Last(types)])
           /\ types' = Front(types) /\ names' = Front(names)
           /\ UNCHANGED <<exprs, nodes, scope, functions, status>>
  <2>1. PICK a, c, z : Ready(a, c, z)
    BY <1>1, ReadyIs
  <2>2. /\ a \in Layout /\ c \in Layout /\ Fits(a) /\ Plain(c)
        /\ a.t >= 1 /\ a.m >= 1 /\ Same(a, c) /\ Counts(a, c, -1, -1, 0)
    BY <1>1, <2>1 DEF Ready, Takes
  <2>3. c.t = a.t - 1 /\ c.m = a.m - 1 /\ c.d = a.d
    BY <2>2, LayoutIs DEF Counts
  <2>4. /\ types \in Seq(FullType) /\ Len(types) = a.t
        /\ names \in Seq(Name) /\ Len(names) = a.m
        /\ scope \in Seq(Tables(FullType)) /\ Len(scope) = a.d
        /\ functions \in Tables(Function) /\ header \in Seq(Param)
    BY <1>1, <2>2, OthersAre
  <2>5. Len(types) >= 1 /\ Len(names) >= 1
    BY <2>2, <2>4
  <2>6. /\ Last(types) \in FullType /\ Front(types) \in Seq(FullType)
        /\ Len(Front(types)) = c.t
    BY <2>3, <2>4, <2>5, LastIs
  <2>7. /\ Last(names) \in Name /\ Front(names) \in Seq(Name) /\ Len(Front(names)) = c.m
    BY <2>3, <2>4, <2>5, LastIs
  <2>8. header' \in Seq(Param)
    <3>1. PICK p : p = [name |-> Last(names), type |-> Last(types)]
      OBVIOUS
    <3>2. p \in Param
      BY <2>6, <2>7, <3>1 DEF Param
    <3>3. header' = Append(header, p)
      BY <1>2, <3>1
    <3> QED
      BY <2>4, <3>2, <3>3, AppendProperties
  <2>9. Moves
    <3>1. Tok # EndOfFile
      BY <1>2 DEF EndOfFile
    <3> QED
      BY <1>1, <1>2, <3>1 DEF Moves
  <2>10. UNCHANGED <<exprs, nodes, scope, functions, status>>
    BY <1>2
  <2>11. types' = Front(types) /\ names' = Front(names)
    BY <1>2
  <2>12. CASE Tok = ")"
    <3>1. Then(<<>>)
      BY <1>2, <2>12
    <3>2. Changes(<<>>, a, c)
      BY <2>2, <2>3, <2>4, <2>6, <2>7, <2>8, <2>9, <2>10, <2>11, <3>1, EmptyCalls DEF Changes
    <3> QED
      BY <2>1, <3>2, ChangesEnd
  <2>13. CASE Tok # ")"
    <3>1. Then(Parameter)
      BY <1>2, <2>13
    <3>2. Parameter \in Seq(Calls) /\ Effect(nodes, Parameter, c, c)
      <4>1. Same(c, c) /\ Counts(c, c, 0, 0, 0)
        BY <2>2, SameIsSame
      <4> QED
        BY <1>1, <2>2, <4>1, ParameterRuns
    <3>3. Changes(Parameter, a, c)
      BY <2>2, <2>3, <2>4, <2>6, <2>7, <2>8, <2>9, <2>10, <2>11, <3>1, <3>2 DEF Changes
    <3> QED
      BY <2>1, <3>2, <3>3, ChangesKeep
  <2> QED
    BY <2>12, <2>13
<1>3. CASE Fail
  BY <1>3, FailKeeps
<1> QED
  BY <1>2, <1>3 DEF NextParameter

LEMMA ParametersKeeps ==
    ASSUME ParserInv, Parameters
    PROVE  ParserInv'
<1>1. /\ Runs("parameters") /\ todo # <<>> /\ Top.do = "parameters" /\ Known /\ TypeOK
      /\ at \in Nat /\ header' = <<>>
      /\ UNCHANGED <<exprs, types, names, nodes, scope, functions, status>>
  BY ReadyIs DEF Parameters, Reads, Runs, ParserInv, results
<1>2. PICK a, c, z : Ready(a, c, z)
  BY <1>1, ReadyIs
<1>3. /\ a \in Layout /\ c \in Layout /\ Fits(a) /\ Plain(c)
      /\ Same(a, c) /\ Counts(a, c, 0, 0, 0)
  BY <1>1, <1>2 DEF Ready, Takes
<1>4. c.t = a.t /\ c.m = a.m /\ c.d = a.d
  BY <1>3, LayoutIs DEF Counts
<1>5. /\ types \in Seq(FullType) /\ Len(types) = a.t
      /\ names \in Seq(Name) /\ Len(names) = a.m
      /\ scope \in Seq(Tables(FullType)) /\ Len(scope) = a.d
      /\ functions \in Tables(Function) /\ header \in Seq(Param)
  BY <1>1, <1>3, OthersAre
<1>6. header' \in Seq(Param)
  BY <1>1, EmptySeq
<1>7. CASE Tok = ")" /\ Eat /\ Then(<<>>)
  <2>1. Moves
    <3>1. Tok # EndOfFile
      BY <1>7 DEF EndOfFile
    <3> QED
      BY <1>1, <1>7, <3>1 DEF Moves
  <2>2. Changes(<<>>, a, c)
    BY <1>1, <1>3, <1>4, <1>5, <1>6, <1>7, <2>1, EmptyCalls DEF Changes
  <2> QED
    BY <1>2, <2>2, ChangesEnd
<1>8. CASE Tok # ")" /\ Stay /\ Then(Parameter)
  <2>1. Moves
    BY <1>8 DEF Moves
  <2>2. Parameter \in Seq(Calls) /\ Effect(nodes, Parameter, c, c)
    <3>1. Same(c, c) /\ Counts(c, c, 0, 0, 0)
      BY <1>3, SameIsSame
    <3> QED
      BY <1>1, <1>3, <3>1, ParameterRuns
  <2>3. Changes(Parameter, a, c)
    BY <1>1, <1>3, <1>4, <1>5, <1>6, <1>8, <2>1, <2>2 DEF Changes
  <2> QED
    BY <1>2, <2>2, <2>3, ChangesKeep
<1> QED
  BY <1>7, <1>8 DEF Parameters

LEMMA BlockStarts ==
    ASSUME ParserInv, Runs("statement"), Moves, Then(<<Call("block")>>),
           scope' = Append(scope, <<>>),
           UNCHANGED <<results, nodes, functions, header, status>>
    PROVE  ParserInv'
<1>1. todo # <<>> /\ Top.do = "statement" /\ TypeOK /\ at \in Nat
  BY ReadyIs DEF Runs, ParserInv
<1>2. PICK a, c, z : Ready(a, c, z)
  BY <1>1, ReadyIs
<1>3. /\ a \in Layout /\ c \in Layout /\ Fits(a) /\ Plain(c) /\ StatementTakes(Top, a, c)
  BY <1>1, <1>2 DEF Ready, Takes
<1>4. a.d >= 1 /\ Yields(a, c, 0, "statement") /\ Counts(a, c, 0, 0, 0)
  BY <1>1, <1>3 DEF StatementTakes
<1>5. /\ types \in Seq(FullType) /\ Len(types) = a.t
      /\ names \in Seq(Name) /\ Len(names) = a.m
      /\ scope \in Seq(Tables(FullType)) /\ Len(scope) = a.d
      /\ functions \in Tables(Function) /\ header \in Seq(Param)
  BY <1>1, <1>3, OthersAre
<1> DEFINE b == Counted(a, 0, 0, 1)
           call == Call("block")
<1>6. /\ b \in Layout /\ Plain(b) /\ Same(a, b) /\ Counts(a, b, 0, 0, 1)
      /\ b.n = a.n /\ b.e = a.e
  <2>1. a.t + 0 >= 0 /\ a.m + 0 >= 0 /\ a.d + 1 >= 0 /\ 0 \in Int /\ 1 \in Int
    BY <1>3, LayoutIs
  <2> QED
    BY <1>3, <2>1, CountedIs
<1>7. call \in Calls /\ call.do = "block" /\ call.n = 0
  <2>1. "block" \in Do
    BY DEF Do
  <2> QED
    BY <1>1, <2>1, CallIs
<1> HIDE DEF b, call
<1>8. b.t = a.t /\ b.m = a.m /\ b.d = a.d + 1 /\ c.t = a.t /\ c.m = a.m /\ c.d = a.d
  BY <1>3, <1>4, <1>6, LayoutIs DEF Counts
<1>9. scope' \in Seq(Tables(FullType)) /\ Len(scope') = b.d
  <2>1. <<>> \in Tables(FullType)
    BY TablesAre
  <2>2. PICK t : t = <<>>
    OBVIOUS
  <2>3. scope' = Append(scope, t) /\ t \in Tables(FullType)
    BY <2>1, <2>2
  <2>4. Append(scope, t) \in Seq(Tables(FullType)) /\ Len(Append(scope, t)) = Len(scope) + 1
    <3>1. scope \in Seq(Tables(FullType)) /\ t \in Tables(FullType)
      BY <1>5, <2>3
    <3> QED
      BY ONLY <3>1, AppendProperties
  <2> QED
    BY <1>5, <1>8, <2>3, <2>4
<1>10. <<call>> \in Seq(Calls)
  BY <1>7, ListsAre
<1>11. /\ UNCHANGED <<exprs, types, names, nodes, functions, header, status>>
       /\ Then(<<call>>)
  BY DEF results, call
<1>12. Changes(<<call>>, a, b)
  BY <1>5, <1>6, <1>8, <1>9, <1>10, <1>11 DEF Changes
<1>13. StatementTakes(call, b, c)
  <2>1. TopsAre(b, 0, "statement")
    <3>1. b.n \in Nat /\ b.n + 1 - 0..b.n = {}
      BY <1>6, LayoutIs
    <3> QED
      BY <3>1 DEF TopsAre
  <2>2. Yields(b, c, 0, "statement")
    BY <1>4, <1>6 DEF Yields
  <2>3. Counts(b, c, 0, 0, -1) /\ b.d >= 2 /\ b.d >= 1
    BY <1>3, <1>4, <1>8, LayoutIs DEF Counts
  <2> QED
    BY <1>7, <2>1, <2>2, <2>3 DEF StatementTakes
<1>14. Takes(nodes, call, b, c)
  BY <1>3, <1>7, <1>13 DEF Takes
<1>15. Effect(nodes, <<call>>, b, c)
  BY <1>3, <1>6, <1>14, EffectOne
<1> QED
  BY <1>2, <1>12, <1>15, ChangesKeep

LEMMA StatementKeeps ==
    ASSUME ParserInv, Statement
    PROVE  ParserInv'
<1>1. Runs("statement") /\ Known
  BY DEF Statement, Reads
<1>2. CASE Tok = "var" /\ Eat /\ Declares
  <2>1. Tok # EndOfFile
    BY <1>2 DEF EndOfFile
  <2>2. Moves
    BY <1>1, <1>2, <2>1 DEF Moves
  <2> QED
    BY <1>1, <1>2, <2>2, VariableStatement
<1>3. CASE Tok \in {"if", "while"} /\ Eat /\ Decides(Tok)
  <2>1. Tok # EndOfFile
    BY <1>3 DEF EndOfFile
  <2>2. Moves
    BY <1>1, <1>3, <2>1 DEF Moves
  <2> QED
    BY <1>1, <1>3, <2>2, ConditionStatement
<1>4. CASE /\ Tok = "{" /\ Eat
           /\ Then(<<Call("block")>>)
           /\ scope' = Append(scope, <<>>)
           /\ UNCHANGED <<results, nodes, functions, header, status>>
  <2>1. Tok # EndOfFile
    BY <1>4 DEF EndOfFile
  <2>2. Moves
    BY <1>1, <1>4, <2>1 DEF Moves
  <2> QED
    BY <1>1, <1>4, <2>2, BlockStarts
<1>5. CASE Tok = "return" /\ Eat /\ Evaluates("return")
  <2>1. Tok # EndOfFile
    BY <1>5 DEF EndOfFile
  <2>2. Moves
    BY <1>1, <1>5, <2>1 DEF Moves
  <2> QED
    BY <1>1, <1>5, <2>2, ExpressionStatement
<1>6. CASE Fail
  BY <1>6, FailKeeps
<1>7. CASE Stay /\ Evaluates("expression")
  <2>1. Moves
    BY <1>7 DEF Moves
  <2> QED
    BY <1>1, <1>7, <2>1, ExpressionStatement
<1> QED
  BY <1>2, <1>3, <1>4, <1>5, <1>6, <1>7
     DEF Statement, Declares, Decides, Evaluates, Simple

LEMMA BlockKeeps ==
    ASSUME ParserInv, Block
    PROVE  ParserInv'
<1>1. /\ Runs("block") /\ todo # <<>> /\ Top.do = "block" /\ Known /\ TypeOK /\ Stay
      /\ at \in Nat /\ Top.n \in Nat /\ Top.from \in Nat
  BY ReadyIs DEF Block, Reads, Runs, ParserInv
<1>2. CASE /\ Tok \in {"}", EndOfFile}
           /\ Then(<<Expect("}"), Build(Top.from, "block", Top.n)>>)
           /\ scope' = Front(scope)
           /\ UNCHANGED <<results, nodes, functions, header, status>>
  <2>1. PICK a, c, z : Ready(a, c, z)
    BY <1>1, ReadyIs
  <2>2. /\ a \in Layout /\ c \in Layout /\ Fits(a) /\ Plain(c) /\ StatementTakes(Top, a, c)
    BY <1>1, <2>1 DEF Ready, Takes
  <2>3. /\ a.d >= 2 /\ TopsAre(a, Top.n, "statement")
        /\ Yields(a, c, Top.n, "statement") /\ Counts(a, c, 0, 0, -1)
    BY <1>1, <2>2 DEF StatementTakes
  <2>4. /\ types \in Seq(FullType) /\ Len(types) = a.t
        /\ names \in Seq(Name) /\ Len(names) = a.m
        /\ scope \in Seq(Tables(FullType)) /\ Len(scope) = a.d
        /\ functions \in Tables(Function) /\ header \in Seq(Param)
    BY <1>1, <2>2, OthersAre
  <2> DEFINE b == Counted(a, 0, 0, -1)
             first == Expect("}")
             build == Build(Top.from, "block", Top.n)
  <2>5. /\ b \in Layout /\ Plain(b) /\ Same(a, b) /\ Counts(a, b, 0, 0, -1)
        /\ b.n = a.n /\ b.e = a.e
    <3>1. a.t + 0 >= 0 /\ a.m + 0 >= 0 /\ a.d + (-1) >= 0 /\ 0 \in Int /\ -1 \in Int
      BY <2>2, <2>3, LayoutIs
    <3> QED
      BY <2>2, <3>1, CountedIs
  <2>6. /\ build \in Calls /\ build.do = "build" /\ build.op = "block" /\ build.n = Top.n
    <3>1. "block" \in Op
      BY DEF Op
    <3> QED
      BY <1>1, <3>1, BuildIs
  <2> HIDE DEF b, build
  <2>7. first \in Calls /\ Takes(nodes, first, b, b)
    <3>1. "}" \in Op /\ Same(b, b) /\ Counts(b, b, 0, 0, 0)
      BY <2>5, SameIsSame DEF Op
    <3> QED
      BY <1>1, <2>5, <3>1, ExpectRuns
  <2> HIDE DEF first
  <2>8. b.t = a.t /\ b.m = a.m /\ b.d = a.d - 1 /\ c.t = b.t /\ c.m = b.m /\ c.d = b.d
    BY <2>2, <2>3, <2>5, LayoutIs DEF Counts
  <2>9. scope' \in Seq(Tables(FullType)) /\ Len(scope') = b.d
    <3>1. Len(scope) >= 1
      BY <2>3, <2>4
    <3> QED
      BY <1>2, <2>4, <2>8, <3>1, LastIs
  <2>10. BuildTakes(build, b, c)
    <3>1. TopsAre(b, build.n, "statement") /\ Yields(b, c, build.n, "statement")
      BY <2>3, <2>5, <2>6 DEF TopsAre, Yields
    <3>2. Counts(b, c, 0, 0, 0)
      BY <2>5, <2>8, LayoutIs DEF Counts
    <3> QED
      BY <2>6, <3>1, <3>2 DEF BuildTakes
  <2>11. Takes(nodes, build, b, c)
    BY <2>2, <2>6, <2>10 DEF Takes
  <2>12. <<first, build>> \in Seq(Calls) /\ Effect(nodes, <<first, build>>, b, c)
    BY <2>2, <2>5, <2>6, <2>7, <2>11, EffectOfTwo
  <2>13. Moves
    BY <1>1 DEF Moves
  <2>14. /\ UNCHANGED <<exprs, types, names, nodes, functions, header, status>>
         /\ Then(<<first, build>>)
    BY <1>2 DEF results, first, build
  <2>15. Changes(<<first, build>>, a, b)
    BY <2>4, <2>5, <2>8, <2>9, <2>12, <2>13, <2>14 DEF Changes
  <2> QED
    BY <2>1, <2>12, <2>15, ChangesKeep
<1>3. CASE Goes(<<Call("statement"), Since(Top.from, "block", Top.n + 1)>>)
  <2>1. Continues
    BY <1>1, <1>3 DEF Continues
  <2> QED
    BY <1>1, <2>1, StatementFollows
<1> QED
  BY <1>2, <1>3 DEF Block

LEMMA ProgramKeeps ==
    ASSUME ParserInv, Program
    PROVE  ParserInv'
<1>1. Runs("program") /\ Known
  BY DEF Program, Reads
<1>2. CASE status' = "done" /\ UNCHANGED <<input, at, todo, results, nodes, tables>>
  <2>1. TypeOK'
    BY <1>2 DEF ParserInv, TypeOK, input, results, tables
  <2>2. SourceInv' /\ NodesInv'
    BY <1>2 DEF ParserInv, SourceInv, NodesInv, input
  <2>3. WorkInv'
    BY <1>2 DEF ParserInv, WorkInv, Fits, results, tables
  <2> QED
    BY <2>1, <2>2, <2>3 DEF ParserInv
<1>3. CASE Tok = "func" /\ Eat /\ FunctionFollows
  <2>1. Tok # EndOfFile
    BY <1>3 DEF EndOfFile
  <2> QED
    BY <1>1, <1>3, <2>1, ProgramGoesOn
<1>4. CASE Fail
  BY <1>4, FailKeeps
<1> QED
  BY <1>2, <1>3, <1>4 DEF Program, FunctionFollows

------------------------------------------------------------------------------
(* The types of expressions. *)

LEMMA GreatestIs ==
    ASSUME NEW n \in Nat, NEW T \in SUBSET (1..n), T # {}
    PROVE  Max(T) \in T
<1> DEFINE U == {n - x : x \in T}
<1>1. \A x \in T : x \in 1..n /\ x \in Nat
  OBVIOUS
<1>2. U \subseteq Nat /\ U # {}
  <2>1. \A x \in T : n - x \in Nat
    BY <1>1
  <2>2. PICK x \in T : TRUE
    OBVIOUS
  <2>3. n - x \in U
    BY <2>2
  <2>4. U # {}
    BY <2>3
  <2> QED
    BY <2>1, <2>4
<1>3. PICK m \in U : \A u \in U : m <= u
  <2> HIDE DEF U
  <2>1. PICK n0 \in U : \A u \in U : ~(<<u, n0>> \in OpToRel(<, Nat))
    BY <1>2, WFMin, NatLessThanWellFounded, Zenon
  <2>2. \A u \in U : ~(u < n0)
    BY <1>2, <2>1 DEF OpToRel
  <2> QED
    BY <1>2, <2>2
<1>4. PICK x \in T : m = n - x
  OBVIOUS
<1>5. \A y \in T : x >= y
  <2>1. SUFFICES ASSUME NEW y \in T PROVE x >= y
    OBVIOUS
  <2>2. m <= n - y
    BY <1>3
  <2> QED
    BY <1>1, <1>4, <2>2
<1>6. Max(T) = CHOOSE v \in T : \A y \in T : v >= y
  BY DEF Max
<1> QED
  BY <1>4, <1>5, <1>6, Zenon

LEMMA ResolvedIs ==
    ASSUME TypeOK, NEW name
    PROVE  Resolved(name) \in AnyType
<1> DEFINE holders == {d \in DOMAIN scope : name \in DOMAIN scope[d]}
<1>1. CASE holders = {}
  <2>1. Resolved(name) = NoType
    BY <1>1 DEF Resolved
  <2> QED
    BY <2>1, EmptyTypeIs
<1>2. CASE holders # {}
  <2>1. /\ scope \in Seq(Tables(FullType)) /\ DOMAIN scope = 1..Len(scope)
        /\ Len(scope) \in Nat
    BY LenProperties DEF TypeOK
  <2>2. holders \in SUBSET (1..Len(scope))
    BY <2>1
  <2>3. Max(holders) \in holders
    <3> HIDE DEF holders
    <3> QED
      BY <1>2, <2>1, <2>2, GreatestIs
  <2>4. PICK d : d = Max(holders)
    OBVIOUS
  <2>5. d \in 1..Len(scope) /\ name \in DOMAIN scope[d]
    BY <2>1, <2>3, <2>4
  <2>6. scope[d] \in Tables(FullType)
    BY <2>1, <2>5, ElementOfSeq
  <2>7. PICK D \in SUBSET Name : scope[d] \in [D -> FullType]
    BY <2>6 DEF Tables
  <2>8. scope[d][name] \in FullType
    BY <2>5, <2>7
  <2>9. Resolved(name) = scope[d][name]
    BY <1>2, <2>4 DEF Resolved
  <2> QED
    BY <2>8, <2>9 DEF FullType
<1> QED
  BY <1>1, <1>2

\* The type of a node whose operands have been through post_parse.
LEMMA TypeOfIs ==
    ASSUME TypeOK, NodesInv, NEW i, IsExpression(i),
           \A k \in ToSet(PostParsed(nodes[i])) : k \in 1..Len(nodes) /\ nodes[k].type # NoType
    PROVE  TypeOf(nodes[i]) \in AnyType
<1> DEFINE node == nodes[i]
<1>1. /\ i \in 1..Len(nodes) /\ node \in Node /\ node.kids \in Seq(Nat)
      /\ Len(node.kids) \in Nat /\ Sound(nodes, node, i) /\ node.kind \in Expressions
      /\ nodes \in Seq(Node)
  BY NodeIs DEF IsExpression, TypeOK
<1>2. \A k \in ToSet(PostParsed(node)) :
         k \in 1..Len(nodes) /\ nodes[k].type # NoType
  OBVIOUS
<1>3. /\ node.kind \in Unary => Len(node.kids) = 1
      /\ node.kind \in Binary \cup {"subscript"} => Len(node.kids) = 2
  BY <1>1 DEF Sound, OperandsSound
<1>0. SUFFICES TypeOf(node) \in AnyType
  OBVIOUS
<1> HIDE DEF node
<1>4. \A t \in {"int", "char", "*", "[]"} : <<t>> \in AnyType
  BY DEF AnyType, Constructor
<1>5. ASSUME node.kind \in Unary \cup Binary \cup {"subscript"}
      PROVE  /\ Kid(node, 1).type \in AnyType /\ Kid(node, 1).type # <<>>
  <2>1. 1 \in DOMAIN node.kids
    <3>1. Len(node.kids) = 1 \/ Len(node.kids) = 2
      BY <1>3, <1>5
    <3>2. 1 \in 1..Len(node.kids)
      BY <3>1
    <3> QED
      BY <1>1, <3>2, LenProperties
  <2>2. node.kids[1] \in ToSet(PostParsed(node))
    <3>1. CASE node.kind \in Binary
      <4>1. PostParsed(node) = node.kids
        BY <3>1, KindsAre DEF PostParsed, Binary
      <4> QED
        BY <2>1, <4>1 DEF ToSet
    <3>2. CASE node.kind \in Unary \cup {"subscript"}
      <4>1. PostParsed(node) = <<node.kids[1]>>
        BY <3>2, KindsAre DEF PostParsed, Unary, Binary
      <4>2. PICK k : k = node.kids[1]
        OBVIOUS
      <4>3. 1 \in DOMAIN <<k>> /\ <<k>>[1] = k
        OBVIOUS
      <4> QED
        BY <4>1, <4>2, <4>3 DEF ToSet
    <3> QED
      BY <1>5, <3>1, <3>2
  <2>3. PICK k : k = node.kids[1]
    OBVIOUS
  <2>4. k \in 1..Len(nodes) /\ nodes[k].type # NoType
    BY <1>2, <2>2, <2>3
  <2>5. nodes[k] \in Node
    BY <1>1, <2>4, ElementOfSeq
  <2>6. nodes[k].type \in AnyType
    BY <2>5 DEF Node
  <2>7. Kid(node, 1) = nodes[k]
    BY <2>3 DEF Kid
  <2> QED
    BY <2>4, <2>6, <2>7 DEF NoType
<1>6. CASE node.kind \in {"integer", "string", "identifier", "call"}
  <2>1. CASE node.kind = "integer"
    BY <1>4, <2>1, KindsAre DEF TypeOf
  <2>2. CASE node.kind = "string"
    <3>1. <<"*", "char">> \in Seq(Constructor)
      BY DEF Constructor
    <3>2. TypeOf(node) = <<"*", "char">>
      BY <2>2, KindsAre DEF TypeOf
    <3> QED
      BY <3>1, <3>2 DEF AnyType
  <2>3. CASE node.kind = "identifier"
    BY <2>3, ResolvedIs, KindsAre DEF TypeOf
  <2>4. CASE node.kind = "call"
    <3>1. TypeOf(node) = IF node.name \in DOMAIN functions THEN functions[node.name].type
                         ELSE NoType
      BY <2>4, KindsAre DEF TypeOf
    <3>2. CASE node.name \in DOMAIN functions
      <4>1. PICK D \in SUBSET Name : functions \in [D -> Function]
        BY DEF TypeOK, Tables
      <4>2. functions[node.name] \in Function
        BY <3>2, <4>1
      <4>3. functions[node.name].type \in FullType
        BY <4>2 DEF Function
      <4> QED
        BY <3>1, <3>2, <4>3 DEF FullType
    <3> QED
      BY <3>1, <3>2, EmptyTypeIs
  <2> QED
    BY <1>6, <2>1, <2>2, <2>3, <2>4
<1>7. CASE node.kind \in Unary \cup {"subscript", "="}
  <2>1. PICK t : t = Kid(node, 1).type
    OBVIOUS
  <2>2. t \in AnyType /\ t # <<>>
    BY <1>5, <1>7, <2>1 DEF Binary
  <2>3. t \in Seq(Constructor)
    BY <2>2 DEF AnyType
  <2>4. Tail(t) \in AnyType
    BY <2>2, <2>3, HeadTailProperties DEF AnyType
  <2>5. <<"*">> \o t \in AnyType
    <3>1. <<"*">> \in Seq(Constructor)
      BY DEF Constructor
    <3> QED
      BY <2>3, <3>1, ConcatProperties DEF AnyType
  <2>6. TypeOf(node) \in {NoType, t, Tail(t), <<"*">> \o t}
    <3>1. CASE node.kind = "subscript"
      BY <2>1, <3>1, KindsAre DEF TypeOf
    <3>2. CASE node.kind = "dereference"
      BY <2>1, <3>2, KindsAre DEF TypeOf
    <3>3. CASE node.kind = "address of"
      BY <2>1, <3>3, KindsAre DEF TypeOf
    <3>4. CASE node.kind = "="
      BY <2>1, <3>4, KindsAre DEF TypeOf
    <3> QED
      BY <1>7, <3>1, <3>2, <3>3, <3>4 DEF Unary
  <2> QED
    BY <2>2, <2>4, <2>5, <2>6, EmptyTypeIs
<1>8. CASE node.kind \in Binary \ {"="}
  <2>1. CASE node.kind \in Operators[3]
    BY <1>4, <2>1, KindsAre DEF TypeOf
  <2>2. CASE node.kind \in Operators[1] \cup Operators[2]
    BY <1>4, <2>2, KindsAre DEF TypeOf
  <2> QED
    BY <1>8, <2>1, <2>2, KindsAre DEF Binary
<1> QED
  BY <1>1, <1>6, <1>7, <1>8 DEF Expressions

------------------------------------------------------------------------------
(* Nodes that change. *)

\* Node i becomes node: what it is made of stays.
Updates(i, node) ==
    /\ i \in 1..Len(nodes) /\ node \in Node
    /\ nodes' = [nodes EXCEPT ![i] = node]
    /\ node.kind = nodes[i].kind /\ node.kids = nodes[i].kids
    /\ nodes[i].type # NoType => node.type # NoType
    /\ Sound(nodes, node, i)

\* The results that were typed may be called raw, and one that has its type now
\* typed.
Refits(a, c) ==
    /\ c.n = a.n /\ c.node \in {0, a.node} /\ c.t = a.t /\ c.m = a.m /\ c.d = a.d
    /\ \A i \in 1..a.n :
          \/ c.e[i] = a.e[i]
          \/ c.e[i] = "raw" /\ a.e[i] = "typed"
          \/ c.e[i] = "typed" /\ a.e[i] = "raw" /\ nodes'[exprs[i]].type # NoType
    /\ \A i \in c.typed : i \in a.typed \/ (i \in 1..Len(nodes) /\ nodes'[i].type # NoType)

LEMMA UpdateKeeps ==
    ASSUME ParserInv, NEW a, NEW c, NEW z, Ready(a, c, z), NEW i, NEW node,
           Updates(i, node), Refits(a, c), Moves, Then(<<>>),
           UNCHANGED <<results, tables, status>>
    PROVE  ParserInv'
<1>1. /\ TypeOK /\ SourceInv /\ NodesInv /\ todo # <<>>
      /\ a \in Layout /\ c \in Layout /\ z \in Layout /\ Fits(a)
      /\ Effect(nodes, Tail(todo), c, z)
  BY DEF ParserInv, Ready
<1>2. /\ i \in 1..Len(nodes) /\ node \in Node /\ nodes' = [nodes EXCEPT ![i] = node]
      /\ node.kind = nodes[i].kind /\ node.kids = nodes[i].kids
      /\ nodes[i].type # NoType => node.type # NoType
      /\ Sound(nodes, node, i)
  BY DEF Updates
<1>3. /\ exprs' = exprs /\ types' = types /\ names' = names /\ scope' = scope
      /\ functions' = functions /\ header' = header /\ status' = status
  BY DEF results, tables
<1>4. nodes \in Seq(Node) /\ Len(nodes) \in Nat /\ DOMAIN nodes = 1..Len(nodes)
  BY <1>1, LenProperties DEF TypeOK
<1>5. /\ nodes' \in Seq(Node) /\ Len(nodes') = Len(nodes) /\ DOMAIN nodes' = 1..Len(nodes)
      /\ nodes'[i] = node /\ \A j \in 1..Len(nodes) : j # i => nodes'[j] = nodes[j]
  <2>1. nodes' \in Seq(Node) /\ Len(nodes') = Len(nodes)
    BY <1>2, <1>4, ExceptSeq
  <2> QED
    BY <1>2, <1>4, <2>1, LenProperties
<1>6. \A j \in 1..Len(nodes) :
         /\ nodes'[j].kind = nodes[j].kind /\ nodes'[j].kids = nodes[j].kids
         /\ nodes[j].type # NoType => nodes'[j].type # NoType
  BY <1>2, <1>5
<1>7. Grows(nodes, nodes')
  BY <1>4, <1>5, <1>6 DEF Grows
<1>8. SourceInv' /\ tokens' = tokens /\ at' \in Nat \ {0}
  BY <1>1, MovesKeep
<1>9. todo' \in Seq(Calls)
  BY <1>1, EndsWithNothing
<1>10. TypeOK'
  BY <1>1, <1>3, <1>5, <1>8, <1>9 DEF TypeOK
<1>11. NodesInv'
  <2>1. ASSUME NEW j \in 1..Len(nodes) PROVE Sound(nodes', nodes'[j], j)
    <3>1. j \in Nat /\ 1..j - 1 \subseteq DOMAIN nodes
      BY <1>4
    <3>2. Sound(nodes, nodes'[j], j) /\ nodes'[j] \in Node
      <4>1. CASE j = i
        BY <1>2, <1>5, <4>1
      <4>2. CASE j # i
        BY <1>1, <1>5, <4>2, NodeIs
      <4> QED
        BY <4>1, <4>2
    <3> QED
      BY <1>7, <3>1, <3>2, SoundKept
  <2> QED
    BY <1>5, <2>1 DEF NodesInv
<1>12. Fits(c)'
  <2>1. /\ c.n = a.n /\ c.node \in {0, a.node} /\ c.t = a.t /\ c.m = a.m /\ c.d = a.d
        /\ \A k \in 1..a.n :
              \/ c.e[k] = a.e[k]
              \/ c.e[k] = "raw" /\ a.e[k] = "typed"
              \/ c.e[k] = "typed" /\ a.e[k] = "raw" /\ nodes'[exprs[k]].type # NoType
        /\ \A k \in c.typed :
              k \in a.typed \/ (k \in 1..Len(nodes) /\ nodes'[k].type # NoType)
    BY DEF Refits
  <2>2. /\ Len(exprs) = a.n /\ Len(types) = a.t /\ Len(names) = a.m /\ Len(scope) = a.d
        /\ a.node # 0 => a.n >= 1 /\ exprs[a.n] = a.node
        /\ \A k \in a.typed : k \in 1..Len(nodes) /\ nodes[k].type # NoType
    BY <1>1 DEF Fits
  <2>3. ASSUME NEW k \in 1..a.n
        PROVE  /\ exprs[k] \in 1..Len(nodes)
               /\ c.e[k] = "statement" => nodes'[exprs[k]].kind \in Statements
               /\ c.e[k] # "statement" => nodes'[exprs[k]].kind \in Expressions
               /\ c.e[k] = "typed" => nodes'[exprs[k]].type # NoType
    <3>1. /\ exprs[k] \in 1..Len(nodes)
          /\ a.e[k] = "statement" => nodes[exprs[k]].kind \in Statements
          /\ a.e[k] # "statement" => nodes[exprs[k]].kind \in Expressions
          /\ a.e[k] = "typed" => nodes[exprs[k]].type # NoType
      BY <1>1 DEF Fits
    <3>2. /\ nodes'[exprs[k]].kind = nodes[exprs[k]].kind
          /\ nodes[exprs[k]].type # NoType => nodes'[exprs[k]].type # NoType
      BY <1>6, <3>1
    <3> QED
      BY <2>1, <3>1, <3>2
  <2>4. \A k \in c.typed : k \in 1..Len(nodes) /\ nodes'[k].type # NoType
    BY <1>6, <2>1, <2>2
  <2>5. c.node # 0 => c.n >= 1 /\ exprs[c.n] = c.node
    BY <2>1, <2>2
  <2> QED
    BY <1>3, <1>5, <2>1, <2>2, <2>3, <2>4, <2>5 DEF Fits
<1>13. WorkInv'
  <2>1. Effect(nodes', <<>>, c, c) /\ IsSeq(<<>>)
    BY <1>1, EffectNone, EmptySeq DEF IsSeq
  <2> QED
    BY <1>1, <1>7, <1>12, <2>1, WorkGoesOn
<1> QED
  BY <1>8, <1>10, <1>11, <1>13 DEF ParserInv

LEMMA ParenthesisKeeps ==
    ASSUME ParserInv, Parenthesis
    PROVE  ParserInv'
<1>1. /\ Runs("parenthesis") /\ todo # <<>> /\ Top.do = "parenthesis" /\ Known
      /\ TypeOK /\ NodesInv /\ at \in Nat /\ Top.from \in Nat
  BY ReadyIs DEF Parenthesis, Reads, Runs, ParserInv
<1>2. CASE /\ Tok = ")" /\ Eat
           /\ Then(<<>>)
           /\ nodes' = [nodes EXCEPT ![Last(exprs)] =
                 [nodes[Last(exprs)] EXCEPT !.from = Top.from, !.to = at',
                                            !.parens = nodes[Last(exprs)].parens + 1]]
           /\ UNCHANGED <<results, tables, status>>
  <2>1. PICK a, c, z : Ready(a, c, z)
    BY <1>1, ReadyIs
  <2>2. /\ a \in Layout /\ c \in Layout /\ Fits(a) /\ Plain(c)
        /\ TopIs(a, 1, "typed") /\ Yields(a, c, 1, "raw") /\ Counts(a, c, 0, 0, 0)
    BY <1>1, <2>1 DEF Ready, Takes
  <2>3. /\ a.n \in Nat /\ a.n >= 1 /\ c.n = a.n /\ c.e[a.n] = "raw" /\ a.e[a.n] = "typed"
        /\ \A k \in 1..a.n - 1 : c.e[k] = a.e[k]
        /\ c.t = a.t /\ c.m = a.m /\ c.d = a.d
    BY <2>2, LayoutIs DEF TopIs, Yields, Counts
  <2>4. PICK i : i = Last(exprs)
    OBVIOUS
  <2>5. i \in 1..Len(nodes) /\ nodes[i] \in Node
    BY <1>1, <2>2, <2>3, <2>4, TopIsNode
  <2>6. at' \in Nat /\ Tok # EndOfFile
    <3>1. Eat /\ Tok = ")"
      BY <1>2
    <3> QED
      BY <1>1, <3>1 DEF Eat, EndOfFile
  <2>7. Moves
    BY <1>1, <1>2, <2>6 DEF Moves
  <2>8. PICK old : old = nodes[i]
    OBVIOUS
  <2>15. PICK p, q : p = at' /\ q = Top.from
    OBVIOUS
  <2> DEFINE node == [old EXCEPT !.from = q, !.to = p, !.parens = @ + 1]
  <2>9. /\ node \in Node /\ node.kind = old.kind /\ node.kids = old.kids
        /\ node.type = old.type
    <3>1. /\ old \in [kind : Expressions \cup Statements, kids : Seq(Nat), type : AnyType,
                     name : Name \cup {"", "integer", "string"}, from : Nat, to : Nat,
                     parens : Nat]
          /\ p \in Nat /\ q \in Nat
      BY <1>1, <2>5, <2>6, <2>8, <2>15 DEF Node
    <3>2. old.parens + 1 \in Nat
      <4>1. old.parens \in Nat
        BY ONLY <3>1
      <4> QED
        BY ONLY <4>1
    <3> QED
      BY ONLY <3>1, <3>2 DEF Node, node
  <2>10. nodes' = [nodes EXCEPT ![i] = node]
    <3>1. nodes' = [nodes EXCEPT ![Last(exprs)] =
             [nodes[Last(exprs)] EXCEPT !.from = Top.from, !.to = at',
                                        !.parens = nodes[Last(exprs)].parens + 1]]
      BY <1>2
    <3> QED
      BY ONLY <2>4, <2>8, <2>15, <3>1 DEF node
  <2> HIDE DEF node
  <2>11. Sound(nodes, node, i)
    <3>1. Sound(nodes, old, i)
      BY <1>1, <2>5, <2>8, NodeIs
    <3> QED
      BY <2>9, <3>1 DEF Sound, OperandsSound, OperandsTyped, Operand
  <2>12. Updates(i, node)
    BY <2>5, <2>8, <2>9, <2>10, <2>11 DEF Updates
  <2>13. Refits(a, c)
    <3>1. \A k \in 1..a.n : c.e[k] = a.e[k] \/ (c.e[k] = "raw" /\ a.e[k] = "typed")
      <4>1. \A k \in 1..a.n : k = a.n \/ k \in 1..a.n - 1
        BY <2>3
      <4> QED
        BY <2>3, <4>1
    <3> QED
      BY <2>2, <2>3, <3>1 DEF Refits, Plain
  <2>14. Then(<<>>) /\ UNCHANGED <<results, tables, status>>
    BY <1>2
  <2> QED
    BY <2>1, <2>7, <2>12, <2>13, <2>14, UpdateKeeps
<1>3. CASE Fail
  BY <1>3, FailKeeps
<1> QED
  BY <1>2, <1>3 DEF Parenthesis

\* Once the operands that its handler looks at have a type, the node has one:
\* the others have theirs already.
LEMMA TypedIsSound ==
    ASSUME TypeOK, NodesInv, NEW i, IsExpression(i), NEW type \in AnyType,
           \A k \in ToSet(PostParsed(nodes[i])) : nodes[k].type # NoType
    PROVE  Sound(nodes, [nodes[i] EXCEPT !.type = type], i)
<1> PICK node : node = nodes[i]
  OBVIOUS
<1> DEFINE new == [node EXCEPT !.type = type]
<1>1. /\ node \in Node /\ node.kids \in Seq(Nat) /\ node.kind \in Expressions
      /\ DOMAIN node.kids = 1..Len(node.kids) /\ Sound(nodes, node, i)
  BY NodeIs DEF IsExpression
<1>2. new.kind = node.kind /\ new.kids = node.kids
  BY <1>1 DEF Node
<1> HIDE DEF new
<1>3. OperandsSound(nodes, new, i)
  BY <1>1, <1>2 DEF Sound, OperandsSound
<1>4. /\ node.kind \in Unary => Len(node.kids) = 1
      /\ node.kind \in Binary \cup {"subscript"} => Len(node.kids) = 2
      /\ node.kind \in {"integer", "string", "identifier"} => Len(node.kids) = 0
      /\ node.kind = "subscript" => nodes[node.kids[2]].type # NoType
      /\ node.kind = "call" => \A k \in 2..Len(node.kids) : nodes[node.kids[k]].type # NoType
  BY <1>1 DEF Sound, OperandsSound, OperandsTyped
<1>5. \A k \in ToSet(PostParsed(node)) : nodes[k].type # NoType
  OBVIOUS
<1>6. ASSUME NEW k \in Operand(new) PROVE nodes[k].type # NoType
  <2>1. Operand(new) = {node.kids[j] : j \in IF node.kind = "call" THEN 2..Len(node.kids)
                                             ELSE DOMAIN node.kids}
    BY <1>2 DEF Operand
  <2>2. CASE node.kind = "call"
    BY <1>4, <1>6, <2>1, <2>2
  <2>3. CASE node.kind # "call"
    <3>1. PICK j \in 1..Len(node.kids) : k = node.kids[j]
      BY <1>1, <1>6, <2>1, <2>3
    <3>2. CASE node.kind \in Binary
      <4>1. PostParsed(node) = node.kids
        BY <3>2, KindsAre DEF PostParsed, Binary
      <4>2. k \in ToSet(PostParsed(node))
        BY <1>1, <3>1, <4>1 DEF ToSet
      <4> QED
        BY <1>5, <4>2
    <3>3. CASE node.kind \in Unary \cup {"subscript"}
      <4>1. j = 1 \/ (j = 2 /\ node.kind = "subscript")
        <5>1. CASE node.kind \in Unary
          BY <1>4, <3>1, <5>1
        <5>2. CASE node.kind = "subscript"
          BY <1>4, <3>1, <5>2
        <5> QED
          BY <3>3, <5>1, <5>2
      <4>2. CASE j = 1
        <5>1. PostParsed(node) = <<node.kids[1]>>
          BY <3>3, KindsAre DEF PostParsed, Unary, Binary
        <5>2. 1 \in DOMAIN <<k>> /\ <<k>>[1] = k
          OBVIOUS
        <5>3. PostParsed(node) = <<k>>
          BY <3>1, <4>2, <5>1
        <5>4. k \in ToSet(PostParsed(node))
          BY <5>2, <5>3 DEF ToSet
        <5> QED
          BY <1>5, <5>4
      <4>3. CASE j = 2 /\ node.kind = "subscript"
        BY <1>4, <3>1, <4>3
      <4> QED
        BY <4>1, <4>2, <4>3
    <3>4. CASE node.kind \in {"integer", "string", "identifier"}
      <4>1. Len(node.kids) = 0
        BY <1>4, <3>4
      <4> QED
        BY <3>1, <4>1
    <3> QED
      BY <1>1, <2>3, <3>2, <3>3, <3>4 DEF Expressions
  <2> QED
    BY <2>2, <2>3
<1>7. OperandsTyped(nodes, new)
  BY <1>2, <1>4, <1>6 DEF OperandsTyped
<1> QED
  BY <1>3, <1>7 DEF Sound, new

LEMMA SetTypeKeeps ==
    ASSUME ParserInv, SetType
    PROVE  ParserInv'
<1> DEFINE i == Top.n
           type == TypeOf(nodes[i])
<1>1. /\ Runs("type") /\ todo # <<>> /\ Top.do = "type" /\ TypeOK /\ NodesInv /\ i \in Nat
  BY ReadyIs DEF SetType, Runs, ParserInv
<1>2. CASE /\ type # NoType /\ Stay
           /\ Then(<<>>)
           /\ nodes' = [nodes EXCEPT ![i].type = type]
           /\ UNCHANGED <<results, tables, status>>
  <2>1. PICK a, c, z : Ready(a, c, z)
    BY <1>1, ReadyIs
  <2>2. a \in Layout /\ c \in Layout /\ Fits(a) /\ OperandTakes(nodes, Top, a, c)
    BY <1>1, <2>1 DEF Ready, Takes
  <2>3. /\ i \in DOMAIN nodes /\ nodes[i].kind \in Expressions
        /\ Counts(a, c, 0, 0, 0)
        /\ c.typed \subseteq a.typed \cup {i}
        /\ c.node \in {0, a.node}
        /\ ToSet(PostParsed(nodes[i])) \subseteq a.typed
    BY <1>1, <2>2 DEF OperandTakes
  <2>4. \/ Same(a, c)
        \/ a.node = i /\ TopIs(a, 1, "raw") /\ Yields(a, c, 1, "typed")
    BY <2>2 DEF OperandTakes
  <2>5. nodes \in Seq(Node) /\ DOMAIN nodes = 1..Len(nodes)
    BY <1>1, LenProperties DEF TypeOK
  <2>6. IsExpression(i) /\ i \in 1..Len(nodes)
    BY <2>3, <2>5 DEF IsExpression
  <2>7. \A k \in a.typed : k \in 1..Len(nodes) /\ nodes[k].type # NoType
    BY <2>2 DEF Fits
  <2>8. \A k \in ToSet(PostParsed(nodes[i])) : k \in 1..Len(nodes) /\ nodes[k].type # NoType
    BY <2>3, <2>7
  <2>9. type \in AnyType
    <3> HIDE DEF i
    <3> QED
      BY <1>1, <2>6, <2>8, TypeOfIs
  <2> DEFINE node == [nodes[i] EXCEPT !.type = type]
  <2>10. nodes[i] \in Node
    <3> HIDE DEF i
    <3> QED
      BY <2>5, <2>6, ElementOfSeq
  <2>11. PICK old, t : old = nodes[i] /\ t = type
    OBVIOUS
  <2>12. /\ node \in Node /\ node.kind = nodes[i].kind /\ node.kids = nodes[i].kids
         /\ node.type = type
    <3>1. old \in Node /\ t \in AnyType
      BY <2>9, <2>10, <2>11
    <3>2. node = [old EXCEPT !.type = t]
      BY <2>11
    <3>3. /\ [old EXCEPT !.type = t] \in Node /\ [old EXCEPT !.type = t].kind = old.kind
          /\ [old EXCEPT !.type = t].kids = old.kids /\ [old EXCEPT !.type = t].type = t
      BY ONLY <3>1 DEF Node
    <3> QED
      BY <2>11, <3>2, <3>3
  <2>13. Sound(nodes, node, i)
    <3> HIDE DEF i, type
    <3> QED
      BY <1>1, <2>6, <2>8, <2>9, TypedIsSound
  <2>14. nodes' = [nodes EXCEPT ![i] = node]
    BY <1>2
  <2>15. type # NoType
    BY <1>2
  <2> HIDE DEF node, type
  <2>16. Updates(i, node)
    BY <2>6, <2>12, <2>13, <2>14, <2>15 DEF Updates
  <2>17. nodes'[i].type # NoType
    <3>1. nodes'[i] = node
      BY <2>5, <2>6, <2>14
    <3> QED
      BY <2>12, <2>15, <3>1
  <2> HIDE DEF i
  <2>18. Refits(a, c)
    <3>1. c.t = a.t /\ c.m = a.m /\ c.d = a.d /\ a.n \in Nat
      BY <2>2, <2>3, LayoutIs DEF Counts
    <3>2. \A k \in c.typed : k \in a.typed \/ (k \in 1..Len(nodes) /\ nodes'[k].type # NoType)
      BY <2>3, <2>6, <2>17
    <3>3. CASE Same(a, c)
      <4>1. c.n = a.n /\ \A k \in 1..a.n : c.e[k] = a.e[k]
        BY <3>3 DEF Same
      <4> QED
        BY <2>3, <3>1, <3>2, <4>1 DEF Refits
    <3>4. CASE a.node = i /\ TopIs(a, 1, "raw") /\ Yields(a, c, 1, "typed")
      <4>1. /\ a.n >= 1 /\ c.n = a.n /\ c.e[a.n] = "typed" /\ a.e[a.n] = "raw"
            /\ \A k \in 1..a.n - 1 : c.e[k] = a.e[k]
        BY <3>1, <3>4 DEF TopIs, Yields
      <4>2. exprs[a.n] = i
        <5>1. i # 0
          BY <2>6
        <5> QED
          BY <2>2, <3>4, <5>1 DEF Fits
      <4>3. \A k \in 1..a.n : k = a.n \/ k \in 1..a.n - 1
        BY <3>1
      <4>4. \A k \in 1..a.n :
               \/ c.e[k] = a.e[k]
               \/ c.e[k] = "typed" /\ a.e[k] = "raw" /\ nodes'[exprs[k]].type # NoType
        BY <2>17, <4>1, <4>2, <4>3
      <4> QED
        BY <2>3, <3>1, <3>2, <4>1, <4>4 DEF Refits
    <3> QED
      BY <2>4, <3>3, <3>4
  <2>19. Moves /\ Then(<<>>) /\ UNCHANGED <<results, tables, status>>
    BY <1>2 DEF Moves
  <2> QED
    BY <2>1, <2>16, <2>18, <2>19, UpdateKeeps
<1>3. CASE Fail
  BY <1>3, FailKeeps
<1> QED
  BY <1>1, <1>2, <1>3 DEF SetType

------------------------------------------------------------------------------
(* The theorems. *)

LEMMA ParserStarts == Init => ParserInv
<1>1. SUFFICES ASSUME Init PROVE ParserInv
  OBVIOUS
<1>2. /\ tokens \in Start /\ at = 1 /\ todo = <<Since(1, "program", 0)>>
      /\ exprs = <<>> /\ types = <<>> /\ names = <<>> /\ nodes = <<>>
      /\ scope = <<<<>>>> /\ functions = <<>> /\ header = <<>> /\ status = "running"
  BY <1>1 DEF Init
<1>3. Since(1, "program", 0) \in Calls /\ Since(1, "program", 0).do = "program"
  <2>1. "program" \in Do /\ 1 \in Nat /\ 0 \in Nat
    BY DEF Do
  <2> QED
    BY <2>1, CallsAre
<1>4. PICK call : call = Since(1, "program", 0)
  OBVIOUS
<1>5. call \in Calls /\ call.do = "program" /\ todo = <<call>>
  BY <1>2, <1>3, <1>4
<1>6. <<call>> \in Seq(Calls)
  BY <1>5, ListsAre
<1>7. tokens \in Seq(Token \cup {EndOfFile}) /\ Len(tokens) \in Nat
  <2>1. tokens \in Seq(Token)
    BY <1>2, ParserAssumption
  <2> QED
    BY <2>1, SeqMonotonic, LenProperties
<1>8. scope \in Seq(Tables(FullType)) /\ Len(scope) = 1
  <2>1. PICK t : t = <<>>
    OBVIOUS
  <2>2. t \in Tables(FullType) /\ scope = <<t>>
    BY <1>2, <2>1, TablesAre
  <2> QED
    BY <2>2
<1>9. functions \in Tables(Function)
  BY <1>2, TablesAre
<1>10. TypeOK
  <2>1. /\ exprs \in Seq(Nat) /\ types \in Seq(FullType) /\ names \in Seq(Name)
        /\ nodes \in Seq(Node) /\ header \in Seq(Param)
    BY <1>2, EmptySeq
  <2>2. at \in Nat \ {0} /\ status \in {"running", "done", "failed"}
    BY <1>2
  <2>3. todo \in Seq(Calls)
    BY <1>5, <1>6
  <2> QED
    BY <1>7, <1>8, <1>9, <2>1, <2>2, <2>3 DEF TypeOK
<1>11. SourceInv
  <2>1. at <= Len(tokens) + 1 /\ 1..at - 1 = {}
    BY <1>2, <1>7
  <2> QED
    BY <2>1 DEF SourceInv
<1>12. Len(nodes) = 0 /\ Len(exprs) = 0 /\ Len(types) = 0 /\ Len(names) = 0 /\ 1..0 = {}
  BY <1>2, EmptySeq
<1>13. NodesInv
  BY <1>12 DEF NodesInv
<1>14. WorkInv
  <2> DEFINE a == [n |-> 0, e |-> [k \in Nat |-> "raw"], t |-> 0, m |-> 0, d |-> 1,
                   node |-> 0, typed |-> {}]
  <2>1. /\ a \in Layout /\ a.n = 0 /\ a.t = 0 /\ a.m = 0 /\ a.d = 1 /\ a.node = 0
        /\ a.typed = {}
    BY DEF Layout
  <2> HIDE DEF a
  <2>2. Fits(a)
    BY <1>8, <1>12, <2>1 DEF Fits
  <2>3. Takes(nodes, call, a, a)
    BY <1>5, <2>1 DEF Takes, Plain
  <2>4. Effect(nodes, <<call>>, a, a)
    BY <2>1, <2>3, EffectOne
  <2> QED
    BY <1>5, <2>1, <2>2, <2>4 DEF WorkInv
<1> QED
  BY <1>10, <1>11, <1>13, <1>14 DEF ParserInv

LEMMA ParserStep == ParserInv /\ [Next]_vars => ParserInv'
<1>1. SUFFICES ASSUME ParserInv, [Next]_vars PROVE ParserInv'
  OBVIOUS
<1>2. CASE Reveal \/ ExpectToken \/ BuildNode
  BY <1>1, <1>2, RevealKeeps, ExpectTokenKeeps, BuildNodeKeeps
<1>3. CASE Prefix \/ Primary \/ Parenthesis \/ Suffix \/ Subscripts
  BY <1>1, <1>3, PrefixKeeps, PrimaryKeeps, ParenthesisKeeps, SuffixKeeps, SubscriptsKeeps
<1>4. CASE Arguments \/ NextArgument \/ FunctionCall
  BY <1>1, <1>4, ArgumentsKeeps, NextArgumentKeeps, FunctionCallKeeps
<1>5. CASE BinaryOperator \/ AssignmentOperator \/ PostParse \/ SetType
  BY <1>1, <1>5, BinaryOperatorKeeps, AssignmentOperatorKeeps, PostParseKeeps, SetTypeKeeps
<1>6. CASE BasicType \/ DerivedType \/ ArrayType \/ Identifier
  BY <1>1, <1>6, BasicTypeKeeps, DerivedTypeKeeps, ArrayTypeKeeps, IdentifierKeeps
<1>7. CASE Statement \/ InitialValue \/ Declare \/ Block
  BY <1>1, <1>7, StatementKeeps, InitialValueKeeps, DeclareKeeps, BlockKeeps
<1>8. CASE Program \/ Parameters \/ NextParameter \/ Signature \/ Body
  BY <1>1, <1>8, ProgramKeeps, ParametersKeeps, NextParameterKeeps, SignatureKeeps, BodyKeeps
<1>9. CASE UNCHANGED vars
  <2>1. UNCHANGED <<tokens, at, todo, exprs, types, names, nodes, scope, functions, header, status>>
    BY <1>9 DEF vars, input, results, tables
  <2>2. TypeOK'
    BY <1>1, <2>1 DEF ParserInv, TypeOK
  <2>3. SourceInv' /\ NodesInv'
    BY <1>1, <2>1 DEF ParserInv, SourceInv, NodesInv
  <2>4. WorkInv'
    BY <1>1, <2>1 DEF ParserInv, WorkInv, Fits
  <2> QED
    BY <2>2, <2>3, <2>4 DEF ParserInv
<1> QED
  BY <1>1, <1>2, <1>3, <1>4, <1>5, <1>6, <1>7, <1>8, <1>9 DEF Next

\* The parser finds on its stacks whatever a function takes from them.
THEOREM WorkFits == Spec => []ParserInv
BY ParserStarts, ParserStep, PTL DEF Spec

\* Every token, node, type and table is what its user takes it for.
THEOREM TypeCorrect == Spec => []TypeOK
<1>1. ParserInv => TypeOK
  BY DEF ParserInv
<1> QED
  BY WorkFits, <1>1, PTL

\* The parser stops in front of the end of the source (parser.c:19-21).
THEOREM StopsInFront == Spec => []NeverPastEnd
<1>1. ParserInv => NeverPastEnd
  <2>1. SUFFICES ASSUME ParserInv PROVE EndOfFile \notin ToSet(SubSeq(tokens, 1, at - 1))
    BY DEF NeverPastEnd
  <2>2. /\ tokens \in Seq(Token \cup {EndOfFile}) /\ Len(tokens) \in Nat /\ at \in Nat /\ at >= 1
        /\ at <= Len(tokens) + 1 /\ \A k \in 1..at - 1 : tokens[k] # EndOfFile
    BY <2>1, LenProperties DEF ParserInv, TypeOK, SourceInv
  <2> DEFINE n == at - 1
             s == SubSeq(tokens, 1, n)
  <2>3. n \in Nat /\ n <= Len(tokens) /\ \A k \in 1..n : tokens[k] # EndOfFile
    BY <2>2
  <2> HIDE DEF n
  <2>4. \A k \in 1..n : k \in 1..Len(tokens) /\ tokens[k] \in Token \cup {EndOfFile}
    BY <2>2, <2>3, ElementOfSeq
  <2>5. /\ s \in Seq(Token \cup {EndOfFile})
        /\ Len(s) = IF 1 <= n THEN n - 1 + 1 ELSE 0
        /\ \A k \in 1..n - 1 + 1 : s[k] = tokens[1 + k - 1]
    BY <2>2, <2>3, <2>4, SubSeqProperties
  <2>6. Len(s) = n /\ \A k \in 1..n : s[k] = tokens[k]
    BY <2>3, <2>5
  <2>7. DOMAIN s = 1..n
    BY <2>5, <2>6, LenProperties
  <2> QED
    BY <2>3, <2>6, <2>7 DEF ToSet, n
<1> QED
  BY WorkFits, <1>1, PTL

\* "Run post-parse code to make sure the expression is fully initialized"
\* (expr_parser.c:177): every expression of a statement has its type, and so
\* has everything below it but a callee.
THEOREM ExpressionsInitialised == Spec => []FullyInitialised
<1>1. ParserInv => FullyInitialised
  <2>1. SUFFICES ASSUME ParserInv, NEW i \in DOMAIN nodes,
                        nodes[i].type # NoType \/ nodes[i].kind \in Statements,
                        NEW k \in Operand(nodes[i])
                 PROVE  nodes[k].type # NoType \/ nodes[k].kind \in Statements
    BY DEF FullyInitialised
  <2>2. TypeOK /\ NodesInv /\ i \in 1..Len(nodes)
    BY <2>1, LenProperties DEF ParserInv, TypeOK
  <2>3. Sound(nodes, nodes[i], i)
    BY <2>2, NodeIs
  <2> QED
    BY <2>1, <2>3 DEF Sound, OperandsTyped
<1> QED
  BY WorkFits, <1>1, PTL
================================================================================
