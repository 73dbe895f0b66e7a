---------------------------- MODULE ElfObjectProofs ----------------------------
(***************************************************************************)
(* The object file of ElfObject is consistent for every program: any       *)
(* number of functions, calls and strings, with names of any length.       *)
(*                                                                         *)
(* First the sums that offsets are made of, then the strings found at      *)
(* them, then the invariant: string k of .strtab is the name of symbol k,  *)
(* no string is there twice, and the functions finished so far are the     *)
(* first globals.                                                          *)
(***************************************************************************)
EXTENDS ElfObject, SequenceTheorems, WellFoundedInduction, TLAPS

------------------------------------------------------------------------------
(***************************************************************************)
(* Sums.  A sum is the last of its partial sums; they exist and are unique *)
(* because no number is the least for which they fail to.                  *)
(***************************************************************************)

LEMMA LeastNumber ==
    ASSUME NEW T, T \subseteq Nat, T # {}
    PROVE  \E n \in T : \A m \in T : n <= m
<1>1. PICK n \in T : \A m \in T : ~(<<m, n>> \in OpToRel(<, Nat))
  BY WFMin, NatLessThanWellFounded, Zenon
<1>2. \A m \in T : ~(m < n)
  BY <1>1 DEF OpToRel
<1>3. \A m \in T : m \in Nat /\ n \in Nat
  OBVIOUS
<1> QED
  BY <1>2, <1>3

\* g holds the sums of the first 0, 1, ... k numbers.
PartialSums(g, numbers, k) ==
    /\ g \in [0..k -> Nat]
    /\ g[0] = 0
    /\ \A n \in 1..k : g[n] = g[n - 1] + numbers[n]

LEMMA PartialSumsExist ==
    ASSUME NEW numbers \in Seq(Nat), NEW k \in 0..Len(numbers)
    PROVE  \E g : PartialSums(g, numbers, k)
<1> DEFINE T == {j \in 0..Len(numbers) : ~\E g : PartialSums(g, numbers, j)}
<1>1. SUFFICES ASSUME T # {} PROVE FALSE
  OBVIOUS
<1>2. T \subseteq Nat /\ Len(numbers) \in Nat
  BY LenProperties
<1>3. PICK j \in T : \A m \in T : j <= m
  <2> HIDE DEF T
  <2> QED
    BY <1>1, <1>2, LeastNumber
<1>4. CASE j = 0
  <2> DEFINE g == [n \in 0..0 |-> 0]
  <2>1. PartialSums(g, numbers, 0)
    BY DEF PartialSums
  <2> QED
    BY <1>4, <2>1
<1>5. CASE j # 0
  <2>1. j - 1 \in 0..Len(numbers) /\ j \in 1..Len(numbers) /\ j - 1 \notin T
    BY <1>2, <1>3, <1>5
  <2>2. PICK g : PartialSums(g, numbers, j - 1)
    BY <2>1
  <2>3. numbers[j] \in Nat
    BY <2>1, ElementOfSeq
  <2> DEFINE h == [n \in 0..j |-> IF n = j THEN g[j - 1] + numbers[j] ELSE g[n]]
  <2>4. g \in [0..j - 1 -> Nat] /\ g[0] = 0
        /\ \A n \in 1..j - 1 : g[n] = g[n - 1] + numbers[n]
    BY <2>2 DEF PartialSums
  <2>5. h \in [0..j -> Nat] /\ h[0] = 0
    BY <2>1, <2>3, <2>4
  <2>6. \A n \in 1..j : h[n] = h[n - 1] + numbers[n]
    <3> TAKE n \in 1..j
    <3>1. CASE n = j
      BY <2>1, <3>1
    <3>2. CASE n # j
      BY <2>1, <2>4, <3>2
    <3> QED
      BY <3>1, <3>2
  <2>7. PartialSums(h, numbers, j)
    <3> HIDE DEF h
    <3> QED
      BY <2>5, <2>6 DEF PartialSums
  <2> QED
    BY <2>7
<1> QED
  BY <1>4, <1>5

LEMMA PartialSumsAgree ==
    ASSUME NEW a, NEW b, NEW i \in Nat, NEW j \in Nat, NEW k \in Nat, k <= i, k <= j,
           NEW g, PartialSums(g, a, i), NEW h, PartialSums(h, b, j),
           \A n \in 1..k : a[n] = b[n]
    PROVE  g[k] = h[k]
<1> DEFINE T == {n \in 0..k : g[n] # h[n]}
<1>1. SUFFICES ASSUME T # {} PROVE FALSE
  OBVIOUS
<1>2. PICK n \in T : \A m \in T : n <= m
  <2>1. T \subseteq Nat
    OBVIOUS
  <2> HIDE DEF T
  <2> QED
    BY <1>1, <2>1, LeastNumber
<1>3. n # 0
  BY DEF PartialSums
<1>4. n \in 1..k /\ n - 1 \in 0..k /\ n - 1 \notin T
  BY <1>2, <1>3
<1>5. g[n - 1] = h[n - 1] /\ a[n] = b[n]
  BY <1>4
<1>6. n \in 1..i /\ n \in 1..j
  BY <1>4
<1>7. g[n] = g[n - 1] + a[n] /\ h[n] = h[n - 1] + b[n]
  BY <1>6 DEF PartialSums
<1> QED
  BY <1>2, <1>5, <1>7

LEMMA AddUpIsLast ==
    ASSUME NEW numbers \in Seq(Nat), NEW g, PartialSums(g, numbers, Len(numbers))
    PROVE  AddUp(numbers) = g[Len(numbers)]
<1>0. Len(numbers) \in Nat
  BY LenProperties
<1> DEFINE Def(s) == [n \in 0..Len(numbers) |-> IF n = 0 THEN 0 ELSE s[n - 1] + numbers[n]]
           sum == CHOOSE s : s = Def(s)
<1>1. g = Def(g)
  <2>1. \A n \in 0..Len(numbers) : n # 0 => n \in 1..Len(numbers)
    BY <1>0
  <2>2. \A n \in 0..Len(numbers) : g[n] = Def(g)[n]
    BY <2>1 DEF PartialSums
  <2>3. g \in [0..Len(numbers) -> Nat]
    BY DEF PartialSums
  <2> QED
    BY <2>2, <2>3
<1>2. sum = Def(sum)
  BY <1>1, Zenon
<1>3. AddUp(numbers) = sum[Len(numbers)]
  BY DEF AddUp
<1> HIDE DEF sum
<1>4. \A n \in 0..Len(numbers) : sum[n] = IF n = 0 THEN 0 ELSE sum[n - 1] + numbers[n]
  BY <1>2
<1> DEFINE T == {n \in 0..Len(numbers) : sum[n] # g[n]}
<1>5. T = {}
  <2> SUFFICES ASSUME T # {} PROVE FALSE
    OBVIOUS
  <2>1. PICK n \in T : \A m \in T : n <= m
    <3>1. T \subseteq Nat
      BY <1>0
    <3> HIDE DEF T
    <3> QED
      BY <3>1, LeastNumber
  <2>2. n # 0
    BY <1>0, <1>4 DEF PartialSums
  <2>3. n \in 1..Len(numbers) /\ n - 1 \in 0..Len(numbers) /\ n - 1 \notin T
    BY <1>0, <2>1, <2>2
  <2>4. sum[n - 1] = g[n - 1]
    BY <2>3
  <2>5. g[n] = g[n - 1] + numbers[n]
    BY <2>3 DEF PartialSums
  <2> QED
    BY <1>4, <2>1, <2>2, <2>4, <2>5
<1> QED
  BY <1>0, <1>3, <1>5

\* What AddUp is, without the function it is computed by.
LEMMA AddUpNone == AddUp(<<>>) = 0
<1>1. PartialSums([n \in 0..0 |-> 0], <<>>, 0)
  BY DEF PartialSums
<1>2. <<>> \in Seq(Nat) /\ Len(<<>>) = 0
  OBVIOUS
<1> QED
  BY <1>1, <1>2, AddUpIsLast

LEMMA AddUpOfPrefix ==
    ASSUME NEW numbers \in Seq(Nat), NEW k \in 0..Len(numbers),
           NEW g, PartialSums(g, numbers, Len(numbers))
    PROVE  /\ AddUp(SubSeq(numbers, 1, k)) = g[k]
           /\ SubSeq(numbers, 1, k) \in Seq(Nat)
<1>0. Len(numbers) \in Nat
  BY LenProperties
<1> DEFINE prefix == SubSeq(numbers, 1, k)
<1>1. /\ prefix \in Seq(Nat) /\ Len(prefix) = k
      /\ \A n \in 1..k : prefix[n] = numbers[n]
  <2>1. \A i \in 1..k : numbers[i] \in Nat
    BY <1>0, ElementOfSeq
  <2> QED
    BY <1>0, <2>1, SubSeqProperties
<1> HIDE DEF prefix
<1>2. PICK h : PartialSums(h, prefix, Len(prefix))
  BY <1>1, PartialSumsExist
<1>3. AddUp(prefix) = h[k]
  BY <1>1, <1>2, AddUpIsLast
<1>4. h[k] = g[k]
  <2>1. PartialSums(h, prefix, k) /\ k \in Nat /\ k <= Len(numbers)
        /\ \A n \in 1..k : prefix[n] = numbers[n]
    BY <1>0, <1>1, <1>2
  <2> QED
    BY <1>0, <2>1, PartialSumsAgree
<1> QED
  BY <1>1, <1>3, <1>4 DEF prefix

LEMMA AddUpType ==
    ASSUME NEW numbers \in Seq(Nat)
    PROVE  AddUp(numbers) \in Nat
<1>0. Len(numbers) \in Nat
  BY LenProperties
<1>1. PICK g : PartialSums(g, numbers, Len(numbers))
  BY <1>0, PartialSumsExist
<1>2. g[Len(numbers)] \in Nat
  BY <1>0, <1>1 DEF PartialSums
<1> QED
  BY <1>1, <1>2, AddUpIsLast

LEMMA AddUpStep ==
    ASSUME NEW numbers \in Seq(Nat), NEW k \in 1..Len(numbers)
    PROVE  AddUp(SubSeq(numbers, 1, k)) = AddUp(SubSeq(numbers, 1, k - 1)) + numbers[k]
<1>0. Len(numbers) \in Nat
  BY LenProperties
<1>1. PICK g : PartialSums(g, numbers, Len(numbers))
  BY <1>0, PartialSumsExist
<1>2. g[k] = g[k - 1] + numbers[k]
  BY <1>1 DEF PartialSums
<1>3. k \in 0..Len(numbers) /\ k - 1 \in 0..Len(numbers)
  BY <1>0
<1> QED
  BY <1>1, <1>2, <1>3, AddUpOfPrefix

\* Two sequences that begin alike have the same sums there.
LEMMA AddUpAgree ==
    ASSUME NEW a \in Seq(Nat), NEW b \in Seq(Nat), Len(a) <= Len(b),
           \A n \in 1..Len(a) : a[n] = b[n]
    PROVE  AddUp(a) = AddUp(SubSeq(b, 1, Len(a)))
<1>0. Len(a) \in Nat /\ Len(b) \in Nat
  BY LenProperties
<1>1. PICK g : PartialSums(g, a, Len(a))
  BY <1>0, PartialSumsExist
<1>2. PICK h : PartialSums(h, b, Len(b))
  BY <1>0, PartialSumsExist
<1>3. g[Len(a)] = h[Len(a)]
  BY <1>0, <1>1, <1>2, PartialSumsAgree
<1> QED
  BY <1>0, <1>1, <1>2, <1>3, AddUpIsLast, AddUpOfPrefix

LEMMA AddUpAppend ==
    ASSUME NEW numbers \in Seq(Nat), NEW n \in Nat
    PROVE  AddUp(Append(numbers, n)) = AddUp(numbers) + n
<1>0. Len(numbers) \in Nat
  BY LenProperties
<1> DEFINE more == Append(numbers, n)
<1>1. /\ more \in Seq(Nat) /\ Len(more) = Len(numbers) + 1
      /\ \A i \in 1..Len(numbers) : more[i] = numbers[i]
      /\ more[Len(numbers) + 1] = n
  BY AppendProperties
<1> HIDE DEF more
<1>2. AddUp(numbers) = AddUp(SubSeq(more, 1, Len(numbers)))
  BY <1>0, <1>1, AddUpAgree
<1>3. AddUp(SubSeq(more, 1, Len(more))) = AddUp(SubSeq(more, 1, Len(more) - 1)) + more[Len(more)]
  BY <1>0, <1>1, AddUpStep
<1>4. SubSeq(more, 1, Len(more)) = more
  <2>1. \A i \in 1..Len(more) : more[i] \in Nat
    BY <1>1, ElementOfSeq
  <2>2. /\ SubSeq(more, 1, Len(more)) \in Seq(Nat)
        /\ Len(SubSeq(more, 1, Len(more))) = Len(more)
        /\ \A i \in 1..Len(more) : SubSeq(more, 1, Len(more))[i] = more[i]
    BY <1>0, <1>1, <2>1, SubSeqProperties
  <2> QED
    BY <1>1, <2>2, SeqEqual
<1>5. AddUp(more) = AddUp(numbers) + n
  <2>1. Len(more) - 1 = Len(numbers) /\ more[Len(more)] = n
    BY <1>0, <1>1
  <2> QED
    BY <1>2, <1>3, <1>4, <2>1
<1> QED
  BY <1>5 DEF more

------------------------------------------------------------------------------
(***************************************************************************)
(* The bytes of a list of strings, and the string at an index.             *)
(***************************************************************************)

String == Name \cup {NoName, ".text", ".strtab", ".symtab", ".rodata", ".shstrtab",
                     ".rela.text"}

LEMMA NoNameDiffers ==
    NoName \notin {".text", ".strtab", ".symtab", ".rodata", ".shstrtab", ".rela.text"}
BY Zenon DEF NoName

LEMMA BytesType ==
    ASSUME NEW string \in String
    PROVE  Bytes(string) \in Nat \ {0}
<1>1. CASE string \in Name
  <2>1. NameLength[string] \in Nat \ {0}
    BY <1>1, ElfAssumption
  <2> QED
    BY <1>1, <2>1 DEF Bytes
<1>2. CASE string \notin Name
  <2>1. CASE string = NoName
    BY <1>2, <2>1, NoNameDiffers DEF Bytes
  <2>2. CASE string = ".text"
    BY <1>2, <2>2 DEF Bytes
  <2>3. CASE string \in {".strtab", ".symtab", ".rodata"}
    BY <1>2, <2>3 DEF Bytes
  <2>4. CASE string = ".shstrtab"
    BY <1>2, <2>4 DEF Bytes
  <2>5. CASE string = ".rela.text"
    BY <1>2, <2>5 DEF Bytes
  <2> QED
    BY <1>2, <2>1, <2>2, <2>3, <2>4, <2>5 DEF String
<1> QED
  BY <1>1, <1>2

\* The lengths of the strings of a list.
Lengths(list) == [i \in DOMAIN list |-> Bytes(list[i])]

LEMMA LengthsType ==
    ASSUME NEW list \in Seq(String)
    PROVE  /\ Lengths(list) \in Seq(Nat)
           /\ Len(Lengths(list)) = Len(list)
           /\ \A i \in 1..Len(list) : Lengths(list)[i] = Bytes(list[i])
<1>1. Len(list) \in Nat /\ DOMAIN list = 1..Len(list)
  BY LenProperties
<1>2. \A i \in 1..Len(list) : Bytes(list[i]) \in Nat
  BY BytesType, ElementOfSeq
<1> QED
  BY <1>1, <1>2 DEF Lengths

\* The bytes of the first k strings, in terms of the lengths of all.
LEMMA TotalOfPrefix ==
    ASSUME NEW list \in Seq(String), NEW k \in 0..Len(list)
    PROVE  /\ SubSeq(list, 1, k) \in Seq(String)
           /\ Len(SubSeq(list, 1, k)) = k
           /\ \A i \in 1..k : SubSeq(list, 1, k)[i] = list[i]
           /\ Total(SubSeq(list, 1, k)) = AddUp(SubSeq(Lengths(list), 1, k))
           /\ Total(SubSeq(list, 1, k)) \in Nat
<1>0. Len(list) \in Nat
  BY LenProperties
<1> DEFINE prefix == SubSeq(list, 1, k)
<1>1. /\ prefix \in Seq(String) /\ Len(prefix) = k
      /\ \A i \in 1..k : prefix[i] = list[i]
  <2>1. \A i \in 1..k : list[i] \in String
    BY <1>0, ElementOfSeq
  <2> QED
    BY <1>0, <2>1, SubSeqProperties
<1> HIDE DEF prefix
<1>2. Total(prefix) = AddUp(Lengths(prefix))
  BY DEF Total, Lengths
<1>3. /\ Lengths(prefix) \in Seq(Nat) /\ Len(Lengths(prefix)) = k
      /\ Lengths(list) \in Seq(Nat) /\ Len(Lengths(list)) = Len(list)
      /\ \A i \in 1..k : Lengths(prefix)[i] = Lengths(list)[i]
  <2>1. \A i \in 1..k : i \in 1..Len(list)
    BY <1>0
  <2> QED
    BY <1>0, <1>1, <2>1, LengthsType
<1>4. AddUp(Lengths(prefix)) = AddUp(SubSeq(Lengths(list), 1, k))
  <2> DEFINE a == Lengths(prefix)
             b == Lengths(list)
  <2>1. /\ a \in Seq(Nat) /\ Len(a) = k /\ b \in Seq(Nat) /\ Len(a) <= Len(b)
        /\ \A i \in 1..Len(a) : a[i] = b[i]
    BY <1>0, <1>3
  <2> HIDE DEF a, b
  <2>2. AddUp(a) = AddUp(SubSeq(b, 1, Len(a)))
    BY <2>1, AddUpAgree
  <2>3. AddUp(a) = AddUp(SubSeq(b, 1, k))
    BY <2>1, <2>2
  <2> QED
    BY <2>3 DEF a, b
<1>5. AddUp(Lengths(prefix)) \in Nat
  BY <1>3, AddUpType
<1> QED
  BY <1>1, <1>2, <1>4, <1>5 DEF prefix

LEMMA WholePrefix ==
    ASSUME NEW S, NEW list \in Seq(S)
    PROVE  SubSeq(list, 1, Len(list)) = list
<1>0. Len(list) \in Nat
  BY LenProperties
<1>1. \A i \in 1..Len(list) : list[i] \in S
  BY ElementOfSeq
<1>2. /\ SubSeq(list, 1, Len(list)) \in Seq(S)
      /\ Len(SubSeq(list, 1, Len(list))) = Len(list)
      /\ \A i \in 1..Len(list) : SubSeq(list, 1, Len(list))[i] = list[i]
  BY <1>0, <1>1, SubSeqProperties
<1> QED
  BY <1>2, SeqEqual

LEMMA TotalType ==
    ASSUME NEW list \in Seq(String)
    PROVE  Total(list) \in Nat
BY LengthsType, AddUpType DEF Total, Lengths

LEMMA TotalStep ==
    ASSUME NEW list \in Seq(String), NEW k \in 1..Len(list)
    PROVE  Total(SubSeq(list, 1, k)) = Total(SubSeq(list, 1, k - 1)) + Bytes(list[k])
<1>0. Len(list) \in Nat
  BY LenProperties
<1>1. k \in 0..Len(list) /\ k - 1 \in 0..Len(list)
  BY <1>0
<1>2. /\ Lengths(list) \in Seq(Nat) /\ Len(Lengths(list)) = Len(list)
      /\ Lengths(list)[k] = Bytes(list[k])
  BY LengthsType
<1>3. AddUp(SubSeq(Lengths(list), 1, k)) = AddUp(SubSeq(Lengths(list), 1, k - 1)) + Bytes(list[k])
  BY <1>2, AddUpStep
<1> QED
  BY <1>1, <1>3, TotalOfPrefix

LEMMA TotalAppend ==
    ASSUME NEW list \in Seq(String), NEW string \in String
    PROVE  Total(Append(list, string)) = Total(list) + Bytes(string)
<1>0. Len(list) \in Nat
  BY LenProperties
<1> DEFINE more == Append(list, string)
<1>1. /\ more \in Seq(String) /\ Len(more) = Len(list) + 1
      /\ \A i \in 1..Len(list) : more[i] = list[i]
      /\ more[Len(list) + 1] = string
  BY AppendProperties
<1> HIDE DEF more
<1>2. Lengths(more) = Append(Lengths(list), Bytes(string))
  <2>1. /\ Lengths(more) \in Seq(Nat) /\ Len(Lengths(more)) = Len(list) + 1
        /\ \A i \in 1..Len(list) + 1 : Lengths(more)[i] = Bytes(more[i])
    BY <1>1, LengthsType
  <2>2. /\ Lengths(list) \in Seq(Nat) /\ Len(Lengths(list)) = Len(list)
        /\ \A i \in 1..Len(list) : Lengths(list)[i] = Bytes(list[i])
    BY LengthsType
  <2>3. Bytes(string) \in Nat
    BY BytesType
  <2> DEFINE right == Append(Lengths(list), Bytes(string))
  <2>4. /\ right \in Seq(Nat) /\ Len(right) = Len(list) + 1
        /\ \A i \in 1..Len(list) : right[i] = Bytes(list[i])
        /\ right[Len(list) + 1] = Bytes(string)
    BY <2>2, <2>3, AppendProperties
  <2> HIDE DEF right
  <2>5. \A i \in 1..Len(list) + 1 : Lengths(more)[i] = right[i]
    <3> TAKE i \in 1..Len(list) + 1
    <3>1. i \in 1..Len(list) \/ i = Len(list) + 1
      BY <1>0
    <3> QED
      BY <1>1, <2>1, <2>4, <3>1
  <2>6. Lengths(more) = right
    BY <2>1, <2>4, <2>5, SeqEqual
  <2> QED
    BY <2>6 DEF right
<1>3. AddUp(Lengths(more)) = AddUp(Lengths(list)) + Bytes(string)
  BY <1>2, BytesType, LengthsType, AddUpAppend
<1>4. Total(more) = AddUp(Lengths(more)) /\ Total(list) = AddUp(Lengths(list))
  BY DEF Total, Lengths
<1> QED
  BY <1>3, <1>4 DEF more

\* A prefix of what was a prefix before a string was added.
LEMMA PrefixOfAppend ==
    ASSUME NEW S, NEW list \in Seq(S), NEW x \in S, NEW k \in 0..Len(list)
    PROVE  SubSeq(Append(list, x), 1, k) = SubSeq(list, 1, k)
<1>0. Len(list) \in Nat
  BY LenProperties
<1> DEFINE more == Append(list, x)
<1>1. /\ more \in Seq(S) /\ Len(more) = Len(list) + 1
      /\ \A i \in 1..Len(list) : more[i] = list[i]
  BY AppendProperties
<1> HIDE DEF more
<1>2. \A i \in 1..k : list[i] \in S /\ more[i] \in S /\ more[i] = list[i]
  BY <1>0, <1>1, ElementOfSeq
<1>3. /\ SubSeq(list, 1, k) \in Seq(S) /\ Len(SubSeq(list, 1, k)) = k
      /\ \A i \in 1..k : SubSeq(list, 1, k)[i] = list[i]
  BY <1>0, <1>2, SubSeqProperties
<1>4. /\ SubSeq(more, 1, k) \in Seq(S) /\ Len(SubSeq(more, 1, k)) = k
      /\ \A i \in 1..k : SubSeq(more, 1, k)[i] = more[i]
  BY <1>0, <1>2, SubSeqProperties
<1>5. SubSeq(more, 1, k) = SubSeq(list, 1, k)
  BY <1>2, <1>3, <1>4, SeqEqual
<1> QED
  BY <1>5 DEF more

\* Every string has at least its NUL, so each starts behind the one before.
LEMMA TotalsGrow ==
    ASSUME NEW list \in Seq(String), NEW i \in 0..Len(list), NEW j \in 0..Len(list), i < j
    PROVE  Total(SubSeq(list, 1, i)) < Total(SubSeq(list, 1, j))
<1>0. Len(list) \in Nat
  BY LenProperties
<1> DEFINE T == {k \in i + 1..Len(list) :
                    ~(Total(SubSeq(list, 1, i)) < Total(SubSeq(list, 1, k)))}
<1>1. SUFFICES ASSUME T # {} PROVE FALSE
  BY <1>0
<1>2. PICK k \in T : \A m \in T : k <= m
  <2>1. T \subseteq Nat
    BY <1>0
  <2> HIDE DEF T
  <2> QED
    BY <1>1, <2>1, LeastNumber
<1>3. k \in 1..Len(list) /\ k - 1 \in 0..Len(list) /\ k - 1 \notin T
  BY <1>0, <1>2
<1>4. Total(SubSeq(list, 1, k)) = Total(SubSeq(list, 1, k - 1)) + Bytes(list[k])
  BY <1>3, TotalStep
<1>5. Bytes(list[k]) \in Nat \ {0}
  BY <1>3, ElementOfSeq, BytesType
<1>6. /\ Total(SubSeq(list, 1, i)) \in Nat /\ Total(SubSeq(list, 1, k - 1)) \in Nat
      /\ Total(SubSeq(list, 1, k)) \in Nat
  BY <1>0, <1>3, TotalOfPrefix
<1>7. CASE k = i + 1
  BY <1>2, <1>4, <1>5, <1>6, <1>7
<1>8. CASE k # i + 1
  <2>1. k - 1 \in i + 1..Len(list)
    BY <1>0, <1>2, <1>8
  <2>2. Total(SubSeq(list, 1, i)) < Total(SubSeq(list, 1, k - 1))
    BY <1>3, <2>1
  <2> QED
    BY <1>2, <1>4, <1>5, <1>6, <2>2
<1> QED
  BY <1>7, <1>8

\* The string that was stored at an index is the one read back there
\* (elf_strtab_section_get_string after elf_strtab_section_add_string).
LEMMA ReadsBack ==
    ASSUME NEW list \in Seq(String), NEW i \in 1..Len(list)
    PROVE  GetString(list, AddedAt(SubSeq(list, 1, i - 1))) = Whole(list[i])
<1>0. Len(list) \in Nat /\ DOMAIN list = 1..Len(list)
  BY LenProperties
<1> DEFINE End(k) == Total(SubSeq(list, 1, k))
           index == End(i - 1)
           Ends == {k \in DOMAIN list : End(k) > index}
           first == CHOOSE k \in Ends : \A m \in Ends : k <= m
<1>1. \A k \in 0..Len(list) : End(k) \in Nat
  BY TotalOfPrefix
<1>2. i \in 0..Len(list) /\ i - 1 \in 0..Len(list)
  BY <1>0
<1>3. i \in Ends
  <2>1. index < End(i)
    BY <1>2, TotalsGrow
  <2> QED
    BY <1>0, <1>1, <1>2, <2>1
<1>4. \A k \in Ends : i <= k
  <2> TAKE k \in Ends
  <2>1. SUFFICES ASSUME k < i PROVE FALSE
    BY <1>0
  <2>2. k \in 1..Len(list) /\ k \in 0..Len(list) /\ End(k) > index
    BY <1>0
  <2>3. k = i - 1 \/ k < i - 1
    BY <2>1, <2>2
  <2>4. CASE k = i - 1
    BY <1>1, <1>2, <2>2, <2>4
  <2>5. CASE k < i - 1
    <3>1. End(k) < End(i - 1)
      BY <1>2, <2>2, <2>5, TotalsGrow
    <3> QED
      BY <1>1, <1>2, <2>2, <3>1
  <2> QED
    BY <2>3, <2>4, <2>5
<1>5. Ends \subseteq Int
  BY <1>0
<1>6. first = i
  <2> HIDE DEF Ends
  <2>1. \A m \in Ends : i <= m
    BY <1>4
  <2>2. first \in Ends /\ \A m \in Ends : first <= m
    BY <1>3, <2>1
  <2>3. i \in Ends /\ Ends \subseteq Int
    BY <1>3, <1>5
  <2> HIDE DEF first
  <2> QED
    BY <2>1, <2>2, <2>3
<1>7. GetString(list, index) =
        IF Ends = {} THEN [string |-> "NULL", skip |-> 0]
        ELSE [string |-> list[first], skip |-> index - End(first - 1)]
  BY DEF GetString
<1>8. Ends # {} /\ index - End(first - 1) = 0
  <2> HIDE DEF Ends, first, End
  <2> QED
    BY <1>1, <1>2, <1>3, <1>6
<1>9. GetString(list, index) = [string |-> list[i], skip |-> 0]
  <2> HIDE DEF Ends, first, End
  <2> QED
    BY <1>6, <1>7, <1>8
<1> QED
  BY <1>9 DEF Whole, AddedAt

------------------------------------------------------------------------------
(***************************************************************************)
(* The invariant.                                                          *)
(***************************************************************************)

\* One string for each symbol, in the same order, and no string twice.
SymbolsInv ==
    /\ locals = <<EmptySymbol, SectionSymbol(Text, <<NoName>>),
                  SectionSymbol(RoData, <<NoName, ".text">>)>>
    /\ Len(strtab) = Len(globals) + 3
    /\ strtab[1] = NoName /\ strtab[2] = ".text" /\ strtab[3] = ".rodata"
    /\ \A i \in 4..Len(strtab) : strtab[i] \in Name
    /\ \A i, j \in 1..Len(strtab) : strtab[i] = strtab[j] => i = j
    /\ \A k \in 1..Len(globals) :
          globals[k].name = AddedAt(SubSeq(strtab, 1, k + 2))

\* The finished functions have the first globals; what is added behind them
\* is undefined.
FunctionsInv ==
    /\ Len(blocks) <= Len(globals)
    /\ phase = "compile" => Len(blocks) = Len(globals)
    /\ \A k \in 1..Len(blocks) :
          /\ strtab[k + 3] = blocks[k].name
          /\ globals[k].shndx = Text
          /\ globals[k].size = blocks[k].size
          /\ globals[k].value = CodeBytes(SubSeq(blocks, 1, k - 1))
    /\ \A k \in Len(blocks) + 1..Len(globals) : globals[k].shndx = Undefined

\* The relocations whose symbol the first pass over them has seen to.
Declared ==
    CASE phase = "compile" -> {}
      [] phase = "symbols" -> 1..at - 1
      [] OTHER -> 1..Len(pending)

EntriesInv ==
    /\ phase \in {"symbols", "relocations"} => at \in 1..Len(pending) + 1
    /\ \A i \in Declared : \E j \in 1..Len(strtab) : strtab[j] = pending[i]
    /\ Len(entries) = CASE phase \in {"compile", "symbols"} -> 0
                        [] phase = "relocations" -> at - 1
                        [] OTHER -> Len(pending)
    /\ \A i \in 1..Len(entries) :
          /\ entries[i] + 1 \in 1..Len(strtab)
          /\ strtab[entries[i] + 1] = pending[i]

\* HeadersDescribeContents, section by section.
Sized == /\ size[Undefined] = 0
         /\ size[ShStrTab] = Total(ShStrings)
         /\ size[StrTab] = Total(strtab)
         /\ size[SymTab] = EntryBytes * Len(Symbols)
         /\ size[Text] = CodeBytes(blocks)
         /\ size[RoData] = AddUp(rodata)
         /\ size[RelaText] = EntryBytes * Len(entries)
         /\ info = Len(locals)

\* The sizes of the sections, from the empty one on.
AllSizes == [i \in 1..Len(SectionNames) + 1 |-> size[i - 1]]

\* The sections before the loop's index lie behind each other in the buffer.
LayoutInv ==
    /\ phase \in {"compile", "symbols", "relocations"} => written = <<>>
    /\ phase = "write" => at \in 0..Len(SectionNames) + 1
    /\ phase = "done" => at = Len(SectionNames) + 1
    /\ phase \in {"write", "done"} =>
          /\ bufferSize = HeadersEnd + SumSizes
          /\ Cursor = HeadersEnd + AddUp(SubSeq(AllSizes, 1, at))
          /\ Cursor = IF written = <<>> THEN HeadersEnd
                      ELSE written[Len(written)].start + written[Len(written)].bytes
          /\ \A s \in Sections : s < at /\ size[s] # 0 =>
                \E i \in 1..Len(written) : written[i].section = s
          /\ \A i \in 1..Len(written) :
                /\ written[i].section < at
                /\ written[i].start = offset[written[i].section]
                /\ written[i].bytes = size[written[i].section]
                /\ written[i].start =
                      IF i = 1 THEN HeadersEnd
                      ELSE written[i - 1].start + written[i - 1].bytes

IInv == /\ TypeOK
        /\ Sized
        /\ SymbolsInv
        /\ FunctionsInv
        /\ EntriesInv
        /\ LayoutInv

------------------------------------------------------------------------------
(***************************************************************************)
(* What the invariant says of the symbol table.                            *)
(***************************************************************************)

LEMMA SectionsAre ==
    /\ Len(SectionNames) = 6 /\ Sections = 0..6
    /\ ShStrings \in Seq(String) /\ Len(ShStrings) = 7
    /\ ShStrings[1] = NoName
    /\ \A s \in 1..6 : ShStrings[s + 1] = SectionNames[s]
<1>1. SectionNames \in Seq(String) /\ Len(SectionNames) = 6
  BY DEF SectionNames, String
<1>2. <<NoName>> \in Seq(String) /\ Len(<<NoName>>) = 1 /\ <<NoName>>[1] = NoName
  BY DEF String
<1>3. /\ ShStrings \in Seq(String)
      /\ Len(ShStrings) = Len(<<NoName>>) + Len(SectionNames)
      /\ \A i \in 1..Len(<<NoName>>) + Len(SectionNames) :
            ShStrings[i] = IF i <= Len(<<NoName>>) THEN <<NoName>>[i] ELSE SectionNames[i - Len(<<NoName>>)]
  <2> HIDE DEF SectionNames
  <2> QED
    BY <1>1, <1>2, ConcatProperties DEF ShStrings
<1>4. \A s \in 1..6 : ShStrings[s + 1] = SectionNames[s]
  <2> TAKE s \in 1..6
  <2>1. s + 1 \in 1..7 /\ ~(s + 1 <= 1) /\ s + 1 - 1 = s
    OBVIOUS
  <2> QED
    BY <1>1, <1>2, <1>3, <2>1
<1> QED
  BY <1>1, <1>2, <1>3, <1>4 DEF Sections

\* The strings .strtab may hold are among those with a length.
LEMMA NamesAreStrings ==
    ASSUME strtab \in Seq(Name \cup {NoName, ".text", ".rodata"})
    PROVE  strtab \in Seq(String)
<1>1. Len(strtab) \in Nat /\ DOMAIN strtab = 1..Len(strtab)
      /\ strtab \in [1..Len(strtab) -> Name \cup {NoName, ".text", ".rodata"}]
  BY LenProperties
<1>2. strtab \in [1..Len(strtab) -> String]
  BY <1>1 DEF String
<1> QED
  BY <1>1, <1>2

LEMMA FirstPrefixes ==
    ASSUME NEW list \in Seq(String), Len(list) >= 3, list[1] = NoName, list[2] = ".text"
    PROVE  /\ Total(SubSeq(list, 1, 0)) = 0
           /\ SubSeq(list, 1, 1) = <<NoName>>
           /\ SubSeq(list, 1, 2) = <<NoName, ".text">>
<1>0. Len(list) \in Nat
  BY LenProperties
<1>1. SubSeq(list, 1, 0) = <<>>
  BY SubSeqEmpty
<1>2. Total(<<>>) = 0
  <2>1. [i \in DOMAIN <<>> |-> Bytes(<<>>[i])] = <<>>
    OBVIOUS
  <2> QED
    BY <2>1, AddUpNone DEF Total
<1>3. SubSeq(list, 1, 1) = <<NoName>>
  <2>1. /\ SubSeq(list, 1, 1) \in Seq(String) /\ Len(SubSeq(list, 1, 1)) = 1
        /\ \A i \in 1..1 : SubSeq(list, 1, 1)[i] = list[i]
    BY <1>0, TotalOfPrefix
  <2>2. <<NoName>> \in Seq(String) /\ Len(<<NoName>>) = 1 /\ <<NoName>>[1] = NoName
    BY DEF String
  <2>3. \A i \in 1..1 : SubSeq(list, 1, 1)[i] = <<NoName>>[i]
    BY <2>1, <2>2
  <2> QED
    BY <2>1, <2>2, <2>3, SeqEqual
<1>4. SubSeq(list, 1, 2) = <<NoName, ".text">>
  <2>1. /\ SubSeq(list, 1, 2) \in Seq(String) /\ Len(SubSeq(list, 1, 2)) = 2
        /\ \A i \in 1..2 : SubSeq(list, 1, 2)[i] = list[i]
    BY <1>0, TotalOfPrefix
  <2>2. /\ <<NoName, ".text">> \in Seq(String) /\ Len(<<NoName, ".text">>) = 2
        /\ <<NoName, ".text">>[1] = NoName /\ <<NoName, ".text">>[2] = ".text"
    BY DEF String
  <2>3. \A i \in 1..2 : SubSeq(list, 1, 2)[i] = <<NoName, ".text">>[i]
    BY <2>1, <2>2
  <2> QED
    BY <2>1, <2>2, <2>3, SeqEqual
<1> QED
  BY <1>1, <1>2, <1>3, <1>4

LEMMA SymbolsAre ==
    ASSUME TypeOK, SymbolsInv
    PROVE  /\ Symbols \in Seq(Symbol)
           /\ Len(Symbols) = Len(strtab) /\ DOMAIN Symbols = 1..Len(strtab)
           /\ Symbols[1] = EmptySymbol
           /\ Symbols[2] = SectionSymbol(Text, <<NoName>>)
           /\ Symbols[3] = SectionSymbol(RoData, <<NoName, ".text">>)
           /\ \A k \in 1..Len(globals) : Symbols[k + 3] = globals[k]
           /\ \A i \in 1..Len(strtab) : SymbolName(Symbols[i]) = Whole(strtab[i])
<1>0. /\ Len(strtab) \in Nat /\ Len(globals) \in Nat /\ Len(strtab) = Len(globals) + 3
      /\ strtab \in Seq(String) /\ globals \in Seq(Symbol) /\ locals \in Seq(Symbol)
  BY NamesAreStrings, LenProperties DEF TypeOK, SymbolsInv
<1>1. Len(locals) = 3 /\ locals[1] = EmptySymbol
      /\ locals[2] = SectionSymbol(Text, <<NoName>>)
      /\ locals[3] = SectionSymbol(RoData, <<NoName, ".text">>)
  BY DEF SymbolsInv
<1>2. /\ Symbols \in Seq(Symbol)
      /\ Len(Symbols) = Len(locals) + Len(globals)
      /\ \A i \in 1..Len(locals) + Len(globals) :
            Symbols[i] = IF i <= Len(locals) THEN locals[i] ELSE globals[i - Len(locals)]
  BY <1>0, ConcatProperties DEF Symbols
<1>3. \A k \in 1..Len(globals) : Symbols[k + 3] = globals[k]
  <2> TAKE k \in 1..Len(globals)
  <2>1. k + 3 \in 1..Len(locals) + Len(globals) /\ ~(k + 3 <= Len(locals)) /\ k + 3 - Len(locals) = k
    BY <1>0, <1>1
  <2> QED
    BY <1>2, <2>1
<1>4. /\ Symbols[1] = EmptySymbol
      /\ Symbols[2] = SectionSymbol(Text, <<NoName>>)
      /\ Symbols[3] = SectionSymbol(RoData, <<NoName, ".text">>)
  BY <1>0, <1>1, <1>2
<1>5. Len(Symbols) = Len(strtab) /\ DOMAIN Symbols = 1..Len(strtab)
  BY <1>0, <1>1, <1>2, LenProperties
<1>6. \A i \in 1..Len(strtab) : Symbols[i].name = AddedAt(SubSeq(strtab, 1, i - 1))
  <2> TAKE i \in 1..Len(strtab)
  <2>1. /\ Total(SubSeq(strtab, 1, 0)) = 0
        /\ SubSeq(strtab, 1, 1) = <<NoName>>
        /\ SubSeq(strtab, 1, 2) = <<NoName, ".text">>
    BY <1>0, FirstPrefixes DEF SymbolsInv
  <2>2. i = 1 \/ i = 2 \/ i = 3 \/ i - 3 \in 1..Len(globals)
    BY <1>0
  <2>3. CASE i = 1
    BY <1>4, <2>1, <2>3 DEF EmptySymbol, AddedAt
  <2>4. CASE i = 2
    <3>1. SubSeq(strtab, 1, i - 1) = <<NoName>>
      BY <2>1, <2>4
    <3>2. SectionSymbol(Text, <<NoName>>).name = AddedAt(<<NoName>>)
      BY DEF SectionSymbol
    <3>3. Symbols[i] = SectionSymbol(Text, <<NoName>>)
      BY <1>4, <2>4
    <3> QED
      BY <3>1, <3>2, <3>3
  <2>5. CASE i = 3
    <3>1. SubSeq(strtab, 1, i - 1) = <<NoName, ".text">>
      BY <2>1, <2>5
    <3>2. SectionSymbol(RoData, <<NoName, ".text">>).name = AddedAt(<<NoName, ".text">>)
      BY DEF SectionSymbol
    <3>3. Symbols[i] = SectionSymbol(RoData, <<NoName, ".text">>)
      BY <1>4, <2>5
    <3> QED
      BY <3>1, <3>2, <3>3
  <2>6. CASE i - 3 \in 1..Len(globals)
    <3> DEFINE k == i - 3
    <3>1. k \in 1..Len(globals) /\ k + 3 = i /\ k + 2 = i - 1
      BY <1>0, <2>6
    <3>2. globals[k].name = AddedAt(SubSeq(strtab, 1, k + 2))
      BY <3>1 DEF SymbolsInv
    <3> QED
      BY <1>3, <3>1, <3>2
  <2> QED
    BY <2>2, <2>3, <2>4, <2>5, <2>6
<1>7. \A i \in 1..Len(strtab) : SymbolName(Symbols[i]) = Whole(strtab[i])
  BY <1>0, <1>6, ReadsBack DEF SymbolName
<1> QED
  BY <1>2, <1>3, <1>4, <1>5, <1>7

\* find_symbol finds the position of a name in .strtab, or nothing.
LEMMA FindIs ==
    ASSUME TypeOK, SymbolsInv, NEW name
    PROVE  /\ \A j \in 1..Len(strtab) : strtab[j] = name => Find(name) = j - 1
           /\ (\A j \in 1..Len(strtab) : strtab[j] # name) => Find(name) = -1
<1>0. Len(strtab) \in Nat
  BY LenProperties DEF TypeOK
<1>1. Matching(name) = {j \in 1..Len(strtab) : strtab[j] = name}
  BY SymbolsAre DEF Matching, Whole
<1>2. ASSUME NEW j \in 1..Len(strtab), strtab[j] = name
      PROVE  Find(name) = j - 1
  <2>1. Matching(name) = {j}
    BY <1>1, <1>2 DEF SymbolsInv
  <2> DEFINE i == CHOOSE k \in Matching(name) : \A l \in Matching(name) : k <= l
  <2>2. i = j
    BY <1>0, <2>1
  <2> HIDE DEF i
  <2>3. Find(name) = IF Matching(name) = {} THEN -1 ELSE i - 1
    BY DEF Find, i
  <2> QED
    BY <2>1, <2>2, <2>3
<1>3. ASSUME \A j \in 1..Len(strtab) : strtab[j] # name
      PROVE  Find(name) = -1
  <2>1. Matching(name) = {}
    BY <1>1, <1>3
  <2> QED
    BY <2>1 DEF Find
<1> QED
  BY <1>2, <1>3

------------------------------------------------------------------------------
(***************************************************************************)
(* Code blocks, and the sizes in the headers.                              *)
(***************************************************************************)

Block == [name : Name, size : Nat]

LEMMA CodeBytesAppend ==
    ASSUME NEW list \in Seq(Block), NEW b \in Block
    PROVE  /\ CodeBytes(list) \in Nat
           /\ CodeBytes(Append(list, b)) = CodeBytes(list) + b.size
<1>0. Len(list) \in Nat /\ DOMAIN list = 1..Len(list)
  BY LenProperties
<1> DEFINE more == Append(list, b)
           before == [i \in DOMAIN list |-> list[i].size]
           after == [i \in DOMAIN more |-> more[i].size]
<1>1. /\ more \in Seq(Block) /\ Len(more) = Len(list) + 1 /\ DOMAIN more = 1..Len(list) + 1
      /\ \A i \in 1..Len(list) : more[i] = list[i]
      /\ more[Len(list) + 1] = b
  BY AppendProperties, LenProperties
<1>2. \A i \in 1..Len(list) : list[i].size \in Nat
  <2>1. \A i \in 1..Len(list) : list[i] \in Block
    BY ElementOfSeq
  <2> QED
    BY <2>1 DEF Block
<1>3. b.size \in Nat
  BY DEF Block
<1>4. /\ before \in Seq(Nat) /\ Len(before) = Len(list)
      /\ \A i \in 1..Len(list) : before[i] = list[i].size
  BY <1>0, <1>2
<1> HIDE DEF more
<1>5. /\ after \in Seq(Nat) /\ Len(after) = Len(list) + 1
      /\ \A i \in 1..Len(list) : after[i] = list[i].size
      /\ after[Len(list) + 1] = b.size
  <2>1. \A i \in 1..Len(list) + 1 : more[i].size \in Nat
    <3> TAKE i \in 1..Len(list) + 1
    <3>1. i \in 1..Len(list) \/ i = Len(list) + 1
      BY <1>0
    <3> QED
      BY <1>1, <1>2, <1>3, <3>1
  <2> QED
    BY <1>0, <1>1, <2>1
<1>6. CodeBytes(list) = AddUp(before) /\ CodeBytes(more) = AddUp(after)
  BY DEF CodeBytes
<1> HIDE DEF before, after
<1>7. after = Append(before, b.size)
  <2> DEFINE right == Append(before, b.size)
  <2>1. /\ right \in Seq(Nat) /\ Len(right) = Len(list) + 1
        /\ \A i \in 1..Len(list) : right[i] = list[i].size
        /\ right[Len(list) + 1] = b.size
    BY <1>3, <1>4, AppendProperties
  <2> HIDE DEF right
  <2>2. \A i \in 1..Len(list) + 1 : after[i] = right[i]
    <3> TAKE i \in 1..Len(list) + 1
    <3>1. i \in 1..Len(list) \/ i = Len(list) + 1
      BY <1>0
    <3> QED
      BY <1>5, <2>1, <3>1
  <2>3. after = right
    BY <1>5, <2>1, <2>2, SeqEqual
  <2> QED
    BY <2>3 DEF right
<1>8. AddUp(before) \in Nat /\ AddUp(after) = AddUp(before) + b.size
  BY <1>3, <1>4, <1>7, AddUpType, AddUpAppend
<1> QED
  BY <1>6, <1>8 DEF more

LEMMA SizedIs == HeadersDescribeContents <=> Sized
<1>1. \A s \in Sections : s \in {0, 1, 2, 3, 4, 5, 6}
  BY SectionsAre
<1>2. {0, 1, 2, 3, 4, 5, 6} \subseteq Sections
  BY SectionsAre
<1>3. /\ ContentBytes(0) = 0 /\ ContentBytes(1) = Total(ShStrings)
      /\ ContentBytes(2) = Total(strtab)
      /\ ContentBytes(3) = EntryBytes * Len(Symbols)
      /\ ContentBytes(4) = CodeBytes(blocks) /\ ContentBytes(5) = AddUp(rodata)
      /\ ContentBytes(6) = EntryBytes * Len(entries)
  BY DEF ContentBytes, Undefined, ShStrTab, StrTab, SymTab, Text, RoData, RelaText
<1> QED
  BY <1>1, <1>2, <1>3 DEF HeadersDescribeContents, Sized, Undefined, ShStrTab, StrTab,
     SymTab, Text, RoData, RelaText

------------------------------------------------------------------------------
(***************************************************************************)
(* What a new global symbol changes.                                       *)
(***************************************************************************)

\* The name at the end of .strtab, its symbol at the end of the globals, and
\* headers that count both.
GlobalIsAdded(name, shndx, value, bytes, extra) ==
    /\ strtab' \in Seq(Name \cup {NoName, ".text", ".rodata"})
    /\ globals' \in Seq(Symbol)
    /\ size' \in [Sections -> Nat]
    /\ Len(strtab') = Len(strtab) + 1
    /\ \A i \in 1..Len(strtab) : strtab'[i] = strtab[i]
    /\ strtab'[Len(strtab) + 1] = name
    /\ Len(globals') = Len(globals) + 1
    /\ \A k \in 1..Len(globals) : globals'[k] = globals[k]
    /\ globals'[Len(globals) + 1] = [name |-> AddedAt(strtab), shndx |-> shndx,
                                     value |-> value, size |-> bytes]
    /\ SymbolsInv'
    /\ \A s \in Sections \ {StrTab, SymTab} : size'[s] = size[s] + extra[s]
    /\ size'[StrTab] = Total(strtab')
    /\ size'[SymTab] = EntryBytes * Len(Symbols')

LEMMA GlobalAdded ==
    ASSUME TypeOK, SymbolsInv, Sized, locals' = locals,
           NEW name \in Name, \A j \in 1..Len(strtab) : strtab[j] # name,
           NEW shndx \in Sections, NEW value \in Nat, NEW bytes \in Nat,
           NEW extra \in [Sections -> Nat], extra[StrTab] = 0, extra[SymTab] = 0,
           AddGlobal(name, shndx, value, bytes, extra)
    PROVE  GlobalIsAdded(name, shndx, value, bytes, extra)
<1> DEFINE new == [name |-> AddedAt(strtab), shndx |-> shndx, value |-> value, size |-> bytes]
           Stored == Name \cup {NoName, ".text", ".rodata"}
<1>0. /\ strtab \in Seq(Stored) /\ strtab \in Seq(String) /\ globals \in Seq(Symbol)
      /\ size \in [Sections -> Nat] /\ locals \in Seq(Symbol)
      /\ Len(strtab) \in Nat /\ Len(globals) \in Nat /\ Len(strtab) = Len(globals) + 3
  BY NamesAreStrings, LenProperties DEF TypeOK, SymbolsInv
<1>1. name \in Stored /\ name \in String
  BY DEF String
<1>2. new \in Symbol
  BY <1>0, TotalType DEF Symbol, AddedAt
<1>3. /\ strtab' = Append(strtab, name)
      /\ strtab' \in Seq(Stored) /\ Len(strtab') = Len(strtab) + 1
      /\ \A i \in 1..Len(strtab) : strtab'[i] = strtab[i]
      /\ strtab'[Len(strtab) + 1] = name
  BY <1>0, <1>1, AppendProperties DEF AddGlobal
<1>4. /\ globals' \in Seq(Symbol) /\ Len(globals') = Len(globals) + 1
      /\ \A k \in 1..Len(globals) : globals'[k] = globals[k]
      /\ globals'[Len(globals) + 1] = new
  <2>1. globals' = Append(globals, new)
    BY DEF AddGlobal
  <2> HIDE DEF new
  <2> QED
    BY <1>0, <1>2, <2>1, AppendProperties
<1>5. /\ size' \in [Sections -> Nat]
      /\ size'[StrTab] = size[StrTab] + Bytes(name)
      /\ size'[SymTab] = size[SymTab] + EntryBytes
      /\ \A s \in Sections \ {StrTab, SymTab} : size'[s] = size[s] + extra[s]
  <2>1. Bytes(name) \in Nat
    BY <1>1, BytesType
  <2>2. StrTab \in Sections /\ SymTab \in Sections /\ StrTab # SymTab
    BY SectionsAre DEF StrTab, SymTab
  <2>3. size' = [s \in Sections |-> CASE s = StrTab -> size[s] + Bytes(name)
                                      [] s = SymTab -> size[s] + EntryBytes
                                      [] OTHER -> size[s] + extra[s]]
    BY DEF AddGlobal, NameGrowth
  <2>4. size' \in [Sections -> Nat]
    <3>1. \A s \in Sections : /\ size[s] + Bytes(name) \in Nat /\ size[s] + EntryBytes \in Nat
                             /\ size[s] + extra[s] \in Nat
      <4>1. EntryBytes \in Nat
        BY DEF EntryBytes
      <4>2. \A s \in Sections : size[s] \in Nat /\ extra[s] \in Nat
        BY <1>0
      <4> QED
        BY <2>1, <4>1, <4>2
    <3> QED
      BY <2>3, <3>1
  <2> QED
    BY <2>2, <2>3, <2>4
<1>6. SymbolsInv'
  <2>1. locals' = <<EmptySymbol, SectionSymbol(Text, <<NoName>>),
                    SectionSymbol(RoData, <<NoName, ".text">>)>>
    BY DEF SymbolsInv
  <2>2. Len(strtab') = Len(globals') + 3
    BY <1>0, <1>3, <1>4
  <2>3. strtab'[1] = NoName /\ strtab'[2] = ".text" /\ strtab'[3] = ".rodata"
    BY <1>0, <1>3 DEF SymbolsInv
  <2>4. \A i \in 1..Len(strtab') : i \in 1..Len(strtab) \/ i = Len(strtab) + 1
    BY <1>0, <1>3
  <2>5. \A i \in 4..Len(strtab') : strtab'[i] \in Name
    <3> TAKE i \in 4..Len(strtab')
    <3>1. i \in 4..Len(strtab) \/ i = Len(strtab) + 1
      BY <1>0, <1>3
    <3>2. CASE i \in 4..Len(strtab)
      <4>1. i \in 1..Len(strtab)
        BY <1>0, <3>2
      <4> QED
        BY <1>3, <3>2, <4>1 DEF SymbolsInv
    <3> QED
      BY <1>3, <3>1, <3>2
  <2>6. ASSUME NEW i \in 1..Len(strtab'), NEW j \in 1..Len(strtab'), strtab'[i] = strtab'[j]
        PROVE  i = j
    <3>1. CASE i \in 1..Len(strtab) /\ j \in 1..Len(strtab)
      BY <1>3, <2>6, <3>1 DEF SymbolsInv
    <3>2. CASE i = Len(strtab) + 1 /\ j \in 1..Len(strtab)
      BY <1>3, <2>6, <3>2
    <3>3. CASE i \in 1..Len(strtab) /\ j = Len(strtab) + 1
      BY <1>3, <2>6, <3>3
    <3> QED
      BY <2>4, <3>1, <3>2, <3>3
  <2>7. ASSUME NEW k \in 1..Len(globals')
        PROVE  globals'[k].name = AddedAt(SubSeq(strtab', 1, k + 2))
    <3>1. k \in 1..Len(globals) \/ k = Len(globals) + 1
      BY <1>0, <1>4
    <3>2. CASE k \in 1..Len(globals)
      <4>1. k + 2 \in 0..Len(strtab)
        BY <1>0, <3>2
      <4>2. SubSeq(strtab', 1, k + 2) = SubSeq(strtab, 1, k + 2)
        BY <1>0, <1>1, <1>3, <4>1, PrefixOfAppend
      <4> QED
        BY <1>4, <3>2, <4>2 DEF SymbolsInv
    <3>3. CASE k = Len(globals) + 1
      <4>1. k + 2 = Len(strtab) /\ k + 2 \in 0..Len(strtab)
        BY <1>0, <3>3
      <4>2. SubSeq(strtab', 1, k + 2) = SubSeq(strtab, 1, k + 2)
        BY <1>0, <1>1, <1>3, <4>1, PrefixOfAppend
      <4>3. SubSeq(strtab, 1, k + 2) = strtab
        BY <1>0, <4>1, WholePrefix
      <4>4. globals'[k] = new /\ new.name = AddedAt(strtab)
        BY <1>4, <3>3
      <4> QED
        BY <4>2, <4>3, <4>4
    <3> QED
      BY <3>1, <3>2, <3>3
  <2> QED
    BY <2>1, <2>2, <2>3, <2>5, <2>6, <2>7 DEF SymbolsInv
<1>7. size'[StrTab] = Total(strtab')
  BY <1>0, <1>1, <1>3, <1>5, TotalAppend DEF Sized
<1>8. size'[SymTab] = EntryBytes * Len(Symbols')
  <2>1. Len(Symbols) = Len(strtab)
    BY SymbolsAre
  <2>2. Len(Symbols') = Len(strtab) + 1
    <3>1. Len(locals) \in Nat /\ Len(locals') = Len(locals)
      BY <1>0, LenProperties
    <3>2. Len(Symbols) = Len(locals) + Len(globals)
      BY <1>0, ConcatProperties DEF Symbols
    <3>3. Len(Symbols') = Len(locals) + Len(globals')
      <4>1. Symbols' = locals \o globals'
        BY DEF Symbols
      <4> QED
        BY <1>0, <1>4, <4>1, ConcatProperties
    <3> QED
      BY <1>0, <1>4, <2>1, <3>1, <3>2, <3>3
  <2>3. size[SymTab] = EntryBytes * Len(strtab)
    BY <2>1 DEF Sized
  <2> QED
    BY <1>0, <1>5, <2>2, <2>3 DEF EntryBytes
<1> QED
  BY <1>3, <1>4, <1>5, <1>6, <1>7, <1>8 DEF GlobalIsAdded

------------------------------------------------------------------------------
(***************************************************************************)
(* The invariant holds at first and every action keeps it.                 *)
(***************************************************************************)

LEMMA InitHolds == Init => IInv
<1> SUFFICES ASSUME Init PROVE IInv
  OBVIOUS
<1> USE DEF Init
<1> DEFINE Stored == Name \cup {NoName, ".text", ".rodata"}
<1>0. strtab \in Seq(Stored) /\ strtab \in Seq(String) /\ Len(strtab) = 3
      /\ strtab[1] = NoName /\ strtab[2] = ".text" /\ strtab[3] = ".rodata"
  BY DEF String
<1>1. /\ SubSeq(strtab, 1, 0) \in Seq(String) /\ SubSeq(strtab, 1, 1) = <<NoName>>
      /\ SubSeq(strtab, 1, 2) = <<NoName, ".text">> /\ Total(SubSeq(strtab, 1, 0)) = 0
  <2> HIDE DEF Init
  <2>1. 0 \in 0..Len(strtab) /\ Len(strtab) >= 3
    BY <1>0
  <2> QED
    BY <1>0, <2>1, FirstPrefixes, TotalOfPrefix
<1>2. Total(<<NoName>>) \in Nat /\ Total(<<NoName, ".text">>) \in Nat /\ Total(strtab) \in Nat
      /\ Total(ShStrings) \in Nat
  <2>1. <<NoName>> \in Seq(String) /\ <<NoName, ".text">> \in Seq(String)
    BY DEF String
  <2> QED
    BY <1>0, <2>1, SectionsAre, TotalType
<1>3. /\ EmptySymbol \in Symbol
      /\ SectionSymbol(Text, <<NoName>>) \in Symbol
      /\ SectionSymbol(RoData, <<NoName, ".text">>) \in Symbol
  BY <1>2, SectionsAre DEF Symbol, EmptySymbol, SectionSymbol, AddedAt, Text, RoData, Undefined
<1>4. size \in [Sections -> Nat]
  BY <1>2 DEF EntryBytes
<1>5. locals \in Seq(Symbol) /\ Len(locals) = 3
  BY <1>3
<1>6. TypeOK
  BY <1>0, <1>4, <1>5 DEF TypeOK
<1>7. SymbolsInv
  <2>1. \A i \in 1..3 : i = 1 \/ i = 2 \/ i = 3
    OBVIOUS
  <2>2. \A i, j \in 1..Len(strtab) : strtab[i] = strtab[j] => i = j
    <3> HIDE DEF Init
    <3> QED
      BY <1>0, <2>1, NoNameDiffers
  <2>3. Len(globals) = 0 /\ 1..0 = {} /\ 4..3 = {}
    OBVIOUS
  <2> QED
    BY <1>0, <2>2, <2>3 DEF SymbolsInv
<1>8. FunctionsInv
  BY DEF FunctionsInv
<1>9. EntriesInv
  BY DEF EntriesInv, Declared
<1>10. LayoutInv
  BY DEF LayoutInv
<1>11. Sized
  <2>1. Len(Symbols) = 3
    BY <1>0, <1>6, <1>7, SymbolsAre
  <2>2. CodeBytes(blocks) = 0
    <3>1. [i \in DOMAIN blocks |-> blocks[i].size] = <<>>
      OBVIOUS
    <3> QED
      BY <3>1, AddUpNone DEF CodeBytes
  <2>3. AddUp(rodata) = 0
    BY AddUpNone
  <2>4. /\ size[0] = 0 /\ size[1] = Total(ShStrings) /\ size[2] = Total(strtab)
        /\ size[3] = 3 * EntryBytes /\ size[4] = 0 /\ size[5] = 0 /\ size[6] = 0
    BY SectionsAre DEF ShStrTab, StrTab, SymTab
  <2>5. Len(entries) = 0 /\ info = Len(locals) /\ EntryBytes * 0 = 0
        /\ 3 * EntryBytes = EntryBytes * 3
    BY <1>5 DEF EntryBytes
  <2> HIDE DEF Init
  <2> QED
    BY <2>1, <2>2, <2>3, <2>4, <2>5 DEF Sized, Undefined, ShStrTab, StrTab, SymTab, Text,
       RoData, RelaText
<1> HIDE DEF Init
<1> QED
  BY <1>6, <1>7, <1>8, <1>9, <1>10, <1>11 DEF IInv

\* A relocation requested while functions are compiled.
LEMMA AddCallKeeps == ASSUME IInv, NEW name \in Name, AddCall(name) PROVE IInv'
<1> USE DEF AddCall, contents, layout
<1>1. TypeOK'
  <2>1. pending \in Seq(Name \cup {".rodata"}) /\ name \in Name \cup {".rodata"}
    BY DEF IInv, TypeOK
  <2>2. /\ pending' \in Seq(Name \cup {".rodata"}) /\ Len(pending') = Len(pending) + 1
        /\ Len(pending) \in Nat
    BY <2>1, AppendProperties, LenProperties
  <2> QED
    BY <2>2 DEF IInv, TypeOK
<1>2. Sized'
  BY DEF IInv, Sized, Symbols
<1>3. SymbolsInv'
  BY DEF IInv, SymbolsInv
<1>4. FunctionsInv'
  BY DEF IInv, FunctionsInv
<1>5. EntriesInv'
  BY DEF IInv, EntriesInv, Declared
<1>6. LayoutInv'
  BY DEF IInv, LayoutInv
<1> QED
  BY <1>1, <1>2, <1>3, <1>4, <1>5, <1>6 DEF IInv

LEMMA AddStringKeeps == ASSUME IInv, NEW n \in StringSizes, AddString(n) PROVE IInv'
<1> USE DEF AddString, contents, layout
<1>0. n \in Nat /\ rodata \in Seq(Nat) /\ size \in [Sections -> Nat] /\ RoData \in Sections
  BY ElfAssumption, SectionsAre DEF IInv, TypeOK, RoData
<1>a. /\ size' \in [Sections -> Nat] /\ size'[RoData] = size[RoData] + n
      /\ \A s \in Sections \ {RoData} : size'[s] = size[s]
  BY <1>0
<1>b. rodata' \in Seq(Nat)
  BY <1>0, AppendProperties
<1>1. TypeOK'
  <2>1. pending \in Seq(Name \cup {".rodata"}) /\ ".rodata" \in Name \cup {".rodata"}
    BY DEF IInv, TypeOK
  <2>2. /\ pending' \in Seq(Name \cup {".rodata"}) /\ Len(pending') = Len(pending) + 1
        /\ Len(pending) \in Nat
    BY <2>1, AppendProperties, LenProperties
  <2>3. adjusted' \in 0..Len(pending')
    BY <2>2 DEF IInv, TypeOK
  <2>4. UNCHANGED <<strtab, locals, globals, blocks, entries, info, offset, bufferSize,
                    written, phase, at>>
    OBVIOUS
  <2> HIDE DEF AddString
  <2> QED
    BY <1>a, <1>b, <2>2, <2>3, <2>4 DEF IInv, TypeOK
<1>2. Sized'
  <2>1. AddUp(rodata') = AddUp(rodata) + n
    BY <1>0, AddUpAppend
  <2>2. \A s \in {0, 1, 2, 3, 4, 6} : size'[s] = size[s]
    <3>1. \A s \in {0, 1, 2, 3, 4, 6} : s \in Sections /\ s # RoData
      BY SectionsAre DEF RoData
    <3> QED
      BY <1>a, <3>1
  <2>3. Symbols' = Symbols /\ UNCHANGED <<strtab, blocks, entries, info, locals>>
    BY DEF Symbols
  <2> HIDE DEF AddString
  <2> QED
    BY <1>a, <2>1, <2>2, <2>3 DEF IInv, Sized, Undefined, ShStrTab, StrTab, SymTab, Text,
       RelaText
<1>3. SymbolsInv'
  BY DEF IInv, SymbolsInv
<1>4. FunctionsInv'
  BY DEF IInv, FunctionsInv
<1>5. EntriesInv'
  BY DEF IInv, EntriesInv, Declared
<1>6. LayoutInv'
  BY DEF IInv, LayoutInv
<1> QED
  BY <1>1, <1>2, <1>3, <1>4, <1>5, <1>6 DEF IInv

\* A finished function: the next block and the next global are its own.
LEMMA AddCodeBlockKeeps ==
    ASSUME IInv, NEW name \in Name, NEW n \in BlockSizes, AddCodeBlock(name, n)
    PROVE  IInv'
<1> DEFINE extra == [NoExtra EXCEPT ![Text] = n]
           block == [name |-> name, size |-> n]
<1>0. /\ phase = "compile" /\ name \in Unfinished /\ phase' = phase
      /\ AddGlobal(name, Text, size[Text], n, extra)
      /\ blocks' = Append(blocks, block) /\ adjusted' = Len(pending)
      /\ UNCHANGED <<locals, rodata, pending, entries, info, layout, at>>
  BY DEF AddCodeBlock
<1>1. /\ blocks \in Seq(Block) /\ globals \in Seq(Symbol) /\ Len(globals) \in Nat
      /\ Len(blocks) = Len(globals) /\ Len(strtab) = Len(globals) + 3
      /\ DOMAIN blocks = 1..Len(blocks)
      /\ size \in [Sections -> Nat]
  BY <1>0, LenProperties DEF IInv, TypeOK, Block, FunctionsInv, SymbolsInv
<1>2. n \in Nat /\ block \in Block /\ Text \in Sections /\ size[Text] \in Nat
  BY <1>1, ElfAssumption, SectionsAre DEF Block, Text
<1>3. \A j \in 1..Len(strtab) : strtab[j] # name
  <2> TAKE j \in 1..Len(strtab)
  <2>1. j = 1 \/ j = 2 \/ j = 3 \/ j - 3 \in 1..Len(blocks)
    BY <1>1
  <2>2. CASE j - 3 \in 1..Len(blocks)
    <3>1. strtab[j - 3 + 3] = blocks[j - 3].name /\ j - 3 + 3 = j
      BY <2>2 DEF IInv, FunctionsInv
    <3>2. blocks[j - 3].name # name
      BY <1>0, <1>1, <2>2 DEF Unfinished
    <3> QED
      BY <3>1, <3>2
  <2>3. name \notin {NoName, ".text", ".rodata"}
    BY ElfAssumption
  <2> QED
    BY <2>1, <2>2, <2>3 DEF IInv, SymbolsInv
<1>4. /\ extra \in [Sections -> Nat] /\ extra[Text] = n
      /\ \A s \in Sections \ {Text} : extra[s] = 0
  BY <1>2 DEF NoExtra
<1>5. extra[StrTab] = 0 /\ extra[SymTab] = 0
  BY <1>4, SectionsAre DEF StrTab, SymTab, Text
<1>6. /\ strtab' \in Seq(Name \cup {NoName, ".text", ".rodata"})
      /\ globals' \in Seq(Symbol)
      /\ size' \in [Sections -> Nat]
      /\ Len(strtab') = Len(strtab) + 1
      /\ \A i \in 1..Len(strtab) : strtab'[i] = strtab[i]
      /\ strtab'[Len(strtab) + 1] = name
      /\ Len(globals') = Len(globals) + 1
      /\ \A k \in 1..Len(globals) : globals'[k] = globals[k]
      /\ globals'[Len(globals) + 1] = [name |-> AddedAt(strtab), shndx |-> Text,
                                       value |-> size[Text], size |-> n]
      /\ SymbolsInv'
      /\ \A s \in Sections \ {StrTab, SymTab} : size'[s] = size[s] + extra[s]
      /\ size'[StrTab] = Total(strtab')
      /\ size'[SymTab] = EntryBytes * Len(Symbols')
  <2>1. TypeOK /\ SymbolsInv /\ Sized /\ locals' = locals
    BY <1>0 DEF IInv
  <2>2. GlobalIsAdded(name, Text, size[Text], n, extra)
    <3> HIDE DEF extra
    <3> QED
      BY <1>0, <1>2, <1>3, <1>4, <1>5, <2>1, GlobalAdded
  <2> HIDE DEF extra
  <2> QED
    BY <2>2 DEF GlobalIsAdded
<1> HIDE DEF extra, block
<1>7. /\ blocks' \in Seq(Block) /\ Len(blocks') = Len(blocks) + 1
      /\ \A k \in 1..Len(blocks) : blocks'[k] = blocks[k]
      /\ blocks'[Len(blocks) + 1] = block
  BY <1>0, <1>1, <1>2, AppendProperties
<1>8. CodeBytes(blocks') = CodeBytes(blocks) + n
  BY <1>0, <1>1, <1>2, CodeBytesAppend DEF block
<1>9. TypeOK'
  <2>1. adjusted' \in 0..Len(pending')
    BY <1>0, LenProperties DEF IInv, TypeOK
  <2> QED
    BY <1>0, <1>6, <1>7, <2>1 DEF IInv, TypeOK, Block, layout
<1>10. Sized'
  <2>1. /\ size'[0] = size[0] /\ size'[1] = size[1] /\ size'[4] = size[4] + n
        /\ size'[5] = size[5] /\ size'[6] = size[6]
    <3>1. \A s \in {0, 1, 5, 6} : size'[s] = size[s] + extra[s] /\ extra[s] = 0 /\ size[s] \in Nat
      <4>1. \A s \in {0, 1, 5, 6} : s \in Sections /\ s # StrTab /\ s # SymTab /\ s # Text
        BY SectionsAre DEF StrTab, SymTab, Text
      <4> QED
        BY <1>1, <1>4, <1>6, <4>1
    <3>2. size'[4] = size[4] + extra[4] /\ extra[4] = n
      <4>1. 4 \in Sections /\ 4 # StrTab /\ 4 # SymTab /\ 4 = Text
        BY SectionsAre DEF StrTab, SymTab, Text
      <4> QED
        BY <1>4, <1>6, <4>1
    <3> QED
      BY <3>1, <3>2
  <2> QED
    BY <1>0, <1>6, <1>8, <2>1 DEF IInv, Sized, Undefined, ShStrTab, Text, RoData, RelaText
<1>11. FunctionsInv'
  <2>1. Len(blocks') = Len(globals')
    BY <1>1, <1>6, <1>7
  <2>2. ASSUME NEW k \in 1..Len(blocks')
        PROVE  /\ strtab'[k + 3] = blocks'[k].name
               /\ globals'[k].shndx = Text
               /\ globals'[k].size = blocks'[k].size
               /\ globals'[k].value = CodeBytes(SubSeq(blocks', 1, k - 1))
    <3>1. k \in 1..Len(blocks) \/ k = Len(blocks) + 1
      BY <1>1, <1>7
    <3>2. CASE k \in 1..Len(blocks)
      <4>1. k + 3 \in 1..Len(strtab) /\ k \in 1..Len(globals) /\ k - 1 \in 0..Len(blocks)
        BY <1>1, <3>2
      <4>2. SubSeq(blocks', 1, k - 1) = SubSeq(blocks, 1, k - 1)
        BY <1>0, <1>1, <1>2, <4>1, PrefixOfAppend
      <4>3. /\ strtab[k + 3] = blocks[k].name /\ globals[k].shndx = Text
            /\ globals[k].size = blocks[k].size
            /\ globals[k].value = CodeBytes(SubSeq(blocks, 1, k - 1))
        BY <3>2 DEF IInv, FunctionsInv
      <4> QED
        BY <1>6, <1>7, <3>2, <4>1, <4>2, <4>3
    <3>3. CASE k = Len(blocks) + 1
      <4>1. k - 1 \in 0..Len(blocks) /\ k - 1 = Len(blocks) /\ k + 3 = Len(strtab) + 1
            /\ k = Len(globals) + 1
        BY <1>1, <3>3
      <4>2. SubSeq(blocks', 1, k - 1) = SubSeq(blocks, 1, k - 1)
        BY <1>0, <1>1, <1>2, <4>1, PrefixOfAppend
      <4>3. SubSeq(blocks, 1, k - 1) = blocks
        BY <1>1, <4>1, WholePrefix
      <4>4. size[Text] = CodeBytes(blocks)
        BY DEF IInv, Sized
      <4>5. strtab'[k + 3] = name /\ blocks'[k] = block
        BY <1>6, <1>7, <3>3, <4>1
      <4>6. globals'[k] = [name |-> AddedAt(strtab), shndx |-> Text,
                           value |-> size[Text], size |-> n]
        BY <1>6, <4>1
      <4>7. block.name = name /\ block.size = n
        BY DEF block
      <4>8. globals'[k].shndx = Text /\ globals'[k].value = size[Text] /\ globals'[k].size = n
        BY <4>6
      <4> QED
        BY <4>2, <4>3, <4>4, <4>5, <4>7, <4>8
    <3> QED
      BY <3>1, <3>2, <3>3
  <2>3. Len(blocks') + 1..Len(globals') = {} /\ Len(blocks') <= Len(globals')
    BY <1>1, <1>7, <2>1
  <2> QED
    BY <2>1, <2>2, <2>3 DEF FunctionsInv
<1>12. EntriesInv'
  BY <1>0 DEF IInv, EntriesInv, Declared
<1>13. LayoutInv'
  BY <1>0 DEF IInv, LayoutInv, layout
<1> QED
  BY <1>6, <1>9, <1>10, <1>11, <1>12, <1>13 DEF IInv

\* The steps of elf_handler_dump and elf_dump that add nothing to the sections.
LEMMA SectionsKept ==
    ASSUME IInv, UNCHANGED <<contents, entries, size, info>>
    PROVE  Sized' /\ SymbolsInv' /\ (phase' # "compile" => FunctionsInv')
<1> USE DEF contents
<1>1. Sized'
  BY DEF IInv, Sized, Symbols
<1>2. SymbolsInv'
  BY DEF IInv, SymbolsInv
<1>3. phase' # "compile" => FunctionsInv'
  BY DEF IInv, FunctionsInv
<1> QED
  BY <1>1, <1>2, <1>3

LEMMA DumpKeeps == ASSUME IInv, Dump PROVE IInv'
<1> USE DEF Dump, StartPhase
<1>0. Len(pending) \in Nat
  BY LenProperties DEF IInv, TypeOK
<1>1. TypeOK'
  BY DEF IInv, TypeOK, contents, layout
<1>2. Sized' /\ SymbolsInv' /\ FunctionsInv'
  BY SectionsKept
<1>3. EntriesInv'
  <2>1. Declared' = {} /\ Len(entries') = 0 /\ 1 \in 1..Len(pending') + 1 /\ 1..0 = {}
    BY <1>0 DEF IInv, EntriesInv, Declared, contents
  <2> QED
    BY <2>1 DEF EntriesInv
<1>4. LayoutInv'
  BY DEF IInv, LayoutInv, layout
<1> QED
  BY <1>1, <1>2, <1>3, <1>4 DEF IInv

\* A relocation whose symbol is looked for, and added when there is none.
LEMMA AddRelocationSymbolKeeps == ASSUME IInv, AddRelocationSymbol PROVE IInv'
<1> USE DEF AddRelocationSymbol, layout
<1>0. /\ Len(pending) \in Nat /\ at \in 1..Len(pending) /\ phase = "symbols" /\ phase' = phase
      /\ pending[at] \in Name \cup {".rodata"} /\ at' = at + 1 /\ at \in Nat
      /\ Len(strtab) \in Nat /\ Len(blocks) \in Nat /\ Len(globals) \in Nat
      /\ UNCHANGED <<locals, blocks, rodata, pending, adjusted, entries, info, layout>>
  <2>1. at \in 1..Len(pending)
    BY LenProperties DEF IInv, TypeOK, EntriesInv
  <2> QED
    BY <2>1, ElementOfSeq, LenProperties DEF IInv, TypeOK
<1>1. /\ \A j \in 1..Len(strtab) : strtab[j] = pending[at] => Find(pending[at]) = j - 1
      /\ (\A j \in 1..Len(strtab) : strtab[j] # pending[at]) => Find(pending[at]) = -1
  BY FindIs DEF IInv
<1>2. LayoutInv'
  BY <1>0 DEF IInv, LayoutInv
<1>3. ASSUME /\ Len(strtab') >= Len(strtab) /\ Len(strtab') \in Nat
             /\ \A j \in 1..Len(strtab) : strtab'[j] = strtab[j],
             \E j \in 1..Len(strtab') : strtab'[j] = pending[at]
      PROVE  EntriesInv'
  <2>1. Declared' = 1..at /\ Declared = 1..at - 1
    BY <1>0 DEF Declared
  <2>2. \A i \in 1..at : i \in Declared \/ i = at
    BY <1>0, <2>1
  <2>3. \A i \in Declared : \E j \in 1..Len(strtab') : strtab'[j] = pending[i]
    <3>1. \A j \in 1..Len(strtab) : j \in 1..Len(strtab')
      BY <1>0, <1>3
    <3> QED
      BY <1>3, <3>1 DEF IInv, EntriesInv
  <2>4. \A i \in Declared' : \E j \in 1..Len(strtab') : strtab'[j] = pending'[i]
    BY <1>0, <1>3, <2>1, <2>2, <2>3
  <2>5. Len(entries') = 0 /\ at' \in 1..Len(pending') + 1 /\ 1..0 = {}
    BY <1>0 DEF IInv, EntriesInv
  <2> QED
    BY <1>0, <2>4, <2>5 DEF EntriesInv
<1>4. CASE Missing(pending[at])
  <2>1. \A j \in 1..Len(strtab) : strtab[j] # pending[at]
    <3> SUFFICES ASSUME NEW j \in 1..Len(strtab), strtab[j] = pending[at] PROVE FALSE
      OBVIOUS
    <3>1. Find(pending[at]) = j - 1 /\ Find(pending[at]) = -1
      BY <1>1, <1>4 DEF Missing
    <3> QED
      BY <3>1
  <2>2. pending[at] \in Name
    <3>1. 3 \in 1..Len(strtab) /\ strtab[3] = ".rodata"
      BY <1>0 DEF IInv, SymbolsInv
    <3> QED
      BY <1>0, <2>1, <3>1
  <2>3. AddGlobal(pending[at], Undefined, 0, 0, NoExtra)
    BY <1>4
  <2>4. /\ NoExtra \in [Sections -> Nat] /\ NoExtra[StrTab] = 0 /\ NoExtra[SymTab] = 0
        /\ Undefined \in Sections /\ 0 \in Nat
    BY SectionsAre DEF NoExtra, StrTab, SymTab, Undefined
  <2>5. GlobalIsAdded(pending[at], Undefined, 0, 0, NoExtra)
    <3>1. TypeOK /\ SymbolsInv /\ Sized /\ locals' = locals
      BY <1>0 DEF IInv
    <3> QED
      BY <2>1, <2>2, <2>3, <2>4, <3>1, GlobalAdded
  <2>6. /\ strtab' \in Seq(Name \cup {NoName, ".text", ".rodata"})
        /\ globals' \in Seq(Symbol) /\ size' \in [Sections -> Nat]
        /\ Len(strtab') = Len(strtab) + 1
        /\ \A i \in 1..Len(strtab) : strtab'[i] = strtab[i]
        /\ strtab'[Len(strtab) + 1] = pending[at]
        /\ Len(globals') = Len(globals) + 1
        /\ \A k \in 1..Len(globals) : globals'[k] = globals[k]
        /\ globals'[Len(globals) + 1].shndx = Undefined
        /\ SymbolsInv'
        /\ \A s \in Sections \ {StrTab, SymTab} : size'[s] = size[s] + 0
        /\ size'[StrTab] = Total(strtab')
        /\ size'[SymTab] = EntryBytes * Len(Symbols')
    BY <2>5 DEF GlobalIsAdded, NoExtra
  <2>7. TypeOK'
    <3>1. /\ strtab' \in Seq(Name \cup {NoName, ".text", ".rodata"})
          /\ globals' \in Seq(Symbol) /\ size' \in [Sections -> Nat]
      BY <2>6
    <3>2. at' \in Nat
      BY <1>0
    <3> QED
      BY <1>0, <3>1, <3>2 DEF IInv, TypeOK
  <2>8. Sized'
    <3>1. \A s \in {0, 1, 4, 5, 6} : s \in Sections /\ s # StrTab /\ s # SymTab
      BY SectionsAre DEF StrTab, SymTab
    <3>2. \A s \in Sections : size[s] \in Nat
      BY DEF IInv, TypeOK
    <3>3. ASSUME NEW s \in {0, 1, 4, 5, 6}
          PROVE  size'[s] = size[s]
      <4>1. size'[s] = size[s] + 0 /\ size[s] \in Nat
        BY <2>6, <3>1, <3>2
      <4> QED
        BY <4>1
    <3> QED
      BY <1>0, <2>6, <3>3 DEF IInv, Sized, Undefined, ShStrTab, Text, RoData, RelaText
  <2>9. FunctionsInv'
    <3>1. /\ Len(blocks) <= Len(globals) /\ Len(strtab) = Len(globals) + 3
      BY DEF IInv, FunctionsInv, SymbolsInv
    <3>2. \A k \in 1..Len(blocks) : k \in 1..Len(globals) /\ k + 3 \in 1..Len(strtab)
      BY <1>0, <3>1
    <3>3. \A k \in 1..Len(blocks) :
             /\ strtab'[k + 3] = blocks'[k].name /\ globals'[k].shndx = Text
             /\ globals'[k].size = blocks'[k].size
             /\ globals'[k].value = CodeBytes(SubSeq(blocks', 1, k - 1))
      BY <1>0, <2>6, <3>2 DEF IInv, FunctionsInv
    <3>4. \A k \in Len(blocks') + 1..Len(globals') : globals'[k].shndx = Undefined
      <4> TAKE k \in Len(blocks') + 1..Len(globals')
      <4>1. k = Len(globals) + 1 \/ (k \in Len(blocks) + 1..Len(globals) /\ k \in 1..Len(globals))
        BY <1>0, <2>6
      <4> QED
        BY <2>6, <4>1 DEF IInv, FunctionsInv
    <3> QED
      BY <1>0, <2>6, <3>1, <3>3, <3>4 DEF FunctionsInv
  <2>10. EntriesInv'
    <3>1. Len(strtab) + 1 \in 1..Len(strtab') /\ Len(strtab') \in Nat /\ Len(strtab') >= Len(strtab)
      BY <1>0, <2>6
    <3> QED
      BY <1>3, <2>6, <3>1
  <2> QED
    BY <1>2, <2>6, <2>7, <2>8, <2>9, <2>10 DEF IInv
<1>5. CASE ~Missing(pending[at])
  <2>1. UNCHANGED <<strtab, globals, size>>
    BY <1>5
  <2>2. TypeOK'
    BY <1>0, <2>1 DEF IInv, TypeOK
  <2>3. Sized' /\ SymbolsInv' /\ FunctionsInv'
    BY <1>0, <2>1, SectionsKept DEF contents
  <2>4. \E j \in 1..Len(strtab) : strtab[j] = pending[at]
    BY <1>1, <1>5 DEF Missing
  <2>5. EntriesInv'
    BY <1>0, <1>3, <2>1, <2>4
  <2> QED
    BY <1>2, <2>2, <2>3, <2>5 DEF IInv
<1> QED
  BY <1>4, <1>5

LEMMA StartRelocationsKeeps == ASSUME IInv, StartRelocations PROVE IInv'
<1> USE DEF StartRelocations, StartPhase, SecondPass
<1>0. Len(pending) \in Nat /\ at = Len(pending) + 1
  <2>1. at \in 1..Len(pending) + 1 /\ Len(pending) \in Nat
    BY LenProperties DEF IInv, TypeOK, EntriesInv
  <2> QED
    BY <2>1
<1>1. TypeOK'
  BY DEF IInv, TypeOK, contents, layout
<1>2. Sized' /\ SymbolsInv' /\ FunctionsInv'
  BY SectionsKept
<1>3. EntriesInv'
  <2>1. Declared' = 1..Len(pending) /\ Declared = 1..Len(pending)
    BY <1>0 DEF Declared, contents
  <2>2. Len(entries') = 0 /\ 1 \in 1..Len(pending') + 1 /\ 1..0 = {}
    BY <1>0 DEF IInv, EntriesInv, contents
  <2>3. UNCHANGED <<strtab, pending, entries>>
    BY DEF contents
  <2> QED
    BY <2>1, <2>2, <2>3 DEF IInv, EntriesInv
<1>4. LayoutInv'
  BY DEF IInv, LayoutInv, layout
<1> QED
  BY <1>1, <1>2, <1>3, <1>4 DEF IInv

\* The second pass finds a symbol for every relocation.
LEMMA AddRelocationKeeps == ASSUME IInv, AddRelocation PROVE IInv'
<1> USE DEF AddRelocation, contents
<1>0. /\ Len(pending) \in Nat /\ at \in 1..Len(pending) /\ phase = "relocations"
      /\ phase' = phase /\ at' = at + 1 /\ Len(entries) = at - 1 /\ entries \in Seq(Nat)
      /\ size \in [Sections -> Nat] /\ RelaText \in Sections /\ Len(strtab) \in Nat
      /\ DOMAIN entries = 1..Len(entries)
  <2>1. /\ pending \in Seq(Name \cup {".rodata"}) /\ entries \in Seq(Nat)
        /\ size \in [Sections -> Nat] /\ strtab \in Seq(Name \cup {NoName, ".text", ".rodata"})
    BY DEF IInv, TypeOK
  <2>2. /\ Len(pending) \in Nat /\ Len(strtab) \in Nat /\ DOMAIN entries = 1..Len(entries)
        /\ RelaText \in Sections
    <3>1. RelaText \in Sections
      BY SectionsAre DEF RelaText
    <3>2. Len(pending) \in Nat /\ Len(strtab) \in Nat
      BY <2>1, LenProperties
    <3>3. DOMAIN entries = 1..Len(entries)
      BY <2>1, LenProperties
    <3> QED
      BY <3>1, <3>2, <3>3
  <2>3. at \in 1..Len(pending) + 1 /\ Len(entries) = at - 1
    BY DEF IInv, EntriesInv
  <2> QED
    BY <2>1, <2>2, <2>3
<1>1. PICK j \in 1..Len(strtab) : strtab[j] = pending[at]
  BY <1>0 DEF IInv, EntriesInv, Declared
<1>2. Find(pending[at]) = j - 1 /\ j - 1 \in Nat
  BY <1>1, FindIs DEF IInv
<1>3. /\ entries' \in Seq(Nat) /\ Len(entries') = at
      /\ \A i \in 1..at - 1 : entries'[i] = entries[i]
      /\ entries'[at] = j - 1
  BY <1>0, <1>2, AppendProperties
<1>4. /\ size' \in [Sections -> Nat] /\ size'[RelaText] = size[RelaText] + EntryBytes
      /\ \A s \in Sections \ {RelaText} : size'[s] = size[s]
  BY <1>0 DEF EntryBytes
<1>5. TypeOK'
  <2>1. UNCHANGED <<strtab, locals, globals, blocks, rodata, pending, adjusted, info, offset,
                    bufferSize, written, phase>>
    BY <1>0 DEF layout
  <2>2. entries' \in Seq(Nat) /\ size' \in [Sections -> Nat] /\ at' \in Nat
    BY <1>0, <1>3, <1>4
  <2> HIDE DEF AddRelocation
  <2> QED
    BY <2>1, <2>2 DEF IInv, TypeOK
<1>6. Sized'
  <2>1. \A s \in {0, 1, 2, 3, 4, 5} : size'[s] = size[s]
    <3>1. \A s \in {0, 1, 2, 3, 4, 5} : s \in Sections /\ s # RelaText
      BY SectionsAre DEF RelaText
    <3> QED
      BY <1>4, <3>1
  <2>2. size'[RelaText] = EntryBytes * Len(entries')
    <3>1. size[RelaText] = EntryBytes * Len(entries)
      BY DEF IInv, Sized
    <3> QED
      BY <1>0, <1>3, <1>4, <3>1 DEF EntryBytes
  <2>3. Symbols' = Symbols /\ UNCHANGED <<strtab, blocks, rodata, info, locals>>
    BY DEF Symbols
  <2> QED
    BY <2>1, <2>2, <2>3 DEF IInv, Sized, Undefined, ShStrTab, StrTab, SymTab, Text, RoData
<1>7. SymbolsInv'
  BY DEF IInv, SymbolsInv
<1>8. FunctionsInv'
  BY <1>0 DEF IInv, FunctionsInv
<1>9. EntriesInv'
  <2>1. Declared' = Declared
    BY <1>0 DEF Declared
  <2>2. ASSUME NEW i \in 1..Len(entries')
        PROVE  entries'[i] + 1 \in 1..Len(strtab') /\ strtab'[entries'[i] + 1] = pending'[i]
    <3>1. i \in 1..Len(entries) \/ i = at
      BY <1>0, <1>3
    <3>2. CASE i \in 1..Len(entries)
      BY <1>0, <1>3, <3>2 DEF IInv, EntriesInv
    <3>3. CASE i = at
      <4>1. entries'[i] + 1 = j
        BY <1>3, <3>3
      <4> QED
        BY <1>1, <3>3, <4>1
    <3> QED
      BY <3>1, <3>2, <3>3
  <2>3. Len(entries') = at' - 1 /\ at' \in 1..Len(pending') + 1
    BY <1>0, <1>3
  <2>4. \A i \in Declared' : \E k \in 1..Len(strtab') : strtab'[k] = pending'[i]
    BY <2>1 DEF IInv, EntriesInv
  <2> QED
    BY <1>0, <2>2, <2>3, <2>4 DEF EntriesInv
<1>10. LayoutInv'
  BY <1>0 DEF IInv, LayoutInv, layout
<1> QED
  BY <1>5, <1>6, <1>7, <1>8, <1>9, <1>10 DEF IInv

------------------------------------------------------------------------------
(***************************************************************************)
(* elf_dump.                                                               *)
(***************************************************************************)

LEMMA SizesAre ==
    ASSUME TypeOK
    PROVE  /\ AllSizes \in Seq(Nat) /\ Len(AllSizes) = 7
           /\ \A s \in Sections : AllSizes[s + 1] = size[s]
           /\ SumSizes = AddUp(AllSizes) /\ SumSizes \in Nat
           /\ HeadersEnd \in Nat
<1>1. AllSizes \in [1..7 -> Nat] /\ AllSizes = [i \in 1..7 |-> size[i - 1]]
  <2>1. \A i \in 1..7 : i - 1 \in Sections
    BY SectionsAre
  <2> QED
    BY <2>1, SectionsAre DEF TypeOK, AllSizes
<1>3. AllSizes \in Seq(Nat) /\ Len(AllSizes) = 7
  BY <1>1
<1>4. SumSizes = AddUp(AllSizes)
  BY DEF SumSizes, AllSizes
<1>5. HeadersEnd \in Nat
  BY SectionsAre DEF HeadersEnd, HeaderBytes
<1>6. \A s \in Sections : AllSizes[s + 1] = size[s]
  <2> TAKE s \in Sections
  <2> DEFINE i == s + 1
  <2>1. i \in 1..7 /\ i - 1 = s
    <3>1. s \in 0..6
      BY SectionsAre
    <3> QED
      BY <3>1
  <2> HIDE DEF i
  <2>2. AllSizes[i] = size[s]
    BY <1>1, <2>1
  <2> QED
    BY <2>2 DEF i
<1>7. AddUp(AllSizes) \in Nat
  BY <1>3, AddUpType
<1> QED
  BY <1>3, <1>4, <1>5, <1>6, <1>7

\* The sizes of the sections that were written.
WrittenSizes == [i \in DOMAIN written |-> size[written[i].section]]

Written == [section : Sections, start : Nat, bytes : Nat]

LEMMA WrittenSizesType ==
    ASSUME TypeOK
    PROVE  /\ WrittenSizes \in Seq(Nat) /\ Len(WrittenSizes) = Len(written)
           /\ \A i \in 1..Len(written) : WrittenSizes[i] = size[written[i].section]
           /\ Cursor = HeadersEnd + AddUp(WrittenSizes) /\ Cursor \in Nat
<1>1. Len(written) \in Nat /\ DOMAIN written = 1..Len(written) /\ written \in Seq(Written)
  BY LenProperties DEF TypeOK, Written
<1>2. \A i \in 1..Len(written) : written[i] \in Written
  BY <1>1, ElementOfSeq
<1>3. \A i \in 1..Len(written) : size[written[i].section] \in Nat
  BY <1>2 DEF TypeOK, Written
<1>4. /\ WrittenSizes \in Seq(Nat) /\ Len(WrittenSizes) = Len(written)
      /\ \A i \in 1..Len(written) : WrittenSizes[i] = size[written[i].section]
  BY <1>1, <1>3 DEF WrittenSizes
<1>5. Cursor = HeadersEnd + AddUp(WrittenSizes)
  BY DEF Cursor, WrittenSizes
<1>6. AddUp(WrittenSizes) \in Nat /\ HeadersEnd \in Nat
  BY <1>4, AddUpType, SizesAre
<1> QED
  BY <1>4, <1>5, <1>6

LEMMA AllocateBufferKeeps == ASSUME IInv, AllocateBuffer PROVE IInv'
<1> USE DEF AllocateBuffer
<1>0. Len(pending) \in Nat /\ at \in 1..Len(pending) + 1 /\ at > Len(pending)
  BY LenProperties DEF IInv, TypeOK, EntriesInv
<1>1. SumSizes \in Nat /\ HeadersEnd \in Nat /\ AllSizes \in Seq(Nat)
  BY SizesAre DEF IInv
<1>2. TypeOK'
  <2>1. bufferSize' \in Nat /\ at' \in Nat
    BY <1>1
  <2> QED
    BY <2>1 DEF IInv, TypeOK, contents
<1>3. Sized' /\ SymbolsInv' /\ FunctionsInv'
  BY SectionsKept
<1>4. EntriesInv'
  <2>1. Declared' = 1..Len(pending) /\ Declared = 1..Len(pending)
    BY DEF Declared, contents
  <2>2. Len(entries') = Len(pending')
    BY <1>0 DEF IInv, EntriesInv, contents
  <2>3. UNCHANGED <<strtab, pending, entries>>
    BY DEF contents
  <2> QED
    BY <2>1, <2>2, <2>3 DEF IInv, EntriesInv
<1>5. LayoutInv'
  <2>1. written' = <<>>
    BY DEF IInv, LayoutInv
  <2>2. Cursor' = HeadersEnd
    <3>1. [i \in DOMAIN written' |-> size'[written'[i].section]] = <<>>
      BY <2>1
    <3>2. Cursor' = HeadersEnd + 0
      BY <3>1, AddUpNone DEF Cursor
    <3> QED
      BY <1>1, <3>2
  <2>3. AddUp(SubSeq(AllSizes', 1, at')) = 0
    <3>1. AllSizes' = AllSizes /\ at' = 0
      BY DEF AllSizes
    <3>2. SubSeq(AllSizes, 1, 0) = <<>>
      BY SubSeqEmpty
    <3> QED
      BY <3>1, <3>2, AddUpNone
  <2>4. bufferSize' = HeadersEnd + SumSizes' /\ at' = 0 /\ phase' = "write"
    BY DEF SumSizes
  <2>5. \A s \in Sections : ~(s < 0)
    BY SectionsAre
  <2>6. 1..Len(written') = {} /\ 0 \in 0..Len(SectionNames) + 1
    BY <2>1, SectionsAre
  <2>7. HeadersEnd + 0 = HeadersEnd
    BY <1>1
  <2> QED
    BY <2>1, <2>2, <2>3, <2>4, <2>5, <2>6, <2>7 DEF LayoutInv
<1> QED
  BY <1>2, <1>3, <1>4, <1>5 DEF IInv

\* One section of the second loop: it begins where the one before it ended.
LEMMA WriteSectionKeeps == ASSUME IInv, WriteSection PROVE IInv'
<1> USE DEF WriteSection
<1>0. /\ phase = "write" /\ phase' = "write" /\ at \in 0..6 /\ at \in Sections /\ at' = at + 1
      /\ UNCHANGED <<contents, entries, size, info, bufferSize>>
  BY SectionsAre
<1>1. /\ written \in Seq(Written) /\ Len(written) \in Nat /\ DOMAIN written = 1..Len(written)
      /\ size \in [Sections -> Nat] /\ offset \in [Sections -> Nat] /\ TypeOK
  BY LenProperties DEF IInv, TypeOK, Written
<1>2. /\ WrittenSizes \in Seq(Nat) /\ Len(WrittenSizes) = Len(written)
      /\ \A i \in 1..Len(written) : WrittenSizes[i] = size[written[i].section]
      /\ Cursor = HeadersEnd + AddUp(WrittenSizes) /\ Cursor \in Nat
  BY <1>1, WrittenSizesType
<1>3. /\ AllSizes \in Seq(Nat) /\ Len(AllSizes) = 7 /\ AllSizes[at + 1] = size[at]
      /\ HeadersEnd \in Nat
  BY <1>0, <1>1, SizesAre
<1>4. /\ Cursor = HeadersEnd + AddUp(SubSeq(AllSizes, 1, at))
      /\ Cursor = IF written = <<>> THEN HeadersEnd
                  ELSE written[Len(written)].start + written[Len(written)].bytes
      /\ bufferSize = HeadersEnd + SumSizes
      /\ \A s \in Sections : s < at /\ size[s] # 0 =>
            \E i \in 1..Len(written) : written[i].section = s
      /\ \A i \in 1..Len(written) :
            /\ written[i].section < at
            /\ written[i].start = offset[written[i].section]
            /\ written[i].bytes = size[written[i].section]
            /\ written[i].start = IF i = 1 THEN HeadersEnd
                                  ELSE written[i - 1].start + written[i - 1].bytes
  BY <1>0 DEF IInv, LayoutInv
<1>5. HeadersEnd + AddUp(SubSeq(AllSizes', 1, at')) = Cursor + size[at]
  <2> DEFINE k == at + 1
  <2>1. AllSizes' = AllSizes /\ k \in 1..Len(AllSizes) /\ k - 1 = at /\ AllSizes[k] = size[at]
    BY <1>0, <1>3 DEF AllSizes
  <2>2. AddUp(SubSeq(AllSizes, 1, at + 1)) = AddUp(SubSeq(AllSizes, 1, at)) + size[at]
    <3> HIDE DEF k
    <3>1. AddUp(SubSeq(AllSizes, 1, k)) = AddUp(SubSeq(AllSizes, 1, k - 1)) + AllSizes[k]
      BY <1>3, <2>1, AddUpStep
    <3>2. AddUp(SubSeq(AllSizes, 1, k)) = AddUp(SubSeq(AllSizes, 1, at)) + size[at]
      BY <2>1, <3>1
    <3> QED
      BY <3>2 DEF k
  <2>3. AddUp(SubSeq(AllSizes, 1, at)) \in Nat /\ size[at] \in Nat
    <3>1. \A i \in 1..at : AllSizes[i] \in Nat
      <4>1. \A i \in 1..at : i \in 1..7
        BY <1>0
      <4> QED
        BY <1>3, <4>1, ElementOfSeq
    <3>2. SubSeq(AllSizes, 1, at) \in Seq(Nat)
      BY <1>0, <3>1, SubSeqProperties
    <3> QED
      BY <1>0, <1>1, <3>2, AddUpType
  <2> QED
    BY <1>0, <1>3, <1>4, <2>1, <2>2, <2>3
<1>6. Sized' /\ SymbolsInv' /\ FunctionsInv'
  BY <1>0, SectionsKept
<1>7. EntriesInv'
  <2>1. Declared' = 1..Len(pending) /\ Declared = 1..Len(pending)
    BY <1>0 DEF Declared, contents
  <2>2. UNCHANGED <<strtab, pending, entries>>
    BY <1>0 DEF contents
  <2> QED
    BY <1>0, <2>1, <2>2 DEF IInv, EntriesInv
<1>8. CASE size[at] = 0
  <2>1. UNCHANGED <<offset, written>>
    BY <1>8
  <2>2. TypeOK'
    BY <1>0, <2>1 DEF IInv, TypeOK, contents
  <2>3. LayoutInv'
    <3>1. Cursor' = Cursor /\ SumSizes' = SumSizes
      BY <1>0, <2>1 DEF Cursor, SumSizes
    <3>2. HeadersEnd + AddUp(SubSeq(AllSizes', 1, at')) = Cursor
      BY <1>2, <1>5, <1>8
    <3>3. ASSUME NEW s \in Sections, s < at', size'[s] # 0
          PROVE  \E i \in 1..Len(written') : written'[i].section = s
      <4>1. s < at
        BY <1>0, <1>8, <3>3, SectionsAre
      <4> QED
        BY <1>0, <1>4, <2>1, <3>3, <4>1
    <3>4. ASSUME NEW i \in 1..Len(written')
          PROVE  /\ written'[i].section < at'
                 /\ written'[i].start = offset'[written'[i].section]
                 /\ written'[i].bytes = size'[written'[i].section]
                 /\ written'[i].start =
                       IF i = 1 THEN HeadersEnd
                       ELSE written'[i - 1].start + written'[i - 1].bytes
      <4>1. written[i] \in Written
        BY <1>1, <2>1, ElementOfSeq
      <4>2. written[i].section \in 0..6 /\ written[i].section < at
        BY <1>4, <2>1, <4>1, SectionsAre DEF Written
      <4>3. written'[i].section < at'
        BY <1>0, <2>1, <4>2
      <4> QED
        BY <1>0, <1>4, <2>1, <4>3
    <3>5. at' \in 0..Len(SectionNames) + 1
      BY <1>0, SectionsAre
    <3> QED
      BY <1>0, <1>4, <2>1, <3>1, <3>2, <3>3, <3>4, <3>5 DEF LayoutInv
  <2> QED
    BY <1>6, <1>7, <2>2, <2>3 DEF IInv
<1>9. CASE size[at] # 0
  <2> DEFINE new == [section |-> at, start |-> Cursor, bytes |-> ContentBytes(at)]
             last == Len(written) + 1
  <2>1. ContentBytes(at) = size[at] /\ size[at] \in Nat
    BY <1>0, <1>1, SizedIs DEF IInv, HeadersDescribeContents
  <2>2. new \in Written
    BY <1>0, <1>2, <2>1 DEF Written
  <2>3. offset' = [offset EXCEPT ![at] = Cursor] /\ written' = Append(written, new)
    BY <1>9 DEF PlacedAt
  <2>4. new.section = at /\ new.start = Cursor /\ new.bytes = size[at]
    BY <2>1
  <2> HIDE DEF new
  <2>5. /\ written' \in Seq(Written) /\ Len(written') = Len(written) + 1
        /\ \A i \in 1..Len(written) : written'[i] = written[i]
        /\ written'[last] = new
        /\ DOMAIN written' = 1..last
    <3> HIDE DEF WriteSection
    <3>1. /\ written' \in Seq(Written) /\ Len(written') = Len(written) + 1
          /\ \A i \in 1..Len(written) : written'[i] = written[i]
          /\ written'[last] = new
      BY <1>1, <2>2, <2>3, AppendProperties
    <3> QED
      BY <3>1, LenProperties
  <2>6. /\ offset' \in [Sections -> Nat] /\ offset'[at] = Cursor
        /\ \A s \in Sections \ {at} : offset'[s] = offset[s]
    BY <1>0, <1>1, <1>2, <2>3
  <2>7. TypeOK'
    <3>1. UNCHANGED <<strtab, locals, globals, blocks, rodata, pending, adjusted, entries, size,
                      info, bufferSize, phase>>
      BY <1>0 DEF contents
    <3>2. /\ offset' \in [Sections -> Nat] /\ at' \in Nat
          /\ written' \in Seq([section : Sections, start : Nat, bytes : Nat])
      BY <1>0, <2>5, <2>6 DEF Written
    <3> HIDE DEF WriteSection
    <3> QED
      BY <3>1, <3>2 DEF IInv, TypeOK
  <2>8. Cursor' = Cursor + size[at]
    <3> DEFINE after == [i \in DOMAIN written' |-> size[written'[i].section]]
    <3>1. Cursor' = HeadersEnd + AddUp(after)
      BY <1>0 DEF Cursor
    <3>2. after = Append(WrittenSizes, size[at])
      <4> DEFINE right == Append(WrittenSizes, size[at])
      <4>1. /\ right \in Seq(Nat) /\ Len(right) = last
            /\ \A i \in 1..Len(written) : right[i] = size[written[i].section]
            /\ right[last] = size[at]
        BY <1>2, <2>1, AppendProperties
      <4> HIDE DEF right
      <4>2. \A i \in 1..last : size[written'[i].section] = right[i]
        <5> TAKE i \in 1..last
        <5>1. i \in 1..Len(written) \/ i = last
          BY <1>1
        <5> QED
          BY <2>4, <2>5, <4>1, <5>1
      <4>3. DOMAIN right = 1..last
        BY <4>1, LenProperties
      <4>4. after = [i \in 1..last |-> right[i]]
        BY <2>5, <4>2
      <4>5. right = [i \in 1..last |-> right[i]]
        BY <1>1, <4>1, <4>3
      <4> QED
        BY <4>4, <4>5 DEF right
    <3>3. AddUp(after) = AddUp(WrittenSizes) + size[at]
      BY <1>2, <2>1, <3>2, AddUpAppend
    <3>4. AddUp(WrittenSizes) \in Nat
      BY <1>2, AddUpType
    <3> QED
      BY <1>2, <1>3, <2>1, <3>1, <3>3, <3>4
  <2>9. LayoutInv'
    <3>1. Cursor' = HeadersEnd + AddUp(SubSeq(AllSizes', 1, at'))
      BY <1>5, <2>8
    <3>2. written' # <<>> /\ Cursor' = written'[Len(written')].start + written'[Len(written')].bytes
      <4>1. written'[Len(written')] = new
        BY <2>5
      <4>2. written' # <<>>
        BY <1>1, <2>5
      <4> QED
        BY <2>4, <2>8, <4>1, <4>2
    <3>3. ASSUME NEW s \in Sections, s < at', size'[s] # 0
          PROVE  \E i \in 1..Len(written') : written'[i].section = s
      <4>1. s < at \/ s = at
        BY <1>0, <3>3, SectionsAre
      <4>2. CASE s < at
        <5>1. PICK i \in 1..Len(written) : written[i].section = s
          BY <1>0, <1>4, <3>3, <4>2
        <5>2. i \in 1..Len(written') /\ written'[i] = written[i]
          BY <1>1, <2>5
        <5> QED
          BY <5>1, <5>2
      <4>3. CASE s = at
        <5>1. last \in 1..Len(written')
          BY <1>1, <2>5
        <5> QED
          BY <2>4, <2>5, <4>3, <5>1
      <4> QED
        BY <4>1, <4>2, <4>3
    <3>4. ASSUME NEW i \in 1..Len(written')
          PROVE  /\ written'[i].section < at'
                 /\ written'[i].start = offset'[written'[i].section]
                 /\ written'[i].bytes = size'[written'[i].section]
                 /\ written'[i].start =
                       IF i = 1 THEN HeadersEnd
                       ELSE written'[i - 1].start + written'[i - 1].bytes
      <4>1. i \in 1..Len(written) \/ i = last
        BY <1>1, <2>5
      <4>2. CASE i \in 1..Len(written)
        <5>1. written[i] \in Written /\ written'[i] = written[i]
          BY <1>1, <2>5, <4>2, ElementOfSeq
        <5>2. written[i].section \in Sections /\ written[i].section < at
          BY <1>4, <4>2, <5>1 DEF Written
        <5>3. written'[i].section < at' /\ offset'[written[i].section] = offset[written[i].section]
          <6> DEFINE s == written[i].section
          <6>1. s \in 0..6 /\ s \in Sections /\ s < at
            BY <5>2, SectionsAre
          <6> HIDE DEF s
          <6>2. s < at' /\ s # at
            BY <1>0, <6>1
          <6>3. offset'[s] = offset[s]
            BY <2>6, <6>1, <6>2
          <6> QED
            BY <5>1, <6>2, <6>3 DEF s
        <5>4. i # 1 => written'[i - 1] = written[i - 1]
          <6>1. i # 1 => i - 1 \in 1..Len(written)
            BY <1>1, <4>2
          <6> QED
            BY <2>5, <6>1
        <5> QED
          BY <1>0, <1>4, <4>2, <5>1, <5>3, <5>4
      <4>3. CASE i = last
        <5>1. written'[i] = new
          BY <2>5, <4>3
        <5>2. at < at'
          BY <1>0
        <5>3. i = 1 <=> written = <<>>
          BY <1>1, <4>3
        <5>4. i # 1 => written'[i - 1] = written[Len(written)]
          BY <1>1, <2>5, <4>3
        <5> QED
          BY <1>0, <1>4, <2>4, <2>6, <5>1, <5>2, <5>3, <5>4
      <4> QED
        BY <4>1, <4>2, <4>3
    <3>5. at' \in 0..Len(SectionNames) + 1 /\ bufferSize' = HeadersEnd + SumSizes'
      BY <1>0, <1>4, SectionsAre DEF SumSizes
    <3> QED
      BY <1>0, <3>1, <3>2, <3>3, <3>4, <3>5 DEF LayoutInv
  <2> QED
    BY <1>6, <1>7, <2>7, <2>9 DEF IInv
<1> QED
  BY <1>8, <1>9

LEMMA WriteFileKeeps == ASSUME IInv, WriteFile PROVE IInv'
<1> USE DEF WriteFile
<1>0. at = 7
  BY SectionsAre DEF IInv, LayoutInv
<1>1. TypeOK'
  BY DEF IInv, TypeOK, contents, layout
<1>2. Sized' /\ SymbolsInv' /\ FunctionsInv'
  BY SectionsKept
<1>3. EntriesInv'
  <2>1. Declared' = 1..Len(pending) /\ Declared = 1..Len(pending)
    BY DEF Declared, contents
  <2>2. UNCHANGED <<strtab, pending, entries>>
    BY DEF contents
  <2> QED
    BY <2>1, <2>2 DEF IInv, EntriesInv
<1>4. LayoutInv'
  <2>1. Cursor' = Cursor /\ AllSizes' = AllSizes /\ SumSizes' = SumSizes
    BY DEF Cursor, AllSizes, SumSizes, layout
  <2> QED
    BY <1>0, <2>1, SectionsAre DEF IInv, LayoutInv, layout
<1> QED
  BY <1>1, <1>2, <1>3, <1>4 DEF IInv

LEMMA StepKeeps == IInv /\ [Next]_vars => IInv'
<1> SUFFICES ASSUME IInv, [Next]_vars PROVE IInv'
  OBVIOUS
<1>1. ASSUME NEW name \in Name, AddCall(name) PROVE IInv'
  BY <1>1, AddCallKeeps
<1>2. ASSUME NEW n \in StringSizes, AddString(n) PROVE IInv'
  BY <1>2, AddStringKeeps
<1>3. ASSUME NEW name \in Name, NEW n \in BlockSizes, AddCodeBlock(name, n) PROVE IInv'
  BY <1>3, AddCodeBlockKeeps
<1>4. CASE UNCHANGED vars
  <2> USE <1>4 DEF vars
  <2>1. TypeOK'
    BY DEF IInv, TypeOK
  <2>2. Sized' /\ SymbolsInv'
    BY SectionsKept DEF contents
  <2>3. FunctionsInv'
    BY DEF IInv, FunctionsInv
  <2>4. EntriesInv'
    BY DEF IInv, EntriesInv, Declared
  <2>5. LayoutInv'
    <3>1. Cursor' = Cursor /\ AllSizes' = AllSizes /\ SumSizes' = SumSizes
      BY DEF Cursor, AllSizes, SumSizes
    <3> QED
      BY <3>1 DEF IInv, LayoutInv
  <2> QED
    BY <2>1, <2>2, <2>3, <2>4, <2>5 DEF IInv
<1>5. CASE Done
  BY <1>4, <1>5 DEF Done
<1> QED
  BY <1>1, <1>2, <1>3, <1>4, <1>5, DumpKeeps, AddRelocationSymbolKeeps, StartRelocationsKeeps,
     AddRelocationKeeps, AllocateBufferKeeps, WriteSectionKeeps, WriteFileKeeps DEF Next

\* For every program the strings are the names of the symbols, the sizes in the
\* headers are sums of what was added, and the tables have come as far as the
\* step of elf_handler_dump and elf_dump says.
THEOREM InvariantHolds == Spec => []IInv
<1> QED
  BY InitHolds, StepKeeps, PTL DEF Spec

------------------------------------------------------------------------------
(***************************************************************************)
(* What the invariant is for.                                              *)
(***************************************************************************)

\* The shape of the sections and headers, for all programs: no counter of
\* elf_handler.c or elf.c becomes negative and no index leaves its list.
THEOREM TypeCorrect == Spec => []TypeOK
<1>1. IInv => TypeOK
  BY DEF IInv
<1> QED
  BY <1>1, InvariantHolds, PTL

\* The sizes the headers keep are the bytes the sections hold, at every step
\* and not only when the file is written: a name of any length, a block of
\* any size.
THEOREM HeadersCorrect == Spec => []HeadersDescribeContents
<1>1. IInv => HeadersDescribeContents
  BY SizedIs DEF IInv
<1> QED
  BY <1>1, InvariantHolds, PTL

\* The names of the sections, read back through sh_name.
LEMMA SectionNamesResolve ==
    \A s \in Sections \ {Undefined} :
        GetString(ShStrings, HeaderName(s)) = Whole(SectionNames[s])
<1> TAKE s \in Sections \ {Undefined}
<1> DEFINE i == s + 1
<1>1. s \in 1..6 /\ i \in 1..7 /\ i - 1 = s /\ ShStrings[i] = SectionNames[s]
  BY SectionsAre DEF Undefined
<1> HIDE DEF i
<1>2. GetString(ShStrings, AddedAt(SubSeq(ShStrings, 1, i - 1))) = Whole(ShStrings[i])
  BY <1>1, SectionsAre, ReadsBack
<1> QED
  BY <1>1, <1>2 DEF HeaderName

\* A name read back from a string table is the name that was stored there,
\* whatever was added before and behind it; a finished function's symbol has
\* its name, its size and its place in .text.
THEOREM NamesCorrect == Spec => []NamesResolve
<1>1. IInv => NamesResolve
  <2> SUFFICES ASSUME IInv PROVE NamesResolve
    OBVIOUS
  <2>1. /\ Len(blocks) \in Nat /\ DOMAIN blocks = 1..Len(blocks) /\ Len(globals) \in Nat
        /\ Len(blocks) <= Len(globals) /\ Len(strtab) = Len(globals) + 3
    BY LenProperties DEF IInv, TypeOK, FunctionsInv, SymbolsInv
  <2>2. ASSUME NEW i \in DOMAIN blocks
        PROVE  /\ SymbolName(globals[i]) = Whole(blocks[i].name)
               /\ globals[i].shndx = Text
               /\ globals[i].size = blocks[i].size
               /\ globals[i].value = CodeBytes(SubSeq(blocks, 1, i - 1))
    <3>1. i \in 1..Len(globals) /\ i + 3 \in 1..Len(strtab)
      BY <2>1
    <3>2. Symbols[i + 3] = globals[i] /\ SymbolName(Symbols[i + 3]) = Whole(strtab[i + 3])
      BY <3>1, SymbolsAre DEF IInv
    <3> QED
      BY <2>1, <3>2 DEF IInv, FunctionsInv
  <2> QED
    BY <2>2, SectionNamesResolve DEF NamesResolve
<1> QED
  BY <1>1, InvariantHolds, PTL

\* The symbol index of every relocation entry is that of the symbol of the
\* name it was requested for, in the table as it is written in the end: the
\* function's own when it is defined in this file, before or after the call,
\* an undefined one when it is not, .rodata for a string.
THEOREM RelocationsCorrect == Spec => []RelocationsBind
<1>1. IInv => RelocationsBind
  <2> SUFFICES ASSUME IInv, NEW i \in DOMAIN entries
               PROVE  /\ entries[i] + 1 \in DOMAIN Symbols
                      /\ SymbolName(Symbols[entries[i] + 1]) = Whole(pending[i])
                      /\ Symbols[entries[i] + 1].shndx =
                            IF pending[i] = ".rodata" THEN RoData
                            ELSE IF pending[i] \in Unfinished THEN Undefined
                            ELSE Text
    BY DEF RelocationsBind
  <2> DEFINE j == entries[i] + 1
  <2>1. /\ i \in 1..Len(entries) /\ Len(strtab) \in Nat /\ Len(globals) \in Nat
        /\ Len(blocks) \in Nat /\ DOMAIN blocks = 1..Len(blocks)
        /\ Len(strtab) = Len(globals) + 3 /\ Len(blocks) <= Len(globals)
    BY LenProperties DEF IInv, TypeOK, SymbolsInv, FunctionsInv
  <2>2. j \in 1..Len(strtab) /\ strtab[j] = pending[i]
    BY <2>1 DEF IInv, EntriesInv
  <2>3. pending[i] \in Name \cup {".rodata"}
    <3>1. i \in 1..Len(pending)
      <4>1. Len(pending) \in Nat /\ Len(entries) \in Nat
        BY LenProperties DEF IInv, TypeOK
      <4>2. Len(entries) <= Len(pending)
        <5>1. phase \in {"compile", "symbols", "relocations", "write", "done"}
          BY DEF IInv, TypeOK
        <5>2. phase = "relocations" => at \in 1..Len(pending) + 1 /\ Len(entries) = at - 1
          BY DEF IInv, EntriesInv
        <5>3. phase \in {"compile", "symbols"} => Len(entries) = 0
          BY DEF IInv, EntriesInv
        <5>4. phase \in {"write", "done"} => Len(entries) = Len(pending)
          BY DEF IInv, EntriesInv
        <5> QED
          BY <4>1, <5>1, <5>2, <5>3, <5>4
      <4> QED
        BY <2>1, <4>1, <4>2
    <3> QED
      BY <3>1, ElementOfSeq DEF IInv, TypeOK
  <2> HIDE DEF j
  <2>4. j \in DOMAIN Symbols /\ SymbolName(Symbols[j]) = Whole(pending[i])
    BY <2>2, SymbolsAre DEF IInv
  <2>5. CASE pending[i] = ".rodata"
    <3>1. j = 3
      <4>1. 3 \in 1..Len(strtab) /\ strtab[3] = ".rodata"
        BY <2>1 DEF IInv, SymbolsInv
      <4> QED
        BY <2>2, <2>5, <4>1 DEF IInv, SymbolsInv
    <3>2. Symbols[j] = SectionSymbol(RoData, <<NoName, ".text">>)
      BY <3>1, SymbolsAre DEF IInv
    <3>3. Symbols[j].shndx = RoData
      BY <3>2 DEF SectionSymbol
    <3> QED
      BY <2>4, <2>5, <3>3 DEF j
  <2>6. CASE pending[i] \in Name
    <3>1. pending[i] \notin {NoName, ".text", ".rodata"}
      BY <2>6, ElfAssumption
    <3> DEFINE k == j - 3
    <3>2. k \in 1..Len(globals) /\ k + 3 = j
      <4>1. j # 1 /\ j # 2 /\ j # 3
        BY <2>2, <3>1 DEF IInv, SymbolsInv
      <4> QED
        BY <2>1, <2>2, <4>1
    <3> HIDE DEF k
    <3>3. Symbols[j] = globals[k]
      BY <3>2, SymbolsAre DEF IInv
    <3>4. CASE k \in 1..Len(blocks)
      <4>1. strtab[j] = blocks[k].name /\ globals[k].shndx = Text
        BY <3>2, <3>4 DEF IInv, FunctionsInv
      <4>2. pending[i] \notin Unfinished
        BY <2>1, <2>2, <3>4, <4>1 DEF Unfinished
      <4> QED
        BY <2>4, <3>1, <3>3, <4>1, <4>2 DEF j
    <3>5. CASE k \notin 1..Len(blocks)
      <4>1. k \in Len(blocks) + 1..Len(globals)
        BY <2>1, <3>2, <3>5
      <4>2. globals[k].shndx = Undefined
        BY <4>1 DEF IInv, FunctionsInv
      <4>3. ASSUME NEW l \in DOMAIN blocks
            PROVE  blocks[l].name # pending[i]
        <5>1. l \in 1..Len(blocks) /\ l + 3 \in 1..Len(strtab)
          BY <2>1
        <5>2. strtab[l + 3] = blocks[l].name
          BY <5>1 DEF IInv, FunctionsInv
        <5>3. l + 3 # j
          BY <3>2, <3>5, <5>1
        <5> QED
          BY <2>2, <5>1, <5>2, <5>3 DEF IInv, SymbolsInv
      <4>4. pending[i] \in Unfinished
        BY <2>6, <4>3 DEF Unfinished
      <4> QED
        BY <2>4, <3>1, <3>3, <4>2, <4>4 DEF j
    <3> QED
      BY <3>4, <3>5
  <2> QED
    BY <2>3, <2>5, <2>6
<1> QED
  BY <1>1, InvariantHolds, PTL

\* No name gets two symbols, however often it is called and whether or not it
\* is defined here.
THEOREM SymbolsUnique == Spec => []OneSymbolPerName
<1>1. IInv => OneSymbolPerName
  <2> SUFFICES ASSUME IInv, NEW i \in DOMAIN Symbols, NEW j \in DOMAIN Symbols,
                      SymbolName(Symbols[i]) = SymbolName(Symbols[j])
               PROVE  i = j
    BY DEF OneSymbolPerName
  <2>1. i \in 1..Len(strtab) /\ j \in 1..Len(strtab)
    BY SymbolsAre DEF IInv
  <2>2. Whole(strtab[i]) = Whole(strtab[j])
    BY <2>1, SymbolsAre DEF IInv
  <2>3. strtab[i] = strtab[j]
    BY <2>2 DEF Whole
  <2> QED
    BY <2>1, <2>3 DEF IInv, SymbolsInv
<1> QED
  BY <1>1, InvariantHolds, PTL

\* The sections tile the file from the end of the headers to the end of the
\* buffer whose size elf_dump computed beforehand, so it neither writes past
\* it nor leaves a gap, and every header points to its own section.
THEOREM FileCorrect == Spec => []FileTiled
<1>1. IInv => FileTiled
  <2> SUFFICES ASSUME IInv, phase = "done" PROVE FileTiled
    BY DEF FileTiled
  <2>1. /\ at = 7 /\ bufferSize = HeadersEnd + SumSizes
        /\ Cursor = HeadersEnd + AddUp(SubSeq(AllSizes, 1, at))
        /\ Cursor = IF written = <<>> THEN HeadersEnd
                    ELSE written[Len(written)].start + written[Len(written)].bytes
        /\ \A s \in Sections : s < at /\ size[s] # 0 =>
              \E i \in 1..Len(written) : written[i].section = s
        /\ \A i \in 1..Len(written) :
              /\ written[i].start = offset[written[i].section]
              /\ written[i].bytes = size[written[i].section]
              /\ written[i].start = IF i = 1 THEN HeadersEnd
                                    ELSE written[i - 1].start + written[i - 1].bytes
    BY SectionsAre DEF IInv, LayoutInv
  <2>2. Cursor = bufferSize
    <3>1. SumSizes = AddUp(AllSizes) /\ AllSizes \in Seq(Nat) /\ Len(AllSizes) = 7
      BY SizesAre DEF IInv
    <3>2. SubSeq(AllSizes, 1, 7) = AllSizes
      BY <3>1, WholePrefix
    <3> QED
      BY <2>1, <3>1, <3>2
  <2>3. DOMAIN written = 1..Len(written) /\ Len(written) \in Nat
    BY LenProperties DEF IInv, TypeOK
  <2>4. \A s \in Sections : s < at
    BY <2>1, SectionsAre
  <2>5. ASSUME NEW i \in DOMAIN written, i = Len(written)
        PROVE  written[i].start + written[i].bytes = bufferSize
    <3>1. written # <<>>
      BY <2>3, <2>5
    <3> QED
      BY <2>1, <2>2, <2>5, <3>1
  <2> QED
    BY <2>1, <2>3, <2>4, <2>5 DEF FileTiled
<1> QED
  BY <1>1, InvariantHolds, PTL
================================================================================
