---------------------------- MODULE RecordLines ----------------------------
(***************************************************************************)
(* Lemmas about the bytes of RecordStore's files: what escaping and        *)
(* encoding a client's record gives, what decoding its line gives back, at *)
(* its offset and by a scan, and which lines files have that hold the      *)
(* records of a log one after the other, as they grow or are cut.          *)
(***************************************************************************)
EXTENDS RecordStore, Recursion

-----------------------------------------------------------------------------
(* Fields and their escapes. *)

\* Strings; those of the formatter are listed, as the provers do not know that a
\* literal is one.
Char == STRING \cup Special \cup {"n", "r", "-1", "put", "del"}

\* The contents of files, and fields before and after they are escaped.
Bytes == Seq(Char)

\* How a field is escaped: without newlines, as it is if it is plain, and else with
\* a backslash before any separator.
EscapeOf(s, t) ==
  /\ t \in Bytes
  /\ NewLines(t) = {}
  /\ s = <<>> <=> t = <<>>
  /\ Plain(s) => t = s
  /\ ~Plain(s) => \E p \in 1..Len(t) : t[p] = "\\" /\ \A q \in 1..p : t[q] # Bar

\* What clients send are such sequences.
LEMMA StringFact == Seq(STRING) \subseteq Bytes
<1> SUFFICES ASSUME NEW s \in Seq(STRING) PROVE s \in Seq(Char) BY DEF Bytes
<1>1. Len(s) \in Nat /\ s \in [1..Len(s) -> STRING] OBVIOUS
<1>2. \A i \in 1..Len(s) : s[i] \in Char BY <1>1 DEF Char
<1> QED BY <1>2

\* Sequences with the same elements are the same.
LEMMA SameBytes ==
  ASSUME NEW s \in Bytes, NEW t \in Bytes, Len(s) = Len(t),
         \A i \in 1..Len(s) : s[i] = t[i]
  PROVE  s = t
BY DEF Bytes

\* A pair of characters.
LEMMA TwoBytes ==
  ASSUME NEW a \in Char, NEW b \in Char, a # NewLine, b # NewLine
  PROVE  /\ <<a, b>> \in Bytes /\ <<a, b>> # <<>>
         /\ NewLines(<<a, b>>) = {} /\ <<a, b>>[1] = a
<1>1. <<a, b>> \in Bytes BY DEF Bytes
<1>2. <<a, b>> # <<>> /\ <<a, b>>[1] = a /\ <<a, b>>[2] = b OBVIOUS
<1>3. DOMAIN <<a, b>> = 1..2 OBVIOUS
<1> QED BY <1>1, <1>2, <1>3 DEF NewLines

\* A character is escaped to itself, or to a backslash and another one.
LEMMA CharFact ==
  ASSUME NEW char \in Char
  PROVE  /\ EscapeChar(char) \in Bytes
         /\ EscapeChar(char) # <<>>
         /\ NewLines(EscapeChar(char)) = {}
         /\ IF char \in Special THEN EscapeChar(char)[1] = "\\" ELSE EscapeChar(char) = <<char>>
<1>1. CASE char = "\\"
  <2>1. EscapeChar(char) = <<"\\", "\\">> BY <1>1 DEF EscapeChar, Bar, NewLine
  <2> QED BY <1>1, <2>1, TwoBytes DEF NewLine, Special, Bar, Char
<1>2. CASE char = Bar
  <2>1. EscapeChar(char) = <<"\\", Bar>> BY <1>2 DEF EscapeChar, Bar, NewLine
  <2> QED BY <1>2, <2>1, TwoBytes DEF NewLine, Special, Bar, Char
<1>3. CASE char = NewLine
  <2>1. EscapeChar(char) = <<"\\", "n">> BY <1>3 DEF EscapeChar, Bar, NewLine
  <2> QED BY <1>3, <2>1, TwoBytes DEF NewLine, Special, Bar, Char
<1>4. CASE char = "\r"
  <2>1. EscapeChar(char) = <<"\\", "r">> BY <1>4 DEF EscapeChar, Bar, NewLine
  <2> QED BY <1>4, <2>1, TwoBytes DEF NewLine, Special, Bar, Char
<1>5. CASE char \notin Special
  <2>1. EscapeChar(char) = <<char>> BY <1>5 DEF EscapeChar, Special
  <2> QED BY <1>5, <2>1 DEF Bytes, NewLines, NewLine, Special, Bar
<1> QED BY <1>1, <1>2, <1>3, <1>4, <1>5 DEF Special

\* So a field of one character is escaped as it should be.
LEMMA EscapeOfChar ==
  ASSUME NEW char \in Char
  PROVE  EscapeOf(<<char>>, EscapeChar(char))
<1> DEFINE t == EscapeChar(char)
<1>1. /\ t \in Bytes /\ t # <<>> /\ NewLines(t) = {}
      /\ IF char \in Special THEN t[1] = "\\" ELSE t = <<char>>
  BY CharFact
<1> HIDE DEF t
<1>2. <<char>> # <<>> /\ <<char>>[1] = char /\ DOMAIN <<char>> = {1} OBVIOUS
<1>3. Plain(<<char>>) <=> char \notin Special BY <1>2 DEF Plain
<1>4. 1 \in 1..Len(t) BY <1>1 DEF Bytes
<1>5. ASSUME char \in Special PROVE \E p \in 1..Len(t) : t[p] = "\\" /\ \A q \in 1..p : t[q] # Bar
  <2>1. t[1] = "\\" /\ "\\" # Bar BY <1>1, <1>5 DEF Bar
  <2>2. \A q \in 1..1 : t[q] # Bar BY <2>1
  <2> QED BY <1>4, <2>1, <2>2
<1>6. EscapeOf(<<char>>, t) BY <1>1, <1>2, <1>3, <1>5 DEF EscapeOf
<1> QED BY <1>6 DEF t

\* The newlines of two sequences end to end.
LEMMA NewLinesOfBoth ==
  ASSUME NEW s \in Bytes, NEW t \in Bytes
  PROVE  NewLines(s \o t) = NewLines(s) \cup {Len(s) + p : p \in NewLines(t)}
<1>1. /\ Len(s) \in Nat /\ Len(t) \in Nat
      /\ DOMAIN s = 1..Len(s) /\ DOMAIN t = 1..Len(t)
      /\ DOMAIN (s \o t) = 1..(Len(s) + Len(t))
  BY DEF Bytes
<1>2. /\ \A i \in 1..Len(s) : (s \o t)[i] = s[i]
      /\ \A i \in 1..Len(t) : (s \o t)[Len(s) + i] = t[i]
  BY DEF Bytes
<1>3. \A i \in 1..(Len(s) + Len(t)) :
        i > Len(s) => i - Len(s) \in 1..Len(t) /\ i = Len(s) + (i - Len(s))
  BY <1>1
<1>4. ASSUME NEW i \in NewLines(s \o t)
      PROVE  i \in NewLines(s) \cup {Len(s) + p : p \in NewLines(t)}
  <2>1. i \in 1..(Len(s) + Len(t)) /\ (s \o t)[i] = NewLine BY <1>1, <1>4 DEF NewLines
  <2>2. CASE i <= Len(s) BY <1>1, <1>2, <2>1, <2>2 DEF NewLines
  <2>3. CASE i > Len(s)
    <3>1. i - Len(s) \in 1..Len(t) /\ i = Len(s) + (i - Len(s)) BY <1>3, <2>1, <2>3
    <3>2. t[i - Len(s)] = NewLine BY <1>2, <2>1, <3>1
    <3> QED BY <1>1, <3>1, <3>2 DEF NewLines
  <2> QED BY <1>1, <2>1, <2>2, <2>3
<1>5. NewLines(s) \subseteq NewLines(s \o t)
  <2>1. \A i \in 1..Len(s) : i \in 1..(Len(s) + Len(t)) BY <1>1
  <2> QED BY <1>1, <1>2, <2>1 DEF NewLines
<1>6. ASSUME NEW p \in NewLines(t) PROVE Len(s) + p \in NewLines(s \o t)
  <2>1. p \in 1..Len(t) /\ t[p] = NewLine BY <1>1 DEF NewLines
  <2>2. Len(s) + p \in 1..(Len(s) + Len(t)) BY <1>1, <2>1
  <2> QED BY <1>1, <1>2, <2>1, <2>2 DEF NewLines
<1> QED BY <1>4, <1>5, <1>6

\* Two fields that are escaped as they should be, end to end.
LEMMA EscapeOfBoth ==
  ASSUME NEW s \in Bytes, NEW t, EscapeOf(s, t), NEW u \in Bytes, NEW v, EscapeOf(u, v)
  PROVE  EscapeOf(s \o u, t \o v)
<1>1. /\ t \in Bytes /\ v \in Bytes /\ t \o v \in Bytes
      /\ Len(s) \in Nat /\ Len(t) \in Nat /\ Len(v) \in Nat /\ Len(u) \in Nat
      /\ Len(s \o u) = Len(s) + Len(u) /\ Len(t \o v) = Len(t) + Len(v)
  BY DEF EscapeOf, Bytes
<1>2. NewLines(t \o v) = {} BY <1>1, NewLinesOfBoth DEF EscapeOf
<1>3. s \o u = <<>> <=> t \o v = <<>>
  <2>1. s \o u = <<>> <=> s = <<>> /\ u = <<>> BY DEF Bytes
  <2>2. t \o v = <<>> <=> t = <<>> /\ v = <<>> BY <1>1 DEF Bytes
  <2> QED BY <2>1, <2>2 DEF EscapeOf
<1>4. /\ \A i \in 1..Len(s) : (s \o u)[i] = s[i]
      /\ \A i \in 1..Len(u) : (s \o u)[Len(s) + i] = u[i]
      /\ DOMAIN (s \o u) = 1..(Len(s) + Len(u))
  BY DEF Bytes
<1>5. Plain(s \o u) <=> Plain(s) /\ Plain(u)
  <2>1. DOMAIN s = 1..Len(s) /\ DOMAIN u = 1..Len(u) BY DEF Bytes
  <2>2. ASSUME Plain(s), Plain(u), NEW i \in 1..(Len(s) + Len(u)) PROVE (s \o u)[i] \notin Special
    <3>1. CASE i <= Len(s) BY <1>1, <1>4, <2>1, <2>2, <3>1 DEF Plain
    <3>2. CASE i > Len(s)
      <4>1. i - Len(s) \in 1..Len(u) /\ i = Len(s) + (i - Len(s)) BY <1>1, <3>2
      <4>2. (s \o u)[i] = u[i - Len(s)] BY <1>4, <4>1
      <4> QED BY <2>1, <2>2, <4>1, <4>2 DEF Plain
    <3> QED BY <1>1, <3>1, <3>2
  <2>3. ASSUME Plain(s \o u) PROVE Plain(s) /\ Plain(u)
    <3>1. \A i \in 1..Len(s) : i \in 1..(Len(s) + Len(u)) BY <1>1
    <3>2. \A i \in 1..Len(u) : Len(s) + i \in 1..(Len(s) + Len(u)) BY <1>1
    <3> QED BY <1>4, <2>1, <2>3, <3>1, <3>2 DEF Plain
  <2> QED BY <1>4, <2>2, <2>3 DEF Plain
<1>6. Plain(s \o u) => t \o v = s \o u BY <1>5 DEF EscapeOf
<1>7. ASSUME ~Plain(s \o u)
      PROVE  \E p \in 1..Len(t \o v) : (t \o v)[p] = "\\" /\ \A q \in 1..p : (t \o v)[q] # Bar
  <2>1. /\ \A i \in 1..Len(t) : (t \o v)[i] = t[i]
        /\ \A i \in 1..Len(v) : (t \o v)[Len(t) + i] = v[i]
    BY <1>1 DEF Bytes
  <2>2. CASE ~Plain(s)
    <3>1. PICK p \in 1..Len(t) : t[p] = "\\" /\ \A q \in 1..p : t[q] # Bar BY <2>2 DEF EscapeOf
    <3>2. p \in 1..Len(t \o v) /\ \A q \in 1..p : q \in 1..Len(t) BY <1>1
    <3> QED BY <2>1, <3>1, <3>2
  <2>3. CASE Plain(s)
    <3>1. t = s /\ ~Plain(u) BY <1>5, <1>7, <2>3 DEF EscapeOf
    <3>2. PICK p \in 1..Len(v) : v[p] = "\\" /\ \A q \in 1..p : v[q] # Bar BY <3>1 DEF EscapeOf
    <3>3. Len(t) + p \in 1..Len(t \o v) BY <1>1
    <3>4. ASSUME NEW q \in 1..(Len(t) + p) PROVE (t \o v)[q] # Bar
      <4>1. CASE q <= Len(t)
        <5>1. q \in 1..Len(t) /\ DOMAIN s = 1..Len(s) BY <1>1, <4>1 DEF Bytes
        <5>2. t[q] \notin Special BY <2>3, <3>1, <5>1 DEF Plain
        <5> QED BY <2>1, <5>1, <5>2 DEF Special
      <4>2. CASE q > Len(t)
        <5>1. q - Len(t) \in 1..p /\ q - Len(t) \in 1..Len(v) /\ q = Len(t) + (q - Len(t))
          BY <1>1, <4>2
        <5>2. (t \o v)[q] = v[q - Len(t)] BY <2>1, <5>1
        <5> QED BY <3>2, <5>1, <5>2
      <4> QED BY <1>1, <4>1, <4>2
    <3>5. (t \o v)[Len(t) + p] = "\\" BY <2>1, <3>2
    <3> QED BY <3>3, <3>4, <3>5
  <2> QED BY <2>2, <2>3
<1> QED BY <1>1, <1>2, <1>3, <1>6, <1>7 DEF EscapeOf

\* How much of s is escaped after i steps of FlattenSeq.
Flattens(pieces, f) ==
  f = [i \in 1..Len(pieces) |-> IF i = 1 THEN pieces[i] ELSE f[i - 1] \o pieces[i]]

\* FlattenSeq's recursion has a solution, and its result is the last element.
LEMMA FlattenFact ==
  ASSUME NEW pieces \in Seq(Bytes), pieces # <<>>
  PROVE  \E f : Flattens(pieces, f) /\ FlattenSeq(pieces) = f[Len(pieces)]
<1> DEFINE n == Len(pieces)
           step == [i \in Nat |-> [x \in Bytes |-> IF i \in 1..n THEN x \o pieces[i] ELSE x]]
           flatten == CHOOSE f : Flattens(pieces, f)
<1>1. n \in Nat /\ n >= 1 /\ \A i \in 1..n : pieces[i] \in Bytes OBVIOUS
<1>2. <<>> \in Bytes /\ \A x \in Bytes : <<>> \o x = x BY DEF Bytes
<1>3. \A i \in Nat, x \in Bytes : step[i][x] \in Bytes
  <2>1. \A x, y \in Bytes : x \o y \in Bytes BY DEF Bytes
  <2> QED BY <1>1, <2>1
<1>4. PICK g : Computes(g, Bytes, <<>>, step, n)
  <2> HIDE DEF step, n
  <2> QED BY <1>1, <1>2, <1>3, RecursionExists
<1>5. /\ g \in [0..n -> Bytes] /\ g[0] = <<>>
      /\ \A i \in 1..n : g[i] = step[i][g[i - 1]]
  BY <1>4 DEF Computes
<1>6. \A i \in 1..n : g[i] = g[i - 1] \o pieces[i]
  <2> TAKE i \in 1..n
  <2>1. i \in Nat /\ i - 1 \in 0..n BY <1>1
  <2>2. g[i - 1] \in Bytes BY <1>5, <2>1
  <2> QED BY <1>5, <2>1, <2>2
<1> DEFINE f == [i \in 1..n |-> g[i]]
<1>7. \A i \in 1..n : f[i] = IF i = 1 THEN pieces[i] ELSE f[i - 1] \o pieces[i]
  <2> TAKE i \in 1..n
  <2>1. CASE i = 1 BY <1>1, <1>2, <1>5, <1>6, <2>1
  <2>2. CASE i # 1
    <3>1. i - 1 \in 1..n BY <1>1, <2>2
    <3> QED BY <1>6, <2>2, <3>1
  <2> QED BY <2>1, <2>2
<1>8. Flattens(pieces, f)
  <2> HIDE DEF f
  <2>1. f = [i \in 1..n |-> f[i]] BY DEF f
  <2>2. f = [i \in 1..n |-> IF i = 1 THEN pieces[i] ELSE f[i - 1] \o pieces[i]] BY <1>7, <2>1
  <2> QED BY <2>2 DEF Flattens
<1>9. Flattens(pieces, flatten) BY <1>8
<1>10. FlattenSeq(pieces) = flatten[n] BY <1>1 DEF FlattenSeq, Flattens
<1> QED BY <1>9, <1>10

\* Every field is escaped as it should be: Escape is the fold of its pieces.
LEMMA EscapeFact ==
  ASSUME NEW s \in Bytes
  PROVE  EscapeOf(s, Escape(s))
<1> DEFINE n == Len(s)
           pieces == [i \in DOMAIN s |-> EscapeChar(s[i])]
<1>1. n \in Nat /\ DOMAIN s = 1..n /\ \A i \in 1..n : s[i] \in Char BY DEF Bytes
<1>2. /\ pieces \in Seq(Bytes) /\ Len(pieces) = n
      /\ \A i \in 1..n : pieces[i] = EscapeChar(s[i])
  <2>1. \A i \in 1..n : EscapeChar(s[i]) \in Bytes BY <1>1, CharFact
  <2>2. pieces \in [1..n -> Bytes] BY <1>1, <2>1
  <2> QED BY <1>1, <2>2
<1>3. Escape(s) = FlattenSeq(pieces) BY DEF Escape
<1> HIDE DEF pieces
<1>4. CASE n = 0
  <2>1. s = <<>> /\ pieces = <<>> BY <1>1, <1>2, <1>4 DEF Bytes
  <2>2. Escape(s) = <<>> BY <1>3, <2>1 DEF FlattenSeq
  <2>3. <<>> \in Bytes /\ NewLines(<<>>) = {} /\ Plain(<<>>) BY DEF Bytes, NewLines, Plain
  <2> QED BY <2>1, <2>2, <2>3 DEF EscapeOf
<1>5. CASE n > 0
  <2>1. pieces # <<>> BY <1>2, <1>5
  <2>2. PICK f : Flattens(pieces, f) /\ FlattenSeq(pieces) = f[n]
    BY <1>2, <2>1, FlattenFact
  <2>3. \A i \in 1..n : f[i] = IF i = 1 THEN pieces[i] ELSE f[i - 1] \o pieces[i]
    BY <1>2, <2>2 DEF Flattens
  <2> DEFINE T == {i \in Nat : i \in 1..n => EscapeOf(SubSeq(s, 1, i), f[i])}
  <2>4. 0 \in T OBVIOUS
  <2>5. ASSUME NEW i \in Nat, i \in T PROVE i + 1 \in T
    <3>1. SUFFICES ASSUME i + 1 \in 1..n PROVE EscapeOf(SubSeq(s, 1, i + 1), f[i + 1])
      BY <1>1
    <3>2. s[i + 1] \in Char /\ f[i + 1] = IF i + 1 = 1 THEN pieces[i + 1] ELSE f[i] \o pieces[i + 1]
      BY <1>1, <2>3, <3>1
    <3>3. <<s[i + 1]>> \in Bytes /\ EscapeOf(<<s[i + 1]>>, pieces[i + 1])
      BY <1>2, <3>1, <3>2, EscapeOfChar DEF Bytes
    <3>4. CASE i = 0
      <4>1. /\ SubSeq(s, 1, 1) \in Bytes /\ Len(SubSeq(s, 1, 1)) = 1
            /\ SubSeq(s, 1, 1)[1] = s[1]
        BY <1>1, <3>1, <3>4 DEF Bytes
      <4>2. SubSeq(s, 1, 1) = <<s[1]>>
        <5>1. <<s[1]>> \in Bytes /\ Len(<<s[1]>>) = 1 /\ <<s[1]>>[1] = s[1] BY <1>1, <1>5 DEF Bytes
        <5> HIDE DEF Bytes
        <5>2. \A q \in 1..1 : SubSeq(s, 1, 1)[q] = <<s[1]>>[q] BY <4>1, <5>1
        <5> QED BY <4>1, <5>1, <5>2, SameBytes
      <4>3. i + 1 = 1 BY <3>4
      <4>4. f[1] = pieces[1] BY <3>2, <4>3
      <4> QED BY <3>3, <4>2, <4>3, <4>4
    <3>5. CASE i # 0
      <4>1. i \in 1..n BY <3>1, <3>5
      <4>2. EscapeOf(SubSeq(s, 1, i), f[i]) BY <2>5, <4>1
      <4>3. SubSeq(s, 1, i) \in Bytes BY <1>1, <4>1 DEF Bytes
      <4>4. SubSeq(s, 1, i + 1) = SubSeq(s, 1, i) \o <<s[i + 1]>> BY <1>1, <3>1, <4>1 DEF Bytes
      <4>5. f[i + 1] = f[i] \o pieces[i + 1]
        <5>1. i + 1 # 1 BY <3>5
        <5> QED BY <3>2, <5>1
      <4> QED BY <3>3, <4>2, <4>3, <4>4, <4>5, EscapeOfBoth
    <3> QED BY <3>4, <3>5
  <2>6. n \in T
    <3> HIDE DEF T
    <3> QED BY <1>1, <2>4, <2>5, SetInduction
  <2>7. EscapeOf(SubSeq(s, 1, n), f[n]) BY <1>1, <1>5, <2>6
  <2>8. SubSeq(s, 1, n) = s BY <1>1 DEF Bytes
  <2> QED BY <1>3, <2>2, <2>7, <2>8
<1> QED BY <1>1, <1>4, <1>5

\* s is how t begins.
Begins(s, t) == Len(s) <= Len(t) /\ \A i \in 1..Len(s) : s[i] = t[i]

\* The third separator of a line, if the first two are where a header has them.
Third(line, s) ==
  /\ s \in Separators(line) /\ s > 4
  /\ \A j \in Separators(line) : j > 4 => s <= j

\* Numbers of a line have no end but its own.
LEMMA SeparatorsFact ==
  ASSUME NEW line \in Bytes
  PROVE  /\ Separators(line) \subseteq 1..Len(line)
         /\ IsFiniteSet(Separators(line))
         /\ \A i : IsFiniteSet({j \in Separators(line) : j <= i})
<1>1. Len(line) \in Nat /\ DOMAIN line = 1..Len(line) BY DEF Bytes
<1>2. Separators(line) \subseteq 1..Len(line) BY <1>1 DEF Separators
<1>3. IsFiniteSet(1..Len(line)) BY <1>1, IntervalFact
<1>4. \A S : S \subseteq 1..Len(line) => IsFiniteSet(S) BY <1>3, FS_Subset
<1>5. \A i : {j \in Separators(line) : j <= i} \subseteq 1..Len(line) BY <1>2
<1> QED BY <1>2, <1>4, <1>5

\* The separator that n separators come up to is the n-th.
LEMMA NthFact ==
  ASSUME NEW line \in Bytes, NEW n, NEW i \in Separators(line),
         Cardinality({j \in Separators(line) : j <= i}) = n
  PROVE  NthSeparator(line, n) = i
<1> DEFINE upto(x) == {j \in Separators(line) : j <= x}
           c == NthSeparator(line, n)
<1>1. Separators(line) \subseteq Nat /\ \A x : IsFiniteSet(upto(x))
  <2>1. Len(line) \in Nat BY DEF Bytes
  <2> QED BY <2>1, SeparatorsFact
<1>2. c \in Separators(line) /\ Cardinality(upto(c)) = n BY DEF NthSeparator
<1>3. \A x, y \in Separators(line) : x <= y /\ Cardinality(upto(x)) = Cardinality(upto(y)) => x = y
  <2> SUFFICES ASSUME NEW x \in Separators(line), NEW y \in Separators(line), x <= y,
                      Cardinality(upto(x)) = Cardinality(upto(y))
               PROVE  x = y
    OBVIOUS
  <2>1. upto(x) \subseteq upto(y) BY <1>1
  <2>2. IsFiniteSet(upto(y)) BY <1>1
  <2>3. upto(y) = upto(x)
    <3> HIDE DEF upto
    <3> QED BY <2>1, <2>2, FS_Subset
  <2>4. y \in upto(y) BY <1>1
  <2>5. y <= x BY <2>3, <2>4
  <2> QED BY <1>1, <2>5
<1> HIDE DEF c
<1>4. c <= i \/ i <= c BY <1>1, <1>2
<1> QED BY <1>2, <1>3, <1>4 DEF c

\* Sets of two elements.
LEMMA TwoElements ==
  ASSUME NEW a, NEW b, a # b
  PROVE  IsFiniteSet({a, b}) /\ Cardinality({a, b}) = 2
<1>1. IsFiniteSet({a}) /\ Cardinality({a}) = 1 BY FS_Singleton
<1>2. {a, b} = {a} \cup {b} /\ b \notin {a} OBVIOUS
<1>3. IsFiniteSet({a, b}) /\ Cardinality({a, b}) = 1 + 1 BY <1>1, <1>2, FS_AddElement
<1> QED BY <1>3

\* Sets of three elements.
LEMMA ThreeElements ==
  ASSUME NEW a, NEW b, NEW c, a # b, a # c, b # c
  PROVE  IsFiniteSet({a, b, c}) /\ Cardinality({a, b, c}) = 3
<1>1. IsFiniteSet({a, b}) /\ Cardinality({a, b}) = 2 BY TwoElements
<1>2. {a, b, c} = {a, b} \cup {c} /\ c \notin {a, b} OBVIOUS
<1>3. IsFiniteSet({a, b, c}) /\ Cardinality({a, b, c}) = 2 + 1 BY <1>1, <1>2, FS_AddElement
<1> QED BY <1>3

\* How a line with a header splits into its fields.
LEMMA SplitFact ==
  ASSUME NEW line \in Bytes, Len(line) >= 4,
         \A i \in 1..4 : i \in Separators(line) <=> i \in {2, 4}
  PROVE  /\ Cardinality(Separators(line)) >= 3 <=> \E s \in Nat : Third(line, s)
         /\ \A s \in Nat : Third(line, s) =>
              /\ Field(line, 1) = SubSeq(line, 1, 1)
              /\ Field(line, 2) = SubSeq(line, 3, 3)
              /\ Field(line, 3) = SubSeq(line, 5, s - 1)
              /\ Field(line, 4) = SubSeq(line, s + 1, Len(line))
<1> DEFINE S == Separators(line)
<1>1. S \subseteq Nat \ {0} /\ IsFiniteSet(S) /\ 2 \in S /\ 4 \in S
  <2>1. Len(line) \in Nat BY DEF Bytes
  <2> QED BY <2>1, SeparatorsFact
<1>2. \A j \in S : j <= 4 => j = 2 \/ j = 4 BY <1>1
<1>3. NthSeparator(line, 1) = 2 /\ NthSeparator(line, 2) = 4
  <2>1. {j \in S : j <= 2} = {2} BY <1>1, <1>2
  <2>2. {j \in S : j <= 4} = {2, 4} BY <1>1, <1>2
  <2>3. Cardinality({2}) = 1 /\ Cardinality({2, 4}) = 2
    <3>1. 2 # 4 OBVIOUS
    <3> QED BY <3>1, FS_Singleton, TwoElements
  <2>4. Cardinality({j \in S : j <= 2}) = 1 /\ Cardinality({j \in S : j <= 4}) = 2
    BY <2>1, <2>2, <2>3
  <2> QED BY <1>1, <2>4, NthFact
<1>4. ASSUME NEW s \in Nat, Third(line, s) PROVE NthSeparator(line, 3) = s /\ Cardinality(S) >= 3
  <2>1. s \in S /\ s > 4 /\ \A j \in S : j > 4 => s <= j BY <1>4 DEF Third
  <2>2. {j \in S : j <= s} = {2, 4, s} BY <1>1, <1>2, <2>1
  <2>3. Cardinality({2, 4, s}) = 3
    <3>1. 2 # 4 /\ 2 # s /\ 4 # s BY <2>1
    <3> QED BY <3>1, ThreeElements
  <2>4. NthSeparator(line, 3) = s
    <3>1. Cardinality({j \in S : j <= s}) = 3 BY <2>2, <2>3
    <3> QED BY <2>1, <3>1, NthFact
  <2>5. {2, 4, s} \subseteq S BY <1>1, <2>1
  <2>6. 3 <= Cardinality(S) BY <1>1, <2>3, <2>5, FS_Subset
  <2>7. Cardinality(S) \in Nat BY <1>1, FS_CardinalityType
  <2> QED BY <2>4, <2>6, <2>7
<1>5. ASSUME Cardinality(S) >= 3 PROVE \E s \in Nat : Third(line, s)
  <2> DEFINE R == {j \in S : j > 4}
  <2>1. R # {}
    <3> SUFFICES ASSUME R = {} PROVE FALSE OBVIOUS
    <3>1. S = {2, 4} BY <1>1, <1>2
    <3>2. 2 # 4 OBVIOUS
    <3>3. Cardinality({2, 4}) = 2 BY <3>2, TwoElements
    <3> QED BY <1>5, <3>1, <3>3
  <2>2. R \in SUBSET Nat BY <1>1
  <2>3. PICK s \in R : \A j \in R : s <= j
    <3> HIDE DEF R
    <3> QED BY <2>1, <2>2, LeastElement
  <2>4. Third(line, s) BY <2>3 DEF Third
  <2> QED BY <2>2, <2>4
<1>6. ASSUME NEW s \in Nat, Third(line, s)
      PROVE  /\ Field(line, 1) = SubSeq(line, 1, 1)
             /\ Field(line, 2) = SubSeq(line, 3, 3)
             /\ Field(line, 3) = SubSeq(line, 5, s - 1)
             /\ Field(line, 4) = SubSeq(line, s + 1, Len(line))
  <2>1. NthSeparator(line, 3) = s BY <1>4, <1>6
  <2>2. 2 - 1 = 1 /\ 3 - 1 = 2 /\ 4 - 1 = 3 /\ 2 + 1 = 3 /\ 4 + 1 = 5 /\ 2 - 1 = 1 OBVIOUS
  <2>3. Field(line, 1) = SubSeq(line, 1, 1) BY <1>3, <2>2 DEF Field
  <2>4. Field(line, 2) = SubSeq(line, 3, 3)
    <3>1. Field(line, 2) = SubSeq(line, NthSeparator(line, 1) + 1, NthSeparator(line, 2) - 1)
      BY <2>2 DEF Field
    <3> QED BY <1>3, <2>2, <3>1
  <2>5. Field(line, 3) = SubSeq(line, 5, s - 1) BY <1>3, <2>1, <2>2 DEF Field
  <2>6. Field(line, 4) = SubSeq(line, s + 1, Len(line)) BY <2>1, <2>2 DEF Field
  <2> QED BY <2>3, <2>4, <2>5, <2>6
<1> QED BY <1>4, <1>5, <1>6

-----------------------------------------------------------------------------
(* Records and their lines. *)

\* What the value is encoded from.
Payload(r) == IF r.op = "del" THEN <<"-1">> ELSE r.value

\* The line of a record, without its newline.
Body(r) == <<r.version, Bar, r.op, Bar>> \o Escape(r.key) \o <<Bar>> \o Escape(Payload(r))

\* Two sequences end to end.
LEMMA Joined ==
  ASSUME NEW s \in Bytes, NEW t \in Bytes
  PROVE  /\ s \o t \in Bytes /\ Len(s \o t) = Len(s) + Len(t)
         /\ \A i \in 1..Len(s) : (s \o t)[i] = s[i]
         /\ \A i \in 1..Len(t) : (s \o t)[Len(s) + i] = t[i]
BY DEF Bytes

\* A line with a header, a key and a value, byte by byte.
HasForm(line, v, o, k, f) ==
  /\ line \in Bytes /\ Len(line) = 5 + Len(k) + Len(f)
  /\ line[1] = v /\ line[2] = Bar /\ line[3] = o /\ line[4] = Bar
  /\ \A i \in 1..Len(k) : line[4 + i] = k[i]
  /\ line[5 + Len(k)] = Bar
  /\ \A i \in 1..Len(f) : line[5 + Len(k) + i] = f[i]

\* The types of the clients' records.
LEMMA RecordFact ==
  ASSUME NEW r \in ClientRecords
  PROVE  /\ r.version \in Char \ {Bar, NewLine}
         /\ r.op \in {"put", "del"} /\ r.op \in Char \ {Bar, NewLine}
         /\ r.key \in Bytes /\ r.key # <<>>
         /\ r.value \in Bytes /\ Payload(r) \in Bytes
<1>1. /\ r.version \in Versions /\ r.op \in {"put", "del"}
      /\ r.key \in Seq(STRING) /\ r.key # <<>>
      /\ r.value \in Seq(STRING)
  <2>1. CASE \E version \in Versions, p \in Puts : r = PutRecord(version, p[1], p[2])
    BY <2>1, ClientAssumption DEF PutRecord
  <2>2. CASE \E version \in Versions, k \in Deletes : r = DelRecord(version, k)
    BY <2>2, ClientAssumption DEF DelRecord
  <2> QED BY <2>1, <2>2 DEF ClientRecords
<1>2. r.version \in Char \ {Bar, NewLine} BY <1>1, VersionAssumption DEF Char
<1>3. r.op \in Char \ {Bar, NewLine} BY <1>1 DEF Char, Bar, NewLine
<1>4. <<"-1">> \in Bytes
  <2>1. "-1" \in Char BY DEF Char
  <2> QED BY <2>1 DEF Bytes
<1> QED BY <1>1, <1>2, <1>3, <1>4, StringFact DEF Payload

\* Parts put end to end are such a line.
LEMMA FormFact ==
  ASSUME NEW v \in Char, NEW o \in Char, NEW k \in Bytes, NEW f \in Bytes
  PROVE  HasForm(<<v, Bar, o, Bar>> \o k \o <<Bar>> \o f, v, o, k, f)
<1> DEFINE h == <<v, Bar, o, Bar>>
           hk == h \o k
           hkb == hk \o <<Bar>>
           line == hkb \o f
<1>1. /\ h \in Bytes /\ Len(h) = 4 /\ h[1] = v /\ h[2] = Bar /\ h[3] = o /\ h[4] = Bar
      /\ <<Bar>> \in Bytes /\ Len(<<Bar>>) = 1 /\ <<Bar>>[1] = Bar
  <2>1. Bar \in Char BY DEF Char, Special
  <2> QED BY <2>1 DEF Bytes
<1> HIDE DEF h
<1>2. Len(k) \in Nat /\ Len(f) \in Nat BY DEF Bytes
<1>3. /\ hk \in Bytes /\ Len(hk) = 4 + Len(k)
      /\ \A i \in 1..4 : hk[i] = h[i]
      /\ \A i \in 1..Len(k) : hk[4 + i] = k[i]
  <2>1. /\ hk \in Bytes /\ Len(hk) = Len(h) + Len(k)
        /\ \A i \in 1..Len(h) : hk[i] = h[i]
        /\ \A i \in 1..Len(k) : hk[Len(h) + i] = k[i]
    BY <1>1, Joined
  <2> QED BY <1>1, <2>1
<1> HIDE DEF hk
<1>4. /\ hkb \in Bytes /\ Len(hkb) = 5 + Len(k)
      /\ \A i \in 1..(4 + Len(k)) : hkb[i] = hk[i]
      /\ hkb[5 + Len(k)] = Bar
  <2>1. hkb \in Bytes /\ Len(hkb) = 4 + Len(k) + 1 BY <1>1, <1>2, <1>3 DEF Bytes
  <2>2. \A i \in 1..(4 + Len(k)) : hkb[i] = hk[i] BY <1>1, <1>2, <1>3 DEF Bytes
  <2>3. hkb[4 + Len(k) + 1] = Bar BY <1>1, <1>2, <1>3 DEF Bytes
  <2>4. 4 + Len(k) + 1 = 5 + Len(k) BY <1>2
  <2> QED BY <2>1, <2>2, <2>3, <2>4
<1> HIDE DEF hkb
<1>5. /\ line \in Bytes /\ Len(line) = 5 + Len(k) + Len(f)
      /\ \A i \in 1..(5 + Len(k)) : line[i] = hkb[i]
      /\ \A i \in 1..Len(f) : line[5 + Len(k) + i] = f[i]
  <2>1. /\ line \in Bytes /\ Len(line) = Len(hkb) + Len(f)
        /\ \A i \in 1..Len(hkb) : line[i] = hkb[i]
        /\ \A i \in 1..Len(f) : line[Len(hkb) + i] = f[i]
    BY <1>4, Joined
  <2> QED BY <1>4, <2>1
<1> HIDE DEF line
<1>6. \A i \in 1..4 : i \in 1..(4 + Len(k)) /\ i \in 1..(5 + Len(k)) BY <1>2
<1>7. \A i \in 1..4 : line[i] = h[i] BY <1>3, <1>4, <1>5, <1>6
<1>8. \A i \in 1..Len(k) : line[4 + i] = k[i]
  <2> TAKE i \in 1..Len(k)
  <2>1. 4 + i \in 1..(4 + Len(k)) /\ 4 + i \in 1..(5 + Len(k)) BY <1>2
  <2> QED BY <1>3, <1>4, <1>5, <2>1
<1>9. line[5 + Len(k)] = Bar
  <2>1. 5 + Len(k) \in 1..(5 + Len(k)) BY <1>2
  <2> QED BY <1>4, <1>5, <2>1
<1>10. HasForm(line, v, o, k, f) BY <1>1, <1>5, <1>7, <1>8, <1>9 DEF HasForm
<1> QED BY <1>10 DEF line, hkb, hk, h

\* A sequence that lacks a byte.
Without(t, x) == \A i \in 1..Len(t) : t[i] # x

\* Every byte of such a line is one of its parts.
LEMMA FormBytes ==
  ASSUME NEW line, NEW v, NEW o, NEW k \in Bytes, NEW f \in Bytes, HasForm(line, v, o, k, f),
         NEW x, x # v, x # o, x # Bar,
         Without(k, x), Without(f, x)
  PROVE  Without(line, x)
<1>1. Len(k) \in Nat /\ Len(f) \in Nat BY DEF Bytes
<1> SUFFICES \A i \in 1..Len(line) : line[i] # x BY DEF Without
<1> USE DEF Without
<1> TAKE i \in 1..Len(line)
<1>2. i \in Nat /\ i <= 5 + Len(k) + Len(f) /\ i >= 1 BY <1>1 DEF HasForm
<1>3. CASE i <= 4
  <2>1. i = 1 \/ i = 2 \/ i = 3 \/ i = 4 BY <1>2, <1>3
  <2> QED BY <2>1 DEF HasForm
<1>4. CASE 4 < i /\ i <= 4 + Len(k)
  <2>1. i - 4 \in 1..Len(k) /\ i = 4 + (i - 4) BY <1>1, <1>2, <1>4
  <2> QED BY <2>1 DEF HasForm
<1>5. CASE i = 5 + Len(k) BY <1>5 DEF HasForm
<1>6. CASE i > 5 + Len(k)
  <2>1. i - (5 + Len(k)) \in 1..Len(f) /\ i = 5 + Len(k) + (i - (5 + Len(k))) BY <1>1, <1>2, <1>6
  <2> QED BY <2>1 DEF HasForm
<1> QED BY <1>1, <1>2, <1>3, <1>4, <1>5, <1>6

\* A record's body is such a line, and has no newline.
LEMMA BodyFact ==
  ASSUME NEW r \in ClientRecords
  PROVE  /\ HasForm(Body(r), r.version, r.op, Escape(r.key), Escape(Payload(r)))
         /\ Body(r) \in Bytes /\ NewLines(Body(r)) = {}
         /\ Encode(r) = Body(r) \o <<NewLine>>
<1>1. EscapeOf(r.key, Escape(r.key)) /\ EscapeOf(Payload(r), Escape(Payload(r)))
  BY RecordFact, EscapeFact
<1>2. Escape(r.key) \in Bytes /\ Escape(Payload(r)) \in Bytes BY <1>1 DEF EscapeOf
<1>3. HasForm(Body(r), r.version, r.op, Escape(r.key), Escape(Payload(r)))
  BY <1>2, RecordFact, FormFact DEF Body
<1>4. /\ \A i \in 1..Len(Escape(r.key)) : Escape(r.key)[i] # NewLine
      /\ \A i \in 1..Len(Escape(Payload(r))) : Escape(Payload(r))[i] # NewLine
  <2>1. \A s \in Bytes : DOMAIN s = 1..Len(s) BY DEF Bytes
  <2> QED BY <1>1, <1>2, <2>1 DEF EscapeOf, NewLines
<1>5. NewLine # Bar BY DEF NewLine, Bar
<1>6. NewLine # r.version /\ NewLine # r.op BY RecordFact
<1>7. \A i \in 1..Len(Body(r)) : Body(r)[i] # NewLine
  <2> DEFINE line == Body(r)
             k == Escape(r.key)
             f == Escape(Payload(r))
  <2>1. /\ k \in Bytes /\ f \in Bytes /\ HasForm(line, r.version, r.op, k, f)
        /\ Without(k, NewLine) /\ Without(f, NewLine)
    BY <1>2, <1>3, <1>4 DEF Without
  <2> HIDE DEF line, k, f
  <2>2. Without(line, NewLine) BY <1>5, <1>6, <2>1, FormBytes
  <2> QED BY <2>2 DEF line, Without
<1>8. Body(r) \in Bytes /\ DOMAIN Body(r) = 1..Len(Body(r)) BY <1>3 DEF HasForm, Bytes
<1>9. Encode(r) = Body(r) \o <<NewLine>> BY DEF Encode, Body, Payload
<1> QED BY <1>3, <1>7, <1>8, <1>9 DEF NewLines

\* The first three fields of a record's line, by its third separator.
FieldsAre(line, s, r) ==
  /\ Field(line, 2) = <<r.op>>
  /\ Field(line, 3) \in Bytes /\ Field(line, 3) # <<>>
  /\ IF Plain(r.key)
     THEN Field(line, 3) = r.key /\ s = 5 + Len(r.key)
     ELSE ~Plain(Field(line, 3))
  /\ Field(line, 4) = SubSeq(line, s + 1, Len(line))

\* What a body is cut to still has its header and its key.
LEMMA BodyFields ==
  ASSUME NEW r \in ClientRecords, NEW line \in Bytes, Begins(line, Body(r)),
         4 + Len(Escape(r.key)) <= Len(line)
  PROVE  /\ Cardinality(Separators(line)) >= 3 <=> \E s \in Nat : Third(line, s)
         /\ \A s \in Nat : Third(line, s) => FieldsAre(line, s, r)
<1> DEFINE k == Escape(r.key)
           f == Escape(Payload(r))
<1>1. EscapeOf(r.key, k) /\ k \in Bytes /\ f \in Bytes
  BY RecordFact, EscapeFact DEF EscapeOf
<1>2. /\ HasForm(Body(r), r.version, r.op, k, f)
      /\ Len(line) <= Len(Body(r)) /\ \A i \in 1..Len(line) : line[i] = Body(r)[i]
  BY BodyFact DEF Begins
<1>3. 4 + Len(k) <= Len(line) OBVIOUS
<1>4. r.version # Bar /\ r.op # Bar /\ r.key \in Bytes /\ r.key # <<>> BY RecordFact
<1> HIDE DEF k, f
<1>5. Len(k) \in Nat /\ Len(f) \in Nat /\ Len(line) \in Nat /\ DOMAIN line = 1..Len(line)
  BY <1>1 DEF Bytes
<1>6. line[1] = r.version /\ line[2] = Bar /\ line[3] = r.op /\ line[4] = Bar
  <2>1. 1 \in 1..Len(line) /\ 2 \in 1..Len(line) /\ 3 \in 1..Len(line) /\ 4 \in 1..Len(line)
    BY <1>3, <1>5
  <2> QED BY <1>2, <2>1 DEF HasForm
<1>7. \A i \in 1..Len(k) : line[4 + i] = k[i] /\ 4 + i \in 1..Len(line)
  <2> TAKE i \in 1..Len(k)
  <2>1. 4 + i \in 1..Len(line) BY <1>3, <1>5
  <2> QED BY <1>2, <2>1 DEF HasForm
<1>8. 5 + Len(k) <= Len(line) => line[5 + Len(k)] = Bar
  <2>1. 5 + Len(k) <= Len(line) => 5 + Len(k) \in 1..Len(line) BY <1>5
  <2> QED BY <1>2, <2>1 DEF HasForm
<1>9. \A i \in 1..4 : i \in Separators(line) <=> i \in {2, 4}
  <2>1. \A i \in 1..4 : (i = 1 \/ i = 2 \/ i = 3 \/ i = 4) /\ i \in 1..Len(line) BY <1>3, <1>5
  <2> QED BY <1>4, <1>5, <1>6, <2>1 DEF Separators
<1>10. Len(line) >= 4 BY <1>3, <1>5
<1>11. ASSUME NEW s \in Nat, Third(line, s) PROVE FieldsAre(line, s, r)
  <2>1. /\ s \in 5..Len(line) /\ line[s] = Bar
        /\ \A j \in 5..(s - 1) : line[j] # Bar
    <3>1. s \in 1..Len(line) /\ line[s] = Bar /\ s > 4 BY <1>5, <1>11 DEF Third, Separators
    <3>2. ASSUME NEW j \in 5..(s - 1), line[j] = Bar PROVE FALSE
      <4>1. j \in 1..Len(line) /\ j > 4 /\ ~(s <= j) BY <1>5, <3>1
      <4>2. j \in Separators(line) BY <1>5, <3>2, <4>1 DEF Separators
      <4> QED BY <1>11, <4>1, <4>2 DEF Third
    <3> QED BY <1>5, <3>1, <3>2
  <2>2. /\ Field(line, 2) = SubSeq(line, 3, 3)
        /\ Field(line, 3) = SubSeq(line, 5, s - 1)
        /\ Field(line, 4) = SubSeq(line, s + 1, Len(line))
    BY <1>9, <1>10, <1>11, SplitFact
  <2>3. SubSeq(line, 3, 3) = <<r.op>>
    <3> DEFINE t == SubSeq(line, 3, 3)
    <3>1. t \in Bytes /\ Len(t) = 1 /\ t[1] = r.op BY <1>5, <1>6, <1>10 DEF Bytes
    <3>2. <<r.op>> \in Bytes /\ Len(<<r.op>>) = 1 /\ <<r.op>>[1] = r.op
      <4>1. r.op \in Char BY RecordFact
      <4> QED BY <4>1 DEF Bytes
    <3>3. \A q \in 1..1 : t[q] = <<r.op>>[q] BY <3>1, <3>2
    <3> HIDE DEF t
    <3>4. t = <<r.op>> BY <3>1, <3>2, <3>3, SameBytes
    <3> QED BY <3>4 DEF t
  <2> DEFINE key == SubSeq(line, 5, s - 1)
  <2>4. /\ key \in Bytes /\ Len(key) = s - 5
        /\ \A i \in 1..(s - 5) : key[i] = line[4 + i]
    BY <1>5, <2>1 DEF Bytes
  <2> HIDE DEF key
  <2>5. k # <<>> /\ Len(k) >= 1 BY <1>1, <1>4, <1>5 DEF EscapeOf, Bytes
  <2>6. ASSUME Plain(r.key) PROVE key = r.key /\ s = 5 + Len(r.key)
    <3>1. k = r.key BY <1>1, <2>6 DEF EscapeOf
    <3>2. \A i \in 1..Len(k) : k[i] # Bar
      <4>1. DOMAIN r.key = 1..Len(r.key) BY <1>4 DEF Bytes
      <4> QED BY <2>6, <3>1, <4>1 DEF Plain, Special
    <3>3. s >= 5 + Len(k)
      <4> SUFFICES ASSUME s < 5 + Len(k) PROVE FALSE BY <1>5, <2>1
      <4>1. s - 4 \in 1..Len(k) /\ s = 4 + (s - 4) BY <1>5, <2>1
      <4>2. line[s] = k[s - 4] BY <1>7, <4>1
      <4> QED BY <2>1, <3>2, <4>1, <4>2
    <3>4. s = 5 + Len(k)
      <4> SUFFICES ASSUME s > 5 + Len(k) PROVE FALSE BY <1>5, <2>1, <3>3
      <4>1. 5 + Len(k) \in 5..(s - 1) /\ 5 + Len(k) <= Len(line) BY <1>5, <2>1
      <4> QED BY <1>8, <2>1, <4>1
    <3>5. Len(key) = Len(r.key) BY <1>5, <2>4, <3>1, <3>4
    <3>6. \A i \in 1..Len(key) : key[i] = r.key[i]
      <4>1. s - 5 = Len(k) /\ Len(key) = Len(k) BY <1>5, <2>4, <3>4
      <4> QED BY <1>7, <2>4, <3>1, <4>1
    <3>7. key = r.key BY <1>4, <2>4, <3>5, <3>6, SameBytes
    <3> QED BY <3>1, <3>4, <3>7
  <2>7. ASSUME ~Plain(r.key) PROVE ~Plain(key) /\ s # 5
    <3>1. PICK p \in 1..Len(k) : k[p] = "\\" /\ \A q \in 1..p : k[q] # Bar
      BY <1>1, <2>7 DEF EscapeOf
    <3>2. s > 4 + p
      <4> SUFFICES ASSUME s <= 4 + p PROVE FALSE BY <1>5, <2>1
      <4>1. s - 4 \in 1..p /\ s - 4 \in 1..Len(k) /\ s = 4 + (s - 4) BY <1>5, <2>1
      <4>2. line[s] = k[s - 4] BY <1>7, <4>1
      <4> QED BY <2>1, <3>1, <4>1, <4>2
    <3>3. p \in 1..(s - 5) /\ s # 5 BY <1>5, <2>1, <3>2
    <3>4. key[p] = "\\" BY <1>7, <2>4, <3>1, <3>3
    <3>5. p \in DOMAIN key BY <2>4, <3>3 DEF Bytes
    <3> QED BY <3>3, <3>4, <3>5 DEF Plain, Special
  <2>8. key # <<>>
    <3>1. s # 5
      <4>1. CASE Plain(r.key)
        <5>1. s = 5 + Len(r.key) /\ k = r.key BY <1>1, <2>6, <4>1 DEF EscapeOf
        <5> QED BY <1>5, <2>5, <5>1
      <4> QED BY <2>7, <4>1
    <3>2. Len(key) # 0 BY <2>1, <2>4, <3>1
    <3> QED BY <3>2
  <2> QED BY <2>2, <2>3, <2>4, <2>6, <2>7, <2>8 DEF FieldsAre, key
<1> QED BY <1>9, <1>10, <1>11, SplitFact

\* A line that the formatter trims to the header, key and perhaps value of a record.
TrimsTo(data, line, r) ==
  /\ Trimmed(data) = line /\ line \in Bytes
  /\ Begins(line, Body(r)) /\ 4 + Len(Escape(r.key)) <= Len(line)

\* How a line is decoded depends on its third separator.
LEMMA ThirdFact ==
  ASSUME NEW r \in ClientRecords, NEW data, NEW line, TrimsTo(data, line, r)
  PROVE  /\ Decodes(data) <=> \E s \in Nat : Third(line, s)
         /\ \A s \in Nat : Third(line, s) =>
              /\ FieldsAre(line, s, r)
              /\ Decode(data).op = r.op
              /\ Decode(data).key = Field(line, 3)
              /\ Decode(data).value = SubSeq(line, s + 1, Len(line))
<1>1. /\ Trimmed(data) = line /\ line \in Bytes
      /\ Begins(line, Body(r)) /\ 4 + Len(Escape(r.key)) <= Len(line)
  BY DEF TrimsTo
<1>2. /\ Cardinality(Separators(line)) >= 3 <=> \E s \in Nat : Third(line, s)
      /\ \A s \in Nat : Third(line, s) => FieldsAre(line, s, r)
  BY <1>1, BodyFields
<1>3. ASSUME NEW s \in Nat, Third(line, s)
      PROVE  /\ Field(line, 2) \in {<<"put">>, <<"del">>} /\ Field(line, 3) # <<>>
             /\ Decode(data).op = r.op
             /\ Decode(data).key = Field(line, 3)
             /\ Decode(data).value = SubSeq(line, s + 1, Len(line))
  <2>1. FieldsAre(line, s, r) BY <1>2, <1>3
  <2>2. /\ Decode(data).op = Field(line, 2)[1] /\ Decode(data).key = Field(line, 3)
        /\ Decode(data).value = Field(line, 4)
    BY <1>1 DEF Decode
  <2>3. r.op = "put" \/ r.op = "del" BY RecordFact
  <2>4. Field(line, 2) = <<r.op>> /\ <<r.op>>[1] = r.op BY <2>1 DEF FieldsAre
  <2>5. <<r.op>> \in {<<"put">>, <<"del">>} BY <2>3
  <2> QED BY <2>1, <2>2, <2>4, <2>5 DEF FieldsAre
<1>4. Decodes(data) <=> \E s \in Nat : Third(line, s)
  <2>1. Decodes(data) <=> /\ Cardinality(Separators(line)) >= 3
                          /\ Field(line, 2) \in {<<"put">>, <<"del">>}
                          /\ Field(line, 3) # <<>>
    BY <1>1 DEF Decodes
  <2> QED BY <1>2, <1>3, <2>1
<1> QED BY <1>2, <1>3, <1>4

\* A line that reaches beyond the key has a third separator.
LEMMA ThirdExists ==
  ASSUME NEW r \in ClientRecords, NEW data, NEW line, TrimsTo(data, line, r),
         5 + Len(Escape(r.key)) <= Len(line)
  PROVE  \E s \in Nat : Third(line, s)
<1> DEFINE n == 5 + Len(Escape(r.key))
           R == {j \in Separators(line) : j > 4}
<1>1. Escape(r.key) \in Bytes BY RecordFact, EscapeFact DEF EscapeOf
<1>2. Len(Escape(r.key)) \in Nat /\ line \in Bytes /\ Len(line) \in Nat
  BY <1>1 DEF TrimsTo, Bytes
<1>3. n \in 1..Len(line) /\ n > 4 BY <1>2
<1>4. Body(r)[n] = Bar BY BodyFact DEF HasForm
<1> HIDE DEF n
<1>5. line[n] = Bar BY <1>3, <1>4 DEF TrimsTo, Begins
<1>6. n \in R BY <1>2, <1>3, <1>5 DEF Separators, Bytes
<1>7. R \in SUBSET Nat BY <1>2, SeparatorsFact
<1>8. PICK s \in R : \A j \in R : s <= j
  <2> HIDE DEF R
  <2> QED BY <1>6, <1>7, LeastElement
<1>9. Third(line, s) BY <1>8 DEF Third
<1> QED BY <1>7, <1>9

\* What is left of a line by the two trims.
LEMMA TrimmedFact ==
  ASSUME NEW line \in Bytes, line # <<>>, NewLines(line) = {}
  PROVE  /\ Trimmed(line \o <<NewLine>>) = line
         /\ Trimmed(line) = IF Last(line) = Bar THEN SubSeq(line, 1, Len(line) - 1) ELSE line
<1>1. Len(line) \in Nat /\ Len(line) >= 1 /\ DOMAIN line = 1..Len(line) BY DEF Bytes
<1>2. \A i \in 1..Len(line) : line[i] # NewLine BY <1>1 DEF NewLines
<1>3. NewLine # Bar BY DEF NewLine, Bar
<1>4. Trimmed(line \o <<NewLine>>) = line
  <2> DEFINE data == line \o <<NewLine>>
  <2>1. <<NewLine>> \in Bytes /\ Len(<<NewLine>>) = 1 /\ <<NewLine>>[1] = NewLine
    <3>1. NewLine \in Char BY DEF Char, Special
    <3> QED BY <3>1 DEF Bytes
  <2>2. /\ data \in Bytes /\ Len(data) = Len(line) + 1
        /\ \A i \in 1..Len(line) : data[i] = line[i]
        /\ data[Len(line) + 1] = NewLine
    BY <1>1, <2>1, Joined
  <2> HIDE DEF data
  <2>3. data # <<>> /\ Last(data) = NewLine BY <1>1, <2>2 DEF Last
  <2>4. TrimSuffix(data, Bar) = data BY <1>3, <2>3 DEF TrimSuffix
  <2>5. Front(data) = line
    <3>1. Front(data) = SubSeq(data, 1, Len(line)) BY <1>1, <2>2 DEF Front
    <3>2. SubSeq(data, 1, Len(line)) \in Bytes /\ Len(SubSeq(data, 1, Len(line))) = Len(line)
          /\ \A i \in 1..Len(line) : SubSeq(data, 1, Len(line))[i] = data[i]
      BY <1>1, <2>2 DEF Bytes
    <3>3. SubSeq(data, 1, Len(line)) = line BY <2>2, <3>2, SameBytes
    <3> QED BY <3>1, <3>3
  <2>6. TrimSuffix(data, NewLine) = line BY <2>3, <2>5 DEF TrimSuffix
  <2>7. Trimmed(data) = line BY <2>4, <2>6 DEF Trimmed
  <2> QED BY <2>7 DEF data
<1>5. Trimmed(line) = IF Last(line) = Bar THEN SubSeq(line, 1, Len(line) - 1) ELSE line
  <2> DEFINE cut == TrimSuffix(line, Bar)
  <2>1. cut = IF Last(line) = Bar THEN SubSeq(line, 1, Len(line) - 1) ELSE line
    BY DEF TrimSuffix, Front
  <2>2. /\ cut \in Bytes /\ Len(cut) <= Len(line)
        /\ \A i \in 1..Len(cut) : cut[i] = line[i]
    <3>1. CASE Last(line) = Bar
      <4>1. /\ SubSeq(line, 1, Len(line) - 1) \in Bytes
            /\ Len(SubSeq(line, 1, Len(line) - 1)) = Len(line) - 1
            /\ \A i \in 1..(Len(line) - 1) : SubSeq(line, 1, Len(line) - 1)[i] = line[i]
        BY <1>1 DEF Bytes
      <4> QED BY <1>1, <2>1, <3>1, <4>1
    <3>2. CASE Last(line) # Bar BY <1>1, <2>1, <3>2
    <3> QED BY <3>1, <3>2
  <2> HIDE DEF cut
  <2>3. ~(cut # <<>> /\ Last(cut) = NewLine)
    <3> SUFFICES ASSUME cut # <<>>, cut[Len(cut)] = NewLine PROVE FALSE BY DEF Last
    <3>1. Len(cut) \in 1..Len(cut) /\ Len(cut) \in 1..Len(line) BY <1>1, <2>2 DEF Bytes
    <3> QED BY <1>2, <2>2, <3>1
  <2>4. TrimSuffix(cut, NewLine) = cut BY <2>3 DEF TrimSuffix
  <2>5. Trimmed(line) = cut BY <2>4 DEF Trimmed, cut
  <2> QED BY <2>1, <2>5
<1> QED BY <1>4, <1>5

\* What a line is read as, if it is that of a record.
ReadsAs(data, r) ==
  /\ Decode(data).op = r.op
  /\ IF Plain(r.key) THEN Decode(data).key = r.key ELSE ~Plain(Decode(data).key)
  /\ Plain(r.key) /\ r.op = "put" /\ Plain(r.value) => Decode(data).value = r.value

\* A line that is trimmed to the whole body is read with its value.
LEMMA ReadsWhole ==
  ASSUME NEW r \in ClientRecords, NEW data, TrimsTo(data, Body(r), r)
  PROVE  Decodes(data) /\ ReadsAs(data, r)
<1> DEFINE k == Escape(r.key)
           f == Escape(Payload(r))
           line == Body(r)
<1>1. /\ k \in Bytes /\ f \in Bytes /\ HasForm(line, r.version, r.op, k, f)
      /\ EscapeOf(r.key, k) /\ EscapeOf(Payload(r), f)
  BY RecordFact, EscapeFact, BodyFact DEF EscapeOf
<1>2. Len(k) \in Nat /\ Len(f) \in Nat /\ Len(line) = 5 + Len(k) + Len(f) /\ line \in Bytes
  BY <1>1 DEF Bytes, HasForm
<1>3. 5 + Len(k) <= Len(line) BY <1>2
<1>4. PICK s \in Nat : Third(line, s) BY <1>3, ThirdExists
<1>5. /\ Decodes(data) /\ FieldsAre(line, s, r)
      /\ Decode(data).op = r.op
      /\ Decode(data).key = Field(line, 3)
      /\ Decode(data).value = SubSeq(line, s + 1, Len(line))
  BY <1>4, ThirdFact
<1>6. ASSUME Plain(r.key), r.op = "put", Plain(r.value) PROVE Decode(data).value = r.value
  <2>1. s = 5 + Len(k) BY <1>1, <1>5, <1>6 DEF FieldsAre, EscapeOf
  <2>2. Payload(r) = r.value /\ f = r.value BY <1>1, <1>6 DEF Payload, EscapeOf
  <2> HIDE DEF line, f, k
  <2> DEFINE t == SubSeq(line, s + 1, Len(line))
  <2>3. /\ t \in Bytes /\ Len(t) = Len(f)
        /\ \A i \in 1..Len(f) : t[i] = line[s + i]
    <3>1. Len(line) \in Nat /\ s + 1 \in 1..(Len(line) + 1) /\ Len(line) - s = Len(f) BY <1>2, <2>1
    <3>2. t \in Bytes /\ Len(t) = Len(line) - s /\ \A i \in 1..(Len(line) - s) : t[i] = line[s + i]
      BY <1>2, <3>1 DEF Bytes
    <3> QED BY <3>1, <3>2
  <2> HIDE DEF t
  <2>4. \A i \in 1..Len(t) : t[i] = f[i] BY <1>1, <2>1, <2>3 DEF HasForm
  <2>5. t = f BY <1>1, <2>3, <2>4, SameBytes
  <2> QED BY <1>5, <2>2, <2>5 DEF t
<1>7. IF Plain(r.key) THEN Decode(data).key = r.key ELSE ~Plain(Decode(data).key)
  BY <1>5 DEF FieldsAre
<1> QED BY <1>5, <1>6, <1>7 DEF ReadsAs

\* Read at its offset, with its newline, a record is whole.
LEMMA OffsetDecode ==
  ASSUME NEW r \in ClientRecords
  PROVE  Decodes(Encode(r)) /\ ReadsAs(Encode(r), r)
<1>1. /\ Body(r) \in Bytes /\ NewLines(Body(r)) = {} /\ Encode(r) = Body(r) \o <<NewLine>>
      /\ Len(Body(r)) = 5 + Len(Escape(r.key)) + Len(Escape(Payload(r)))
  BY BodyFact DEF HasForm
<1>2. Escape(r.key) \in Bytes /\ Escape(Payload(r)) \in Bytes
  BY RecordFact, EscapeFact DEF EscapeOf
<1>3. Len(Escape(r.key)) \in Nat /\ Len(Escape(Payload(r))) \in Nat BY <1>2 DEF Bytes
<1>4. Body(r) # <<>> /\ 4 + Len(Escape(r.key)) <= Len(Body(r)) BY <1>1, <1>3
<1>5. Trimmed(Encode(r)) = Body(r) BY <1>1, <1>4, TrimmedFact
<1>6. TrimsTo(Encode(r), Body(r), r) BY <1>1, <1>4, <1>5 DEF TrimsTo, Begins, Bytes
<1> QED BY <1>6, ReadsWhole

\* Scanned, it loses a separator at its end, and is not decoded if that was the third.
LEMMA ScanDecode ==
  ASSUME NEW r \in ClientRecords
  PROVE  /\ Decodes(Body(r)) \/ (r.op = "put" /\ r.value = <<>>)
         /\ Plain(r.key) /\ r.op = "put" /\ r.value = <<>> => ~Decodes(Body(r))
         /\ Decodes(Body(r)) => ReadsAs(Body(r), r)
<1> DEFINE k == Escape(r.key)
           f == Escape(Payload(r))
           body == Body(r)
           line == Trimmed(body)
<1>1. /\ k \in Bytes /\ f \in Bytes /\ HasForm(body, r.version, r.op, k, f)
      /\ EscapeOf(r.key, k) /\ EscapeOf(Payload(r), f)
      /\ body \in Bytes /\ NewLines(body) = {}
  BY RecordFact, EscapeFact, BodyFact DEF EscapeOf
<1>2. Len(k) \in Nat /\ Len(f) \in Nat /\ Len(body) = 5 + Len(k) + Len(f) BY <1>1 DEF Bytes, HasForm
<1>3. body # <<>> BY <1>2
<1>4. line = IF Last(body) = Bar THEN SubSeq(body, 1, Len(body) - 1) ELSE body
  BY <1>1, <1>3, TrimmedFact
<1>5. TrimsTo(body, line, r) /\ Len(line) \in Nat /\ (Last(body) = Bar => Len(line) = Len(body) - 1)
  <2>1. CASE Last(body) = Bar
    <3> HIDE DEF body, k, f
    <3>1. /\ SubSeq(body, 1, Len(body) - 1) \in Bytes
          /\ Len(SubSeq(body, 1, Len(body) - 1)) = Len(body) - 1
          /\ \A i \in 1..(Len(body) - 1) : SubSeq(body, 1, Len(body) - 1)[i] = body[i]
      BY <1>1, <1>2 DEF Bytes
    <3>2. line \in Bytes /\ Len(line) = Len(body) - 1 /\ Begins(line, body)
      BY <1>2, <1>4, <2>1, <3>1 DEF Begins
    <3>3. 4 + Len(k) <= Len(line) /\ Len(line) \in Nat BY <1>2, <3>2
    <3> QED BY <3>2, <3>3 DEF TrimsTo, body, k
  <2>2. CASE Last(body) # Bar
    <3> HIDE DEF body, k, f
    <3>1. line = body /\ Begins(line, body) /\ 4 + Len(k) <= Len(line) /\ Len(line) \in Nat
      BY <1>2, <1>4, <2>2 DEF Begins
    <3> QED BY <1>1, <2>2, <3>1 DEF TrimsTo, body, k
  <2> QED BY <2>1, <2>2
<1>6. ASSUME NEW s \in Nat, Third(line, s)
      PROVE  Decodes(body) /\ ReadsAs(body, r) /\ s \in 1..Len(line)
  <2>1. /\ Decodes(body) /\ FieldsAre(line, s, r)
        /\ Decode(body).op = r.op /\ Decode(body).key = Field(line, 3)
    BY <1>5, <1>6, ThirdFact
  <2>2. s \in 1..Len(line) BY <1>5, <1>6, SeparatorsFact DEF TrimsTo, Third
  <2>3. ASSUME Plain(r.key), r.op = "put", Plain(r.value) PROVE Decode(body).value = r.value
    <3>1. k = r.key /\ Payload(r) = r.value /\ f = r.value /\ s = 5 + Len(k)
      BY <1>1, <2>1, <2>3 DEF FieldsAre, EscapeOf, Payload
    <3>2. f # <<>> /\ Len(f) >= 1
      <4>1. SUFFICES Len(f) # 0 BY <1>2
      <4>2. SUFFICES ASSUME Len(f) = 0 PROVE FALSE OBVIOUS
      <4>3. Last(body) = Bar
        <5>1. Len(body) = 5 + Len(k) BY <1>2, <4>2
        <5> QED BY <1>1, <5>1 DEF HasForm, Last
      <4>4. Len(line) = 4 + Len(k) BY <1>2, <1>5, <4>2, <4>3
      <4> QED BY <1>2, <2>2, <3>1, <4>4
    <3>3. Last(body) # Bar
      <4>1. Len(f) \in 1..Len(f) /\ Len(f) \in DOMAIN f BY <1>1, <1>2, <3>2 DEF Bytes
      <4>2. body[Len(body)] = f[Len(f)] BY <1>1, <1>2, <4>1 DEF HasForm
      <4>3. f[Len(f)] \notin Special BY <2>3, <3>1, <4>1 DEF Plain
      <4> QED BY <4>2, <4>3 DEF Last, Special
    <3>4. TrimsTo(body, Body(r), r) BY <1>4, <1>5, <3>3
    <3>5. ReadsAs(body, r) BY <3>4, ReadsWhole
    <3> QED BY <2>3, <3>5 DEF ReadsAs
  <2> QED BY <2>1, <2>2, <2>3 DEF ReadsAs, FieldsAre
<1>7. Decodes(body) <=> \E s \in Nat : Third(line, s) BY <1>5, ThirdFact
<1>8. ASSUME ~(r.op = "put" /\ r.value = <<>>) PROVE Decodes(body)
  <2>1. Payload(r) # <<>>
    <3>1. r.op \in {"put", "del"} BY RecordFact
    <3>2. <<"-1">> # <<>> OBVIOUS
    <3> QED BY <1>8, <3>1, <3>2 DEF Payload
  <2>2. f # <<>> BY <1>1, <2>1 DEF EscapeOf
  <2>3. Len(f) >= 1 BY <1>1, <1>2, <2>2 DEF Bytes
  <2>4. 5 + Len(k) <= Len(line) BY <1>2, <1>4, <1>5, <2>3
  <2>5. \E s \in Nat : Third(line, s) BY <1>5, <2>4, ThirdExists
  <2> QED BY <1>7, <2>5
<1>9. ASSUME Plain(r.key), r.op = "put", r.value = <<>>, Decodes(body) PROVE FALSE
  <2>1. PICK s \in Nat : Third(line, s) BY <1>7, <1>9
  <2>2. s \in 1..Len(line) BY <1>6, <2>1
  <2>3. FieldsAre(line, s, r) BY <1>5, <2>1, ThirdFact
  <2>4. s = 5 + Len(k) /\ f = <<>> BY <1>1, <1>9, <2>3 DEF FieldsAre, EscapeOf, Payload
  <2>5. Last(body) = Bar
    <3>1. Len(body) = 5 + Len(k) BY <1>2, <2>4
    <3> QED BY <1>1, <3>1 DEF HasForm, Last
  <2>6. Len(line) = 4 + Len(k) BY <1>2, <1>5, <2>4, <2>5
  <2> QED BY <1>2, <2>2, <2>4, <2>6
<1> QED BY <1>6, <1>7, <1>8, <1>9

-----------------------------------------------------------------------------
(* Lines of a file. *)

\* The newlines of a file.
LEMMA NewLinesFact ==
  ASSUME NEW bytes \in Bytes
  PROVE  /\ Len(bytes) \in Nat /\ DOMAIN bytes = 1..Len(bytes)
         /\ NewLines(bytes) \subseteq 1..Len(bytes)
         /\ IsFiniteSet(NewLines(bytes))
         /\ \A p : p \in NewLines(bytes) <=> p \in 1..Len(bytes) /\ bytes[p] = NewLine
<1>1. Len(bytes) \in Nat /\ DOMAIN bytes = 1..Len(bytes) BY DEF Bytes
<1>2. IsFiniteSet(1..Len(bytes)) BY <1>1, IntervalFact
<1>3. NewLines(bytes) \subseteq 1..Len(bytes) BY <1>1 DEF NewLines
<1>4. IsFiniteSet(NewLines(bytes)) BY <1>2, <1>3, FS_Subset
<1> QED BY <1>1, <1>3, <1>4 DEF NewLines

\* Where a line starts is one past the newline before it.
StartsAt(bytes, end, a) ==
  /\ a \in 1..end
  /\ a = 1 \/ a - 1 \in NewLines(bytes)
  /\ \A j \in NewLines(bytes) : j < end => j < a

\* LineStart finds that place, the only one.
LEMMA LineStartFact ==
  ASSUME NEW bytes \in Bytes, NEW end \in Nat, end >= 1
  PROVE  /\ StartsAt(bytes, end, LineStart(bytes, end))
         /\ \A a : StartsAt(bytes, end, a) => LineStart(bytes, end) = a
<1> DEFINE starts == {1} \cup {j + 1 : j \in NewLines(bytes)}
           P(a) == a <= end /\ \A j \in NewLines(bytes) : j < end => j < a
<1>1. NewLines(bytes) \subseteq Nat \ {0} BY NewLinesFact
<1>2. \A a : a \in starts /\ P(a) <=> StartsAt(bytes, end, a)
  <2>1. ASSUME NEW a \in starts, P(a) PROVE StartsAt(bytes, end, a)
    <3>1. a = 1 \/ \E j \in NewLines(bytes) : a = j + 1 OBVIOUS
    <3>2. a \in Nat /\ a >= 1 BY <1>1, <3>1
    <3>3. a = 1 \/ a - 1 \in NewLines(bytes) BY <1>1, <3>1
    <3> QED BY <2>1, <3>2, <3>3 DEF StartsAt
  <2>2. ASSUME NEW a, StartsAt(bytes, end, a) PROVE a \in starts /\ P(a)
    <3>1. a \in Nat /\ a <= end BY <2>2 DEF StartsAt
    <3>2. a - 1 \in NewLines(bytes) => a = (a - 1) + 1 BY <3>1
    <3> QED BY <2>2, <3>1, <3>2 DEF StartsAt
  <2> QED BY <2>1, <2>2
<1>3. \E a \in starts : P(a)
  <2> DEFINE R == {j \in NewLines(bytes) : j < end}
  <2>1. CASE R = {}
    <3>1. P(1) BY <1>1, <2>1
    <3> QED BY <3>1
  <2>2. CASE R # {}
    <3>1. R \in SUBSET Nat /\ \A j \in R : j <= end BY <1>1
    <3>2. PICK m \in R : \A j \in R : j <= m
      <4> HIDE DEF R
      <4> QED BY <2>2, <3>1, GreatestElement
    <3>3. m + 1 \in starts OBVIOUS
    <3>4. P(m + 1) BY <1>1, <3>1, <3>2
    <3> QED BY <3>3, <3>4
  <2> QED BY <2>1, <2>2
<1>4. \A a, b \in starts : P(a) /\ P(b) => a = b
  <2> SUFFICES ASSUME NEW a \in starts, NEW b \in starts, P(a), P(b) PROVE a = b
    OBVIOUS
  <2>1. StartsAt(bytes, end, a) /\ StartsAt(bytes, end, b) BY <1>2
  <2>2. a \in Nat /\ b \in Nat /\ a >= 1 /\ b >= 1 /\ a <= end /\ b <= end BY <2>1 DEF StartsAt
  <2>3. a <= b
    <3> SUFFICES ASSUME a > b PROVE FALSE BY <2>2
    <3>1. a - 1 \in NewLines(bytes) /\ a - 1 < end BY <2>1, <2>2 DEF StartsAt
    <3>2. a - 1 < b BY <2>1, <3>1 DEF StartsAt
    <3> QED BY <2>2, <3>2
  <2>4. b <= a
    <3> SUFFICES ASSUME b > a PROVE FALSE BY <2>2
    <3>1. b - 1 \in NewLines(bytes) /\ b - 1 < end BY <2>1, <2>2 DEF StartsAt
    <3>2. b - 1 < a BY <2>1, <3>1 DEF StartsAt
    <3> QED BY <2>2, <3>2
  <2> QED BY <2>2, <2>3, <2>4
<1>5. LineStart(bytes, end) = CHOOSE a \in starts : P(a) BY DEF LineStart
<1> HIDE DEF starts, P
<1>6. LineStart(bytes, end) \in starts /\ P(LineStart(bytes, end)) BY <1>3, <1>5
<1> QED BY <1>2, <1>4, <1>6

\* The encoding of a record has its one newline at its end.
LEMMA EncodeFact ==
  ASSUME NEW r \in ClientRecords
  PROVE  /\ Encode(r) \in Bytes /\ Len(Encode(r)) \in Nat /\ Len(Encode(r)) >= 1
         /\ Len(Encode(r)) = Len(Body(r)) + 1
         /\ \A i \in 1..Len(Encode(r)) : Encode(r)[i] = NewLine <=> i = Len(Encode(r))
         /\ Body(r) \in Bytes
         /\ \A i \in 1..Len(Body(r)) : Encode(r)[i] = Body(r)[i]
<1> DEFINE b == Body(r)
<1>1. b \in Bytes /\ NewLines(b) = {} /\ Encode(r) = b \o <<NewLine>> BY BodyFact
<1>2. <<NewLine>> \in Bytes /\ Len(<<NewLine>>) = 1 /\ <<NewLine>>[1] = NewLine
  <2>1. NewLine \in Char BY DEF Char, Special
  <2> QED BY <2>1 DEF Bytes
<1> HIDE DEF b
<1>3. /\ b \o <<NewLine>> \in Bytes /\ Len(b \o <<NewLine>>) = Len(b) + 1
      /\ \A i \in 1..Len(b) : (b \o <<NewLine>>)[i] = b[i]
      /\ (b \o <<NewLine>>)[Len(b) + 1] = NewLine
  BY <1>1, <1>2, Joined
<1>4. Len(b) \in Nat /\ \A i \in 1..Len(b) : b[i] # NewLine BY <1>1, NewLinesFact
<1>5. \A i \in 1..(Len(b) + 1) : i = Len(b) + 1 \/ i \in 1..Len(b) BY <1>4
<1>6. \A i \in 1..(Len(b) + 1) : (b \o <<NewLine>>)[i] = NewLine <=> i = Len(b) + 1
  BY <1>3, <1>4, <1>5
<1> QED BY <1>1, <1>3, <1>4, <1>6 DEF b

\* The line that ends there is that of a record, with its newline.
LineHolds(bytes, end, r) ==
  /\ end - Len(Encode(r)) \in Nat /\ end \in 1..Len(bytes)
  /\ end = Len(Encode(r)) \/ end - Len(Encode(r)) \in NewLines(bytes)
  /\ \A i \in 1..Len(Encode(r)) : bytes[end - Len(Encode(r)) + i] = Encode(r)[i]

\* A line that holds a record is found, and is its body.
LEMMA LineFact ==
  ASSUME NEW bytes \in Bytes, NEW end, NEW r \in ClientRecords, LineHolds(bytes, end, r)
  PROVE  /\ end \in NewLines(bytes)
         /\ LineStart(bytes, end) = end - Len(Encode(r)) + 1
         /\ LineAt(bytes, end) = Body(r)
         /\ SubSeq(bytes, end - Len(Encode(r)) + 1, end) = Encode(r)
<1> DEFINE e == Encode(r)
           n == Len(e)
           q == end - n
<1>1. /\ e \in Bytes /\ n \in Nat /\ n >= 1 /\ n = Len(Body(r)) + 1 /\ Body(r) \in Bytes
      /\ \A i \in 1..n : e[i] = NewLine <=> i = n
      /\ \A i \in 1..Len(Body(r)) : e[i] = Body(r)[i]
  BY EncodeFact
<1>2. /\ q \in Nat /\ end \in 1..Len(bytes)
      /\ end = n \/ q \in NewLines(bytes)
      /\ \A i \in 1..n : bytes[q + i] = e[i]
  BY DEF LineHolds
<1> HIDE DEF e
<1>3. Len(bytes) \in Nat /\ end \in Nat /\ end = q + n /\ q + 1 \in 1..end
  BY <1>1, <1>2, NewLinesFact
<1>4. end \in NewLines(bytes)
  <2>1. n \in 1..n /\ bytes[end] = e[n] BY <1>1, <1>2, <1>3
  <2> QED BY <1>1, <1>2, <2>1, NewLinesFact
<1>5. StartsAt(bytes, end, q + 1)
  <2>1. ASSUME NEW j \in NewLines(bytes), j < end PROVE j < q + 1
    <3> SUFFICES ASSUME j > q PROVE FALSE BY <1>2, NewLinesFact
    <3>1. j \in Nat BY <1>3, NewLinesFact
    <3>2. j - q \in 1..n /\ j - q # n /\ j = q + (j - q) BY <1>1, <1>2, <1>3, <2>1, <3>1
    <3>3. bytes[j] = e[j - q] /\ bytes[j] = NewLine BY <1>2, <3>2, NewLinesFact
    <3> QED BY <1>1, <3>2, <3>3
  <2>2. q + 1 = 1 \/ (q + 1) - 1 \in NewLines(bytes)
    <3>1. end = n => q + 1 = 1 BY <1>1, <1>3
    <3>2. (q + 1) - 1 = q BY <1>2
    <3> QED BY <1>2, <3>1, <3>2
  <2> QED BY <1>3, <2>1, <2>2 DEF StartsAt
<1>6. LineStart(bytes, end) = q + 1
  <2>1. end >= 1 BY <1>2, <1>3
  <2> HIDE DEF q, n
  <2> QED BY <1>3, <1>5, <2>1, LineStartFact
<1>7. SubSeq(bytes, q + 1, end) = e
  <2> DEFINE t == SubSeq(bytes, q + 1, end)
  <2>1. t \in Bytes /\ Len(t) = n /\ \A i \in 1..n : t[i] = bytes[q + i]
    <3>1. q + 1 \in 1..(Len(bytes) + 1) /\ end \in 0..Len(bytes) /\ q + 1 <= end + 1 /\ end - q = n
      BY <1>1, <1>2, <1>3
    <3> HIDE DEF n, q
    <3>2. t \in Bytes /\ Len(t) = end - (q + 1) + 1
      BY <3>1 DEF Bytes
    <3>3. Len(t) = n BY <1>1, <1>2, <1>3, <3>1, <3>2
    <3>4. \A i \in 1..n : t[i] = bytes[q + 1 + i - 1] BY <1>1, <1>2, <1>3, <3>1, <3>3 DEF Bytes
    <3>5. \A i \in 1..n : q + 1 + i - 1 = q + i BY <1>1, <1>2
    <3> QED BY <3>2, <3>3, <3>4, <3>5
  <2> HIDE DEF t
  <2>2. \A i \in 1..Len(t) : t[i] = e[i] BY <1>2, <2>1
  <2>3. t = e BY <1>1, <2>1, <2>2, SameBytes
  <2> QED BY <2>3 DEF t
<1>8. LineAt(bytes, end) = Body(r)
  <2> DEFINE t == SubSeq(bytes, q + 1, end - 1)
             b == Body(r)
  <2>1. t \in Bytes /\ Len(t) = n - 1 /\ \A i \in 1..(n - 1) : t[i] = bytes[q + i]
    <3>1. q + 1 \in 1..(Len(bytes) + 1) /\ end - 1 \in 0..Len(bytes) /\ q + 1 <= (end - 1) + 1
          /\ (end - 1) - (q + 1) + 1 = n - 1
      BY <1>1, <1>2, <1>3
    <3> HIDE DEF n, q
    <3>2. t \in Bytes /\ Len(t) = (end - 1) - (q + 1) + 1
      BY <3>1 DEF Bytes
    <3>3. Len(t) = n - 1 BY <3>1, <3>2
    <3>4. \A i \in 1..(n - 1) : t[i] = bytes[q + 1 + i - 1]
      BY <1>1, <1>2, <1>3, <3>1, <3>3 DEF Bytes
    <3>5. \A i \in 1..(n - 1) : q + 1 + i - 1 = q + i BY <1>1, <1>2
    <3> QED BY <3>2, <3>3, <3>4, <3>5
  <2>2. /\ b \in Bytes /\ n - 1 = Len(b) /\ \A i \in 1..Len(b) : e[i] = b[i]
        /\ \A i \in 1..Len(b) : i \in 1..n
    <3>1. Len(b) \in Nat BY <1>1 DEF Bytes
    <3> QED BY <1>1, <3>1
  <2> HIDE DEF t, b
  <2>3. \A i \in 1..Len(t) : t[i] = b[i] BY <1>2, <2>1, <2>2
  <2>4. t = b BY <2>1, <2>2, <2>3, SameBytes
  <2> QED BY <1>6, <2>4 DEF t, b, LineAt
<1> QED BY <1>4, <1>6, <1>7, <1>8 DEF e

-----------------------------------------------------------------------------
(* Where the records of the log are. *)

\* Files hold bytes.
Typed(fs) == \A i \in DOMAIN fs : fs[i] \in Bytes

\* The order of lines: by file, then by end.
Precedes(p, q) == p[1] < q[1] \/ (p[1] = q[1] /\ p[2] < q[2])

\* Lines that hold the records of the entries.
Placed(fs, entries, at) ==
  \A j \in 1..Len(at) :
    /\ at[j][1] \in DOMAIN fs
    /\ entries[j].rec \in ClientRecords
    /\ LineHolds(fs[at[j][1]], at[j][2], entries[j].rec)

\* There are no other whole lines.
AllPlaced(fs, at) ==
  \A i \in DOMAIN fs : \A p \in NewLines(fs[i]) : \E j \in 1..Len(at) : at[j] = <<i, p>>

\* Lines in their order.
Ascending(at) == \A i, j \in 1..Len(at) : i < j => Precedes(at[i], at[j])

\* The whole lines of the files, in order, are those of the first entries.
Laid(fs, entries, at) ==
  /\ DOMAIN fs \subseteq Nat /\ Typed(fs)
  /\ at \in Seq(Nat \X Nat) /\ Len(at) <= Len(entries)
  /\ Placed(fs, entries, at)
  /\ AllPlaced(fs, at)
  /\ Ascending(at)

\* The file with the highest number.
Topmost(fs, i) == i \in DOMAIN fs /\ \A x \in DOMAIN fs : x <= i

\* gs is fs with some bytes appended to file i.
Appended(fs, gs, i, bytes) ==
  /\ DOMAIN gs = DOMAIN fs /\ gs[i] = fs[i] \o bytes
  /\ \A x \in DOMAIN fs : x # i => gs[x] = fs[x]

\* Bytes appended to a file move none of its lines.
LEMMA LineStays ==
  ASSUME NEW bytes \in Bytes, NEW longer \in Bytes, Begins(bytes, longer),
         NEW r \in ClientRecords, NEW end, LineHolds(bytes, end, r)
  PROVE  LineHolds(longer, end, r)
<1>1. Len(Encode(r)) \in Nat BY EncodeFact
<1>2. /\ end - Len(Encode(r)) \in Nat /\ end \in 1..Len(bytes)
      /\ end = Len(Encode(r)) \/ end - Len(Encode(r)) \in NewLines(bytes)
      /\ \A i \in 1..Len(Encode(r)) : bytes[end - Len(Encode(r)) + i] = Encode(r)[i]
  BY DEF LineHolds
<1>3. Len(bytes) \in Nat /\ Len(longer) \in Nat /\ Len(bytes) <= Len(longer)
      /\ \A i \in 1..Len(bytes) : bytes[i] = longer[i] /\ i \in 1..Len(longer)
  BY NewLinesFact DEF Begins
<1>4. NewLines(bytes) \subseteq NewLines(longer) BY <1>3, NewLinesFact
<1>5. \A i \in 1..Len(Encode(r)) : end - Len(Encode(r)) + i \in 1..Len(bytes)
  BY <1>1, <1>2, <1>3
<1>6. end \in 1..Len(longer) BY <1>2, <1>3
<1>7. \A i \in 1..Len(Encode(r)) : longer[end - Len(Encode(r)) + i] = Encode(r)[i]
  BY <1>2, <1>3, <1>5
<1> QED BY <1>2, <1>4, <1>6, <1>7 DEF LineHolds

\* A record appended to a file of whole lines is its next line.
LEMMA LineAdded ==
  ASSUME NEW bytes \in Bytes, Whole(bytes), NEW r \in ClientRecords
  PROVE  /\ LineHolds(bytes \o Encode(r), Len(bytes) + Len(Encode(r)), r)
         /\ NewLines(bytes \o Encode(r)) = NewLines(bytes) \cup {Len(bytes) + Len(Encode(r))}
         /\ Begins(bytes, bytes \o Encode(r))
         /\ Whole(bytes \o Encode(r))
         /\ bytes \o Encode(r) \in Bytes
<1> DEFINE e == Encode(r)
           both == bytes \o e
           end == Len(bytes) + Len(e)
<1>1. /\ e \in Bytes /\ Len(e) \in Nat /\ Len(e) >= 1
      /\ \A i \in 1..Len(e) : e[i] = NewLine <=> i = Len(e)
  BY EncodeFact
<1>2. Len(bytes) \in Nat BY NewLinesFact
<1> HIDE DEF e
<1>3. /\ both \in Bytes /\ Len(both) = Len(bytes) + Len(e)
      /\ \A i \in 1..Len(bytes) : both[i] = bytes[i]
      /\ \A i \in 1..Len(e) : both[Len(bytes) + i] = e[i]
  BY <1>1, Joined
<1> HIDE DEF both
<1>4. Begins(bytes, both) BY <1>1, <1>2, <1>3 DEF Begins
<1>5. Len(e) \in 1..Len(e) BY <1>1
<1>6. both[end] = NewLine /\ end \in 1..Len(both) BY <1>1, <1>2, <1>3, <1>5
<1>7. Whole(both) BY <1>3, <1>6 DEF Whole, Last
<1>8. NewLines(both) = NewLines(bytes) \cup {end}
  <2>1. NewLines(e) = {Len(e)} BY <1>1, <1>5, NewLinesFact
  <2>2. NewLines(both) = NewLines(bytes) \cup {Len(bytes) + p : p \in NewLines(e)}
    BY <1>1, NewLinesOfBoth DEF both
  <2> QED BY <2>1, <2>2
<1>9. end = Len(e) \/ end - Len(e) \in NewLines(both)
  <2>1. CASE bytes = <<>> BY <1>1, <2>1
  <2>2. CASE bytes # <<>>
    <3>1. Len(bytes) \in 1..Len(bytes) BY <1>2, <2>2 DEF Bytes
    <3>2. bytes[Len(bytes)] = NewLine BY <2>2 DEF Whole, Last
    <3>3. end - Len(e) = Len(bytes) BY <1>1, <1>2
    <3>4. Len(bytes) \in NewLines(bytes) BY <3>1, <3>2, NewLinesFact
    <3> QED BY <1>8, <3>3, <3>4
  <2> QED BY <2>1, <2>2
<1>10. end - Len(e) \in Nat /\ \A i \in 1..Len(e) : both[end - Len(e) + i] = e[i]
  <2>1. end - Len(e) = Len(bytes) BY <1>1, <1>2
  <2> QED BY <1>2, <1>3, <2>1
<1>11. LineHolds(both, end, r) BY <1>6, <1>9, <1>10 DEF LineHolds, e
<1> QED BY <1>3, <1>4, <1>7, <1>8, <1>11 DEF both, e

\* An entry more is laid, at the end of file i.
LaidNext(gs, entries, entry, i) ==
  \E at : /\ Laid(gs, Append(entries, entry), at) /\ Len(at) = Len(entries) + 1
          /\ at[Len(at)] = <<i, Len(gs[i])>>

\* An entry at the end of the topmost file is the next one.
LEMMA LaidAppend ==
  ASSUME NEW fs, NEW gs, NEW i, Topmost(fs, i), Typed(fs), Whole(fs[i]),
         NEW S, NEW entries \in Seq(S), NEW entry, NEW at, Laid(fs, entries, at),
         Len(at) = Len(entries), entry.rec \in ClientRecords, Appended(fs, gs, i, Encode(entry.rec))
  PROVE  LaidNext(gs, entries, entry, i)
<1> DEFINE r == entry.rec
           n == Len(Encode(r))
           end == Len(fs[i]) + n
           bt == Append(at, <<i, end>>)
           longer == Append(entries, entry)
<1>1. fs[i] \in Bytes /\ i \in DOMAIN fs /\ i \in Nat /\ DOMAIN fs \subseteq Nat
  BY DEF Topmost, Typed, Laid
<1>2. /\ LineHolds(gs[i], end, r) /\ NewLines(gs[i]) = NewLines(fs[i]) \cup {end}
      /\ Begins(fs[i], gs[i]) /\ gs[i] \in Bytes
  BY <1>1, LineAdded DEF Appended
<1>3. /\ DOMAIN gs = DOMAIN fs /\ \A x \in DOMAIN fs : x # i => gs[x] = fs[x]
  BY DEF Appended
<1>4. /\ Len(fs[i]) \in Nat /\ n \in Nat /\ n >= 1 /\ end \in Nat
      /\ end = Len(fs[i]) + n /\ Len(gs[i]) = end
  <2>1. Len(fs[i]) \in Nat /\ n \in Nat /\ n >= 1 /\ Encode(r) \in Bytes
    BY <1>1, NewLinesFact, EncodeFact
  <2>2. Len(gs[i]) = Len(fs[i]) + n BY <1>1, <2>1, Joined DEF Appended
  <2> HIDE DEF n
  <2> QED BY <2>1, <2>2
<1> HIDE DEF end, n
<1>5. /\ at \in Seq(Nat \X Nat) /\ Len(at) \in Nat
      /\ bt \in Seq(Nat \X Nat) /\ Len(bt) = Len(at) + 1
      /\ bt[Len(at) + 1] = <<i, end>>
      /\ \A j \in 1..Len(at) : bt[j] = at[j]
  <2>1. at \in Seq(Nat \X Nat) /\ <<i, end>> \in Nat \X Nat BY <1>1, <1>4 DEF Laid
  <2> QED BY <2>1
<1>6. /\ Len(longer) = Len(entries) + 1 /\ longer[Len(at) + 1] = entry
      /\ \A j \in 1..Len(at) : longer[j] = entries[j]
  OBVIOUS
<1> HIDE DEF bt, longer
<1>7. \A j \in 1..(Len(at) + 1) : j \in 1..Len(at) \/ j = Len(at) + 1 BY <1>5
<1>8. Placed(gs, longer, bt)
  <2>1. ASSUME NEW j \in 1..Len(at)
        PROVE  /\ bt[j][1] \in DOMAIN gs /\ longer[j].rec \in ClientRecords
               /\ LineHolds(gs[bt[j][1]], bt[j][2], longer[j].rec)
    <3>1. /\ at[j][1] \in DOMAIN fs /\ entries[j].rec \in ClientRecords
          /\ LineHolds(fs[at[j][1]], at[j][2], entries[j].rec)
      BY DEF Laid, Placed
    <3>2. LineHolds(gs[at[j][1]], at[j][2], entries[j].rec)
      <4>1. CASE at[j][1] = i BY <1>1, <1>2, <3>1, <4>1, LineStays
      <4>2. CASE at[j][1] # i BY <1>3, <3>1, <4>2
      <4> QED BY <4>1, <4>2
    <3> QED BY <1>3, <1>5, <1>6, <3>1, <3>2
  <2>2. /\ bt[Len(at) + 1][1] \in DOMAIN gs /\ longer[Len(at) + 1].rec \in ClientRecords
        /\ LineHolds(gs[bt[Len(at) + 1][1]], bt[Len(at) + 1][2], longer[Len(at) + 1].rec)
    BY <1>1, <1>2, <1>3, <1>5, <1>6
  <2> QED BY <1>5, <1>7, <2>1, <2>2 DEF Placed
<1>9. AllPlaced(gs, bt)
  <2> SUFFICES ASSUME NEW x \in DOMAIN gs, NEW p \in NewLines(gs[x])
               PROVE  \E j \in 1..Len(bt) : bt[j] = <<x, p>>
    BY DEF AllPlaced
  <2>1. CASE x = i /\ p = end
    <3>1. Len(at) + 1 \in 1..Len(bt) BY <1>5
    <3> QED BY <1>5, <2>1, <3>1
  <2>2. CASE ~(x = i /\ p = end)
    <3>1. x \in DOMAIN fs /\ p \in NewLines(fs[x]) BY <1>2, <1>3, <2>2
    <3>2. PICK j \in 1..Len(at) : at[j] = <<x, p>> BY <3>1 DEF Laid, AllPlaced
    <3>3. j \in 1..Len(bt) BY <1>5
    <3> QED BY <1>5, <3>2, <3>3
  <2> QED BY <2>1, <2>2
<1>10. Ascending(bt)
  <2> SUFFICES ASSUME NEW x \in 1..Len(bt), NEW y \in 1..Len(bt), x < y
               PROVE  Precedes(bt[x], bt[y])
    BY DEF Ascending
  <2>1. x \in 1..Len(at) BY <1>5
  <2>2. CASE y \in 1..Len(at) BY <1>5, <2>1, <2>2 DEF Laid, Ascending
  <2>3. CASE y = Len(at) + 1
    <3>1. bt[x] = at[x] /\ bt[y] = <<i, end>> BY <1>5, <2>1, <2>3
    <3>2. /\ at[x][1] \in DOMAIN fs /\ entries[x].rec \in ClientRecords
          /\ LineHolds(fs[at[x][1]], at[x][2], entries[x].rec)
      BY <2>1 DEF Laid, Placed
    <3>3. at[x][1] <= i /\ at[x][1] \in Nat BY <1>1, <3>2 DEF Topmost
    <3>4. CASE at[x][1] = i
      <4>1. at[x][2] \in 1..Len(fs[i]) BY <3>2, <3>4 DEF LineHolds
      <4>2. at[x][2] < end BY <1>4, <4>1
      <4> QED BY <3>1, <3>4, <4>2 DEF Precedes
    <3>5. CASE at[x][1] # i
      <4>1. at[x][1] < i BY <1>1, <3>3, <3>5
      <4> QED BY <3>1, <4>1 DEF Precedes
    <3> QED BY <3>4, <3>5
  <2> QED BY <1>5, <1>7, <2>2, <2>3
<1>11. Typed(gs) BY <1>2, <1>3 DEF Typed
<1>12. Len(bt) <= Len(longer) BY <1>5, <1>6
<1>13. Laid(gs, longer, bt) BY <1>1, <1>3, <1>5, <1>8, <1>9, <1>10, <1>11, <1>12 DEF Laid
<1> QED BY <1>4, <1>5, <1>13 DEF longer, LaidNext

\* Entries after those that are laid do not matter.
LEMMA LaidEntries ==
  ASSUME NEW fs, NEW entries, NEW at, Laid(fs, entries, at), NEW others,
         Len(at) <= Len(others), \A j \in 1..Len(at) : others[j].rec = entries[j].rec
  PROVE  Laid(fs, others, at)
BY DEF Laid, Placed

\* Files with the same bytes.
SameFiles(fs, gs) == DOMAIN gs = DOMAIN fs /\ \A x \in DOMAIN fs : gs[x] = fs[x]

\* The same files hold the same lines.
LEMMA LaidSame ==
  ASSUME NEW fs, NEW gs, SameFiles(fs, gs), NEW entries, NEW at, Laid(fs, entries, at)
  PROVE  Laid(gs, entries, at)
<1>1. Placed(gs, entries, at) BY DEF Laid, Placed, SameFiles
<1>2. AllPlaced(gs, at) BY DEF Laid, AllPlaced, SameFiles
<1>3. Typed(gs) BY DEF Laid, Typed, SameFiles
<1> QED BY <1>1, <1>2, <1>3 DEF Laid, SameFiles

\* gs is fs with file i cut.
Shortened(fs, gs, i) ==
  /\ DOMAIN gs = DOMAIN fs /\ gs[i] \in Bytes /\ Begins(gs[i], fs[i])
  /\ \A x \in DOMAIN fs : x # i => gs[x] = fs[x]

\* A line that is not cut off is left as it was.
LEMMA LineLeft ==
  ASSUME NEW bytes \in Bytes, NEW longer \in Bytes, Begins(bytes, longer),
         NEW r \in ClientRecords, NEW end, LineHolds(longer, end, r), end <= Len(bytes)
  PROVE  LineHolds(bytes, end, r)
<1>1. Len(Encode(r)) \in Nat BY EncodeFact
<1>2. /\ end - Len(Encode(r)) \in Nat /\ end \in 1..Len(longer)
      /\ end = Len(Encode(r)) \/ end - Len(Encode(r)) \in NewLines(longer)
      /\ \A i \in 1..Len(Encode(r)) : longer[end - Len(Encode(r)) + i] = Encode(r)[i]
  BY DEF LineHolds
<1>3. Len(bytes) \in Nat /\ Len(longer) \in Nat /\ Len(bytes) <= Len(longer)
      /\ \A i \in 1..Len(bytes) : bytes[i] = longer[i] /\ i \in 1..Len(longer)
  BY NewLinesFact DEF Begins
<1>4. end \in 1..Len(bytes) BY <1>2, <1>3
<1>5. \A i \in 1..Len(Encode(r)) : end - Len(Encode(r)) + i \in 1..Len(bytes)
  BY <1>1, <1>2, <1>3, <1>4
<1>6. \A p \in NewLines(longer) : p <= Len(bytes) => p \in NewLines(bytes)
  BY <1>3, NewLinesFact
<1>7. end - Len(Encode(r)) <= Len(bytes) BY <1>1, <1>2, <1>3, <1>4
<1>8. \A i \in 1..Len(Encode(r)) : bytes[end - Len(Encode(r)) + i] = Encode(r)[i]
  BY <1>2, <1>3, <1>5
<1> QED BY <1>2, <1>4, <1>6, <1>7, <1>8 DEF LineHolds

\* The last line of the entries that are laid has been cut off.
CutOff(gs, i, at) == at[Len(at)][1] = i /\ at[Len(at)][2] > Len(gs[i])

\* What is left when the topmost file is cut are the first entries.
LEMMA LaidShortened ==
  ASSUME NEW fs, NEW gs, NEW i, Topmost(fs, i), Shortened(fs, gs, i),
         NEW entries, NEW at, Laid(fs, entries, at)
  PROVE  \E bt : /\ Laid(gs, entries, bt) /\ Len(bt) <= Len(at)
                 /\ at # <<>> /\ CutOff(gs, i, at) => Len(bt) < Len(at)
<1>1. /\ i \in DOMAIN fs /\ DOMAIN fs \subseteq Nat /\ fs[i] \in Bytes
      /\ \A x \in DOMAIN fs : x <= i
  BY DEF Topmost, Typed, Laid
<1>2. /\ DOMAIN gs = DOMAIN fs /\ gs[i] \in Bytes /\ Begins(gs[i], fs[i])
      /\ \A x \in DOMAIN fs : x # i => gs[x] = fs[x]
  BY DEF Shortened
<1>3. /\ at \in Seq(Nat \X Nat) /\ Len(at) \in Nat
      /\ \A j \in 1..Len(at) : at[j] \in Nat \X Nat
  BY DEF Laid
<1>4. Len(gs[i]) \in Nat /\ Len(fs[i]) \in Nat BY <1>1, <1>2, NewLinesFact
<1> DEFINE J == {j \in 1..Len(at) : at[j][1] # i \/ at[j][2] <= Len(gs[i])}
<1>5. PICK m \in J \cup {0} : \A j \in J \cup {0} : j <= m
  <2> DEFINE M == J \cup {0}
  <2>1. M \in SUBSET Nat /\ M # {} /\ \A j \in M : j <= Len(at) BY <1>3
  <2> HIDE DEF M
  <2>2. \E m \in M : \A j \in M : j <= m BY <1>3, <2>1, GreatestElement
  <2> QED BY <2>2 DEF M
<1>6. m \in 0..Len(at) BY <1>3, <1>5
<1>7. \A j \in 1..m : j \in J
  <2> SUFFICES ASSUME NEW j \in 1..m, j \notin J PROVE FALSE
    OBVIOUS
  <2>1. j \in 1..Len(at) /\ at[j][1] = i /\ ~(at[j][2] <= Len(gs[i])) BY <1>3, <1>6
  <2>2. m \in J /\ m \in 1..Len(at) BY <1>5, <1>6
  <2>3. j < m BY <1>6, <2>2
  <2>4. Precedes(at[j], at[m]) BY <2>1, <2>2, <2>3 DEF Laid, Ascending
  <2>5. at[m][1] \in DOMAIN fs /\ at[m][1] <= i BY <1>1, <2>2 DEF Laid, Placed
  <2>6. at[m] \in Nat \X Nat /\ at[j] \in Nat \X Nat BY <1>3, <2>1, <2>2
  <2>7. at[m][1] = i /\ at[j][2] < at[m][2] BY <1>1, <2>1, <2>4, <2>5, <2>6 DEF Precedes
  <2>8. at[m][2] <= Len(gs[i]) BY <2>2, <2>7
  <2> QED BY <1>4, <2>1, <2>6, <2>7, <2>8
<1> DEFINE bt == [j \in 1..m |-> at[j]]
<1>8. /\ bt \in Seq(Nat \X Nat) /\ Len(bt) = m
      /\ \A j \in 1..m : bt[j] = at[j] /\ j \in 1..Len(at)
  <2> DEFINE S == Nat \X Nat
  <2>1. m \in Nat /\ \A j \in 1..m : j \in 1..Len(at) /\ at[j] \in S BY <1>3, <1>6
  <2> HIDE DEF S
  <2>2. bt \in Seq(S) /\ Len(bt) = m BY <2>1
  <2> QED BY <2>1, <2>2 DEF S
<1> HIDE DEF bt
<1>9. Placed(gs, entries, bt)
  <2> SUFFICES ASSUME NEW j \in 1..m
               PROVE  /\ at[j][1] \in DOMAIN gs /\ entries[j].rec \in ClientRecords
                      /\ LineHolds(gs[at[j][1]], at[j][2], entries[j].rec)
    BY <1>8 DEF Placed
  <2>1. /\ at[j][1] \in DOMAIN fs /\ entries[j].rec \in ClientRecords
        /\ LineHolds(fs[at[j][1]], at[j][2], entries[j].rec)
    BY <1>8 DEF Laid, Placed
  <2>2. CASE at[j][1] = i
    <3>1. at[j][2] <= Len(gs[i]) BY <1>7, <2>2
    <3>2. LineHolds(gs[i], at[j][2], entries[j].rec) BY <1>1, <1>2, <2>1, <2>2, <3>1, LineLeft
    <3> QED BY <1>2, <2>1, <2>2, <3>2
  <2>3. CASE at[j][1] # i BY <1>2, <2>1, <2>3
  <2> QED BY <2>2, <2>3
<1>10. AllPlaced(gs, bt)
  <2> SUFFICES ASSUME NEW x \in DOMAIN gs, NEW p \in NewLines(gs[x])
               PROVE  \E j \in 1..m : at[j] = <<x, p>>
    BY <1>8 DEF AllPlaced
  <2>1. p \in NewLines(fs[x]) /\ (x = i => p <= Len(gs[i]))
    <3>1. CASE x = i
      <4>1. p \in 1..Len(gs[i]) /\ gs[i][p] = NewLine BY <1>2, <3>1, NewLinesFact
      <4>2. p \in 1..Len(fs[i]) /\ fs[i][p] = NewLine BY <1>2, <1>4, <4>1 DEF Begins
      <4> QED BY <1>1, <1>4, <3>1, <4>1, <4>2, NewLinesFact
    <3>2. CASE x # i BY <1>2, <3>2
    <3> QED BY <3>1, <3>2
  <2>2. PICK j \in 1..Len(at) : at[j] = <<x, p>> BY <1>2, <2>1 DEF Laid, AllPlaced
  <2>3. j \in J BY <2>1, <2>2
  <2>4. j \in 1..m BY <1>5, <1>6, <2>3
  <2> QED BY <2>2, <2>4
<1>11. Ascending(bt) BY <1>8 DEF Ascending, Laid
<1>12. Typed(gs) BY <1>2 DEF Typed, Laid
<1>13. Len(bt) <= Len(entries) /\ Len(bt) <= Len(at) BY <1>3, <1>6, <1>8 DEF Laid
<1>14. Laid(gs, entries, bt) BY <1>1, <1>2, <1>8, <1>9, <1>10, <1>11, <1>12, <1>13 DEF Laid
<1>15. ASSUME at # <<>>, CutOff(gs, i, at) PROVE Len(bt) < Len(at)
  <2>1. Len(at) \notin J /\ Len(at) # 0
    <3>1. Len(at) # 0 BY <1>3, <1>15
    <3>2. Len(at) \in 1..Len(at) /\ at[Len(at)] \in Nat \X Nat BY <1>3, <3>1
    <3> QED BY <1>4, <1>15, <3>1, <3>2 DEF CutOff
  <2>2. m # Len(at) BY <1>5, <2>1
  <2> QED BY <1>3, <1>6, <1>8, <2>2
<1> QED BY <1>13, <1>14, <1>15

\* An empty file has no lines.
LEMMA LaidFile ==
  ASSUME NEW fs, NEW entries, NEW at, Laid(fs, entries, at), NEW i \in Nat, i \notin DOMAIN fs
  PROVE  Laid(WithFile(fs, i, <<>>), entries, at)
<1> DEFINE gs == WithFile(fs, i, <<>>)
<1>1. /\ DOMAIN gs = DOMAIN fs \cup {i} /\ gs[i] = <<>>
      /\ \A x \in DOMAIN fs : gs[x] = fs[x]
  BY DEF WithFile
<1>2. <<>> \in Bytes /\ NewLines(<<>>) = {} BY DEF Bytes, NewLines
<1> HIDE DEF gs
<1>3. Placed(gs, entries, at) BY <1>1 DEF Laid, Placed
<1>4. AllPlaced(gs, at) BY <1>1, <1>2 DEF Laid, AllPlaced
<1>5. Typed(gs) BY <1>1, <1>2 DEF Laid, Typed
<1>6. Laid(gs, entries, at) BY <1>1, <1>3, <1>4, <1>5 DEF Laid
<1> QED BY <1>6 DEF gs

\* Every whole line of the files, as file and end.
WholeLinesOf(fs) == UNION {{i} \X NewLines(fs[i]) : i \in DOMAIN fs}

\* So many lines as entries are laid.
LEMMA LaidCount ==
  ASSUME NEW fs, NEW entries, NEW at, Laid(fs, entries, at)
  PROVE  /\ IsFiniteSet(WholeLinesOf(fs)) /\ Cardinality(WholeLinesOf(fs)) = Len(at)
         /\ \A p : p \in WholeLinesOf(fs) <=> \E j \in 1..Len(at) : at[j] = p
         /\ \A i, j \in 1..Len(at) : at[i] = at[j] => i = j
<1>1. /\ at \in Seq(Nat \X Nat) /\ Len(at) \in Nat
      /\ \A j \in 1..Len(at) : at[j] \in Nat \X Nat
  BY DEF Laid
<1>2. \A i, j \in 1..Len(at) : at[i] = at[j] => i = j
  <2>1. ASSUME NEW i \in 1..Len(at), NEW j \in 1..Len(at), at[i] = at[j], i < j PROVE FALSE
    <3>1. Precedes(at[i], at[j]) BY <2>1 DEF Laid, Ascending
    <3>2. at[i][1] \in Nat /\ at[i][2] \in Nat BY <1>1
    <3>3. Precedes(at[i], at[i]) BY <2>1, <3>1
    <3> QED BY <3>2, <3>3 DEF Precedes
  <2>2. \A i, j \in 1..Len(at) : i = j \/ i < j \/ j < i BY <1>1
  <2> QED BY <2>1, <2>2
<1>3. ASSUME NEW j \in 1..Len(at) PROVE at[j] \in WholeLinesOf(fs)
  <2>1. /\ at[j][1] \in DOMAIN fs /\ entries[j].rec \in ClientRecords
        /\ LineHolds(fs[at[j][1]], at[j][2], entries[j].rec)
    BY DEF Laid, Placed
  <2>2. fs[at[j][1]] \in Bytes BY <2>1 DEF Laid, Typed
  <2>3. at[j][2] \in NewLines(fs[at[j][1]]) BY <2>1, <2>2, LineFact
  <2>4. at[j] = <<at[j][1], at[j][2]>> BY <1>1
  <2>5. at[j] \in {at[j][1]} \X NewLines(fs[at[j][1]]) BY <2>3, <2>4
  <2> QED BY <2>1, <2>5 DEF WholeLinesOf
<1>4. ASSUME NEW p \in WholeLinesOf(fs) PROVE \E j \in 1..Len(at) : at[j] = p
  <2>1. PICK i \in DOMAIN fs : p \in {i} \X NewLines(fs[i]) BY DEF WholeLinesOf
  <2>2. p = <<i, p[2]>> /\ p[2] \in NewLines(fs[i]) BY <2>1
  <2> QED BY <2>2 DEF Laid, AllPlaced
<1>5. at \in Bijection(1..Len(at), WholeLinesOf(fs))
  <2>1. at = [j \in 1..Len(at) |-> at[j]] BY <1>1
  <2>2. at \in [1..Len(at) -> WholeLinesOf(fs)] BY <1>3, <2>1
  <2>3. at \in Injection(1..Len(at), WholeLinesOf(fs)) BY <1>2, <2>2 DEF Injection, IsInjective
  <2>4. at \in Surjection(1..Len(at), WholeLinesOf(fs)) BY <1>4, <2>2 DEF Surjection
  <2> QED BY <2>3, <2>4 DEF Bijection
<1>6. IsFiniteSet(1..Len(at)) /\ Cardinality(1..Len(at)) = Len(at) BY <1>1, IntervalFact
<1>7. ExistsBijection(1..Len(at), WholeLinesOf(fs)) BY <1>5 DEF ExistsBijection
<1> QED BY <1>2, <1>3, <1>4, <1>6, <1>7, FS_Bijection
=============================================================================
