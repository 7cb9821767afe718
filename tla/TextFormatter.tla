--------------------------- MODULE TextFormatter ---------------------------
(***************************************************************************)
(* The text formatter and the line scanner of the readers: how a record    *)
(* becomes the bytes of one line, and which records the bytes of a file    *)
(* are read as.  Bytes are strings of one character, except that a version *)
(* and an operation are one byte each.  Keys and values are sequences.     *)
(***************************************************************************)
EXTENDS Naturals, Sequences, FiniteSets, SequencesExt

Bar == "|"
NewLine == "\n"

\* Characters that Encode does not leave as they are.
Special == {"\\", Bar, NewLine, "\r"}

EscapeChar(char) ==
  CASE char = "\\" -> <<"\\", "\\">>
    [] char = Bar -> <<"\\", Bar>>
    [] char = NewLine -> <<"\\", "n">>
    [] char = "\r" -> <<"\\", "r">>
    [] OTHER -> <<char>>

Escape(s) == FlattenSeq([i \in DOMAIN s |-> EscapeChar(s[i])])

\* Mutation of Encode: fields are joined as they are.
EncodeUnescaped(r) ==
  <<r.version, Bar, r.op, Bar>> \o r.key \o <<Bar>>
    \o (IF r.op = "del" THEN <<"-1">> ELSE r.value) \o <<NewLine>>

Encode(r) ==
  <<r.version, Bar, r.op, Bar>> \o Escape(r.key) \o <<Bar>>
    \o Escape(IF r.op = "del" THEN <<"-1">> ELSE r.value) \o <<NewLine>>

TrimSuffix(data, char) ==
  IF data # <<>> /\ Last(data) = char THEN Front(data) ELSE data

\* Decode drops one separator at the end, and then one newline.
Trimmed(data) == TrimSuffix(TrimSuffix(data, Bar), NewLine)

Separators(data) == {i \in DOMAIN data : data[i] = Bar}

NthSeparator(data, n) ==
  CHOOSE i \in Separators(data) :
    Cardinality({j \in Separators(data) : j <= i}) = n

\* strings.SplitN: the fourth field is all that follows the third separator.
\* Escaped separators count like any other.
Field(data, n) ==
  SubSeq(data,
         IF n = 1 THEN 1 ELSE NthSeparator(data, n - 1) + 1,
         IF n = 4 THEN Len(data) ELSE NthSeparator(data, n) - 1)

Decodes(data) ==
  LET line == Trimmed(data)
  IN  /\ Cardinality(Separators(line)) >= 3
      /\ Field(line, 2) \in {<<"put">>, <<"del">>}
      /\ Field(line, 3) # <<>>

\* The fields are taken as they are: escapes are not undone.
Decode(data) ==
  LET line == Trimmed(data)
  IN  [version |-> Field(line, 1), op |-> Field(line, 2)[1],
       key |-> Field(line, 3), value |-> Field(line, 4)]

-----------------------------------------------------------------------------
(* bufio.Scanner over a file: one token per line, without its newline.     *)

NewLines(bytes) == {i \in DOMAIN bytes : bytes[i] = NewLine}

\* Where lines end: at their newlines, and past the end if the last has none.
LineEnds(bytes) ==
  NewLines(bytes) \cup
    (IF bytes # <<>> /\ Last(bytes) # NewLine THEN {Len(bytes) + 1} ELSE {})

LineStart(bytes, end) ==
  CHOOSE i \in {1} \cup {j + 1 : j \in NewLines(bytes)} :
    /\ i <= end
    /\ \A j \in NewLines(bytes) : j < end => j < i

LineAt(bytes, end) == SubSeq(bytes, LineStart(bytes, end), end - 1)

\* The scanner gives up on a line it cannot hold, newline included.
TooLong(bytes, end, limit) == end - LineStart(bytes, end) + 1 > limit

\* The lines a scan delivers before it gives up, each by its end.
Delivered(bytes, limit) ==
  {end \in LineEnds(bytes) :
     \A e \in LineEnds(bytes) : e <= end => ~TooLong(bytes, e, limit)}

ScanErrs(bytes, limit) == \E end \in LineEnds(bytes) : TooLong(bytes, end, limit)

DecodeErrs(bytes, limit) ==
  \E end \in Delivered(bytes, limit) : ~Decodes(LineAt(bytes, end))
=============================================================================
