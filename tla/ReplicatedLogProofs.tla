------------------------ MODULE ReplicatedLogProofs ------------------------
(***************************************************************************)
(* Proofs about ReplicatedLog, for all data, sizes, cuts and bounds, with  *)
(* kills, short writes and rebuilds anywhere: the indexes have no gaps and *)
(* no acknowledged one is given away while torn writes are at the tail;    *)
(* acknowledged entries before a torn write are read, and all of them      *)
(* while the offset is the end of the file; and no answer changes.         *)
(***************************************************************************)
EXTENDS ReplicatedLog, Recursion

Writes == [index : Nat, data : Data, size : Nat, kept : Nat]

\* The file begins with n whole entries and no more, numbered from one.
WholeNumbered(f, n) ==
  /\ \A j \in 1..n : ~Torn(f[j]) /\ f[j].index = j
  /\ n = Len(f) \/ Torn(f[n + 1])

\* The inductive invariant: a log indexes at least the whole entries the file begins
\* with, whichever process wrote them; as long as nothing is written behind a torn
\* write, it indexes no more, and none beyond them is acknowledged.
IInv ==
  /\ file \in Seq(Writes)
  /\ firstIndex \in Nat /\ lastIndex \in Nat
  /\ status \in {"open", "closed", "down"}
  /\ \E n \in 0..Len(file) :
       /\ WholeNumbered(file, n)
       /\ status # "down" => n <= lastIndex
       /\ n + 1 >= Len(file) =>
            DOMAIN acked \subseteq 1..n /\ (status # "down" => lastIndex = n)
  /\ IndexesContiguous

LEMMA InitInv == Init => IInv
<1> SUFFICES ASSUME Init PROVE IInv
  OBVIOUS
<1>1. file \in Seq(Writes) /\ Len(file) = 0 BY DEF Init
<1>2. WholeNumbered(file, 0) /\ 0 \in 0..Len(file)
  BY <1>1 DEF WholeNumbered
<1>3. lastIndex = 0 /\ DOMAIN acked = {} /\ IndexesContiguous BY DEF Init, IndexesContiguous
<1> QED BY <1>1, <1>2, <1>3 DEF Init, IInv

\* Whole finds that prefix.
LEMMA WholeFact ==
  ASSUME NEW f \in Seq(Writes), NEW n \in 0..Len(f), WholeNumbered(f, n)
  PROVE  Whole(f) = n
<1> DEFINE P(m) == (\A j \in 1..m : ~Torn(f[j])) /\ (m = Len(f) \/ Torn(f[m + 1]))
<1>1. P(n) BY DEF WholeNumbered
<1>2. ASSUME NEW m \in 0..Len(f), P(m) PROVE m = n
  <2>1. Len(f) \in Nat OBVIOUS
  <2>2. ~(m < n)
    <3>1. SUFFICES ASSUME m < n PROVE FALSE OBVIOUS
    <3>2. m + 1 \in 1..n /\ m # Len(f) BY <2>1, <3>1
    <3> QED BY <1>1, <1>2, <3>2
  <2>3. ~(n < m)
    <3>1. SUFFICES ASSUME n < m PROVE FALSE OBVIOUS
    <3>2. n + 1 \in 1..m /\ n # Len(f) BY <2>1, <3>1
    <3> QED BY <1>1, <1>2, <3>2
  <2> QED BY <2>1, <2>2, <2>3
<1>3. Whole(f) = CHOOSE m \in 0..Len(f) : P(m) BY DEF Whole
<1> HIDE DEF P
<1> QED BY <1>1, <1>2, <1>3

\* How many whole entries a file begins with after a write behind n of them.
WholeWith(f, n, e) == IF n = Len(f) /\ ~Torn(e) THEN n + 1 ELSE n

\* A write behind everything: it prolongs a whole file, or changes nothing before.
LEMMA AppendNumbered ==
  ASSUME NEW f \in Seq(Writes), NEW n \in 0..Len(f), WholeNumbered(f, n),
         NEW e \in Writes, n = Len(f) => e.index = n + 1
  PROVE  /\ WholeWith(f, n, e) \in 0..Len(Append(f, e))
         /\ WholeNumbered(Append(f, e), WholeWith(f, n, e))
<1> DEFINE g == Append(f, e)
<1>1. /\ Len(f) \in Nat /\ Len(g) = Len(f) + 1
      /\ \A j \in 1..Len(f) : g[j] = f[j]
      /\ g[Len(f) + 1] = e
  OBVIOUS
<1> HIDE DEF g
<1>2. CASE n = Len(f) /\ ~Torn(e)
  <2>1. WholeNumbered(g, n + 1)
    <3>1. ASSUME NEW j \in 1..n + 1 PROVE ~Torn(g[j]) /\ g[j].index = j
      <4>1. CASE j = n + 1 BY <1>1, <1>2, <4>1
      <4>2. CASE j # n + 1 BY <1>1, <1>2, <4>2 DEF WholeNumbered
      <4> QED BY <4>1, <4>2
    <3> QED BY <1>1, <1>2, <3>1 DEF WholeNumbered
  <2>2. n + 1 \in 0..Len(g) BY <1>1, <1>2
  <2> QED BY <1>2, <2>1, <2>2 DEF g, WholeWith
<1>3. CASE n = Len(f) /\ Torn(e)
  <2>1. WholeNumbered(g, n) BY <1>1, <1>3 DEF WholeNumbered
  <2>2. n \in 0..Len(g) BY <1>1, <1>3
  <2> QED BY <1>3, <2>1, <2>2 DEF g, WholeWith
<1>4. CASE n # Len(f)
  <2>1. n + 1 \in 1..Len(f) BY <1>1, <1>4
  <2>2. WholeNumbered(g, n) BY <1>1, <1>4, <2>1 DEF WholeNumbered
  <2>3. n \in 0..Len(g) BY <1>1
  <2> QED BY <1>4, <2>2, <2>3 DEF g, WholeWith
<1> QED BY <1>2, <1>3, <1>4

-----------------------------------------------------------------------------
(* Steps. *)

\* What is written is an entry with the next index.
LEMMA WrittenFact ==
  ASSUME lastIndex \in Nat, NEW d \in Data, NEW n \in Nat
  PROVE  /\ Written(NextIndex, d, n) \in Writes
         /\ Written(NextIndex, d, n).index = lastIndex + 1
         /\ Torn(Written(NextIndex, d, n)) <=> n < SizeOf[d]
BY LogAssumption DEF Written, Writes, NextIndex, Torn

LEMMA AppendStep ==
  ASSUME IInv, NEW d \in Data, AppendEntry(d)
  PROVE  IInv'
<1> DEFINE e == Written(NextIndex, d, SizeOf[d])
<1>1. /\ e \in Writes /\ e.index = lastIndex + 1 /\ ~Torn(e)
      /\ lastIndex \in Nat /\ firstIndex \in Nat /\ file \in Seq(Writes)
  BY WrittenFact, LogAssumption DEF IInv
<1>2. file' = Append(file, e) /\ lastIndex' = lastIndex + 1 /\ status = "open" /\ status' = "open"
  BY DEF AppendEntry, NextIndex
<1> HIDE DEF e
<1>3. PICK n \in 0..Len(file) :
        /\ WholeNumbered(file, n)
        /\ n <= lastIndex
        /\ n + 1 >= Len(file) => DOMAIN acked \subseteq 1..n /\ lastIndex = n
  BY <1>2 DEF IInv
<1> DEFINE m == WholeWith(file, n, e)
<1>4. m \in 0..Len(Append(file, e)) /\ WholeNumbered(Append(file, e), m)
  <2>1. n = Len(file) => e.index = n + 1 BY <1>1, <1>3
  <2> QED BY <1>1, <1>3, <2>1, AppendNumbered
<1>5. Len(Append(file, e)) = Len(file) + 1 /\ Append(file, e) \in Seq(Writes) /\ Len(file) \in Nat
  BY <1>1
<1>m. m = IF n = Len(file) THEN n + 1 ELSE n BY <1>1 DEF WholeWith
<1> HIDE DEF m
<1>6. /\ m <= lastIndex'
      /\ m + 1 >= Len(file') => DOMAIN acked' \subseteq 1..m /\ lastIndex' = m
  <2>1. DOMAIN acked' = DOMAIN acked \cup {lastIndex + 1}
    BY DEF AppendEntry, NextIndex
  <2>2. m <= lastIndex' BY <1>1, <1>2, <1>3, <1>m
  <2>3. m + 1 >= Len(file') => n = Len(file) /\ m = n + 1 BY <1>2, <1>3, <1>5, <1>m
  <2> QED BY <1>2, <1>3, <1>5, <2>1, <2>2, <2>3
<1>7. IndexesContiguous'
  <2>1. /\ DOMAIN entries = IF lastIndex = 0 THEN {} ELSE firstIndex..lastIndex
        /\ firstIndex = IF lastIndex = 0 THEN 0 ELSE 1
    BY <1>2 DEF IInv, IndexesContiguous
  <2>2. DOMAIN entries' = DOMAIN entries \cup {lastIndex + 1}
    BY DEF AppendEntry, NextIndex
  <2>3. firstIndex' = 1 BY <1>1, <2>1 DEF AppendEntry, NextIndex
  <2>4. DOMAIN entries' = 1..lastIndex + 1
    BY <1>1, <2>1, <2>2
  <2> QED BY <1>1, <1>2, <2>3, <2>4 DEF IndexesContiguous
<1>8. firstIndex' \in Nat BY <1>1, <1>2 DEF AppendEntry, NextIndex
<1> QED BY <1>1, <1>2, <1>4, <1>5, <1>6, <1>7, <1>8 DEF IInv

\* A write whose bytes or whose process is cut short leaves the log as it was, or
\* no log.
LEMMA CutStep ==
  ASSUME IInv, NEW d \in Data, NEW n \in CutPoints,
         ShortWrite(d, n) \/ KillInAppend(d, n)
  PROVE  IInv'
<1> DEFINE e == Written(NextIndex, d, n)
<1>0. n \in Nat BY LogAssumption
<1>1. /\ e \in Writes /\ e.index = lastIndex + 1 /\ (Torn(e) <=> n < SizeOf[d])
      /\ lastIndex \in Nat /\ firstIndex \in Nat /\ file \in Seq(Writes)
  BY <1>0, WrittenFact DEF IInv
<1>2. /\ file' = Append(file, e) /\ status = "open"
      /\ status' \in {"open", "down"} /\ lastIndex' \in Nat /\ firstIndex' \in Nat
      /\ status' # "down" => UNCHANGED <<lastIndex, firstIndex, entries>> /\ n < SizeOf[d]
  BY <1>1 DEF ShortWrite, KillInAppend, Down
<1> HIDE DEF e
<1>3. PICK k \in 0..Len(file) :
        /\ WholeNumbered(file, k)
        /\ k <= lastIndex
        /\ k + 1 >= Len(file) => DOMAIN acked \subseteq 1..k /\ lastIndex = k
  BY <1>2 DEF IInv
<1> DEFINE m == WholeWith(file, k, e)
<1>4. m \in 0..Len(Append(file, e)) /\ WholeNumbered(Append(file, e), m)
  <2>1. k = Len(file) => e.index = k + 1 BY <1>1, <1>3
  <2> QED BY <1>1, <1>3, <2>1, AppendNumbered
<1>5. Append(file, e) \in Seq(Writes) /\ Len(Append(file, e)) = Len(file) + 1 /\ Len(file) \in Nat
  BY <1>1
<1>m. m = IF k = Len(file) /\ ~Torn(e) THEN k + 1 ELSE k BY DEF WholeWith
<1> HIDE DEF m
<1>6. /\ status' # "down" => m <= lastIndex'
      /\ m + 1 >= Len(file') =>
           DOMAIN acked' \subseteq 1..m /\ (status' # "down" => lastIndex' = m)
  <2>1. acked' = acked BY DEF ShortWrite, KillInAppend, Down
  <2>2. status' # "down" => m = k /\ lastIndex' = lastIndex BY <1>1, <1>2, <1>m
  <2>3. m + 1 >= Len(file') => k = Len(file) /\ k <= m BY <1>2, <1>3, <1>5, <1>m
  <2>4. k + 1 >= Len(file) /\ k <= m => DOMAIN acked' \subseteq 1..m
    BY <1>3, <1>5, <1>m, <2>1
  <2>5. status' # "down" => m <= lastIndex' BY <1>3, <2>2
  <2>6. k = Len(file) => k + 1 >= Len(file) BY <1>5
  <2> QED BY <1>3, <2>2, <2>3, <2>4, <2>5, <2>6
<1>7. IndexesContiguous' BY <1>2 DEF IInv, IndexesContiguous
<1> QED BY <1>1, <1>2, <1>4, <1>5, <1>6, <1>7 DEF IInv

\* A rebuilt index holds the whole entries at the beginning of the file.
LEMMA OpenStep ==
  ASSUME IInv, Open
  PROVE  IInv'
<1>1. PICK n \in 0..Len(file) :
        /\ WholeNumbered(file, n)
        /\ n + 1 >= Len(file) => DOMAIN acked \subseteq 1..n
  BY DEF IInv
<1>2. file \in Seq(Writes) /\ Len(file) \in Nat BY DEF IInv
<1>3. Whole(file) = n BY <1>1, <1>2, WholeFact
<1>4. DOMAIN RebuiltEntries(file) = 1..n
  <2>1. DOMAIN RebuiltEntries(file) = {file[j].index : j \in 1..n}
    BY <1>3 DEF RebuiltEntries
  <2>2. \A j \in 1..n : file[j].index = j BY <1>1 DEF WholeNumbered
  <2> QED BY <2>1, <2>2
<1>5. CASE n = 0
  <2>1. firstIndex' = 0 /\ lastIndex' = 0 /\ DOMAIN entries' = {}
    BY <1>4, <1>5 DEF Open
  <2>2. IndexesContiguous' BY <2>1 DEF IndexesContiguous
  <2> QED BY <1>1, <1>2, <1>5, <2>1, <2>2 DEF Open, IInv
<1>6. CASE n # 0
  <2>1. 1 \in 1..n /\ n \in 1..n BY <1>2, <1>6
  <2>2. /\ firstIndex' = file[1].index
        /\ lastIndex' \in 1..n /\ \A i \in 1..n : i <= lastIndex'
    BY <1>4, <2>1 DEF Open
  <2>3. firstIndex' = 1 /\ lastIndex' = n
    BY <1>1, <2>1, <2>2 DEF WholeNumbered
  <2>4. DOMAIN entries' = 1..n BY <1>4 DEF Open
  <2>5. IndexesContiguous' BY <1>6, <2>3, <2>4 DEF IndexesContiguous
  <2> QED BY <1>1, <1>2, <2>3, <2>5 DEF Open, IInv
<1> QED BY <1>5, <1>6

LEMMA NextInv == IInv /\ [Next]_vars => IInv'
<1> SUFFICES ASSUME IInv, [Next]_vars PROVE IInv'
  OBVIOUS
<1>1. CASE Kill
  BY <1>1 DEF Kill, Down, IInv, IndexesContiguous
<1>2. CASE Close
  BY <1>2 DEF Close, IInv, IndexesContiguous
<1>3. CASE UNCHANGED vars
  BY <1>3 DEF vars, IInv, IndexesContiguous
<1> QED BY <1>1, <1>2, <1>3, AppendStep, CutStep, OpenStep DEF Next

-----------------------------------------------------------------------------
(* Theorems. *)

\* The index holds every entry from the first, which is entry 1, to the last and no
\* other, in every process that has the log open, whatever was torn before.
THEOREM Contiguous == Spec => []IndexesContiguous
<1>1. IInv => IndexesContiguous BY DEF IInv
<1> QED BY <1>1, InitInv, NextInv, PTL DEF Spec

\* An index that was acknowledged for some data stays with it, through kills and
\* rebuilds, as long as nothing is written behind a torn write.
THEOREM NeverReassigned == Spec => AckedNeverReassigned
<1>1. IInv /\ [Next]_vars =>
        [TornOnlyAtTail(file) => \A i \in DOMAIN acked : acked'[i] = acked[i]]_vars
  <2> SUFFICES ASSUME IInv, Next, TornOnlyAtTail(file), NEW i \in DOMAIN acked
               PROVE  acked'[i] = acked[i]
    BY DEF vars
  <2>1. CASE \E d \in Data : AppendEntry(d)
    <3>1. PICK d \in Data : AppendEntry(d) BY <2>1
    <3>2. PICK n \in 0..Len(file) :
            /\ WholeNumbered(file, n)
            /\ n + 1 >= Len(file) => DOMAIN acked \subseteq 1..n /\ lastIndex = n
      BY <3>1 DEF IInv, AppendEntry
    <3>3. file \in Seq(Writes) /\ Len(file) \in Nat BY DEF IInv
    <3>4. n + 1 >= Len(file) BY <3>2, <3>3, WholeFact DEF TornOnlyAtTail
    <3>5. i # lastIndex + 1 BY <3>2, <3>4
    <3> QED BY <3>1, <3>5 DEF AppendEntry, NextIndex
  <2>2. CASE ~\E d \in Data : AppendEntry(d)
    <3>1. acked' = acked
      BY <2>2 DEF Next, ShortWrite, Kill, KillInAppend, Down, Open, Close
    <3> QED BY <3>1
  <2> QED BY <2>1, <2>2
<1> QED BY <1>1, InitInv, NextInv, PTL DEF Spec, AckedNeverReassigned

-----------------------------------------------------------------------------
(* Locations. *)

\* A write begins where the one before it ends, the first one at zero.
LEMMA OffsetFact ==
  ASSUME NEW R, \A e \in R : e.kept \in Nat, NEW f \in Seq(R)
  PROVE  /\ \A j \in 1..Len(f) + 1 : Offset(f, j) \in Nat
         /\ Offset(f, 1) = 0
         /\ \A j \in 1..Len(f) : Offset(f, j + 1) = Offset(f, j) + f[j].kept
<1> DEFINE N == Len(f)
           step == [i \in Nat |-> [x \in Nat |-> IF i \in 1..N THEN x + f[i].kept ELSE 0]]
           Sums(g) == g = [i \in 0..N |-> IF i = 0 THEN 0 ELSE g[i - 1] + f[i].kept]
           sums == CHOOSE g : Sums(g)
<1>1. N \in Nat /\ \A i \in 1..N : f[i].kept \in Nat OBVIOUS
<1>2. \A i \in Nat, x \in Nat : step[i][x] \in Nat BY <1>1
<1>3. PICK g : Computes(g, Nat, 0, step, N)
  <2> HIDE DEF step, N
  <2>1. 0 \in Nat OBVIOUS
  <2> QED BY <1>1, <1>2, <2>1, RecursionExists
<1>4. g \in [0..N -> Nat] /\ g[0] = 0 /\ \A i \in 1..N : g[i] = step[i][g[i - 1]]
  BY <1>3 DEF Computes
<1>5. \A i \in 1..N : g[i] = g[i - 1] + f[i].kept
  <2> SUFFICES ASSUME NEW i \in 1..N PROVE g[i] = g[i - 1] + f[i].kept
    OBVIOUS
  <2>1. i - 1 \in 0..N /\ i \in Nat BY <1>1
  <2>2. g[i - 1] \in Nat BY <1>4, <2>1
  <2>3. step[i][g[i - 1]] = g[i - 1] + f[i].kept BY <2>1, <2>2
  <2> QED BY <1>4, <2>3
<1> HIDE DEF step, N
<1>6. Sums(g)
  <2>1. \A i \in 0..N : i = 0 \/ i \in 1..N BY <1>1
  <2> QED BY <1>4, <1>5, <2>1
<1>7. Sums(sums)
  <2> HIDE DEF Sums
  <2> QED BY <1>6
<1>8. \A j : Offset(f, j) = sums[j - 1] BY DEF Offset, N
<1> HIDE DEF sums
<1>9. \A i \in 0..N : sums[i] = IF i = 0 THEN 0 ELSE sums[i - 1] + f[i].kept
  BY <1>7
<1>10. \A i \in 0..N : sums[i] \in Nat
  <2> DEFINE T == {i \in Nat : i \in 0..N => sums[i] \in Nat}
  <2>1. 0 \in T BY <1>1, <1>9
  <2>2. ASSUME NEW i \in Nat, i \in T PROVE i + 1 \in T
    <3>1. SUFFICES ASSUME i + 1 \in 0..N PROVE sums[i + 1] \in Nat OBVIOUS
    <3>2. i \in 0..N /\ i + 1 \in 1..N /\ i + 1 # 0 /\ i + 1 - 1 = i BY <1>1, <3>1
    <3>3. sums[i] \in Nat BY <2>2, <3>2
    <3>4. sums[i + 1] = sums[i] + f[i + 1].kept BY <1>9, <3>1, <3>2
    <3> QED BY <1>1, <3>2, <3>3, <3>4
  <2>3. Nat \subseteq T
    <3> HIDE DEF T
    <3> QED BY <2>1, <2>2, SetInduction
  <2> QED BY <1>1, <2>3
<1>11. ASSUME NEW j \in 1..N + 1 PROVE Offset(f, j) \in Nat
  <2>1. j - 1 \in 0..N BY <1>1
  <2> QED BY <1>8, <1>10, <2>1
<1>12. Offset(f, 1) = 0 BY <1>1, <1>8, <1>9
<1>13. ASSUME NEW j \in 1..N PROVE Offset(f, j + 1) = Offset(f, j) + f[j].kept
  <2>1. j \in 0..N /\ j # 0 /\ j + 1 - 1 = j BY <1>1
  <2> QED BY <1>8, <1>9, <2>1
<1> QED BY <1>11, <1>12, <1>13 DEF N

\* Writes of which at least one byte reached the file.
KeptWrites == [index : Nat \ {0}, data : Data, size : Nat, kept : Nat \ {0}]

\* A later write begins at a higher offset.
LEMMA OffsetIncreases ==
  ASSUME NEW f \in Seq(KeptWrites), NEW i \in 1..Len(f), NEW j \in 1..Len(f) + 1, i < j
  PROVE  Offset(f, i) < Offset(f, j)
<1>0. \A e \in KeptWrites : e.kept \in Nat /\ e.kept \in Nat \ {0} BY DEF KeptWrites
<1>1. Len(f) \in Nat /\ \A x \in 1..Len(f) : f[x].kept \in Nat \ {0}
  <2> HIDE DEF KeptWrites
  <2> QED BY <1>0
<1>2. /\ \A x \in 1..Len(f) + 1 : Offset(f, x) \in Nat
      /\ \A x \in 1..Len(f) : Offset(f, x + 1) = Offset(f, x) + f[x].kept
  BY <1>0, OffsetFact
<1> DEFINE T == {n \in Nat : i < n /\ n \in 1..Len(f) + 1 => Offset(f, i) < Offset(f, n)}
<1>3. 0 \in T OBVIOUS
<1>4. ASSUME NEW n \in Nat, n \in T PROVE n + 1 \in T
  <2>1. SUFFICES ASSUME i < n + 1, n + 1 \in 1..Len(f) + 1 PROVE Offset(f, i) < Offset(f, n + 1)
    OBVIOUS
  <2>2. n \in 1..Len(f) /\ n \in 1..Len(f) + 1 BY <1>1, <2>1
  <2>3. /\ f[n].kept \in Nat \ {0} /\ Offset(f, n) \in Nat /\ Offset(f, i) \in Nat
        /\ Offset(f, n + 1) = Offset(f, n) + f[n].kept
    BY <1>1, <1>2, <2>2
  <2>4. i = n \/ Offset(f, i) < Offset(f, n) BY <1>4, <2>1, <2>2
  <2> QED BY <2>3, <2>4
<1>5. Nat \subseteq T
  <2> HIDE DEF T
  <2> QED BY <1>3, <1>4, SetInduction
<1> QED BY <1>1, <1>5

\* Offsets of the writes in a file do not change when one is appended, and the
\* new one begins where the file ended.
LEMMA OffsetAppend ==
  ASSUME NEW f \in Seq(KeptWrites), NEW e \in KeptWrites
  PROVE  /\ \A j \in 1..Len(f) + 1 : Offset(Append(f, e), j) = Offset(f, j)
         /\ FileSize(Append(f, e)) = FileSize(f) + e.kept
         /\ FileSize(f) \in Nat
<1> DEFINE g == Append(f, e)
           T == {i \in Nat : i \in 1..Len(f) + 1 => Offset(g, i) = Offset(f, i)}
<1>0. \A x \in KeptWrites : x.kept \in Nat BY DEF KeptWrites
<1>1. /\ g \in Seq(KeptWrites) /\ Len(g) = Len(f) + 1 /\ Len(f) \in Nat
      /\ \A i \in 1..Len(f) : g[i] = f[i]
      /\ g[Len(f) + 1] = e
  OBVIOUS
<1> HIDE DEF g
<1>2. /\ \A x \in 1..Len(f) + 1 : Offset(f, x) \in Nat
      /\ Offset(f, 1) = 0
      /\ \A x \in 1..Len(f) : Offset(f, x + 1) = Offset(f, x) + f[x].kept
  BY <1>0, OffsetFact
<1>3. /\ Offset(g, 1) = 0
      /\ \A x \in 1..Len(g) : Offset(g, x + 1) = Offset(g, x) + g[x].kept
  BY <1>0, <1>1, OffsetFact
<1>4. 0 \in T OBVIOUS
<1>5. ASSUME NEW i \in Nat, i \in T PROVE i + 1 \in T
  <2>1. SUFFICES ASSUME i + 1 \in 1..Len(f) + 1 PROVE Offset(g, i + 1) = Offset(f, i + 1) OBVIOUS
  <2>2. CASE i = 0
    <3>1. i + 1 = 1 BY <2>2
    <3> QED BY <1>2, <1>3, <3>1
  <2>3. CASE i # 0
    <3>1. i \in 1..Len(f) /\ i \in 1..Len(f) + 1 /\ i \in 1..Len(g) BY <1>1, <2>1, <2>3
    <3>2. Offset(g, i) = Offset(f, i) BY <1>5, <3>1
    <3>3. g[i].kept = f[i].kept BY <1>1, <3>1
    <3> QED BY <1>2, <1>3, <3>1, <3>2, <3>3
  <2> QED BY <2>2, <2>3
<1>6. Nat \subseteq T
  <2> HIDE DEF T
  <2> QED BY <1>4, <1>5, SetInduction
<1>7. \A j \in 1..Len(f) + 1 : Offset(g, j) = Offset(f, j) BY <1>1, <1>6
<1>8. Len(f) + 1 \in 1..Len(f) + 1 /\ Len(f) + 1 \in 1..Len(g) BY <1>1
<1>9. Offset(g, Len(f) + 1 + 1) = Offset(f, Len(f) + 1) + e.kept
  BY <1>1, <1>3, <1>7, <1>8
<1> QED BY <1>1, <1>2, <1>7, <1>8, <1>9 DEF FileSize, g

\* At the location of a whole write Read finds that write.
LEMMA ReadAtLocation ==
  ASSUME NEW f \in Seq(KeptWrites), NEW j \in 1..Len(f), ~Torn(f[j])
  PROVE  ReadAt(f, EntryLocation(f, j)) = Entry(f[j].index, f[j].data)
<1> DEFINE exact == {x \in 1..Len(f) : EntryLocation(f, x) = EntryLocation(f, j) /\ ~Torn(f[x])}
<1>1. ASSUME NEW x \in 1..Len(f), EntryLocation(f, x) = EntryLocation(f, j) PROVE x = j
  <2>1. Len(f) \in Nat OBVIOUS
  <2>2. x \in 1..Len(f) + 1 /\ j \in 1..Len(f) + 1 BY <2>1
  <2>3. Offset(f, x) = Offset(f, j) BY <1>1 DEF EntryLocation
  <2>4. \A e \in KeptWrites : e.kept \in Nat BY DEF KeptWrites
  <2>5. Offset(f, j) \in Nat BY <2>2, <2>4, OffsetFact
  <2>6. ~(x < j) BY <2>2, <2>3, <2>5, OffsetIncreases
  <2>7. ~(j < x) BY <2>2, <2>3, <2>5, OffsetIncreases
  <2> QED BY <2>1, <2>6, <2>7
<1>2. exact = {j} BY <1>1
<1>3. (CHOOSE x \in exact : TRUE) = j BY <1>2
<1>4. ReadAt(f, EntryLocation(f, j)) =
        IF exact = {} THEN NoEntry
        ELSE Entry(f[CHOOSE x \in exact : TRUE].index, f[CHOOSE x \in exact : TRUE].data)
  BY DEF ReadAt
<1> HIDE DEF exact
<1> QED BY <1>2, <1>3, <1>4

-----------------------------------------------------------------------------
(* The invariant about what the index leads to. *)

\* Everything a type invariant says that IInv does not.
Typed ==
  /\ file \in Seq(KeptWrites)
  /\ offset \in Nat
  /\ DOMAIN entries \subseteq Nat \ {0}
  /\ DOMAIN acked \subseteq Nat \ {0}
  /\ kills \in 0..MaxKills /\ shorts \in 0..MaxShort

\* At the location lies all of entry i, with the data acknowledged for it if any is.
Located(f, i, loc, a) ==
  \E j \in 1..Len(f) :
    /\ ~Torn(f[j]) /\ f[j].index = i /\ loc = EntryLocation(f, j)
    /\ i \in DOMAIN a => a[i] = f[j].data

\* A writer never counts more bytes than the file has; one that counts them all has
\* written whole entries only, each where the index says.
LocationsKept ==
  status # "down" =>
    /\ offset <= FileSize(file)
    /\ offset = FileSize(file) =>
         \A i \in DOMAIN entries : Located(file, i, entries[i], acked)

\* Before the first torn write entry i is the i-th write, whichever process wrote it;
\* the index has it there, and a writer behind a whole file counts its bytes.
EntriesKept ==
  /\ \A i \in DOMAIN acked \cap 1..Whole(file) : acked[i] = file[i].data
  /\ status # "down" =>
       /\ Whole(file) = Len(file) => offset = FileSize(file)
       /\ \A i \in 1..Whole(file) : entries[i] = EntryLocation(file, i)

EInv == IInv /\ Typed /\ LocationsKept /\ EntriesKept

LEMMA InitEInv == Init => EInv
<1> SUFFICES ASSUME Init PROVE EInv
  OBVIOUS
<1>1. file = <<>> /\ file \in Seq(KeptWrites) /\ Len(file) = 0 BY DEF Init
<1>2. Typed BY <1>1, LogAssumption DEF Init, Typed
<1>3. FileSize(file) = 0
  <2>1. \A e \in KeptWrites : e.kept \in Nat BY DEF KeptWrites
  <2>2. Offset(file, 1) = 0 BY <1>1, <2>1, OffsetFact
  <2>3. Len(file) + 1 = 1 BY <1>1
  <2> QED BY <2>2, <2>3 DEF FileSize
<1>4. LocationsKept BY <1>3 DEF Init, LocationsKept
<1>5. Whole(file) = 0
  <2>1. file \in Seq(Writes) BY <1>1
  <2>2. WholeNumbered(file, 0) /\ 0 \in 0..Len(file) BY <1>1 DEF WholeNumbered
  <2> QED BY <2>1, <2>2, WholeFact
<1>6. EntriesKept BY <1>3, <1>5 DEF Init, EntriesKept
<1> QED BY <1>2, <1>4, <1>6, InitInv DEF EInv

\* The whole entries of the file, what the index then holds, and what is acknowledged.
LEMMA PrefixFact ==
  ASSUME IInv
  PROVE  /\ Whole(file) \in 0..Len(file) /\ Len(file) \in Nat
         /\ WholeNumbered(file, Whole(file))
         /\ status # "down" => Whole(file) <= lastIndex /\ DOMAIN entries = 1..lastIndex
         /\ TornOnlyAtTail(file) =>
              /\ DOMAIN acked \subseteq 1..Whole(file)
              /\ status # "down" => lastIndex = Whole(file)
<1>1. PICK n \in 0..Len(file) :
        /\ WholeNumbered(file, n)
        /\ status # "down" => n <= lastIndex
        /\ n + 1 >= Len(file) =>
             DOMAIN acked \subseteq 1..n /\ (status # "down" => lastIndex = n)
  BY DEF IInv
<1>2. file \in Seq(Writes) /\ Len(file) \in Nat /\ lastIndex \in Nat BY DEF IInv
<1>3. Whole(file) = n BY <1>1, <1>2, WholeFact
<1>4. ASSUME status # "down" PROVE DOMAIN entries = 1..lastIndex
  <2>1. /\ DOMAIN entries = IF lastIndex = 0 THEN {} ELSE firstIndex..lastIndex
        /\ firstIndex = IF lastIndex = 0 THEN 0 ELSE 1
    BY <1>4 DEF IInv, IndexesContiguous
  <2> QED BY <1>2, <2>1
<1> QED BY <1>1, <1>2, <1>3, <1>4 DEF TornOnlyAtTail

\* A write behind everything moves no earlier write.
LEMMA AppendKeeps ==
  ASSUME NEW f \in Seq(KeptWrites), NEW e \in KeptWrites
  PROVE  /\ Append(f, e) \in Seq(KeptWrites)
         /\ Len(Append(f, e)) = Len(f) + 1
         /\ \A j \in 1..Len(f) :
              /\ Append(f, e)[j] = f[j]
              /\ EntryLocation(Append(f, e), j) = EntryLocation(f, j)
         /\ Append(f, e)[Len(f) + 1] = e
         /\ EntryLocation(Append(f, e), Len(f) + 1) = [offset |-> FileSize(f), size |-> e.size]
         /\ \A i, loc, a : Located(f, i, loc, a) => Located(Append(f, e), i, loc, a)
<1> DEFINE g == Append(f, e)
<1>1. /\ g \in Seq(KeptWrites) /\ Len(g) = Len(f) + 1 /\ Len(f) \in Nat
      /\ \A j \in 1..Len(f) : g[j] = f[j]
      /\ g[Len(f) + 1] = e
  OBVIOUS
<1>2. \A j \in 1..Len(f) + 1 : Offset(g, j) = Offset(f, j) BY OffsetAppend
<1> HIDE DEF g
<1>3. \A j \in 1..Len(f) : EntryLocation(g, j) = EntryLocation(f, j)
  <2> SUFFICES ASSUME NEW j \in 1..Len(f) PROVE EntryLocation(g, j) = EntryLocation(f, j)
    OBVIOUS
  <2>1. j \in 1..Len(f) + 1 BY <1>1
  <2> QED BY <1>1, <1>2, <2>1 DEF EntryLocation
<1>4. EntryLocation(g, Len(f) + 1) = [offset |-> FileSize(f), size |-> e.size]
  <2>1. Len(f) + 1 \in 1..Len(f) + 1 BY <1>1
  <2> QED BY <1>1, <1>2, <2>1 DEF EntryLocation, FileSize
<1>5. ASSUME NEW i, NEW loc, NEW a, Located(f, i, loc, a) PROVE Located(g, i, loc, a)
  <2>1. PICK j \in 1..Len(f) :
          /\ ~Torn(f[j]) /\ f[j].index = i /\ loc = EntryLocation(f, j)
          /\ i \in DOMAIN a => a[i] = f[j].data
    BY <1>5 DEF Located
  <2>2. j \in 1..Len(g) BY <1>1
  <2> QED BY <1>1, <1>3, <2>1, <2>2 DEF Located
<1> QED BY <1>1, <1>3, <1>4, <1>5 DEF g

\* How many whole entries the file begins with after a write.
LEMMA WholeAfterAppend ==
  ASSUME NEW f \in Seq(Writes), Whole(f) \in 0..Len(f), WholeNumbered(f, Whole(f)),
         NEW e \in Writes, Whole(f) = Len(f) => e.index = Len(f) + 1
  PROVE  Whole(Append(f, e)) = WholeWith(f, Whole(f), e)
<1>1. Whole(f) = Len(f) => e.index = Whole(f) + 1 OBVIOUS
<1>2. Append(f, e) \in Seq(Writes) OBVIOUS
<1> QED BY <1>1, <1>2, AppendNumbered, WholeFact

\* What is read at a location is read there after a write too.
LEMMA ReadAtAppend ==
  ASSUME NEW f \in Seq(KeptWrites), NEW e \in KeptWrites, NEW loc, ReadAt(f, loc) # NoEntry
  PROVE  ReadAt(Append(f, e), loc) = ReadAt(f, loc)
<1> DEFINE g == Append(f, e)
<1>1. PICK j \in 1..Len(f) : EntryLocation(f, j) = loc /\ ~Torn(f[j]) BY DEF ReadAt
<1>2. /\ g \in Seq(KeptWrites) /\ Len(g) = Len(f) + 1
      /\ g[j] = f[j] /\ EntryLocation(g, j) = loc
  BY <1>1, AppendKeeps
<1>3. j \in 1..Len(g) BY <1>2
<1> HIDE DEF g
<1>4. ReadAt(f, loc) = Entry(f[j].index, f[j].data) BY <1>1, ReadAtLocation
<1>5. ReadAt(g, loc) = Entry(g[j].index, g[j].data) BY <1>1, <1>2, <1>3, ReadAtLocation
<1> QED BY <1>2, <1>4, <1>5 DEF g

-----------------------------------------------------------------------------
(* Steps of that invariant. *)

\* What a step writes keeps at least one byte.
LEMMA KeptFact ==
  ASSUME lastIndex \in Nat, NEW d \in Data, NEW n \in Nat \ {0}
  PROVE  /\ Written(NextIndex, d, n) \in KeptWrites
         /\ Written(NextIndex, d, n).kept = n
         /\ Written(NextIndex, d, n).data = d
         /\ Written(NextIndex, d, n).size = SizeOf[d]
BY LogAssumption DEF Written, KeptWrites, NextIndex

\* Every entry has at least one byte.
LEMMA SizesPositive == \A d \in Data : SizeOf[d] \in Nat \ {0}
<1> SUFFICES ASSUME NEW d \in Data PROVE SizeOf[d] \in Nat \ {0}
  OBVIOUS
<1>1. HeaderSize \in Nat \ {0} /\ SizeOf[d] \in Nat /\ SizeOf[d] >= HeaderSize
  BY LogAssumption
<1> QED BY <1>1

\* An append that succeeds indexes the entry where it begins.
LEMMA AppendEInv ==
  ASSUME EInv, IInv', NEW d \in Data, AppendEntry(d)
  PROVE  EInv'
<1> DEFINE e == Written(NextIndex, d, SizeOf[d])
           n == Len(file)
<1>1. /\ IInv /\ Typed /\ LocationsKept /\ EntriesKept
      /\ lastIndex \in Nat /\ file \in Seq(Writes) /\ file \in Seq(KeptWrites)
      /\ offset \in Nat
  BY DEF EInv, IInv, Typed
<1>2. SizeOf[d] \in Nat \ {0} BY SizesPositive
<1>3. /\ e \in KeptWrites /\ e.kept = SizeOf[d] /\ e.data = d /\ e.size = SizeOf[d]
  BY <1>1, <1>2, KeptFact
<1>4. e \in Writes /\ e.index = lastIndex + 1 /\ ~Torn(e)
  BY <1>1, <1>2, WrittenFact
<1>5. /\ file' = Append(file, e) /\ offset' = offset + SizeOf[d]
      /\ lastIndex' = lastIndex + 1 /\ status = "open" /\ status' = "open"
      /\ entries' = [i \in DOMAIN entries \cup {lastIndex + 1} |->
                       IF i = lastIndex + 1 THEN [offset |-> offset, size |-> SizeOf[d]]
                                            ELSE entries[i]]
      /\ acked' = [i \in DOMAIN acked \cup {lastIndex + 1} |->
                     IF i = lastIndex + 1 THEN d ELSE acked[i]]
      /\ UNCHANGED <<kills, shorts>>
  BY DEF AppendEntry, NextIndex, NextOffset
<1> HIDE DEF e
<1>6. /\ file' \in Seq(KeptWrites) /\ Len(file') = n + 1 /\ n \in Nat
      /\ \A j \in 1..n : file'[j] = file[j] /\ EntryLocation(file', j) = EntryLocation(file, j)
      /\ file'[n + 1] = e
      /\ EntryLocation(file', n + 1) = [offset |-> FileSize(file), size |-> SizeOf[d]]
      /\ \A i, loc, a : Located(file, i, loc, a) => Located(file', i, loc, a)
  BY <1>1, <1>3, <1>5, AppendKeeps
<1>7. FileSize(file') = FileSize(file) + SizeOf[d] /\ FileSize(file) \in Nat
  BY <1>1, <1>3, <1>5, OffsetAppend
<1>8. Typed'
  <2>1. DOMAIN acked' \subseteq Nat \ {0} /\ DOMAIN entries' \subseteq Nat \ {0}
    BY <1>1, <1>5 DEF Typed
  <2>2. offset' \in Nat BY <1>1, <1>2, <1>5
  <2> QED BY <1>1, <1>5, <1>6, <2>1, <2>2 DEF Typed
<1>9. LocationsKept'
  <2>1. offset <= FileSize(file) BY <1>1, <1>5 DEF LocationsKept
  <2>2. offset' <= FileSize(file') BY <1>1, <1>2, <1>5, <1>7, <2>1
  <2>3. ASSUME offset' = FileSize(file'), NEW i \in DOMAIN entries'
        PROVE  Located(file', i, entries'[i], acked')
    <3>1. offset = FileSize(file) BY <1>1, <1>2, <1>5, <1>7, <2>3
    <3>2. CASE i = lastIndex + 1
      <4>1. entries'[i] = EntryLocation(file', n + 1) BY <1>5, <1>6, <2>3, <3>1, <3>2
      <4>2. n + 1 \in 1..Len(file') /\ ~Torn(file'[n + 1]) /\ file'[n + 1].index = i
        BY <1>4, <1>6, <3>2
      <4>3. acked'[i] = file'[n + 1].data BY <1>3, <1>5, <1>6, <3>2
      <4> QED BY <4>1, <4>2, <4>3 DEF Located
    <3>3. CASE i # lastIndex + 1
      <4>1. i \in DOMAIN entries /\ entries'[i] = entries[i] BY <1>5, <2>3, <3>3
      <4>2. Located(file, i, entries[i], acked) BY <1>1, <1>5, <3>1, <4>1 DEF LocationsKept
      <4>3. Located(file', i, entries[i], acked) BY <1>6, <4>2
      <4>4. (i \in DOMAIN acked' <=> i \in DOMAIN acked) /\ (i \in DOMAIN acked => acked'[i] = acked[i])
        BY <1>5, <3>3
      <4> QED BY <4>1, <4>3, <4>4 DEF Located
    <3> QED BY <3>2, <3>3
  <2> QED BY <2>2, <2>3 DEF LocationsKept
<1>10. EntriesKept'
  <2>1. /\ Whole(file) \in 0..n /\ WholeNumbered(file, Whole(file))
        /\ Whole(file) <= lastIndex /\ DOMAIN entries = 1..lastIndex
        /\ TornOnlyAtTail(file) => DOMAIN acked \subseteq 1..Whole(file) /\ lastIndex = Whole(file)
    BY <1>1, <1>5, PrefixFact
  <2>2. Whole(file) = n => DOMAIN acked \subseteq 1..n /\ lastIndex = n /\ e.index = n + 1
    <3>1. Whole(file) = n => TornOnlyAtTail(file) BY <1>6 DEF TornOnlyAtTail
    <3> QED BY <1>4, <2>1, <3>1
  <2>3. Whole(file') = IF Whole(file) = n THEN n + 1 ELSE Whole(file)
    <3>1. Whole(Append(file, e)) = WholeWith(file, Whole(file), e)
      BY <1>1, <1>4, <2>1, <2>2, WholeAfterAppend
    <3> QED BY <1>4, <1>5, <1>6, <3>1 DEF WholeWith
  <2>4. /\ \A i \in DOMAIN acked \cap 1..Whole(file) : acked[i] = file[i].data
        /\ Whole(file) = n => offset = FileSize(file)
        /\ \A i \in 1..Whole(file) : entries[i] = EntryLocation(file, i)
    BY <1>1, <1>5 DEF EntriesKept
  <2>5. ASSUME NEW i \in 1..Whole(file)
        PROVE  /\ i \in DOMAIN acked' => acked'[i] = file'[i].data
               /\ entries'[i] = EntryLocation(file', i)
    <3>1. i \in 1..n /\ i # lastIndex + 1 /\ i \in DOMAIN entries BY <1>1, <1>6, <2>1
    <3>2. i \in DOMAIN acked' => i \in DOMAIN acked /\ acked'[i] = acked[i] BY <1>5, <3>1
    <3>3. entries'[i] = entries[i] BY <1>5, <3>1
    <3> QED BY <1>6, <2>4, <3>1, <3>2, <3>3
  <2>6. CASE Whole(file) = n
    <3>1. offset' = FileSize(file') BY <1>5, <1>7, <2>4, <2>6
    <3>2. acked'[n + 1] = file'[n + 1].data BY <1>3, <1>5, <1>6, <2>2, <2>6
    <3>3. entries'[n + 1] = EntryLocation(file', n + 1) BY <1>5, <1>6, <2>2, <2>4, <2>6
    <3>4. \A i \in 1..n + 1 : i = n + 1 \/ i \in 1..Whole(file) BY <1>6, <2>6
    <3> QED BY <2>3, <2>5, <2>6, <3>1, <3>2, <3>3, <3>4 DEF EntriesKept
  <2>7. CASE Whole(file) # n
    <3>1. Whole(file') = Whole(file) /\ Whole(file') # Len(file')
      BY <1>6, <2>1, <2>3, <2>7
    <3> QED BY <2>5, <3>1 DEF EntriesKept
  <2> QED BY <2>6, <2>7
<1> QED BY <1>8, <1>9, <1>10 DEF EInv

\* A write cut short leaves the offset behind the file, or no process.
LEMMA CutEInv ==
  ASSUME EInv, IInv', NEW d \in Data, NEW n \in CutPoints,
         ShortWrite(d, n) \/ KillInAppend(d, n)
  PROVE  EInv'
<1> DEFINE e == Written(NextIndex, d, n)
<1>0. n \in Nat \ {0} BY LogAssumption
<1>1. /\ IInv /\ Typed /\ LocationsKept /\ EntriesKept
      /\ lastIndex \in Nat /\ file \in Seq(Writes) /\ file \in Seq(KeptWrites)
      /\ offset \in Nat
  BY DEF EInv, IInv, Typed
<1>3. e \in KeptWrites /\ e.kept = n BY <1>0, <1>1, KeptFact
<1>4. e \in Writes /\ e.index = lastIndex + 1 /\ (Torn(e) <=> n < SizeOf[d])
  BY <1>0, <1>1, WrittenFact
<1>5. /\ file' = Append(file, e) /\ acked' = acked /\ status = "open"
      /\ status' \in {"open", "down"}
      /\ status' = "down" => offset' = 0 /\ DOMAIN entries' = {}
      /\ status' # "down" => UNCHANGED <<offset, entries>> /\ n < SizeOf[d]
      /\ kills' \in 0..MaxKills /\ shorts' \in 0..MaxShort
  <2>1. kills \in 0..MaxKills /\ shorts \in 0..MaxShort /\ MaxKills \in Nat /\ MaxShort \in Nat
    BY <1>1, LogAssumption DEF Typed
  <2>2. CASE ShortWrite(d, n)
    <3>1. shorts' = shorts + 1 /\ shorts < MaxShort /\ kills' = kills BY <2>2 DEF ShortWrite
    <3>2. shorts' \in 0..MaxShort BY <2>1, <3>1
    <3> QED BY <2>1, <2>2, <3>1, <3>2 DEF ShortWrite
  <2>3. CASE KillInAppend(d, n)
    <3>1. kills' = kills + 1 /\ kills < MaxKills /\ shorts' = shorts
      BY <2>3 DEF KillInAppend, Down
    <3>2. kills' \in 0..MaxKills BY <2>1, <3>1
    <3> QED BY <2>1, <2>3, <3>1, <3>2 DEF KillInAppend, Down
  <2> QED BY <2>2, <2>3
<1> HIDE DEF e
<1>6. /\ file' \in Seq(KeptWrites) /\ Len(file') = Len(file) + 1 /\ Len(file) \in Nat
      /\ \A j \in 1..Len(file) :
           file'[j] = file[j] /\ EntryLocation(file', j) = EntryLocation(file, j)
  <2>1. file \in Seq(KeptWrites) /\ e \in KeptWrites BY <1>1, <1>3
  <2>2. /\ Append(file, e) \in Seq(KeptWrites)
        /\ Len(Append(file, e)) = Len(file) + 1
        /\ \A j \in 1..Len(file) :
             /\ Append(file, e)[j] = file[j]
             /\ EntryLocation(Append(file, e), j) = EntryLocation(file, j)
    BY <2>1, AppendKeeps
  <2>3. Len(file) \in Nat BY <2>1
  <2> QED BY <1>5, <2>2, <2>3
<1>7. FileSize(file') = FileSize(file) + n /\ FileSize(file) \in Nat
  BY <1>1, <1>3, <1>5, OffsetAppend
<1>8. Typed'
  <2>1. offset' \in Nat BY <1>1, <1>5
  <2>2. DOMAIN entries' \subseteq Nat \ {0} BY <1>1, <1>5 DEF Typed
  <2> QED BY <1>1, <1>5, <1>6, <2>1, <2>2 DEF Typed
<1>9. LocationsKept'
  <2> SUFFICES ASSUME status' # "down" PROVE offset' < FileSize(file')
    BY <1>0, <1>1, <1>5, <1>7 DEF LocationsKept
  <2>1. offset <= FileSize(file) /\ offset' = offset BY <1>1, <1>5 DEF LocationsKept
  <2> QED BY <1>0, <1>1, <1>7, <2>1
<1>10. EntriesKept'
  <2>1. /\ Whole(file) \in 0..Len(file) /\ WholeNumbered(file, Whole(file))
        /\ TornOnlyAtTail(file) => DOMAIN acked \subseteq 1..Whole(file) /\ lastIndex = Whole(file)
    BY <1>1, <1>5, PrefixFact
  <2>2. Whole(file) = Len(file) => DOMAIN acked \subseteq 1..Len(file) /\ e.index = Len(file) + 1
    <3>1. Whole(file) = Len(file) => TornOnlyAtTail(file) BY <1>6 DEF TornOnlyAtTail
    <3> QED BY <1>4, <2>1, <3>1
  <2>3. Whole(file') = WholeWith(file, Whole(file), e)
    BY <1>1, <1>4, <1>5, <2>1, <2>2, WholeAfterAppend
  <2>4. /\ \A i \in DOMAIN acked \cap 1..Whole(file) : acked[i] = file[i].data
        /\ \A i \in 1..Whole(file) : entries[i] = EntryLocation(file, i)
    BY <1>1, <1>5 DEF EntriesKept
  <2>5. ASSUME NEW i \in DOMAIN acked' \cap 1..Whole(file') PROVE acked'[i] = file'[i].data
    <3>1. i \in DOMAIN acked /\ acked'[i] = acked[i] BY <1>5, <2>5
    <3>2. i \in 1..Whole(file) /\ i \in 1..Len(file)
      <4>1. CASE Whole(file) = Len(file) BY <2>2, <3>1, <4>1
      <4>2. CASE Whole(file) # Len(file)
        <5>1. Whole(file') = Whole(file) BY <2>3, <4>2 DEF WholeWith
        <5> QED BY <1>6, <2>1, <2>5, <5>1
      <4> QED BY <4>1, <4>2
    <3> QED BY <1>6, <2>4, <3>1, <3>2
  <2>6. ASSUME status' # "down"
        PROVE  /\ Whole(file') # Len(file')
               /\ \A i \in 1..Whole(file') : entries'[i] = EntryLocation(file', i)
    <3>1. Whole(file') = Whole(file) /\ entries' = entries BY <1>4, <1>5, <2>3, <2>6 DEF WholeWith
    <3>2. \A i \in 1..Whole(file) : i \in 1..Len(file) BY <1>6, <2>1
    <3> QED BY <1>6, <2>1, <2>4, <3>1, <3>2
  <2> QED BY <2>5, <2>6 DEF EntriesKept
<1> QED BY <1>8, <1>9, <1>10 DEF EInv

\* A rebuild indexes the whole entries where they are.
LEMMA OpenEInv ==
  ASSUME EInv, IInv', Open
  PROVE  EInv'
<1> DEFINE n == Whole(file)
<1>1. /\ IInv /\ Typed /\ LocationsKept /\ EntriesKept
      /\ file \in Seq(KeptWrites)
  BY DEF EInv, Typed
<1>2. n \in 0..Len(file) /\ Len(file) \in Nat /\ WholeNumbered(file, n)
  BY <1>1, PrefixFact
<1>3. /\ file' = file /\ acked' = acked /\ UNCHANGED <<kills, shorts>>
      /\ status' = "open" /\ offset' = FileSize(file) /\ entries' = RebuiltEntries(file)
  BY DEF Open
<1>4. FileSize(file) \in Nat
  <2>1. \A e \in KeptWrites : e.kept \in Nat BY DEF KeptWrites
  <2>2. Len(file) + 1 \in 1..Len(file) + 1 BY <1>2
  <2> QED BY <1>1, <2>1, <2>2, OffsetFact DEF FileSize
<1>5. entries' = [i \in 1..n |-> EntryLocation(file, i)]
  <2> DEFINE newest(i) ==
        CHOOSE j \in 1..n : file[j].index = i /\ \A x \in (j + 1)..n : file[x].index # i
  <2>1. entries' = [i \in {file[j].index : j \in 1..n} |-> EntryLocation(file, newest(i))]
    BY <1>3 DEF RebuiltEntries
  <2>2. \A j \in 1..n : file[j].index = j BY <1>2 DEF WholeNumbered
  <2>3. {file[j].index : j \in 1..n} = 1..n BY <2>2
  <2>4. ASSUME NEW i \in 1..n PROVE newest(i) = i
    <3>1. \A x \in (i + 1)..n : file[x].index # i
      <4> SUFFICES ASSUME NEW x \in (i + 1)..n PROVE file[x].index # i
        OBVIOUS
      <4>1. x \in 1..n /\ x # i BY <1>2
      <4> QED BY <2>2, <4>1
    <3>2. \A j \in 1..n : file[j].index = i => j = i BY <2>2
    <3> QED BY <2>2, <3>1, <3>2
  <2> HIDE DEF newest
  <2> QED BY <2>1, <2>3, <2>4
<1>6. Typed'
  <2>1. DOMAIN entries' \subseteq Nat \ {0} BY <1>2, <1>5
  <2> QED BY <1>1, <1>3, <1>4, <2>1 DEF Typed
<1>7. LocationsKept'
  <2>1. \A i \in 1..n : i \in 1..Len(file) /\ ~Torn(file[i]) /\ file[i].index = i
    BY <1>2 DEF WholeNumbered
  <2>2. \A i \in 1..n : i \in DOMAIN acked => acked[i] = file[i].data BY <1>1 DEF EntriesKept
  <2>3. \A i \in 1..n : Located(file, i, EntryLocation(file, i), acked) BY <2>1, <2>2 DEF Located
  <2> QED BY <1>3, <1>4, <1>5, <2>3 DEF LocationsKept
<1>8. EntriesKept' BY <1>1, <1>3, <1>5 DEF EntriesKept
<1> QED BY <1>6, <1>7, <1>8 DEF EInv

LEMMA NextEInv == EInv /\ [Next]_vars => EInv'
<1> SUFFICES ASSUME EInv, [Next]_vars PROVE EInv'
  OBVIOUS
<1>0. IInv' BY NextInv DEF EInv
<1>1. CASE Kill
  <2>1. /\ file' = file /\ acked' = acked /\ offset' = 0 /\ status' = "down"
        /\ kills' = kills + 1 /\ kills < MaxKills /\ shorts' = shorts
    BY <1>1 DEF Kill, Down
  <2>2. kills' \in 0..MaxKills BY <2>1, LogAssumption DEF EInv, Typed
  <2>3. DOMAIN entries' = {} BY <1>1 DEF Kill, Down
  <2>4. Typed' BY <2>1, <2>2, <2>3 DEF EInv, Typed
  <2> QED BY <1>0, <2>1, <2>4 DEF EInv, LocationsKept, EntriesKept
<1>2. CASE Close
  <2>1. status = "open" /\ status' = "closed"
        /\ UNCHANGED <<file, offset, entries, acked, kills, shorts>>
    BY <1>2 DEF Close
  <2> QED BY <1>0, <2>1 DEF EInv, Typed, LocationsKept, EntriesKept
<1>3. CASE UNCHANGED vars
  BY <1>0, <1>3 DEF vars, EInv, Typed, LocationsKept, EntriesKept
<1> QED BY <1>0, <1>1, <1>2, <1>3, AppendEInv, CutEInv, OpenEInv DEF Next

-----------------------------------------------------------------------------
(* Theorems about what the index leads to. *)

\* The invariant holds in every reachable state.
LEMMA EInvHolds == Spec => []EInv
BY InitEInv, NextEInv, PTL DEF Spec

\* Every variable keeps its type: entries are numbered from one and no counter of the
\* log becomes negative.
THEOREM TypeCorrect == Spec => []TypeOK
<1>1. EInv => TypeOK
  <2> SUFFICES ASSUME EInv PROVE TypeOK
    OBVIOUS
  <2>1. file \in Seq([index : Nat \ {0}, data : Data, size : Nat, kept : Nat])
    <3> DEFINE AnyWrites == [index : Nat \ {0}, data : Data, size : Nat, kept : Nat]
    <3>1. KeptWrites \subseteq AnyWrites BY DEF KeptWrites
    <3>2. file \in Seq(KeptWrites) BY DEF EInv, Typed
    <3>3. file \in Seq(AnyWrites)
      <4> HIDE DEF AnyWrites
      <4> QED BY <3>1, <3>2
    <3> QED BY <3>3
  <2> QED BY <2>1 DEF EInv, IInv, Typed, TypeOK
<1> QED BY <1>1, EInvHolds, PTL

\* Every acknowledged entry before the first torn write is read from an open log as it
\* was appended, in every process, whatever is written behind the torn write; and as
\* long as nothing is, none is behind it and the log can be created again.
THEOREM KeepsAcked == Spec => []IntactLogKeepsAcked
<1>1. EInv => IntactLogKeepsAcked
  <2> SUFFICES ASSUME EInv PROVE IntactLogKeepsAcked
    OBVIOUS
  <2> DEFINE n == Whole(file)
  <2>1. /\ n \in 0..Len(file) /\ Len(file) \in Nat /\ WholeNumbered(file, n)
        /\ status # "down" => n <= lastIndex /\ DOMAIN entries = 1..lastIndex
        /\ TornOnlyAtTail(file) => DOMAIN acked \subseteq 1..n
        /\ file \in Seq(KeptWrites) /\ lastIndex \in Nat
    BY PrefixFact DEF EInv, IInv, Typed
  <2>2. ASSUME TornOnlyAtTail(file) PROVE RebuildErrs(file) = {FALSE}
    <3>1. CASE n = Len(file)
      <4>1. ~(n < Len(file)) BY <2>1, <3>1
      <4> QED BY <3>1, <4>1 DEF RebuildErrs
    <3>2. CASE n # Len(file)
      <4>1. n < Len(file) /\ n + 2 = Len(file) + 1 BY <2>1, <2>2, <3>2 DEF TornOnlyAtTail
      <4>2. \A e \in KeptWrites : e.kept \in Nat BY DEF KeptWrites
      <4>3. Len(file) + 1 \in 1..Len(file) + 1 BY <2>1
      <4>4. Offset(file, Len(file) + 1) \in Nat BY <2>1, <4>2, <4>3, OffsetFact
      <4>5. FileSize(file) - Offset(file, n + 2) = 0 BY <4>1, <4>4 DEF FileSize
      <4>6. ~(FileSize(file) - Offset(file, n + 2) > 0) BY <4>5
      <4> QED BY <3>2, <4>1, <4>5, <4>6 DEF RebuildErrs
    <3> QED BY <3>1, <3>2
  <2>3. ASSUME status = "open", NEW i \in DOMAIN acked \cap 1..n
        PROVE  ReadResult(i) = Entry(i, acked[i])
    <3>1. /\ i \in DOMAIN entries /\ i \in 1..Len(file)
          /\ ~Torn(file[i]) /\ file[i].index = i
      BY <2>1, <2>3 DEF WholeNumbered
    <3>2. entries[i] = EntryLocation(file, i) /\ acked[i] = file[i].data
      BY <2>3 DEF EInv, EntriesKept
    <3>3. ReadAt(file, EntryLocation(file, i)) = Entry(i, file[i].data)
      BY <2>1, <3>1, ReadAtLocation
    <3> QED BY <2>3, <3>1, <3>2, <3>3 DEF ReadResult
  <2> QED BY <2>1, <2>2, <2>3 DEF IntactLogKeepsAcked
<1> QED BY <1>1, EInvHolds, PTL

\* In an open log whose offset is the end of the file, every index leads to the entry
\* with that index and to the data it was last acknowledged for, wherever torn writes
\* lie and whoever wrote it.
THEOREM LocationsHold == Spec => []AlignedLocationsHold
<1>1. EInv => AlignedLocationsHold
  <2> SUFFICES ASSUME EInv, status = "open", offset = FileSize(file), NEW i \in DOMAIN entries
               PROVE  /\ ReadResult(i).index = i
                      /\ i \in DOMAIN acked => ReadResult(i) = Entry(i, acked[i])
    BY DEF AlignedLocationsHold
  <2>1. file \in Seq(KeptWrites) BY DEF EInv, Typed
  <2>2. PICK j \in 1..Len(file) :
          /\ ~Torn(file[j]) /\ file[j].index = i /\ entries[i] = EntryLocation(file, j)
          /\ i \in DOMAIN acked => acked[i] = file[j].data
    BY DEF EInv, LocationsKept, Located
  <2>3. ReadResult(i) = Entry(i, file[j].data) BY <2>1, <2>2, ReadAtLocation DEF ReadResult
  <2>4. ReadResult(i).index = i BY <2>3 DEF Entry
  <2> QED BY <2>2, <2>3, <2>4
<1> QED BY <1>1, EInvHolds, PTL

\* An open log keeps answering what it answered once, through appends and short writes.
THEOREM AnswersKept == Spec => AnswersStay
<1>1. EInv /\ [Next]_vars =>
        [status = "open" /\ status' = "open" =>
           \A i \in DOMAIN entries :
             ReadResult(i) # NoEntry => ReadResult(i)' = ReadResult(i)]_vars
  <2> SUFFICES ASSUME EInv, Next, status = "open", status' = "open",
                      NEW i \in DOMAIN entries, ReadResult(i) # NoEntry
               PROVE  ReadResult(i)' = ReadResult(i)
    OBVIOUS
  <2>1. /\ file \in Seq(KeptWrites) /\ lastIndex \in Nat /\ DOMAIN entries = 1..lastIndex
    BY PrefixFact DEF EInv, IInv, Typed
  <2>2. PICK d \in Data, m \in Nat \ {0} :
          /\ file' = Append(file, Written(NextIndex, d, m))
          /\ AppendEntry(d) \/ entries' = entries
    <3>1. \A d \in Data : SizeOf[d] \in Nat \ {0} BY SizesPositive
    <3>2. CutPoints \subseteq Nat \ {0} BY LogAssumption
    <3>3. CASE \E d \in Data : AppendEntry(d) BY <3>1, <3>3 DEF AppendEntry
    <3>4. CASE \E d \in Data, k \in CutPoints : ShortWrite(d, k) BY <3>2, <3>4 DEF ShortWrite
    <3>5. ~Kill /\ ~Open /\ ~Close /\ \A d \in Data, k \in CutPoints : ~KillInAppend(d, k)
      BY DEF Kill, KillInAppend, Down, Open, Close
    <3> QED BY <3>3, <3>4, <3>5 DEF Next
  <2> DEFINE e == Written(NextIndex, d, m)
  <2>3. e \in KeptWrites BY <2>1, KeptFact
  <2>4. i \in DOMAIN entries' /\ entries'[i] = entries[i]
    <3>1. i # lastIndex + 1 BY <2>1
    <3> QED BY <2>2, <3>1 DEF AppendEntry, NextIndex
  <2>5. ReadResult(i) = ReadAt(file, entries[i]) /\ ReadResult(i)' = ReadAt(file', entries[i])
    BY <2>4 DEF ReadResult
  <2> HIDE DEF e
  <2>6. ReadAt(Append(file, e), entries[i]) = ReadAt(file, entries[i])
    BY <2>1, <2>3, <2>5, ReadAtAppend
  <2> QED BY <2>2, <2>5, <2>6 DEF e
<1> QED BY <1>1, EInvHolds, PTL DEF Spec, AnswersStay
=============================================================================
