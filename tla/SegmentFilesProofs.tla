------------------------- MODULE SegmentFilesProofs -------------------------
(***************************************************************************)
(* Lemmas about SegmentFiles: the recursions its operators are written     *)
(* with, offsets and locations, and the last record of a key.              *)
(***************************************************************************)
EXTENDS SegmentFiles, Recursion

-----------------------------------------------------------------------------
(* Offsets. *)

\* A record begins where the one before it ends, the first one at zero.
LEMMA OffsetFact ==
  ASSUME NEW R, \A r \in R : r.size \in Nat, NEW file \in Seq(R)
  PROVE  /\ \A j \in 1..Len(file) + 1 : Offset(file, j) \in Nat
         /\ Offset(file, 1) = 0
         /\ \A j \in 1..Len(file) : Offset(file, j + 1) = Offset(file, j) + file[j].size
<1> DEFINE N == Len(file)
           step == [i \in Nat |-> [x \in Nat |-> IF i \in 1..N THEN x + file[i].size ELSE 0]]
           Sums(g) == g = [i \in 0..N |-> IF i = 0 THEN 0 ELSE g[i - 1] + file[i].size]
           sums == CHOOSE g : Sums(g)
<1>1. N \in Nat /\ \A i \in 1..N : file[i].size \in Nat OBVIOUS
<1>2. \A i \in Nat, x \in Nat : step[i][x] \in Nat BY <1>1
<1>3. PICK g : Computes(g, Nat, 0, step, N)
  <2> HIDE DEF step, N
  <2>1. 0 \in Nat OBVIOUS
  <2> QED BY <1>1, <1>2, <2>1, RecursionExists
<1>3a. g \in [0..N -> Nat] /\ g[0] = 0 /\ \A i \in 1..N : g[i] = step[i][g[i - 1]]
  BY <1>3 DEF Computes
<1>4. Sums(g)
  <2>1. ASSUME NEW i \in 0..N, i # 0 PROVE g[i] = g[i - 1] + file[i].size
    <3>1. i - 1 \in 0..N /\ i \in 1..N /\ i \in Nat BY <1>1, <2>1
    <3>2. g[i - 1] \in Nat BY <1>3a, <3>1
    <3>3. step[i][g[i - 1]] = g[i - 1] + file[i].size BY <3>1, <3>2
    <3> QED BY <1>3a, <3>1, <3>3
  <2> HIDE DEF step, N
  <2> QED BY <1>3a, <2>1
<1>5. Sums(sums)
  <2> HIDE DEF Sums
  <2> QED BY <1>4
<1>6. \A j : Offset(file, j) = sums[j - 1] BY DEF Offset
<1> HIDE DEF sums, N
<1>7. \A i \in 0..N : sums[i] = IF i = 0 THEN 0 ELSE sums[i - 1] + file[i].size
  BY <1>5
<1>8. \A i \in 0..N : sums[i] \in Nat
  <2> DEFINE T == {i \in Nat : i \in 0..N => sums[i] \in Nat}
  <2>1. 0 \in T BY <1>1, <1>7
  <2>2. ASSUME NEW i \in Nat, i \in T PROVE i + 1 \in T
    <3>1. SUFFICES ASSUME i + 1 \in 0..N PROVE sums[i + 1] \in Nat OBVIOUS
    <3>2. i \in 0..N /\ i + 1 \in 1..N /\ i + 1 # 0 /\ i + 1 - 1 = i BY <1>1, <3>1
    <3>3. sums[i] \in Nat BY <2>2, <3>2
    <3>4. sums[i + 1] = sums[i] + file[i + 1].size BY <1>7, <3>1, <3>2
    <3> QED BY <1>1, <3>2, <3>3, <3>4
  <2>3. Nat \subseteq T
    <3> HIDE DEF T
    <3> QED BY <2>1, <2>2, SetInduction
  <2> QED BY <1>1, <2>3
<1>9. ASSUME NEW j \in 1..N + 1 PROVE Offset(file, j) \in Nat
  <2>1. j - 1 \in 0..N BY <1>1
  <2> QED BY <1>6, <1>8, <2>1
<1>10. Offset(file, 1) = 0 BY <1>1, <1>6, <1>7
<1>11. ASSUME NEW j \in 1..N PROVE Offset(file, j + 1) = Offset(file, j) + file[j].size
  <2>1. j \in 0..N /\ j # 0 /\ j + 1 - 1 = j BY <1>1
  <2> QED BY <1>6, <1>7, <2>1
<1> QED BY <1>9, <1>10, <1>11 DEF N

\* Offsets of the records in a file do not change when one is appended.
LEMMA OffsetAppend ==
  ASSUME NEW R, \A r \in R : r.size \in Nat, NEW file \in Seq(R), NEW r \in R,
         NEW j \in 1..Len(file) + 1
  PROVE  Offset(Append(file, r), j) = Offset(file, j)
<1> DEFINE g == Append(file, r)
           T == {i \in Nat : i \in 1..Len(file) + 1 => Offset(g, i) = Offset(file, i)}
<1>1. /\ g \in Seq(R) /\ Len(g) = Len(file) + 1 /\ Len(file) \in Nat
      /\ \A i \in 1..Len(file) : g[i] = file[i]
  OBVIOUS
<1> HIDE DEF g
<1>2. 0 \in T OBVIOUS
<1>3. ASSUME NEW i \in Nat, i \in T PROVE i + 1 \in T
  <2>1. SUFFICES ASSUME i + 1 \in 1..Len(file) + 1 PROVE Offset(g, i + 1) = Offset(file, i + 1)
    OBVIOUS
  <2>2. CASE i = 0 BY <1>1, <2>2, OffsetFact
  <2>3. CASE i # 0
    <3>1. i \in 1..Len(file) /\ i \in 1..Len(g) /\ i \in 1..Len(file) + 1 BY <1>1, <2>1, <2>3
    <3>2. Offset(g, i) = Offset(file, i) BY <1>3, <3>1
    <3>3. Offset(g, i + 1) = Offset(g, i) + g[i].size BY <1>1, <3>1, OffsetFact
    <3>4. Offset(file, i + 1) = Offset(file, i) + file[i].size BY <1>1, <3>1, OffsetFact
    <3> QED BY <1>1, <3>1, <3>2, <3>3, <3>4
  <2> QED BY <2>2, <2>3
<1>4. Nat \subseteq T
  <2> HIDE DEF T
  <2> QED BY <1>2, <1>3, SetInduction
<1>5. j \in Nat BY <1>1
<1> QED BY <1>4, <1>5 DEF g

\* Records begin in their order.
LEMMA OffsetMonotone ==
  ASSUME NEW R, \A r \in R : r.size \in Nat, NEW file \in Seq(R),
         NEW i \in 1..Len(file) + 1, NEW j \in 1..Len(file) + 1, i <= j
  PROVE  Offset(file, i) <= Offset(file, j)
<1> DEFINE T == {k \in Nat : k \in 1..Len(file) + 1 /\ i <= k => Offset(file, i) <= Offset(file, k)}
<1>0. Len(file) \in Nat OBVIOUS
<1>1. 0 \in T BY <1>0
<1>2. ASSUME NEW k \in Nat, k \in T PROVE k + 1 \in T
  <2>1. SUFFICES ASSUME k + 1 \in 1..Len(file) + 1, i <= k + 1
                 PROVE  Offset(file, i) <= Offset(file, k + 1)
    OBVIOUS
  <2>2. CASE i = k + 1
    <3>1. Offset(file, i) \in Nat BY OffsetFact
    <3> QED BY <2>2, <3>1
  <2>3. CASE i # k + 1
    <3>1. k \in 1..Len(file) /\ k \in 1..Len(file) + 1 /\ i <= k BY <1>0, <2>1, <2>3
    <3>2. Offset(file, k + 1) = Offset(file, k) + file[k].size BY <3>1, OffsetFact
    <3>3. Offset(file, i) \in Nat /\ Offset(file, k) \in Nat BY <3>1, OffsetFact
    <3>4. file[k].size \in Nat BY <3>1
    <3>5. Offset(file, i) <= Offset(file, k) BY <1>2, <3>1
    <3> QED BY <3>2, <3>3, <3>4, <3>5
  <2> QED BY <2>2, <2>3
<1>3. Nat \subseteq T
  <2> HIDE DEF T
  <2> QED BY <1>1, <1>2, SetInduction
<1>4. j \in Nat BY <1>0
<1> QED BY <1>3, <1>4

\* Records that are not empty begin at different places.
LEMMA OffsetIncreases ==
  ASSUME NEW R, \A r \in R : r.size \in Nat \ {0}, NEW file \in Seq(R),
         NEW i \in 1..Len(file) + 1, NEW j \in 1..Len(file) + 1, i < j
  PROVE  Offset(file, i) < Offset(file, j)
<1>1. Len(file) \in Nat /\ \A r \in R : r.size \in Nat OBVIOUS
<1>2. i \in 1..Len(file) /\ i + 1 \in 1..Len(file) + 1 /\ i + 1 <= j BY <1>1
<1>3. Offset(file, i + 1) <= Offset(file, j) BY <1>1, <1>2, OffsetMonotone
<1>4. Offset(file, i + 1) = Offset(file, i) + file[i].size BY <1>1, <1>2, OffsetFact
<1>5. Offset(file, i) \in Nat /\ Offset(file, j) \in Nat BY <1>1, OffsetFact
<1>6. file[i].size \in Nat \ {0} BY <1>2
<1> QED BY <1>3, <1>4, <1>5, <1>6

-----------------------------------------------------------------------------
(* The last record of a key. *)

\* A bounded collection of files with records of R.
AreFiles(files, R) ==
  /\ DOMAIN files \subseteq Nat
  /\ \E b \in Nat : \A i \in DOMAIN files : i <= b
  /\ \A i \in DOMAIN files : files[i] \in Seq(R)

\* The j-th record of file i is the last one of k.
IsLastAt(files, k, i, j) ==
  /\ i \in DOMAIN files /\ j \in 1..Len(files[i])
  /\ files[i][j].key = k
  /\ \A x \in DOMAIN files : \A y \in 1..Len(files[x]) :
       files[x][y].key = k => x < i \/ (x = i /\ y <= j)

\* Where the records of a key are.
LEMMA PositionsFact ==
  ASSUME NEW files, NEW k
  PROVE  \A p : p \in Positions(files, k) <=>
                 \E i \in DOMAIN files : \E j \in 1..Len(files[i]) :
                   p = <<i, j>> /\ files[i][j].key = k
BY DEF Positions

\* The last record of a key has one place, which LastPosition chooses.
LEMMA LastAtUnique ==
  ASSUME NEW files, DOMAIN files \subseteq Nat, NEW k, NEW i, NEW j, IsLastAt(files, k, i, j)
  PROVE  /\ Positions(files, k) # {}
         /\ LastPosition(files, k) = <<i, j>>
<1> DEFINE IsLatest(p) == \A q \in Positions(files, k) : q[1] < p[1] \/ (q[1] = p[1] /\ q[2] <= p[2])
<1>1. <<i, j>> \in Positions(files, k) BY PositionsFact DEF IsLastAt
<1>2. IsLatest(<<i, j>>)
  <2> SUFFICES ASSUME NEW q \in Positions(files, k)
               PROVE  q[1] < i \/ (q[1] = i /\ q[2] <= j)
    OBVIOUS
  <2>1. PICK x \in DOMAIN files : \E y \in 1..Len(files[x]) : q = <<x, y>> /\ files[x][y].key = k
    BY PositionsFact
  <2>2. PICK y \in 1..Len(files[x]) : q = <<x, y>> /\ files[x][y].key = k BY <2>1
  <2> QED BY <2>2 DEF IsLastAt
<1>3. ASSUME NEW p \in Positions(files, k), IsLatest(p) PROVE p = <<i, j>>
  <2>1. PICK x \in DOMAIN files : \E y \in 1..Len(files[x]) : p = <<x, y>> BY PositionsFact
  <2>2. PICK y \in 1..Len(files[x]) : p = <<x, y>> BY <2>1
  <2>3. i < x \/ (i = x /\ j <= y) BY <1>1, <1>3, <2>2
  <2>4. x < i \/ (x = i /\ y <= j) BY <1>2, <2>2
  <2>5. i \in Nat /\ x \in Nat /\ j \in Int /\ y \in Int BY <2>2 DEF IsLastAt
  <2> QED BY <2>2, <2>3, <2>4, <2>5
<1>4. LastPosition(files, k) = CHOOSE p \in Positions(files, k) : IsLatest(p) BY DEF LastPosition
<1> HIDE DEF IsLatest
<1> QED BY <1>1, <1>2, <1>3, <1>4

\* A key with a record has a last one.
LEMMA LastAtExists ==
  ASSUME NEW R, NEW files, AreFiles(files, R), NEW k, Positions(files, k) # {}
  PROVE  \E i, j : IsLastAt(files, k, i, j)
<1> DEFINE Ids == {x \in DOMAIN files : \E y \in 1..Len(files[x]) : files[x][y].key = k}
<1>1. Ids \in SUBSET Nat /\ Ids # {} BY PositionsFact DEF AreFiles
<1>2. PICK b \in Nat : \A x \in Ids : x <= b BY DEF AreFiles
<1>3. PICK i \in Ids : \A x \in Ids : x <= i
  <2> HIDE DEF Ids
  <2> QED BY <1>1, <1>2, GreatestElement
<1> DEFINE Places == {y \in 1..Len(files[i]) : files[i][y].key = k}
<1>4. files[i] \in Seq(R) /\ Len(files[i]) \in Nat BY <1>3 DEF AreFiles
<1>5. Places \in SUBSET Nat /\ Places # {} /\ \A y \in Places : y <= Len(files[i])
  BY <1>3, <1>4
<1>6. PICK j \in Places : \A y \in Places : y <= j
  <2> HIDE DEF Places
  <2> QED BY <1>4, <1>5, GreatestElement
<1>7. ASSUME NEW x \in DOMAIN files, NEW y \in 1..Len(files[x]), files[x][y].key = k
      PROVE  x < i \/ (x = i /\ y <= j)
  <2>1. x \in Ids BY <1>7
  <2>2. x <= i /\ x \in Nat /\ i \in Nat BY <1>1, <1>3, <2>1
  <2>3. CASE x = i BY <1>6, <1>7, <2>3
  <2>4. CASE x # i BY <2>2, <2>4
  <2> QED BY <2>3, <2>4
<1>8. i \in DOMAIN files /\ j \in 1..Len(files[i]) /\ files[i][j].key = k BY <1>3, <1>6
<1>9. IsLastAt(files, k, i, j) BY <1>7, <1>8 DEF IsLastAt
<1> QED BY <1>9

\* What the scan makes of the last record of a key.
LEMMA LastAtFact ==
  ASSUME NEW files, DOMAIN files \subseteq Nat, NEW k \in Key, NEW i, NEW j,
         IsLastAt(files, k, i, j)
  PROVE  /\ LastPosition(files, k)[1] = i /\ LastPosition(files, k)[2] = j
         /\ LastRecord(files, k) = files[i][j]
         /\ k \in LiveKeys(files) <=> files[i][j].op # "del"
         /\ k \in LiveKeys(files) => Populate(files)[k] = Location(files, i, j)
<1>1. Positions(files, k) # {} /\ LastPosition(files, k) = <<i, j>> BY LastAtUnique
<1>2. LastRecord(files, k) = files[i][j] BY <1>1 DEF LastRecord
<1>3. k \in LiveKeys(files) <=> files[i][j].op # "del" BY <1>1, <1>2 DEF LiveKeys
<1>4. k \in LiveKeys(files) => Populate(files)[k] = Location(files, i, j) BY <1>1 DEF Populate
<1> QED BY <1>1, <1>2, <1>3, <1>4

\* more is files with r added behind all records of the files, in file a.
RecordAdded(files, more, a, r) ==
  /\ a \in DOMAIN more /\ Len(more[a]) \in 1..Len(more[a]) /\ more[a][Len(more[a])] = r
  /\ \A i \in DOMAIN files : \A j \in 1..Len(files[i]) :
       /\ i \in DOMAIN more /\ j \in 1..Len(more[i]) /\ more[i][j] = files[i][j]
       /\ Offset(more[i], j) = Offset(files[i], j)
       /\ i < a \/ (i = a /\ j < Len(more[a]))
  /\ \A i \in DOMAIN more : \A j \in 1..Len(more[i]) :
       \/ i = a /\ j = Len(more[a])
       \/ i \in DOMAIN files /\ j \in 1..Len(files[i])

\* A record added at the end is the last of its key; other keys keep theirs.
LEMMA LastAfterAdd ==
  ASSUME NEW files, NEW more, NEW a \in Nat, NEW r, RecordAdded(files, more, a, r)
  PROVE  /\ IsLastAt(more, r.key, a, Len(more[a]))
         /\ \A k, i, j : k # r.key => (IsLastAt(more, k, i, j) <=> IsLastAt(files, k, i, j))
<1> DEFINE b == Len(more[a])
<1>1. a \in DOMAIN more /\ b \in 1..b /\ more[a][b] = r BY DEF RecordAdded
<1>2. ASSUME NEW x \in DOMAIN more, NEW y \in 1..Len(more[x])
      PROVE  x < a \/ (x = a /\ y <= b)
  BY <1>1 DEF RecordAdded
<1>3. IsLastAt(more, r.key, a, b) BY <1>1, <1>2 DEF IsLastAt
<1>4. ASSUME NEW k, NEW i, NEW j, k # r.key, IsLastAt(more, k, i, j)
      PROVE  IsLastAt(files, k, i, j)
  <2>1. i \in DOMAIN more /\ j \in 1..Len(more[i]) /\ more[i][j].key = k BY <1>4 DEF IsLastAt
  <2>2. i \in DOMAIN files /\ j \in 1..Len(files[i]) BY <1>1, <1>4, <2>1 DEF RecordAdded
  <2>3. files[i][j].key = k BY <2>1, <2>2 DEF RecordAdded
  <2>4. ASSUME NEW x \in DOMAIN files, NEW y \in 1..Len(files[x]), files[x][y].key = k
        PROVE  x < i \/ (x = i /\ y <= j)
    <3>1. x \in DOMAIN more /\ y \in 1..Len(more[x]) /\ more[x][y].key = k
      BY <2>4 DEF RecordAdded
    <3> QED BY <1>4, <3>1 DEF IsLastAt
  <2> QED BY <2>2, <2>3, <2>4 DEF IsLastAt
<1>5. ASSUME NEW k, NEW i, NEW j, k # r.key, IsLastAt(files, k, i, j)
      PROVE  IsLastAt(more, k, i, j)
  <2>1. i \in DOMAIN files /\ j \in 1..Len(files[i]) /\ files[i][j].key = k BY <1>5 DEF IsLastAt
  <2>2. i \in DOMAIN more /\ j \in 1..Len(more[i]) /\ more[i][j].key = k
    BY <2>1 DEF RecordAdded
  <2>3. ASSUME NEW x \in DOMAIN more, NEW y \in 1..Len(more[x]), more[x][y].key = k
        PROVE  x < i \/ (x = i /\ y <= j)
    <3>1. x \in DOMAIN files /\ y \in 1..Len(files[x]) BY <1>1, <1>5, <2>3 DEF RecordAdded
    <3>2. files[x][y].key = k BY <2>3, <3>1 DEF RecordAdded
    <3> QED BY <1>5, <3>1, <3>2 DEF IsLastAt
  <2> QED BY <2>2, <2>3 DEF IsLastAt
<1> QED BY <1>3, <1>4, <1>5

\* What a key whose last record is r is answered with.
Answer(r) == IF r.op = "del" THEN NotFound ELSE r.val

NoRecordOf(files, k) == \A i \in DOMAIN files : \A j \in 1..Len(files[i]) : files[i][j].key # k

\* The replay of key k finds its last record at (i, j).
ReplaysAt(files, k, i, j) ==
  /\ IsLastAt(files, k, i, j)
  /\ Recovered(files)[k] = Answer(files[i][j])
  /\ k \in LiveKeys(files) <=> files[i][j].op # "del"
  /\ k \in LiveKeys(files) => Populate(files)[k] = Location(files, i, j)

\* A key without records is replayed to nothing.
LEMMA ReplayNone ==
  ASSUME NEW files, NEW k \in Key, NoRecordOf(files, k)
  PROVE  k \notin LiveKeys(files) /\ Recovered(files)[k] = NotFound
<1>1. Positions(files, k) = {} BY PositionsFact DEF NoRecordOf
<1>2. k \notin LiveKeys(files) BY <1>1 DEF LiveKeys
<1> QED BY <1>2 DEF Recovered

\* A key is replayed to its last record.
LEMMA ReplayLast ==
  ASSUME NEW files, DOMAIN files \subseteq Nat, NEW k \in Key, NEW i, NEW j,
         IsLastAt(files, k, i, j)
  PROVE  ReplaysAt(files, k, i, j)
<1>1. /\ LastRecord(files, k) = files[i][j]
      /\ k \in LiveKeys(files) <=> files[i][j].op # "del"
      /\ k \in LiveKeys(files) => Populate(files)[k] = Location(files, i, j)
  BY LastAtFact
<1>2. Recovered(files)[k] = IF k \in LiveKeys(files) THEN LastRecord(files, k).val ELSE NotFound
  BY DEF Recovered
<1> QED BY <1>1, <1>2 DEF ReplaysAt, Answer

\* A key has a last record or none.
LEMMA ReplayCases ==
  ASSUME NEW R, NEW files, AreFiles(files, R), NEW k \in Key
  PROVE  NoRecordOf(files, k) \/ \E i, j : ReplaysAt(files, k, i, j)
<1>1. CASE Positions(files, k) = {} BY <1>1, PositionsFact DEF NoRecordOf
<1>2. CASE Positions(files, k) # {}
  <2>1. PICK i, j : IsLastAt(files, k, i, j) BY <1>2, LastAtExists
  <2>2. DOMAIN files \subseteq Nat BY DEF AreFiles
  <2>3. ReplaysAt(files, k, i, j) BY <2>1, <2>2, ReplayLast
  <2> QED BY <2>3
<1> QED BY <1>1, <1>2

\* What r's addition makes of a replay.
ReplayAdds(files, more, a, r) ==
  /\ Recovered(more) = [Recovered(files) EXCEPT ![r.key] = Answer(r)]
  /\ LiveKeys(more) = IF r.op = "del" THEN LiveKeys(files) \ {r.key}
                      ELSE LiveKeys(files) \cup {r.key}
  /\ Populate(more) = [k \in LiveKeys(more) |->
                         IF k = r.key THEN Location(more, a, Len(more[a]))
                         ELSE Populate(files)[k]]

\* Replaying one more record is what a write does to the index and the answers.
LEMMA ReplayAdd ==
  ASSUME NEW R, NEW files, AreFiles(files, R), NEW more, AreFiles(more, R),
         NEW a \in Nat, NEW r, r.key \in Key, RecordAdded(files, more, a, r)
  PROVE  ReplayAdds(files, more, a, r)
<1>1. /\ IsLastAt(more, r.key, a, Len(more[a]))
      /\ \A k, i, j : k # r.key => (IsLastAt(more, k, i, j) <=> IsLastAt(files, k, i, j))
  BY LastAfterAdd
<1>2. DOMAIN files \subseteq Nat /\ DOMAIN more \subseteq Nat BY DEF AreFiles
<1>3. more[a][Len(more[a])] = r BY DEF RecordAdded
<1>4. ReplaysAt(more, r.key, a, Len(more[a])) BY <1>1, <1>2, ReplayLast
<1>5. ASSUME NEW k \in Key, k # r.key
      PROVE  /\ Recovered(more)[k] = Recovered(files)[k]
             /\ k \in LiveKeys(more) <=> k \in LiveKeys(files)
             /\ k \in LiveKeys(more) => Populate(more)[k] = Populate(files)[k]
  <2>1. CASE NoRecordOf(files, k)
    <3>1. NoRecordOf(more, k) BY <1>3, <1>5, <2>1 DEF RecordAdded, NoRecordOf
    <3> QED BY <2>1, <3>1, ReplayNone
  <2>2. CASE \E i, j : ReplaysAt(files, k, i, j)
    <3>1. PICK i, j : ReplaysAt(files, k, i, j) BY <2>2
    <3>2. IsLastAt(files, k, i, j) /\ IsLastAt(more, k, i, j) BY <1>1, <1>5, <3>1 DEF ReplaysAt
    <3>3. ReplaysAt(more, k, i, j) BY <1>2, <3>2, ReplayLast
    <3>4. i \in DOMAIN files /\ j \in 1..Len(files[i]) BY <3>2 DEF IsLastAt
    <3>5. more[i][j] = files[i][j] /\ Location(more, i, j) = Location(files, i, j)
      BY <3>4 DEF RecordAdded, Location
    <3> QED BY <3>1, <3>3, <3>5 DEF ReplaysAt
  <2> QED BY <2>1, <2>2, ReplayCases
<1>6. Recovered(more) = [Recovered(files) EXCEPT ![r.key] = Answer(r)]
  <2>1. Recovered(more) = [k \in Key |-> Recovered(more)[k]]
        /\ Recovered(files) = [k \in Key |-> Recovered(files)[k]]
    BY DEF Recovered
  <2>2. Recovered(more)[r.key] = Answer(r) BY <1>3, <1>4 DEF ReplaysAt
  <2> QED BY <1>5, <2>1, <2>2
<1>7. LiveKeys(more) = IF r.op = "del" THEN LiveKeys(files) \ {r.key}
                       ELSE LiveKeys(files) \cup {r.key}
  <2>1. LiveKeys(more) \subseteq Key /\ LiveKeys(files) \subseteq Key BY DEF LiveKeys
  <2>2. r.key \in LiveKeys(more) <=> r.op # "del" BY <1>3, <1>4 DEF ReplaysAt
  <2> QED BY <1>5, <2>1, <2>2
<1>8. Populate(more) = [k \in LiveKeys(more) |->
                          IF k = r.key THEN Location(more, a, Len(more[a]))
                          ELSE Populate(files)[k]]
  <2>1. Populate(more) = [k \in LiveKeys(more) |-> Populate(more)[k]] BY DEF Populate
  <2>2. LiveKeys(more) \subseteq Key BY DEF LiveKeys
  <2>3. r.key \in LiveKeys(more) => Populate(more)[r.key] = Location(more, a, Len(more[a]))
    BY <1>4 DEF ReplaysAt
  <2> QED BY <1>5, <2>1, <2>2, <2>3
<1> QED BY <1>6, <1>7, <1>8 DEF ReplayAdds

\* Files whose keys have equal last records are replayed to equal answers.
LEMMA SameAnswers ==
  ASSUME NEW R, NEW files, AreFiles(files, R), NEW more, DOMAIN more \subseteq Nat,
         \A k \in Key : NoRecordOf(files, k) => NoRecordOf(more, k),
         \A k \in Key : \A i, j : IsLastAt(files, k, i, j) =>
           \/ NoRecordOf(more, k) /\ files[i][j].op = "del"
           \/ \E x, y : IsLastAt(more, k, x, y) /\ Answer(more[x][y]) = Answer(files[i][j])
  PROVE  Recovered(more) = Recovered(files)
<1>1. ASSUME NEW k \in Key PROVE Recovered(more)[k] = Recovered(files)[k]
  <2>1. CASE NoRecordOf(files, k) BY <2>1, ReplayNone
  <2>2. CASE \E i, j : ReplaysAt(files, k, i, j)
    <3>1. PICK i, j : ReplaysAt(files, k, i, j) BY <2>2
    <3>2. IsLastAt(files, k, i, j) /\ Recovered(files)[k] = Answer(files[i][j])
      BY <3>1 DEF ReplaysAt
    <3>3. CASE NoRecordOf(more, k) /\ files[i][j].op = "del"
      BY <3>2, <3>3, ReplayNone DEF Answer
    <3>4. CASE \E x, y : IsLastAt(more, k, x, y) /\ Answer(more[x][y]) = Answer(files[i][j])
      <4>1. PICK x, y : IsLastAt(more, k, x, y) /\ Answer(more[x][y]) = Answer(files[i][j])
        BY <3>4
      <4>2. ReplaysAt(more, k, x, y) BY <4>1, ReplayLast
      <4> QED BY <3>2, <4>1, <4>2 DEF ReplaysAt
    <3> QED BY <3>2, <3>3, <3>4
  <2> QED BY <2>1, <2>2, ReplayCases
<1> QED BY <1>1 DEF Recovered

-----------------------------------------------------------------------------
(* What the compactor writes. *)

\* Bufio holds back a number of bytes, none when each record exceeds the buffer.
LEMMA BufferedFact ==
  ASSUME NEW R, \A r \in R : r.size \in Nat, NEW file \in Seq(R), NEW bufsize \in Nat
  PROVE  /\ Buffered(file, bufsize) \in Nat
         /\ (\A r \in R : r.size > bufsize) => Buffered(file, bufsize) = 0
<1> DEFINE N == Len(file)
           Kept(x, i) ==
             LET free == bufsize - x
                 size == file[i].size
             IN  CASE size <= free -> bufsize - free + size
                   [] size > free /\ free < bufsize /\ size - free <= bufsize -> size - free
                   [] OTHER -> 0
           step == [i \in Nat |-> [x \in Nat |-> IF i \in 1..N THEN Kept(x, i) ELSE 0]]
           Holds(g) == g = [i \in 0..N |-> IF i = 0 THEN 0 ELSE Kept(g[i - 1], i)]
           held == CHOOSE g : Holds(g)
<1>1. N \in Nat /\ \A i \in 1..N : file[i].size \in Nat OBVIOUS
<1>2. \A i \in 1..N, x \in Nat : Kept(x, i) \in Nat BY <1>1
<1> HIDE DEF Kept
<1>3. \A i \in Nat, x \in Nat : step[i][x] \in Nat BY <1>2
<1>4. PICK g : Computes(g, Nat, 0, step, N)
  <2> HIDE DEF step, N
  <2>1. 0 \in Nat OBVIOUS
  <2> QED BY <1>1, <1>3, <2>1, RecursionExists
<1>5. g \in [0..N -> Nat] /\ g[0] = 0 /\ \A i \in 1..N : g[i] = step[i][g[i - 1]]
  BY <1>4 DEF Computes
<1>6. Holds(g)
  <2>1. ASSUME NEW i \in 0..N, i # 0 PROVE g[i] = Kept(g[i - 1], i)
    <3>1. i - 1 \in 0..N /\ i \in 1..N /\ i \in Nat BY <1>1, <2>1
    <3>2. g[i - 1] \in Nat BY <1>5, <3>1
    <3> QED BY <1>5, <3>1, <3>2
  <2> HIDE DEF step, N
  <2> QED BY <1>5, <2>1
<1>7. Holds(held)
  <2> HIDE DEF Holds
  <2> QED BY <1>6
<1>8. Buffered(file, bufsize) = held[N] BY DEF Buffered, Kept
<1> HIDE DEF held, N
<1>9. \A i \in 0..N : held[i] = IF i = 0 THEN 0 ELSE Kept(held[i - 1], i) BY <1>7
<1>10. \A i \in 0..N : held[i] \in Nat /\ ((\A r \in R : r.size > bufsize) => held[i] = 0)
  <2> DEFINE Fine(i) == held[i] \in Nat /\ ((\A r \in R : r.size > bufsize) => held[i] = 0)
             T == {i \in Nat : i \in 0..N => Fine(i)}
  <2>1. 0 \in T BY <1>1, <1>9
  <2>2. ASSUME NEW i \in Nat, i \in T PROVE i + 1 \in T
    <3>1. SUFFICES ASSUME i + 1 \in 0..N PROVE Fine(i + 1) OBVIOUS
    <3>2. i \in 0..N /\ i + 1 \in 1..N /\ i + 1 # 0 /\ i + 1 - 1 = i BY <1>1, <3>1
    <3>3. Fine(i) BY <2>2, <3>2
    <3>4. held[i + 1] = Kept(held[i], i + 1) BY <1>9, <3>1, <3>2
    <3>5. held[i + 1] \in Nat BY <1>2, <3>2, <3>3, <3>4
    <3>6. ASSUME \A r \in R : r.size > bufsize PROVE held[i + 1] = 0
      <4>1. held[i] = 0 BY <3>3, <3>6
      <4>2. file[i + 1] \in R BY <3>2 DEF N
      <4>3. file[i + 1].size > bufsize /\ file[i + 1].size \in Nat BY <3>6, <4>2
      <4>4. Kept(0, i + 1) = 0 BY <4>3 DEF Kept
      <4> QED BY <3>4, <4>1, <4>4
    <3> QED BY <3>5, <3>6
  <2>3. Nat \subseteq T
    <3> HIDE DEF T
    <3> QED BY <2>1, <2>2, SetInduction
  <2> QED BY <1>1, <2>3
<1>11. N \in 0..N BY <1>1
<1> QED BY <1>8, <1>10, <1>11

\* The files hold the first n records, each in one place.
Holds(files, records, n) ==
  /\ \A i \in 1..Len(files) : \A j \in 1..Len(files[i]) :
       \E m \in 1..n : files[i][j] = records[m]
  /\ \A m \in 1..n : \E i \in 1..Len(files) : \E j \in 1..Len(files[i]) :
       files[i][j] = records[m]
  /\ \A i, x \in 1..Len(files) : \A j \in 1..Len(files[i]), y \in 1..Len(files[x]) :
       files[i][j].key = files[x][y].key => i = x /\ j = y

\* more is files with r added as record b of file a.
AddedAt(files, more, r, a, b) ==
  /\ a \in 1..Len(more) /\ b \in 1..Len(more[a]) /\ more[a][b] = r
  /\ \A i \in 1..Len(files) : i \in 1..Len(more)
  /\ \A i \in 1..Len(files) : \A j \in 1..Len(files[i]) :
       j \in 1..Len(more[i]) /\ more[i][j] = files[i][j] /\ ~(i = a /\ j = b)
  /\ \A i \in 1..Len(more) : \A j \in 1..Len(more[i]) :
       (i = a /\ j = b) \/ (i \in 1..Len(files) /\ j \in 1..Len(files[i]))

\* One more record, at the end of the last file or of a new one.
LEMMA AddedSomewhere ==
  ASSUME NEW R, NEW r \in R, NEW files \in Seq(Seq(R)) \ {<<>>},
         NEW more,
         \/ more = Append(files, <<r>>)
         \/ more = [files EXCEPT ![Len(files)] = Append(@, r)]
  PROVE  more \in Seq(Seq(R)) \ {<<>>} /\ \E a, b : AddedAt(files, more, r, a, b)
<1> DEFINE L == Len(files)
<1>1. L \in Nat \ {0} /\ \A i \in 1..L : files[i] \in Seq(R) OBVIOUS
<1>2. CASE more = Append(files, <<r>>)
  <2>1. /\ more \in Seq(Seq(R)) /\ Len(more) = L + 1 /\ more[L + 1] = <<r>>
        /\ \A i \in 1..L : more[i] = files[i]
    BY <1>1, <1>2
  <2>2. Len(more[L + 1]) = 1 /\ more[L + 1][1] = r BY <2>1
  <2>3. \A i \in 1..Len(more) : i \in 1..L \/ i = L + 1 BY <1>1, <2>1
  <2>4. \A i \in 1..L : i \in 1..Len(more) /\ i # L + 1 BY <1>1, <2>1
  <2>5. \A i \in 1..Len(more) : \A j \in 1..Len(more[i]) :
          (i = L + 1 /\ j = 1) \/ (i \in 1..L /\ j \in 1..Len(files[i]))
    <3> TAKE i \in 1..Len(more)
    <3>1. CASE i = L + 1
      <4>1. Len(more[i]) = 1 BY <2>2, <3>1
      <4>2. \A j \in 1..1 : j = 1 OBVIOUS
      <4> QED BY <3>1, <4>1, <4>2
    <3>2. CASE i # L + 1 BY <2>1, <2>3, <3>2
    <3> QED BY <3>1, <3>2
  <2>6. L + 1 \in 1..Len(more) /\ 1 \in 1..Len(more[L + 1]) BY <1>1, <2>1, <2>2
  <2> HIDE DEF L
  <2>7. AddedAt(files, more, r, L + 1, 1)
    BY <2>1, <2>2, <2>4, <2>5, <2>6 DEF AddedAt, L
  <2> QED BY <2>1, <2>7
<1>3. CASE more = [files EXCEPT ![L] = Append(@, r)]
  <2>1. /\ more \in Seq(Seq(R)) /\ Len(more) = L
        /\ \A i \in 1..L : i # L => more[i] = files[i]
        /\ more[L] = Append(files[L], r) /\ files[L] \in Seq(R)
    BY <1>1, <1>3
  <2>2. /\ Len(more[L]) = Len(files[L]) + 1 /\ more[L][Len(files[L]) + 1] = r
        /\ \A j \in 1..Len(files[L]) : more[L][j] = files[L][j]
        /\ Len(files[L]) \in Nat
    BY <1>1, <2>1
  <2>3. \A j \in 1..Len(more[L]) : j \in 1..Len(files[L]) \/ j = Len(files[L]) + 1 BY <2>2
  <2>4. \A i \in 1..L : \A j \in 1..Len(files[i]) :
          j \in 1..Len(more[i]) /\ more[i][j] = files[i][j] /\ ~(i = L /\ j = Len(files[L]) + 1)
    <3> TAKE i \in 1..L
    <3>1. CASE i = L BY <2>2, <3>1
    <3>2. CASE i # L BY <2>1, <3>2
    <3> QED BY <3>1, <3>2
  <2>5. \A i \in 1..Len(more) : \A j \in 1..Len(more[i]) :
          (i = L /\ j = Len(files[L]) + 1) \/ (i \in 1..L /\ j \in 1..Len(files[i]))
    <3> TAKE i \in 1..Len(more)
    <3>1. CASE i = L BY <2>1, <2>3, <3>1
    <3>2. CASE i # L BY <2>1, <3>2
    <3> QED BY <3>1, <3>2
  <2>6. /\ L \in 1..Len(more) /\ Len(files[L]) + 1 \in 1..Len(more[L])
        /\ \A i \in 1..L : i \in 1..Len(more)
    BY <1>1, <2>1, <2>2
  <2> HIDE DEF L
  <2>7. AddedAt(files, more, r, L, Len(files[L]) + 1)
    BY <2>2, <2>4, <2>5, <2>6 DEF AddedAt, L
  <2> QED BY <1>1, <2>1, <2>7 DEF L
<1> QED BY <1>2, <1>3

\* Packed files with one more record hold one more.
LEMMA HoldsMore ==
  ASSUME NEW records, NEW n \in Nat,
         \A m \in 1..n : records[m].key # records[n + 1].key,
         NEW files, Holds(files, records, n),
         NEW more, NEW a, NEW b, AddedAt(files, more, records[n + 1], a, b)
  PROVE  Holds(more, records, n + 1)
<1>0. /\ \A i \in 1..Len(files) : \A j \in 1..Len(files[i]) :
           \E m \in 1..n : files[i][j] = records[m]
      /\ \A m \in 1..n :
           \E i \in 1..Len(files) : \E j \in 1..Len(files[i]) : files[i][j] = records[m]
  BY DEF Holds
<1>0a. \A i, x \in 1..Len(files) : \A j \in 1..Len(files[i]), y \in 1..Len(files[x]) :
         files[i][j].key = files[x][y].key => i = x /\ j = y
  BY DEF Holds
<1>0b. /\ \A i \in 1..Len(files) : i \in 1..Len(more)
       /\ \A i \in 1..Len(files) : \A j \in 1..Len(files[i]) :
            j \in 1..Len(more[i]) /\ more[i][j] = files[i][j] /\ ~(i = a /\ j = b)
  BY DEF AddedAt
<1>1. ASSUME NEW i \in 1..Len(more), NEW j \in 1..Len(more[i])
      PROVE  \E m \in 1..n + 1 : more[i][j] = records[m]
  <2>1. CASE i = a /\ j = b BY <2>1 DEF AddedAt
  <2>2. CASE i \in 1..Len(files) /\ j \in 1..Len(files[i])
    <3>1. PICK m \in 1..n : files[i][j] = records[m] BY <1>0, <2>2
    <3>2. m \in 1..n + 1 OBVIOUS
    <3>3. more[i][j] = files[i][j] BY <1>0b, <2>2
    <3> QED BY <3>1, <3>2, <3>3
  <2> QED BY <2>1, <2>2 DEF AddedAt
<1>2. ASSUME NEW m \in 1..n + 1
      PROVE  \E i \in 1..Len(more) : \E j \in 1..Len(more[i]) : more[i][j] = records[m]
  <2>1. CASE m = n + 1 BY <2>1 DEF AddedAt
  <2>2. CASE m # n + 1
    <3>1. m \in 1..n BY <2>2
    <3>2. \E i \in 1..Len(files) : \E j \in 1..Len(files[i]) : files[i][j] = records[m]
      BY <1>0, <3>1
    <3> QED BY <1>0b, <3>2
  <2> QED BY <2>1, <2>2
<1>3. ASSUME NEW i \in 1..Len(files), NEW j \in 1..Len(files[i])
      PROVE  files[i][j].key # records[n + 1].key
  <2>1. PICK m \in 1..n : files[i][j] = records[m] BY <1>0
  <2> QED BY <2>1
<1>4. ASSUME NEW i \in 1..Len(more), NEW x \in 1..Len(more), NEW j \in 1..Len(more[i]),
             NEW y \in 1..Len(more[x]), more[i][j].key = more[x][y].key
      PROVE  i = x /\ j = y
  <2>1. more[a][b] = records[n + 1] BY DEF AddedAt
  <2>2. (i = a /\ j = b) \/ (/\ i \in 1..Len(files) /\ j \in 1..Len(files[i])
                              /\ more[i][j] = files[i][j])
    BY DEF AddedAt
  <2>3. (x = a /\ y = b) \/ (/\ x \in 1..Len(files) /\ y \in 1..Len(files[x])
                              /\ more[x][y] = files[x][y])
    BY DEF AddedAt
  <2>4. CASE i = a /\ j = b BY <1>3, <1>4, <2>1, <2>3, <2>4
  <2>5. CASE x = a /\ y = b BY <1>3, <1>4, <2>1, <2>2, <2>5
  <2>6. CASE ~(i = a /\ j = b) /\ ~(x = a /\ y = b)
    <3>1. i \in 1..Len(files) /\ j \in 1..Len(files[i]) /\ x \in 1..Len(files) /\ y \in 1..Len(files[x])
      BY <2>2, <2>3, <2>6
    <3>2. files[i][j].key = files[x][y].key BY <1>4, <2>2, <2>3, <2>6
    <3> QED BY <1>0a, <3>1, <3>2
  <2> QED BY <2>4, <2>5, <2>6
<1> QED BY <1>1, <1>2, <1>4 DEF Holds

\* The files after one more record.
PackMore(files, r, max) ==
  IF FileSize(Last(files)) > max
  THEN Append(files, <<r>>)
  ELSE [files EXCEPT ![Len(files)] = Append(@, r)]

\* packed[n] is what Pack makes of the first n records.
PacksBy(packed, records, max, R) ==
  /\ packed[0] = << <<>> >>
  /\ \A i \in 0..Len(records) : packed[i] \in Seq(Seq(R)) \ {<<>>}
  /\ \A i \in 1..Len(records) : packed[i] = PackMore(packed[i - 1], records[i], max)
  /\ Pack(records, max) = packed[Len(records)]

\* Pack adds one record after the other.
LEMMA PackSteps ==
  ASSUME NEW R, NEW records \in Seq(R), NEW max
  PROVE  \E packed : PacksBy(packed, records, max, R)
<1> DEFINE N == Len(records)
           S == Seq(Seq(R)) \ {<<>>}
           More(files, n) ==
             IF FileSize(Last(files)) > max
             THEN Append(files, <<records[n]>>)
             ELSE [files EXCEPT ![Len(files)] = Append(@, records[n])]
           step == [i \in Nat |-> [x \in S |-> IF i \in 1..N THEN More(x, i) ELSE << <<>> >>]]
           Packs(g) == g = [i \in 0..N |-> IF i = 0 THEN << <<>> >> ELSE More(g[i - 1], i)]
           packed == CHOOSE g : Packs(g)
<1>1. N \in Nat /\ \A i \in 1..N : records[i] \in R OBVIOUS
<1>2. << <<>> >> \in S OBVIOUS
<1>3. ASSUME NEW i \in 1..N, NEW files \in S
      PROVE  More(files, i) \in S
  <2>1. records[i] \in R BY <1>1
  <2>2. \/ More(files, i) = Append(files, <<records[i]>>)
        \/ More(files, i) = [files EXCEPT ![Len(files)] = Append(@, records[i])]
    OBVIOUS
  <2> HIDE DEF More
  <2> QED BY <2>1, <2>2, AddedSomewhere
<1>3a. \A i, files : More(files, i) = PackMore(files, records[i], max) BY DEF PackMore
<1> HIDE DEF More
<1>4. \A i \in Nat, x \in S : step[i][x] \in S BY <1>2, <1>3
<1>5. PICK g : Computes(g, S, << <<>> >>, step, N)
  <2> HIDE DEF step, N, S
  <2> QED BY <1>1, <1>2, <1>4, RecursionExists
<1>6. g \in [0..N -> S] /\ g[0] = << <<>> >> /\ \A i \in 1..N : g[i] = step[i][g[i - 1]]
  BY <1>5 DEF Computes
<1>7. Packs(g)
  <2>1. ASSUME NEW i \in 0..N, i # 0 PROVE g[i] = More(g[i - 1], i)
    <3>1. i - 1 \in 0..N /\ i \in 1..N /\ i \in Nat BY <1>1, <2>1
    <3>2. g[i - 1] \in S BY <1>6, <3>1
    <3> HIDE DEF S, N
    <3> QED BY <1>6, <3>1, <3>2
  <2> HIDE DEF step, N, S
  <2> QED BY <1>6, <2>1
<1>8. Packs(packed)
  <2> HIDE DEF Packs
  <2> QED BY <1>7
<1>9. Pack(records, max) = packed[N] BY DEF Pack, More
<1> HIDE DEF packed, N, S
<1>10. \A i \in 0..N : packed[i] = IF i = 0 THEN << <<>> >> ELSE More(packed[i - 1], i) BY <1>8
<1>11. \A i \in 0..N : packed[i] \in S
  <2> DEFINE T == {i \in Nat : i \in 0..N => packed[i] \in S}
  <2>1. 0 \in T BY <1>1, <1>2, <1>10
  <2>2. ASSUME NEW i \in Nat, i \in T PROVE i + 1 \in T
    <3>1. SUFFICES ASSUME i + 1 \in 0..N PROVE packed[i + 1] \in S OBVIOUS
    <3>2. i \in 0..N /\ i + 1 \in 1..N /\ i + 1 # 0 /\ i + 1 - 1 = i BY <1>1, <3>1
    <3>3. packed[i + 1] = More(packed[i], i + 1) BY <1>10, <3>1, <3>2
    <3> QED BY <1>3, <2>2, <3>2, <3>3
  <2>3. Nat \subseteq T
    <3> HIDE DEF T
    <3> QED BY <2>1, <2>2, SetInduction
  <2>4. \A i \in 0..N : i \in Nat BY <1>1
  <2> QED BY <2>3, <2>4
<1>12. \A i \in 1..N : i \in 0..N /\ i # 0 BY <1>1
<1>13. packed[0] = << <<>> >> BY <1>1, <1>10
<1>14. \A i \in 1..N : packed[i] = PackMore(packed[i - 1], records[i], max)
  BY <1>3a, <1>10, <1>12
<1>15. PacksBy(packed, records, max, R) BY <1>9, <1>11, <1>13, <1>14 DEF PacksBy, N, S
<1> QED BY <1>15

\* The compactor's files are never none, hold records it was given only and, if
\* these have different keys, each of them once.
LEMMA PackFact ==
  ASSUME NEW R, NEW records \in Seq(R), NEW max
  PROVE  /\ Pack(records, max) \in Seq(Seq(R)) \ {<<>>}
         /\ (\A m, n \in 1..Len(records) : records[m].key = records[n].key => m = n)
              => Holds(Pack(records, max), records, Len(records))
<1> DEFINE N == Len(records)
           S == Seq(Seq(R)) \ {<<>>}
<1>0. PICK packed : PacksBy(packed, records, max, R) BY PackSteps
<1>1. N \in Nat /\ \A i \in 1..N : records[i] \in R OBVIOUS
<1>2. /\ packed[0] = << <<>> >> /\ Pack(records, max) = packed[N]
      /\ \A i \in 0..N : packed[i] \in S
      /\ \A i \in 1..N : packed[i] = PackMore(packed[i - 1], records[i], max)
  BY <1>0 DEF PacksBy
<1>3. ASSUME NEW i \in 1..N, NEW files \in S
      PROVE  \E a, b : AddedAt(files, PackMore(files, records[i], max), records[i], a, b)
  <2> DEFINE more == PackMore(files, records[i], max)
  <2>1. records[i] \in R BY <1>1
  <2>2. \/ more = Append(files, <<records[i]>>)
        \/ more = [files EXCEPT ![Len(files)] = Append(@, records[i])]
    BY DEF PackMore
  <2> HIDE DEF more
  <2>3. \E a, b : AddedAt(files, more, records[i], a, b) BY <2>1, <2>2, AddedSomewhere
  <2> QED BY <2>3 DEF more
<1> HIDE DEF N, S
<1> DEFINE Distinct == \A m, n \in 1..N : records[m].key = records[n].key => m = n
           Fine(i) == Distinct => Holds(packed[i], records, i)
           T == {i \in Nat : i \in 0..N => Fine(i)}
<1>11. 0 \in T
  <2>1. Holds(<< <<>> >>, records, 0) BY DEF Holds
  <2> QED BY <1>2, <2>1
<1>12. ASSUME NEW i \in Nat, i \in T PROVE i + 1 \in T
  <2>1. SUFFICES ASSUME i + 1 \in 0..N PROVE Fine(i + 1) OBVIOUS
  <2>2. i \in 0..N /\ i + 1 \in 1..N /\ i + 1 # 0 /\ i + 1 - 1 = i BY <1>1, <2>1
  <2>3. Fine(i) BY <1>12, <2>2
  <2>4. packed[i + 1] = PackMore(packed[i], records[i + 1], max) BY <1>2, <2>2
  <2>5. \E a, b : AddedAt(packed[i], packed[i + 1], records[i + 1], a, b)
    BY <1>2, <1>3, <2>2, <2>4
  <2>6. ASSUME Distinct PROVE Holds(packed[i + 1], records, i + 1)
    <3>1. \A m \in 1..i : records[m].key # records[i + 1].key
      <4> TAKE m \in 1..i
      <4>1. m \in 1..N /\ m # i + 1 BY <1>1, <2>2
      <4> QED BY <2>2, <2>6, <4>1
    <3>2. PICK a, b : AddedAt(packed[i], packed[i + 1], records[i + 1], a, b) BY <2>5
    <3>3. Holds(packed[i], records, i) BY <2>3, <2>6
    <3> QED BY <3>1, <3>2, <3>3, HoldsMore
  <2> QED BY <2>6
<1>13. Nat \subseteq T
  <2> HIDE DEF T
  <2> QED BY <1>11, <1>12, SetInduction
<1>14. Fine(N)
  <2>1. N \in 0..N BY <1>1
  <2> QED BY <1>1, <1>13, <2>1
<1>15. packed[N] \in S
  <2>1. N \in 0..N BY <1>1
  <2> QED BY <1>2, <2>1
<1> QED BY <1>2, <1>14, <1>15 DEF S, N

\* What a file may hold: whole records and the beginnings of puts.
DiskRecord ==
  [op : {"put", "del", "cut", "bad"}, key : Key, val : Value \cup {Tombstone, Garbled},
   size : Nat]

\* What is left of a record cut short is a record that a file may hold.
LEMMA CutRecordFact ==
  ASSUME NEW r \in DiskRecord, NEW n \in Nat
  PROVE  CutRecord(r, n) \in DiskRecord
BY DEF CutRecord, DiskRecord

\* Dropping a writer unflushed leaves records, a last one perhaps cut short; with
\* nothing held back it leaves them all.
LEMMA UnflushedFact ==
  ASSUME NEW file \in Seq(DiskRecord), NEW bufsize \in Nat
  PROVE  /\ Unflushed(file, bufsize) \in Seq(DiskRecord)
         /\ Buffered(file, bufsize) = 0 => Unflushed(file, bufsize) = file
<1> DEFINE bytes == FileSize(file) - Buffered(file, bufsize)
           flushed == {j \in 1..Len(file) : Offset(file, j + 1) <= bytes}
           whole == Cardinality(flushed)
           cut == bytes - Offset(file, whole + 1)
<1>1. Len(file) \in Nat /\ \A r \in DiskRecord : r.size \in Nat BY DEF DiskRecord
<1>2. Buffered(file, bufsize) \in Nat BY <1>1, BufferedFact
<1>3. \A j \in 1..Len(file) + 1 : Offset(file, j) \in Nat BY <1>1, OffsetFact
<1>4. FileSize(file) \in Nat /\ FileSize(file) = Offset(file, Len(file) + 1)
  <2>1. Len(file) + 1 \in 1..Len(file) + 1 BY <1>1
  <2> QED BY <1>3, <2>1 DEF FileSize
<1>5. /\ whole \in 0..Len(file)
      /\ flushed = 1..Len(file) => whole = Len(file)
  <2>1. IsFiniteSet(1..Len(file)) /\ Cardinality(1..Len(file)) = Len(file)
    BY <1>1, IntervalFact
  <2>2. flushed \in SUBSET (1..Len(file)) OBVIOUS
  <2> HIDE DEF flushed
  <2>3. IsFiniteSet(flushed) /\ Cardinality(flushed) <= Len(file) BY <2>1, <2>2, FS_Subset
  <2>4. Cardinality(flushed) \in Nat BY <2>3, FS_CardinalityType
  <2> QED BY <1>1, <2>1, <2>3, <2>4
<1>6. Unflushed(file, bufsize) =
        SubSeq(file, 1, whole) \o IF cut > 0 THEN <<CutRecord(file[whole + 1], cut)>> ELSE <<>>
  BY DEF Unflushed
<1>7. bytes \in Int /\ bytes <= FileSize(file) BY <1>2, <1>4
<1>8. ASSUME Buffered(file, bufsize) = 0 PROVE flushed = 1..Len(file) /\ bytes = FileSize(file)
  <2>1. bytes = FileSize(file) BY <1>4, <1>8
  <2>2. ASSUME NEW j \in 1..Len(file) PROVE Offset(file, j + 1) <= FileSize(file)
    <3>1. /\ j + 1 \in 1..Len(file) + 1 /\ Len(file) + 1 \in 1..Len(file) + 1
          /\ j + 1 <= Len(file) + 1
      BY <1>1
    <3> QED BY <1>1, <1>4, <3>1, OffsetMonotone
  <2> QED BY <2>1, <2>2
<1> HIDE DEF flushed, whole, bytes
<1>9. SubSeq(file, 1, whole) \in Seq(DiskRecord) BY <1>1, <1>5
<1>10. whole + 1 \in 1..Len(file) + 1 /\ Offset(file, whole + 1) \in Nat
  <2>1. whole + 1 \in 1..Len(file) + 1 BY <1>1, <1>5
  <2> QED BY <1>3, <2>1
<1>11. cut \in Int BY <1>7, <1>10
<1>12. Unflushed(file, bufsize) \in Seq(DiskRecord)
  <2>1. CASE cut > 0
    <3>1. whole # Len(file) BY <1>4, <1>7, <1>10, <2>1
    <3>2. whole + 1 \in 1..Len(file) BY <1>1, <1>5, <3>1
    <3>3. cut \in Nat BY <1>11, <2>1
    <3> HIDE DEF cut
    <3>4. CutRecord(file[whole + 1], cut) \in DiskRecord BY <3>2, <3>3, CutRecordFact
    <3> QED BY <1>6, <1>9, <2>1, <3>4
  <2>2. CASE ~(cut > 0)
    <3> HIDE DEF cut
    <3> QED BY <1>6, <1>9, <2>2
  <2> QED BY <2>1, <2>2
<1>13. ASSUME Buffered(file, bufsize) = 0 PROVE Unflushed(file, bufsize) = file
  <2>1. whole = Len(file) /\ bytes = Offset(file, Len(file) + 1) BY <1>4, <1>5, <1>8, <1>13
  <2>2. ~(cut > 0) BY <1>4, <2>1
  <2>3. SubSeq(file, 1, Len(file)) = file OBVIOUS
  <2> HIDE DEF cut
  <2> QED BY <1>6, <2>1, <2>2, <2>3
<1> QED BY <1>12, <1>13

-----------------------------------------------------------------------------
(* Reading, and the keys that live. *)

\* A location from the scan reads the record it was computed for.
LEMMA ReadAtLocation ==
  ASSUME NEW R, \A r \in R : r.size \in Nat \ {0} /\ r.op # "cut",
         NEW files, NEW i \in DOMAIN files, files[i] \in Seq(R), NEW j \in 1..Len(files[i])
  PROVE  ReadAtOffset(files, Location(files, i, j)) =
           IF files[i][j].op = "del" THEN NotFound ELSE files[i][j].val
<1> DEFINE file == files[i]
           loc == Location(files, i, j)
           exact == {x \in 1..Len(file) : Location(files, i, x) = loc}
<1>1. file \in Seq(R) /\ Len(file) \in Nat /\ \A r \in R : r.size \in Nat OBVIOUS
<1>2. \A x \in 1..Len(file) : file[x] \in R BY <1>1
<1>3. \A x \in 1..Len(file) :
        Location(files, i, x) = [segment |-> i, offset |-> Offset(file, x), size |-> file[x].size]
  BY <1>2 DEF Location
<1>4. loc.segment = i /\ loc.offset = Offset(file, j) /\ loc.size = file[j].size BY <1>3
<1>5. ASSUME NEW x \in exact PROVE x = j
  <2>1. x \in 1..Len(file) /\ Location(files, i, x) = loc BY <1>5
  <2>2. Offset(file, x) = Offset(file, j) BY <1>3, <2>1
  <2>3. x \in 1..Len(file) + 1 /\ j \in 1..Len(file) + 1 BY <1>1, <2>1
  <2>4. Offset(file, x) \in Nat BY <1>1, <2>3, OffsetFact
  <2> HIDE DEF file, exact, loc
  <2>5. ~(x < j)
    <3>1. SUFFICES ASSUME x < j PROVE FALSE OBVIOUS
    <3>2. Offset(file, x) < Offset(file, j) BY <1>1, <2>3, <3>1, OffsetIncreases
    <3> QED BY <2>2, <2>4, <3>2
  <2>6. ~(j < x)
    <3>1. SUFFICES ASSUME j < x PROVE FALSE OBVIOUS
    <3>2. Offset(file, j) < Offset(file, x) BY <1>1, <2>3, <3>1, OffsetIncreases
    <3> QED BY <2>2, <2>4, <3>2
  <2> QED BY <2>3, <2>5, <2>6
<1>6. exact = {j} BY <1>5
<1>7. loc.offset + loc.size <= FileSize(file)
  <2>1. /\ j + 1 \in 1..Len(file) + 1 /\ Len(file) + 1 \in 1..Len(file) + 1
        /\ j + 1 <= Len(file) + 1
    BY <1>1
  <2>2. Offset(file, j + 1) <= FileSize(file) BY <1>1, <2>1, OffsetMonotone DEF FileSize
  <2>3. Offset(file, j + 1) = loc.offset + loc.size BY <1>1, <1>4, OffsetFact
  <2> QED BY <2>2, <2>3
<1>8. ~(loc.offset + loc.size > FileSize(file))
  <2>1. FileSize(file) \in Nat /\ loc.offset \in Nat /\ loc.size \in Nat
    <3>1. Len(file) + 1 \in 1..Len(file) + 1 /\ j \in 1..Len(file) + 1 BY <1>1
    <3> QED BY <1>1, <1>2, <1>4, <3>1, OffsetFact DEF FileSize
  <2> QED BY <1>7, <2>1
<1>9. (CHOOSE x \in exact : TRUE) = j BY <1>6
<1> HIDE DEF exact, loc
<1>10. ReadAtOffset(files, loc) =
         CASE i \notin DOMAIN files -> ReadError
           [] i \in DOMAIN files /\ loc.offset + loc.size > FileSize(file) -> ReadError
           [] OTHER -> IF exact = {} THEN Garbled
                       ELSE LET r == file[CHOOSE x \in exact : TRUE]
                            IN  IF r.op = "del" THEN NotFound ELSE r.val
  BY <1>4 DEF ReadAtOffset, exact
<1>11. ReadAtOffset(files, loc) = IF file[j].op = "del" THEN NotFound ELSE file[j].val
  BY <1>6, <1>8, <1>9, <1>10
<1> QED BY <1>11 DEF loc

\* Finitely many files have finitely many keys.
LEMMA LiveKeysFinite ==
  ASSUME NEW R, NEW files, IsFiniteSet(DOMAIN files), \A i \in DOMAIN files : files[i] \in Seq(R)
  PROVE  IsFiniteSet(LiveKeys(files))
<1> DEFINE D == DOMAIN files
           rows == [i \in D |-> {i} \X (1..Len(files[i]))]
           places == UNION {rows[i] : i \in D}
           keyAt == [p \in places |-> files[p[1]][p[2]].key]
<1>1. ASSUME NEW i \in D PROVE IsFiniteSet(rows[i])
  <2>1. Len(files[i]) \in Nat OBVIOUS
  <2>2. IsFiniteSet({i}) /\ IsFiniteSet(1..Len(files[i])) BY <2>1, FS_Singleton, IntervalFact
  <2>3. IsFiniteSet({i} \X (1..Len(files[i]))) BY <2>2, FS_Product
  <2> QED BY <2>3
<1>2. IsFiniteSet({rows[i] : i \in D})
  <2>1. rows \in Surjection(D, {rows[i] : i \in D}) BY DEF Surjection
  <2> HIDE DEF rows
  <2> QED BY <2>1, FS_Surjection
<1>3. IsFiniteSet(places)
  <2> HIDE DEF rows
  <2> QED BY <1>1, <1>2, FS_UNION
<1>4. \A k \in LiveKeys(files) : \E p \in places : keyAt[p] = k
  <2> TAKE k \in LiveKeys(files)
  <2>1. PICK i \in D : \E j \in 1..Len(files[i]) : files[i][j].key = k
    BY PositionsFact DEF LiveKeys
  <2>2. PICK j \in 1..Len(files[i]) : files[i][j].key = k BY <2>1
  <2>3. <<i, j>> \in places OBVIOUS
  <2> QED BY <2>2, <2>3
<1> DEFINE keys == {keyAt[p] : p \in places}
<1>5. IsFiniteSet(keys)
  <2>1. keyAt \in Surjection(places, keys) BY DEF Surjection
  <2> HIDE DEF keyAt, places
  <2> QED BY <1>3, <2>1, FS_Surjection
<1>6. LiveKeys(files) \subseteq keys BY <1>4
<1> HIDE DEF keys
<1> QED BY <1>5, <1>6, FS_Subset

\* A sequence the elements of a finite set are listed in.
LEMMA SetToSeqsFact ==
  ASSUME NEW S, IsFiniteSet(S), NEW order \in SetToSeqs(S)
  PROVE  /\ order \in Seq(S) /\ Len(order) = Cardinality(S) /\ Cardinality(S) \in Nat
         /\ \A i, j \in DOMAIN order : order[i] = order[j] => i = j
         /\ \A x \in S : \E i \in DOMAIN order : order[i] = x
<1> DEFINE n == Cardinality(S)
<1>1. n \in Nat BY FS_CardinalityType
<1>2. order \in [1..n -> S] /\ \A i, j \in 1..n : i # j => order[i] # order[j]
  BY DEF SetToSeqs
<1> HIDE DEF n
<1>3. order \in Injection(1..n, S) BY <1>2 DEF Injection, IsInjective
<1>4. Cardinality(1..n) = n BY <1>1, IntervalFact
<1>5. order \in Surjection(1..n, S) BY <1>3, <1>4, FS_Injection DEF n
<1>6. order \in Seq(S) /\ Len(order) = n BY <1>1, <1>2
<1>7. \A x \in S : \E i \in 1..n : order[i] = x BY <1>5 DEF Surjection
<1> QED BY <1>1, <1>2, <1>6, <1>7 DEF n
=============================================================================
