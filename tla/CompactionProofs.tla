-------------------------- MODULE CompactionProofs --------------------------
(***************************************************************************)
(* Proofs about FileStore's compactions: a store whose compactions do not  *)
(* overlap, whose commits are not cut off and whose records exceed the     *)
(* compactor's buffer implements KVStore, as long as the outputs fit into  *)
(* the ids they reuse, which those of puts of one size always do.          *)
(* Last, a store whose compactions write one output loses nothing, even    *)
(* when a commit is cut off, as long as nothing is deleted.                *)
(***************************************************************************)
EXTENDS FileStoreProofs

-----------------------------------------------------------------------------
(* Compactions that do not overlap and commits that are not cut off. *)

Serial ==
  /\ \A c, d \in Compactors : c = d
  /\ CrashPhases \cap CommitPhases = {}
  /\ FaultPhases \subseteq ScanPhases

\* The packed files hold nothing but last records of live keys of the files.
LastRecordsOnly(files, packed) ==
  \A i \in 1..Len(packed) : \A j \in 1..Len(packed[i]) :
    /\ packed[i][j].key \in LiveKeys(files)
    /\ packed[i][j] = LastRecord(files, packed[i][j].key)

EveryLiveKey(files, packed) ==
  \A k \in LiveKeys(files) :
    \E i \in 1..Len(packed) : \E j \in 1..Len(packed[i]) : packed[i][j].key = k

EachKeyOnce(packed) ==
  \A i, x \in 1..Len(packed) : \A j \in 1..Len(packed[i]), y \in 1..Len(packed[x]) :
    packed[i][j].key = packed[x][y].key => i = x /\ j = y

\* The packed files hold the last record of each live key of the files, once.
SurvivorsOf(files, packed) ==
  /\ packed # <<>>
  /\ LastRecordsOnly(files, packed)
  /\ EveryLiveKey(files, packed)
  /\ EachKeyOnce(packed)

Survivors(c) == SurvivorsOf(scanned[c], outs[c])

\* Before a commit: what was scanned is what is in the files.
Scanned(c, lo) ==
  /\ DOMAIN disk = lo..active
  /\ \A i \in DOMAIN scanned[c] : scanned[c][i] = disk[i]
  /\ DOMAIN scanned[c] = IF pc[c] = "scan" THEN stale[c] \ todo[c] ELSE stale[c]
  /\ pc[c] = "waiting" => Survivors(c)

\* The output that takes id i.
OutputFor(c, last, i) == outs[c][Len(outs[c]) - (last - i)]

\* While outputs are renamed: the highest ids have them, the others what was scanned.
Renaming(c, lo, last) ==
  /\ DOMAIN disk = lo..active /\ DOMAIN scanned[c] = stale[c] /\ Survivors(c)
  /\ renamed[c] <= Len(outs[c])
  /\ \A i \in lo..last :
       disk[i] = IF last - renamed[c] < i THEN OutputFor(c, last, i) ELSE scanned[c][i]

\* While the others are removed.
Removing(c, lo, last) ==
  /\ DOMAIN scanned[c] = stale[c] /\ Survivors(c)
  /\ lo <= last - Len(outs[c]) + 1
  /\ todo[c] \subseteq lo..(last - Len(outs[c]))
  /\ DOMAIN disk = todo[c] \cup (last - Len(outs[c]) + 1)..active
  /\ \A i \in (last - Len(outs[c]) + 1)..last : disk[i] = OutputFor(c, last, i)

StageAt(c, lo, last) ==
  /\ lo <= last /\ last + 1 < active /\ stale[c] = lo..last
  /\ pc[c] \notin CommitPhases => Scanned(c, lo)
  /\ pc[c] = "rename" => Renaming(c, lo, last)
  /\ pc[c] = "remove" => Removing(c, lo, last)

Stages ==
  \A c \in Compactors :
    /\ pc[c] \notin CommitPhases => renamed[c] = 0
    /\ pc[c] # "idle" => \E lo, last \in 1..active : StageAt(c, lo, last)

\* The ids are consecutive.
NoGaps == ~Committing => \E lo \in 1..active : DOMAIN disk = lo..active

\* The files as they were before c's commit.
Before(c) ==
  [i \in stale[c] \cup DOMAIN disk |-> IF i \in stale[c] THEN scanned[c][i] ELSE disk[i]]

\* Index and answers are what a replay of the files gives.
Faithful(files) == (up => index = Populate(files)) /\ acked = Recovered(files)

Current ==
  /\ ~Committing => Faithful(disk)
  /\ \A c \in Compactors : pc[c] \in CommitPhases => Faithful(Before(c))

SInv == CInv /\ Stages /\ NoGaps /\ Current

\* What the proofs below use of the types.
LEMMA SInvTypes ==
  ASSUME SInv
  PROVE  /\ TypeOK /\ StoreTypes /\ CompactionTypes /\ Bookkeeping /\ NewestIsActive
         /\ active \in Nat \ {0}
         /\ ClientFiles(disk) /\ AreFiles(disk, ClientRecord) /\ AreFiles(disk, DiskRecord)
         /\ \A c \in Compactors :
              /\ ClientFiles(scanned[c]) /\ AreFiles(scanned[c], DiskRecord)
              /\ AreFiles(scanned[c], ClientRecord)
              /\ IsFiniteSet(DOMAIN scanned[c])
              /\ outs[c] \in Seq(Seq(PutRecords)) /\ renamed[c] \in Nat
              /\ todo[c] \subseteq stale[c] /\ DOMAIN scanned[c] \subseteq stale[c]
<1>1. /\ TypeOK /\ StoreTypes /\ CompactionTypes /\ Bookkeeping /\ NewestIsActive /\ IInv
      /\ ContentTypes /\ ClientContent /\ active \in Nat \ {0}
  BY DEF SInv, CInv, RInv, IInv, TypeOK, StoreTypes
<1>2. AreFiles(disk, DiskRecord) BY <1>1, DiskAreFiles DEF ContentTypes
<1>3. ClientFiles(disk) BY <1>1 DEF ClientContent
<1>4. AreFiles(disk, ClientRecord) BY <1>2, <1>3 DEF AreFiles, ClientFiles
<1>5. ASSUME NEW c \in Compactors
      PROVE  /\ ClientFiles(scanned[c]) /\ AreFiles(scanned[c], DiskRecord)
             /\ AreFiles(scanned[c], ClientRecord)
             /\ IsFiniteSet(DOMAIN scanned[c])
             /\ outs[c] \in Seq(Seq(PutRecords)) /\ renamed[c] \in Nat
             /\ todo[c] \subseteq stale[c] /\ DOMAIN scanned[c] \subseteq stale[c]
  <2>1. AreFiles(scanned[c], DiskRecord) /\ IsFiniteSet(DOMAIN scanned[c])
    BY <1>1, ScannedAreFiles
  <2>2. ClientFiles(scanned[c]) BY <1>1 DEF ClientContent
  <2>3. AreFiles(scanned[c], ClientRecord) BY <2>1, <2>2 DEF AreFiles, ClientFiles
  <2> QED BY <1>1, <2>1, <2>2, <2>3
          DEF ClientContent, CompactionTypes, Bookkeeping, ContentTypes
<1> QED BY <1>1, <1>2, <1>3, <1>4, <1>5

LEMMA InitSInv == Init => SInv
<1> SUFFICES ASSUME Init PROVE SInv OBVIOUS
<1>1. CInv BY InitCInv
<1>2. Stages BY DEF Init, Stages, CommitPhases
<1>3. NoGaps
  <2>1. 1 \in 1..1 /\ 1..1 = {1} OBVIOUS
  <2> QED BY <2>1 DEF Init, NoGaps
<1>4. \A k \in Key : NoRecordOf(disk, k)
  <2>1. Len(<<>>) = 0 /\ \A y \in 1..0 : FALSE OBVIOUS
  <2> QED BY <2>1 DEF Init, NoRecordOf
<1>5. LiveKeys(disk) = {}
  <2>1. LiveKeys(disk) \subseteq Key BY DEF LiveKeys
  <2> QED BY <1>4, <2>1, ReplayNone
<1>6. Populate(disk) = [k \in {} |-> 0] BY <1>5 DEF Populate
<1>7. Recovered(disk) = [k \in Key |-> NotFound] BY <1>5 DEF Recovered
<1>8. Current
  <2>1. \A c \in Compactors : pc[c] \notin CommitPhases BY DEF Init, CommitPhases
  <2> QED BY <1>6, <1>7, <2>1 DEF Init, Current, Faithful
<1> QED BY <1>1, <1>2, <1>3, <1>8 DEF SInv

-----------------------------------------------------------------------------
(* Clients and the process. *)

\* One more segment, or none, leaves the ids consecutive.
LEMMA GrowingDomain ==
  ASSUME active \in Nat \ {0},
         \/ active' = active /\ DOMAIN disk' = DOMAIN disk
         \/ active' = active + 1 /\ DOMAIN disk' = DOMAIN disk \cup {active + 1},
         NEW lo \in 1..active, DOMAIN disk = lo..active
  PROVE  /\ lo \in 1..active' /\ DOMAIN disk' = lo..active' /\ active <= active'
         /\ 1..active \subseteq 1..active'
<1>1. CASE active' = active /\ DOMAIN disk' = DOMAIN disk BY <1>1
<1>2. CASE active' = active + 1 /\ DOMAIN disk' = DOMAIN disk \cup {active + 1}
  <2>1. lo..active \cup {active + 1} = lo..(active + 1) OBVIOUS
  <2> QED BY <1>2, <2>1
<1> QED BY <1>1, <1>2

\* A write goes to the active file or to the next id.
LEMMA AppendDomain ==
  ASSUME TypeOK, NewestIsActive, NEW r \in ClientRecord, AppendRecord(r)
  PROVE  \/ active' = active /\ DOMAIN disk' = DOMAIN disk
         \/ active' = active + 1 /\ DOMAIN disk' = DOMAIN disk \cup {active + 1}
BY DEF AppendRecord, WithFile, NewestIsActive

\* Stages of compactions while clients write.
LEMMA WriteStages ==
  ASSUME SInv, ~Committing, NEW r \in ClientRecord, AppendRecord(r), UNCHANGED compaction
  PROVE  Stages' /\ NoGaps'
<1>1. TypeOK /\ NewestIsActive /\ active \in Nat \ {0} BY SInvTypes
<1>2. \/ active' = active /\ DOMAIN disk' = DOMAIN disk
      \/ active' = active + 1 /\ DOMAIN disk' = DOMAIN disk \cup {active + 1}
  BY <1>1, AppendDomain
<1>3. \A i \in DOMAIN disk : i < active => disk'[i] = disk[i] BY <1>1, AppendRecordStep
<1>4. NoGaps'
  <2>1. PICK lo \in 1..active : DOMAIN disk = lo..active BY DEF SInv, NoGaps
  <2>2. lo \in 1..active' /\ DOMAIN disk' = lo..active' BY <1>1, <1>2, <2>1, GrowingDomain
  <2> QED BY <2>2 DEF NoGaps
<1>5. ASSUME NEW c \in Compactors, pc[c] # "idle"
      PROVE  \E lo, last \in 1..active' : StageAt(c, lo, last)'
  <2>1. pc[c] \notin CommitPhases BY DEF Committing
  <2>2. PICK lo, last \in 1..active : StageAt(c, lo, last) BY <1>5 DEF SInv, Stages
  <2>3. DOMAIN disk = lo..active /\ stale[c] = lo..last /\ lo <= last /\ last + 1 < active
    BY <2>1, <2>2 DEF StageAt, Scanned
  <2>4. /\ lo \in 1..active' /\ DOMAIN disk' = lo..active' /\ active <= active'
        /\ last \in 1..active' /\ active' \in Nat
    BY <1>1, <1>2, <2>3, GrowingDomain
  <2>5. last + 1 < active' BY <1>1, <2>3, <2>4
  <2>6. \A i \in DOMAIN scanned[c] : scanned[c][i] = disk'[i]
    <3> TAKE i \in DOMAIN scanned[c]
    <3>1. i \in lo..last BY <2>3, SInvTypes
    <3>2. i \in DOMAIN disk /\ i < active BY <1>1, <2>3, <3>1
    <3> QED BY <1>3, <2>1, <2>2, <3>2 DEF StageAt, Scanned
  <2>7. Scanned(c, lo)'
    BY <2>1, <2>2, <2>4, <2>6 DEF StageAt, Scanned, Survivors, compaction
  <2>8. StageAt(c, lo, last)'
    BY <2>1, <2>3, <2>5, <2>7 DEF StageAt, compaction, CommitPhases
  <2> QED BY <2>4, <2>8
<1>6. Stages' BY <1>5 DEF SInv, Stages, compaction
<1> QED BY <1>4, <1>6

\* A write that is acknowledged and indexed keeps the invariant.
LEMMA SerialWrite ==
  ASSUME SInv, CInv', up, ~Committing, NEW r \in ClientRecord, AppendRecord(r),
         acked' = [acked EXCEPT ![r.key] = Answer(r)],
         r.op = "del" => index' = [x \in DOMAIN index \ {r.key} |-> index[x]],
         r.op # "del" =>
           index' = [x \in DOMAIN index \cup {r.key} |->
                       IF x = r.key THEN Location(disk', active', Len(disk'[active']))
                       ELSE index[x]],
         UNCHANGED <<up, compaction>>
  PROVE  SInv'
<1>1. Stages' /\ NoGaps' BY WriteStages
<1>2. RecordAdded(disk, disk', active', r) /\ AreFiles(disk, DiskRecord)
  BY AppendRecordAdds, SInvTypes DEF SInv, CInv, RInv
<1>3. AreFiles(disk', DiskRecord) /\ active' \in Nat
  <2>1. TypeOK' /\ NewestIsActive' /\ ContentTypes' BY DEF CInv, RInv, IInv
  <2>2. DOMAIN disk' \subseteq Nat /\ active' \in Nat BY <2>1 DEF TypeOK, StoreTypes
  <2>3. \A i \in DOMAIN disk' : i <= active' /\ disk'[i] \in Seq(DiskRecord)
    BY <2>1 DEF NewestIsActive, ContentTypes
  <2> QED BY <2>2, <2>3 DEF AreFiles
<1>4. r.key \in Key BY ClientRecordFact DEF DiskRecord
<1>5. ReplayAdds(disk, disk', active', r)
  BY <1>2, <1>3, <1>4, ReplayAdd
<1>6. index = Populate(disk) /\ acked = Recovered(disk) BY DEF SInv, Current, Faithful
<1>7. DOMAIN index = LiveKeys(disk) BY <1>6 DEF Populate
<1>8. index' = Populate(disk')
  <2>1. CASE r.op = "del" BY <1>5, <1>6, <1>7, <2>1 DEF ReplayAdds
  <2>2. CASE r.op # "del" BY <1>5, <1>6, <1>7, <2>2 DEF ReplayAdds
  <2> QED BY <2>1, <2>2
<1>9. acked' = Recovered(disk') BY <1>5, <1>6 DEF ReplayAdds
<1>10. Current'
  <2>1. \A c \in Compactors : pc'[c] \notin CommitPhases BY DEF Committing, compaction
  <2> QED BY <1>8, <1>9, <2>1 DEF Current, Faithful
<1> QED BY <1>1, <1>10 DEF SInv

LEMMA SerialPut ==
  ASSUME SInv, CInv', NEW k \in Key, NEW v \in Value, Put(k, v)
  PROVE  SInv'
<1> DEFINE r == PutRecord(k, v)
<1>1. r \in ClientRecord /\ r.key = k /\ r.op # "del" /\ Answer(r) = v
  BY DEF ClientRecord, PutRecord, Answer
<1> HIDE DEF r
<1>2. AppendRecord(r) /\ UNCHANGED <<up, compaction>> /\ up /\ ~Committing BY DEF Put, r
<1> QED BY <1>1, <1>2, SerialWrite DEF Put

LEMMA SerialDelete ==
  ASSUME SInv, CInv', NEW k \in DeletableKeys, Delete(k)
  PROVE  SInv'
<1> DEFINE r == DelRecord(k)
<1>1. k \in Key BY StoreAssumption
<1>2. r \in ClientRecord /\ r.key = k /\ r.op = "del" /\ Answer(r) = NotFound
  BY <1>1 DEF ClientRecord, DelRecord, Answer
<1> HIDE DEF r
<1>3. AppendRecord(r) /\ UNCHANGED <<up, compaction>> /\ up /\ ~Committing BY DEF Delete, r
<1> QED BY <1>2, <1>3, SerialWrite DEF Delete

\* A kill outside a commit, perhaps with an empty segment opened.
LEMMA SerialStop ==
  ASSUME SInv, CInv', ~Committing, Stop,
         \/ UNCHANGED <<disk, active>>
         \/ active' = active + 1 /\ disk' = WithFile(disk, active + 1, <<>>)
  PROVE  SInv'
<1>1. /\ TypeOK /\ NewestIsActive /\ active \in Nat \ {0} /\ AreFiles(disk, DiskRecord)
      /\ \A i \in DOMAIN disk : i \in Nat /\ i <= active
  BY SInvTypes DEF NewestIsActive, StoreTypes
<1>2. /\ \/ active' = active /\ DOMAIN disk' = DOMAIN disk
         \/ active' = active + 1 /\ DOMAIN disk' = DOMAIN disk \cup {active + 1}
      /\ \A i \in DOMAIN disk : disk'[i] = disk[i]
      /\ \A i \in DOMAIN disk' : i \in DOMAIN disk \/ disk'[i] = <<>>
  BY <1>1 DEF WithFile
<1>3. NoGaps'
  <2>1. PICK lo \in 1..active : DOMAIN disk = lo..active BY DEF SInv, NoGaps
  <2>2. lo \in 1..active' /\ DOMAIN disk' = lo..active' BY <1>1, <1>2, <2>1, GrowingDomain
  <2> QED BY <2>2 DEF NoGaps
<1>4. Stages' BY DEF Stages, Stop, CommitPhases
<1>5. \A i \in DOMAIN disk' : \A j : j \in 1..Len(disk'[i]) => i \in DOMAIN disk
  <2>1. Len(<<>>) = 0 /\ \A y \in 1..0 : FALSE OBVIOUS
  <2> QED BY <1>2, <2>1
<1>6. Recovered(disk') = Recovered(disk)
  <2>1. DOMAIN disk' \subseteq Nat BY <1>1, <1>2
  <2>2. ASSUME NEW k \in Key, NoRecordOf(disk, k) PROVE NoRecordOf(disk', k)
    BY <1>2, <1>5, <2>2 DEF NoRecordOf
  <2>3. ASSUME NEW k \in Key, NEW i, NEW j, IsLastAt(disk, k, i, j)
        PROVE  IsLastAt(disk', k, i, j) /\ disk'[i][j] = disk[i][j]
    BY <1>2, <1>5, <2>3 DEF IsLastAt
  <2> QED BY <1>1, <2>1, <2>2, <2>3, SameAnswers
<1>7. Current'
  <2>1. acked = Recovered(disk) BY DEF SInv, Current, Faithful
  <2> QED BY <1>6, <2>1 DEF Current, Faithful, Stop, CommitPhases
<1> QED BY <1>3, <1>4, <1>7 DEF SInv

\* A restart rebuilds the index, from the same files.
LEMMA SerialRestart ==
  ASSUME SInv, CInv', Restart
  PROVE  SInv'
<1>1. active' = active /\ \A c \in Compactors : pc[c] = "idle"
  BY SInvTypes DEF Restart, IsLast, StoreTypes, NewestIsActive, Bookkeeping
<1>2. UNCHANGED <<disk, acked, compaction>> /\ index' = Populate(disk) BY DEF Restart
<1>3. ~Committing /\ ~Committing' BY <1>1, <1>2 DEF Committing, compaction, CommitPhases
<1>4. NoGaps' BY <1>1, <1>2, <1>3 DEF SInv, NoGaps
<1>5. Stages' BY <1>1, <1>2 DEF SInv, Stages, compaction, CommitPhases
<1>6. Current' BY <1>1, <1>2, <1>3 DEF SInv, Current, Faithful, compaction, CommitPhases
<1> QED BY <1>4, <1>5, <1>6 DEF SInv

-----------------------------------------------------------------------------
(* The compactor. *)

\* With a single compactor, its stage is all there is to show.
LEMMA SerialStage ==
  ASSUME Serial, SInv, CInv', NEW c \in Compactors, Current', NoGaps',
         pc'[c] \notin CommitPhases => renamed'[c] = 0,
         pc'[c] # "idle" => \E lo, last \in 1..active' : StageAt(c, lo, last)'
  PROVE  SInv'
<1>1. \A d \in Compactors : d = c BY DEF Serial
<1>2. Stages' BY <1>1 DEF Stages
<1> QED BY <1>2 DEF SInv

\* A step outside a commit that leaves what clients see.
LEMMA SerialQuiet ==
  ASSUME Serial, SInv, CInv', NEW c \in Compactors,
         UNCHANGED <<disk, active, index, up, acked>>,
         pc[c] \notin CommitPhases, pc'[c] \notin CommitPhases,
         renamed'[c] = 0 \/ renamed'[c] = renamed[c],
         pc'[c] # "idle" => \E lo, last \in 1..active : StageAt(c, lo, last)'
  PROVE  SInv'
<1>1. \A d \in Compactors : d = c BY DEF Serial
<1>2. ~Committing /\ ~Committing' BY <1>1 DEF Committing
<1>3. Current' BY <1>1, <1>2 DEF SInv, Current, Faithful
<1>4. NoGaps' BY <1>2 DEF SInv, NoGaps
<1>5. renamed'[c] = 0 BY DEF SInv, Stages
<1> QED BY <1>3, <1>4, <1>5, SerialStage

LEMMA SerialForget ==
  ASSUME Serial, SInv, CInv', NEW c \in Compactors, Forget(c),
         UNCHANGED <<disk, active, index, up, acked>>, pc[c] \notin CommitPhases
  PROVE  SInv'
<1>1. pc'[c] = "idle" /\ renamed'[c] = 0 BY SInvTypes DEF Forget, CompactionTypes
<1> QED BY <1>1, SerialQuiet DEF CommitPhases

LEMMA SerialStart ==
  ASSUME Serial, SInv, CInv', NEW c \in Compactors, StartCompaction(c)
  PROVE  SInv'
<1> DEFINE last == active - 2
<1>1. /\ pc[c] = "idle" /\ pc'[c] = "scan"
      /\ stale'[c] = StaleSegments(disk, StaleSegmentThreshold) /\ stale'[c] # {}
      /\ todo'[c] = stale'[c]
      /\ UNCHANGED <<disk, active, index, up, acked, scanned, outs, renamed>>
  BY SInvTypes DEF StartCompaction, CompactionTypes
<1>2. ~Committing
  BY <1>1 DEF Serial, Committing, CommitPhases
<1>3. PICK lo \in 1..active : DOMAIN disk = lo..active BY <1>2 DEF SInv, NoGaps
<1>4. active \in Nat /\ lo \in Nat /\ lo >= 1 BY <1>3, SInvTypes
<1>5. stale'[c] = lo..last /\ lo <= last
  <2>1. stale'[c] = {i \in DOMAIN disk : \E x, y \in DOMAIN disk : i < x /\ x < y}
    BY <1>1 DEF StaleSegments
  <2>2. ASSUME NEW i \in lo..last PROVE i \in stale'[c]
    <3>1. i + 1 \in lo..active /\ active \in lo..active /\ i < i + 1 /\ i + 1 < active
          /\ i \in lo..active
      BY <1>4
    <3> QED BY <1>3, <2>1, <3>1
  <2>3. \A i \in stale'[c] : i \in lo..last BY <1>3, <1>4, <2>1
  <2>4. PICK i \in stale'[c] : TRUE BY <1>1
  <2>5. lo <= last BY <1>4, <2>3, <2>4
  <2> HIDE DEF last
  <2> QED BY <2>2, <2>3, <2>5
<1>6. DOMAIN scanned[c] = {} BY <1>1, SInvTypes DEF Bookkeeping
<1>7. Scanned(c, lo)' BY <1>1, <1>3, <1>6 DEF Scanned
<1>8. last \in 1..active /\ last + 1 < active BY <1>4, <1>5
<1>9. StageAt(c, lo, last)' BY <1>1, <1>5, <1>7, <1>8 DEF StageAt
<1> QED BY <1>1, <1>8, <1>9, SerialQuiet DEF CommitPhases

LEMMA SerialScan ==
  ASSUME Serial, SInv, CInv', NEW c \in Compactors, ScanFile(c)
  PROVE  SInv'
<1>1. pc[c] = "scan" /\ UNCHANGED <<disk, active, index, up, acked>> BY DEF ScanFile
<1>2. CASE Forget(c) BY <1>1, <1>2, SerialForget DEF CommitPhases
<1>3. CASE \E i \in todo[c] :
             /\ i \in DOMAIN disk
             /\ scanned' = [scanned EXCEPT ![c] = WithFile(@, i, disk[i])]
             /\ todo' = [todo EXCEPT ![c] = @ \ {i}]
             /\ pc' = [pc EXCEPT ![c] = IF todo[c] = {i} THEN "write" ELSE "scan"]
             /\ UNCHANGED <<stale, outs, renamed>>
  <2>1. PICK i \in todo[c] :
             /\ i \in DOMAIN disk
             /\ scanned'[c] = WithFile(scanned[c], i, disk[i])
             /\ todo'[c] = todo[c] \ {i}
             /\ pc'[c] = IF todo[c] = {i} THEN "write" ELSE "scan"
             /\ UNCHANGED <<stale, outs, renamed>>
    BY <1>3, SInvTypes DEF CompactionTypes
  <2>2. PICK lo, last \in 1..active : StageAt(c, lo, last) BY <1>1 DEF SInv, Stages
  <2>3. /\ lo <= last /\ last + 1 < active /\ stale[c] = lo..last
        /\ DOMAIN disk = lo..active
        /\ \A x \in DOMAIN scanned[c] : scanned[c][x] = disk[x]
        /\ DOMAIN scanned[c] = stale[c] \ todo[c]
    BY <1>1, <2>2 DEF StageAt, Scanned, CommitPhases
  <2>4. DOMAIN scanned'[c] = DOMAIN scanned[c] \cup {i} BY <2>1 DEF WithFile
  <2>5. \A x \in DOMAIN scanned'[c] : scanned'[c][x] = disk[x]
    BY <2>1, <2>3 DEF WithFile
  <2>6. DOMAIN scanned'[c] = IF pc'[c] = "scan" THEN stale'[c] \ todo'[c] ELSE stale'[c]
    <3>1. i \in stale[c] BY SInvTypes
    <3> QED BY <2>1, <2>3, <2>4, <3>1
  <2>7. Scanned(c, lo)' BY <1>1, <2>1, <2>3, <2>5, <2>6 DEF Scanned
  <2>8. StageAt(c, lo, last)' BY <1>1, <2>1, <2>3, <2>7 DEF StageAt
  <2> QED BY <1>1, <2>1, <2>2, <2>8, SerialQuiet DEF CommitPhases
<1> QED BY <1>2, <1>3 DEF ScanFile

\* What Pack makes of the survivors.
LEMMA PackedSurvivors ==
  ASSUME NEW files, AreFiles(files, DiskRecord), ClientFiles(files), IsFiniteSet(DOMAIN files),
         NEW order \in SetToSeqs(LiveKeys(files)), NEW packed,
         packed = Pack([j \in DOMAIN order |-> Rewritten(LastRecord(files, order[j]))],
                       CompactorSegmentSize)
  PROVE  SurvivorsOf(files, packed)
<1> DEFINE records == [j \in DOMAIN order |-> Rewritten(LastRecord(files, order[j]))]
<1>1. /\ records \in Seq(PutRecords)
      /\ \A m, n \in 1..Len(records) : records[m].key = records[n].key => m = n
      /\ \A k \in LiveKeys(files) : \E m \in 1..Len(records) : records[m] = LastRecord(files, k)
      /\ \A m \in 1..Len(records) :
           /\ records[m].key \in LiveKeys(files)
           /\ records[m] = LastRecord(files, records[m].key)
  BY SurvivorsArePuts
<1>2. packed = Pack(records, CompactorSegmentSize) OBVIOUS
<1> HIDE DEF records
<1>3. packed # <<>> /\ Holds(packed, records, Len(records)) BY <1>1, <1>2, PackFact
<1>4. \A k \in LiveKeys(files) : LastRecord(files, k).key = k BY LiveRecordFact
<1> DEFINE n == Len(records)
<1>5. /\ \A i \in 1..Len(packed) : \A j \in 1..Len(packed[i]) :
           \E m \in 1..n : packed[i][j] = records[m]
      /\ \A m \in 1..n : \E i \in 1..Len(packed) : \E j \in 1..Len(packed[i]) :
           packed[i][j] = records[m]
  BY <1>3 DEF Holds
<1>6. ASSUME NEW i \in 1..Len(packed), NEW j \in 1..Len(packed[i])
      PROVE  /\ packed[i][j].key \in LiveKeys(files)
             /\ packed[i][j] = LastRecord(files, packed[i][j].key)
  <2>1. PICK m \in 1..n : packed[i][j] = records[m] BY <1>5
  <2> QED BY <1>1, <2>1
<1>7. ASSUME NEW k \in LiveKeys(files)
      PROVE  \E i \in 1..Len(packed) : \E j \in 1..Len(packed[i]) : packed[i][j].key = k
  <2>1. PICK m \in 1..n : records[m] = LastRecord(files, k) BY <1>1
  <2>2. PICK i \in 1..Len(packed) : \E j \in 1..Len(packed[i]) : packed[i][j] = records[m]
    BY <1>5
  <2> QED BY <1>4, <2>1, <2>2
<1> QED BY <1>3, <1>6, <1>7 DEF Holds, SurvivorsOf, LastRecordsOnly, EveryLiveKey, EachKeyOnce

\* What is written are the survivors of what was scanned.
LEMMA SerialSurvivors ==
  ASSUME Serial, SInv, CInv', NEW c \in Compactors, WriteSurvivors(c)
  PROVE  SInv'
<1>1. pc[c] = "write" /\ UNCHANGED <<disk, active, index, up, acked>> BY DEF WriteSurvivors
<1>2. CASE Forget(c) BY <1>1, <1>2, SerialForget DEF CommitPhases
<1>3. CASE /\ \E order \in SetToSeqs(LiveKeys(scanned[c])) :
                outs' = [outs EXCEPT ![c] =
                  Pack([j \in DOMAIN order |-> Rewritten(LastRecord(scanned[c], order[j]))],
                       CompactorSegmentSize)]
           /\ pc' = [pc EXCEPT ![c] = "waiting"]
           /\ UNCHANGED <<stale, todo, scanned, renamed>>
  <2>1. PICK order \in SetToSeqs(LiveKeys(scanned[c])) :
          outs'[c] = Pack([j \in DOMAIN order |-> Rewritten(LastRecord(scanned[c], order[j]))],
                          CompactorSegmentSize)
    BY <1>3, SInvTypes DEF CompactionTypes
  <2>2. pc'[c] = "waiting" BY <1>3, SInvTypes DEF CompactionTypes
  <2>3. /\ AreFiles(scanned[c], DiskRecord) /\ ClientFiles(scanned[c])
        /\ IsFiniteSet(DOMAIN scanned[c])
    BY SInvTypes
  <2>4. Survivors(c)'
    <3>1. SurvivorsOf(scanned[c], outs'[c]) BY <2>1, <2>3, PackedSurvivors
    <3>2. scanned'[c] = scanned[c] BY <1>3
    <3> QED BY <3>1, <3>2 DEF Survivors
  <2>5. PICK lo, last \in 1..active : StageAt(c, lo, last) BY <1>1 DEF SInv, Stages
  <2>6. Scanned(c, lo) /\ lo <= last /\ last + 1 < active /\ stale[c] = lo..last
    BY <1>1, <2>5 DEF StageAt, CommitPhases
  <2>7. Scanned(c, lo)' BY <1>1, <1>3, <2>2, <2>4, <2>6 DEF Scanned
  <2>8. StageAt(c, lo, last)' BY <1>1, <1>3, <2>2, <2>6, <2>7 DEF StageAt
  <2> QED BY <1>1, <1>3, <2>2, <2>5, <2>8, SerialQuiet DEF CommitPhases
<1> QED BY <1>2, <1>3 DEF WriteSurvivors

\* A step inside a commit, or into it, that leaves what clients see.
LEMMA SerialCommit ==
  ASSUME Serial, SInv, CInv', NEW c \in Compactors, UNCHANGED <<active, index, up, acked>>,
         pc'[c] \in CommitPhases, Faithful(Before(c)'),
         \E lo, last \in 1..active : StageAt(c, lo, last)'
  PROVE  SInv'
<1>1. \A d \in Compactors : d = c BY DEF Serial
<1>2. Committing' BY DEF Committing
<1>3. Current' BY <1>1, <1>2 DEF Current, Faithful
<1>4. NoGaps' BY <1>2 DEF NoGaps
<1> QED BY <1>3, <1>4, SerialStage

LEMMA SerialBegin ==
  ASSUME Serial, SInv, CInv', NEW c \in Compactors, BeginCommit(c)
  PROVE  SInv'
<1>1. /\ pc[c] = "waiting" /\ pc'[c] = "rename" /\ ~Committing
      /\ UNCHANGED <<disk, active, index, up, acked, stale, todo, scanned, outs, renamed>>
  BY SInvTypes DEF BeginCommit, CompactionTypes
<1>2. PICK lo, last \in 1..active : StageAt(c, lo, last) BY <1>1 DEF SInv, Stages
<1>3. Scanned(c, lo) /\ lo <= last /\ last + 1 < active /\ stale[c] = lo..last
  BY <1>1, <1>2 DEF StageAt, CommitPhases
<1>4. /\ DOMAIN disk = lo..active /\ DOMAIN scanned[c] = stale[c] /\ Survivors(c)
      /\ \A i \in stale[c] : scanned[c][i] = disk[i]
  BY <1>1, <1>3 DEF Scanned
<1>5. renamed[c] = 0 BY <1>1 DEF SInv, Stages, CommitPhases
<1>6. outs[c] \in Seq(Seq(PutRecords)) /\ active \in Nat BY SInvTypes
<1>7. lo \in Nat /\ last \in Nat /\ stale[c] \subseteq DOMAIN disk BY <1>3, <1>4, <1>6
<1>8. Renaming(c, lo, last)'
  <2>1. 0 <= Len(outs[c]) BY <1>6
  <2>2. \A i \in lo..last : ~(last - 0 < i) BY <1>7
  <2> QED BY <1>1, <1>3, <1>4, <1>5, <2>1, <2>2 DEF Renaming, Survivors
<1>9. StageAt(c, lo, last)' BY <1>1, <1>3, <1>8 DEF StageAt, CommitPhases
<1>10. Before(c)' = disk
  <2>1. disk = [i \in DOMAIN disk |-> disk[i]] BY SInvTypes DEF ClientFiles
  <2>2. stale[c] \cup DOMAIN disk = DOMAIN disk BY <1>7
  <2>3. Before(c) = [i \in DOMAIN disk |-> disk[i]] BY <1>4, <2>2 DEF Before
  <2> QED BY <1>1, <2>1, <2>3 DEF Before
<1>11. Faithful(disk) BY <1>1 DEF SInv, Current
<1> QED BY <1>1, <1>9, <1>10, <1>11, SerialCommit DEF CommitPhases, Faithful

\* The ids above i in an interval.
LEMMA Above ==
  ASSUME NEW lo \in Nat, NEW last \in Nat, NEW i \in lo..last
  PROVE  Cardinality({x \in lo..last : x > i}) = last - i
<1>1. {x \in lo..last : x > i} = (i + 1)..last OBVIOUS
<1>2. Cardinality((i + 1)..last) = IF i + 1 > last THEN 0 ELSE last - (i + 1) + 1
  BY FS_Interval
<1>3. Cardinality((i + 1)..last) = last - i BY <1>2
<1> QED BY <1>1, <1>3

\* A list of consecutive ids has as many as lie between its ends.
LEMMA StaleCount ==
  ASSUME NEW lo \in Nat, NEW last \in Nat, lo <= last
  PROVE  Cardinality(lo..last) = last - lo + 1
BY FS_Interval

\* The outputs fit: n renames use ids last - n + 1 .. last.
LEMMA OutputsFit ==
  ASSUME SInv, NEW c \in Compactors, OutputsReuseIds,
         NEW lo \in 1..active, NEW last \in 1..active, lo <= last, stale[c] = lo..last
  PROVE  /\ lo <= last - Len(outs[c]) + 1 /\ Len(outs[c]) \in Nat
         /\ lo \in Nat /\ last \in Nat /\ active \in Nat /\ lo >= 1
<1>1. active \in Nat /\ outs[c] \in Seq(Seq(PutRecords)) BY SInvTypes
<1>2. lo \in Nat /\ last \in Nat /\ Len(outs[c]) \in Nat BY <1>1
<1>3. Len(outs[c]) <= last - lo + 1 BY <1>2, StaleCount DEF OutputsReuseIds
<1> QED BY <1>1, <1>2, <1>3

\* A rename moves the boundary between outputs and scanned files by one.
LEMMA SerialRename ==
  ASSUME Serial, Unbuffered, SInv, CInv', OutputsReuseIds, NEW c \in Compactors, Rename(c)
  PROVE  SInv'
<1>1. pc[c] = "rename" /\ renamed[c] < Len(outs[c]) /\ UNCHANGED <<active, index, up, acked>>
  BY DEF Rename
<1>2. PICK lo, last \in 1..active : StageAt(c, lo, last) BY <1>1 DEF SInv, Stages
<1>3. lo <= last /\ last + 1 < active /\ stale[c] = lo..last /\ Renaming(c, lo, last)
  BY <1>1, <1>2 DEF StageAt
<1>4. /\ DOMAIN disk = lo..active /\ DOMAIN scanned[c] = stale[c] /\ Survivors(c)
      /\ \A i \in lo..last :
           disk[i] = IF last - renamed[c] < i THEN OutputFor(c, last, i) ELSE scanned[c][i]
  BY <1>3 DEF Renaming
<1>5. /\ lo <= last - Len(outs[c]) + 1 /\ Len(outs[c]) \in Nat
      /\ lo \in Nat /\ last \in Nat /\ active \in Nat /\ lo >= 1 /\ renamed[c] \in Nat
  BY <1>3, OutputsFit, SInvTypes
<1> DEFINE n == renamed[c]
           target == last - n
<1>6. target \in lo..last /\ target > 0 /\ Len(outs[c]) - n \in 1..Len(outs[c])
  BY <1>1, <1>5
<1>7. ASSUME NEW x \in stale[c], IsLast(stale[c], x) PROVE x = last
  <2>1. last \in stale[c] /\ x \in lo..last BY <1>3, <1>5
  <2>2. last <= x BY <1>7, <2>1 DEF IsLast
  <2> QED BY <1>5, <2>1, <2>2
<1>8. /\ disk' = WithFile(disk, target, Written(c, Len(outs[c]) - n))
      /\ renamed'[c] = n + 1
      /\ UNCHANGED <<pc, stale, todo, scanned, outs>>
  BY <1>6, <1>7, SInvTypes DEF Rename, TargetId, CompactionTypes
<1>9. Written(c, Len(outs[c]) - n) = OutputFor(c, last, target)
  <2>1. Len(outs[c]) - (last - target) = Len(outs[c]) - n BY <1>5
  <2>2. Written(c, Len(outs[c]) - n) = outs[c][Len(outs[c]) - n]
    BY <1>6, WrittenWhole, SInvTypes DEF SInv, CInv
  <2> QED BY <2>1, <2>2 DEF OutputFor
<1>10. target \in DOMAIN disk BY <1>4, <1>5, <1>6, <1>3
<1>11. DOMAIN disk' = DOMAIN disk BY <1>8, <1>10 DEF WithFile
<1>12. \A i \in DOMAIN disk :
         disk'[i] = IF i = target THEN OutputFor(c, last, target) ELSE disk[i]
  BY <1>8, <1>9 DEF WithFile
<1>13. ASSUME NEW i \in lo..last
       PROVE  disk'[i] = IF last - (n + 1) < i THEN OutputFor(c, last, i) ELSE scanned[c][i]
  <2>1. i \in DOMAIN disk BY <1>3, <1>4, <1>5
  <2>2. CASE i = target
    <3>1. last - (n + 1) < i BY <1>5, <2>2
    <3> QED BY <1>12, <2>1, <2>2, <3>1
  <2>3. CASE i # target
    <3>1. last - (n + 1) < i <=> last - n < i BY <1>5, <2>3
    <3> QED BY <1>4, <1>12, <2>1, <2>3, <3>1
  <2> QED BY <2>2, <2>3
<1>14. Renaming(c, lo, last)'
  <2>1. n + 1 <= Len(outs[c]) BY <1>1, <1>5
  <2>2. Survivors(c)' BY <1>4, <1>8 DEF Survivors
  <2>3. \A i : OutputFor(c, last, i)' = OutputFor(c, last, i) BY <1>8 DEF OutputFor
  <2>4. DOMAIN disk' = lo..active' /\ DOMAIN scanned'[c] = stale'[c] BY <1>1, <1>4, <1>8, <1>11
  <2>5. \A i \in lo..last :
          disk'[i] = IF last - renamed'[c] < i THEN OutputFor(c, last, i)' ELSE scanned'[c][i]
    BY <1>8, <1>13, <2>3
  <2>6. renamed'[c] <= Len(outs'[c]) BY <1>8, <2>1
  <2> QED BY <2>2, <2>4, <2>5, <2>6 DEF Renaming
<1>15. StageAt(c, lo, last)' BY <1>1, <1>3, <1>8, <1>14 DEF StageAt, CommitPhases
<1>16. Before(c)' = Before(c)
  <2>1. \A i \in DOMAIN disk : i \notin stale[c] => disk'[i] = disk[i] BY <1>3, <1>6, <1>12
  <2> QED BY <1>8, <1>11, <2>1 DEF Before
<1>17. Faithful(Before(c)) BY <1>1 DEF SInv, Current, CommitPhases
<1>18. pc'[c] = "rename" BY <1>1, <1>8
<1> QED BY <1>1, <1>15, <1>16, <1>17, <1>18, SerialCommit DEF CommitPhases, Faithful

LEMMA SerialBeginRemove ==
  ASSUME Serial, SInv, CInv', OutputsReuseIds, NEW c \in Compactors, BeginRemove(c)
  PROVE  SInv'
<1>1. /\ pc[c] = "rename" /\ pc'[c] = "remove" /\ renamed[c] = Len(outs[c])
      /\ todo'[c] = Remaining(stale[c], Len(outs[c]))
      /\ UNCHANGED <<disk, active, index, up, acked, stale, scanned, outs, renamed>>
  BY SInvTypes DEF BeginRemove, CompactionTypes
<1>2. PICK lo, last \in 1..active : StageAt(c, lo, last) BY <1>1 DEF SInv, Stages
<1>3. lo <= last /\ last + 1 < active /\ stale[c] = lo..last /\ Renaming(c, lo, last)
  BY <1>1, <1>2 DEF StageAt
<1>4. /\ DOMAIN disk = lo..active /\ DOMAIN scanned[c] = stale[c] /\ Survivors(c)
      /\ \A i \in lo..last :
           disk[i] = IF last - renamed[c] < i THEN OutputFor(c, last, i) ELSE scanned[c][i]
  BY <1>3 DEF Renaming
<1> DEFINE n == Len(outs[c])
<1>5. /\ lo <= last - n + 1 /\ n \in Nat
      /\ lo \in Nat /\ last \in Nat /\ active \in Nat /\ lo >= 1
  BY <1>3, OutputsFit
<1> HIDE DEF n
<1>6. todo'[c] = lo..(last - n)
  <2>1. \A i \in lo..last : Cardinality({x \in lo..last : x > i}) = last - i BY <1>5, Above
  <2>2. todo'[c] = {i \in lo..last : Cardinality({x \in lo..last : x > i}) >= n}
    BY <1>1, <1>3 DEF Remaining, n
  <2>3. todo'[c] = {i \in lo..last : last - i >= n} BY <2>1, <2>2
  <2>4. {i \in lo..last : last - i >= n} = lo..(last - n) BY <1>5
  <2> QED BY <2>3, <2>4
<1>7. DOMAIN disk = todo'[c] \cup (last - n + 1)..active
  <2>1. lo..active = lo..(last - n) \cup (last - n + 1)..active BY <1>3, <1>5
  <2> QED BY <1>4, <1>6, <2>1
<1>8. ASSUME NEW i \in (last - n + 1)..last PROVE disk[i] = OutputFor(c, last, i)
  <2>1. i \in lo..last /\ last - n < i BY <1>5
  <2> QED BY <1>1, <1>4, <2>1 DEF n
<1>9. Removing(c, lo, last)'
  BY <1>1, <1>4, <1>5, <1>6, <1>7, <1>8 DEF Removing, Survivors, OutputFor, n
<1>10. StageAt(c, lo, last)' BY <1>1, <1>3, <1>9 DEF StageAt, CommitPhases
<1>11. Before(c)' = Before(c) BY <1>1 DEF Before
<1>12. Faithful(Before(c)) BY <1>1 DEF SInv, Current, CommitPhases
<1> QED BY <1>1, <1>10, <1>11, <1>12, SerialCommit DEF CommitPhases, Faithful

LEMMA SerialRemove ==
  ASSUME Serial, SInv, CInv', OutputsReuseIds, NEW c \in Compactors, RemoveStale(c)
  PROVE  SInv'
<1>1. pc[c] = "remove" /\ UNCHANGED <<active, index, up, acked>>
  BY DEF RemoveStale
<1>2. PICK lo, last \in 1..active : StageAt(c, lo, last) BY <1>1 DEF SInv, Stages
<1>3. lo <= last /\ last + 1 < active /\ stale[c] = lo..last /\ Removing(c, lo, last)
  BY <1>1, <1>2 DEF StageAt
<1> DEFINE n == Len(outs[c])
           kept == (last - n + 1)..active
<1>4. /\ DOMAIN scanned[c] = stale[c] /\ Survivors(c)
      /\ lo <= last - n + 1
      /\ todo[c] \subseteq lo..(last - n)
      /\ DOMAIN disk = todo[c] \cup kept
      /\ \A i \in (last - n + 1)..last : disk[i] = OutputFor(c, last, i)
  BY <1>3 DEF Removing
<1>5. lo \in Nat /\ last \in Nat /\ active \in Nat /\ n \in Nat BY <1>3, OutputsFit
<1>6. PICK i \in todo[c] :
        /\ disk' = WithoutFile(disk, i)
        /\ todo'[c] = todo[c] \ {i}
        /\ UNCHANGED <<pc, stale, scanned, outs, renamed>>
  BY <1>4, SInvTypes DEF RemoveStale, CompactionTypes
<1>7. i \in lo..(last - n) /\ i \notin kept /\ i \in stale[c] BY <1>3, <1>4, <1>5
<1>8. /\ DOMAIN disk' = DOMAIN disk \ {i}
      /\ \A x \in DOMAIN disk' : disk'[x] = disk[x]
  BY <1>6 DEF WithoutFile, Restrict
<1>9. DOMAIN disk' = todo'[c] \cup kept BY <1>4, <1>6, <1>7, <1>8
<1>10. ASSUME NEW x \in (last - n + 1)..last PROVE disk'[x] = OutputFor(c, last, x)
  <2>1. x \in kept BY <1>3, <1>5
  <2> QED BY <1>4, <1>8, <1>9, <2>1
<1>11. Removing(c, lo, last)'
  <2>1. Survivors(c)' BY <1>4, <1>6 DEF Survivors
  <2>2. \A x : OutputFor(c, last, x)' = OutputFor(c, last, x) BY <1>6 DEF OutputFor
  <2>3. outs' = outs /\ scanned' = scanned /\ stale' = stale /\ active' = active BY <1>1, <1>6
  <2>4. todo'[c] \subseteq lo..(last - n) BY <1>4, <1>6
  <2>5. DOMAIN disk' = todo'[c] \cup (last - Len(outs'[c]) + 1)..active' BY <1>9, <2>3
  <2>6. \A x \in (last - Len(outs'[c]) + 1)..last : disk'[x] = OutputFor(c, last, x)'
    BY <1>10, <2>2, <2>3
  <2> HIDE DEF n
  <2> QED BY <1>4, <2>1, <2>3, <2>4, <2>5, <2>6 DEF Removing, n
<1>12. StageAt(c, lo, last)' BY <1>1, <1>3, <1>6, <1>11 DEF StageAt, CommitPhases
<1>13. Before(c)' = Before(c)
  <2>1. stale[c] \cup DOMAIN disk' = stale[c] \cup DOMAIN disk BY <1>7, <1>8
  <2>2. \A x \in stale[c] \cup DOMAIN disk : x \notin stale[c] => disk'[x] = disk[x]
    BY <1>7, <1>8
  <2> QED BY <1>6, <2>1, <2>2 DEF Before
<1>14. Faithful(Before(c)) BY <1>1 DEF SInv, Current, CommitPhases
<1>15. pc'[c] = "remove" BY <1>1, <1>6
<1> QED BY <1>1, <1>12, <1>13, <1>14, <1>15, SerialCommit DEF CommitPhases, Faithful

\* Consecutive ids next to consecutive ids are consecutive.
LEMMA IntervalUnion ==
  ASSUME NEW a \in Nat, NEW b \in Nat, NEW x \in Nat, NEW y \in Nat,
         a <= x, x <= b, b < y
  PROVE  (a..b) \cup (x..y) = a..y
OBVIOUS

\* What c's compaction leaves in the end, of what there was before.
Compacted(c, lo, last, first) ==
  /\ lo \in Nat /\ last \in Nat /\ active \in Nat /\ first \in Nat
  /\ lo <= first /\ 1 <= first /\ first <= last /\ last < active /\ last + 1 < active
  /\ first = last - Len(outs[c]) + 1
  /\ stale[c] = lo..last /\ DOMAIN scanned[c] = lo..last
  /\ Len(outs[c]) \in Nat /\ Survivors(c)
  /\ DOMAIN disk = first..active
  /\ \A i \in first..last :
       /\ disk[i] = outs[c][Len(outs[c]) - (last - i)]
       /\ Len(outs[c]) - (last - i) \in 1..Len(outs[c])
  /\ DOMAIN Before(c) = lo..active
  /\ \A i \in lo..last : Before(c)[i] = scanned[c][i]
  /\ \A i \in DOMAIN disk : i > last => i \in DOMAIN Before(c) /\ Before(c)[i] = disk[i]
  /\ \A i \in DOMAIN Before(c) : i > last => i \in DOMAIN disk

\* When nothing is left to remove, the outputs are in place and the rest is as it was.
LEMMA CompactedFiles ==
  ASSUME SInv, OutputsReuseIds, NEW c \in Compactors, pc[c] = "remove", todo[c] = {}
  PROVE  \E lo, last \in 1..active : \E first : Compacted(c, lo, last, first)
<1>0. PICK lo, last \in 1..active : StageAt(c, lo, last) BY DEF SInv, Stages
<1> DEFINE first == last - Len(outs[c]) + 1
<1> DEFINE n == Len(outs[c])
<1>1. lo <= last /\ last + 1 < active /\ stale[c] = lo..last /\ Removing(c, lo, last)
  BY <1>0 DEF StageAt
<1>2. /\ DOMAIN scanned[c] = stale[c] /\ Survivors(c)
      /\ DOMAIN disk = {} \cup (last - n + 1)..active
      /\ \A i \in (last - n + 1)..last : disk[i] = OutputFor(c, last, i)
  BY <1>1 DEF Removing
<1>3. lo \in Nat /\ last \in Nat /\ active \in Nat /\ n \in Nat /\ lo <= last - n + 1 /\ lo >= 1
  BY <1>1, OutputsFit
<1>4. outs[c] # <<>> /\ outs[c] \in Seq(Seq(PutRecords))
  BY <1>2, SInvTypes DEF Survivors, SurvivorsOf
<1>5. n # 0 BY <1>4
<1> HIDE DEF n
<1>6. first = last - n + 1 BY DEF n
<1> HIDE DEF first
<1>7. first \in Nat /\ first <= last /\ lo <= first BY <1>3, <1>5, <1>6
<1>8. DOMAIN disk = first..active BY <1>2, <1>6
<1>9. \A i \in first..last : n - (last - i) \in 1..n BY <1>3, <1>6
<1>10. DOMAIN Before(c) = lo..active
  <2>1. DOMAIN Before(c) = lo..last \cup first..active BY <1>1, <1>8 DEF Before
  <2>2. last < active BY <1>1, <1>3
  <2>3. lo..last \cup first..active = lo..active BY <1>3, <1>7, <2>2, IntervalUnion
  <2> QED BY <2>1, <2>3
<1>11. \A i \in lo..last : Before(c)[i] = scanned[c][i] BY <1>1 DEF Before
<1>12. ASSUME NEW i \in DOMAIN disk, i > last
       PROVE  i \in DOMAIN Before(c) /\ Before(c)[i] = disk[i]
  <2>1. i \notin stale[c] BY <1>1, <1>3, <1>8, <1>12
  <2> QED BY <2>1 DEF Before
<1>13. ASSUME NEW i \in DOMAIN Before(c), i > last PROVE i \in DOMAIN disk
  <2>1. i \in lo..active BY <1>10
  <2>2. i \in first..active BY <1>3, <1>7, <1>13, <2>1
  <2> QED BY <1>8, <2>2
<1>14. \A i \in first..last : disk[i] = outs[c][n - (last - i)]
  BY <1>2, <1>6 DEF OutputFor, n
<1>15. 1 <= first /\ last < active BY <1>1, <1>3, <1>7
<1>16. first = last - n + 1 BY <1>6
<1>17. Compacted(c, lo, last, first)
  BY <1>1, <1>2, <1>3, <1>7, <1>8, <1>9, <1>10, <1>11, <1>12, <1>13, <1>14, <1>15, <1>16
  DEF n, Compacted
<1> QED BY <1>17

\* A key's last record before and after the compaction.
KeptAt(c, last, k, i, j) ==
  i > last /\ IsLastAt(Before(c), k, i, j) /\ IsLastAt(disk, k, i, j)
DroppedAt(c, last, k, i, j) ==
  /\ i <= last /\ IsLastAt(Before(c), k, i, j) /\ IsLastAt(scanned[c], k, i, j)
  /\ Before(c)[i][j].op = "del" /\ NoRecordOf(disk, k)
MovedAt(c, last, k, i, j, x, y) ==
  /\ i <= last /\ x <= last /\ IsLastAt(Before(c), k, i, j) /\ IsLastAt(scanned[c], k, i, j)
  /\ IsLastAt(disk, k, x, y)
  /\ disk[x][y] = Before(c)[i][j] /\ disk[x][y] = scanned[c][i][j] /\ disk[x][y].op # "del"
  /\ CompactedLocation(c, last, k) = Location(disk, x, y)

CompactedKey(c, last, k) ==
  \/ NoRecordOf(Before(c), k) /\ NoRecordOf(disk, k)
  \/ \E i, j : KeptAt(c, last, k, i, j)
  \/ \E i, j : DroppedAt(c, last, k, i, j)
  \/ \E i, j, x, y : MovedAt(c, last, k, i, j, x, y)

\* A survivor has one place.
LEMMA SurvivorUnique ==
  ASSUME NEW files, NEW packed, SurvivorsOf(files, packed),
         NEW i \in 1..Len(packed), NEW j \in 1..Len(packed[i]),
         NEW x \in 1..Len(packed), NEW y \in 1..Len(packed[x]),
         packed[i][j].key = packed[x][y].key
  PROVE  i = x /\ j = y
BY DEF SurvivorsOf, EachKeyOnce

\* The y-th record of output u, whose key is k, is now in file x, and no other file up
\* to last has a record of k.
PlacedAt(c, last, k, u, y, x) ==
  /\ x \in DOMAIN disk /\ x <= last /\ disk[x] = outs[c][u]
  /\ \A p \in DOMAIN disk : \A q \in 1..Len(disk[p]) :
       p <= last /\ disk[p][q].key = k => p = x /\ q = y
  /\ CompactedLocation(c, last, k) = Location(disk, x, y)

\* Where a record of an output ends up.
LEMMA OutputPlace ==
  ASSUME SInv, NEW c \in Compactors, NEW lo, NEW last, NEW first, Compacted(c, lo, last, first),
         NEW u \in 1..Len(outs[c]), NEW y \in 1..Len(outs[c][u]), NEW k,
         outs[c][u][y].key = k
  PROVE  \E x : PlacedAt(c, last, k, u, y, x)
<1> DEFINE n == Len(outs[c])
           x == last - (n - u)
<1>1. /\ Survivors(c) /\ DOMAIN disk = first..active
      /\ \A i \in first..last :
           disk[i] = outs[c][n - (last - i)] /\ n - (last - i) \in 1..n
  BY DEF Compacted
<1>2. ASSUME NEW p \in 1..n, NEW q \in 1..Len(outs[c][p]), outs[c][p][q].key = k
      PROVE  p = u /\ q = y
  <2>1. SurvivorsOf(scanned[c], outs[c]) BY <1>1 DEF Survivors
  <2> QED BY <1>2, <2>1, SurvivorUnique
<1>3. last \in Nat /\ n \in Nat /\ active \in Nat /\ last < active /\ u \in 1..n
  BY DEF Compacted
<1>3a. first = last - n + 1 BY DEF Compacted
<1> HIDE DEF n
<1>4. /\ x \in first..last /\ n - (last - x) = u /\ x <= last /\ x \in first..active
      /\ \A p \in Int : n - (last - p) = u => p = x
  BY <1>3, <1>3a
<1>3b. TargetId(last, n - u) = x BY DEF TargetId
<1> HIDE DEF x
<1>5. x \in DOMAIN disk /\ disk[x] = outs[c][u] BY <1>1, <1>4
<1>6. ASSUME NEW p \in DOMAIN disk, NEW q \in 1..Len(disk[p]), p <= last, disk[p][q].key = k
      PROVE  p = x /\ q = y
  <2>1. p \in first..last BY <1>1, <1>6
  <2>2. disk[p] = outs[c][n - (last - p)] /\ n - (last - p) \in 1..n BY <1>1, <2>1
  <2>3. q \in 1..Len(outs[c][n - (last - p)]) /\ outs[c][n - (last - p)][q].key = k
    BY <1>6, <2>2
  <2>4. n - (last - p) = u /\ q = y BY <1>2, <1>3, <2>2, <2>3
  <2>5. p \in Int BY <2>1
  <2>6. p = x BY <1>4, <2>4, <2>5
  <2> QED BY <2>4, <2>6
<1>7. IsLastAt(outs[c], k, u, y)
  <2>1. outs[c] \in Seq(Seq(PutRecords)) /\ DOMAIN outs[c] = 1..n BY SInvTypes DEF n
  <2>2. ASSUME NEW p \in 1..n, NEW q \in 1..Len(outs[c][p]), outs[c][p][q].key = k
        PROVE  p = u /\ q = y
    BY <1>2, <1>3, <2>2
  <2>3. Len(outs[c][u]) \in Nat BY <1>3, <2>1
  <2>4. y <= y BY <2>3
  <2> QED BY <1>3, <2>1, <2>2, <2>4 DEF IsLastAt
<1>8. LastPosition(outs[c], k) = <<u, y>>
  <2>1. DOMAIN outs[c] \subseteq Nat BY SInvTypes
  <2> QED BY <1>7, <2>1, LastAtUnique
<1>9. CompactedLocation(c, last, k) = Location(disk, x, y)
  <2>1. TargetId(last, n - u) = x BY <1>3b
  <2>2. CompactedLocation(c, last, k) = [Location(outs[c], u, y) EXCEPT !.segment = x]
    BY <1>8, <2>1 DEF CompactedLocation, n
  <2> QED BY <1>5, <2>2 DEF Location
<1>10. PlacedAt(c, last, k, u, y, x) BY <1>4, <1>5, <1>6, <1>9 DEF PlacedAt
<1> QED BY <1>10

\* Records in what the compaction left are in the files before it, or survivors.
LEMMA BeforeAreFiles ==
  ASSUME SInv, NEW c \in Compactors, NEW lo, NEW last, NEW first, Compacted(c, lo, last, first)
  PROVE  AreFiles(Before(c), DiskRecord)
<1>1. /\ DOMAIN Before(c) = lo..active /\ lo \in Nat /\ active \in Nat /\ last \in Nat
      /\ \A i \in lo..last : Before(c)[i] = scanned[c][i]
      /\ DOMAIN scanned[c] = lo..last
      /\ \A i \in DOMAIN disk : i > last => i \in DOMAIN Before(c) /\ Before(c)[i] = disk[i]
      /\ \A i \in DOMAIN Before(c) : i > last => i \in DOMAIN disk
  BY DEF Compacted
<1>2. AreFiles(disk, DiskRecord) /\ AreFiles(scanned[c], DiskRecord) BY SInvTypes
<1>3. ASSUME NEW i \in DOMAIN Before(c) PROVE Before(c)[i] \in Seq(DiskRecord) /\ i \in Nat
  <2>1. i \in lo..active BY <1>1
  <2>2. CASE i > last BY <1>1, <1>2, <2>1, <2>2 DEF AreFiles
  <2>3. CASE ~(i > last)
    <3>1. i \in lo..last BY <1>1, <2>1, <2>3
    <3> QED BY <1>1, <1>2, <2>1, <3>1 DEF AreFiles
  <2> QED BY <2>2, <2>3
<1>4. \A i \in DOMAIN Before(c) : i <= active BY <1>1
<1> QED BY <1>1, <1>3, <1>4 DEF AreFiles

\* A key whose last record is newer than what was scanned keeps it where it is.
LEMMA KeptFact ==
  ASSUME SInv, NEW c \in Compactors, NEW lo, NEW last, NEW first, Compacted(c, lo, last, first),
         NEW k, NEW i, NEW j, IsLastAt(Before(c), k, i, j), i > last
  PROVE  KeptAt(c, last, k, i, j)
<1>1. /\ last \in Nat /\ active \in Nat /\ DOMAIN disk = first..active /\ first \in Nat
      /\ DOMAIN Before(c) = lo..active /\ lo \in Nat
      /\ \A p \in DOMAIN disk : p > last => p \in DOMAIN Before(c) /\ Before(c)[p] = disk[p]
      /\ \A p \in DOMAIN Before(c) : p > last => p \in DOMAIN disk
  BY DEF Compacted
<1>2. /\ i \in DOMAIN Before(c) /\ j \in 1..Len(Before(c)[i]) /\ Before(c)[i][j].key = k
      /\ \A x \in DOMAIN Before(c) : \A y \in 1..Len(Before(c)[x]) :
           Before(c)[x][y].key = k => x < i \/ (x = i /\ y <= j)
  BY DEF IsLastAt
<1>3. i \in DOMAIN disk /\ disk[i] = Before(c)[i] BY <1>1, <1>2
<1>4. ASSUME NEW x \in DOMAIN disk, NEW y \in 1..Len(disk[x]), disk[x][y].key = k
      PROVE  x < i \/ (x = i /\ y <= j)
  <2>1. x \in Nat /\ i \in Nat BY <1>1, <1>2
  <2>2. CASE x > last
    <3>1. x \in DOMAIN Before(c) /\ Before(c)[x] = disk[x] BY <1>1, <2>2
    <3> QED BY <1>2, <1>4, <3>1
  <2>3. CASE ~(x > last) BY <1>1, <2>1, <2>3
  <2> QED BY <2>2, <2>3
<1>5. IsLastAt(disk, k, i, j) BY <1>2, <1>3, <1>4 DEF IsLastAt
<1> QED BY <1>5 DEF KeptAt

\* A key last written in a compacted file is not in the files above.
LEMMA ScannedLast ==
  ASSUME SInv, NEW c \in Compactors, NEW lo, NEW last, NEW first, Compacted(c, lo, last, first),
         NEW k, NEW i, NEW j, IsLastAt(Before(c), k, i, j), ~(i > last)
  PROVE  /\ i <= last
         /\ IsLastAt(scanned[c], k, i, j)
         /\ Before(c)[i][j] = scanned[c][i][j] /\ scanned[c][i][j].key = k
         /\ \A x \in DOMAIN disk : \A y \in 1..Len(disk[x]) : disk[x][y].key = k => x <= last
<1>1. /\ last \in Nat /\ active \in Nat /\ DOMAIN disk = first..active /\ first \in Nat
      /\ DOMAIN Before(c) = lo..active /\ lo \in Nat /\ last < active
      /\ DOMAIN scanned[c] = lo..last
      /\ \A p \in lo..last : Before(c)[p] = scanned[c][p]
      /\ \A p \in DOMAIN disk : p > last => p \in DOMAIN Before(c) /\ Before(c)[p] = disk[p]
  BY DEF Compacted
<1>2. /\ i \in DOMAIN Before(c) /\ j \in 1..Len(Before(c)[i]) /\ Before(c)[i][j].key = k
      /\ \A x \in DOMAIN Before(c) : \A y \in 1..Len(Before(c)[x]) :
           Before(c)[x][y].key = k => x < i \/ (x = i /\ y <= j)
  BY DEF IsLastAt
<1>3. i \in Nat /\ i \in lo..last /\ i <= last BY <1>1, <1>2
<1>4. Before(c)[i] = scanned[c][i] /\ i \in DOMAIN scanned[c] BY <1>1, <1>3
<1>5. ASSUME NEW x \in DOMAIN scanned[c], NEW y \in 1..Len(scanned[c][x]),
             scanned[c][x][y].key = k
      PROVE  x < i \/ (x = i /\ y <= j)
  <2>1. x \in lo..last BY <1>1
  <2>2. x \in DOMAIN Before(c) /\ Before(c)[x] = scanned[c][x] BY <1>1, <2>1
  <2> QED BY <1>2, <1>5, <2>2
<1>6. IsLastAt(scanned[c], k, i, j) BY <1>2, <1>4, <1>5 DEF IsLastAt
<1>7. ASSUME NEW x \in DOMAIN disk, NEW y \in 1..Len(disk[x]), disk[x][y].key = k
      PROVE  x <= last
  <2>1. x \in Nat BY <1>1
  <2>2. CASE x > last
    <3>1. x \in DOMAIN Before(c) /\ Before(c)[x] = disk[x] BY <1>1, <2>2
    <3>2. x < i \/ x = i BY <1>2, <1>7, <3>1
    <3> QED BY <1>1, <1>3, <2>1, <2>2, <3>2
  <2> QED BY <1>1, <2>1, <2>2
<1> QED BY <1>2, <1>3, <1>4, <1>6, <1>7

\* One whose last record was scanned is dropped, if deleted, or moved to an output.
LEMMA MovedFact ==
  ASSUME SInv, NEW c \in Compactors, NEW lo, NEW last, NEW first, Compacted(c, lo, last, first),
         NEW k \in Key, NEW i, NEW j, IsLastAt(Before(c), k, i, j), ~(i > last)
  PROVE  \/ DroppedAt(c, last, k, i, j)
         \/ \E x, y : MovedAt(c, last, k, i, j, x, y)
<1>1. /\ i <= last /\ IsLastAt(scanned[c], k, i, j)
      /\ Before(c)[i][j] = scanned[c][i][j] /\ scanned[c][i][j].key = k
      /\ \A x \in DOMAIN disk : \A y \in 1..Len(disk[x]) : disk[x][y].key = k => x <= last
  BY ScannedLast
<1>2. /\ LastRecord(scanned[c], k) = scanned[c][i][j]
      /\ k \in LiveKeys(scanned[c]) <=> scanned[c][i][j].op # "del"
  <2>1. DOMAIN scanned[c] \subseteq Nat BY SInvTypes DEF AreFiles
  <2>0. IsLastAt(scanned[c], k, i, j) BY <1>1
  <2>2. LastRecord(scanned[c], k) = scanned[c][i][j]
    <3>1. LastPosition(scanned[c], k) = <<i, j>> BY <2>0, <2>1, LastAtUnique
    <3> QED BY <3>1 DEF LastRecord
  <2>3. k \in LiveKeys(scanned[c]) <=> scanned[c][i][j].op # "del" BY <2>0, <2>1, LastAtFact
  <2> QED BY <2>2, <2>3
<1>3. /\ DOMAIN disk = first..active /\ Survivors(c)
      /\ \A p \in first..last :
           /\ disk[p] = outs[c][Len(outs[c]) - (last - p)]
           /\ Len(outs[c]) - (last - p) \in 1..Len(outs[c])
      /\ first \in Nat /\ last \in Nat /\ active \in Nat
  BY DEF Compacted
<1>4. /\ \A u \in 1..Len(outs[c]) : \A y \in 1..Len(outs[c][u]) :
           /\ outs[c][u][y].key \in LiveKeys(scanned[c])
           /\ outs[c][u][y] = LastRecord(scanned[c], outs[c][u][y].key)
      /\ \A q \in LiveKeys(scanned[c]) :
           \E u \in 1..Len(outs[c]) : \E y \in 1..Len(outs[c][u]) : outs[c][u][y].key = q
  BY <1>3 DEF Survivors, SurvivorsOf, LastRecordsOnly, EveryLiveKey
<1>5. CASE scanned[c][i][j].op = "del"
  <2>1. k \notin LiveKeys(scanned[c]) BY <1>2, <1>5
  <2>2. ASSUME NEW x \in DOMAIN disk, NEW y \in 1..Len(disk[x]), disk[x][y].key = k PROVE FALSE
    <3>1. x <= last BY <1>1, <2>2
    <3>2. x \in first..last BY <1>3, <3>1
    <3>3. PICK u \in 1..Len(outs[c]) : disk[x] = outs[c][u] BY <1>3, <3>2
    <3> QED BY <1>4, <2>1, <2>2, <3>3
  <2>3. NoRecordOf(disk, k) BY <2>2 DEF NoRecordOf
  <2> QED BY <1>1, <1>5, <2>3 DEF DroppedAt
<1>6. CASE scanned[c][i][j].op # "del"
  <2>1. k \in LiveKeys(scanned[c]) BY <1>2, <1>6
  <2>2a. PICK u \in 1..Len(outs[c]) : \E y \in 1..Len(outs[c][u]) : outs[c][u][y].key = k
    BY <1>4, <2>1
  <2>2. PICK y \in 1..Len(outs[c][u]) : outs[c][u][y].key = k BY <2>2a
  <2>3. outs[c][u][y] = scanned[c][i][j] BY <1>2, <1>4, <2>2
  <2>4a. PICK x : PlacedAt(c, last, k, u, y, x) BY <2>2, OutputPlace
  <2>4. /\ x \in DOMAIN disk /\ x <= last /\ disk[x] = outs[c][u]
        /\ \A p \in DOMAIN disk : \A q \in 1..Len(disk[p]) :
             p <= last /\ disk[p][q].key = k => p = x /\ q = y
        /\ CompactedLocation(c, last, k) = Location(disk, x, y)
    BY <2>4a DEF PlacedAt
  <2>5. y <= y
    <3>1. Len(outs[c][u]) \in Nat BY SInvTypes
    <3> QED BY <2>2, <3>1
  <2>6. ASSUME NEW p \in DOMAIN disk, NEW q \in 1..Len(disk[p]), disk[p][q].key = k
        PROVE  p = x /\ q = y
    BY <1>1, <2>4, <2>6
  <2>7. IsLastAt(disk, k, x, y) BY <2>2, <2>4, <2>5, <2>6 DEF IsLastAt
  <2>8. MovedAt(c, last, k, i, j, x, y) BY <1>1, <1>6, <2>3, <2>4, <2>7 DEF MovedAt
  <2> QED BY <2>8
<1> QED BY <1>5, <1>6

\* Every key is in one of the four cases.
LEMMA CompactedKeyFact ==
  ASSUME SInv, NEW c \in Compactors, NEW lo, NEW last, NEW first, Compacted(c, lo, last, first),
         NEW k \in Key
  PROVE  CompactedKey(c, last, k)
<1>1. AreFiles(Before(c), DiskRecord) BY BeforeAreFiles
<1>2. CASE NoRecordOf(Before(c), k)
  <2>1. /\ DOMAIN disk = first..active /\ first \in Nat /\ last \in Nat /\ active \in Nat
        /\ \A p \in DOMAIN disk : p > last => p \in DOMAIN Before(c) /\ Before(c)[p] = disk[p]
        /\ DOMAIN scanned[c] = lo..last /\ DOMAIN Before(c) = lo..active /\ lo \in Nat
        /\ \A p \in lo..last : Before(c)[p] = scanned[c][p]
        /\ \A p \in first..last :
             /\ disk[p] = outs[c][Len(outs[c]) - (last - p)]
             /\ Len(outs[c]) - (last - p) \in 1..Len(outs[c])
        /\ Survivors(c) /\ last < active
    BY DEF Compacted
  <2>2. k \notin LiveKeys(scanned[c])
    <3>1. \A x \in DOMAIN scanned[c] : x \in DOMAIN Before(c) /\ Before(c)[x] = scanned[c][x]
      BY <2>1
    <3>2. NoRecordOf(scanned[c], k) BY <1>2, <3>1 DEF NoRecordOf
    <3> QED BY <3>2, ReplayNone
  <2>3. ASSUME NEW x \in DOMAIN disk, NEW y \in 1..Len(disk[x]), disk[x][y].key = k PROVE FALSE
    <3>1. CASE x > last
      <4>1. x \in DOMAIN Before(c) /\ Before(c)[x] = disk[x] BY <2>1, <3>1
      <4> QED BY <1>2, <2>3, <4>1 DEF NoRecordOf
    <3>2. CASE ~(x > last)
      <4>1. x \in first..last BY <2>1, <3>2
      <4>2. PICK u \in 1..Len(outs[c]) : disk[x] = outs[c][u] BY <2>1, <4>1
      <4> QED BY <2>1, <2>2, <2>3, <4>2 DEF Survivors, SurvivorsOf, LastRecordsOnly
    <3> QED BY <3>1, <3>2
  <2>4. NoRecordOf(disk, k) BY <2>3 DEF NoRecordOf
  <2> QED BY <1>2, <2>4 DEF CompactedKey
<1>3. CASE \E i, j : ReplaysAt(Before(c), k, i, j)
  <2>1. PICK i, j : IsLastAt(Before(c), k, i, j) BY <1>3 DEF ReplaysAt
  <2>2. CASE i > last BY <2>1, <2>2, KeptFact DEF CompactedKey
  <2>3. CASE ~(i > last) BY <2>1, <2>3, MovedFact DEF CompactedKey
  <2> QED BY <2>2, <2>3
<1> QED BY <1>1, <1>2, <1>3, ReplayCases

\* The files after a commit replay to the answers of those before it.
LEMMA CompactedReplay ==
  ASSUME SInv, NEW c \in Compactors, NEW lo, NEW last, NEW first, Compacted(c, lo, last, first)
  PROVE  Recovered(disk) = Recovered(Before(c)) /\ LiveKeys(disk) = LiveKeys(Before(c))
<1>1. AreFiles(disk, DiskRecord) /\ AreFiles(Before(c), DiskRecord)
  BY SInvTypes, BeforeAreFiles
<1>2. DOMAIN disk \subseteq Nat /\ DOMAIN Before(c) \subseteq Nat BY <1>1 DEF AreFiles
<1>3. ASSUME NEW k \in Key
      PROVE  /\ Recovered(disk)[k] = Recovered(Before(c))[k]
             /\ k \in LiveKeys(disk) <=> k \in LiveKeys(Before(c))
  <2>1. CASE NoRecordOf(Before(c), k) /\ NoRecordOf(disk, k) BY <2>1, ReplayNone
  <2>2. CASE \E i, j : KeptAt(c, last, k, i, j)
    <3>1. PICK i, j : KeptAt(c, last, k, i, j) BY <2>2
    <3>2. ReplaysAt(Before(c), k, i, j) /\ ReplaysAt(disk, k, i, j)
      BY <1>2, <3>1, ReplayLast DEF KeptAt
    <3>3. disk[i][j] = Before(c)[i][j]
      <4>1. i \in DOMAIN disk /\ i > last BY <3>1 DEF KeptAt, IsLastAt
      <4> QED BY <4>1 DEF Compacted
    <3> QED BY <3>2, <3>3 DEF ReplaysAt
  <2>3. CASE \E i, j : DroppedAt(c, last, k, i, j)
    <3>1. PICK i, j : DroppedAt(c, last, k, i, j) BY <2>3
    <3>2. ReplaysAt(Before(c), k, i, j) BY <1>2, <3>1, ReplayLast DEF DroppedAt
    <3>3. k \notin LiveKeys(disk) /\ Recovered(disk)[k] = NotFound
      BY <3>1, ReplayNone DEF DroppedAt
    <3> QED BY <3>1, <3>2, <3>3 DEF ReplaysAt, DroppedAt, Answer
  <2>4. CASE \E i, j, x, y : MovedAt(c, last, k, i, j, x, y)
    <3>1. PICK i, j, x, y : MovedAt(c, last, k, i, j, x, y) BY <2>4
    <3>2. ReplaysAt(Before(c), k, i, j) /\ ReplaysAt(disk, k, x, y)
      BY <1>2, <3>1, ReplayLast DEF MovedAt
    <3> QED BY <3>1, <3>2 DEF ReplaysAt, MovedAt
  <2> QED BY <2>1, <2>2, <2>3, <2>4, CompactedKeyFact DEF CompactedKey
<1>4. LiveKeys(disk) \subseteq Key /\ LiveKeys(Before(c)) \subseteq Key BY DEF LiveKeys
<1>5. LiveKeys(disk) = LiveKeys(Before(c)) BY <1>3, <1>4
<1>6. Recovered(disk) = [k \in Key |-> Recovered(disk)[k]]
      /\ Recovered(Before(c)) = [k \in Key |-> Recovered(Before(c))[k]]
  BY DEF Recovered
<1> QED BY <1>3, <1>5, <1>6

\* The rule for superseded keys leaves each key where its last record is.
LEMMA ReindexedKey ==
  ASSUME SInv, NEW c \in Compactors, NEW lo, NEW last, NEW first, Compacted(c, lo, last, first),
         index = Populate(Before(c)), NEW k \in LiveKeys(Before(c))
  PROVE  Populate(disk)[k] = IF k \notin LiveKeys(scanned[c]) \/ Superseded(c, k)
                             THEN index[k]
                             ELSE CompactedLocation(c, last, k)
<1>1. AreFiles(disk, DiskRecord) /\ AreFiles(Before(c), DiskRecord)
      /\ AreFiles(scanned[c], DiskRecord)
  BY SInvTypes, BeforeAreFiles
<1>2. DOMAIN disk \subseteq Nat /\ DOMAIN Before(c) \subseteq Nat /\ DOMAIN scanned[c] \subseteq Nat
  BY <1>1 DEF AreFiles
<1>3. k \in Key /\ k \in DOMAIN index BY DEF LiveKeys, Populate
<1>4. k \in LiveKeys(disk) BY CompactedReplay
<1>5. CASE NoRecordOf(Before(c), k) BY <1>3, <1>5, ReplayNone
<1>6. CASE \E i, j : KeptAt(c, last, k, i, j)
  <2>1. PICK i, j : KeptAt(c, last, k, i, j) BY <1>6
  <2>2. ReplaysAt(Before(c), k, i, j) /\ ReplaysAt(disk, k, i, j)
    BY <1>2, <1>3, <2>1, ReplayLast DEF KeptAt
  <2>3. i \in DOMAIN disk /\ i > last /\ i \in Nat BY <1>2, <2>1 DEF KeptAt, IsLastAt
  <2>4. disk[i] = Before(c)[i] BY <2>3 DEF Compacted
  <2>5. index[k] = Location(Before(c), i, j) /\ Populate(disk)[k] = Location(disk, i, j)
    BY <1>4, <2>2 DEF ReplaysAt
  <2>6. Populate(disk)[k] = index[k] /\ index[k].segment = i BY <2>4, <2>5 DEF Location
  <2>7. k \in LiveKeys(scanned[c]) => Superseded(c, k)
    <3>1. SUFFICES ASSUME k \in LiveKeys(scanned[c]) PROVE Superseded(c, k) OBVIOUS
    <3>2. PICK x, y : IsLastAt(scanned[c], k, x, y) BY <1>1, <3>1, LastAtExists DEF LiveKeys
    <3>3. LastPosition(scanned[c], k) = <<x, y>> BY <1>2, <3>2, LastAtUnique
    <3>4. x \in lo..last /\ lo \in Nat /\ last \in Nat BY <3>2 DEF IsLastAt, Compacted
    <3>5. i > x BY <2>3, <3>4
    <3> QED BY <2>6, <3>3, <3>5 DEF Superseded
  <2> QED BY <2>6, <2>7
<1>7. CASE \E i, j : DroppedAt(c, last, k, i, j)
  <2>1. PICK i, j : DroppedAt(c, last, k, i, j) BY <1>7
  <2>2. k \notin LiveKeys(disk) BY <1>3, <2>1, ReplayNone DEF DroppedAt
  <2> QED BY <1>4, <2>2
<1>8. CASE \E i, j, x, y : MovedAt(c, last, k, i, j, x, y)
  <2>1. PICK i, j, x, y : MovedAt(c, last, k, i, j, x, y) BY <1>8
  <2>2. ReplaysAt(Before(c), k, i, j) /\ ReplaysAt(disk, k, x, y) /\ ReplaysAt(scanned[c], k, i, j)
    BY <1>2, <1>3, <2>1, ReplayLast DEF MovedAt
  <2>3. index[k] = Location(Before(c), i, j) /\ Populate(disk)[k] = Location(disk, x, y)
    BY <1>4, <2>2 DEF ReplaysAt
  <2>4. k \in LiveKeys(scanned[c]) BY <2>1, <2>2 DEF MovedAt, ReplaysAt
  <2>5. LastPosition(scanned[c], k) = <<i, j>> BY <1>2, <2>1, LastAtUnique DEF MovedAt
  <2>6. index[k].segment = i /\ i \in Nat
    BY <1>2, <2>1, <2>3 DEF Location, MovedAt, IsLastAt
  <2>7. ~Superseded(c, k) BY <1>3, <2>5, <2>6 DEF Superseded
  <2>8. CompactedLocation(c, last, k) = Populate(disk)[k] BY <2>1, <2>3 DEF MovedAt
  <2> QED BY <2>4, <2>7, <2>8
<1> QED BY <1>3, <1>5, <1>6, <1>7, <1>8, CompactedKeyFact DEF CompactedKey

\* The end of a commit: the index it leaves is the replay of the files it leaves.
LEMMA SerialReindex ==
  ASSUME Serial, SInv, CInv', OutputsReuseIds, NEW c \in Compactors, Reindex(c)
  PROVE  SInv'
<1>1. /\ pc[c] = "remove" /\ todo[c] = {} /\ pc'[c] = "idle" /\ renamed'[c] = 0
      /\ UNCHANGED <<disk, active, up, acked>>
  BY SInvTypes DEF Reindex, Forget, CompactionTypes
<1>2. PICK lo, last \in 1..active : \E first : Compacted(c, lo, last, first)
  BY <1>1, CompactedFiles
<1>3. PICK first : Compacted(c, lo, last, first) BY <1>2
<1>4. /\ stale[c] = lo..last /\ lo <= last /\ lo \in Nat /\ last \in Nat /\ active \in Nat
      /\ DOMAIN disk = first..active /\ first \in 1..active
  <2>1. /\ lo \in Nat /\ last \in Nat /\ active \in Nat /\ first \in Nat
        /\ lo <= first /\ first <= last /\ 1 <= first /\ last < active
    BY <1>3 DEF Compacted
  <2>2. lo <= last /\ first \in 1..active BY <2>1
  <2> QED BY <1>3, <2>1, <2>2 DEF Compacted
<1>5. \A x \in stale[c] : IsLast(stale[c], x) => x = last
  <2> TAKE x \in stale[c]
  <2> HAVE IsLast(stale[c], x)
  <2>1. last \in stale[c] /\ x \in lo..last BY <1>4
  <2>2. last <= x BY <2>1 DEF IsLast
  <2> QED BY <1>4, <2>1, <2>2
<1>6. index' = [k \in DOMAIN index |->
                  IF k \notin LiveKeys(scanned[c]) \/ Superseded(c, k)
                  THEN index[k]
                  ELSE CompactedLocation(c, last, k)]
  BY <1>5 DEF Reindex
<1>7. up BY <1>1, SInvTypes DEF Bookkeeping, StoreTypes
<1>8. index = Populate(Before(c)) /\ acked = Recovered(Before(c))
  BY <1>1, <1>7 DEF SInv, Current, Faithful, CommitPhases
<1>9. Recovered(disk) = Recovered(Before(c)) /\ LiveKeys(disk) = LiveKeys(Before(c))
  BY <1>3, CompactedReplay
<1>10. index' = Populate(disk)
  <2>1. DOMAIN index = LiveKeys(Before(c)) BY <1>8 DEF Populate
  <2>2. Populate(disk) = [k \in LiveKeys(disk) |-> Populate(disk)[k]] BY DEF Populate
  <2>3. \A k \in LiveKeys(Before(c)) :
          Populate(disk)[k] = IF k \notin LiveKeys(scanned[c]) \/ Superseded(c, k)
                              THEN index[k]
                              ELSE CompactedLocation(c, last, k)
    BY <1>3, <1>8, ReindexedKey
  <2> QED BY <1>6, <1>9, <2>1, <2>2, <2>3
<1>11. ~Committing' BY <1>1 DEF Serial, Committing, CommitPhases
<1>12. NoGaps' BY <1>1, <1>4 DEF NoGaps
<1>13. Current'
  <2>1. \A d \in Compactors : d = c BY DEF Serial
  <2> QED BY <1>1, <1>8, <1>9, <1>10, <2>1 DEF Current, Faithful, CommitPhases
<1> QED BY <1>1, <1>12, <1>13, SerialStage DEF CommitPhases

LEMMA NextSInv ==
  ASSUME Serial, Unbuffered, SInv, OutputsReuseIds, [Next]_vars
  PROVE  SInv'
<1>1. CInv' BY NextCInv DEF SInv
<1>2. ASSUME NEW k \in Key, NEW v \in Value, Put(k, v) PROVE SInv' BY <1>1, <1>2, SerialPut
<1>3. ASSUME NEW k \in DeletableKeys, Delete(k) PROVE SInv' BY <1>1, <1>3, SerialDelete
<1>4. ASSUME NEW c \in Compactors, Compact(c) PROVE SInv'
  <2>1. CASE StartCompaction(c) BY <1>1, <2>1, SerialStart
  <2>2. CASE ScanFile(c) BY <1>1, <2>2, SerialScan
  <2>3. CASE WriteSurvivors(c) BY <1>1, <2>3, SerialSurvivors
  <2>4. CASE BeginCommit(c) BY <1>1, <2>4, SerialBegin
  <2>5. CASE Rename(c) BY <1>1, <2>5, SerialRename
  <2>6. CASE BeginRemove(c) BY <1>1, <2>6, SerialBeginRemove
  <2>7. CASE PanicOnSlice(c)
    <3>1. Len(outs[c]) \in Nat BY SInvTypes
    <3>2. Len(outs[c]) <= Cardinality(stale[c]) BY DEF OutputsReuseIds
    <3>3. Cardinality(stale[c]) \in Int
      <4>1. pc[c] = "rename" BY <2>7 DEF PanicOnSlice
      <4>2. PICK lo, last \in 1..active : StageAt(c, lo, last) BY <4>1 DEF SInv, Stages
      <4>3. lo <= last /\ stale[c] = lo..last /\ lo \in Nat /\ last \in Nat
        BY <4>2, SInvTypes DEF StageAt
      <4> QED BY <4>3, StaleCount
    <3> QED BY <2>7, <3>1, <3>2, <3>3 DEF PanicOnSlice
  <2>8. CASE RemoveStale(c) BY <1>1, <2>8, SerialRemove
  <2>9. CASE Reindex(c) BY <1>1, <2>9, SerialReindex
  <2>10. CASE Fail(c)
    <3>1. pc[c] \notin CommitPhases BY <2>10 DEF Fail, Serial, ScanPhases, CommitPhases
    <3> QED BY <1>1, <2>10, <3>1, SerialForget DEF Fail
  <2> QED BY <1>4, <2>1, <2>2, <2>3, <2>4, <2>5, <2>6, <2>7, <2>8, <2>9, <2>10 DEF Compact
<1>5. ASSUME \A c \in Compactors : pc[c] \in CrashPhases PROVE ~Committing
  BY <1>5 DEF Committing, Serial
<1>6. CASE Crash BY <1>1, <1>5, <1>6, SerialStop DEF Crash
<1>7. ASSUME NEW k \in Key, NEW v \in Value, CrashInRoll(k, v) PROVE SInv'
  BY <1>1, <1>7, SerialStop DEF CrashInRoll
<1>8. CASE Restart BY <1>1, <1>8, SerialRestart
<1>9. CASE UNCHANGED vars
  <2>1. /\ UNCHANGED <<disk, active, index, up, acked>>
        /\ UNCHANGED <<pc, stale, todo, scanned, outs, renamed>>
    BY <1>9 DEF vars, compaction
  <2>2. Committing' = Committing BY <2>1 DEF Committing
  <2>3. Stages'
    <3>1. ASSUME NEW c \in Compactors, NEW lo, NEW last, StageAt(c, lo, last)
          PROVE  StageAt(c, lo, last)'
      <4>1. Survivors(c)' = Survivors(c) BY <2>1 DEF Survivors
      <4>2. \A i : OutputFor(c, last, i)' = OutputFor(c, last, i) BY <2>1 DEF OutputFor
      <4>3. Scanned(c, lo) => Scanned(c, lo)' BY <2>1, <4>1 DEF Scanned
      <4>4. Renaming(c, lo, last) => Renaming(c, lo, last)' BY <2>1, <4>1, <4>2 DEF Renaming
      <4>5. Removing(c, lo, last) => Removing(c, lo, last)' BY <2>1, <4>1, <4>2 DEF Removing
      <4> QED BY <2>1, <3>1, <4>3, <4>4, <4>5 DEF StageAt
    <3> QED BY <2>1, <3>1 DEF SInv, Stages
  <2>4. NoGaps' BY <2>1, <2>2 DEF SInv, NoGaps
  <2>5. Current' BY <2>1, <2>2 DEF SInv, Current, Faithful, Before
  <2> QED BY <1>1, <2>3, <2>4, <2>5 DEF SInv
<1> QED BY <1>2, <1>3, <1>4, <1>6, <1>7, <1>8, <1>9 DEF Next

-----------------------------------------------------------------------------
(* What follows: the index, the answers, the map clients see. *)

\* The answer of a read is what the replay of the files gives.
LEMMA FaithfulReads ==
  ASSUME SInv, up, ~Committing, NEW k \in Key
  PROVE  GetResult(k) = acked[k]
<1>1. index = Populate(disk) /\ acked = Recovered(disk) BY DEF SInv, Current, Faithful
<1>2. AreFiles(disk, DiskRecord) /\ ClientFiles(disk) BY SInvTypes
<1>3. CASE NoRecordOf(disk, k)
  <2>1. k \notin LiveKeys(disk) /\ Recovered(disk)[k] = NotFound BY <1>3, ReplayNone
  <2> QED BY <1>1, <2>1 DEF GetResult, Populate
<1>4. CASE \E i, j : ReplaysAt(disk, k, i, j)
  <2>1. PICK i, j : ReplaysAt(disk, k, i, j) BY <1>4
  <2>2. i \in DOMAIN disk /\ j \in 1..Len(disk[i]) BY <2>1 DEF ReplaysAt, IsLastAt
  <2>3. disk[i] \in Seq(ClientRecord) BY <1>2, <2>2 DEF ClientFiles
  <2>4. ReadAtOffset(disk, Location(disk, i, j)) =
          IF disk[i][j].op = "del" THEN NotFound ELSE disk[i][j].val
    BY <2>2, <2>3, ReadAtLocation, ClientRecordFact
  <2>5. acked[k] = Answer(disk[i][j]) BY <1>1, <2>1 DEF ReplaysAt
  <2>6. CASE k \in LiveKeys(disk)
    <3>1. k \in DOMAIN index /\ index[k] = Location(disk, i, j)
      BY <1>1, <2>1, <2>6 DEF ReplaysAt, Populate
    <3> QED BY <2>4, <2>5, <3>1 DEF GetResult, Answer
  <2>7. CASE k \notin LiveKeys(disk)
    <3>1. disk[i][j].op = "del" BY <2>1, <2>7 DEF ReplaysAt
    <3>2. k \notin DOMAIN index BY <1>1, <2>7 DEF Populate
    <3> QED BY <2>5, <3>1, <3>2 DEF GetResult, Answer
  <2> QED BY <2>6, <2>7
<1> QED BY <1>2, <1>3, <1>4, ReplayCases

\* What clients see is what was acknowledged.
LEMMA SeesAcked ==
  ASSUME SInv
  PROVE  Visible = acked
<1>1. acked \in [Key -> Value \cup {NotFound}] BY SInvTypes DEF StoreTypes
<1>2. Serving => \A k \in Key : GetResult(k) = acked[k] BY FaithfulReads DEF Serving
<1> QED BY <1>1, <1>2 DEF Visible

\* Delete is taken for keys that are present only.
LEMMA DeleteOfPresent ==
  ASSUME SInv, NEW k \in Key, Delete(k)
  PROVE  acked[k] # NotFound
<1>1. up /\ ~Committing /\ k \in DOMAIN index BY DEF Delete
<1>2. k \in LiveKeys(disk) /\ acked = Recovered(disk)
  BY <1>1 DEF SInv, Current, Faithful, Populate
<1>3. LastRecord(disk, k) \in PutRecords BY <1>2, LiveRecordFact, SInvTypes
<1>4. acked[k] \in Value BY <1>2, <1>3, PutRecordsFact DEF Recovered
<1> QED BY <1>4, SentinelAssumption

\* Every step is a step of KVStore or a stutter.
LEMMA AbstractStep ==
  ASSUME SInv, Visible = acked, Visible' = acked', [Next]_vars
  PROVE  [Abstract!Next]_<<Visible, Serving>>
<1>1. Visible = acked /\ Visible' = acked' OBVIOUS
<1>2. ASSUME NEW k \in Key, NEW v \in Value, Put(k, v) PROVE Abstract!Next
  <2>1. Serving /\ Serving' = Serving
    BY <1>2 DEF Put, Serving, Committing, compaction
  <2>2. acked' = [acked EXCEPT ![k] = v] BY <1>2 DEF Put
  <2>3. Abstract!Put(k, v) BY <1>1, <2>1, <2>2 DEF Abstract!Put
  <2> QED BY <2>3 DEF Abstract!Next
<1>3. ASSUME NEW k \in DeletableKeys, Delete(k) PROVE Abstract!Next
  <2>1. k \in Key BY StoreAssumption
  <2>2. Serving /\ Serving' = Serving
    BY <1>3 DEF Delete, Serving, Committing, compaction
  <2>3. acked' = [acked EXCEPT ![k] = NotFound] /\ acked[k] # NotFound
    BY <1>3, <2>1, DeleteOfPresent DEF Delete
  <2>4. Abstract!Delete(k) BY <1>1, <2>2, <2>3 DEF Abstract!Delete
  <2> QED BY <2>1, <2>4 DEF Abstract!Next
<1>4. ASSUME acked' = acked PROVE [Abstract!Next]_<<Visible, Serving>>
  <2>1. Visible' = Visible BY <1>1, <1>4
  <2>2. CASE Serving /\ ~Serving' BY <2>1, <2>2 DEF Abstract!Next, Abstract!Suspend, Serving
  <2>3. CASE ~Serving /\ Serving' BY <2>1, <2>3 DEF Abstract!Next, Abstract!Resume, Serving
  <2>4. CASE Serving' = Serving BY <2>1, <2>4
  <2> QED BY <2>2, <2>3, <2>4 DEF Serving
<1>5. ASSUME NEW c \in Compactors, Compact(c) PROVE acked' = acked
  BY <1>5 DEF Compact, StartCompaction, ScanFile, WriteSurvivors, BeginCommit, Rename,
              BeginRemove, PanicOnSlice, Stop, RemoveStale, Reindex, Fail
<1>6. CASE Crash \/ Restart \/ UNCHANGED vars BY <1>4, <1>6 DEF Crash, Stop, Restart, vars
<1>7. ASSUME NEW k \in Key, NEW v \in Value, CrashInRoll(k, v) PROVE acked' = acked
  BY <1>7 DEF CrashInRoll, Stop
<1> QED BY <1>2, <1>3, <1>4, <1>5, <1>6, <1>7 DEF Next

LEMMA AbstractInit == Init => Abstract!Init
<1> SUFFICES ASSUME Init PROVE Abstract!Init OBVIOUS
<1>1. Visible = [k \in Key |-> NotFound] BY InitSInv, SeesAcked DEF Init
<1>2. Serving = TRUE BY DEF Init, Serving, Committing, CommitPhases
<1> QED BY <1>1, <1>2 DEF Abstract!Init

\* Compactions that do not overlap, commits that are not cut off, outputs that
\* fit: every compaction is in a consistent stage, the ids have no gaps, and the
\* files, as they are or as a commit found them, replay to the index and to the
\* acknowledged writes (compaction.go, filestore.go processCompaction).
THEOREM SerialInvariant ==
  ASSUME Serial, Unbuffered
  PROVE  Spec /\ []OutputsReuseIds => []SInv
<1>1. Init => SInv BY InitSInv
<1>2. SInv /\ OutputsReuseIds /\ [Next]_vars => SInv' BY NextSInv
<1> QED BY <1>1, <1>2, PTL DEF Spec

\* The index is then always the one a restart would build (position.go).
THEOREM SerialIndex ==
  ASSUME Serial, Unbuffered
  PROVE  Spec /\ []OutputsReuseIds => []IndexIsReplay
<1>1. SInv => IndexIsReplay BY DEF SInv, Current, Faithful, IndexIsReplay
<1> QED BY <1>1, SerialInvariant, PTL

\* Get then always answers the last acknowledged write (filestore.go Get).
THEOREM SerialReads ==
  ASSUME Serial, Unbuffered
  PROVE  Spec /\ []OutputsReuseIds => []ReadsLatest
<1>1. SInv => ReadsLatest BY FaithfulReads DEF ReadsLatest
<1> QED BY <1>1, SerialInvariant, PTL

\* The store is then the map of KVStore: a compaction is invisible but for the
\* wait, and a restart brings back what was acknowledged (filestore.go).
THEOREM SerialImplements ==
  ASSUME Serial, Unbuffered
  PROVE  Spec /\ []OutputsReuseIds => ImplementsKVStore
<1>1. Init => Abstract!Init BY AbstractInit
<1>2. SInv => Visible = acked BY SeesAcked
<1>3. SInv /\ Visible = acked /\ (Visible = acked)' /\ [Next]_vars
        => [Abstract!Next]_<<Visible, Serving>>
  BY AbstractStep
<1>4. Spec /\ []OutputsReuseIds => []SInv BY SerialInvariant
<1> QED BY <1>1, <1>2, <1>3, <1>4, PTL DEF Spec, ImplementsKVStore, Abstract!Spec

-----------------------------------------------------------------------------
(* What a completed compaction leaves below the ids it replaced. *)

Prefix(c) == Restrict(disk, {i \in DOMAIN disk : \E m \in stale[c] : i <= m})

\* The y-th record of file x is the only one of k in the prefix, and k's survivor.
OnlyAt(c, k, x, y) ==
  /\ IsLastAt(Prefix(c), k, x, y)
  /\ Positions(Prefix(c), k) = {<<x, y>>}
  /\ Prefix(c)[x][y] = LastRecord(scanned[c], k)

NoneOrOnly(c, k) ==
  IF k \in LiveKeys(scanned[c]) THEN \E x, y : OnlyAt(c, k, x, y) ELSE NoRecordOf(Prefix(c), k)

\* A key of the prefix has the one place of its survivor, or none.
LEMMA PrefixKey ==
  ASSUME SInv, NEW c \in Compactors, NEW lo, NEW last, NEW first, Compacted(c, lo, last, first),
         NEW k \in Key
  PROVE  NoneOrOnly(c, k)
<1>1. /\ DOMAIN disk = first..active /\ Survivors(c)
      /\ stale[c] = lo..last /\ lo <= first /\ first <= last
      /\ first \in Nat /\ last \in Nat /\ active \in Nat /\ lo \in Nat
      /\ \A p \in first..last :
           /\ disk[p] = outs[c][Len(outs[c]) - (last - p)]
           /\ Len(outs[c]) - (last - p) \in 1..Len(outs[c])
  BY DEF Compacted
<1>2. /\ \A x \in DOMAIN Prefix(c) : x \in DOMAIN disk /\ x <= last /\ Prefix(c)[x] = disk[x]
      /\ \A x \in DOMAIN disk : x <= last => x \in DOMAIN Prefix(c)
  <2>1. DOMAIN Prefix(c) = {i \in DOMAIN disk : \E m \in stale[c] : i <= m}
    BY DEF Prefix, Restrict
  <2>2. \A x \in DOMAIN Prefix(c) : Prefix(c)[x] = disk[x] BY DEF Prefix, Restrict
  <2>3. last \in stale[c] /\ \A m \in stale[c] : m \in Nat /\ m <= last BY <1>1
  <2>4. \A x \in DOMAIN disk : x \in Nat BY <1>1
  <2>5. ASSUME NEW x \in DOMAIN disk, NEW m \in stale[c], x <= m PROVE x <= last
    BY <1>1, <2>3, <2>4, <2>5
  <2> QED BY <2>1, <2>2, <2>3, <2>5
<1>3. /\ \A u \in 1..Len(outs[c]) : \A y \in 1..Len(outs[c][u]) :
           /\ outs[c][u][y].key \in LiveKeys(scanned[c])
           /\ outs[c][u][y] = LastRecord(scanned[c], outs[c][u][y].key)
      /\ \A q \in LiveKeys(scanned[c]) :
           \E u \in 1..Len(outs[c]) : \E y \in 1..Len(outs[c][u]) : outs[c][u][y].key = q
  BY <1>1 DEF Survivors, SurvivorsOf, LastRecordsOnly, EveryLiveKey
<1>4. ASSUME NEW x \in DOMAIN Prefix(c), NEW y \in 1..Len(Prefix(c)[x]), Prefix(c)[x][y].key = k
      PROVE  k \in LiveKeys(scanned[c])
  <2>1. x \in first..last /\ Prefix(c)[x] = disk[x] BY <1>1, <1>2
  <2>2. PICK u \in 1..Len(outs[c]) : disk[x] = outs[c][u] BY <1>1, <2>1
  <2> QED BY <1>3, <1>4, <2>1, <2>2
<1>5. CASE k \notin LiveKeys(scanned[c])
  <2>1. NoRecordOf(Prefix(c), k) BY <1>4, <1>5 DEF NoRecordOf
  <2> QED BY <1>5, <2>1 DEF NoneOrOnly
<1>6. CASE k \in LiveKeys(scanned[c])
  <2>0. EveryLiveKey(scanned[c], outs[c]) BY <1>1 DEF Survivors, SurvivorsOf
  <2>1. PICK u \in 1..Len(outs[c]) : \E y \in 1..Len(outs[c][u]) : outs[c][u][y].key = k
    BY <1>6, <2>0 DEF EveryLiveKey
  <2>2. PICK y \in 1..Len(outs[c][u]) : outs[c][u][y].key = k BY <2>1
  <2>3a. PICK x : PlacedAt(c, last, k, u, y, x) BY <2>2, OutputPlace
  <2>3. /\ x \in DOMAIN disk /\ x <= last /\ disk[x] = outs[c][u]
        /\ \A p \in DOMAIN disk : \A q \in 1..Len(disk[p]) :
             p <= last /\ disk[p][q].key = k => p = x /\ q = y
    BY <2>3a DEF PlacedAt
  <2>4. x \in DOMAIN Prefix(c) /\ Prefix(c)[x] = outs[c][u] BY <1>2, <2>3
  <2>5. ASSUME NEW p \in DOMAIN Prefix(c), NEW q \in 1..Len(Prefix(c)[p]),
               Prefix(c)[p][q].key = k
        PROVE  p = x /\ q = y
    BY <1>2, <2>3, <2>5
  <2>6. y <= y
    <3>1. Len(outs[c][u]) \in Nat BY SInvTypes
    <3> QED BY <2>2, <3>1
  <2>7. IsLastAt(Prefix(c), k, x, y) BY <2>2, <2>4, <2>5, <2>6 DEF IsLastAt
  <2>8. Positions(Prefix(c), k) = {<<x, y>>}
    <3>1. <<x, y>> \in Positions(Prefix(c), k) BY <2>2, <2>4, PositionsFact
    <3>2. ASSUME NEW p \in Positions(Prefix(c), k) PROVE p = <<x, y>>
      BY <2>5, PositionsFact
    <3> QED BY <3>1, <3>2
  <2>9. Prefix(c)[x][y] = LastRecord(scanned[c], k) BY <1>3, <2>2, <2>4
  <2>10. OnlyAt(c, k, x, y) BY <2>7, <2>8, <2>9 DEF OnlyAt
  <2> QED BY <1>6, <2>10 DEF NoneOrOnly
<1> QED BY <1>5, <1>6

\* A compacted prefix has at most one record of a key, no tombstone, and answers as
\* what was scanned.
LEMMA PrefixFact ==
  ASSUME SInv, NEW c \in Compactors, NEW lo, NEW last, NEW first, Compacted(c, lo, last, first)
  PROVE  /\ \A k \in Key : Cardinality(Positions(Prefix(c), k)) <= 1
         /\ \A i \in DOMAIN Prefix(c) : \A j \in 1..Len(Prefix(c)[i]) : Prefix(c)[i][j].op # "del"
         /\ Recovered(Prefix(c)) = Recovered(scanned[c])
<1>0. \A k \in Key : NoneOrOnly(c, k) BY PrefixKey
<1>1. ASSUME NEW k \in Key PROVE Cardinality(Positions(Prefix(c), k)) <= 1
  <2>1. CASE NoRecordOf(Prefix(c), k)
    <3>1. Positions(Prefix(c), k) = {} BY <2>1, PositionsFact DEF NoRecordOf
    <3>2. Cardinality({}) = 0 BY FS_EmptySet
    <3> QED BY <3>1, <3>2
  <2>2. CASE \E x, y : Positions(Prefix(c), k) = {<<x, y>>}
    <3>1. PICK p : Positions(Prefix(c), k) = {p} BY <2>2
    <3>2. Cardinality({p}) = 1 BY FS_Singleton
    <3> QED BY <3>1, <3>2
  <2> QED BY <1>0, <2>1, <2>2 DEF NoneOrOnly, OnlyAt
<1>2. AreFiles(scanned[c], DiskRecord) BY SInvTypes
<1>3. DOMAIN scanned[c] \subseteq Nat BY <1>2 DEF AreFiles
<1>4. DOMAIN Prefix(c) \subseteq Nat
  BY SInvTypes DEF Prefix, Restrict, AreFiles
<1>5. ASSUME NEW k \in Key, NoRecordOf(scanned[c], k) PROVE NoRecordOf(Prefix(c), k)
  <2>1. k \notin LiveKeys(scanned[c]) BY <1>5, ReplayNone
  <2> QED BY <1>0, <2>1 DEF NoneOrOnly
<1>6. ASSUME NEW k \in Key, NEW i, NEW j, IsLastAt(scanned[c], k, i, j)
      PROVE  \/ NoRecordOf(Prefix(c), k) /\ scanned[c][i][j].op = "del"
             \/ \E x, y : /\ IsLastAt(Prefix(c), k, x, y)
                          /\ Answer(Prefix(c)[x][y]) = Answer(scanned[c][i][j])
  <2>1. LastPosition(scanned[c], k) = <<i, j>> BY <1>3, <1>6, LastAtUnique
  <2>2. LastRecord(scanned[c], k) = scanned[c][i][j] BY <2>1 DEF LastRecord
  <2>3. k \in LiveKeys(scanned[c]) <=> scanned[c][i][j].op # "del"
    BY <1>3, <1>6, LastAtFact
  <2>4. CASE scanned[c][i][j].op = "del" BY <1>0, <2>3, <2>4 DEF NoneOrOnly
  <2>5. CASE scanned[c][i][j].op # "del"
    <3>1. PICK x, y : OnlyAt(c, k, x, y) BY <1>0, <2>3, <2>5 DEF NoneOrOnly
    <3> QED BY <2>2, <3>1 DEF OnlyAt
  <2> QED BY <2>4, <2>5
<1>7. Recovered(Prefix(c)) = Recovered(scanned[c])
  BY <1>2, <1>4, <1>5, <1>6, SameAnswers
<1>8. ASSUME NEW i \in DOMAIN Prefix(c), NEW j \in 1..Len(Prefix(c)[i])
      PROVE  Prefix(c)[i][j].op # "del"
  <2>1. /\ DOMAIN disk = first..active /\ stale[c] = lo..last
        /\ first \in Nat /\ last \in Nat /\ active \in Nat /\ lo \in Nat
        /\ \A p \in first..last :
             /\ disk[p] = outs[c][Len(outs[c]) - (last - p)]
             /\ Len(outs[c]) - (last - p) \in 1..Len(outs[c])
    BY DEF Compacted
  <2>2. i \in DOMAIN disk /\ (\E m \in stale[c] : i <= m) /\ Prefix(c)[i] = disk[i]
    BY <1>8 DEF Prefix, Restrict
  <2>3. i \in first..last BY <2>1, <2>2
  <2>4. PICK u \in 1..Len(outs[c]) : Prefix(c)[i] = outs[c][u] BY <2>1, <2>2, <2>3
  <2>5. outs[c] \in Seq(Seq(PutRecords)) BY SInvTypes
  <2>6. outs[c][u] \in Seq(PutRecords) BY <2>5
  <2>7. Prefix(c)[i][j] \in PutRecords BY <1>8, <2>4, <2>6
  <2> QED BY <2>7, PutRecordsFact
<1> QED BY <1>1, <1>7, <1>8

\* The step that completes a compaction changes no file and finds the outputs in place.
LEMMA CompletionStep ==
  ASSUME Serial, SInv, OutputsReuseIds, [Next]_vars, NEW c \in Compactors,
         pc[c] = "remove", todo[c] = {}, up', pc'[c] = "idle"
  PROVE  UNCHANGED disk /\ \E lo, last, first : Compacted(c, lo, last, first)
<1>1. \E lo, last, first : Compacted(c, lo, last, first) BY CompactedFiles
<1>2. \A d \in Compactors : d = c BY DEF Serial
<1>3. CASE Compact(c)
  <2>1. UNCHANGED disk
    BY <1>3 DEF Compact, StartCompaction, ScanFile, WriteSurvivors, BeginCommit, Rename,
                BeginRemove, PanicOnSlice, RemoveStale, Reindex, Fail
  <2> QED BY <1>1, <2>1
<1>4. CASE UNCHANGED disk BY <1>1, <1>4
<1>5. CASE UNCHANGED compaction BY <1>5 DEF compaction
<1>6. CASE Crash \/ Restart \/ \E k \in Key, v \in Value : CrashInRoll(k, v)
  <2>1. CASE Crash BY <2>1 DEF Crash, Stop
  <2>2. CASE Restart BY <2>2 DEF Restart, compaction
  <2>3. CASE \E k \in Key, v \in Value : CrashInRoll(k, v) BY <2>3 DEF CrashInRoll, Stop
  <2> QED BY <1>6, <2>1, <2>2, <2>3
<1> QED BY <1>1, <1>2, <1>3, <1>4, <1>5, <1>6 DEF Next, Put, Delete, vars

\* A compaction that completes leaves one record for each surviving key and no
\* tombstone, and the replay of the prefix is what the replay of the replaced files was
\* (compaction.go's result against filestore.go's installation of it).
THEOREM SerialPrefix ==
  ASSUME Serial, Unbuffered
  PROVE  Spec /\ []OutputsReuseIds => CompactedPrefix
<1> DEFINE A == \A c \in Compactors :
                  pc[c] = "remove" /\ todo[c] = {} /\ up' /\ pc'[c] = "idle" =>
                    LET prefix == Restrict(disk', {i \in DOMAIN disk' :
                                                     \E m \in stale[c] : i <= m})
                    IN  /\ \A k \in Key : Cardinality(Positions(prefix, k)) <= 1
                        /\ \A i \in DOMAIN prefix :
                             \A j \in 1..Len(prefix[i]) : prefix[i][j].op # "del"
                        /\ Recovered(prefix) = Recovered(scanned[c])
<1>1. SInv /\ OutputsReuseIds /\ [Next]_vars => A
  <2> SUFFICES ASSUME SInv, OutputsReuseIds, [Next]_vars, NEW c \in Compactors,
                      pc[c] = "remove", todo[c] = {}, up', pc'[c] = "idle"
               PROVE  LET prefix == Restrict(disk', {i \in DOMAIN disk' :
                                                       \E m \in stale[c] : i <= m})
                      IN  /\ \A k \in Key : Cardinality(Positions(prefix, k)) <= 1
                          /\ \A i \in DOMAIN prefix :
                               \A j \in 1..Len(prefix[i]) : prefix[i][j].op # "del"
                          /\ Recovered(prefix) = Recovered(scanned[c])
    OBVIOUS
  <2>1. UNCHANGED disk /\ \E lo, last, first : Compacted(c, lo, last, first)
    BY CompletionStep
  <2>2. /\ \A k \in Key : Cardinality(Positions(Prefix(c), k)) <= 1
        /\ \A i \in DOMAIN Prefix(c) : \A j \in 1..Len(Prefix(c)[i]) : Prefix(c)[i][j].op # "del"
        /\ Recovered(Prefix(c)) = Recovered(scanned[c])
    BY <2>1, PrefixFact
  <2> QED BY <2>1, <2>2 DEF Prefix
<1>2. Spec /\ []OutputsReuseIds => []SInv BY SerialInvariant
<1> QED BY <1>1, <1>2, PTL DEF Spec, CompactedPrefix

-----------------------------------------------------------------------------
(* With puts of one size the outputs fit, and nothing is left to assume. *)

\* Puts of one size: the index is always the one a restart would build.
THEOREM OneSizeIndex ==
  ASSUME Serial, Unbuffered, SameSizes
  PROVE  Spec => []IndexIsReplay
BY SerialIndex, OutputsFitIds, PTL

\* Puts of one size: Get always answers the last acknowledged write.
THEOREM OneSizeReads ==
  ASSUME Serial, Unbuffered, SameSizes
  PROVE  Spec => []ReadsLatest
BY SerialReads, OutputsFitIds, PTL

\* Puts of one size: the store implements KVStore.
THEOREM OneSizeImplements ==
  ASSUME Serial, Unbuffered, SameSizes
  PROVE  Spec => ImplementsKVStore
BY SerialImplements, OutputsFitIds, PTL

\* Puts of one size: a completed compaction leaves the prefix compacted, without
\* tombstones, and its replay unchanged.
THEOREM OneSizePrefix ==
  ASSUME Serial, Unbuffered, SameSizes
  PROVE  Spec => CompactedPrefix
BY SerialPrefix, OutputsFitIds, PTL

-----------------------------------------------------------------------------
(* Commits that are cut off: what a single output of puts cannot lose. *)

OneCompactor == \A c, d \in Compactors : c = d

\* A compaction's survivors always fit into one output.
OneOutput ==
  /\ IsFiniteSet(Key)
  /\ \E m \in Nat : /\ \A v \in Value : SizeOf[v] <= m
                    /\ (Cardinality(Key) - 1) * m <= CompactorSegmentSize

PutFiles(files) == files \in [DOMAIN files -> Seq(PutRecords)]

\* The list is all files up to last; what was scanned is still in them, or the
\* output is in place at last and whatever is left below was scanned.
LosslessAt(c, last) ==
  /\ IsLast(stale[c], last)
  /\ \A i \in DOMAIN disk : i <= last => i \in stale[c]
  /\ DOMAIN scanned[c] = IF pc[c] = "scan" THEN stale[c] \ todo[c] ELSE stale[c]
  /\ pc[c] \in {"waiting", "rename", "remove"} => Survivors(c) /\ Len(outs[c]) = 1
  /\ pc[c] \in {"scan", "write", "waiting"} => renamed[c] = 0
  /\ pc[c] = "remove" => renamed[c] = 1 /\ last \notin todo[c]
  /\ \/ /\ renamed[c] = 0
        /\ \A i \in DOMAIN scanned[c] : i \in DOMAIN disk /\ disk[i] = scanned[c][i]
     \/ /\ renamed[c] = 1
        /\ last \in DOMAIN disk /\ disk[last] = outs[c][1]
        /\ \A i \in DOMAIN disk : i < last => disk[i] = scanned[c][i]

LosslessStages ==
  \A c \in Compactors :
    IF pc[c] = "idle" THEN renamed[c] = 0 ELSE \E last : LosslessAt(c, last)

PutsOnly == PutFiles(disk) /\ \A c \in Compactors : PutFiles(scanned[c])

LInv == CInv /\ PutsOnly /\ LosslessStages /\ CrashLosesNothing

\* What the proofs below use of the types.
LEMMA LInvTypes ==
  ASSUME CInv
  PROVE  /\ TypeOK /\ StoreTypes /\ CompactionTypes /\ Bookkeeping /\ NewestIsActive
         /\ active \in Nat \ {0} /\ AreFiles(disk, DiskRecord) /\ ClientFiles(disk)
         /\ \A c \in Compactors :
              /\ ClientFiles(scanned[c]) /\ AreFiles(scanned[c], DiskRecord)
              /\ IsFiniteSet(DOMAIN scanned[c])
              /\ outs[c] \in Seq(Seq(PutRecords)) /\ renamed[c] \in Nat
              /\ todo[c] \subseteq stale[c] /\ stale[c] \subseteq Nat \ {0}
              /\ \A i \in stale[c] : i + 1 < active
<1>1. /\ TypeOK /\ StoreTypes /\ CompactionTypes /\ Bookkeeping /\ NewestIsActive /\ IInv
      /\ ContentTypes /\ ClientContent /\ active \in Nat \ {0}
  BY DEF CInv, RInv, IInv, TypeOK, StoreTypes
<1>2. AreFiles(disk, DiskRecord) BY <1>1, DiskAreFiles DEF ContentTypes
<1>3. \A c \in Compactors : AreFiles(scanned[c], DiskRecord) /\ IsFiniteSet(DOMAIN scanned[c])
  BY <1>1, ScannedAreFiles
<1>4. \A c \in Compactors : \A i \in stale[c] : i + 1 < active
  BY <1>1 DEF IInv, SealedSegmentsOnly
<1> QED BY <1>1, <1>2, <1>3, <1>4 DEF ClientContent, CompactionTypes, Bookkeeping

\* Every key of files of puts is live.
LEMMA PutsLive ==
  ASSUME NEW files, AreFiles(files, DiskRecord), PutFiles(files), NEW k \in Key,
         NEW i \in DOMAIN files, NEW j \in 1..Len(files[i]), files[i][j].key = k
  PROVE  k \in LiveKeys(files)
<1>1. Positions(files, k) # {} BY PositionsFact
<1>2. PICK x, y : IsLastAt(files, k, x, y) BY <1>1, LastAtExists
<1>3. files[x][y] \in PutRecords BY <1>2 DEF IsLastAt, PutFiles
<1>4. files[x][y].op # "del" BY <1>3, PutRecordsFact
<1> QED BY <1>2, <1>4, LastAtFact DEF AreFiles

\* A file of n puts has at most n times the bytes of the largest.
LEMMA FileSizeBound ==
  ASSUME NEW file \in Seq(PutRecords), NEW m \in Nat, \A v \in Value : SizeOf[v] <= m
  PROVE  FileSize(file) <= Len(file) * m
<1> DEFINE N == Len(file)
           T == {n \in Nat : n <= N => Offset(file, n + 1) <= n * m}
<1>1. N \in Nat OBVIOUS
<1>2. \A r \in PutRecords : r.size \in Nat /\ r.size <= m
  BY PutRecordsFact DEF PutRecords, PutRecord
<1>3. /\ \A j \in 1..N + 1 : Offset(file, j) \in Nat
      /\ Offset(file, 1) = 0
      /\ \A j \in 1..N : Offset(file, j + 1) = Offset(file, j) + file[j].size
  BY <1>2, OffsetFact
<1>4. 0 \in T
  <2>1. 0 * m = 0 OBVIOUS
  <2> QED BY <1>3, <2>1
<1>5. ASSUME NEW n \in Nat, n \in T PROVE n + 1 \in T
  <2>1. SUFFICES ASSUME n + 1 <= N PROVE Offset(file, n + 1 + 1) <= (n + 1) * m
    OBVIOUS
  <2>2. n + 1 \in 1..N /\ n <= N /\ n + 1 \in 1..N + 1 BY <1>1, <2>1
  <2>3. file[n + 1].size \in Nat /\ file[n + 1].size <= m BY <1>2, <2>2
  <2>4. Offset(file, n + 1 + 1) = Offset(file, n + 1) + file[n + 1].size BY <1>3, <2>2
  <2>5. Offset(file, n + 1) <= n * m /\ Offset(file, n + 1) \in Nat BY <1>3, <1>5, <2>2
  <2> DEFINE a == n * m
  <2>6. (n + 1) * m = a + m /\ a \in Nat OBVIOUS
  <2>7. Offset(file, n + 1) <= a BY <2>5
  <2> DEFINE o == Offset(file, n + 1)
             z == file[n + 1].size
  <2>8. o \in Nat /\ o <= a /\ z \in Nat /\ z <= m BY <2>3, <2>5, <2>7
  <2> HIDE DEF a, o, z
  <2>9. o + z <= a + m BY <2>6, <2>8
  <2> QED BY <2>4, <2>6, <2>9 DEF o, z
<1>6. N \in T
  <2> HIDE DEF T
  <2> QED BY <1>1, <1>4, <1>5, SetInduction
<1> QED BY <1>6 DEF FileSize

\* Records that fit into one output but for the last are packed into one.
LEMMA PackOne ==
  ASSUME NEW records \in Seq(PutRecords), NEW m \in Nat, \A v \in Value : SizeOf[v] <= m,
         (Len(records) - 1) * m <= CompactorSegmentSize
  PROVE  Len(Pack(records, CompactorSegmentSize)) = 1
<1> DEFINE N == Len(records)
           C == CompactorSegmentSize
<1>1. PICK packed : PacksBy(packed, records, C, PutRecords) BY PackSteps
<1>2. /\ packed[0] = << <<>> >> /\ Pack(records, C) = packed[N]
      /\ \A i \in 0..N : packed[i] \in Seq(Seq(PutRecords)) \ {<<>>}
      /\ \A i \in 1..N : packed[i] = PackMore(packed[i - 1], records[i], C)
  BY <1>1 DEF PacksBy
<1>3. N \in Nat /\ C \in Nat /\ \A i \in 1..N : records[i] \in PutRecords BY StoreAssumption
<1> DEFINE T == {n \in Nat : n <= N => Len(packed[n]) = 1 /\ Len(packed[n][1]) = n}
<1>4. 0 \in T
  <2>1. Len(<< <<>> >>) = 1 /\ Len(<< <<>> >>[1]) = 0 OBVIOUS
  <2> QED BY <1>2, <2>1
<1>5. ASSUME NEW n \in Nat, n \in T PROVE n + 1 \in T
  <2>1. SUFFICES ASSUME n + 1 <= N
                 PROVE  Len(packed[n + 1]) = 1 /\ Len(packed[n + 1][1]) = n + 1
    OBVIOUS
  <2> DEFINE files == packed[n]
             r == records[n + 1]
  <2>2. n + 1 \in 1..N /\ n \in 0..N /\ n <= N /\ n + 1 - 1 = n /\ n <= N - 1 /\ N - 1 \in Nat
    BY <1>3, <2>1
  <2>3. packed[n + 1] = PackMore(files, r, C) BY <1>2, <2>2
  <2>4. files \in Seq(Seq(PutRecords)) /\ r \in PutRecords BY <1>2, <1>3, <2>2
  <2>5. Len(files) = 1 /\ Len(files[1]) = n BY <1>5, <2>2
  <2>6. files[1] \in Seq(PutRecords) /\ Last(files) = files[1] BY <2>4, <2>5 DEF Last
  <2>7. ~(FileSize(Last(files)) > C)
    <3>1. FileSize(files[1]) <= n * m BY <2>5, <2>6, FileSizeBound
    <3>2. n * m <= (N - 1) * m /\ n * m \in Nat /\ (N - 1) * m \in Nat BY <2>2, TimesMonotone
    <3>3. (N - 1) * m <= C OBVIOUS
    <3>4. FileSize(files[1]) \in Nat
      <4>1. \A x \in PutRecords : x.size \in Nat BY PutRecordsFact
      <4>2. Len(files[1]) + 1 \in 1..Len(files[1]) + 1 BY <2>5
      <4> QED BY <2>6, <4>1, <4>2, OffsetFact DEF FileSize
    <3> DEFINE a == n * m
               b == (N - 1) * m
    <3>5. FileSize(files[1]) <= a /\ a <= b /\ b <= C /\ a \in Nat /\ b \in Nat
      BY <3>1, <3>2, <3>3
    <3> HIDE DEF a, b, C, files
    <3> QED BY <1>3, <2>6, <3>4, <3>5
  <2> HIDE DEF files, r, C
  <2>8. packed[n + 1] = [files EXCEPT ![1] = Append(files[1], r)]
    BY <2>3, <2>5, <2>7 DEF PackMore
  <2> QED BY <2>4, <2>5, <2>6, <2>8
<1>6. N \in T
  <2> HIDE DEF T
  <2> QED BY <1>3, <1>4, <1>5, SetInduction
<1> QED BY <1>2, <1>6

\* Survivors of files of puts under this bound are in one output.
LEMMA SurvivorsInOne ==
  ASSUME OneOutput, NEW files, AreFiles(files, DiskRecord), ClientFiles(files),
         IsFiniteSet(DOMAIN files), LiveKeys(files) # {},
         NEW order \in SetToSeqs(LiveKeys(files))
  PROVE  Len(Pack([j \in DOMAIN order |-> Rewritten(LastRecord(files, order[j]))],
                  CompactorSegmentSize)) = 1
<1> DEFINE records == [j \in DOMAIN order |-> Rewritten(LastRecord(files, order[j]))]
<1>1. records \in Seq(PutRecords) BY SurvivorsArePuts
<1>2. Len(records) = Len(order) BY SurvivorsFact
<1>3. LiveKeys(files) \in SUBSET Key BY DEF LiveKeys
<1>4. IsFiniteSet(LiveKeys(files)) /\ Cardinality(LiveKeys(files)) <= Cardinality(Key)
  BY <1>3, FS_Subset DEF OneOutput
<1>5. /\ Len(order) = Cardinality(LiveKeys(files)) /\ Cardinality(LiveKeys(files)) \in Nat
      /\ Cardinality(Key) \in Nat
  BY <1>4, SetToSeqsFact, FS_CardinalityType DEF OneOutput
<1>6. Cardinality(LiveKeys(files)) # 0 BY <1>4, FS_EmptySet
<1> HIDE DEF records
<1>7. PICK m \in Nat : /\ \A v \in Value : SizeOf[v] <= m
                       /\ (Cardinality(Key) - 1) * m <= CompactorSegmentSize
  BY DEF OneOutput
<1>8. (Len(records) - 1) * m <= CompactorSegmentSize
  <2> DEFINE a == Len(records) - 1
             b == Cardinality(Key) - 1
  <2>1. a \in Nat /\ b \in Nat /\ a <= b BY <1>2, <1>4, <1>5, <1>6
  <2>2. b * m <= CompactorSegmentSize BY <1>7
  <2> HIDE DEF a, b
  <2>3. a * m <= b * m /\ a * m \in Nat /\ b * m \in Nat BY <2>1, TimesMonotone
  <2> DEFINE am == a * m
             bm == b * m
  <2>4. am <= bm /\ bm <= CompactorSegmentSize /\ am \in Nat /\ bm \in Nat BY <2>2, <2>3
  <2> HIDE DEF am, bm
  <2>5. am <= CompactorSegmentSize BY <2>4, StoreAssumption
  <2> QED BY <2>5 DEF am, a
<1> QED BY <1>1, <1>7, <1>8, PackOne DEF records

\* Steps that leave the files and what was acknowledged.
LEMMA LosslessQuiet ==
  ASSUME OneCompactor, LInv, CInv', UNCHANGED <<disk, acked>>, NEW c \in Compactors,
         PutFiles(scanned[c]'),
         IF pc'[c] = "idle" THEN renamed'[c] = 0 ELSE \E last : LosslessAt(c, last)'
  PROVE  LInv'
<1>1. \A d \in Compactors : d = c BY DEF OneCompactor
<1>2. PutsOnly' BY <1>1 DEF LInv, PutsOnly, PutFiles
<1>3. LosslessStages' BY <1>1 DEF LosslessStages
<1>4. CrashLosesNothing' BY DEF LInv, CrashLosesNothing, Recovered
<1> QED BY <1>2, <1>3, <1>4 DEF LInv

\* A compaction that ends or gives up without touching a file keeps the invariant.
LEMMA LosslessForget ==
  ASSUME OneCompactor, LInv, CInv', UNCHANGED <<disk, acked>>, NEW c \in Compactors, Forget(c)
  PROVE  LInv'
<1>1. pc'[c] = "idle" /\ renamed'[c] = 0 /\ scanned'[c] = [i \in {} |-> <<>>]
  BY LInvTypes DEF LInv, Forget, CompactionTypes
<1>2. PutFiles(scanned'[c]) BY <1>1 DEF PutFiles
<1> QED BY <1>1, <1>2, LosslessQuiet

\* So does a kill, if the files answer the same.
LEMMA LosslessStop ==
  ASSUME LInv, CInv', Stop, PutFiles(disk'), Recovered(disk') = Recovered(disk)
  PROVE  LInv'
<1>1. PutsOnly' BY DEF Stop, PutsOnly, PutFiles
<1>2. LosslessStages' BY DEF Stop, LosslessStages
<1>3. CrashLosesNothing' BY DEF Stop, LInv, CrashLosesNothing
<1> QED BY <1>1, <1>2, <1>3 DEF LInv

LEMMA LosslessPut ==
  ASSUME OneCompactor, LInv, CInv', NEW k \in Key, NEW v \in Value, Put(k, v)
  PROVE  LInv'
<1> DEFINE r == PutRecord(k, v)
<1>1. r \in ClientRecord /\ r \in PutRecords /\ r.key = k /\ Answer(r) = v
  BY DEF ClientRecord, PutRecords, PutRecord, Answer
<1> HIDE DEF r
<1>2. AppendRecord(r) /\ UNCHANGED compaction /\ ~Committing /\ acked' = [acked EXCEPT ![k] = v]
  BY DEF Put, r
<1>3. /\ TypeOK /\ NewestIsActive /\ active \in Nat \ {0} /\ AreFiles(disk, DiskRecord)
      /\ CompactionTypes /\ active \in DOMAIN disk
  BY LInvTypes DEF LInv, NewestIsActive
<1>4. RecordAdded(disk, disk', active', r) BY <1>1, <1>2, AppendRecordAdds DEF LInv, CInv, RInv
<1>5. AreFiles(disk', DiskRecord) /\ active' \in Nat
  <2>1. TypeOK' /\ NewestIsActive' /\ ContentTypes' BY DEF CInv, RInv, IInv
  <2>2. DOMAIN disk' \subseteq Nat /\ active' \in Nat BY <2>1 DEF TypeOK, StoreTypes
  <2>3. \A i \in DOMAIN disk' : i <= active' /\ disk'[i] \in Seq(DiskRecord)
    BY <2>1 DEF NewestIsActive, ContentTypes
  <2> QED BY <2>2, <2>3 DEF AreFiles
<1>6. CrashLosesNothing'
  <2>1. ReplayAdds(disk, disk', active', r) BY <1>1, <1>3, <1>4, <1>5, ReplayAdd
  <2>2. Recovered(disk') = [Recovered(disk) EXCEPT ![k] = v] BY <1>1, <2>1 DEF ReplayAdds
  <2>3. Recovered(disk') = acked' BY <1>2, <2>2 DEF LInv, CrashLosesNothing
  <2> QED BY <2>3 DEF CrashLosesNothing
<1>7. /\ \A i \in DOMAIN disk : i \in DOMAIN disk' /\ (i < active => disk'[i] = disk[i])
      /\ \A i \in DOMAIN disk' : i \in DOMAIN disk \/ i = active + 1
  BY <1>2, <1>3 DEF AppendRecord, WithFile
<1>8. PutFiles(disk')
  <2>1. PutFiles(disk) BY DEF LInv, PutsOnly
  <2>2. disk[active] \in Seq(PutRecords) BY <1>3, <2>1 DEF PutFiles
  <2>3. Append(disk[active], r) \in Seq(PutRecords) /\ <<r>> \in Seq(PutRecords) BY <1>1, <2>2
  <2> QED BY <1>2, <2>1, <2>3 DEF AppendRecord, WithFile, PutFiles
<1>9. PutsOnly' BY <1>2, <1>8 DEF LInv, PutsOnly, PutFiles, compaction
<1>10. ASSUME NEW c \in Compactors, NEW last, LosslessAt(c, last) PROVE LosslessAt(c, last)'
  <2>1. last \in stale[c] /\ last + 1 < active /\ last \in Nat /\ stale[c] \subseteq Nat
        /\ \A i \in stale[c] : i + 1 < active
    BY <1>10, LInvTypes DEF LosslessAt, IsLast, LInv
  <2>2. \A i \in stale[c] : i < active BY <1>3, <2>1
  <2>3. \A i \in DOMAIN disk' : i <= last => i \in DOMAIN disk BY <1>3, <1>7, <2>1
  <2>4. DOMAIN scanned[c] \subseteq stale[c] BY <1>10 DEF LosslessAt
  <2>5. Survivors(c) => Survivors(c)' BY <1>2 DEF Survivors, compaction
  <2>6. \A i \in DOMAIN disk' : i <= last => i \in stale[c] BY <1>10, <2>3 DEF LosslessAt
  <2>7. (\A i \in DOMAIN scanned[c] : i \in DOMAIN disk /\ disk[i] = scanned[c][i])
          => \A i \in DOMAIN scanned[c] : i \in DOMAIN disk' /\ disk'[i] = scanned[c][i]
    BY <1>7, <2>2, <2>4
  <2>8. last \in DOMAIN disk /\ disk[last] = outs[c][1]
          => last \in DOMAIN disk' /\ disk'[last] = outs[c][1]
    BY <1>7, <2>1, <2>2
  <2>9. (\A i \in DOMAIN disk : i < last => disk[i] = scanned[c][i])
          => \A i \in DOMAIN disk' : i < last => disk'[i] = scanned[c][i]
    <3>1. \A i \in DOMAIN disk' : i < last => i \in DOMAIN disk /\ i < active
      <4> TAKE i \in DOMAIN disk'
      <4>1. i \in Nat BY <1>5 DEF AreFiles
      <4> QED BY <1>3, <2>1, <2>3, <4>1
    <3> QED BY <1>7, <3>1
  <2> QED BY <1>2, <1>10, <2>5, <2>6, <2>7, <2>8, <2>9 DEF LosslessAt, compaction
<1>11. LosslessStages' BY <1>2, <1>10 DEF LInv, LosslessStages, compaction
<1> QED BY <1>6, <1>9, <1>11 DEF LInv

LEMMA LosslessCrashInRoll ==
  ASSUME LInv, CInv', NEW k \in Key, NEW v \in Value, CrashInRoll(k, v)
  PROVE  LInv'
<1>1. /\ active \in Nat \ {0} /\ AreFiles(disk, DiskRecord) /\ NewestIsActive
  BY LInvTypes DEF LInv
<1>2. /\ DOMAIN disk' = DOMAIN disk \cup {active + 1} /\ disk'[active + 1] = <<>>
      /\ \A i \in DOMAIN disk : i # active + 1 /\ disk'[i] = disk[i]
      /\ Stop
  BY <1>1 DEF CrashInRoll, WithFile, NewestIsActive, AreFiles
<1>3. <<>> \in Seq(PutRecords) /\ Len(<<>>) = 0 /\ \A j \in 1..0 : FALSE OBVIOUS
<1>4. PutFiles(disk')
  <2>1. PutFiles(disk) BY DEF LInv, PutsOnly
  <2> QED BY <1>3, <2>1 DEF CrashInRoll, WithFile, PutFiles
<1>5. \A i \in DOMAIN disk' : \A j \in 1..Len(disk'[i]) :
        i \in DOMAIN disk /\ disk'[i] = disk[i]
  BY <1>2, <1>3
<1>6. \A q \in Key : NoRecordOf(disk, q) => NoRecordOf(disk', q) BY <1>5 DEF NoRecordOf
<1>7. \A q \in Key : \A i, j : IsLastAt(disk, q, i, j) =>
        IsLastAt(disk', q, i, j) /\ Answer(disk'[i][j]) = Answer(disk[i][j])
  BY <1>2, <1>5 DEF IsLastAt
<1>8. Recovered(disk') = Recovered(disk)
  <2>1. DOMAIN disk' \subseteq Nat BY <1>1, <1>2 DEF AreFiles
  <2> QED BY <1>1, <1>6, <1>7, <2>1, SameAnswers
<1> QED BY <1>2, <1>4, <1>8, LosslessStop


LEMMA LosslessStart ==
  ASSUME OneCompactor, LInv, CInv', NEW c \in Compactors, StartCompaction(c)
  PROVE  LInv'
<1> DEFINE older == StaleSegments(disk, StaleSegmentThreshold)
<1>1. /\ CompactionTypes /\ Bookkeeping /\ AreFiles(disk, DiskRecord) /\ active \in Nat
      /\ NewestIsActive
  BY LInvTypes DEF LInv
<1>2. /\ pc'[c] = "scan" /\ stale'[c] = older /\ todo'[c] = older /\ older # {}
      /\ UNCHANGED <<disk, acked, scanned, outs, renamed>> /\ pc[c] = "idle"
  BY <1>1 DEF StartCompaction, CompactionTypes
<1>3. older = {i \in DOMAIN disk : \E x, y \in DOMAIN disk : i < x /\ x < y}
  BY <1>2 DEF StaleSegments
<1>4. DOMAIN disk \subseteq Nat /\ \A i \in DOMAIN disk : i <= active
  BY <1>1 DEF AreFiles, NewestIsActive
<1>5. PICK last \in older : \A i \in older : i <= last
  <2>1. older \in SUBSET Nat /\ older # {} /\ \A i \in older : i <= active
    BY <1>2, <1>3, <1>4
  <2> HIDE DEF older
  <2> QED BY <1>1, <2>1, GreatestElement
<1>6. \A i \in DOMAIN disk : i <= last => i \in older
  <2> TAKE i \in DOMAIN disk
  <2>1. PICK x, y \in DOMAIN disk : last < x /\ x < y BY <1>3, <1>5
  <2>2. last \in Nat /\ i \in Nat /\ x \in Nat BY <1>3, <1>4, <1>5
  <2>3. i <= last => i < x BY <2>1, <2>2
  <2> QED BY <1>3, <2>1, <2>3
<1> HIDE DEF older
<1>7. scanned[c] = [i \in {} |-> <<>>] \/ DOMAIN scanned[c] = {}
  <2>1. DOMAIN scanned[c] \subseteq stale[c] BY DEF LInv, CInv, RInv, ContentTypes
  <2>2. stale[c] = {} BY <1>1, <1>2 DEF Bookkeeping
  <2> QED BY <2>1, <2>2
<1>8. DOMAIN scanned[c] = {} BY <1>7
<1>9. renamed[c] = 0 BY <1>2 DEF LInv, LosslessStages
<1>10. LosslessAt(c, last)'
  BY <1>2, <1>5, <1>6, <1>8, <1>9 DEF LosslessAt, IsLast
<1>11. PutFiles(scanned'[c]) BY <1>2 DEF LInv, PutsOnly, PutFiles
<1> QED BY <1>2, <1>10, <1>11, LosslessQuiet

LEMMA LosslessScan ==
  ASSUME OneCompactor, LInv, CInv', NEW c \in Compactors, ScanFile(c)
  PROVE  LInv'
<1>0. UNCHANGED <<disk, acked>> /\ pc[c] = "scan" /\ CompactionTypes
  BY LInvTypes DEF LInv, ScanFile
<1>1. CASE Forget(c) BY <1>0, <1>1, LosslessForget
<1>2. CASE \E i \in todo[c] :
             /\ i \in DOMAIN disk
             /\ scanned' = [scanned EXCEPT ![c] = WithFile(@, i, disk[i])]
             /\ todo' = [todo EXCEPT ![c] = @ \ {i}]
             /\ pc' = [pc EXCEPT ![c] = IF todo[c] = {i} THEN "write" ELSE "scan"]
             /\ UNCHANGED <<stale, outs, renamed>>
  <2>1. PICK i \in todo[c] :
             /\ i \in DOMAIN disk
             /\ scanned'[c] = WithFile(scanned[c], i, disk[i])
             /\ todo'[c] = todo[c] \ {i}
             /\ pc'[c] = IF todo[c] = {i} THEN "write" ELSE "scan"
             /\ UNCHANGED <<stale, outs, renamed>>
    BY <1>0, <1>2 DEF CompactionTypes
  <2>2. PICK last : LosslessAt(c, last) BY <1>0 DEF LInv, LosslessStages
  <2>3. i \in stale[c] /\ todo[c] \subseteq stale[c] BY LInvTypes DEF LInv
  <2>4. /\ DOMAIN scanned[c] = stale[c] \ todo[c] /\ renamed[c] = 0
        /\ \A x \in DOMAIN scanned[c] : x \in DOMAIN disk /\ disk[x] = scanned[c][x]
    BY <1>0, <2>2 DEF LosslessAt
  <2>5. /\ DOMAIN scanned'[c] = DOMAIN scanned[c] \cup {i} /\ scanned'[c][i] = disk[i]
        /\ \A x \in DOMAIN scanned[c] : x # i => scanned'[c][x] = scanned[c][x]
    BY <2>1 DEF WithFile
  <2>6. DOMAIN scanned'[c] = IF pc'[c] = "scan" THEN stale'[c] \ todo'[c] ELSE stale'[c]
    <3>1. CASE todo[c] = {i} BY <2>1, <2>3, <2>4, <2>5, <3>1
    <3>2. CASE todo[c] # {i} BY <2>1, <2>3, <2>4, <2>5, <3>2
    <3> QED BY <3>1, <3>2
  <2>7. \A x \in DOMAIN scanned'[c] : x \in DOMAIN disk' /\ disk'[x] = scanned'[c][x]
    BY <1>0, <2>1, <2>4, <2>5
  <2>8. IsLast(stale'[c], last) /\ \A x \in DOMAIN disk' : x <= last => x \in stale'[c]
    BY <1>0, <2>1, <2>2 DEF LosslessAt
  <2>9. pc'[c] \in {"scan", "write"} /\ renamed'[c] = 0 BY <2>1, <2>4
  <2>10. LosslessAt(c, last)' BY <2>6, <2>7, <2>8, <2>9 DEF LosslessAt
  <2>11. PutFiles(scanned'[c])
    BY <2>1 DEF LInv, PutsOnly, PutFiles, WithFile
  <2> QED BY <1>0, <2>9, <2>10, <2>11, LosslessQuiet
<1> QED BY <1>1, <1>2 DEF ScanFile

LEMMA LosslessSurvivors ==
  ASSUME OneCompactor, OneOutput, LInv, CInv', NEW c \in Compactors, WriteSurvivors(c)
  PROVE  LInv'
<1>0. UNCHANGED <<disk, acked>> /\ pc[c] = "write" /\ CompactionTypes
  BY LInvTypes DEF LInv, WriteSurvivors
<1>1. CASE Forget(c) BY <1>0, <1>1, LosslessForget
<1>2. CASE /\ LiveKeys(scanned[c]) # {}
           /\ \E order \in SetToSeqs(LiveKeys(scanned[c])) :
                outs' = [outs EXCEPT ![c] =
                  Pack([j \in DOMAIN order |-> Rewritten(LastRecord(scanned[c], order[j]))],
                       CompactorSegmentSize)]
           /\ pc' = [pc EXCEPT ![c] = "waiting"]
           /\ UNCHANGED <<stale, todo, scanned, renamed>>
  <2>1. PICK order \in SetToSeqs(LiveKeys(scanned[c])) :
          outs'[c] = Pack([j \in DOMAIN order |-> Rewritten(LastRecord(scanned[c], order[j]))],
                          CompactorSegmentSize)
    BY <1>0, <1>2 DEF CompactionTypes
  <2>2. pc'[c] = "waiting" BY <1>0, <1>2 DEF CompactionTypes
  <2>3. /\ AreFiles(scanned[c], DiskRecord) /\ ClientFiles(scanned[c])
        /\ IsFiniteSet(DOMAIN scanned[c])
    BY LInvTypes DEF LInv
  <2>4. SurvivorsOf(scanned[c], outs'[c]) BY <2>1, <2>3, PackedSurvivors
  <2>5. Survivors(c)' BY <1>2, <2>4 DEF Survivors
  <2>6. Len(outs'[c]) = 1 BY <1>2, <2>1, <2>3, SurvivorsInOne
  <2>7. PICK last : LosslessAt(c, last) BY <1>0 DEF LInv, LosslessStages
  <2>8. LosslessAt(c, last)'
    BY <1>0, <1>2, <2>2, <2>5, <2>6, <2>7 DEF LosslessAt
  <2>9. PutFiles(scanned'[c]) BY <1>2 DEF LInv, PutsOnly, PutFiles
  <2> QED BY <1>0, <2>2, <2>8, <2>9, LosslessQuiet
<1> QED BY <1>1, <1>2 DEF WriteSurvivors

LEMMA LosslessBegin ==
  ASSUME OneCompactor, LInv, CInv', NEW c \in Compactors, BeginCommit(c) \/ BeginRemove(c)
  PROVE  LInv'
<1>0. /\ UNCHANGED <<disk, acked, stale, scanned, outs, renamed>> /\ CompactionTypes
      /\ pc[c] \in {"waiting", "rename"}
  BY LInvTypes DEF LInv, BeginCommit, BeginRemove
<1>1. PICK last : LosslessAt(c, last) BY <1>0 DEF LInv, LosslessStages
<1>2. Survivors(c)' BY <1>0, <1>1 DEF LosslessAt, Survivors
<1>3. PutFiles(scanned'[c]) BY <1>0 DEF LInv, PutsOnly, PutFiles
<1>4. CASE BeginCommit(c)
  <2>1. pc'[c] = "rename" BY <1>0, <1>4 DEF BeginCommit, CompactionTypes
  <2>2. LosslessAt(c, last)' BY <1>0, <1>1, <1>2, <2>1 DEF LosslessAt
  <2> QED BY <1>0, <1>3, <2>1, <2>2, LosslessQuiet
<1>5. CASE BeginRemove(c)
  <2>1. /\ pc'[c] = "remove" /\ todo'[c] = Remaining(stale[c], Len(outs[c]))
        /\ pc[c] = "rename" /\ renamed[c] = Len(outs[c])
    BY <1>0, <1>5 DEF BeginRemove, CompactionTypes
  <2>2. Len(outs[c]) = 1 BY <1>1, <2>1 DEF LosslessAt
  <2>3. last \notin todo'[c]
    <3>1. {x \in stale[c] : x > last} = {}
      <4>1. stale[c] \subseteq Nat /\ last \in stale[c] /\ \A x \in stale[c] : x <= last
        BY <1>1, LInvTypes DEF LInv, LosslessAt, IsLast
      <4> QED BY <4>1
    <3>2. ~(Cardinality({x \in stale[c] : x > last}) >= 1) BY <3>1, FS_EmptySet
    <3> QED BY <2>1, <2>2, <3>2 DEF Remaining
  <2>4. LosslessAt(c, last)' BY <1>0, <1>1, <1>2, <2>1, <2>2, <2>3 DEF LosslessAt
  <2> QED BY <1>0, <1>3, <2>1, <2>4, LosslessQuiet
<1> QED BY <1>4, <1>5

\* The output takes the id of the newest stale file: it has the last record of
\* every key whose last record was in a stale file.
LEMMA LosslessRename ==
  ASSUME Unbuffered, OneCompactor, LInv, CInv', NEW c \in Compactors, Rename(c)
  PROVE  LInv'
<1>0. /\ CompactionTypes /\ pc[c] = "rename" /\ UNCHANGED acked /\ AreFiles(disk, DiskRecord)
      /\ AreFiles(scanned[c], DiskRecord) /\ PutFiles(scanned[c]) /\ PutFiles(disk)
      /\ ClientContent /\ outs[c] \in Seq(Seq(PutRecords))
  BY LInvTypes DEF LInv, Rename, PutsOnly, CInv
<1>1. PICK last : LosslessAt(c, last) BY <1>0 DEF LInv, LosslessStages
<1>2. /\ IsLast(stale[c], last) /\ stale[c] \subseteq Nat \ {0} /\ last \in stale[c]
      /\ \A i \in stale[c] : IsLast(stale[c], i) => i = last
  <2>1. stale[c] \subseteq Nat \ {0} BY LInvTypes DEF LInv
  <2> QED BY <1>1, <2>1 DEF LosslessAt, IsLast
<1>3. Survivors(c) /\ Len(outs[c]) = 1 /\ renamed[c] = 0 /\ DOMAIN scanned[c] = stale[c]
      /\ \A i \in DOMAIN scanned[c] : i \in DOMAIN disk /\ disk[i] = scanned[c][i]
  <2>1. Survivors(c) /\ Len(outs[c]) = 1 /\ DOMAIN scanned[c] = stale[c]
    BY <1>0, <1>1 DEF LosslessAt
  <2>2. renamed[c] < 1 /\ renamed[c] \in Nat BY <2>1, LInvTypes DEF LInv, Rename
  <2>3. renamed[c] = 0 BY <2>2
  <2> QED BY <1>1, <2>1, <2>3 DEF LosslessAt
<1> DEFINE out == outs[c][1]
<1>4. 1 \in 1..Len(outs[c]) /\ \A i \in 1..1 : i = 1 BY <1>3
<1>5. Written(c, 1) = out /\ out \in Seq(PutRecords) BY <1>0, <1>4, WrittenWhole
<1>6. TargetId(last, 0) = last /\ last > 0 /\ Len(outs[c]) - 0 = 1 BY <1>2, <1>3 DEF TargetId
<1>7. /\ disk' = WithFile(disk, last, out)
      /\ renamed' = [renamed EXCEPT ![c] = 1]
      /\ UNCHANGED <<pc, stale, todo, scanned, outs>>
  BY <1>2, <1>3, <1>5, <1>6 DEF Rename
<1>8. /\ DOMAIN disk' = DOMAIN disk /\ disk'[last] = out /\ last \in DOMAIN disk
      /\ \A i \in DOMAIN disk : i # last => disk'[i] = disk[i]
  BY <1>2, <1>3, <1>7 DEF WithFile
<1>9. /\ \A y \in 1..Len(out) : /\ out[y].key \in LiveKeys(scanned[c])
                                /\ out[y] = LastRecord(scanned[c], out[y].key)
      /\ \A q \in LiveKeys(scanned[c]) : \E y \in 1..Len(out) : out[y].key = q
      /\ \A y, z \in 1..Len(out) : out[y].key = out[z].key => y = z
  <2>1. 1 \in 1..Len(outs[c]) BY <1>4
  <2>2. /\ LastRecordsOnly(scanned[c], outs[c]) /\ EveryLiveKey(scanned[c], outs[c])
        /\ EachKeyOnce(outs[c])
    BY <1>3 DEF Survivors, SurvivorsOf
  <2>3. \A y \in 1..Len(out) : /\ out[y].key \in LiveKeys(scanned[c])
                               /\ out[y] = LastRecord(scanned[c], out[y].key)
    BY <2>1, <2>2 DEF LastRecordsOnly
  <2>4. ASSUME NEW q \in LiveKeys(scanned[c]) PROVE \E y \in 1..Len(out) : out[y].key = q
    <3>1. PICK u \in 1..Len(outs[c]) : \E y \in 1..Len(outs[c][u]) : outs[c][u][y].key = q
      BY <2>2 DEF EveryLiveKey
    <3>2. u = 1 BY <1>3, <1>4
    <3> QED BY <3>1, <3>2
  <2>5. \A y, z \in 1..Len(out) : out[y].key = out[z].key => y = z
    BY <2>1, <2>2 DEF EachKeyOnce
  <2> QED BY <2>3, <2>4, <2>5
<1> HIDE DEF out
<1>10. ASSUME NEW k \in Key, NoRecordOf(disk, k) PROVE NoRecordOf(disk', k)
  <2> SUFFICES ASSUME NEW i \in DOMAIN disk', NEW j \in 1..Len(disk'[i]), disk'[i][j].key = k
               PROVE  FALSE
    BY DEF NoRecordOf
  <2>1. CASE i = last
    <3>1. k \in LiveKeys(scanned[c]) BY <1>8, <1>9, <2>1
    <3>2. NoRecordOf(scanned[c], k) BY <1>3, <1>10 DEF NoRecordOf
    <3> QED BY <3>1, <3>2, ReplayNone
  <2>2. CASE i # last BY <1>8, <1>10, <2>2 DEF NoRecordOf
  <2> QED BY <2>1, <2>2
<1>11. ASSUME NEW k \in Key, NEW i, NEW j, IsLastAt(disk, k, i, j)
       PROVE  \E x, y : IsLastAt(disk', k, x, y) /\ Answer(disk'[x][y]) = Answer(disk[i][j])
  <2>1. /\ i \in DOMAIN disk /\ j \in 1..Len(disk[i]) /\ disk[i][j].key = k /\ i \in Nat
        /\ last \in Nat /\ DOMAIN disk \subseteq Nat
    BY <1>0, <1>2, <1>11 DEF IsLastAt, AreFiles
  <2>2. CASE i > last
    <3>1. i # last /\ disk'[i] = disk[i] BY <1>8, <2>1, <2>2
    <3>2. ASSUME NEW x \in DOMAIN disk', NEW y \in 1..Len(disk'[x]), disk'[x][y].key = k
          PROVE  x < i \/ (x = i /\ y <= j)
      <4>1. CASE x = last BY <2>2, <4>1
      <4>2. CASE x # last BY <1>8, <1>11, <3>2, <4>2 DEF IsLastAt
      <4> QED BY <4>1, <4>2
    <3>3. IsLastAt(disk', k, i, j) BY <1>8, <2>1, <3>1, <3>2 DEF IsLastAt
    <3> QED BY <3>1, <3>3
  <2>3. CASE i <= last
    <3>1. i \in DOMAIN scanned[c] /\ scanned[c][i] = disk[i]
      BY <1>1, <1>3, <2>1, <2>3 DEF LosslessAt
    <3>2. IsLastAt(scanned[c], k, i, j) BY <1>3, <1>11, <3>1 DEF IsLastAt
    <3>3. DOMAIN scanned[c] \subseteq Nat BY <1>0 DEF AreFiles
    <3>4. LastRecord(scanned[c], k) = disk[i][j] BY <3>1, <3>2, <3>3, LastAtFact
    <3>5. k \in LiveKeys(scanned[c]) BY <1>0, <2>1, <3>1, PutsLive
    <3>6. PICK y \in 1..Len(out) : out[y].key = k BY <1>9, <3>5
    <3>7. out[y] = disk[i][j] BY <1>9, <3>4, <3>6
    <3>8. ASSUME NEW x \in DOMAIN disk', NEW z \in 1..Len(disk'[x]), disk'[x][z].key = k
          PROVE  x < last \/ (x = last /\ z <= y)
      <4>1. CASE x = last
        <5>1. z = y BY <1>8, <1>9, <3>6, <3>8, <4>1
        <5>2. y \in Nat BY <1>5, <3>6
        <5> QED BY <4>1, <5>1, <5>2
      <4>2. CASE x # last
        <5>1. x < i \/ x = i BY <1>8, <1>11, <3>8, <4>2 DEF IsLastAt
        <5>2. x \in Nat BY <1>8, <2>1
        <5> QED BY <2>1, <2>3, <4>2, <5>1, <5>2
      <4> QED BY <4>1, <4>2
    <3>9. IsLastAt(disk', k, last, y) BY <1>8, <3>6, <3>8 DEF IsLastAt
    <3> QED BY <1>8, <3>7, <3>9
  <2> QED BY <2>1, <2>2, <2>3
<1>12. Recovered(disk') = Recovered(disk)
  <2>1. DOMAIN disk' \subseteq Nat BY <1>0, <1>8 DEF AreFiles
  <2> QED BY <1>0, <1>10, <1>11, <2>1, SameAnswers
<1>13. CrashLosesNothing' BY <1>0, <1>12 DEF LInv, CrashLosesNothing
<1>14. PutsOnly' BY <1>0, <1>5, <1>7 DEF LInv, PutsOnly, PutFiles, WithFile
<1>15. LosslessAt(c, last)'
  <2>1. renamed'[c] = 1 BY <1>0, <1>7 DEF CompactionTypes
  <2>2. \A i \in DOMAIN disk' : i < last => disk'[i] = scanned[c][i]
    <3> TAKE i \in DOMAIN disk'
    <3>1. i \in Nat /\ last \in Nat BY <1>0, <1>2, <1>8 DEF AreFiles
    <3>2. i < last => i # last /\ i <= last BY <3>1
    <3>3. i < last => i \in stale[c] BY <1>1, <1>8, <3>2 DEF LosslessAt
    <3> QED BY <1>3, <1>8, <3>2, <3>3
  <2>3. Survivors(c)' BY <1>3, <1>7 DEF Survivors
  <2> QED BY <1>0, <1>1, <1>3, <1>7, <1>8, <2>1, <2>2, <2>3 DEF LosslessAt, out
<1>16. LosslessStages'
  <2>1. \A d \in Compactors : d = c BY DEF OneCompactor
  <2>2. pc'[c] # "idle" BY <1>0, <1>7
  <2> QED BY <1>15, <2>1, <2>2 DEF LosslessStages
<1> QED BY <1>13, <1>14, <1>16 DEF LInv

\* A stale file below the output has no record that the output does not supersede.
LEMMA LosslessRemove ==
  ASSUME OneCompactor, LInv, CInv', NEW c \in Compactors, RemoveStale(c)
  PROVE  LInv'
<1>0. /\ CompactionTypes /\ pc[c] = "remove" /\ UNCHANGED acked /\ AreFiles(disk, DiskRecord)
      /\ AreFiles(scanned[c], DiskRecord) /\ PutFiles(scanned[c]) /\ PutFiles(disk)
  BY LInvTypes DEF LInv, RemoveStale, PutsOnly
<1>1. CASE Forget(c) /\ UNCHANGED disk BY <1>0, <1>1, LosslessForget
<1>2. CASE \E i \in todo[c] :
             /\ i \in DOMAIN disk /\ disk' = WithoutFile(disk, i)
             /\ todo' = [todo EXCEPT ![c] = @ \ {i}]
             /\ UNCHANGED <<pc, stale, scanned, outs, renamed>>
  <2>1. PICK i \in todo[c] :
             /\ i \in DOMAIN disk /\ disk' = WithoutFile(disk, i)
             /\ todo' = [todo EXCEPT ![c] = @ \ {i}]
             /\ UNCHANGED <<pc, stale, scanned, outs, renamed>>
    BY <1>2
  <2>2. PICK last : LosslessAt(c, last) BY <1>0 DEF LInv, LosslessStages
  <2>3. /\ Survivors(c) /\ Len(outs[c]) = 1 /\ renamed[c] = 1 /\ last \notin todo[c]
        /\ DOMAIN scanned[c] = stale[c] /\ last \in DOMAIN disk /\ disk[last] = outs[c][1]
        /\ \A x \in DOMAIN disk : x < last => disk[x] = scanned[c][x]
    <3>1. renamed[c] = 1 BY <1>0, <2>2 DEF LosslessAt
    <3> QED BY <1>0, <2>2, <3>1 DEF LosslessAt
  <2>4. i < last /\ i \in stale[c] /\ i \in Nat /\ last \in Nat
    <3>1. i \in stale[c] /\ i <= last /\ last \in stale[c]
      BY <2>2, LInvTypes DEF LInv, LosslessAt, IsLast
    <3>2. stale[c] \subseteq Nat \ {0} BY LInvTypes DEF LInv
    <3>3. i # last BY <2>1, <2>3
    <3> QED BY <3>1, <3>2, <3>3
  <2>5. /\ DOMAIN disk' = DOMAIN disk \ {i} /\ \A x \in DOMAIN disk' : disk'[x] = disk[x]
    BY <2>1 DEF WithoutFile, Restrict
  <2>6. \A k \in Key : NoRecordOf(disk, k) => NoRecordOf(disk', k) BY <2>5 DEF NoRecordOf
  <2>7. ASSUME NEW k \in Key, NEW a, NEW b, IsLastAt(disk, k, a, b)
        PROVE  IsLastAt(disk', k, a, b) /\ Answer(disk'[a][b]) = Answer(disk[a][b])
    <3>1. a # i
      <4>1. SUFFICES ASSUME a = i PROVE FALSE OBVIOUS
      <4>2. b \in 1..Len(scanned[c][i]) /\ scanned[c][i][b].key = k /\ i \in DOMAIN scanned[c]
        BY <2>1, <2>3, <2>4, <2>7, <4>1 DEF IsLastAt
      <4>3. k \in LiveKeys(scanned[c]) BY <1>0, <4>2, PutsLive
      <4>4. PICK u \in 1..Len(outs[c]) : \E y \in 1..Len(outs[c][u]) : outs[c][u][y].key = k
        BY <2>3, <4>3 DEF Survivors, SurvivorsOf, EveryLiveKey
      <4>5. PICK y \in 1..Len(outs[c][u]) : outs[c][u][y].key = k BY <4>4
      <4>6. u = 1 BY <2>3
      <4>7. last < i \/ last = i BY <2>3, <2>7, <4>1, <4>5, <4>6 DEF IsLastAt
      <4> QED BY <2>4, <4>7
    <3>2. a \in DOMAIN disk' /\ disk'[a] = disk[a] BY <2>5, <2>7, <3>1 DEF IsLastAt
    <3>3. IsLastAt(disk', k, a, b) BY <2>5, <2>7, <3>2 DEF IsLastAt
    <3> QED BY <3>2, <3>3
  <2>8. Recovered(disk') = Recovered(disk)
    <3>1. DOMAIN disk' \subseteq Nat BY <1>0, <2>5 DEF AreFiles
    <3> QED BY <1>0, <2>6, <2>7, <3>1, SameAnswers
  <2>9. CrashLosesNothing' BY <1>0, <2>8 DEF LInv, CrashLosesNothing
  <2>10. PutsOnly'
    BY <1>0, <2>1 DEF LInv, PutsOnly, PutFiles, WithoutFile, Restrict
  <2>11. Survivors(c)' BY <2>1, <2>3 DEF Survivors
  <2>12. todo'[c] = todo[c] \ {i} BY <1>0, <2>1 DEF CompactionTypes
  <2>13. last \in DOMAIN disk' /\ disk'[last] = outs[c][1] BY <2>3, <2>4, <2>5
  <2>14. LosslessAt(c, last)'
    BY <1>0, <2>1, <2>2, <2>3, <2>5, <2>11, <2>12, <2>13 DEF LosslessAt
  <2>15. LosslessStages'
    <3>1. \A d \in Compactors : d = c BY DEF OneCompactor
    <3>2. pc'[c] # "idle" BY <1>0, <2>1
    <3> QED BY <2>14, <3>1, <3>2 DEF LosslessStages
  <2> QED BY <2>9, <2>10, <2>15 DEF LInv
<1> QED BY <1>1, <1>2 DEF RemoveStale

LEMMA LosslessNext ==
  ASSUME Unbuffered, OneCompactor, OneOutput, DeletableKeys = {}, LInv, CInv', [Next]_vars
  PROVE  LInv'
<1>1. ASSUME NEW k \in Key, NEW v \in Value, Put(k, v) PROVE LInv' BY <1>1, LosslessPut
<1>2. ASSUME NEW c \in Compactors, Compact(c) PROVE LInv'
  <2>1. CASE PanicOnSlice(c)
    <3>1. CASE Forget(c) /\ UNCHANGED <<disk, active, index, up, acked>>
      BY <3>1, LosslessForget
    <3>2. CASE Stop /\ UNCHANGED <<disk, active>>
      BY <3>2, LosslessStop DEF LInv, PutsOnly, PutFiles, Recovered
    <3> QED BY <2>1, <3>1, <3>2 DEF PanicOnSlice
  <2>2. CASE Fail(c) BY <2>2, LosslessForget DEF Fail
  <2>3. CASE Reindex(c) BY <2>3, LosslessForget DEF Reindex
  <2> QED BY <1>2, <2>1, <2>2, <2>3, LosslessStart, LosslessScan, LosslessSurvivors,
             LosslessBegin, LosslessRename, LosslessRemove DEF Compact
<1>3. CASE Crash BY <1>3, LosslessStop DEF Crash, LInv, PutsOnly, PutFiles, Recovered
<1>4. ASSUME NEW k \in Key, NEW v \in Value, CrashInRoll(k, v) PROVE LInv'
  BY <1>4, LosslessCrashInRoll
<1>5. CASE UNCHANGED <<disk, acked, compaction>>
  <2>1. PutsOnly' /\ CrashLosesNothing'
    BY <1>5 DEF LInv, PutsOnly, PutFiles, CrashLosesNothing, Recovered, compaction
  <2>2. \A c \in Compactors : \A last : LosslessAt(c, last) => LosslessAt(c, last)'
    BY <1>5 DEF LosslessAt, Survivors, compaction
  <2>3. LosslessStages' BY <1>5, <2>2 DEF LInv, LosslessStages, compaction
  <2> QED BY <2>1, <2>3 DEF LInv
<1>6. ~(\E k \in DeletableKeys : Delete(k)) OBVIOUS
<1> QED BY <1>1, <1>2, <1>3, <1>4, <1>5, <1>6 DEF Next, Restart, vars

LEMMA LosslessInit == Init => LInv
<1> SUFFICES ASSUME Init PROVE LInv OBVIOUS
<1>1. CInv BY InitCInv
<1>2. <<>> \in Seq(PutRecords) OBVIOUS
<1>3. PutsOnly BY <1>2 DEF Init, PutsOnly, PutFiles
<1>4. LosslessStages BY DEF Init, LosslessStages
<1>5. CrashLosesNothing
  <2>1. ~Committing BY DEF Init, Committing, CommitPhases
  <2>2. Faithful(disk) BY <2>1, InitSInv DEF SInv, Current
  <2> QED BY <2>2 DEF Faithful, CrashLosesNothing
<1> QED BY <1>1, <1>3, <1>4, <1>5 DEF LInv

\* While nothing is deleted and the survivors fit into one output, a kill or a
\* failing call at any instant, in the middle of a commit too, loses nothing and
\* brings nothing back: the output takes the newest id before any older file is
\* removed (filestore.go processCompaction).
THEOREM SingleOutputLosesNothing ==
  ASSUME Unbuffered, OneCompactor, OneOutput, DeletableKeys = {}
  PROVE  Spec => []CrashLosesNothing
<1>1. Init => LInv BY LosslessInit
<1>2. LInv /\ [Next]_vars => LInv'
  <2> SUFFICES ASSUME LInv, [Next]_vars PROVE LInv' OBVIOUS
  <2>1. CInv' BY NextCInv DEF LInv
  <2> QED BY <2>1, LosslessNext
<1>3. LInv => CrashLosesNothing BY DEF LInv
<1> QED BY <1>1, <1>2, <1>3, PTL DEF Spec
=============================================================================
