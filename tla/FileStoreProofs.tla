-------------------------- MODULE FileStoreProofs --------------------------
(***************************************************************************)
(* Proofs about FileStore, for every set of keys, values and compactors,   *)
(* every size, threshold and bound, with crashes anywhere: types, what a   *)
(* commit never touches, and that no write in one of the two newest        *)
(* segments is lost or shadowed. Then what compactions write: outputs hold *)
(* the puts that clients wrote, and under puts of one size there are never *)
(* more of them than files they replace.                                   *)
(***************************************************************************)
EXTENDS FileStore, SegmentFilesProofs

(* The inductive invariant. *)
IInv == TypeOK /\ NewestIsActive /\ SealedSegmentsOnly

-----------------------------------------------------------------------------
(* Operators. *)

\* StaleSegments lists existing segments that two others are newer than.
LEMMA StaleSegmentsFact ==
  ASSUME NEW files, NEW threshold,
         NEW i \in StaleSegments(files, threshold)
  PROVE  /\ i \in DOMAIN files
         /\ \E x, y \in DOMAIN files : i < x /\ x < y
BY DEF StaleSegments

\* A sequence is a prefix of what appending one element makes of it.
LEMMA AppendPrefix ==
  ASSUME NEW S, NEW s \in Seq(S), NEW e \in S
  PROVE  IsPrefix(s, Append(s, e))
<1>1. Len(s) <= Len(Append(s, e)) OBVIOUS
<1>2. SubSeq(s, 1, Len(s)) = SubSeq(Append(s, e), 1, Len(s)) OBVIOUS
<1> QED BY <1>1, <1>2 DEF IsPrefix

-----------------------------------------------------------------------------
(* Steps that several actions share. *)

\* Opening the next segment makes it the newest and leaves the others alone.
LEMMA RollStep ==
  ASSUME TypeOK, NewestIsActive, NEW content \in Seq(ClientRecord),
         disk' = WithFile(disk, active + 1, content), active' = active + 1
  PROVE  /\ active' \in Nat \ {0}
         /\ active <= active'
         /\ DOMAIN disk' \subseteq Nat \ {0}
         /\ NewestIsActive'
         /\ \A i \in DOMAIN disk : i \in DOMAIN disk' /\ disk'[i] = disk[i]
<1> USE DEF TypeOK, StoreTypes, NewestIsActive
<1>1. /\ DOMAIN disk' = DOMAIN disk \cup {active + 1}
      /\ disk'[active + 1] = content
      /\ \A i \in DOMAIN disk : disk'[i] = disk[i]
  BY DEF WithFile
<1>2. active' \in Nat \ {0} /\ active <= active' OBVIOUS
<1>3. DOMAIN disk' \subseteq Nat \ {0} BY <1>1
<1>4. NewestIsActive'
  <2>1. active' \in DOMAIN disk' /\ disk'[active'] \in Seq(ClientRecord) BY <1>1
  <2>2. \A i \in DOMAIN disk' : i <= active' BY <1>1
  <2> QED BY <2>1, <2>2
<1> QED BY <1>1, <1>2, <1>3, <1>4

\* AppendRecord keeps the active segment the newest and existing ids typed.
LEMMA AppendRecordStep ==
  ASSUME TypeOK, NewestIsActive,
         NEW r \in ClientRecord, AppendRecord(r)
  PROVE  /\ active' \in Nat \ {0}
         /\ active <= active'
         /\ DOMAIN disk' \subseteq Nat \ {0}
         /\ NewestIsActive'
         /\ \A i \in DOMAIN disk :
              /\ i \in DOMAIN disk'
              /\ i < active => disk'[i] = disk[i]
              /\ IsPrefix(disk[i], disk'[i]) \/ i # active
<1> USE DEF TypeOK, StoreTypes, NewestIsActive
<1>1. CASE ~NeedsRoll(r) /\ disk' = WithFile(disk, active, Append(disk[active], r))
             /\ active' = active
  <2>1. Append(disk[active], r) \in Seq(ClientRecord) OBVIOUS
  <2>2. IsPrefix(disk[active], Append(disk[active], r)) BY AppendPrefix
  <2>3. /\ DOMAIN disk' = DOMAIN disk
        /\ disk'[active] = Append(disk[active], r)
        /\ \A i \in DOMAIN disk : i # active => disk'[i] = disk[i]
    BY <1>1 DEF WithFile
  <2>4. NewestIsActive' BY <1>1, <2>1, <2>3
  <2>5. active' \in Nat \ {0} /\ active <= active' BY <1>1
  <2>6. DOMAIN disk' \subseteq Nat \ {0} BY <2>3
  <2>7. \A i \in DOMAIN disk :
          /\ i \in DOMAIN disk'
          /\ i < active => disk'[i] = disk[i]
          /\ IsPrefix(disk[i], disk'[i]) \/ i # active
    <3> TAKE i \in DOMAIN disk
    <3>1. CASE i = active BY <3>1, <2>2, <2>3
    <3>2. CASE i # active BY <3>2, <2>3
    <3> QED BY <3>1, <3>2
  <2> QED BY <2>4, <2>5, <2>6, <2>7
<1>2. CASE NeedsRoll(r) /\ disk' = WithFile(disk, active + 1, <<r>>)
             /\ active' = active + 1
  <2>1. <<r>> \in Seq(ClientRecord) OBVIOUS
  <2>2. IsPrefix(disk[active], disk[active]) BY DEF IsPrefix
  <2>3. /\ active' \in Nat \ {0} /\ active <= active'
        /\ DOMAIN disk' \subseteq Nat \ {0} /\ NewestIsActive'
        /\ \A i \in DOMAIN disk : i \in DOMAIN disk' /\ disk'[i] = disk[i]
    BY <1>2, <2>1, RollStep
  <2> QED BY <2>2, <2>3
<1> QED BY <1>1, <1>2 DEF AppendRecord

\* Giving up a compaction, or finishing it, keeps the compactors' state in order.
LEMMA ForgetStep ==
  ASSUME TypeOK, SealedSegmentsOnly, NEW c \in Compactors, Forget(c),
         UNCHANGED <<active, up>>
  PROVE  CompactionTypes' /\ Bookkeeping' /\ LocksExclude' /\ SealedSegmentsOnly'
<1> USE DEF TypeOK, CompactionTypes, Bookkeeping, LocksExclude, SealedSegmentsOnly,
            Forget, Phases, ScanPhases, CommitPhases
<1>1. CompactionTypes' OBVIOUS
<1>2. \A d \in Compactors : /\ d # c => /\ pc'[d] = pc[d] /\ stale'[d] = stale[d]
                                        /\ todo'[d] = todo[d]
                            /\ d = c => /\ pc'[d] = "idle" /\ stale'[d] = {}
                                        /\ todo'[d] = {}
  OBVIOUS
<1>3. Bookkeeping' BY <1>2
<1>4. LocksExclude' BY <1>2
<1>5. SealedSegmentsOnly' BY <1>2
<1> QED BY <1>1, <1>3, <1>4, <1>5

\* So does the end of the process, if the files are in order.
LEMMA StopStep ==
  ASSUME IInv, Stop, NewestIsActive', active' \in Nat \ {0},
         DOMAIN disk' \subseteq Nat \ {0}
  PROVE  IInv'
BY DEF IInv, TypeOK, StoreTypes, CompactionTypes, Bookkeeping, LocksExclude,
       SealedSegmentsOnly, Stop, Phases, ScanPhases, CommitPhases

\* A kill leaves the files and the active segment as they are.
LEMMA StopInPlace ==
  ASSUME IInv, Stop, UNCHANGED <<disk, active>>
  PROVE  IInv'
<1>1. NewestIsActive' BY DEF IInv, NewestIsActive
<1>2. active' \in Nat \ {0} /\ DOMAIN disk' \subseteq Nat \ {0}
  BY DEF IInv, TypeOK, StoreTypes
<1> QED BY <1>1, <1>2, StopStep

-----------------------------------------------------------------------------
(* The invariant is inductive. *)

LEMMA InitIInv == Init => IInv
BY DEF Init, IInv, TypeOK, StoreTypes, CompactionTypes, Bookkeeping, LocksExclude,
       NewestIsActive, SealedSegmentsOnly, Phases, ScanPhases, CommitPhases

\* A client's write.
LEMMA WriteStep ==
  ASSUME IInv, NEW r \in ClientRecord, AppendRecord(r),
         DOMAIN index' \subseteq Key, acked' \in [Key -> Value \cup {NotFound}],
         UNCHANGED <<up, compaction>>
  PROVE  IInv'
<1> USE DEF IInv, TypeOK
<1>1. /\ active' \in Nat \ {0} /\ active <= active'
      /\ DOMAIN disk' \subseteq Nat \ {0} /\ NewestIsActive'
  BY AppendRecordStep
<1>2. StoreTypes' BY <1>1 DEF StoreTypes
<1>3. CompactionTypes' /\ Bookkeeping' /\ LocksExclude'
  BY DEF CompactionTypes, Bookkeeping, LocksExclude, compaction
<1>4. SealedSegmentsOnly'
  BY <1>1 DEF SealedSegmentsOnly, compaction, StoreTypes, CompactionTypes
<1> QED BY <1>1, <1>2, <1>3, <1>4

LEMMA PutStep ==
  ASSUME IInv, NEW k \in Key, NEW v \in Value, Put(k, v)
  PROVE  IInv'
<1>1. PutRecord(k, v) \in ClientRecord BY DEF ClientRecord
<1>2. DOMAIN index' \subseteq Key BY DEF Put, IInv, TypeOK, StoreTypes
<1>3. acked' \in [Key -> Value \cup {NotFound}] BY DEF Put, IInv, TypeOK, StoreTypes
<1> QED BY <1>1, <1>2, <1>3, WriteStep DEF Put

LEMMA DeleteStep ==
  ASSUME IInv, NEW k \in DeletableKeys, Delete(k)
  PROVE  IInv'
<1>1. k \in Key BY StoreAssumption
<1>2. DelRecord(k) \in ClientRecord BY <1>1 DEF ClientRecord
<1>3. DOMAIN index' \subseteq Key BY DEF Delete, IInv, TypeOK, StoreTypes
<1>4. acked' \in [Key -> Value \cup {NotFound}] BY DEF Delete, IInv, TypeOK, StoreTypes
<1> QED BY <1>2, <1>3, <1>4, WriteStep DEF Delete

\* What is listed is older than two existing segments, hence than the active.
LEMMA StartCompactionStep ==
  ASSUME IInv, NEW c \in Compactors, StartCompaction(c)
  PROVE  IInv'
<1> DEFINE older == StaleSegments(disk, StaleSegmentThreshold)
<1> USE DEF IInv, TypeOK
<1>1. \A i \in older : i \in Nat \ {0} /\ i + 1 < active
  <2> TAKE i \in older
  <2>1. i \in DOMAIN disk /\ \E x, y \in DOMAIN disk : i < x /\ x < y
    BY StaleSegmentsFact
  <2> QED BY <2>1 DEF StoreTypes, NewestIsActive
<1>2. /\ pc' = [pc EXCEPT ![c] = "scan"]
      /\ stale' = [stale EXCEPT ![c] = older]
      /\ todo' = [todo EXCEPT ![c] = older]
      /\ UNCHANGED <<disk, active, index, up, acked, scanned, outs, renamed>>
      /\ up /\ ~Scanning /\ older \in SUBSET (Nat \ {0})
  BY <1>1 DEF StartCompaction
<1> HIDE DEF older
<1>3. StoreTypes' /\ NewestIsActive' BY <1>2 DEF StoreTypes, NewestIsActive
<1>4. CompactionTypes' BY <1>2 DEF CompactionTypes, Phases, ScanPhases
<1>5. Bookkeeping' BY <1>2 DEF Bookkeeping, CompactionTypes, StoreTypes
<1>6. LocksExclude'
  BY <1>2 DEF LocksExclude, Scanning, CompactionTypes, ScanPhases, CommitPhases
<1>7. SealedSegmentsOnly' BY <1>1, <1>2 DEF SealedSegmentsOnly, CompactionTypes
<1> QED BY <1>3, <1>4, <1>5, <1>6, <1>7

LEMMA ScanFileStep ==
  ASSUME IInv, NEW c \in Compactors, ScanFile(c)
  PROVE  IInv'
<1> USE DEF IInv, TypeOK
<1>1. StoreTypes' /\ NewestIsActive' BY DEF ScanFile, StoreTypes, NewestIsActive
<1>2. CASE Forget(c) BY <1>1, <1>2, ForgetStep DEF ScanFile
<1>3. CASE \E i \in todo[c] :
             /\ scanned' = [scanned EXCEPT ![c] = WithFile(@, i, disk[i])]
             /\ todo' = [todo EXCEPT ![c] = @ \ {i}]
             /\ pc' = [pc EXCEPT ![c] = IF todo[c] = {i} THEN "write" ELSE "scan"]
             /\ UNCHANGED <<stale, outs, renamed>>
  <2>1. PICK i \in todo[c] :
          /\ scanned' = [scanned EXCEPT ![c] = WithFile(@, i, disk[i])]
          /\ todo' = [todo EXCEPT ![c] = @ \ {i}]
          /\ pc' = [pc EXCEPT ![c] = IF todo[c] = {i} THEN "write" ELSE "scan"]
          /\ UNCHANGED <<stale, outs, renamed>>
    BY <1>3
  <2>2. UNCHANGED <<active, up>> /\ pc[c] = "scan" BY DEF ScanFile
  <2>3. CompactionTypes' BY <2>1 DEF CompactionTypes, Phases, ScanPhases
  <2>4. Bookkeeping' BY <2>1, <2>2 DEF Bookkeeping, CompactionTypes
  <2>5. LocksExclude'
    BY <2>1, <2>2 DEF LocksExclude, CompactionTypes, ScanPhases, CommitPhases
  <2>6. SealedSegmentsOnly' BY <2>1, <2>2 DEF SealedSegmentsOnly
  <2> QED BY <1>1, <2>3, <2>4, <2>5, <2>6
<1> QED BY <1>2, <1>3 DEF ScanFile

LEMMA WriteSurvivorsStep ==
  ASSUME IInv, NEW c \in Compactors, WriteSurvivors(c)
  PROVE  IInv'
<1> USE DEF IInv, TypeOK
<1>1. StoreTypes' /\ NewestIsActive' BY DEF WriteSurvivors, StoreTypes, NewestIsActive
<1>2. CASE Forget(c) BY <1>1, <1>2, ForgetStep DEF WriteSurvivors
<1>3. CASE /\ \E content : outs' = [outs EXCEPT ![c] = content]
           /\ pc' = [pc EXCEPT ![c] = "waiting"]
           /\ UNCHANGED <<stale, todo, scanned, renamed>>
  <2>1. UNCHANGED <<active, up>> /\ pc[c] = "write" BY DEF WriteSurvivors
  <2>2. CompactionTypes' BY <1>3 DEF CompactionTypes, Phases
  <2>3. Bookkeeping' BY <1>3, <2>1 DEF Bookkeeping, CompactionTypes
  <2>4. LocksExclude'
    BY <1>3 DEF LocksExclude, CompactionTypes, ScanPhases, CommitPhases
  <2>5. SealedSegmentsOnly' BY <1>3, <2>1 DEF SealedSegmentsOnly
  <2> QED BY <1>1, <2>2, <2>3, <2>4, <2>5
<1> QED BY <1>2, <1>3 DEF WriteSurvivors

\* Taking f.mu: nobody else is committing.
LEMMA BeginCommitStep ==
  ASSUME IInv, NEW c \in Compactors, BeginCommit(c)
  PROVE  IInv'
<1> USE DEF IInv, TypeOK, BeginCommit
<1>1. StoreTypes' /\ NewestIsActive' BY DEF StoreTypes, NewestIsActive
<1>2. CompactionTypes' BY DEF CompactionTypes, Phases, CommitPhases
<1>3. Bookkeeping' BY DEF Bookkeeping, CompactionTypes
<1>4. LocksExclude'
  BY DEF LocksExclude, Committing, CompactionTypes, ScanPhases, CommitPhases
<1>5. SealedSegmentsOnly' BY DEF SealedSegmentsOnly
<1> QED BY <1>1, <1>2, <1>3, <1>4, <1>5

\* The id a file is renamed to is positive and at most the highest stale id,
\* so it is neither the active segment nor the one before.
LEMMA RenameTarget ==
  ASSUME IInv, NEW c \in Compactors, NEW last \in stale[c],
         TargetId(last, renamed[c]) > 0
  PROVE  /\ TargetId(last, renamed[c]) \in Nat \ {0}
         /\ TargetId(last, renamed[c]) + 1 < active
BY DEF IInv, TypeOK, CompactionTypes, StoreTypes, SealedSegmentsOnly, TargetId

LEMMA RenameStep ==
  ASSUME IInv, NEW c \in Compactors, Rename(c)
  PROVE  IInv'
<1> USE DEF IInv, TypeOK
<1>1. PICK last \in stale[c] :
        IF TargetId(last, renamed[c]) > 0
        THEN /\ disk' = WithFile(disk, TargetId(last, renamed[c]),
                                  Written(c, Len(outs[c]) - renamed[c]))
             /\ renamed' = [renamed EXCEPT ![c] = @ + 1]
             /\ UNCHANGED <<pc, stale, todo, scanned, outs>>
        ELSE Forget(c) /\ UNCHANGED disk
  BY DEF Rename
<1>2. UNCHANGED <<active, index, up, acked>> BY DEF Rename
<1>3. CASE ~(TargetId(last, renamed[c]) > 0)
  <2>1. StoreTypes' /\ NewestIsActive' BY <1>1, <1>2, <1>3 DEF StoreTypes, NewestIsActive
  <2> QED BY <1>1, <1>2, <1>3, <2>1, ForgetStep
<1>4. CASE TargetId(last, renamed[c]) > 0
  <2> DEFINE target == TargetId(last, renamed[c])
  <2>1. target \in Nat \ {0} /\ target + 1 < active BY <1>4, RenameTarget
  <2>2. /\ DOMAIN disk' \subseteq DOMAIN disk \cup {target}
        /\ DOMAIN disk \subseteq DOMAIN disk'
        /\ \A i \in DOMAIN disk : i # target => disk'[i] = disk[i]
    BY <1>1, <1>4 DEF WithFile
  <2> HIDE DEF target
  <2>3. StoreTypes' BY <1>2, <2>1, <2>2 DEF StoreTypes
  <2>4. active # target BY <2>1 DEF StoreTypes
  <2>5. NewestIsActive'
    <3>1. active' = active /\ active \in DOMAIN disk /\ disk[active] \in Seq(ClientRecord)
      BY <1>2 DEF NewestIsActive
    <3>2. active' \in DOMAIN disk' /\ disk'[active'] \in Seq(ClientRecord)
      BY <2>2, <2>4, <3>1
    <3>3. \A i \in DOMAIN disk' : i <= active'
      BY <2>1, <2>2, <3>1 DEF NewestIsActive, StoreTypes
    <3> QED BY <3>2, <3>3 DEF NewestIsActive
  <2>6. /\ UNCHANGED <<pc, stale, todo, scanned, outs>>
        /\ renamed' = [renamed EXCEPT ![c] = @ + 1]
    BY <1>1, <1>4
  <2>7. CompactionTypes'
    <3>1. renamed \in [Compactors -> Nat] BY DEF CompactionTypes
    <3>2. renamed' \in [Compactors -> Nat] BY <2>6, <3>1
    <3> QED BY <2>6, <3>2 DEF CompactionTypes
  <2>8. Bookkeeping' /\ LocksExclude' BY <1>2, <2>6 DEF Bookkeeping, LocksExclude
  <2>9. SealedSegmentsOnly' BY <1>2, <2>6 DEF SealedSegmentsOnly
  <2> QED BY <2>3, <2>5, <2>7, <2>8, <2>9
<1> QED BY <1>3, <1>4

LEMMA BeginRemoveStep ==
  ASSUME IInv, NEW c \in Compactors, BeginRemove(c)
  PROVE  IInv'
<1> USE DEF IInv, TypeOK, BeginRemove
<1>1. Remaining(stale[c], Len(outs[c])) \subseteq stale[c] BY DEF Remaining
<1>2. StoreTypes' /\ NewestIsActive' BY DEF StoreTypes, NewestIsActive
<1>3. CompactionTypes' BY <1>1 DEF CompactionTypes, Phases, CommitPhases
<1>4. Bookkeeping' BY <1>1 DEF Bookkeeping, CompactionTypes
<1>5. LocksExclude' BY DEF LocksExclude, CompactionTypes, ScanPhases, CommitPhases
<1>6. SealedSegmentsOnly' BY DEF SealedSegmentsOnly
<1> QED BY <1>2, <1>3, <1>4, <1>5, <1>6

LEMMA PanicOnSliceStep ==
  ASSUME IInv, NEW c \in Compactors, PanicOnSlice(c)
  PROVE  IInv'
<1>1. CASE Forget(c) /\ UNCHANGED <<disk, active, index, up, acked>>
  BY <1>1, ForgetStep DEF IInv, TypeOK, StoreTypes, NewestIsActive
<1>2. CASE Stop /\ UNCHANGED <<disk, active>> BY <1>2, StopInPlace
<1> QED BY <1>1, <1>2 DEF PanicOnSlice

\* A file that is removed was listed, so it is not the active segment.
LEMMA RemoveStaleStep ==
  ASSUME IInv, NEW c \in Compactors, RemoveStale(c)
  PROVE  IInv'
<1> USE DEF IInv, TypeOK
<1>1. PICK i \in todo[c] :
        IF i \in DOMAIN disk
        THEN /\ disk' = WithoutFile(disk, i)
             /\ todo' = [todo EXCEPT ![c] = @ \ {i}]
             /\ UNCHANGED <<pc, stale, scanned, outs, renamed>>
        ELSE Forget(c) /\ UNCHANGED disk
  BY DEF RemoveStale
<1>2. UNCHANGED <<active, index, up, acked>> BY DEF RemoveStale
<1>3. CASE i \notin DOMAIN disk
  <2>1. StoreTypes' /\ NewestIsActive' BY <1>1, <1>2, <1>3 DEF StoreTypes, NewestIsActive
  <2> QED BY <1>1, <1>2, <1>3, <2>1, ForgetStep
<1>4. CASE i \in DOMAIN disk
  <2>1. /\ DOMAIN disk' = DOMAIN disk \ {i}
        /\ \A x \in DOMAIN disk \ {i} : disk'[x] = disk[x]
    BY <1>1, <1>4 DEF WithoutFile, Restrict
  <2>2. i + 1 < active /\ i \in Nat
    BY DEF Bookkeeping, SealedSegmentsOnly, CompactionTypes
  <2>3. StoreTypes' BY <1>2, <2>1 DEF StoreTypes
  <2>4. NewestIsActive' BY <1>2, <2>1, <2>2 DEF NewestIsActive, StoreTypes
  <2>5. CompactionTypes' BY <1>1, <1>4 DEF CompactionTypes
  <2>6. Bookkeeping' /\ LocksExclude'
    BY <1>1, <1>2, <1>4 DEF Bookkeeping, LocksExclude, CompactionTypes
  <2>7. SealedSegmentsOnly' BY <1>1, <1>2, <1>4 DEF SealedSegmentsOnly
  <2> QED BY <2>3, <2>4, <2>5, <2>6, <2>7
<1> QED BY <1>3, <1>4

LEMMA ReindexStep ==
  ASSUME IInv, NEW c \in Compactors, Reindex(c)
  PROVE  IInv'
<1>1. StoreTypes' /\ NewestIsActive'
  BY DEF Reindex, IInv, TypeOK, StoreTypes, NewestIsActive
<1> QED BY <1>1, ForgetStep DEF Reindex, IInv, TypeOK

LEMMA FailStep ==
  ASSUME IInv, NEW c \in Compactors, Fail(c)
  PROVE  IInv'
<1>1. StoreTypes' /\ NewestIsActive'
  BY DEF Fail, IInv, TypeOK, StoreTypes, NewestIsActive
<1> QED BY <1>1, ForgetStep DEF Fail, IInv, TypeOK

\* The highest file is the one that was active before.
LEMMA RestartStep ==
  ASSUME IInv, Restart
  PROVE  IInv'
<1> USE DEF IInv, TypeOK
<1>1. PICK last \in DOMAIN disk : IsLast(DOMAIN disk, last) /\ active' = last
  BY DEF Restart
<1>2. active' = active BY <1>1 DEF IsLast, NewestIsActive, StoreTypes
<1>3. DOMAIN index' \subseteq Key BY DEF Restart, Populate, LiveKeys
<1>4. StoreTypes' BY <1>2, <1>3 DEF Restart, StoreTypes
<1>5. NewestIsActive' BY <1>2 DEF Restart, NewestIsActive
<1>6. CompactionTypes' /\ LocksExclude' BY DEF Restart, compaction, CompactionTypes, LocksExclude
<1>7. Bookkeeping' BY DEF Restart, compaction, Bookkeeping
<1>8. SealedSegmentsOnly' BY <1>2 DEF Restart, compaction, SealedSegmentsOnly
<1> QED BY <1>4, <1>5, <1>6, <1>7, <1>8

LEMMA CrashInRollStep ==
  ASSUME IInv, NEW k \in Key, NEW v \in Value, CrashInRoll(k, v)
  PROVE  IInv'
<1>1. <<>> \in Seq(ClientRecord) OBVIOUS
<1>2. NewestIsActive' /\ active' \in Nat \ {0} /\ DOMAIN disk' \subseteq Nat \ {0}
  BY <1>1, RollStep DEF CrashInRoll, IInv
<1> QED BY <1>2, StopStep DEF CrashInRoll

LEMMA NextIInv == IInv /\ [Next]_vars => IInv'
<1> SUFFICES ASSUME IInv, [Next]_vars PROVE IInv' OBVIOUS
<1>1. ASSUME NEW k \in Key, NEW v \in Value, Put(k, v) PROVE IInv' BY <1>1, PutStep
<1>2. ASSUME NEW k \in DeletableKeys, Delete(k) PROVE IInv' BY <1>2, DeleteStep
<1>3. ASSUME NEW c \in Compactors, Compact(c) PROVE IInv'
  BY <1>3, StartCompactionStep, ScanFileStep, WriteSurvivorsStep, BeginCommitStep,
     RenameStep, BeginRemoveStep, PanicOnSliceStep, RemoveStaleStep, ReindexStep,
     FailStep DEF Compact
<1>4. CASE Crash BY <1>4, StopInPlace DEF Crash
<1>5. ASSUME NEW k \in Key, NEW v \in Value, CrashInRoll(k, v) PROVE IInv'
  BY <1>5, CrashInRollStep
<1>6. CASE Restart BY <1>6, RestartStep
<1>7. CASE UNCHANGED vars
  BY <1>7 DEF IInv, TypeOK, StoreTypes, CompactionTypes, Bookkeeping, LocksExclude,
              NewestIsActive, SealedSegmentsOnly, vars, compaction
<1> QED BY <1>1, <1>2, <1>3, <1>4, <1>5, <1>6, <1>7 DEF Next

\* Types, the active segment and sealed lists hold in every reachable state.
THEOREM IInvHolds == Spec => []IInv
BY InitIInv, NextIInv, PTL DEF Spec

-----------------------------------------------------------------------------
(* What follows. *)

\* Every variable keeps its type, and f.mu and Compactor.rwLock exclude.
THEOREM TypeCorrect == Spec => []TypeOK
<1>1. IInv => TypeOK BY DEF IInv
<1> QED BY <1>1, IInvHolds, PTL

\* Writes always go to the existing segment with the highest id.
THEOREM NewestActive == Spec => []NewestIsActive
<1>1. IInv => NewestIsActive BY DEF IInv
<1> QED BY <1>1, IInvHolds, PTL

\* No compaction ever holds the active segment or the one before it, whatever
\* the writer, other compactions and crashes do since it listed them.
THEOREM SealedOnly == Spec => []SealedSegmentsOnly
<1>1. IInv => SealedSegmentsOnly BY DEF IInv
<1> QED BY <1>1, IInvHolds, PTL

\* What one step may do to the file with id i.
FileChangeAllowed(i) ==
  IF Committing
  THEN i + 1 >= active => i \in DOMAIN disk' /\ disk'[i] = disk[i]
  ELSE /\ i \in DOMAIN disk'
       /\ IF i < active THEN disk'[i] = disk[i] ELSE IsPrefix(disk[i], disk'[i])

\* An unchanged file is allowed in either case: the active one is a sequence,
\* hence a prefix of itself.
LEMMA UnchangedAllowed ==
  ASSUME IInv, NEW i \in DOMAIN disk, i \in DOMAIN disk', disk'[i] = disk[i]
  PROVE  FileChangeAllowed(i)
<1>1. i < active \/ i = active
  BY DEF IInv, TypeOK, StoreTypes, NewestIsActive
<1>2. IsPrefix(disk[active], disk[active])
  BY DEF IInv, NewestIsActive, IsPrefix
<1> QED BY <1>1, <1>2 DEF FileChangeAllowed

LEMMA WriteAllowed ==
  ASSUME IInv, NEW r \in ClientRecord, AppendRecord(r), ~Committing,
         NEW i \in DOMAIN disk
  PROVE  FileChangeAllowed(i)
<1>1. i < active \/ i = active
  BY DEF IInv, TypeOK, StoreTypes, NewestIsActive
<1>2. /\ i \in DOMAIN disk'
      /\ i < active => disk'[i] = disk[i]
      /\ IsPrefix(disk[i], disk'[i]) \/ i # active
  BY AppendRecordStep DEF IInv
<1> QED BY <1>1, <1>2 DEF FileChangeAllowed

LEMMA RenameAllowed ==
  ASSUME IInv, NEW c \in Compactors, Rename(c), NEW i \in DOMAIN disk
  PROVE  FileChangeAllowed(i)
<1>1. Committing BY DEF Rename, Committing, CommitPhases
<1>2. PICK last \in stale[c] :
        \/ UNCHANGED disk
        \/ /\ TargetId(last, renamed[c]) > 0
           /\ disk' = WithFile(disk, TargetId(last, renamed[c]),
                               Written(c, Len(outs[c]) - renamed[c]))
  BY DEF Rename
<1>3. CASE UNCHANGED disk BY <1>3, UnchangedAllowed
<1>4. CASE TargetId(last, renamed[c]) > 0
           /\ disk' = WithFile(disk, TargetId(last, renamed[c]),
                               Written(c, Len(outs[c]) - renamed[c]))
  <2>1. TargetId(last, renamed[c]) \in Nat \ {0} /\ TargetId(last, renamed[c]) + 1 < active
    BY <1>4, RenameTarget
  <2>2. i \in DOMAIN disk' /\ (i # TargetId(last, renamed[c]) => disk'[i] = disk[i])
    BY <1>4 DEF WithFile
  <2>3. i + 1 >= active => i # TargetId(last, renamed[c])
    BY <2>1 DEF IInv, TypeOK, StoreTypes
  <2> QED BY <1>1, <2>2, <2>3 DEF FileChangeAllowed
<1> QED BY <1>2, <1>3, <1>4

LEMMA RemoveAllowed ==
  ASSUME IInv, NEW c \in Compactors, RemoveStale(c), NEW i \in DOMAIN disk
  PROVE  FileChangeAllowed(i)
<1>1. Committing BY DEF RemoveStale, Committing, CommitPhases
<1>2. PICK x \in todo[c] : UNCHANGED disk \/ disk' = WithoutFile(disk, x)
  BY DEF RemoveStale
<1>3. x \in Nat /\ x + 1 < active
  BY DEF IInv, TypeOK, CompactionTypes, Bookkeeping, SealedSegmentsOnly
<1>4. CASE UNCHANGED disk BY <1>4, UnchangedAllowed
<1>5. CASE disk' = WithoutFile(disk, x)
  <2>1. i # x => i \in DOMAIN disk' /\ disk'[i] = disk[i]
    BY <1>5 DEF WithoutFile, Restrict
  <2>2. i + 1 >= active => i # x BY <1>3 DEF IInv, TypeOK, StoreTypes
  <2> QED BY <1>1, <2>1, <2>2 DEF FileChangeAllowed
<1> QED BY <1>2, <1>4, <1>5

LEMMA StepAllowed ==
  ASSUME IInv, [Next]_vars, NEW i \in DOMAIN disk
  PROVE  FileChangeAllowed(i)
<1>1. ASSUME NEW k \in Key, NEW v \in Value, Put(k, v) PROVE FileChangeAllowed(i)
  BY <1>1, WriteAllowed DEF Put, ClientRecord
<1>2. ASSUME NEW k \in DeletableKeys, Delete(k) PROVE FileChangeAllowed(i)
  BY <1>2, WriteAllowed, StoreAssumption DEF Delete, ClientRecord
<1>3. ASSUME NEW c \in Compactors, Compact(c) PROVE FileChangeAllowed(i)
  <2>1. CASE Rename(c) BY <2>1, RenameAllowed
  <2>2. CASE RemoveStale(c) BY <2>2, RemoveAllowed
  <2>3. CASE UNCHANGED disk BY <2>3, UnchangedAllowed
  <2>4. CASE PanicOnSlice(c) BY <2>4, UnchangedAllowed DEF PanicOnSlice
  <2> QED BY <1>3, <2>1, <2>2, <2>3, <2>4
          DEF Compact, StartCompaction, ScanFile, WriteSurvivors, BeginCommit,
              BeginRemove, Reindex, Fail
<1>4. ASSUME NEW k \in Key, NEW v \in Value, CrashInRoll(k, v) PROVE FileChangeAllowed(i)
  <2>1. <<>> \in Seq(ClientRecord) OBVIOUS
  <2>2. i \in DOMAIN disk' /\ disk'[i] = disk[i]
    BY <1>4, <2>1, RollStep DEF CrashInRoll, IInv
  <2> QED BY <2>2, UnchangedAllowed
<1>5. CASE UNCHANGED disk BY <1>5, UnchangedAllowed
<1> QED BY <1>1, <1>2, <1>3, <1>4, <1>5 DEF Next, Crash, Restart, vars

\* Every step of every behaviour appends to the newest file or, in a commit,
\* changes only files older than the newest two: what is sealed and recent, and
\* every byte written to the active segment, stays as it is.
THEOREM SealedImmutable == Spec => SealedSegmentsImmutable
<1>1. IInv /\ [Next]_vars => \A i \in DOMAIN disk : FileChangeAllowed(i)
  BY StepAllowed
<1>2. IInv /\ [Next]_vars =>
        [\A i \in DOMAIN disk :
           IF Committing
           THEN i + 1 >= active => i \in DOMAIN disk' /\ disk'[i] = disk[i]
           ELSE /\ i \in DOMAIN disk'
                /\ IF i < active THEN disk'[i] = disk[i]
                                 ELSE IsPrefix(disk[i], disk'[i])]_vars
  BY <1>1 DEF FileChangeAllowed
<1> QED BY <1>2, IInvHolds, PTL DEF Spec, SealedSegmentsImmutable
-----------------------------------------------------------------------------
(* Contents, and the invariant about recent writes. *)

\* The contents of files, of what a compaction scanned and of what it wrote.
ContentTypes ==
  /\ \A i \in DOMAIN disk : disk[i] \in Seq(DiskRecord)
  /\ \A c \in Compactors :
       /\ DOMAIN scanned[c] \subseteq stale[c]
       /\ \A i \in DOMAIN scanned[c] : scanned[c][i] \in Seq(DiskRecord)
       /\ outs[c] \in Seq(Seq(DiskRecord))

\* The acknowledged value of a key whose last record is in a recent segment.
RecentAcked ==
  \A k \in Key, i \in DOMAIN disk, j \in Nat :
    IsLastAt(disk, k, i, j) /\ i + 1 >= active => acked[k] = Answer(disk[i][j])

\* The index entry of such a key.
RecentIndexed ==
  up => \A k \in Key, i \in DOMAIN disk, j \in Nat :
    IsLastAt(disk, k, i, j) /\ i + 1 >= active =>
      IF disk[i][j].op = "del"
      THEN k \notin DOMAIN index
      ELSE k \in DOMAIN index /\ index[k] = Location(disk, i, j)

RInv == IInv /\ ContentTypes /\ RecentAcked /\ RecentIndexed

-----------------------------------------------------------------------------
(* Operators on contents. *)

\* What clients write are records of at least one byte, none of them cut.
LEMMA ClientRecordFact ==
  /\ ClientRecord \subseteq DiskRecord
  /\ \A r \in ClientRecord : r.size \in Nat \ {0} /\ r.op # "cut"
<1>1. ASSUME NEW k \in Key, NEW v \in Value
      PROVE  /\ PutRecord(k, v) \in DiskRecord
             /\ PutRecord(k, v).size \in Nat \ {0} /\ PutRecord(k, v).op # "cut"
  BY SizeAssumption DEF PutRecord, DiskRecord
<1>2. ASSUME NEW k \in Key
      PROVE  /\ DelRecord(k) \in DiskRecord
             /\ DelRecord(k).size \in Nat \ {0} /\ DelRecord(k).op # "cut"
  BY SizeAssumption DEF DelRecord, DiskRecord
<1> QED BY <1>1, <1>2 DEF ClientRecord

\* Files with ids up to the active one, holding records.
LEMMA DiskAreFiles ==
  ASSUME TypeOK, NewestIsActive, \A i \in DOMAIN disk : disk[i] \in Seq(DiskRecord)
  PROVE  AreFiles(disk, DiskRecord)
BY DEF TypeOK, StoreTypes, NewestIsActive, AreFiles

\* What a compaction scanned are files, finitely many, older than the newest two.
LEMMA ScannedAreFiles ==
  ASSUME IInv, ContentTypes, NEW c \in Compactors
  PROVE  /\ AreFiles(scanned[c], DiskRecord)
         /\ IsFiniteSet(DOMAIN scanned[c])
         /\ \A i \in DOMAIN scanned[c] : i \in Nat /\ i + 1 < active
<1>1. /\ DOMAIN scanned[c] \subseteq stale[c] /\ active \in Nat
      /\ \A i \in stale[c] : i \in Nat /\ i + 1 < active
  BY DEF IInv, TypeOK, StoreTypes, CompactionTypes, SealedSegmentsOnly, ContentTypes
<1>2. AreFiles(scanned[c], DiskRecord)
  <2>1. DOMAIN scanned[c] \subseteq Nat /\ \A i \in DOMAIN scanned[c] : i <= active BY <1>1
  <2>2. \A i \in DOMAIN scanned[c] : scanned[c][i] \in Seq(DiskRecord) BY DEF ContentTypes
  <2> QED BY <1>1, <2>1, <2>2 DEF AreFiles
<1>3. IsFiniteSet(DOMAIN scanned[c])
  <2>1. DOMAIN scanned[c] \in SUBSET Nat /\ \A i \in DOMAIN scanned[c] : i <= active BY <1>1
  <2> QED BY <1>1, <2>1, FS_BoundedSetOfNaturals
<1> QED BY <1>1, <1>2, <1>3

\* The record a live key's last one is rewritten to.
LEMMA RewrittenFact ==
  ASSUME NEW files, AreFiles(files, DiskRecord), NEW k \in LiveKeys(files)
  PROVE  /\ LastRecord(files, k) \in DiskRecord /\ LastRecord(files, k).key = k
         /\ Rewritten(LastRecord(files, k)) \in DiskRecord
         /\ Rewritten(LastRecord(files, k)).key = k
<1>1. PICK i, j : IsLastAt(files, k, i, j) BY LastAtExists DEF LiveKeys
<1>2. k \in Key /\ LastRecord(files, k) = files[i][j]
  <2>1. k \in Key BY DEF LiveKeys
  <2>2. DOMAIN files \subseteq Nat BY DEF AreFiles
  <2> QED BY <1>1, <2>1, <2>2, LastAtFact
<1>3. files[i][j] \in DiskRecord /\ files[i][j].key = k BY <1>1 DEF IsLastAt, AreFiles
<1>4. ASSUME NEW r \in DiskRecord PROVE Rewritten(r) \in DiskRecord /\ Rewritten(r).key = r.key
  <2>1. CASE r.op = "cut"
    <3>1. Rewritten(r) = [r EXCEPT !.op = "put", !.size = r.size + 1] BY <2>1 DEF Rewritten
    <3>2. r.size + 1 \in Nat BY DEF DiskRecord
    <3> QED BY <3>1, <3>2 DEF DiskRecord
  <2>2. CASE r.op # "cut" BY <2>2 DEF Rewritten
  <2> QED BY <2>1, <2>2
<1> QED BY <1>2, <1>3, <1>4

\* A write adds its record behind all others.
LEMMA AppendRecordAdds ==
  ASSUME IInv, ContentTypes, NEW r \in ClientRecord, AppendRecord(r)
  PROVE  /\ RecordAdded(disk, disk', active', r)
         /\ \A i \in DOMAIN disk' : disk'[i] \in Seq(DiskRecord)
<1>1. /\ active \in Nat /\ active \in DOMAIN disk /\ r \in DiskRecord
      /\ \A i \in DOMAIN disk : i \in Nat /\ i <= active /\ disk[i] \in Seq(DiskRecord)
  BY ClientRecordFact DEF IInv, TypeOK, StoreTypes, NewestIsActive, ContentTypes
<1>2. \A x \in DiskRecord : x.size \in Nat BY DEF DiskRecord
<1>3. CASE disk' = WithFile(disk, active, Append(disk[active], r)) /\ active' = active
  <2> DEFINE L == Len(disk[active])
  <2>1. disk[active] \in Seq(DiskRecord) /\ L \in Nat BY <1>1
  <2>2. /\ DOMAIN disk' = DOMAIN disk /\ disk'[active] = Append(disk[active], r)
        /\ \A i \in DOMAIN disk : i # active => disk'[i] = disk[i]
    BY <1>1, <1>3 DEF WithFile
  <2>3. /\ disk'[active] \in Seq(DiskRecord) /\ Len(disk'[active]) = L + 1
        /\ disk'[active][L + 1] = r
        /\ \A j \in 1..L : disk'[active][j] = disk[active][j]
    BY <1>1, <2>1, <2>2
  <2>4. \A j \in 1..L : Offset(disk'[active], j) = Offset(disk[active], j)
    <3> TAKE j \in 1..L
    <3>1. j \in 1..Len(disk[active]) + 1 BY <2>1
    <3> QED BY <1>1, <1>2, <2>1, <2>2, <3>1, OffsetAppend
  <2> HIDE DEF L
  <2>5. ASSUME NEW i \in DOMAIN disk, NEW j \in 1..Len(disk[i])
        PROVE  /\ i \in DOMAIN disk' /\ j \in 1..Len(disk'[i]) /\ disk'[i][j] = disk[i][j]
               /\ Offset(disk'[i], j) = Offset(disk[i], j)
               /\ i < active \/ (i = active /\ j < L + 1)
    <3>1. CASE i = active
      <4>1. j \in 1..L /\ j \in 1..L + 1 /\ j < L + 1 BY <2>1, <3>1 DEF L
      <4> QED BY <1>1, <2>2, <2>3, <2>4, <3>1, <4>1
    <3>2. CASE i # active BY <1>1, <2>2, <3>2
    <3> QED BY <3>1, <3>2
  <2>6. ASSUME NEW i \in DOMAIN disk', NEW j \in 1..Len(disk'[i])
        PROVE  (i = active /\ j = L + 1) \/ (i \in DOMAIN disk /\ j \in 1..Len(disk[i]))
    <3>1. CASE i = active BY <2>1, <2>2, <2>3, <3>1 DEF L
    <3>2. CASE i # active BY <2>2, <3>2
    <3> QED BY <3>1, <3>2
  <2>7. L + 1 \in 1..L + 1 BY <2>1
  <2>8. RecordAdded(disk, disk', active, r)
    BY <1>1, <2>2, <2>3, <2>5, <2>6, <2>7 DEF RecordAdded
  <2> QED BY <1>1, <1>3, <2>2, <2>3, <2>8
<1>4. CASE disk' = WithFile(disk, active + 1, <<r>>) /\ active' = active + 1
  <2>1. /\ DOMAIN disk' = DOMAIN disk \cup {active + 1} /\ disk'[active + 1] = <<r>>
        /\ \A i \in DOMAIN disk : i # active + 1 /\ disk'[i] = disk[i]
    BY <1>1, <1>4 DEF WithFile
  <2>2. /\ Len(disk'[active + 1]) = 1 /\ disk'[active + 1][1] = r
        /\ disk'[active + 1] \in Seq(DiskRecord)
    BY <1>1, <2>1
  <2>3. \A j \in 1..1 : j = 1 OBVIOUS
  <2>4. ASSUME NEW i \in DOMAIN disk', NEW j \in 1..Len(disk'[i])
        PROVE  (i = active + 1 /\ j = 1) \/ (i \in DOMAIN disk /\ j \in 1..Len(disk[i]))
    <3>1. CASE i = active + 1 BY <2>2, <2>3, <3>1
    <3>2. CASE i # active + 1 BY <2>1, <3>2
    <3> QED BY <3>1, <3>2
  <2>5. \A i \in DOMAIN disk : i < active + 1 BY <1>1
  <2>6. RecordAdded(disk, disk', active + 1, r)
    BY <2>1, <2>2, <2>4, <2>5 DEF RecordAdded
  <2> QED BY <1>1, <1>4, <2>1, <2>2, <2>6
<1> QED BY <1>3, <1>4 DEF AppendRecord

-----------------------------------------------------------------------------
(* What the steps share. *)

\* Files that lie below the two newest may change in any way.
LEMMA OldFilesChange ==
  ASSUME RecentAcked, RecentIndexed, active \in Nat, DOMAIN disk \subseteq Nat,
         DOMAIN disk' \subseteq Nat,
         \A i \in DOMAIN disk \cup DOMAIN disk' :
           i + 1 >= active =>
             i \in DOMAIN disk /\ i \in DOMAIN disk' /\ disk'[i] = disk[i],
         UNCHANGED <<active, acked, up, index>>
  PROVE  RecentAcked' /\ RecentIndexed'
<1>1. ASSUME NEW k \in Key, NEW i \in DOMAIN disk', NEW j \in Nat,
             IsLastAt(disk', k, i, j), i + 1 >= active'
      PROVE  /\ i \in DOMAIN disk /\ IsLastAt(disk, k, i, j) /\ i + 1 >= active
             /\ disk'[i][j] = disk[i][j] /\ Location(disk', i, j) = Location(disk, i, j)
  <2>1. i \in DOMAIN disk /\ disk'[i] = disk[i] /\ i + 1 >= active BY <1>1
  <2>2. ASSUME NEW x \in DOMAIN disk, NEW y \in 1..Len(disk[x]), disk[x][y].key = k
        PROVE  x < i \/ (x = i /\ y <= j)
    <3>1. CASE x + 1 >= active
      <4>1. x \in DOMAIN disk' /\ disk'[x] = disk[x] BY <3>1
      <4> QED BY <1>1, <2>2, <4>1 DEF IsLastAt
    <3>2. CASE ~(x + 1 >= active) BY <2>1, <3>2
    <3> QED BY <3>1, <3>2
  <2>3. IsLastAt(disk, k, i, j) BY <1>1, <2>1, <2>2 DEF IsLastAt
  <2> QED BY <2>1, <2>3 DEF Location
<1>2. RecentAcked' BY <1>1 DEF RecentAcked, Answer
<1>3. RecentIndexed' BY <1>1 DEF RecentIndexed
<1> QED BY <1>2, <1>3

\* A write of r to k, answered to the client and put into the index.
LEMMA RecentWriteStep ==
  ASSUME RInv, IInv', NEW r \in ClientRecord, AppendRecord(r),
         acked' = [acked EXCEPT ![r.key] = Answer(r)],
         r.op = "del" => index' = [x \in DOMAIN index \ {r.key} |-> index[x]],
         r.op # "del" =>
           index' = [x \in DOMAIN index \cup {r.key} |->
                       IF x = r.key THEN Location(disk', active', Len(disk'[active']))
                       ELSE index[x]],
         UNCHANGED <<up, compaction>>
  PROVE  RInv'
<1> DEFINE b == Len(disk'[active'])
<1>1. /\ RecordAdded(disk, disk', active', r)
      /\ \A i \in DOMAIN disk' : disk'[i] \in Seq(DiskRecord)
  BY AppendRecordAdds DEF RInv
<1>2. ContentTypes' BY <1>1 DEF RInv, ContentTypes, compaction
<1>3. /\ active \in Nat /\ active' \in Nat /\ active <= active'
      /\ DOMAIN disk \subseteq Nat /\ DOMAIN disk' \subseteq Nat /\ active' \in DOMAIN disk'
  BY AppendRecordStep DEF RInv, IInv, TypeOK, StoreTypes, NewestIsActive
<1>4. /\ IsLastAt(disk', r.key, active', b)
      /\ \A k, i, j : k # r.key => (IsLastAt(disk', k, i, j) <=> IsLastAt(disk, k, i, j))
  BY <1>1, <1>3, LastAfterAdd
<1>5. disk'[active'][b] = r BY <1>1 DEF RecordAdded
<1>6. ASSUME NEW i, NEW j, IsLastAt(disk', r.key, i, j)
      PROVE  i = active' /\ j = b
  <2>1. LastPosition(disk', r.key) = <<i, j>> BY <1>3, <1>6, LastAtUnique
  <2>2. LastPosition(disk', r.key) = <<active', b>> BY <1>3, <1>4, LastAtUnique
  <2> QED BY <2>1, <2>2
<1>7. ASSUME NEW k \in Key, k # r.key, NEW i \in DOMAIN disk', NEW j \in Nat,
             IsLastAt(disk', k, i, j), i + 1 >= active'
      PROVE  /\ i \in DOMAIN disk /\ IsLastAt(disk, k, i, j) /\ i + 1 >= active
             /\ disk'[i][j] = disk[i][j] /\ Location(disk', i, j) = Location(disk, i, j)
  <2>1. IsLastAt(disk, k, i, j) BY <1>4, <1>7
  <2>2. i \in DOMAIN disk /\ j \in 1..Len(disk[i]) BY <2>1 DEF IsLastAt
  <2>3. disk'[i][j] = disk[i][j] /\ Offset(disk'[i], j) = Offset(disk[i], j)
    BY <1>1, <2>2 DEF RecordAdded
  <2>4. i + 1 >= active BY <1>3, <1>7
  <2> QED BY <2>1, <2>2, <2>3, <2>4 DEF Location
<1> HIDE DEF b
<1>8. r.key \in Key BY ClientRecordFact DEF DiskRecord
<1>9. RecentAcked'
  <2>1. SUFFICES ASSUME NEW k \in Key, NEW i \in DOMAIN disk', NEW j \in Nat,
                        IsLastAt(disk', k, i, j), i + 1 >= active'
                 PROVE  acked'[k] = Answer(disk'[i][j])
    BY DEF RecentAcked, Answer
  <2>2. acked \in [Key -> Value \cup {NotFound}] BY DEF RInv, IInv, TypeOK, StoreTypes
  <2>3. CASE k = r.key BY <1>5, <1>6, <1>8, <2>1, <2>2, <2>3
  <2>4. CASE k # r.key
    <3>1. /\ i \in DOMAIN disk /\ IsLastAt(disk, k, i, j) /\ i + 1 >= active
          /\ disk'[i][j] = disk[i][j]
      BY <1>7, <2>1, <2>4
    <3>2. acked[k] = Answer(disk[i][j]) BY <3>1 DEF RInv, RecentAcked
    <3> QED BY <2>2, <2>4, <3>1, <3>2
  <2> QED BY <2>3, <2>4
<1>10. RecentIndexed'
  <2>1. SUFFICES ASSUME NEW k \in Key, NEW i \in DOMAIN disk', NEW j \in Nat, up,
                        IsLastAt(disk', k, i, j), i + 1 >= active'
                 PROVE  IF disk'[i][j].op = "del"
                        THEN k \notin DOMAIN index'
                        ELSE k \in DOMAIN index' /\ index'[k] = Location(disk', i, j)
    BY DEF RecentIndexed
  <2>2. CASE k = r.key
    <3>1. i = active' /\ j = b /\ disk'[i][j] = r BY <1>5, <1>6, <2>1, <2>2
    <3> QED BY <2>2, <3>1 DEF b
  <2>3. CASE k # r.key
    <3>1. /\ i \in DOMAIN disk /\ IsLastAt(disk, k, i, j) /\ i + 1 >= active
          /\ disk'[i][j] = disk[i][j] /\ Location(disk', i, j) = Location(disk, i, j)
      BY <1>7, <2>1, <2>3
    <3>2. IF disk[i][j].op = "del"
          THEN k \notin DOMAIN index
          ELSE k \in DOMAIN index /\ index[k] = Location(disk, i, j)
      BY <2>1, <3>1 DEF RInv, RecentIndexed
    <3>3. (k \in DOMAIN index' <=> k \in DOMAIN index)
          /\ (k \in DOMAIN index => index'[k] = index[k])
      BY <2>3
    <3> QED BY <3>1, <3>2, <3>3
  <2> QED BY <2>2, <2>3
<1> QED BY <1>2, <1>9, <1>10 DEF RInv

\* Giving up a compaction, or finishing it, drops what it read and wrote.
LEMMA ForgetContent ==
  ASSUME ContentTypes, CompactionTypes, NEW c \in Compactors, Forget(c),
         \A i \in DOMAIN disk' : disk'[i] \in Seq(DiskRecord)
  PROVE  ContentTypes'
<1>1. /\ stale' = [stale EXCEPT ![c] = {}] /\ outs' = [outs EXCEPT ![c] = <<>>]
      /\ scanned' = [scanned EXCEPT ![c] = [i \in {} |-> <<>>]]
      /\ DOMAIN stale = Compactors /\ DOMAIN outs = Compactors /\ DOMAIN scanned = Compactors
  BY DEF Forget, CompactionTypes
<1>2. <<>> \in Seq(Seq(DiskRecord)) OBVIOUS
<1>3. ASSUME NEW d \in Compactors
      PROVE  /\ DOMAIN scanned'[d] \subseteq stale'[d]
             /\ \A i \in DOMAIN scanned'[d] : scanned'[d][i] \in Seq(DiskRecord)
             /\ outs'[d] \in Seq(Seq(DiskRecord))
  <2>1. CASE d = c BY <1>1, <1>2, <2>1
  <2>2. CASE d # c BY <1>1, <2>2 DEF ContentTypes
  <2> QED BY <2>1, <2>2
<1> QED BY <1>3 DEF ContentTypes

\* The end of the process leaves nothing in memory to be wrong.
LEMMA StopContent ==
  ASSUME RInv, Stop, DOMAIN disk \subseteq Nat, active \in Nat, active' \in Nat,
         active <= active', DOMAIN disk' \subseteq Nat,
         \A i \in DOMAIN disk' : disk'[i] \in Seq(DiskRecord),
         \A i \in DOMAIN disk : i \in DOMAIN disk' /\ disk'[i] = disk[i],
         \A i \in DOMAIN disk' : i \notin DOMAIN disk => disk'[i] = <<>>
  PROVE  ContentTypes' /\ RecentAcked' /\ RecentIndexed'
<1>1. <<>> \in Seq(Seq(DiskRecord)) OBVIOUS
<1>2. ContentTypes' BY <1>1 DEF Stop, ContentTypes
<1>3. RecentIndexed' BY DEF Stop, RecentIndexed
<1>4. ASSUME NEW k \in Key, NEW i \in DOMAIN disk', NEW j \in Nat,
             IsLastAt(disk', k, i, j), i + 1 >= active'
      PROVE  acked'[k] = Answer(disk'[i][j])
  <2>1. j \in 1..Len(disk'[i]) /\ disk'[i][j].key = k BY <1>4 DEF IsLastAt
  <2>2. Len(<<>>) = 0 /\ \A y \in 1..0 : FALSE OBVIOUS
  <2>3. i \in DOMAIN disk BY <2>1, <2>2
  <2>4. IsLastAt(disk, k, i, j) BY <1>4, <2>1, <2>3 DEF IsLastAt
  <2>5. i + 1 >= active BY <1>4, <2>3
  <2>6. acked[k] = Answer(disk[i][j]) BY <2>3, <2>4, <2>5 DEF RInv, RecentAcked
  <2> QED BY <2>3, <2>6 DEF Stop
<1>5. RecentAcked' BY <1>4 DEF RecentAcked, Answer
<1> QED BY <1>2, <1>3, <1>5

\* A process that goes down leaves the contents as they are.
LEMMA StopInPlaceContent ==
  ASSUME RInv, Stop, UNCHANGED <<disk, active>>
  PROVE  RInv'
<1>1. IInv' BY StopInPlace DEF RInv
<1>2. DOMAIN disk \subseteq Nat /\ active \in Nat BY DEF RInv, IInv, TypeOK, StoreTypes
<1>3. active <= active BY <1>2
<1>4. \A i \in DOMAIN disk : disk[i] \in Seq(DiskRecord) BY DEF RInv, ContentTypes
<1>5. ContentTypes' /\ RecentAcked' /\ RecentIndexed' BY <1>2, <1>3, <1>4, StopContent
<1> QED BY <1>1, <1>5 DEF RInv

\* A step that changes neither files nor index.
LEMMA NoClientChange ==
  ASSUME RecentAcked, RecentIndexed, UNCHANGED <<disk, active, index, up, acked>>
  PROVE  RecentAcked' /\ RecentIndexed'
<1>1. RecentAcked' BY DEF RecentAcked, Answer, IsLastAt
<1>2. RecentIndexed' BY DEF RecentIndexed, IsLastAt, Location
<1> QED BY <1>1, <1>2

-----------------------------------------------------------------------------
(* The invariant is inductive. *)

LEMMA InitRInv == Init => RInv
<1> SUFFICES ASSUME Init PROVE RInv OBVIOUS
<1>1. IInv BY InitIInv
<1>2. ContentTypes
  <2>1. <<>> \in Seq(DiskRecord) /\ <<>> \in Seq(Seq(DiskRecord)) OBVIOUS
  <2> QED BY <2>1 DEF Init, ContentTypes
<1>3. \A k, i, j : ~IsLastAt(disk, k, i, j)
  <2>1. Len(<<>>) = 0 /\ \A y \in 1..0 : FALSE OBVIOUS
  <2>2. \A i \in DOMAIN disk : disk[i] = <<>> BY DEF Init
  <2> QED BY <2>1, <2>2 DEF IsLastAt
<1>4. RecentAcked /\ RecentIndexed BY <1>3 DEF RecentAcked, RecentIndexed
<1> QED BY <1>1, <1>2, <1>4 DEF RInv

LEMMA RecentPut ==
  ASSUME RInv, IInv', NEW k \in Key, NEW v \in Value, Put(k, v)
  PROVE  RInv'
<1> DEFINE r == PutRecord(k, v)
<1>1. r \in ClientRecord /\ r.key = k /\ r.op # "del" /\ Answer(r) = v
  BY DEF ClientRecord, PutRecord, Answer
<1> HIDE DEF r
<1>2. AppendRecord(r) /\ UNCHANGED <<up, compaction>> BY DEF Put, r
<1> QED BY <1>1, <1>2, RecentWriteStep DEF Put

LEMMA RecentDelete ==
  ASSUME RInv, IInv', NEW k \in DeletableKeys, Delete(k)
  PROVE  RInv'
<1> DEFINE r == DelRecord(k)
<1>1. k \in Key BY StoreAssumption
<1>2. r \in ClientRecord /\ r.key = k /\ r.op = "del" /\ Answer(r) = NotFound
  BY <1>1 DEF ClientRecord, DelRecord, Answer
<1> HIDE DEF r
<1>3. AppendRecord(r) /\ UNCHANGED <<up, compaction>> BY DEF Delete, r
<1> QED BY <1>2, <1>3, RecentWriteStep DEF Delete

LEMMA RecentStart ==
  ASSUME RInv, IInv', NEW c \in Compactors, StartCompaction(c)
  PROVE  RInv'
<1>1. RecentAcked' /\ RecentIndexed' BY NoClientChange DEF RInv, StartCompaction
<1>2. DOMAIN scanned[c] = {}
  BY DEF RInv, IInv, TypeOK, Bookkeeping, ContentTypes, StartCompaction
<1>3. /\ UNCHANGED <<disk, scanned, outs>> /\ \A d \in Compactors : d # c => stale'[d] = stale[d]
  BY DEF StartCompaction, RInv, IInv, TypeOK, CompactionTypes
<1>4. ContentTypes' BY <1>2, <1>3 DEF RInv, ContentTypes
<1> QED BY <1>1, <1>4 DEF RInv

LEMMA RecentScan ==
  ASSUME RInv, IInv', NEW c \in Compactors, ScanFile(c)
  PROVE  RInv'
<1>1. RecentAcked' /\ RecentIndexed' BY NoClientChange DEF RInv, ScanFile
<1>2. CASE Forget(c)
  BY <1>1, <1>2, ForgetContent DEF RInv, IInv, TypeOK, ScanFile, ContentTypes
<1>3. CASE \E i \in todo[c] :
             /\ i \in DOMAIN disk
             /\ scanned' = [scanned EXCEPT ![c] = WithFile(@, i, disk[i])]
             /\ UNCHANGED <<disk, stale, outs>>
  <2>1. PICK i \in todo[c] :
          /\ i \in DOMAIN disk
          /\ scanned' = [scanned EXCEPT ![c] = WithFile(@, i, disk[i])]
          /\ UNCHANGED <<disk, stale, outs>>
    BY <1>3
  <2>2. i \in stale[c] BY DEF RInv, IInv, TypeOK, Bookkeeping
  <2>3. scanned'[c] = WithFile(scanned[c], i, disk[i])
        /\ \A d \in Compactors : d # c => scanned'[d] = scanned[d]
    BY <2>1 DEF RInv, IInv, TypeOK, CompactionTypes
  <2>4. /\ DOMAIN scanned'[c] = DOMAIN scanned[c] \cup {i}
        /\ \A x \in DOMAIN scanned'[c] :
             scanned'[c][x] = disk[i] \/ (x \in DOMAIN scanned[c] /\ scanned'[c][x] = scanned[c][x])
    BY <2>3 DEF WithFile
  <2>5. ContentTypes' BY <2>1, <2>2, <2>3, <2>4 DEF RInv, ContentTypes
  <2> QED BY <1>1, <2>5 DEF RInv
<1> QED BY <1>2, <1>3 DEF ScanFile

\* The survivors are records, packed into files.
LEMMA SurvivorsFact ==
  ASSUME NEW files, AreFiles(files, DiskRecord), IsFiniteSet(DOMAIN files),
         NEW order \in SetToSeqs(LiveKeys(files)), NEW records,
         records = [j \in DOMAIN order |-> Rewritten(LastRecord(files, order[j]))]
  PROVE  /\ records \in Seq(DiskRecord) /\ Len(records) = Len(order)
         /\ order \in Seq(LiveKeys(files))
         /\ \A m, n \in 1..Len(records) : records[m].key = records[n].key => m = n
         /\ \A k \in LiveKeys(files) :
              \E m \in 1..Len(records) : records[m] = Rewritten(LastRecord(files, k))
         /\ \A m \in 1..Len(records) :
              /\ records[m].key \in LiveKeys(files)
              /\ records[m] = Rewritten(LastRecord(files, records[m].key))
<1>1. IsFiniteSet(LiveKeys(files)) BY LiveKeysFinite DEF AreFiles
<1>2. /\ order \in Seq(LiveKeys(files)) /\ Len(order) \in Nat
      /\ \A i, j \in DOMAIN order : order[i] = order[j] => i = j
      /\ \A x \in LiveKeys(files) : \E i \in DOMAIN order : order[i] = x
  BY <1>1, SetToSeqsFact
<1>3. DOMAIN order = 1..Len(order) BY <1>2
<1>4. \A j \in 1..Len(order) :
        /\ order[j] \in LiveKeys(files) /\ records[j] = Rewritten(LastRecord(files, order[j]))
        /\ records[j] \in DiskRecord /\ records[j].key = order[j]
  <2> TAKE j \in 1..Len(order)
  <2>1. order[j] \in LiveKeys(files) BY <1>2
  <2>2. records[j] = Rewritten(LastRecord(files, order[j])) BY <1>3
  <2> QED BY <2>1, <2>2, RewrittenFact
<1>5. records \in Seq(DiskRecord) /\ Len(records) = Len(order)
  <2>1. records \in [1..Len(order) -> DiskRecord] BY <1>3, <1>4
  <2> QED BY <1>2, <2>1
<1>6. \A m, n \in 1..Len(records) : records[m].key = records[n].key => m = n
  BY <1>2, <1>3, <1>4, <1>5
<1>7. \A k \in LiveKeys(files) :
        \E m \in 1..Len(records) : records[m] = Rewritten(LastRecord(files, k))
  BY <1>2, <1>3, <1>4, <1>5
<1>8. \A m \in 1..Len(records) :
        /\ records[m].key \in LiveKeys(files)
        /\ records[m] = Rewritten(LastRecord(files, records[m].key))
  BY <1>4, <1>5
<1> QED BY <1>2, <1>5, <1>6, <1>7, <1>8

LEMMA RecentWriteSurvivors ==
  ASSUME RInv, IInv', NEW c \in Compactors, WriteSurvivors(c)
  PROVE  RInv'
<1>1. RecentAcked' /\ RecentIndexed' BY NoClientChange DEF RInv, WriteSurvivors
<1>2. CASE Forget(c)
  BY <1>1, <1>2, ForgetContent DEF RInv, IInv, TypeOK, WriteSurvivors, ContentTypes
<1>3. CASE /\ \E order \in SetToSeqs(LiveKeys(scanned[c])) :
                outs' = [outs EXCEPT ![c] =
                  Pack([j \in DOMAIN order |-> Rewritten(LastRecord(scanned[c], order[j]))],
                       CompactorSegmentSize)]
           /\ UNCHANGED <<stale, scanned>>
  <2>1. PICK order \in SetToSeqs(LiveKeys(scanned[c])) :
          outs' = [outs EXCEPT ![c] =
            Pack([j \in DOMAIN order |-> Rewritten(LastRecord(scanned[c], order[j]))],
                 CompactorSegmentSize)]
    BY <1>3
  <2> DEFINE records == [j \in DOMAIN order |-> Rewritten(LastRecord(scanned[c], order[j]))]
  <2>2. records \in Seq(DiskRecord) BY ScannedAreFiles, SurvivorsFact DEF RInv
  <2> HIDE DEF records
  <2>3. Pack(records, CompactorSegmentSize) \in Seq(Seq(DiskRecord)) BY <2>2, PackFact
  <2>4. /\ outs'[c] = Pack(records, CompactorSegmentSize)
        /\ \A d \in Compactors : d # c => outs'[d] = outs[d]
    BY <2>1 DEF RInv, IInv, TypeOK, CompactionTypes, records
  <2>5. UNCHANGED disk BY DEF WriteSurvivors
  <2>6. ContentTypes' BY <1>3, <2>3, <2>4, <2>5 DEF RInv, ContentTypes
  <2> QED BY <1>1, <2>6 DEF RInv
<1> QED BY <1>2, <1>3 DEF WriteSurvivors

LEMMA RecentBegin ==
  ASSUME RInv, IInv', NEW c \in Compactors, BeginCommit(c) \/ BeginRemove(c)
  PROVE  RInv'
<1>1. UNCHANGED <<disk, active, index, up, acked, stale, scanned, outs>>
  BY DEF BeginCommit, BeginRemove
<1>2. RecentAcked' /\ RecentIndexed' BY <1>1, NoClientChange DEF RInv
<1>3. ContentTypes' BY <1>1 DEF RInv, ContentTypes
<1> QED BY <1>2, <1>3 DEF RInv

LEMMA RecentForget ==
  ASSUME RInv, IInv', NEW c \in Compactors, Forget(c),
         UNCHANGED <<disk, active, index, up, acked>>
  PROVE  RInv'
<1>1. RecentAcked' /\ RecentIndexed' BY NoClientChange DEF RInv
<1>2. ContentTypes' BY ForgetContent DEF RInv, IInv, TypeOK, ContentTypes
<1> QED BY <1>1, <1>2 DEF RInv

\* What is renamed onto an old id are records.
LEMMA WrittenFact ==
  ASSUME ContentTypes, CompactionTypes, NEW c \in Compactors, renamed[c] < Len(outs[c])
  PROVE  Written(c, Len(outs[c]) - renamed[c]) \in Seq(DiskRecord)
<1> DEFINE j == Len(outs[c]) - renamed[c]
<1>1. outs[c] \in Seq(Seq(DiskRecord)) /\ renamed[c] \in Nat /\ Len(outs[c]) \in Nat
  BY DEF ContentTypes, CompactionTypes
<1>2. j \in 1..Len(outs[c]) BY <1>1
<1>3. outs[c][j] \in Seq(DiskRecord) BY <1>1, <1>2
<1>4. Unflushed(outs[c][j], CompactorBufferSize) \in Seq(DiskRecord)
  BY <1>3, UnflushedFact, StoreAssumption
<1> QED BY <1>3, <1>4 DEF Written

LEMMA RecentRename ==
  ASSUME RInv, IInv', NEW c \in Compactors, Rename(c)
  PROVE  RInv'
<1>1. PICK last \in stale[c] :
        IF TargetId(last, renamed[c]) > 0
        THEN /\ disk' = WithFile(disk, TargetId(last, renamed[c]),
                                  Written(c, Len(outs[c]) - renamed[c]))
             /\ renamed' = [renamed EXCEPT ![c] = @ + 1]
             /\ UNCHANGED <<pc, stale, todo, scanned, outs>>
        ELSE Forget(c) /\ UNCHANGED disk
  BY DEF Rename
<1>2. UNCHANGED <<active, index, up, acked>> /\ renamed[c] < Len(outs[c]) BY DEF Rename
<1>3. CASE ~(TargetId(last, renamed[c]) > 0) BY <1>1, <1>2, <1>3, RecentForget
<1>4. CASE TargetId(last, renamed[c]) > 0
  <2> DEFINE target == TargetId(last, renamed[c])
             content == Written(c, Len(outs[c]) - renamed[c])
  <2>1. target \in Nat \ {0} /\ target + 1 < active BY <1>4, RenameTarget DEF RInv
  <2>2. content \in Seq(DiskRecord) BY <1>2, WrittenFact DEF RInv, IInv, TypeOK
  <2>3. disk' = WithFile(disk, target, content) BY <1>1, <1>4
  <2> HIDE DEF target, content
  <2>4. /\ DOMAIN disk' = DOMAIN disk \cup {target} /\ disk'[target] = content
        /\ \A i \in DOMAIN disk : i # target => disk'[i] = disk[i]
    BY <2>3 DEF WithFile
  <2>5. active \in Nat /\ DOMAIN disk \subseteq Nat /\ DOMAIN disk' \subseteq Nat
    BY <2>1, <2>4 DEF RInv, IInv, TypeOK, StoreTypes
  <2>6. \A i \in DOMAIN disk \cup DOMAIN disk' :
          i + 1 >= active => i \in DOMAIN disk /\ i \in DOMAIN disk' /\ disk'[i] = disk[i]
    <3> TAKE i \in DOMAIN disk \cup DOMAIN disk'
    <3>1. CASE i = target BY <2>1, <2>5, <3>1
    <3>2. CASE i # target BY <2>4, <3>2
    <3> QED BY <3>1, <3>2
  <2>7. RecentAcked' /\ RecentIndexed' BY <1>2, <2>5, <2>6, OldFilesChange DEF RInv
  <2>8. \A i \in DOMAIN disk' : disk'[i] \in Seq(DiskRecord)
    BY <2>2, <2>4 DEF RInv, ContentTypes
  <2>9. ContentTypes' BY <1>1, <1>4, <2>8 DEF RInv, ContentTypes
  <2> QED BY <2>7, <2>9 DEF RInv
<1> QED BY <1>3, <1>4

LEMMA RecentRemove ==
  ASSUME RInv, IInv', NEW c \in Compactors, RemoveStale(c)
  PROVE  RInv'
<1>1. PICK i \in todo[c] :
        IF i \in DOMAIN disk
        THEN disk' = WithoutFile(disk, i) /\ UNCHANGED <<pc, stale, scanned, outs, renamed>>
        ELSE Forget(c) /\ UNCHANGED disk
  BY DEF RemoveStale
<1>2. UNCHANGED <<active, index, up, acked>> BY DEF RemoveStale
<1>3. CASE i \notin DOMAIN disk BY <1>1, <1>2, <1>3, RecentForget
<1>4. CASE i \in DOMAIN disk
  <2>1. /\ DOMAIN disk' = DOMAIN disk \ {i}
        /\ \A x \in DOMAIN disk \ {i} : disk'[x] = disk[x]
    BY <1>1, <1>4 DEF WithoutFile, Restrict
  <2>2. i \in Nat /\ i + 1 < active
    BY DEF RInv, IInv, TypeOK, CompactionTypes, Bookkeeping, SealedSegmentsOnly
  <2>3. active \in Nat /\ DOMAIN disk \subseteq Nat /\ DOMAIN disk' \subseteq Nat
    BY <2>1 DEF RInv, IInv, TypeOK, StoreTypes
  <2>4. \A x \in DOMAIN disk \cup DOMAIN disk' :
          x + 1 >= active => x \in DOMAIN disk /\ x \in DOMAIN disk' /\ disk'[x] = disk[x]
    BY <2>1, <2>2, <2>3
  <2>5. RecentAcked' /\ RecentIndexed' BY <1>2, <2>3, <2>4, OldFilesChange DEF RInv
  <2>6. ContentTypes' BY <1>1, <1>4, <2>1 DEF RInv, ContentTypes
  <2> QED BY <2>5, <2>6 DEF RInv
<1> QED BY <1>3, <1>4

\* Updating the index after a commit leaves the entries of recent writes alone:
\* they are in segments newer than any that was scanned.
LEMMA RecentReindex ==
  ASSUME RInv, IInv', NEW c \in Compactors, Reindex(c)
  PROVE  RInv'
<1>1. PICK last \in stale[c] :
        index' = [k \in DOMAIN index |->
                    IF k \notin LiveKeys(scanned[c]) \/ Superseded(c, k)
                    THEN index[k]
                    ELSE CompactedLocation(c, last, k)]
  BY DEF Reindex
<1>2. Forget(c) /\ UNCHANGED <<disk, active, up, acked>> BY DEF Reindex
<1>3. ContentTypes' BY <1>2, ForgetContent DEF RInv, IInv, TypeOK, ContentTypes
<1>4. RecentAcked' BY <1>2 DEF RInv, RecentAcked, Answer, IsLastAt
<1>5. ASSUME NEW k \in Key, NEW i \in DOMAIN disk, NEW j \in Nat, up,
             IsLastAt(disk, k, i, j), i + 1 >= active
      PROVE  IF disk[i][j].op = "del"
             THEN k \notin DOMAIN index'
             ELSE k \in DOMAIN index' /\ index'[k] = Location(disk, i, j)
  <2>1. IF disk[i][j].op = "del"
        THEN k \notin DOMAIN index
        ELSE k \in DOMAIN index /\ index[k] = Location(disk, i, j)
    BY <1>5 DEF RInv, RecentIndexed
  <2>2. CASE disk[i][j].op = "del" BY <1>1, <2>1, <2>2
  <2>3. CASE disk[i][j].op # "del" /\ k \notin LiveKeys(scanned[c]) BY <1>1, <2>1, <2>3
  <2>4. CASE disk[i][j].op # "del" /\ k \in LiveKeys(scanned[c])
    <3>1. index[k].segment = i BY <2>1, <2>4 DEF Location
    <3>2. AreFiles(scanned[c], DiskRecord) /\ \A x \in DOMAIN scanned[c] : x \in Nat /\ x + 1 < active
      BY ScannedAreFiles DEF RInv
    <3>3. PICK x, y : IsLastAt(scanned[c], k, x, y)
      BY <2>4, <3>2, LastAtExists DEF LiveKeys
    <3>4. LastPosition(scanned[c], k)[1] = x /\ x \in Nat /\ x + 1 < active
      <4>1. DOMAIN scanned[c] \subseteq Nat /\ x \in DOMAIN scanned[c]
        BY <3>2, <3>3 DEF IsLastAt
      <4> QED BY <3>2, <3>3, <4>1, LastAtFact
    <3>5. i \in Nat /\ active \in Nat BY DEF RInv, IInv, TypeOK, StoreTypes
    <3>6. Superseded(c, k) BY <1>5, <3>1, <3>4, <3>5 DEF Superseded
    <3> QED BY <1>1, <2>1, <2>4, <3>6
  <2> QED BY <2>2, <2>3, <2>4
<1>6. RecentIndexed' BY <1>2, <1>5 DEF RecentIndexed, IsLastAt, Location
<1> QED BY <1>3, <1>4, <1>6 DEF RInv

\* A kill while the next segment is created adds an empty file.
LEMMA RecentCrashInRoll ==
  ASSUME RInv, IInv', NEW k \in Key, NEW v \in Value, CrashInRoll(k, v)
  PROVE  RInv'
<1>1. /\ active \in Nat /\ DOMAIN disk \subseteq Nat /\ \A i \in DOMAIN disk : i <= active
      /\ \A i \in DOMAIN disk : disk[i] \in Seq(DiskRecord)
  BY DEF RInv, IInv, TypeOK, StoreTypes, NewestIsActive, ContentTypes
<1>2. /\ DOMAIN disk' = DOMAIN disk \cup {active + 1} /\ disk'[active + 1] = <<>>
      /\ \A i \in DOMAIN disk : i # active + 1 /\ disk'[i] = disk[i]
      /\ active' = active + 1 /\ Stop
  BY <1>1 DEF CrashInRoll, WithFile
<1>3. <<>> \in Seq(DiskRecord) OBVIOUS
<1>4. \A i \in DOMAIN disk' : disk'[i] \in Seq(DiskRecord) BY <1>1, <1>2, <1>3
<1>5. DOMAIN disk' \subseteq Nat /\ active' \in Nat /\ active <= active' BY <1>1, <1>2
<1>6. ContentTypes' /\ RecentAcked' /\ RecentIndexed'
  BY <1>1, <1>2, <1>4, <1>5, StopContent
<1> QED BY <1>6 DEF RInv

\* A start finds every recent write where the replay of the files puts it.
LEMMA RecentRestart ==
  ASSUME RInv, IInv', Restart
  PROVE  RInv'
<1>1. active' = active BY DEF Restart, IsLast, RInv, IInv, TypeOK, StoreTypes, NewestIsActive
<1>2. UNCHANGED <<disk, acked, compaction>> /\ index' = Populate(disk) BY DEF Restart
<1>3. ContentTypes' BY <1>2 DEF RInv, ContentTypes, compaction
<1>4. RecentAcked' BY <1>1, <1>2 DEF RInv, RecentAcked, Answer, IsLastAt
<1>5. DOMAIN disk \subseteq Nat BY DEF RInv, IInv, TypeOK, StoreTypes
<1>6. ASSUME NEW k \in Key, NEW i \in DOMAIN disk, NEW j \in Nat, IsLastAt(disk, k, i, j)
      PROVE  IF disk[i][j].op = "del"
             THEN k \notin DOMAIN index'
             ELSE k \in DOMAIN index' /\ index'[k] = Location(disk, i, j)
  <2>1. DOMAIN index' = LiveKeys(disk) BY <1>2 DEF Populate
  <2> QED BY <1>2, <1>5, <1>6, <2>1, LastAtFact
<1>7. RecentIndexed' BY <1>2, <1>6 DEF RecentIndexed, IsLastAt, Location
<1> QED BY <1>3, <1>4, <1>7 DEF RInv

LEMMA NextRInv == RInv /\ [Next]_vars => RInv'
<1> SUFFICES ASSUME RInv, [Next]_vars PROVE RInv' OBVIOUS
<1>0. IInv' BY NextIInv DEF RInv
<1>1. ASSUME NEW k \in Key, NEW v \in Value, Put(k, v) PROVE RInv' BY <1>0, <1>1, RecentPut
<1>2. ASSUME NEW k \in DeletableKeys, Delete(k) PROVE RInv' BY <1>0, <1>2, RecentDelete
<1>3. ASSUME NEW c \in Compactors, Compact(c) PROVE RInv'
  <2>1. CASE PanicOnSlice(c) BY <1>0, <2>1, RecentForget, StopInPlaceContent DEF PanicOnSlice
  <2>2. CASE Fail(c) BY <1>0, <2>2, RecentForget DEF Fail
  <2> QED BY <1>0, <1>3, <2>1, <2>2, RecentStart, RecentScan, RecentWriteSurvivors,
             RecentBegin, RecentRename, RecentRemove, RecentReindex DEF Compact
<1>4. CASE Crash BY <1>4, StopInPlaceContent DEF Crash
<1>5. ASSUME NEW k \in Key, NEW v \in Value, CrashInRoll(k, v) PROVE RInv'
  BY <1>0, <1>5, RecentCrashInRoll
<1>6. CASE Restart BY <1>0, <1>6, RecentRestart
<1>7. CASE UNCHANGED vars
  <2>1. ContentTypes' BY <1>7 DEF RInv, ContentTypes, vars, compaction
  <2>2. RecentAcked' /\ RecentIndexed' BY <1>7, NoClientChange DEF RInv, vars
  <2> QED BY <1>0, <2>1, <2>2 DEF RInv
<1> QED BY <1>1, <1>2, <1>3, <1>4, <1>5, <1>6, <1>7 DEF Next

\* Recent writes are safe, with the types of contents the argument rests on.
THEOREM RInvHolds == Spec => []RInv
BY InitRInv, NextRInv, PTL DEF Spec

\* The two halves of the invariant are the property.
LEMMA RInvSuffices == RInv => RecentWritesSafe
<1> SUFFICES ASSUME RInv, up, NEW k \in Key, Positions(disk, k) # {},
                    LastPosition(disk, k)[1] + 1 >= active
             PROVE  LET p == LastPosition(disk, k)
                        r == LastRecord(disk, k)
                    IN  /\ acked[k] = IF r.op = "del" THEN NotFound ELSE r.val
                        /\ IF r.op = "del"
                           THEN k \notin DOMAIN index
                           ELSE k \in DOMAIN index /\ index[k] = Location(disk, p[1], p[2])
  BY DEF RecentWritesSafe
<1>1. AreFiles(disk, DiskRecord) BY DiskAreFiles DEF RInv, IInv, ContentTypes
<1>2. DOMAIN disk \subseteq Nat BY <1>1 DEF AreFiles
<1>3. PICK i, j : IsLastAt(disk, k, i, j) BY <1>1, LastAtExists
<1>4. i \in DOMAIN disk /\ j \in Nat BY <1>3 DEF IsLastAt
<1>5. /\ LastPosition(disk, k)[1] = i /\ LastPosition(disk, k)[2] = j
      /\ LastRecord(disk, k) = disk[i][j]
  BY <1>2, <1>3, LastAtFact
<1>6. acked[k] = Answer(disk[i][j]) BY <1>3, <1>4, <1>5 DEF RInv, RecentAcked
<1>7. IF disk[i][j].op = "del"
      THEN k \notin DOMAIN index
      ELSE k \in DOMAIN index /\ index[k] = Location(disk, i, j)
  BY <1>3, <1>4, <1>5 DEF RInv, RecentIndexed
<1> QED BY <1>5, <1>6, <1>7 DEF Answer

\* No interleaving of writes, compactions, failing calls, kills and restarts
\* loses a write that is in one of the two newest segments: its record is the
\* acknowledged one and the index leads to it.
THEOREM RecentSafe == Spec => []RecentWritesSafe
BY RInvHolds, RInvSuffices, PTL

-----------------------------------------------------------------------------
(* What compactions write. *)

\* No put fits in the compactor's buffer, so that bufio passes each to the file.
Unbuffered == \A v \in Value : SizeOf[v] > CompactorBufferSize

PutRecords == {PutRecord(k, v) : k \in Key, v \in Value}

ClientFiles(files) == files \in [DOMAIN files -> Seq(ClientRecord)]

\* Every file holds what clients wrote, and outputs hold puts only.
ClientContent ==
  /\ ClientFiles(disk)
  /\ \A c \in Compactors :
       /\ ClientFiles(scanned[c])
       /\ outs[c] \in Seq(Seq(PutRecords))

CInv == RInv /\ ClientContent

-----------------------------------------------------------------------------
(* Operators. *)

\* A sequence whose elements are all in T is a sequence over T.
LEMMA SeqOfSubset ==
  ASSUME NEW S, NEW T, NEW s \in Seq(S), \A i \in 1..Len(s) : s[i] \in T
  PROVE  s \in Seq(T)
<1>1. PICK n \in Nat : s \in [1..n -> S] /\ Len(s) = n OBVIOUS
<1>2. s \in [1..n -> T] BY <1>1
<1> QED BY <1>1, <1>2

\* A put is a record that clients write, of at least one byte.
LEMMA PutRecordsFact ==
  /\ PutRecords \subseteq ClientRecord /\ PutRecords \subseteq DiskRecord
  /\ \A r \in PutRecords : r.op = "put" /\ r.size \in Nat \ {0} /\ r.val \in Value
  /\ \A r \in ClientRecord : r.op # "del" => r \in PutRecords
  /\ \A r \in ClientRecord : Rewritten(r) = r
<1>1. PutRecords \subseteq ClientRecord BY DEF PutRecords, ClientRecord
<1>2. PutRecords \subseteq DiskRecord BY <1>1, ClientRecordFact
<1>3. \A r \in PutRecords : r.op = "put" /\ r.val \in Value BY DEF PutRecords, PutRecord
<1>4. \A r \in PutRecords : r.size \in Nat \ {0} BY <1>1, ClientRecordFact
<1>5. \A r \in ClientRecord : r.op # "del" => r \in PutRecords
  BY DEF ClientRecord, PutRecords, DelRecord
<1>6. \A r \in ClientRecord : Rewritten(r) = r BY ClientRecordFact DEF Rewritten
<1> QED BY <1>1, <1>2, <1>3, <1>4, <1>5, <1>6

\* Writing a file of client records keeps all files such.
LEMMA WithClientFile ==
  ASSUME NEW files, ClientFiles(files), NEW i, NEW content \in Seq(ClientRecord)
  PROVE  ClientFiles(WithFile(files, i, content))
BY DEF ClientFiles, WithFile

\* So does removing one.
LEMMA WithoutClientFile ==
  ASSUME NEW files, ClientFiles(files), NEW i
  PROVE  ClientFiles(WithoutFile(files, i))
BY DEF ClientFiles, WithoutFile, Restrict

\* Outputs that hold puts larger than the buffer reach the disk whole.
LEMMA WrittenWhole ==
  ASSUME Unbuffered, ClientContent, CompactionTypes, NEW c \in Compactors,
         NEW j \in 1..Len(outs[c])
  PROVE  /\ Written(c, j) = outs[c][j]
         /\ outs[c][j] \in Seq(PutRecords) /\ outs[c][j] \in Seq(ClientRecord)
<1>1. outs[c][j] \in Seq(PutRecords) BY DEF ClientContent
<1>2. outs[c][j] \in Seq(DiskRecord) /\ outs[c][j] \in Seq(ClientRecord)
  BY <1>1, PutRecordsFact
<1>3. \A r \in PutRecords : r.size > CompactorBufferSize
  BY DEF PutRecords, PutRecord, Unbuffered
<1>4. \A r \in PutRecords : r.size \in Nat BY PutRecordsFact
<1>5. CompactorBufferSize \in Nat BY StoreAssumption
<1>6. Buffered(outs[c][j], CompactorBufferSize) = 0 BY <1>1, <1>3, <1>4, <1>5, BufferedFact
<1>7. Unflushed(outs[c][j], CompactorBufferSize) = outs[c][j]
  BY <1>2, <1>5, <1>6, UnflushedFact
<1> QED BY <1>1, <1>2, <1>7 DEF Written

\* The last records of live keys, as they were put.
LEMMA LiveRecordFact ==
  ASSUME NEW files, AreFiles(files, DiskRecord), ClientFiles(files), NEW k \in LiveKeys(files)
  PROVE  /\ LastRecord(files, k) \in PutRecords /\ LastRecord(files, k).key = k
         /\ Rewritten(LastRecord(files, k)) = LastRecord(files, k)
<1>1. PICK i, j : IsLastAt(files, k, i, j) BY LastAtExists DEF LiveKeys
<1>2. DOMAIN files \subseteq Nat /\ k \in Key BY DEF AreFiles, LiveKeys
<1>3. LastRecord(files, k) = files[i][j] /\ files[i][j].op # "del" BY <1>1, <1>2, LastAtFact
<1>4. files[i][j] \in ClientRecord /\ files[i][j].key = k BY <1>1 DEF IsLastAt, ClientFiles
<1> QED BY <1>3, <1>4, PutRecordsFact

\* What WriteSurvivors packs.
LEMMA SurvivorsArePuts ==
  ASSUME NEW files, AreFiles(files, DiskRecord), ClientFiles(files), IsFiniteSet(DOMAIN files),
         NEW order \in SetToSeqs(LiveKeys(files)), NEW records,
         records = [j \in DOMAIN order |-> Rewritten(LastRecord(files, order[j]))]
  PROVE  /\ records \in Seq(PutRecords)
         /\ \A m, n \in 1..Len(records) : records[m].key = records[n].key => m = n
         /\ \A k \in LiveKeys(files) :
              \E m \in 1..Len(records) : records[m] = LastRecord(files, k)
         /\ \A m \in 1..Len(records) :
              /\ records[m].key \in LiveKeys(files)
              /\ records[m] = LastRecord(files, records[m].key)
<1>1. /\ records \in Seq(DiskRecord) /\ Len(records) = Len(order)
      /\ \A m, n \in 1..Len(records) : records[m].key = records[n].key => m = n
      /\ \A k \in LiveKeys(files) :
           \E m \in 1..Len(records) : records[m] = Rewritten(LastRecord(files, k))
      /\ \A m \in 1..Len(records) :
           /\ records[m].key \in LiveKeys(files)
           /\ records[m] = Rewritten(LastRecord(files, records[m].key))
  BY SurvivorsFact
<1>2. \A k \in LiveKeys(files) :
        /\ Rewritten(LastRecord(files, k)) = LastRecord(files, k)
        /\ LastRecord(files, k) \in PutRecords
  BY LiveRecordFact
<1>3. \A m \in 1..Len(records) : records[m] \in PutRecords BY <1>1, <1>2
<1>4. records \in Seq(PutRecords) BY <1>1, <1>3, SeqOfSubset
<1>5. \A k \in LiveKeys(files) : \E m \in 1..Len(records) : records[m] = LastRecord(files, k)
  BY <1>1, <1>2
<1>6. \A m \in 1..Len(records) :
        /\ records[m].key \in LiveKeys(files)
        /\ records[m] = LastRecord(files, records[m].key)
  BY <1>1, <1>2
<1> QED BY <1>1, <1>4, <1>5, <1>6

-----------------------------------------------------------------------------
(* The contents stay what clients wrote. *)

LEMMA InitClientContent == Init => ClientContent
<1> SUFFICES ASSUME Init PROVE ClientContent OBVIOUS
<1>1. <<>> \in Seq(ClientRecord) /\ <<>> \in Seq(Seq(PutRecords)) OBVIOUS
<1> QED BY <1>1 DEF Init, ClientContent, ClientFiles

LEMMA AppendClientContent ==
  ASSUME CInv, NEW r \in ClientRecord, AppendRecord(r), UNCHANGED compaction
  PROVE  ClientContent'
<1>1. disk[active] \in Seq(ClientRecord) BY DEF CInv, RInv, IInv, NewestIsActive
<1>2. Append(disk[active], r) \in Seq(ClientRecord) /\ <<r>> \in Seq(ClientRecord) BY <1>1
<1>3. ClientFiles(disk') BY <1>2, WithClientFile DEF AppendRecord, CInv, ClientContent
<1> QED BY <1>3 DEF CInv, ClientContent, compaction

LEMMA ForgetClientContent ==
  ASSUME CInv, NEW c \in Compactors, Forget(c), ClientFiles(disk')
  PROVE  ClientContent'
<1>1. /\ outs' = [outs EXCEPT ![c] = <<>>]
      /\ scanned' = [scanned EXCEPT ![c] = [i \in {} |-> <<>>]]
      /\ DOMAIN outs = Compactors /\ DOMAIN scanned = Compactors
  BY DEF Forget, CInv, RInv, IInv, TypeOK, CompactionTypes
<1>2. <<>> \in Seq(Seq(PutRecords)) /\ ClientFiles([i \in {} |-> <<>>]) BY DEF ClientFiles
<1> QED BY <1>1, <1>2 DEF CInv, ClientContent

LEMMA StopClientContent ==
  ASSUME Stop, ClientFiles(disk')
  PROVE  ClientContent'
<1>1. <<>> \in Seq(Seq(PutRecords)) /\ ClientFiles([i \in {} |-> <<>>]) BY DEF ClientFiles
<1> QED BY <1>1 DEF Stop, ClientContent

LEMMA ScanClientContent ==
  ASSUME CInv, NEW c \in Compactors, ScanFile(c)
  PROVE  ClientContent'
<1>1. CASE Forget(c) BY <1>1, ForgetClientContent DEF ScanFile, CInv, ClientContent, ClientFiles
<1>2. CASE \E i \in todo[c] :
             /\ i \in DOMAIN disk
             /\ scanned' = [scanned EXCEPT ![c] = WithFile(@, i, disk[i])]
             /\ UNCHANGED outs
  <2>1. PICK i \in DOMAIN disk : scanned' = [scanned EXCEPT ![c] = WithFile(@, i, disk[i])]
    BY <1>2
  <2>2. disk[i] \in Seq(ClientRecord) BY DEF CInv, ClientContent, ClientFiles
  <2>3. ClientFiles(WithFile(scanned[c], i, disk[i]))
    BY <2>2, WithClientFile DEF CInv, ClientContent
  <2>4. /\ scanned'[c] = WithFile(scanned[c], i, disk[i])
        /\ \A d \in Compactors : d # c => scanned'[d] = scanned[d]
    BY <2>1 DEF CInv, RInv, IInv, TypeOK, CompactionTypes
  <2>5. UNCHANGED disk BY DEF ScanFile
  <2>6. \A d \in Compactors : ClientFiles(scanned'[d]) BY <2>3, <2>4 DEF CInv, ClientContent
  <2> QED BY <1>2, <2>5, <2>6 DEF CInv, ClientContent, ClientFiles
<1> QED BY <1>1, <1>2 DEF ScanFile

LEMMA SurvivorsClientContent ==
  ASSUME CInv, NEW c \in Compactors, WriteSurvivors(c)
  PROVE  ClientContent'
<1>1. CASE Forget(c)
  BY <1>1, ForgetClientContent DEF WriteSurvivors, CInv, ClientContent, ClientFiles
<1>2. CASE /\ \E order \in SetToSeqs(LiveKeys(scanned[c])) :
                outs' = [outs EXCEPT ![c] =
                  Pack([j \in DOMAIN order |-> Rewritten(LastRecord(scanned[c], order[j]))],
                       CompactorSegmentSize)]
           /\ UNCHANGED scanned
  <2>1. PICK order \in SetToSeqs(LiveKeys(scanned[c])) :
          outs' = [outs EXCEPT ![c] =
            Pack([j \in DOMAIN order |-> Rewritten(LastRecord(scanned[c], order[j]))],
                 CompactorSegmentSize)]
    BY <1>2
  <2> DEFINE records == [j \in DOMAIN order |-> Rewritten(LastRecord(scanned[c], order[j]))]
  <2>2. /\ AreFiles(scanned[c], DiskRecord) /\ IsFiniteSet(DOMAIN scanned[c])
        /\ ClientFiles(scanned[c])
    BY ScannedAreFiles DEF CInv, RInv, ClientContent
  <2>3. records \in Seq(PutRecords) BY <2>2, SurvivorsArePuts
  <2> HIDE DEF records
  <2>4. Pack(records, CompactorSegmentSize) \in Seq(Seq(PutRecords)) BY <2>3, PackFact
  <2>5. /\ outs'[c] = Pack(records, CompactorSegmentSize)
        /\ \A d \in Compactors : d # c => outs'[d] = outs[d]
    BY <2>1 DEF CInv, RInv, IInv, TypeOK, CompactionTypes, records
  <2>6. UNCHANGED disk BY DEF WriteSurvivors
  <2> QED BY <1>2, <2>4, <2>5, <2>6 DEF CInv, ClientContent, ClientFiles
<1> QED BY <1>1, <1>2 DEF WriteSurvivors

LEMMA RenameClientContent ==
  ASSUME Unbuffered, CInv, NEW c \in Compactors, Rename(c)
  PROVE  ClientContent'
<1>1. \/ Forget(c) /\ UNCHANGED disk
      \/ /\ \E i : disk' = WithFile(disk, i, Written(c, Len(outs[c]) - renamed[c]))
         /\ UNCHANGED <<scanned, outs>>
  BY DEF Rename
<1>2. CASE Forget(c) /\ UNCHANGED disk
  BY <1>2, ForgetClientContent DEF CInv, ClientContent, ClientFiles
<1>3. CASE /\ \E i : disk' = WithFile(disk, i, Written(c, Len(outs[c]) - renamed[c]))
           /\ UNCHANGED <<scanned, outs>>
  <2> DEFINE j == Len(outs[c]) - renamed[c]
  <2>1. renamed[c] < Len(outs[c]) /\ renamed[c] \in Nat /\ outs[c] \in Seq(Seq(PutRecords))
    BY DEF Rename, CInv, RInv, IInv, TypeOK, CompactionTypes, ClientContent
  <2>2. j \in 1..Len(outs[c]) BY <2>1
  <2>3. Written(c, j) \in Seq(ClientRecord)
    BY <2>2, WrittenWhole DEF CInv, RInv, IInv, TypeOK
  <2>4. ClientFiles(disk') BY <1>3, <2>3, WithClientFile DEF CInv, ClientContent
  <2> QED BY <1>3, <2>4 DEF CInv, ClientContent
<1> QED BY <1>1, <1>2, <1>3

LEMMA NextClientContent ==
  ASSUME Unbuffered, CInv, [Next]_vars
  PROVE  ClientContent'
<1>1. ASSUME NEW k \in Key, NEW v \in Value, Put(k, v) PROVE ClientContent'
  BY <1>1, AppendClientContent DEF Put, ClientRecord
<1>2. ASSUME NEW k \in DeletableKeys, Delete(k) PROVE ClientContent'
  BY <1>2, AppendClientContent, StoreAssumption DEF Delete, ClientRecord
<1>3. ASSUME NEW c \in Compactors, Compact(c) PROVE ClientContent'
  <2> USE DEF CInv, ClientContent
  <2>1. CASE ScanFile(c) BY <2>1, ScanClientContent
  <2>2. CASE WriteSurvivors(c) BY <2>2, SurvivorsClientContent
  <2>3. CASE Rename(c) BY <2>3, RenameClientContent
  <2>4. CASE RemoveStale(c)
    <3>1. CASE Forget(c) /\ UNCHANGED disk BY <3>1, ForgetClientContent DEF ClientFiles
    <3>2. CASE (\E i : disk' = WithoutFile(disk, i)) /\ UNCHANGED <<scanned, outs>>
      BY <3>2, WithoutClientFile
    <3> QED BY <2>4, <3>1, <3>2 DEF RemoveStale
  <2>5. CASE UNCHANGED <<disk, scanned, outs>> BY <2>5 DEF ClientFiles
  <2>6. CASE Forget(c) /\ UNCHANGED disk BY <2>6, ForgetClientContent DEF ClientFiles
  <2>7. CASE Stop /\ UNCHANGED disk BY <2>7, StopClientContent DEF ClientFiles
  <2> QED BY <1>3, <2>1, <2>2, <2>3, <2>4, <2>5, <2>6, <2>7
          DEF Compact, StartCompaction, BeginCommit, BeginRemove, PanicOnSlice, Reindex, Fail
<1>4. CASE Crash BY <1>4, StopClientContent DEF Crash, CInv, ClientContent, ClientFiles
<1>5. ASSUME NEW k \in Key, NEW v \in Value, CrashInRoll(k, v) PROVE ClientContent'
  <2>1. <<>> \in Seq(ClientRecord) OBVIOUS
  <2>2. ClientFiles(disk')
    BY <1>5, <2>1, WithClientFile DEF CrashInRoll, CInv, ClientContent
  <2> QED BY <1>5, <2>2, StopClientContent DEF CrashInRoll
<1>6. CASE UNCHANGED <<disk, scanned, outs>> BY <1>6 DEF CInv, ClientContent, ClientFiles
<1> QED BY <1>1, <1>2, <1>3, <1>4, <1>5, <1>6 DEF Next, Restart, vars, compaction

LEMMA NextCInv ==
  ASSUME Unbuffered, CInv, [Next]_vars
  PROVE  CInv'
BY NextRInv, NextClientContent DEF CInv

LEMMA InitCInv == Init => CInv
BY InitRInv, InitClientContent DEF CInv

-----------------------------------------------------------------------------
(* Puts of one size: how many fit into a file. *)

\* All puts have one size, and the writer's segments are no larger than the
\* compactor's.
SameSizes ==
  /\ \A v, w \in Value : SizeOf[v] = SizeOf[w]
  /\ MaxSegmentSize <= CompactorSegmentSize

\* q puts are the fewest that overfill a file of the compactor.
Fills(q) ==
  /\ q \in Nat \ {0}
  /\ \A v \in Value, n \in Nat : n * SizeOf[v] > CompactorSegmentSize <=> q <= n

PutsIn(file) == {j \in 1..Len(file) : file[j].op # "del"}

\* Multiplication by a natural is monotone.
LEMMA TimesMonotone ==
  ASSUME NEW a \in Nat, NEW b \in Nat, NEW s \in Nat, a <= b
  PROVE  a * s <= b * s /\ a * s \in Nat /\ b * s \in Nat
<1>1. PICK d \in Nat : b = a + d
  <2>1. b - a \in Nat /\ b = a + (b - a) OBVIOUS
  <2> QED BY <2>1
<1>2. d * s \in Nat /\ a * s \in Nat OBVIOUS
<1>3. (a + d) * s = a * s + d * s OBVIOUS
<1>4. b * s = a * s + d * s BY <1>1, <1>3
<1> QED BY <1>2, <1>4

\* Some number of puts fills a file.
LEMMA FillsExists == SameSizes => \E q : Fills(q)
<1> SUFFICES ASSUME SameSizes PROVE \E q : Fills(q) OBVIOUS
<1>1. CASE Value = {} BY <1>1 DEF Fills
<1>2. CASE Value # {}
  <2>1. PICK v \in Value : TRUE BY <1>2
  <2> DEFINE s == SizeOf[v]
             C == CompactorSegmentSize
             T == {n \in Nat : n * s > C}
  <2>2. s \in Nat /\ s > 0 /\ C \in Nat BY SizeAssumption, StoreAssumption
  <2>3. \A w \in Value : SizeOf[w] = s BY DEF SameSizes
  <2> HIDE DEF s, C
  <2>4. C + 1 \in T
    <3>1. (C + 1) * s >= (C + 1) * 1
      <4>1. 1 * (C + 1) <= s * (C + 1) BY <2>2, TimesMonotone
      <4>2. 1 * (C + 1) = (C + 1) * 1 /\ s * (C + 1) = (C + 1) * s BY <2>2
      <4> QED BY <4>1, <4>2
    <3>2. (C + 1) * 1 > C BY <2>2
    <3>3. (C + 1) * s \in Nat BY <2>2
    <3> QED BY <2>2, <3>1, <3>2, <3>3
  <2>5. T \in SUBSET Nat /\ T # {} BY <2>4
  <2>6. PICK q \in T : \A n \in T : q <= n
    <3> HIDE DEF T
    <3> QED BY <2>5, LeastElement
  <2>7. q \in Nat /\ q # 0 BY <2>2, <2>6
  <2>8. ASSUME NEW n \in Nat PROVE n * s > C <=> q <= n
    <3>1. CASE q <= n
      <4>1. q * s <= n * s /\ q * s \in Nat /\ n * s \in Nat BY <2>2, <2>7, <3>1, TimesMonotone
      <4>2. q * s > C BY <2>6
      <4> QED BY <2>2, <3>1, <4>1, <4>2
    <3>2. CASE ~(q <= n) BY <2>6, <3>2
    <3> QED BY <3>1, <3>2
  <2>9. Fills(q) BY <2>3, <2>7, <2>8 DEF Fills, C
  <2> QED BY <2>9
<1> QED BY <1>1, <1>2

\* The puts of a file are finitely many places of it.
LEMMA PutsInFact ==
  ASSUME NEW file \in Seq(ClientRecord)
  PROVE  /\ IsFiniteSet(PutsIn(file)) /\ Cardinality(PutsIn(file)) \in Nat
         /\ Cardinality(PutsIn(file)) <= Len(file)
<1>1. Len(file) \in Nat OBVIOUS
<1>2. IsFiniteSet(1..Len(file)) /\ Cardinality(1..Len(file)) = Len(file)
  BY <1>1, IntervalFact
<1>3. PutsIn(file) \in SUBSET (1..Len(file)) BY DEF PutsIn
<1>4. IsFiniteSet(PutsIn(file)) /\ Cardinality(PutsIn(file)) <= Len(file)
  BY <1>2, <1>3, FS_Subset
<1> QED BY <1>4, FS_CardinalityType

\* The puts of a file are no larger than the file.
LEMMA PutsSize ==
  ASSUME NEW file \in Seq(ClientRecord), SameSizes, NEW v \in Value
  PROVE  Cardinality(PutsIn(file)) * SizeOf[v] <= FileSize(file)
<1> DEFINE s == SizeOf[v]
           N == Len(file)
           upTo(n) == {j \in 1..n : file[j].op # "del"}
           T == {n \in Nat : n <= N =>
                   /\ IsFiniteSet(upTo(n)) /\ Cardinality(upTo(n)) \in Nat
                   /\ Cardinality(upTo(n)) * s <= Offset(file, n + 1)}
<1>1. N \in Nat /\ s \in Nat BY SizeAssumption
<1>2. \A r \in ClientRecord : r.size \in Nat BY ClientRecordFact
<1>3. /\ \A j \in 1..N + 1 : Offset(file, j) \in Nat
      /\ Offset(file, 1) = 0
      /\ \A j \in 1..N : Offset(file, j + 1) = Offset(file, j) + file[j].size
  BY <1>2, OffsetFact
<1>4. 0 \in T
  <2>1. upTo(0) = {} OBVIOUS
  <2>2. 0 * s = 0 BY <1>1
  <2>3. IsFiniteSet(upTo(0)) /\ Cardinality(upTo(0)) = 0 BY <2>1, FS_EmptySet
  <2> HIDE DEF upTo, s, N
  <2> QED BY <1>3, <2>2, <2>3
<1>5. ASSUME NEW n \in Nat, n \in T PROVE n + 1 \in T
  <2>1. SUFFICES ASSUME n + 1 <= N
                 PROVE  /\ IsFiniteSet(upTo(n + 1)) /\ Cardinality(upTo(n + 1)) \in Nat
                        /\ Cardinality(upTo(n + 1)) * s <= Offset(file, n + 1 + 1)
    OBVIOUS
  <2>2. n + 1 \in 1..N /\ n <= N /\ n + 1 \in 1..N + 1 /\ n + 1 + 1 \in 1..N + 1 BY <1>1, <2>1
  <2>3. /\ IsFiniteSet(upTo(n)) /\ Cardinality(upTo(n)) \in Nat
        /\ Cardinality(upTo(n)) * s <= Offset(file, n + 1)
    BY <1>5, <2>2
  <2>4. file[n + 1] \in ClientRecord /\ file[n + 1].size \in Nat BY <1>2, <2>2
  <2>5. file[n + 1].op # "del" => file[n + 1].size = s
    <3>1. file[n + 1].op # "del" => file[n + 1] \in PutRecords BY <2>4, PutRecordsFact
    <3>2. \A r \in PutRecords : r.size = s BY DEF PutRecords, PutRecord, SameSizes
    <3> QED BY <3>1, <3>2
  <2>6. Offset(file, n + 1 + 1) = Offset(file, n + 1) + file[n + 1].size BY <1>3, <2>2
  <2>7. Offset(file, n + 1) \in Nat BY <1>3, <2>2
  <2>8. CASE file[n + 1].op = "del"
    <3>1. upTo(n + 1) = upTo(n) BY <2>8
    <3> HIDE DEF upTo, s
    <3> DEFINE m == Cardinality(upTo(n))
    <3>2. m * s \in Nat BY <1>1, <2>3
    <3>3. m * s <= Offset(file, n + 1 + 1) BY <2>3, <2>4, <2>6, <2>7, <3>2
    <3> QED BY <2>3, <3>1, <3>3
  <2>9. CASE file[n + 1].op # "del"
    <3>1. upTo(n + 1) = upTo(n) \cup {n + 1} /\ n + 1 \notin upTo(n) BY <2>9
    <3> HIDE DEF upTo, s
    <3>2. /\ IsFiniteSet(upTo(n + 1))
          /\ Cardinality(upTo(n + 1)) = Cardinality(upTo(n)) + 1
      BY <2>3, <3>1, FS_AddElement
    <3> DEFINE m == Cardinality(upTo(n))
    <3>3. m \in Nat /\ m * s <= Offset(file, n + 1) BY <2>3
    <3> HIDE DEF m
    <3>4. (m + 1) * s = m * s + s /\ m * s \in Nat BY <1>1, <3>3
    <3>5. (m + 1) * s <= Offset(file, n + 1 + 1) BY <1>1, <2>5, <2>6, <2>7, <2>9, <3>3, <3>4
    <3> QED BY <3>2, <3>3, <3>5 DEF m
  <2> QED BY <2>8, <2>9
<1>6. N \in T
  <2> HIDE DEF T
  <2> QED BY <1>1, <1>4, <1>5, SetInduction
<1>7. upTo(N) = PutsIn(file) BY DEF PutsIn
<1>8. Cardinality(upTo(N)) * s <= Offset(file, N + 1) BY <1>1, <1>6
<1> QED BY <1>7, <1>8 DEF FileSize

\* Puts up to q do not exceed a file that is within the writer's segment size.
LEMMA SmallFile ==
  ASSUME SameSizes, NEW q, Fills(q), NEW file \in Seq(ClientRecord),
         FileSize(file) <= MaxSegmentSize
  PROVE  Cardinality(PutsIn(file)) <= q
<1> DEFINE m == Cardinality(PutsIn(file))
<1>1. m \in Nat /\ q \in Nat BY PutsInFact DEF Fills
<1>2. CASE PutsIn(file) = {}
  <2>1. m = 0 BY <1>2, FS_EmptySet
  <2> QED BY <1>1, <2>1
<1>3. CASE PutsIn(file) # {}
  <2>1. PICK j \in 1..Len(file) : file[j].op # "del" BY <1>3 DEF PutsIn
  <2>2. file[j] \in PutRecords BY <2>1, PutRecordsFact
  <2>3. PICK v \in Value : TRUE BY <2>2 DEF PutRecords
  <2>4. m * SizeOf[v] <= FileSize(file) BY PutsSize
  <2>5. SizeOf[v] \in Nat BY SizeAssumption
  <2>6. FileSize(file) \in Nat
    <3>1. \A r \in ClientRecord : r.size \in Nat BY ClientRecordFact
    <3>2. Len(file) + 1 \in 1..Len(file) + 1 OBVIOUS
    <3> QED BY <3>1, <3>2, OffsetFact DEF FileSize
  <2> HIDE DEF m
  <2>7. m * SizeOf[v] \in Nat BY <1>1, <2>5
  <2>8. ~(m * SizeOf[v] > CompactorSegmentSize)
    BY <2>4, <2>6, <2>7, StoreAssumption DEF SameSizes
  <2>9. ~(q <= m) BY <1>1, <2>8 DEF Fills
  <2>10. m <= q BY <1>1, <2>9
  <2> QED BY <2>10 DEF m
<1> QED BY <1>2, <1>3

\* A file of puts is as large as all of them.
LEMMA PutsFileSize ==
  ASSUME SameSizes, NEW file \in Seq(PutRecords), NEW v \in Value
  PROVE  FileSize(file) = Len(file) * SizeOf[v]
<1> DEFINE s == SizeOf[v]
           N == Len(file)
           T == {n \in Nat : n <= N => Offset(file, n + 1) = n * s}
<1>1. N \in Nat /\ s \in Nat BY SizeAssumption
<1>2. \A r \in PutRecords : r.size \in Nat /\ r.size = s
  BY PutRecordsFact DEF PutRecords, PutRecord, SameSizes
<1>3. /\ \A j \in 1..N + 1 : Offset(file, j) \in Nat
      /\ Offset(file, 1) = 0
      /\ \A j \in 1..N : Offset(file, j + 1) = Offset(file, j) + file[j].size
  BY <1>2, OffsetFact
<1> HIDE DEF s
<1>4. 0 \in T
  <2>1. 0 * s = 0 BY <1>1
  <2> QED BY <1>3, <2>1
<1>5. ASSUME NEW n \in Nat, n \in T PROVE n + 1 \in T
  <2>1. SUFFICES ASSUME n + 1 <= N PROVE Offset(file, n + 1 + 1) = (n + 1) * s
    OBVIOUS
  <2>2. n + 1 \in 1..N /\ n <= N BY <1>1, <2>1
  <2>3. file[n + 1].size = s BY <1>2, <2>2
  <2>3a. Offset(file, n + 1 + 1) = Offset(file, n + 1) + s BY <1>3, <2>2, <2>3
  <2>4. Offset(file, n + 1) = n * s BY <1>5, <2>2
  <2>5. (n + 1) * s = n * s + s BY <1>1
  <2> QED BY <2>3a, <2>4, <2>5
<1>6. N \in T
  <2> HIDE DEF T
  <2> QED BY <1>1, <1>4, <1>5, SetInduction
<1> QED BY <1>6 DEF FileSize, s

\* Files packed with n puts: all but the last hold q of them.
FilledBy(files, n, q) ==
  /\ \A i \in 1..Len(files) : Len(files[i]) <= q
  /\ n = q * (Len(files) - 1) + Len(Last(files))
  /\ n > 0 => Len(Last(files)) > 0

\* One more put keeps every output but the last at q.
LEMMA FilledMore ==
  ASSUME SameSizes, NEW q, Fills(q), NEW n \in Nat, NEW r \in PutRecords,
         NEW files \in Seq(Seq(PutRecords)) \ {<<>>}, FilledBy(files, n, q)
  PROVE  FilledBy(PackMore(files, r, CompactorSegmentSize), n + 1, q)
<1> DEFINE N == Len(files)
           file == files[N]
           more == PackMore(files, r, CompactorSegmentSize)
<1>1. /\ N \in Nat \ {0} /\ N \in 1..N /\ file \in Seq(PutRecords) /\ Len(file) \in Nat
      /\ Last(files) = file /\ q \in Nat \ {0}
  BY DEF Last, Fills
<1>2. PICK v \in Value : TRUE BY DEF PutRecords
<1>3. FileSize(file) = Len(file) * SizeOf[v] BY <1>1, PutsFileSize
<1>4. FileSize(file) > CompactorSegmentSize <=> q <= Len(file) BY <1>1, <1>3 DEF Fills
<1>5. /\ \A i \in 1..N : Len(files[i]) <= q
      /\ n = q * (N - 1) + Len(file) /\ Len(file) <= q
  BY <1>1 DEF FilledBy
<1>6. CASE q <= Len(file)
  <2>1. more = Append(files, <<r>>) BY <1>1, <1>4, <1>6 DEF PackMore
  <2>2. /\ Len(more) = N + 1 /\ more[N + 1] = <<r>> /\ more # <<>>
        /\ \A i \in 1..N : more[i] = files[i]
    <3>1. files \in Seq(Seq(PutRecords)) /\ <<r>> \in Seq(PutRecords) OBVIOUS
    <3>2. Len(Append(files, <<r>>)) = N + 1 /\ Append(files, <<r>>)[N + 1] = <<r>> BY <3>1
    <3>3. \A i \in 1..N : Append(files, <<r>>)[i] = files[i] BY <3>1
    <3>4. Append(files, <<r>>) # <<>>
      <4>1. Len(<<>>) = 0 /\ N \in Nat /\ N + 1 # 0 BY <3>1
      <4> HIDE DEF N
      <4> QED BY <3>2, <4>1
    <3> HIDE DEF more, N
    <3> QED BY <2>1, <3>2, <3>3, <3>4
  <2> HIDE DEF more
  <2>3. Last(more) = <<r>> /\ Len(<<r>>) = 1 BY <2>2 DEF Last
  <2>4. \A i \in 1..Len(more) : Len(more[i]) <= q
    <3> TAKE i \in 1..Len(more)
    <3>1. i \in 1..N \/ i = N + 1 BY <1>1, <2>2
    <3>2. 1 <= q BY <1>1
    <3> QED BY <1>5, <2>2, <2>3, <3>1, <3>2
  <2>5. n + 1 = q * (Len(more) - 1) + 1
    <3>1. Len(more) - 1 = N /\ Len(file) = q BY <1>1, <1>5, <1>6, <2>2
    <3>2. q * N = q * (N - 1) + q
      <4>1. (N - 1) + 1 = N /\ N - 1 \in Nat BY <1>1
      <4>2. q * ((N - 1) + 1) = q * (N - 1) + q BY <1>1, <4>1
      <4> QED BY <4>1, <4>2
    <3> QED BY <1>1, <1>5, <3>1, <3>2
  <2>6. FilledBy(more, n + 1, q) BY <2>3, <2>4, <2>5 DEF FilledBy
  <2> QED BY <2>6 DEF more
<1>7. CASE ~(q <= Len(file))
  <2>1. more = [files EXCEPT ![N] = Append(file, r)] BY <1>1, <1>4, <1>7 DEF PackMore
  <2>2. /\ Len(more) = N /\ more[N] = Append(file, r) /\ more # <<>>
        /\ \A i \in 1..N : i # N => more[i] = files[i]
    BY <1>1, <2>1
  <2>3. Len(Append(file, r)) = Len(file) + 1 BY <1>1
  <2> HIDE DEF more
  <2>4. Last(more) = Append(file, r) BY <2>2 DEF Last
  <2>5. Len(file) + 1 <= q BY <1>1, <1>7
  <2>6. \A i \in 1..Len(more) : Len(more[i]) <= q
    <3> TAKE i \in 1..Len(more)
    <3>1. CASE i = N BY <2>2, <2>3, <2>5, <3>1
    <3>2. CASE i # N BY <1>5, <2>2, <3>2
    <3> QED BY <3>1, <3>2
  <2>7. n + 1 = q * (N - 1) + (Len(file) + 1)
    <3> DEFINE full == q * (N - 1)
    <3>1. full \in Int BY <1>1
    <3>2. n = full + Len(file) /\ Len(file) \in Nat BY <1>1, <1>5
    <3> HIDE DEF full, file, N
    <3>3. n + 1 = full + (Len(file) + 1) BY <3>1, <3>2
    <3> QED BY <3>3 DEF full
  <2>8. FilledBy(more, n + 1, q)
    <3>1. Len(file) + 1 > 0 BY <1>1
    <3> QED BY <2>2, <2>3, <2>4, <2>6, <2>7, <3>1 DEF FilledBy
  <2> QED BY <2>8 DEF more
<1> QED BY <1>6, <1>7

\* All outputs but the last hold q puts.
LEMMA PackFills ==
  ASSUME SameSizes, NEW q, Fills(q), NEW records \in Seq(PutRecords)
  PROVE  FilledBy(Pack(records, CompactorSegmentSize), Len(records), q)
<1> DEFINE N == Len(records)
<1>1. PICK packed : PacksBy(packed, records, CompactorSegmentSize, PutRecords) BY PackSteps
<1>2. /\ packed[0] = << <<>> >> /\ Pack(records, CompactorSegmentSize) = packed[N]
      /\ \A i \in 0..N : packed[i] \in Seq(Seq(PutRecords)) \ {<<>>}
      /\ \A i \in 1..N : packed[i] = PackMore(packed[i - 1], records[i], CompactorSegmentSize)
  BY <1>1 DEF PacksBy
<1>3. N \in Nat /\ \A i \in 1..N : records[i] \in PutRecords OBVIOUS
<1> HIDE DEF N
<1> DEFINE T == {n \in Nat : n <= N => FilledBy(packed[n], n, q)}
<1>4. 0 \in T
  <2>1. /\ Len(<< <<>> >>) = 1 /\ Last(<< <<>> >>) = <<>> /\ Len(<<>>) = 0
        /\ \A i \in 1..1 : << <<>> >>[i] = <<>>
    BY DEF Last
  <2>2. q \in Nat /\ 0 = q * (1 - 1) + 0 /\ 0 <= q BY DEF Fills
  <2>3. FilledBy(<< <<>> >>, 0, q) BY <2>1, <2>2 DEF FilledBy
  <2> QED BY <1>2, <2>3
<1>5. ASSUME NEW n \in Nat, n \in T PROVE n + 1 \in T
  <2>1. SUFFICES ASSUME n + 1 <= N PROVE FilledBy(packed[n + 1], n + 1, q) OBVIOUS
  <2>2. n + 1 \in 1..N /\ n \in 0..N /\ n <= N /\ n + 1 - 1 = n BY <1>3, <2>1
  <2>3. packed[n + 1] = PackMore(packed[n], records[n + 1], CompactorSegmentSize)
    BY <1>2, <2>2
  <2>4. packed[n] \in Seq(Seq(PutRecords)) \ {<<>>} /\ records[n + 1] \in PutRecords
    BY <1>2, <1>3, <2>2
  <2>5. FilledBy(packed[n], n, q) BY <1>5, <2>2
  <2> QED BY <2>3, <2>4, <2>5, FilledMore
<1>6. N \in T
  <2> HIDE DEF T
  <2> QED BY <1>3, <1>4, <1>5, SetInduction
<1> QED BY <1>2, <1>3, <1>6 DEF N

PutPlaces(files, ids) == {p \in ids \X Nat : p[2] \in PutsIn(files[p[1]])}

\* Files with up to q puts each have up to q times their number.
LEMMA PutPlacesFact ==
  ASSUME NEW files, ClientFiles(files), NEW q \in Nat, IsFiniteSet(DOMAIN files),
         \A i \in DOMAIN files : Cardinality(PutsIn(files[i])) <= q
  PROVE  /\ IsFiniteSet(PutPlaces(files, DOMAIN files))
         /\ Cardinality(PutPlaces(files, DOMAIN files)) <= q * Cardinality(DOMAIN files)
<1> DEFINE D == DOMAIN files
           Few(ids) == /\ IsFiniteSet(PutPlaces(files, ids))
                       /\ Cardinality(PutPlaces(files, ids)) <= q * Cardinality(ids)
           T == {n \in Nat : \A ids \in SUBSET D : Cardinality(ids) = n => Few(ids)}
<1>1. \A ids \in SUBSET D : IsFiniteSet(ids) /\ Cardinality(ids) \in Nat
  BY FS_Subset, FS_CardinalityType
<1>2. 0 \in T
  <2> SUFFICES ASSUME NEW ids \in SUBSET D, Cardinality(ids) = 0 PROVE Few(ids) OBVIOUS
  <2>1. ids = {} BY <1>1, FS_EmptySet
  <2>2. PutPlaces(files, ids) = {} BY <2>1 DEF PutPlaces
  <2>3. q * 0 = 0 OBVIOUS
  <2>4. IsFiniteSet({}) /\ Cardinality({}) = 0 BY FS_EmptySet
  <2> QED BY <2>1, <2>2, <2>3, <2>4
<1>3. ASSUME NEW n \in Nat, n \in T PROVE n + 1 \in T
  <2> SUFFICES ASSUME NEW ids \in SUBSET D, Cardinality(ids) = n + 1 PROVE Few(ids) OBVIOUS
  <2>1. IsFiniteSet(ids) /\ ids # {}
    <3>1. IsFiniteSet(ids) BY <1>1
    <3>2. n + 1 # 0 OBVIOUS
    <3> QED BY <3>1, <3>2, FS_EmptySet
  <2>2. PICK i \in ids : TRUE BY <2>1
  <2> DEFINE rest == ids \ {i}
             old == PutPlaces(files, rest)
             new == {i} \X PutsIn(files[i])
  <2>3. rest \in SUBSET D /\ Cardinality(rest) = n
    <3>1. Cardinality(rest) = Cardinality(ids) - 1 BY <2>1, <2>2, FS_RemoveElement
    <3>2. n + 1 - 1 = n OBVIOUS
    <3> QED BY <3>1, <3>2
  <2>4. Few(rest) BY <1>3, <2>3
  <2>5. i \in D /\ files[i] \in Seq(ClientRecord) BY DEF ClientFiles
  <2>6. /\ IsFiniteSet(PutsIn(files[i])) /\ Cardinality(PutsIn(files[i])) \in Nat
        /\ Cardinality(PutsIn(files[i])) <= q
    BY <2>5, PutsInFact
  <2>7. IsFiniteSet(new) /\ Cardinality(new) = Cardinality(PutsIn(files[i]))
    <3>1. IsFiniteSet({i}) /\ Cardinality({i}) = 1 BY FS_Singleton
    <3>2. IsFiniteSet(new) /\ Cardinality(new) = 1 * Cardinality(PutsIn(files[i]))
      BY <2>6, <3>1, FS_Product
    <3>3. \A m \in Nat : 1 * m = m OBVIOUS
    <3> QED BY <2>6, <3>2, <3>3
  <2>8. PutPlaces(files, ids) = old \cup new
    <3>1. PutsIn(files[i]) \subseteq Nat BY DEF PutsIn
    <3>2. ids = rest \cup {i} BY <2>2
    <3> HIDE DEF rest
    <3> QED BY <3>1, <3>2 DEF PutPlaces
  <2>9. old \cap new = {} BY DEF PutPlaces
  <2>10. IsFiniteSet(old) /\ Cardinality(old) \in Nat /\ Cardinality(old) <= q * n
    BY <2>3, <2>4, FS_CardinalityType
  <2> HIDE DEF old, new
  <2>11. /\ IsFiniteSet(old \cup new)
         /\ Cardinality(old \cup new) = Cardinality(old) + Cardinality(new) - Cardinality(old \cap new)
    BY <2>7, <2>10, FS_Union
  <2>12. Cardinality(old \cap new) = 0 BY <2>9, FS_EmptySet
  <2>13. Cardinality(old) + Cardinality(new) - 0 <= q * (n + 1)
    <3>1. q * (n + 1) = q * n + q /\ q * n \in Nat OBVIOUS
    <3>2. Cardinality(new) \in Nat /\ Cardinality(new) <= q BY <2>6, <2>7
    <3> QED BY <2>10, <3>1, <3>2
  <2> QED BY <2>8, <2>11, <2>12, <2>13
<1>4. Nat \subseteq T
  <2> HIDE DEF T
  <2> QED BY <1>2, <1>3, SetInduction
<1>5. Few(D) BY <1>1, <1>4
<1> QED BY <1>5

\* No more keys survive than there are puts.
LEMMA SurvivorsCount ==
  ASSUME NEW files, AreFiles(files, DiskRecord), ClientFiles(files), NEW q \in Nat,
         IsFiniteSet(DOMAIN files),
         \A i \in DOMAIN files : Cardinality(PutsIn(files[i])) <= q
  PROVE  Cardinality(LiveKeys(files)) <= q * Cardinality(DOMAIN files)
<1> DEFINE places == PutPlaces(files, DOMAIN files)
           place == [k \in LiveKeys(files) |-> LastPosition(files, k)]
<1>1. IsFiniteSet(places) /\ Cardinality(places) <= q * Cardinality(DOMAIN files)
  BY PutPlacesFact
<1>2. DOMAIN files \subseteq Nat BY DEF AreFiles
<1>3. ASSUME NEW k \in LiveKeys(files)
      PROVE  /\ LastPosition(files, k) \in places
             /\ files[LastPosition(files, k)[1]][LastPosition(files, k)[2]].key = k
  <2>1. PICK i, j : IsLastAt(files, k, i, j) BY LastAtExists DEF LiveKeys
  <2>2. k \in Key BY DEF LiveKeys
  <2>3. LastRecord(files, k) = files[i][j] /\ files[i][j].op # "del"
    BY <1>2, <2>1, <2>2, LastAtFact
  <2>4. LastPosition(files, k) = <<i, j>> BY <1>2, <2>1, LastAtUnique
  <2>5. i \in DOMAIN files /\ j \in 1..Len(files[i]) /\ files[i][j].key = k
    BY <2>1 DEF IsLastAt
  <2>6. j \in Nat BY <2>5
  <2> QED BY <2>3, <2>4, <2>5, <2>6 DEF PutPlaces, PutsIn
<1>4. place \in Injection(LiveKeys(files), places)
  <2>1. place \in [LiveKeys(files) -> places] BY <1>3
  <2>2. \A k, l \in LiveKeys(files) : place[k] = place[l] => k = l BY <1>3
  <2> HIDE DEF place, places
  <2> QED BY <2>1, <2>2 DEF Injection, IsInjective
<1> HIDE DEF place, places
<1>5. IsFiniteSet(LiveKeys(files)) /\ Cardinality(LiveKeys(files)) <= Cardinality(places)
  BY <1>1, <1>4, FS_Injection
<1>6. /\ Cardinality(places) \in Nat /\ Cardinality(LiveKeys(files)) \in Nat
      /\ Cardinality(DOMAIN files) \in Nat
  BY <1>1, <1>5, FS_CardinalityType
<1>7. q * Cardinality(DOMAIN files) \in Nat BY <1>6
<1> QED BY <1>1, <1>5, <1>6, <1>7

\* The survivors of these files fill no more files than these.
LEMMA OutputsOf ==
  ASSUME SameSizes, NEW q, Fills(q), NEW records \in Seq(PutRecords), NEW n \in Nat,
         Len(records) > 0, Len(records) <= q * n
  PROVE  /\ Len(Pack(records, CompactorSegmentSize)) <= n
         /\ \A i \in 1..Len(Pack(records, CompactorSegmentSize)) :
              Len(Pack(records, CompactorSegmentSize)[i]) <= q
<1> DEFINE packed == Pack(records, CompactorSegmentSize)
           m == Len(packed)
           L == Len(Last(packed))
<1>1. packed \in Seq(Seq(PutRecords)) \ {<<>>} BY PackFact
<1>2. m \in Nat \ {0} /\ m \in 1..m BY <1>1
<1>3. L \in Nat BY <1>1, <1>2 DEF Last
<1>4. /\ \A i \in 1..m : Len(packed[i]) <= q
      /\ Len(records) = q * (m - 1) + L /\ L > 0
  BY PackFills DEF FilledBy
<1>5. m <= n
  <2> HIDE DEF packed, m, L
  <2>1. SUFFICES ASSUME n <= m - 1 PROVE FALSE BY <1>2
  <2>2. m - 1 \in Nat /\ q \in Nat BY <1>2 DEF Fills
  <2>3. n * q <= (m - 1) * q BY <2>1, <2>2, TimesMonotone
  <2>4. q * n = n * q /\ q * (m - 1) = (m - 1) * q BY <2>2
  <2> DEFINE a == n * q
             b == (m - 1) * q
  <2>5. a \in Nat /\ b \in Nat BY <2>2
  <2>6. a <= b /\ Len(records) <= a /\ Len(records) = b + L BY <1>4, <2>3, <2>4
  <2> HIDE DEF a, b
  <2> QED BY <1>3, <1>4, <2>5, <2>6
<1> QED BY <1>4, <1>5

-----------------------------------------------------------------------------
(* Outputs fit into the ids of the files they replace. *)

\* No file has more than q puts, and no output more than q records.
FewPuts(q) ==
  /\ \A i \in DOMAIN disk : Cardinality(PutsIn(disk[i])) <= q
  /\ \A c \in Compactors :
       /\ \A i \in DOMAIN scanned[c] : Cardinality(PutsIn(scanned[c][i])) <= q
       /\ \A j \in 1..Len(outs[c]) : Len(outs[c][j]) <= q

BInv == CInv /\ OutputsReuseIds /\ \E q : Fills(q) /\ FewPuts(q)

\* A list of stale files is finite.
LEMMA StaleFinite ==
  ASSUME IInv, NEW c \in Compactors
  PROVE  IsFiniteSet(stale[c]) /\ Cardinality(stale[c]) \in Nat
<1>1. stale[c] \in SUBSET Nat /\ active \in Nat /\ \A i \in stale[c] : i <= active
  BY DEF IInv, TypeOK, StoreTypes, CompactionTypes, SealedSegmentsOnly
<1>2. IsFiniteSet(stale[c]) BY <1>1, FS_BoundedSetOfNaturals
<1> QED BY <1>2, FS_CardinalityType

\* Writing keeps every file within q puts: one record fits into an empty file,
\* and what is within the writer's segment size has fewer than q puts.
LEMMA AppendFewPuts ==
  ASSUME SameSizes, CInv, NEW q, Fills(q), FewPuts(q), NEW r \in ClientRecord, AppendRecord(r),
         UNCHANGED compaction
  PROVE  FewPuts(q)'
<1>1. /\ q \in Nat \ {0} /\ active \in DOMAIN disk /\ disk[active] \in Seq(ClientRecord)
      /\ \A x \in ClientRecord : x.size \in Nat \ {0}
  BY ClientRecordFact DEF Fills, CInv, RInv, IInv, NewestIsActive
<1>2. ASSUME NEW file \in Seq(ClientRecord), Len(file) = 1
      PROVE  Cardinality(PutsIn(file)) <= q
  <2>1. Cardinality(PutsIn(file)) \in Nat /\ Cardinality(PutsIn(file)) <= 1
    BY <1>2, PutsInFact
  <2> QED BY <1>1, <2>1
<1>3. CASE ~NeedsRoll(r) /\ disk' = WithFile(disk, active, Append(disk[active], r))
  <2> DEFINE file == disk[active]
             more == Append(file, r)
  <2>1. /\ more \in Seq(ClientRecord) /\ Len(more) = Len(file) + 1 /\ Len(file) \in Nat
        /\ more[Len(file) + 1] = r
    BY <1>1
  <2>2. FileSize(more) = FileSize(file) + r.size /\ FileSize(file) \in Nat
    <3> HIDE DEF file
    <3>1. \A x \in ClientRecord : x.size \in Nat BY <1>1
    <3>2. Len(file) + 1 \in 1..Len(file) + 1 /\ Len(file) + 1 \in 1..Len(more) BY <2>1
    <3>3. Offset(more, Len(file) + 1) = Offset(file, Len(file) + 1)
      BY <1>1, <3>1, <3>2, OffsetAppend DEF file
    <3> HIDE DEF more
    <3>4. Offset(more, Len(file) + 1 + 1) = Offset(more, Len(file) + 1) + more[Len(file) + 1].size
      BY <2>1, <3>1, <3>2, OffsetFact
    <3>5. Offset(file, Len(file) + 1) \in Nat BY <1>1, <3>1, <3>2, OffsetFact DEF file
    <3> QED BY <2>1, <3>3, <3>4, <3>5 DEF FileSize
  <2>3. FileSize(file) = 0 \/ FileSize(file) + r.size <= MaxSegmentSize
    <3>1. r.size \in Nat /\ FileSize(file) \in Nat /\ MaxSegmentSize \in Nat
      BY <1>1, <2>2, StoreAssumption
    <3>2. ~(FileSize(file) > 0 /\ FileSize(file) + r.size > MaxSegmentSize)
      BY <1>3 DEF NeedsRoll
    <3> HIDE DEF file
    <3> QED BY <3>1, <3>2
  <2>4. Cardinality(PutsIn(more)) <= q
    <3>1. CASE FileSize(file) + r.size <= MaxSegmentSize
      <4> HIDE DEF more, file
      <4> QED BY <2>1, <2>2, <3>1, SmallFile
    <3>2. CASE FileSize(file) = 0
      <4>1. Len(file) = 0
        <5>1. SUFFICES ASSUME Len(file) # 0 PROVE FALSE OBVIOUS
        <5>2. 1 \in 1..Len(file) + 1 /\ Len(file) + 1 \in 1..Len(file) + 1 /\ 1 < Len(file) + 1
          BY <2>1, <5>1
        <5>3. Offset(file, 1) < FileSize(file)
          BY <1>1, <5>2, OffsetIncreases DEF FileSize
        <5>4. Offset(file, 1) = 0
          <6>1. \A x \in ClientRecord : x.size \in Nat BY <1>1
          <6> QED BY <1>1, <6>1, OffsetFact
        <5> QED BY <3>2, <5>3, <5>4
      <4>2. Len(more) = 1 BY <2>1, <4>1
      <4> HIDE DEF more
      <4> QED BY <1>2, <2>1, <4>2
    <3> QED BY <2>3, <3>1, <3>2
  <2> HIDE DEF more
  <2>5. \A i \in DOMAIN disk' : disk'[i] = IF i = active THEN more ELSE disk[i]
    BY <1>3 DEF WithFile, more
  <2>6. \A i \in DOMAIN disk' : i # active => i \in DOMAIN disk BY <1>3 DEF WithFile
  <2> QED BY <2>4, <2>5, <2>6 DEF FewPuts, compaction
<1>4. CASE disk' = WithFile(disk, active + 1, <<r>>)
  <2>1. <<r>> \in Seq(ClientRecord) /\ Len(<<r>>) = 1 OBVIOUS
  <2>2. Cardinality(PutsIn(<<r>>)) <= q BY <1>2, <2>1
  <2>3. /\ \A i \in DOMAIN disk' : disk'[i] = IF i = active + 1 THEN <<r>> ELSE disk[i]
        /\ \A i \in DOMAIN disk' : i # active + 1 => i \in DOMAIN disk
    BY <1>4 DEF WithFile
  <2> QED BY <2>2, <2>3 DEF FewPuts, compaction
<1> QED BY <1>3, <1>4 DEF AppendRecord

LEMMA ForgetFewPuts ==
  ASSUME CInv, OutputsReuseIds, NEW q, FewPuts(q), NEW c \in Compactors, Forget(c),
         \A i \in DOMAIN disk' : Cardinality(PutsIn(disk'[i])) <= q
  PROVE  FewPuts(q)' /\ OutputsReuseIds'
<1>1. /\ outs' = [outs EXCEPT ![c] = <<>>] /\ stale' = [stale EXCEPT ![c] = {}]
      /\ scanned' = [scanned EXCEPT ![c] = [i \in {} |-> <<>>]]
      /\ DOMAIN outs = Compactors /\ DOMAIN scanned = Compactors /\ DOMAIN stale = Compactors
  BY DEF Forget, CInv, RInv, IInv, TypeOK, CompactionTypes
<1>2. Len(<<>>) = 0 /\ Cardinality({}) = 0 /\ \A j \in 1..0 : FALSE BY FS_EmptySet
<1>3. FewPuts(q)' BY <1>1, <1>2 DEF FewPuts
<1>4. OutputsReuseIds' BY <1>1, <1>2 DEF OutputsReuseIds
<1> QED BY <1>3, <1>4

LEMMA StopFewPuts ==
  ASSUME NEW q, Stop, \A i \in DOMAIN disk' : Cardinality(PutsIn(disk'[i])) <= q
  PROVE  FewPuts(q)' /\ OutputsReuseIds'
<1>1. Len(<<>>) = 0 /\ Cardinality({}) = 0 /\ \A j \in 1..0 : FALSE BY FS_EmptySet
<1> QED BY <1>1 DEF Stop, FewPuts, OutputsReuseIds

LEMMA StartFewPuts ==
  ASSUME CInv, CInv', OutputsReuseIds, NEW q, FewPuts(q), NEW c \in Compactors,
         StartCompaction(c)
  PROVE  FewPuts(q)' /\ OutputsReuseIds'
<1>1. FewPuts(q)' BY DEF StartCompaction, FewPuts
<1>2. ASSUME NEW d \in Compactors PROVE Len(outs'[d]) <= Cardinality(stale'[d])
  <2>1. UNCHANGED outs /\ \A e \in Compactors : e # c => stale'[e] = stale[e]
    BY DEF StartCompaction, CInv, RInv, IInv, TypeOK, CompactionTypes
  <2>2. CASE d = c
    <3>1. stale[c] = {} BY DEF StartCompaction, CInv, RInv, IInv, TypeOK, Bookkeeping
    <3>2. Len(outs[c]) <= 0 BY <3>1, FS_EmptySet DEF OutputsReuseIds
    <3>3. outs[c] \in Seq(Seq(PutRecords)) BY DEF CInv, ClientContent
    <3>4. Len(outs[c]) \in Nat BY <3>3
    <3>5. IInv' BY DEF CInv, RInv
    <3>6. Cardinality(stale'[c]) \in Nat
      <4>1. IsFiniteSet(stale'[c])
        <5>1. /\ stale'[c] \in SUBSET Nat /\ active' \in Nat
              /\ \A i \in stale'[c] : i <= active'
          BY <3>5 DEF IInv, TypeOK, StoreTypes, CompactionTypes, SealedSegmentsOnly
        <5> QED BY <5>1, FS_BoundedSetOfNaturals
      <4> QED BY <4>1, FS_CardinalityType
    <3> QED BY <2>1, <2>2, <3>2, <3>4, <3>6
  <2>3. CASE d # c BY <2>1, <2>3 DEF OutputsReuseIds
  <2> QED BY <2>2, <2>3
<1> QED BY <1>1, <1>2 DEF OutputsReuseIds

LEMMA ScanFewPuts ==
  ASSUME CInv, OutputsReuseIds, NEW q, FewPuts(q), NEW c \in Compactors, ScanFile(c)
  PROVE  FewPuts(q)' /\ OutputsReuseIds'
<1>0. UNCHANGED disk BY DEF ScanFile
<1>1. CASE Forget(c) BY <1>0, <1>1, ForgetFewPuts DEF FewPuts
<1>2. CASE \E i \in todo[c] :
             /\ i \in DOMAIN disk
             /\ scanned' = [scanned EXCEPT ![c] = WithFile(@, i, disk[i])]
             /\ UNCHANGED <<stale, outs>>
  <2>1. PICK i \in DOMAIN disk : scanned' = [scanned EXCEPT ![c] = WithFile(@, i, disk[i])]
    BY <1>2
  <2>2. /\ scanned'[c] = WithFile(scanned[c], i, disk[i])
        /\ \A d \in Compactors : d # c => scanned'[d] = scanned[d]
    BY <2>1 DEF CInv, RInv, IInv, TypeOK, CompactionTypes
  <2>3. \A x \in DOMAIN scanned'[c] : Cardinality(PutsIn(scanned'[c][x])) <= q
    BY <2>2 DEF WithFile, FewPuts
  <2>4. FewPuts(q)' BY <1>0, <1>2, <2>2, <2>3 DEF FewPuts
  <2> QED BY <1>2, <2>4 DEF OutputsReuseIds
<1> QED BY <1>1, <1>2 DEF ScanFile

\* What survives of n scanned files fits into n outputs.
LEMMA SurvivorsFewPuts ==
  ASSUME SameSizes, CInv, OutputsReuseIds, NEW q, Fills(q), FewPuts(q), NEW c \in Compactors,
         WriteSurvivors(c)
  PROVE  FewPuts(q)' /\ OutputsReuseIds'
<1>0. UNCHANGED disk BY DEF WriteSurvivors
<1>1. CASE Forget(c) BY <1>0, <1>1, ForgetFewPuts DEF FewPuts
<1>2. CASE /\ LiveKeys(scanned[c]) # {}
           /\ \E order \in SetToSeqs(LiveKeys(scanned[c])) :
                outs' = [outs EXCEPT ![c] =
                  Pack([j \in DOMAIN order |-> Rewritten(LastRecord(scanned[c], order[j]))],
                       CompactorSegmentSize)]
           /\ UNCHANGED <<stale, scanned>>
  <2>1. PICK order \in SetToSeqs(LiveKeys(scanned[c])) :
          outs' = [outs EXCEPT ![c] =
            Pack([j \in DOMAIN order |-> Rewritten(LastRecord(scanned[c], order[j]))],
                 CompactorSegmentSize)]
    BY <1>2
  <2> DEFINE records == [j \in DOMAIN order |-> Rewritten(LastRecord(scanned[c], order[j]))]
             live == LiveKeys(scanned[c])
  <2>2. /\ AreFiles(scanned[c], DiskRecord) /\ IsFiniteSet(DOMAIN scanned[c])
        /\ ClientFiles(scanned[c])
    BY ScannedAreFiles DEF CInv, RInv, ClientContent
  <2>3. records \in Seq(PutRecords) BY <2>2, SurvivorsArePuts
  <2>4. Len(records) = Len(order) BY <2>2, SurvivorsFact
  <2>5. IsFiniteSet(live) BY <2>2, LiveKeysFinite DEF AreFiles
  <2>6. Len(order) = Cardinality(live) /\ Cardinality(live) \in Nat
    BY <2>5, SetToSeqsFact
  <2>7. Cardinality(live) # 0 BY <1>2, <2>5, FS_EmptySet
  <2> HIDE DEF records, live
  <2>8. q \in Nat /\ \A i \in DOMAIN scanned[c] : Cardinality(PutsIn(scanned[c][i])) <= q
    BY DEF Fills, FewPuts
  <2>9. Cardinality(live) <= q * Cardinality(DOMAIN scanned[c])
    BY <2>2, <2>8, SurvivorsCount DEF live
  <2>10. Cardinality(stale[c]) \in Nat /\ Cardinality(DOMAIN scanned[c]) \in Nat
         /\ Cardinality(DOMAIN scanned[c]) <= Cardinality(stale[c])
    <3>1. DOMAIN scanned[c] \in SUBSET stale[c] BY DEF CInv, RInv, ContentTypes
    <3>2. IsFiniteSet(stale[c]) /\ Cardinality(stale[c]) \in Nat
      BY StaleFinite DEF CInv, RInv
    <3> QED BY <2>2, <3>1, <3>2, FS_Subset, FS_CardinalityType
  <2>11. Cardinality(live) <= q * Cardinality(stale[c])
    <3> DEFINE n == Cardinality(DOMAIN scanned[c])
               s == Cardinality(stale[c])
               l == Cardinality(live)
    <3>1. n \in Nat /\ s \in Nat /\ n <= s /\ l \in Nat /\ l <= q * n BY <2>6, <2>9, <2>10
    <3> HIDE DEF n, s, l
    <3>2. n * q <= s * q /\ n * q \in Nat /\ s * q \in Nat BY <2>8, <3>1, TimesMonotone
    <3>3. n * q = q * n /\ s * q = q * s BY <2>8, <3>1
    <3>4. l <= q * s BY <3>1, <3>2, <3>3
    <3> QED BY <3>4 DEF s, l
  <2>12. Len(records) > 0 /\ Len(records) <= q * Cardinality(stale[c])
    BY <2>4, <2>6, <2>7, <2>11
  <2>13. /\ Len(Pack(records, CompactorSegmentSize)) <= Cardinality(stale[c])
         /\ \A i \in 1..Len(Pack(records, CompactorSegmentSize)) :
              Len(Pack(records, CompactorSegmentSize)[i]) <= q
    BY <2>3, <2>10, <2>12, OutputsOf
  <2>14. /\ outs'[c] = Pack(records, CompactorSegmentSize)
         /\ \A d \in Compactors : d # c => outs'[d] = outs[d]
    BY <2>1 DEF CInv, RInv, IInv, TypeOK, CompactionTypes, records
  <2>15. FewPuts(q)' BY <1>0, <1>2, <2>13, <2>14 DEF FewPuts
  <2>16. OutputsReuseIds' BY <1>2, <2>13, <2>14 DEF OutputsReuseIds
  <2> QED BY <2>15, <2>16
<1> QED BY <1>1, <1>2 DEF WriteSurvivors

\* The number of puts in an output is at most q when it takes an id.
LEMMA RenameFewPuts ==
  ASSUME Unbuffered, CInv, OutputsReuseIds, NEW q, FewPuts(q), Fills(q), NEW c \in Compactors,
         Rename(c)
  PROVE  FewPuts(q)' /\ OutputsReuseIds'
<1>1. \/ Forget(c) /\ UNCHANGED disk
      \/ /\ \E i : disk' = WithFile(disk, i, Written(c, Len(outs[c]) - renamed[c]))
         /\ UNCHANGED <<stale, scanned, outs>>
  BY DEF Rename
<1>2. CASE Forget(c) /\ UNCHANGED disk BY <1>2, ForgetFewPuts DEF FewPuts
<1>3. CASE /\ \E i : disk' = WithFile(disk, i, Written(c, Len(outs[c]) - renamed[c]))
           /\ UNCHANGED <<stale, scanned, outs>>
  <2> DEFINE j == Len(outs[c]) - renamed[c]
             file == outs[c][j]
  <2>1. renamed[c] < Len(outs[c]) /\ renamed[c] \in Nat /\ outs[c] \in Seq(Seq(PutRecords))
    BY DEF Rename, CInv, RInv, IInv, TypeOK, CompactionTypes, ClientContent
  <2>2. j \in 1..Len(outs[c]) BY <2>1
  <2>3. Written(c, j) = file /\ file \in Seq(ClientRecord)
    BY <2>2, WrittenWhole DEF CInv, RInv, IInv, TypeOK
  <2>4. Len(file) <= q BY <2>2 DEF FewPuts
  <2>5. Cardinality(PutsIn(file)) <= q
    <3>1. q \in Nat BY DEF Fills
    <3> HIDE DEF file
    <3>2. Cardinality(PutsIn(file)) \in Nat /\ Cardinality(PutsIn(file)) <= Len(file)
      BY <2>3, PutsInFact
    <3>3. Len(file) \in Nat BY <2>3
    <3> QED BY <2>4, <3>1, <3>2, <3>3
  <2>6. PICK i : disk' = WithFile(disk, i, Written(c, j)) BY <1>3
  <2> HIDE DEF file, j
  <2>7. \A x \in DOMAIN disk' : Cardinality(PutsIn(disk'[x])) <= q
    BY <2>3, <2>5, <2>6 DEF WithFile, FewPuts
  <2> QED BY <1>3, <2>7 DEF FewPuts, OutputsReuseIds
<1> QED BY <1>1, <1>2, <1>3

LEMMA NextFewPuts ==
  ASSUME Unbuffered, SameSizes, CInv, CInv', OutputsReuseIds, NEW q, Fills(q), FewPuts(q),
         [Next]_vars
  PROVE  FewPuts(q)' /\ OutputsReuseIds'
<1>1. ASSUME NEW k \in Key, NEW v \in Value, Put(k, v) PROVE FewPuts(q)' /\ OutputsReuseIds'
  BY <1>1, AppendFewPuts DEF Put, ClientRecord, OutputsReuseIds, compaction
<1>2. ASSUME NEW k \in DeletableKeys, Delete(k) PROVE FewPuts(q)' /\ OutputsReuseIds'
  BY <1>2, AppendFewPuts, StoreAssumption DEF Delete, ClientRecord, OutputsReuseIds, compaction
<1>3. ASSUME NEW c \in Compactors, Compact(c) PROVE FewPuts(q)' /\ OutputsReuseIds'
  <2>1. CASE StartCompaction(c) BY <2>1, StartFewPuts
  <2>2. CASE ScanFile(c) BY <2>2, ScanFewPuts
  <2>3. CASE WriteSurvivors(c) BY <2>3, SurvivorsFewPuts
  <2>4. CASE Rename(c) BY <2>4, RenameFewPuts
  <2>5. CASE RemoveStale(c)
    <3>1. CASE Forget(c) /\ UNCHANGED disk BY <3>1, ForgetFewPuts DEF FewPuts
    <3>2. CASE (\E i : disk' = WithoutFile(disk, i)) /\ UNCHANGED <<stale, scanned, outs>>
      BY <3>2 DEF WithoutFile, Restrict, FewPuts, OutputsReuseIds
    <3> QED BY <2>5, <3>1, <3>2 DEF RemoveStale
  <2>6. CASE UNCHANGED <<disk, stale, scanned, outs>> BY <2>6 DEF FewPuts, OutputsReuseIds
  <2>7. CASE Forget(c) /\ UNCHANGED disk BY <2>7, ForgetFewPuts DEF FewPuts
  <2>8. CASE Stop /\ UNCHANGED disk BY <2>8, StopFewPuts DEF FewPuts
  <2> QED BY <1>3, <2>1, <2>2, <2>3, <2>4, <2>5, <2>6, <2>7, <2>8
          DEF Compact, BeginCommit, BeginRemove, PanicOnSlice, Reindex, Fail
<1>4. CASE Crash BY <1>4, StopFewPuts DEF Crash, FewPuts
<1>5. ASSUME NEW k \in Key, NEW v \in Value, CrashInRoll(k, v)
      PROVE  FewPuts(q)' /\ OutputsReuseIds'
  <2>1. <<>> \in Seq(ClientRecord) /\ Len(<<>>) = 0 OBVIOUS
  <2>2. Cardinality(PutsIn(<<>>)) \in Nat /\ Cardinality(PutsIn(<<>>)) <= 0
    BY <2>1, PutsInFact
  <2>3. Cardinality(PutsIn(<<>>)) <= q BY <2>2 DEF Fills
  <2>4. \A i \in DOMAIN disk' : Cardinality(PutsIn(disk'[i])) <= q
    BY <1>5, <2>3 DEF CrashInRoll, WithFile, FewPuts
  <2> QED BY <1>5, <2>4, StopFewPuts DEF CrashInRoll
<1>6. CASE UNCHANGED <<disk, stale, scanned, outs>> BY <1>6 DEF FewPuts, OutputsReuseIds
<1> QED BY <1>1, <1>2, <1>3, <1>4, <1>5, <1>6 DEF Next, Restart, vars, compaction

LEMMA InitFewPuts ==
  ASSUME Init, NEW q, Fills(q)
  PROVE  FewPuts(q) /\ OutputsReuseIds
<1>1. <<>> \in Seq(ClientRecord) /\ Len(<<>>) = 0 /\ \A j \in 1..0 : FALSE OBVIOUS
<1>2. Cardinality(PutsIn(<<>>)) \in Nat /\ Cardinality(PutsIn(<<>>)) <= 0
  BY <1>1, PutsInFact
<1>3. Cardinality(PutsIn(<<>>)) <= q BY <1>2 DEF Fills
<1>4. Cardinality({}) = 0 BY FS_EmptySet
<1> QED BY <1>1, <1>3, <1>4 DEF Init, FewPuts, OutputsReuseIds

\* A compaction never has more outputs than stale files, whatever the number of
\* compactors and wherever kills and failing calls strike, when the puts have
\* one size, exceed the compactor's buffer, and the writer's segments are no
\* larger than the compactor's (compaction.go's roll against file-util.go's):
\* every output but the last takes as many puts as a stale file can have had.
THEOREM OutputsFitIds ==
  ASSUME Unbuffered, SameSizes
  PROVE  Spec => []OutputsReuseIds
<1>1. Init => BInv
  <2> SUFFICES ASSUME Init PROVE BInv OBVIOUS
  <2>1. PICK q : Fills(q) BY FillsExists
  <2> QED BY <2>1, InitCInv, InitFewPuts DEF BInv
<1>2. BInv /\ [Next]_vars => BInv'
  <2> SUFFICES ASSUME BInv, [Next]_vars PROVE BInv' OBVIOUS
  <2>1. PICK q : Fills(q) /\ FewPuts(q) BY DEF BInv
  <2>2. CInv' BY NextCInv DEF BInv
  <2>3. FewPuts(q)' /\ OutputsReuseIds' BY <2>1, <2>2, NextFewPuts DEF BInv
  <2>4. \E p : Fills(p)' /\ FewPuts(p)' BY <2>1, <2>3 DEF Fills
  <2> QED BY <2>2, <2>3, <2>4 DEF BInv
<1>3. BInv => OutputsReuseIds BY DEF BInv
<1> QED BY <1>1, <1>2, <1>3, PTL DEF Spec
=============================================================================
