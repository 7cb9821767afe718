----------------------------- MODULE FileStore -----------------------------
(***************************************************************************)
(* The store of kv-store over segment files with the position index and a  *)
(* sync after every write: storage.FileStore, and the FileWriter,          *)
(* FileReader, PositionIndexer and Compactor it owns.                      *)
(*                                                                         *)
(* Put, Delete and Get hold f.mu to their end, so each is one step.  A     *)
(* compaction is many: it lists and scans the stale segments under the     *)
(* compactor's own lock while writes go on, writes the survivors to files  *)
(* with random names, then takes f.mu and installs them one system call at *)
(* a time.  The ticker's goroutine and every POST /compaction run it, and  *)
(* the process may be killed between any two calls.  The data directory is *)
(* the default one, which the compactor always uses.                       *)
(***************************************************************************)
EXTENDS SegmentFiles, Integers

CONSTANTS
  Compactors,            \* the goroutines that may run CompactSegments
  MaxSegmentSize,        \* roll threshold of the writer
  CompactorSegmentSize,  \* roll threshold of the compactor
  CompactorBufferSize,   \* size of the compactor's bufio.Writer
  StaleSegmentThreshold, \* fewest stale segments worth a compaction
  DeletableKeys,         \* bound: the keys clients delete
  MaxSegments,           \* bound: the highest segment id the writer rolls to
  CrashPhases,           \* bound: the phases in which a kill may find a compaction
  FaultPhases            \* bound: the phases in which a call of a compaction may fail

ScanPhases == {"scan", "write"}
CommitPhases == {"rename", "remove"}
Phases == {"idle", "waiting"} \cup ScanPhases \cup CommitPhases

ASSUME StoreAssumption ==
  /\ MaxSegmentSize \in Nat
  /\ CompactorSegmentSize \in Nat
  /\ CompactorBufferSize \in Nat
  /\ StaleSegmentThreshold \in Nat \ {0}
  /\ DeletableKeys \subseteq Key
  /\ MaxSegments \in Nat
  /\ CrashPhases \subseteq Phases
  /\ FaultPhases \subseteq ScanPhases \cup CommitPhases

VARIABLES
  disk,     \* segment id -> the records in that file
  active,   \* id of the segment the writer appends to
  index,    \* key -> location, in memory
  up,       \* is the process serving?
  acked,    \* history: the last acknowledged write of each key
  pc,       \* the phase each compactor is in
  stale,    \* the segment ids it listed
  todo,     \* of these, the ids still to scan, later those still to remove
  scanned,  \* the contents it read from them
  outs,     \* the files of survivors it wrote
  renamed   \* how many of these it has renamed

compaction == <<pc, stale, todo, scanned, outs, renamed>>
vars == <<disk, active, index, up, acked, compaction>>

\* Mutation of Scanning: the compactor's lock is let go before the survivors
\* are written.
ScanningOnly == \E c \in Compactors : pc[c] = "scan"

Committing == \E c \in Compactors : pc[c] \in CommitPhases
Scanning == \E c \in Compactors : pc[c] \in ScanPhases

Init ==
  /\ disk = [i \in {1} |-> <<>>]
  /\ active = 1
  /\ index = [k \in {} |-> 0]
  /\ up = TRUE
  /\ acked = [k \in Key |-> NotFound]
  /\ pc = [c \in Compactors |-> "idle"]
  /\ stale = [c \in Compactors |-> {}]
  /\ todo = [c \in Compactors |-> {}]
  /\ scanned = [c \in Compactors |-> [i \in {} |-> <<>>]]
  /\ outs = [c \in Compactors |-> <<>>]
  /\ renamed = [c \in Compactors |-> 0]

-----------------------------------------------------------------------------
(* Clients. *)

WithFile(files, i, content) ==
  [x \in DOMAIN files \cup {i} |-> IF x = i THEN content ELSE files[x]]

WithoutFile(files, i) == Restrict(files, DOMAIN files \ {i})

NeedsRoll(r) ==
  /\ FileSize(disk[active]) > 0
  /\ FileSize(disk[active]) + r.size > MaxSegmentSize

\* Writer.Append: roll if the record does not fit, write, flush, sync.
AppendRecord(r) ==
  \/ /\ ~NeedsRoll(r)
     /\ disk' = WithFile(disk, active, Append(disk[active], r))
     /\ active' = active
  \/ /\ NeedsRoll(r)
     /\ active < MaxSegments
     /\ disk' = WithFile(disk, active + 1, <<r>>)
     /\ active' = active + 1

Put(k, v) ==
  /\ up /\ ~Committing
  /\ AppendRecord(PutRecord(k, v))
  /\ index' = [x \in DOMAIN index \cup {k} |->
                 IF x = k THEN Location(disk', active', Len(disk'[active'])) ELSE index[x]]
  /\ acked' = [acked EXCEPT ![k] = v]
  /\ UNCHANGED <<up, compaction>>

Delete(k) ==
  /\ up /\ ~Committing
  /\ k \in DOMAIN index
  /\ AppendRecord(DelRecord(k))
  /\ index' = [x \in DOMAIN index \ {k} |-> index[x]]
  /\ acked' = [acked EXCEPT ![k] = NotFound]
  /\ UNCHANGED <<up, compaction>>

\* The answer Get gives for k; a read changes nothing.
GetResult(k) ==
  IF k \in DOMAIN index THEN ReadAtOffset(disk, index[k]) ELSE NotFound

-----------------------------------------------------------------------------
(* The compactor's scan, under its own lock only. *)

Forget(c) ==
  /\ pc' = [pc EXCEPT ![c] = "idle"]
  /\ stale' = [stale EXCEPT ![c] = {}]
  /\ todo' = [todo EXCEPT ![c] = {}]
  /\ scanned' = [scanned EXCEPT ![c] = [i \in {} |-> <<>>]]
  /\ outs' = [outs EXCEPT ![c] = <<>>]
  /\ renamed' = [renamed EXCEPT ![c] = 0]

IsFirst(ids, i) == i \in ids /\ \A x \in ids : i <= x
IsLast(ids, i) == i \in ids /\ \A x \in ids : x <= i

StartCompaction(c) ==
  /\ up /\ pc[c] = "idle" /\ ~Scanning
  /\ LET older == StaleSegments(disk, StaleSegmentThreshold)
     IN  /\ older # {}
         /\ pc' = [pc EXCEPT ![c] = "scan"]
         /\ stale' = [stale EXCEPT ![c] = older]
         /\ todo' = [todo EXCEPT ![c] = older]
  /\ UNCHANGED <<disk, active, index, up, acked, scanned, outs, renamed>>

\* scanFile on the next listed path; it may be gone, or not decode.
ScanFile(c) ==
  /\ pc[c] = "scan"
  /\ \E i \in todo[c] :
       /\ IsFirst(todo[c], i)
       /\ IF i \in DOMAIN disk /\ Decodable([x \in {i} |-> disk[i]])
          THEN /\ scanned' = [scanned EXCEPT ![c] = WithFile(@, i, disk[i])]
               /\ todo' = [todo EXCEPT ![c] = @ \ {i}]
               /\ pc' = [pc EXCEPT ![c] = IF todo[c] = {i} THEN "write" ELSE "scan"]
               /\ UNCHANGED <<stale, outs, renamed>>
          ELSE Forget(c)
  /\ UNCHANGED <<disk, active, index, up, acked>>

\* The latest put of each scanned key, rewritten in the order the map yields
\* them.  No survivor at all is "nothing to compact".
WriteSurvivors(c) ==
  /\ pc[c] = "write"
  /\ LET live == LiveKeys(scanned[c])
     IN  IF live = {}
         THEN Forget(c)
         ELSE /\ \E order \in SetToSeqs(live) :
                   outs' = [outs EXCEPT ![c] =
                     Pack([j \in DOMAIN order |-> Rewritten(LastRecord(scanned[c], order[j]))],
                          CompactorSegmentSize)]
              /\ pc' = [pc EXCEPT ![c] = "waiting"]
              /\ UNCHANGED <<stale, todo, scanned, renamed>>
  /\ UNCHANGED <<disk, active, index, up, acked>>

-----------------------------------------------------------------------------
(* The commit, under f.mu from its first step to its last. *)

BeginCommit(c) ==
  /\ pc[c] = "waiting" /\ ~Committing
  /\ pc' = [pc EXCEPT ![c] = "rename"]
  /\ UNCHANGED <<disk, active, index, up, acked, stale, todo, scanned, outs, renamed>>

\* Mutations of TargetId: ids past the newest, and one too high.
TargetIdMinted(last, n) == active + 1 + n
TargetIdTooHigh(last, n) == last + 1 - n

\* The id the (n + 1)-th output from the end is renamed to: the highest stale id
\* goes to the last output, and each one before it gets the next lower.
TargetId(last, n) == last - n

\* The bytes of an output that are in the file: all outputs but the last were
\* flushed when the compactor rolled to the next.
Written(c, j) ==
  IF j < Len(outs[c]) THEN outs[c][j] ELSE Unflushed(outs[c][j], CompactorBufferSize)

\* The next os.Rename, from the last output to the first, or the error return
\* once the ids have run out.
Rename(c) ==
  /\ pc[c] = "rename" /\ renamed[c] < Len(outs[c])
  /\ \E last \in stale[c] :
       /\ IsLast(stale[c], last)
       /\ IF TargetId(last, renamed[c]) > 0
          THEN /\ disk' = WithFile(disk, TargetId(last, renamed[c]),
                                    Written(c, Len(outs[c]) - renamed[c]))
               /\ renamed' = [renamed EXCEPT ![c] = @ + 1]
               /\ UNCHANGED <<pc, stale, todo, scanned, outs>>
          ELSE Forget(c) /\ UNCHANGED disk
  /\ UNCHANGED <<active, index, up, acked>>

\* Mutations of Remaining: one file too few, one too many.
RemainingTooFew(ids, n) == {i \in ids : Cardinality({x \in ids : x > i}) > n}
RemainingTooMany(ids, n) == {i \in ids : Cardinality({x \in ids : x > i}) + 1 >= n}

\* The stale files whose ids were not reused: all but the n highest.
Remaining(ids, n) == {i \in ids : Cardinality({x \in ids : x > i}) >= n}

BeginRemove(c) ==
  /\ pc[c] = "rename" /\ renamed[c] = Len(outs[c])
  /\ Len(outs[c]) <= Cardinality(stale[c])
  /\ todo' = [todo EXCEPT ![c] = Remaining(stale[c], Len(outs[c]))]
  /\ pc' = [pc EXCEPT ![c] = "remove"]
  /\ UNCHANGED <<disk, active, index, up, acked, stale, scanned, outs, renamed>>

Stop ==
  /\ up' = FALSE
  /\ index' = [k \in {} |-> 0]
  /\ pc' = [c \in Compactors |-> "idle"]
  /\ stale' = [c \in Compactors |-> {}]
  /\ todo' = [c \in Compactors |-> {}]
  /\ scanned' = [c \in Compactors |-> [i \in {} |-> <<>>]]
  /\ outs' = [c \in Compactors |-> <<>>]
  /\ renamed' = [c \in Compactors |-> 0]
  /\ acked' = acked

\* More outputs than stale files: the slice bound is negative and the panic
\* ends an HTTP request, or the process when the ticker's goroutine ran it.
PanicOnSlice(c) ==
  /\ pc[c] = "rename" /\ renamed[c] = Len(outs[c])
  /\ Len(outs[c]) > Cardinality(stale[c])
  /\ \/ Forget(c) /\ UNCHANGED <<disk, active, index, up, acked>>
     \/ Stop /\ UNCHANGED <<disk, active>>

\* os.Remove of the next path, or the error return when the file is gone.
RemoveStale(c) ==
  /\ pc[c] = "remove"
  /\ \E i \in todo[c] :
       /\ IsFirst(todo[c], i)
       /\ IF i \in DOMAIN disk
          THEN /\ disk' = WithoutFile(disk, i)
               /\ todo' = [todo EXCEPT ![c] = @ \ {i}]
               /\ UNCHANGED <<pc, stale, scanned, outs, renamed>>
          ELSE Forget(c) /\ UNCHANGED disk
  /\ UNCHANGED <<active, index, up, acked>>

\* Mutations of Superseded: no check of the segment, and one that is too strong.
SupersededIfDeleted(c, k) == k \notin DOMAIN index
SupersededIfThere(c, k) ==
  \/ k \notin DOMAIN index
  \/ index[k].segment >= LastPosition(scanned[c], k)[1]

\* A compacted key's entry is left alone if it is gone or in a newer segment
\* than the one the key's record was scanned from.
Superseded(c, k) ==
  \/ k \notin DOMAIN index
  \/ index[k].segment > LastPosition(scanned[c], k)[1]

\* Mutations of CompactedLocation: the place the record was scanned at, and the
\* highest id for every output.
CompactedLocationAsScanned(c, last, k) ==
  LET p == LastPosition(outs[c], k)
      q == LastPosition(scanned[c], k)
  IN  [Location(scanned[c], q[1], q[2]) EXCEPT !.segment = TargetId(last, Len(outs[c]) - p[1])]
CompactedLocationInLast(c, last, k) ==
  LET p == LastPosition(outs[c], k)
  IN  [Location(outs[c], p[1], p[2]) EXCEPT !.segment = last]

\* Where the compactor's result and the rename put k's record.
CompactedLocation(c, last, k) ==
  LET p == LastPosition(outs[c], k)
  IN  [Location(outs[c], p[1], p[2]) EXCEPT !.segment = TargetId(last, Len(outs[c]) - p[1])]

Reindex(c) ==
  /\ pc[c] = "remove" /\ todo[c] = {}
  /\ \E last \in stale[c] :
       /\ IsLast(stale[c], last)
       /\ index' = [k \in DOMAIN index |->
                      IF k \notin LiveKeys(scanned[c]) \/ Superseded(c, k)
                      THEN index[k]
                      ELSE CompactedLocation(c, last, k)]
  /\ Forget(c)
  /\ UNCHANGED <<disk, active, up, acked>>

\* A call fails: the compaction returns the error and leaves everything as it is,
\* the outputs it has renamed and the files it has removed included.
Fail(c) ==
  /\ pc[c] \in FaultPhases
  /\ pc[c] = "rename" => renamed[c] < Len(outs[c])
  /\ pc[c] = "remove" => todo[c] # {}
  /\ Forget(c)
  /\ UNCHANGED <<disk, active, index, up, acked>>

-----------------------------------------------------------------------------
(* The process. *)

\* A kill: what is in memory is gone, what was written stays.
Crash ==
  /\ up /\ \A c \in Compactors : pc[c] \in CrashPhases
  /\ Stop
  /\ UNCHANGED <<disk, active>>

\* A kill in Writer.roll, when the next segment is there and has no record yet.
CrashInRoll(k, v) ==
  /\ up /\ ~Committing /\ \A c \in Compactors : pc[c] \in CrashPhases
  /\ NeedsRoll(PutRecord(k, v)) /\ active < MaxSegments
  /\ disk' = WithFile(disk, active + 1, <<>>)
  /\ active' = active + 1
  /\ Stop

\* NewFileStore: append to the highest segment, replay all of them.
Restart ==
  /\ ~up /\ Decodable(disk)
  /\ \E last \in DOMAIN disk : IsLast(DOMAIN disk, last) /\ active' = last
  /\ index' = Populate(disk)
  /\ up' = TRUE
  /\ UNCHANGED <<disk, acked, compaction>>

Compact(c) ==
  \/ StartCompaction(c)
  \/ ScanFile(c)
  \/ WriteSurvivors(c)
  \/ BeginCommit(c)
  \/ Rename(c)
  \/ BeginRemove(c)
  \/ PanicOnSlice(c)
  \/ RemoveStale(c)
  \/ Reindex(c)
  \/ Fail(c)

Next ==
  \/ \E k \in Key, v \in Value : Put(k, v)
  \/ \E k \in DeletableKeys : Delete(k)
  \/ \E c \in Compactors : Compact(c)
  \/ Crash
  \/ \E k \in Key, v \in Value : CrashInRoll(k, v)
  \/ Restart

Spec == Init /\ [][Next]_vars

-----------------------------------------------------------------------------
(* Properties. *)

ClientRecord ==
  {PutRecord(k, v) : k \in Key, v \in Value} \cup {DelRecord(k) : k \in Key}

StoreTypes ==
  /\ DOMAIN disk \subseteq Nat \ {0}
  /\ active \in Nat \ {0}
  /\ DOMAIN index \subseteq Key
  /\ up \in BOOLEAN
  /\ acked \in [Key -> Value \cup {NotFound}]

CompactionTypes ==
  /\ pc \in [Compactors -> Phases]
  /\ stale \in [Compactors -> SUBSET (Nat \ {0})]
  /\ todo \in [Compactors -> SUBSET (Nat \ {0})]
  /\ DOMAIN scanned = Compactors
  /\ DOMAIN outs = Compactors
  /\ renamed \in [Compactors -> Nat]

Bookkeeping ==
  \A c \in Compactors :
    /\ todo[c] \subseteq stale[c]
    /\ pc[c] = "idle" => stale[c] = {}
    /\ ~up => pc[c] = "idle"

LocksExclude ==
  \A c, d \in Compactors : c # d =>
    /\ ~(pc[c] \in CommitPhases /\ pc[d] \in CommitPhases)
    /\ ~(pc[c] \in ScanPhases /\ pc[d] \in ScanPhases)

\* Every variable has its type: segment ids are positive, an idle compaction
\* holds no list, and at most one compaction commits (f.mu) and at most one
\* scans (Compactor.rwLock) at a time.
TypeOK == StoreTypes /\ CompactionTypes /\ Bookkeeping /\ LocksExclude

\* The segment the writer appends to exists and has the highest id, whatever
\* compactions and restarts do: "ascending ID order is a load-bearing
\* invariant" (README.md).
NewestIsActive ==
  /\ active \in DOMAIN disk
  /\ \A i \in DOMAIN disk : i <= active
  /\ disk[active] \in Seq(ClientRecord)

\* Whenever f.mu is free, Get answers every key with its last acknowledged
\* write (filestore.go Get, Put, Delete and processCompaction together).
ReadsLatest ==
  up /\ ~Committing => \A k \in Key : GetResult(k) = acked[k]

\* The index that lives through writes and compactions is the one a restart
\* would build from the files (position.go Populate against its updates).
IndexIsReplay ==
  up /\ ~Committing => index = Populate(disk)

\* A compaction never has more outputs than files it replaces, so that the
\* outputs can reuse their ids (README.md, "Compaction").  That needs records of one
\* size, and a compactor whose segments are no smaller than the writer's: its own
\* 2 KiB default under larger configured segments breaks it.
OutputsReuseIds ==
  \A c \in Compactors : Len(outs[c]) <= Cardinality(stale[c])

\* What a compaction lists is sealed: neither the active segment nor the one
\* before it, however far the writer rolls in the meantime and whatever other
\* compactions do.
SealedSegmentsOnly ==
  \A c \in Compactors : \A i \in stale[c] : i + 1 < active

\* A write in one of the two newest segments is never lost or shadowed, by any
\* interleaving of compactions and crashes: the files hold its acknowledged
\* value last, and the index has exactly its place, or nothing for a delete.
RecentWritesSafe ==
  up => \A k \in Key :
    Positions(disk, k) # {} /\ LastPosition(disk, k)[1] + 1 >= active =>
      LET p == LastPosition(disk, k)
          r == LastRecord(disk, k)
      IN  /\ acked[k] = IF r.op = "del" THEN NotFound ELSE r.val
          /\ IF r.op = "del"
             THEN k \notin DOMAIN index
             ELSE k \in DOMAIN index /\ index[k] = Location(disk, p[1], p[2])

\* A compaction that completes leaves, at or below the ids it replaced, "only the
\* latest surviving record per key (dropping tombstones entirely ...)" (README.md,
\* "Compaction"), and a replay of that prefix gives what a replay of the replaced
\* files gave.
CompactedPrefix ==
  [][\A c \in Compactors :
       pc[c] = "remove" /\ todo[c] = {} /\ up' /\ pc'[c] = "idle" =>
         LET prefix == Restrict(disk', {i \in DOMAIN disk' : \E m \in stale[c] : i <= m})
         IN  /\ \A k \in Key : Cardinality(Positions(prefix, k)) <= 1
             /\ \A i \in DOMAIN prefix : \A j \in 1..Len(prefix[i]) : prefix[i][j].op # "del"
             /\ Recovered(prefix) = Recovered(scanned[c])]_vars

\* Files change in two ways only: outside a commit by appending to the newest,
\* and in a commit never at the two newest.
SealedSegmentsImmutable ==
  [][\A i \in DOMAIN disk :
       IF Committing
       THEN i + 1 >= active => i \in DOMAIN disk' /\ disk'[i] = disk[i]
       ELSE /\ i \in DOMAIN disk'
            /\ IF i < active THEN disk'[i] = disk[i] ELSE IsPrefix(disk[i], disk'[i])]_vars

\* A kill at any instant loses nothing and brings nothing back: a start on the
\* files as they are answers every key with its last acknowledged write.  So it is
\* for a store of puts whose compactions have a single output; with deletes, or with
\* several outputs, a kill between a rename and the last removal is visible.
CrashLosesNothing == Recovered(disk) = acked

\* What clients see is the map of KVStore.  While a commit or a restart keeps
\* them waiting, the map stands for what they were told last.
Serving == up /\ ~Committing
Visible == IF Serving THEN [k \in Key |-> GetResult(k)] ELSE acked
Abstract == INSTANCE KVStore WITH store <- Visible, serving <- Serving
ImplementsKVStore == Abstract!Spec
=============================================================================
