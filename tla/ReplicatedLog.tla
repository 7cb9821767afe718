--------------------------- MODULE ReplicatedLog ---------------------------
(***************************************************************************)
(* The entry log of state-machine: replication.Log over one append-only    *)
(* file, its FileWriter and FileReader, and the index rebuilt when the log *)
(* is created.  Log.mu makes Append, Read and Close one step each; what is *)
(* hard is a write(2) that stops part of the way, because the process was  *)
(* killed in it or because it returned short, and everything that is       *)
(* written after it.                                                       *)
(***************************************************************************)
EXTENDS Naturals, Sequences, FiniteSets, SequencesExt

CONSTANTS
  Data,         \* what clients append
  HeaderSize,   \* bytes of an entry before its data: EntryHeaderSize
  SizeOf,       \* bytes of a whole entry with this data
  CutPoints,    \* bound: how many bytes an interrupted write may leave
  MaxEntries,   \* bound: writes to the file
  MaxKills,     \* bound: processes killed
  MaxShort      \* bound: writes that return short

ASSUME LogAssumption ==
  /\ HeaderSize \in Nat \ {0}
  /\ \A d \in Data : SizeOf[d] \in Nat /\ SizeOf[d] >= HeaderSize
  /\ CutPoints \subseteq Nat \ {0}
  /\ MaxEntries \in Nat /\ MaxKills \in Nat /\ MaxShort \in Nat

VARIABLES
  file,       \* the writes that reached the file: whole entries and torn ones
  offset,     \* FileWriter.offset
  entries,    \* Log.entries: index -> location
  firstIndex, \* Log.firstIndex
  lastIndex,  \* Log.lastIndex
  status,     \* "open", "closed" by Close, or "down"
  acked,      \* history: index -> data, as Append returned them
  kills,      \* processes killed so far
  shorts      \* short writes so far

vars == <<file, offset, entries, firstIndex, lastIndex, status, acked, kills, shorts>>

-----------------------------------------------------------------------------
(* The file. *)

\* A write of d as entry i, of which n bytes reached the file.
Written(i, d, n) == [index |-> i, data |-> d, size |-> SizeOf[d], kept |-> n]
Torn(e) == e.kept < e.size

\* Where the j-th write begins.
Offset(f, j) ==
  LET end[i \in 0..Len(f)] == IF i = 0 THEN 0 ELSE end[i - 1] + f[i].kept
  IN  end[j - 1]

FileSize(f) == Offset(f, Len(f) + 1)

\* How many whole entries the file begins with.
Whole(f) ==
  CHOOSE n \in 0..Len(f) :
    /\ \A j \in 1..n : ~Torn(f[j])
    /\ n = Len(f) \/ Torn(f[n + 1])

EntryLocation(f, j) == [offset |-> Offset(f, j), size |-> f[j].size]

\* Mutation of RebuiltEntries: a torn entry whose header is whole counts.
RebuiltEntriesWithTorn(f) ==
  LET n == IF Whole(f) < Len(f) /\ f[Whole(f) + 1].kept >= HeaderSize
           THEN Whole(f) + 1 ELSE Whole(f)
      newest(i) == CHOOSE j \in 1..n : f[j].index = i /\ \A x \in (j + 1)..n : f[x].index # i
  IN  [i \in {f[j].index : j \in 1..n} |-> EntryLocation(f, newest(i))]

\* The index of the entries before the first torn write.
RebuiltEntries(f) ==
  LET n == Whole(f)
      newest(i) == CHOOSE j \in 1..n : f[j].index = i /\ \A x \in (j + 1)..n : f[x].index # i
  IN  [i \in {f[j].index : j \in 1..n} |-> EntryLocation(f, newest(i))]

\* Mutation of RebuildErrs: a torn tail is an error too.
RebuildErrsIfTorn(f) == {Whole(f) # Len(f)}

\* May the rebuild end in an error?  At a torn tail it stops.  A torn entry
\* with bytes behind it takes those for its own: the checksum fails if they are
\* enough, and if the torn part does not hold the length, any may be read.
RebuildErrs(f) ==
  LET n == Whole(f)
      t == f[n + 1]
      behind == FileSize(f) - Offset(f, n + 2)
  IN  CASE n = Len(f) -> {FALSE}
        [] n < Len(f) /\ behind = 0 -> {FALSE}
        [] n < Len(f) /\ behind > 0 /\ t.kept >= HeaderSize -> {t.kept + behind >= t.size}
        [] OTHER -> IF t.kept + behind < HeaderSize THEN {FALSE} ELSE BOOLEAN

\* An entry as Read returns it, and the one that comes with an error: an entry that
\* was appended has an index from one.
Entry(i, d) == [index |-> i, data |-> d]
NoEntry == [index |-> 0]

\* What lies at a location: the entry that was written exactly there, if all of it
\* was; anything else is too short, of another length or fails its checksum.
ReadAt(f, loc) ==
  LET exact == {j \in 1..Len(f) : EntryLocation(f, j) = loc /\ ~Torn(f[j])}
      found == f[CHOOSE j \in exact : TRUE]
  IN  IF exact = {} THEN NoEntry ELSE Entry(found.index, found.data)

-----------------------------------------------------------------------------
Init ==
  /\ file = <<>>
  /\ offset = 0
  /\ entries = [i \in {} |-> 0]
  /\ firstIndex = 0
  /\ lastIndex = 0
  /\ status = "open"
  /\ acked = [i \in {} |-> 0]
  /\ kills = 0
  /\ shorts = 0

\* Mutations of NextIndex: the last index again, the one after the first, and
\* the number of writes instead of the number of entries.
NextIndexStuck == lastIndex
NextIndexAfterFirst == firstIndex + 1
NextIndexOfWrites == Len(file) + 1

NextIndex == lastIndex + 1

\* The offset after a write that succeeded.
NextOffset(d) == offset + SizeOf[d]

\* Log.Append with a write that succeeds.
AppendEntry(d) ==
  /\ status = "open"
  /\ Len(file) < MaxEntries
  /\ file' = Append(file, Written(NextIndex, d, SizeOf[d]))
  /\ entries' = [i \in DOMAIN entries \cup {NextIndex} |->
                   IF i = NextIndex THEN [offset |-> offset, size |-> SizeOf[d]] ELSE entries[i]]
  /\ offset' = NextOffset(d)
  /\ lastIndex' = NextIndex
  /\ firstIndex' = IF firstIndex = 0 THEN NextIndex ELSE firstIndex
  /\ acked' = [i \in DOMAIN acked \cup {NextIndex} |-> IF i = NextIndex THEN d ELSE acked[i]]
  /\ UNCHANGED <<status, kills, shorts>>

\* Log.Append with a write that stops after n bytes and returns an error (the
\* disk is full, say): the bytes stay, the offset and the index do not move.
ShortWrite(d, n) ==
  /\ status = "open"
  /\ Len(file) < MaxEntries /\ shorts < MaxShort /\ n < SizeOf[d]
  /\ file' = Append(file, Written(NextIndex, d, n))
  /\ shorts' = shorts + 1
  /\ UNCHANGED <<offset, entries, firstIndex, lastIndex, status, acked, kills>>

Down ==
  /\ status' = "down"
  /\ offset' = 0 /\ firstIndex' = 0 /\ lastIndex' = 0
  /\ entries' = [i \in {} |-> 0]
  /\ UNCHANGED <<acked, shorts>>

\* The process is killed between two calls.
Kill ==
  /\ status # "down" /\ kills < MaxKills
  /\ kills' = kills + 1
  /\ file' = file
  /\ Down

\* The process is killed in Append, when n bytes of the entry had been written;
\* with all of them it is in the log though nobody was told.
KillInAppend(d, n) ==
  /\ status = "open"
  /\ Len(file) < MaxEntries /\ kills < MaxKills /\ n <= SizeOf[d]
  /\ kills' = kills + 1
  /\ file' = Append(file, Written(NextIndex, d, n))
  /\ Down

\* CreateReplicatedLog; when the rebuild ends in an error there is no log.
Open ==
  /\ status = "down"
  /\ FALSE \in RebuildErrs(file)
  /\ status' = "open"
  /\ offset' = FileSize(file)
  /\ entries' = RebuiltEntries(file)
  /\ LET indexes == DOMAIN RebuiltEntries(file)
     IN  IF indexes = {}
         THEN firstIndex' = 0 /\ lastIndex' = 0
         ELSE /\ firstIndex' = file[1].index
              /\ lastIndex' \in indexes /\ \A i \in indexes : i <= lastIndex'
  /\ UNCHANGED <<file, acked, kills, shorts>>

\* Log.Close; the file stays open until the process ends.
Close ==
  /\ status = "open"
  /\ status' = "closed"
  /\ UNCHANGED <<file, offset, entries, firstIndex, lastIndex, acked, kills, shorts>>

\* What Log.Read answers for an index; of a closed log nothing is read.
ReadResult(i) ==
  IF status = "open" /\ i \in DOMAIN entries THEN ReadAt(file, entries[i]) ELSE NoEntry

Next ==
  \/ \E d \in Data : AppendEntry(d)
  \/ \E d \in Data, n \in CutPoints : ShortWrite(d, n)
  \/ Kill
  \/ \E d \in Data, n \in CutPoints : KillInAppend(d, n)
  \/ Open
  \/ Close

Spec == Init /\ [][Next]_vars

-----------------------------------------------------------------------------
(* Properties. *)

TypeOK ==
  /\ file \in Seq([index : Nat \ {0}, data : Data, size : Nat, kept : Nat])
  /\ offset \in Nat
  /\ DOMAIN entries \subseteq Nat \ {0}
  /\ firstIndex \in Nat /\ lastIndex \in Nat
  /\ status \in {"open", "closed", "down"}
  /\ DOMAIN acked \subseteq Nat \ {0}
  /\ kills \in 0..MaxKills /\ shorts \in 0..MaxShort

\* The index has no gaps: it holds every entry from firstIndex to lastIndex and
\* no other, and the first is entry 1 (log.go Append against RebuildIndex).
IndexesContiguous ==
  status # "down" =>
    /\ DOMAIN entries = IF lastIndex = 0 THEN {} ELSE firstIndex..lastIndex
    /\ firstIndex = IF lastIndex = 0 THEN 0 ELSE 1

\* Nothing has been written behind a torn write.
TornOnlyAtTail(f) == Whole(f) + 1 >= Len(f)

\* Every acknowledged entry before the first torn write is read, while the log is open,
\* under its own index and with the data it was appended with, whichever process wrote
\* it and whatever was written behind the torn write (RebuildIndex stops there, Append
\* goes on).  As long as nothing was, no acknowledged entry is behind it and the log
\* can be created again.
IntactLogKeepsAcked ==
  /\ TornOnlyAtTail(file) =>
       RebuildErrs(file) = {FALSE} /\ DOMAIN acked \subseteq 1..Whole(file)
  /\ status = "open" =>
       \A i \in DOMAIN acked \cap 1..Whole(file) : ReadResult(i) = Entry(i, acked[i])

\* entries "maps index -> where the log data is stored" (log.go:14): as long as the
\* writer's offset is the end of the file, every index of an open log leads to an
\* entry with that index, and to the data it was last acknowledged for, behind torn
\* writes too and whichever process indexed it.
AlignedLocationsHold ==
  status = "open" /\ offset = FileSize(file) =>
    \A i \in DOMAIN entries :
      /\ ReadResult(i).index = i
      /\ i \in DOMAIN acked => ReadResult(i) = Entry(i, acked[i])

\* What an open log has once answered for an index it answers until it is closed or
\* the process ends: a short write, after which the offset is behind the file and the
\* locations of new entries are wrong (writer.go Append), changes no earlier answer.
AnswersStay ==
  [][status = "open" /\ status' = "open" =>
       \A i \in DOMAIN entries :
         ReadResult(i) # NoEntry => ReadResult(i)' = ReadResult(i)]_vars

\* An index once acknowledged for some data is never given to other data while
\* torn writes are at the tail only.
AckedNeverReassigned ==
  [][TornOnlyAtTail(file) => \A i \in DOMAIN acked : acked'[i] = acked[i]]_vars
=============================================================================
