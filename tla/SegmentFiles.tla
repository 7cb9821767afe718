---------------------------- MODULE SegmentFiles ----------------------------
(***************************************************************************)
(* The segment files of the kv-store and what the code reads out of them:  *)
(* records laid out one after the other, the scan that finds each record's *)
(* location, the read of one record at a location, the replay that rebuilds*)
(* the index, the choice of stale segments, and the layout the compactor   *)
(* gives the surviving records.  A collection of files is a function from  *)
(* segment ids to sequences of records; bytes are counted, not spelled.    *)
(***************************************************************************)
EXTENDS Naturals, Sequences, FiniteSets, FiniteSetsExt, SequencesExt

CONSTANTS
  Key,          \* the non-empty keys clients use
  Value,        \* the values clients store
  Tombstone,    \* the value field of a delete record ("-1")
  Garbled,      \* the value field of a record cut short in the file
  NotFound,     \* the answer for a key that is not in the store
  ReadError,    \* the answer when no record can be read at the location
  SizeOf,       \* encoded size in bytes of a record with this value field
  HeaderSize    \* size of "version|operation|key|" in an encoded record

ASSUME SentinelAssumption ==
  /\ {Tombstone, Garbled, NotFound, ReadError} \cap Value = {}
  /\ Cardinality({Tombstone, Garbled, NotFound, ReadError}) = 4

ASSUME SizeAssumption ==
  /\ HeaderSize \in Nat
  /\ \A v \in Value \cup {Tombstone} : SizeOf[v] \in Nat /\ SizeOf[v] > HeaderSize

PutRecord(k, v) == [op |-> "put", key |-> k, val |-> v, size |-> SizeOf[v]]
DelRecord(k) == [op |-> "del", key |-> k, val |-> Tombstone, size |-> SizeOf[Tombstone]]

\* The first n bytes of an encoded put, at the end of a file: it decodes once
\* part of the fourth field is there, to the whole value only if nothing but
\* the newline is missing.
CutRecord(r, n) ==
  [r EXCEPT !.op = IF n > HeaderSize THEN "cut" ELSE "bad",
            !.val = IF n = r.size - 1 THEN @ ELSE Garbled,
            !.size = n]

\* The record a compaction writes for one it has scanned: whole again.
Rewritten(r) == IF r.op = "cut" THEN [r EXCEPT !.op = "put", !.size = @ + 1] ELSE r

\* Where the j-th record of a file begins.
Offset(file, j) ==
  LET end[i \in 0..Len(file)] == IF i = 0 THEN 0 ELSE end[i - 1] + file[i].size
  IN  end[j - 1]

FileSize(file) == Offset(file, Len(file) + 1)

-----------------------------------------------------------------------------
(* Scanning and reading. *)

\* A location as the scan computes it: the line's length plus one for the
\* newline, which a record cut short at the end of the file does not have.
Location(files, i, j) ==
  LET r == files[i][j]
  IN  [segment |-> i, offset |-> Offset(files[i], j),
       size |-> IF r.op = "cut" THEN r.size + 1 ELSE r.size]

\* The files from which every record decodes.
Decodable(files) ==
  \A i \in DOMAIN files : \A j \in 1..Len(files[i]) : files[i][j].op # "bad"

Positions(files, k) ==
  {p \in UNION {{i} \X (1..Len(files[i])) : i \in DOMAIN files} : files[p[1]][p[2]].key = k}

\* The record of k that a scan in ascending id order meets last.
LastPosition(files, k) ==
  CHOOSE p \in Positions(files, k) :
    \A q \in Positions(files, k) : q[1] < p[1] \/ (q[1] = p[1] /\ q[2] <= p[2])

LastRecord(files, k) == LET p == LastPosition(files, k) IN files[p[1]][p[2]]

LiveKeys(files) ==
  {k \in Key : Positions(files, k) # {} /\ LastRecord(files, k).op # "del"}

\* One pass over all records, each put overwriting and each delete dropping
\* the key's entry.
Populate(files) ==
  [k \in LiveKeys(files) |->
     LET p == LastPosition(files, k) IN Location(files, p[1], p[2])]

\* What a store that starts on these files answers for each key.
Recovered(files) ==
  [k \in Key |-> IF k \in LiveKeys(files) THEN LastRecord(files, k).val ELSE NotFound]

\* The read of one record.  The key stored there is not compared with the key
\* asked for, and bytes that are not exactly one record decode to something
\* else than the value that was stored, if they decode at all.
ReadAtOffset(files, loc) ==
  LET found == loc.segment \in DOMAIN files
      file  == files[loc.segment]
      exact == {j \in 1..Len(file) : Location(files, loc.segment, j) = loc}
  IN  CASE ~found -> ReadError
        [] found /\ loc.offset + loc.size > FileSize(file) -> ReadError
        [] OTHER -> IF exact = {} THEN Garbled
                    ELSE LET r == file[CHOOSE j \in exact : TRUE]
                         IN  IF r.op = "del" THEN NotFound ELSE r.val

\* Mutation of StaleSegments: keeps the active segment only.
StaleButActive(files, threshold) ==
  LET older == {i \in DOMAIN files : \E x \in DOMAIN files : i < x}
  IN  IF Cardinality(older) < threshold THEN {} ELSE older

\* The segments older than the newest two, if they are enough to bother.
StaleSegments(files, threshold) ==
  LET older == {i \in DOMAIN files : \E x, y \in DOMAIN files : i < x /\ x < y}
  IN  IF Cardinality(older) < threshold THEN {} ELSE older

-----------------------------------------------------------------------------
(* What the compactor writes. *)

\* Mutation of Pack: rolls before a record that does not fit, the empty first
\* file included.
PackRollingFirst(records, max) ==
  LET packed[n \in 0..Len(records)] ==
        IF n = 0 THEN << <<>> >>
        ELSE LET files == packed[n - 1]
             IN  IF FileSize(Last(files)) + records[n].size > max
                 THEN Append(files, <<records[n]>>)
                 ELSE [files EXCEPT ![Len(files)] = Append(@, records[n])]
  IN  packed[Len(records)]

\* The records in the order given, a new file begun once the current one has
\* grown past max.
Pack(records, max) ==
  LET packed[n \in 0..Len(records)] ==
        IF n = 0 THEN << <<>> >>
        ELSE LET files == packed[n - 1]
             IN  IF FileSize(Last(files)) > max
                 THEN Append(files, <<records[n]>>)
                 ELSE [files EXCEPT ![Len(files)] = Append(@, records[n])]
  IN  packed[Len(records)]

\* Bytes a bufio.Writer of this size still holds after the file's records
\* were written to it one by one.
Buffered(file, bufsize) ==
  LET held[n \in 0..Len(file)] ==
        IF n = 0 THEN 0
        ELSE LET free == bufsize - held[n - 1]
                 size == file[n].size
             IN  CASE size <= free -> bufsize - free + size
                   [] size > free /\ free < bufsize /\ size - free <= bufsize -> size - free
                   [] OTHER -> 0
  IN  held[Len(file)]

\* What has reached the file itself when the writer is dropped unflushed.
Unflushed(file, bufsize) ==
  LET bytes == FileSize(file) - Buffered(file, bufsize)
      whole == Cardinality({j \in 1..Len(file) : Offset(file, j + 1) <= bytes})
      cut   == bytes - Offset(file, whole + 1)
  IN  SubSeq(file, 1, whole)
        \o IF cut > 0 THEN <<CutRecord(file[whole + 1], cut)>> ELSE <<>>
=============================================================================
