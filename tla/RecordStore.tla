---------------------------- MODULE RecordStore ----------------------------
(***************************************************************************)
(* The store down to the bytes of its files, in every combination of       *)
(* storage format (segments or one file), index format (values or          *)
(* positions) and sync policy, one client call at a time and without       *)
(* compaction: what the writers hand to their buffer and what reaches the  *)
(* file, failing writes, syncs and opens, kills, and starts that replay the*)
(* files under a configuration that may have changed.                      *)
(***************************************************************************)
EXTENDS Config, TextFormatter, FiniteSetsExt

CONSTANTS
  Environments,   \* the environments a process may be started in
  Puts,           \* the pairs of a key and a value that clients put
  Deletes,        \* the keys that clients delete
  CutPoints,      \* how many bytes a failing write may have written
  NotFound,       \* the answer for a key that is not in the store
  ReadError,      \* the answer when no record can be read
  MaxAppends,     \* bound: records in the files and the buffer
  MaxKills,       \* bound: ends of a process
  MaxFaults       \* bound: failing writes, syncs and opens

VARIABLES
  cfg,       \* the configuration of the process, Config's Load
  files,     \* id -> bytes; segments are numbered from 1, the one file is 0
  writer,    \* id, offset, buf (bufio.Writer), err (its error), closed
  index,     \* key -> value and location
  status,    \* "stopped", "running", "closed" (by Close), "failed" (no start)
  log,       \* history: the records taken by the writer, with the answers
  damaged,   \* history: a start found a file that it could not read in full
  kills,     \* bound
  faults     \* bound

vars == <<cfg, files, writer, index, status, log, damaged, kills, faults>>

PutRecord(version, k, v) == [version |-> version, op |-> "put", key |-> k, value |-> v]
DelRecord(version, k) == [version |-> version, op |-> "del", key |-> k, value |-> <<>>]

Versions == {Load(env).Version : env \in Environments}
ClientRecords ==
  {PutRecord(version, p[1], p[2]) : version \in Versions, p \in Puts}
    \cup {DelRecord(version, k) : version \in Versions, k \in Deletes}

\* Sizes are numbers; what clients send are strings, and their keys are not
\* empty, which the handlers and the encoder refuse; a version is no separator.
ASSUME SizeAssumption ==
  \A env \in Environments : Load(env).BufferSize \in Nat /\ Load(env).MaxRecordSize \in Nat
ASSUME CutAssumption == CutPoints \subseteq Nat
ASSUME ClientAssumption ==
  /\ \A p \in Puts : p[1] \in Seq(STRING) \ {<<>>} /\ p[2] \in Seq(STRING)
  /\ \A k \in Deletes : k \in Seq(STRING) \ {<<>>}
ASSUME VersionAssumption == \A version \in Versions : version \in STRING \ {Bar, NewLine}
\* An answer that there is no such key is no value.
ASSUME AnswerAssumption == \A p \in Puts : p[2] # NotFound

NoLocation == [id |-> 0, offset |-> 0, size |-> 0]
NoWriter == [id |-> 0, offset |-> 0, buf |-> <<>>, err |-> FALSE, closed |-> TRUE]
Emptied == [k \in {} |-> NoLocation]

Simple == cfg.StorageFormat = "simple"
Positions == cfg.IndexFormat = "position"
EveryWrite == cfg.SyncPolicy = "every-write"

Init ==
  /\ cfg = Load([name \in {} |-> name])
  /\ files = [i \in {} |-> <<>>]
  /\ writer = NoWriter
  /\ index = Emptied
  /\ status = "stopped"
  /\ log = <<>>
  /\ damaged = FALSE
  /\ kills = 0
  /\ faults = 0

-----------------------------------------------------------------------------
(* Writers.  An outcome is what a call leaves: the files, the writer, and  *)
(* whether it returned an error.                                           *)

Outcome(fs, w, ok) == [files |-> fs, writer |-> w, ok |-> ok]

\* The files with file i made to hold some bytes.
WithFile(fs, i, bytes) == [x \in DOMAIN fs \cup {i} |-> IF x = i THEN bytes ELSE fs[x]]

Extended(fs, i, bytes) == [fs EXCEPT ![i] = @ \o bytes]

\* A write that fails has written some of the bytes; the buffer's error stays.
CutShort(fs, w, bytes) ==
  {Outcome(Extended(fs, w.id, SubSeq(bytes, 1, n)), [w EXCEPT !.buf = <<>>, !.err = TRUE], FALSE) :
     n \in {m \in CutPoints : m < Len(bytes)}}

\* Writer.Flush and File.Sync, either of which may fail.
FlushOutcomes(fs, w) ==
  IF w.err
  THEN {Outcome(fs, w, FALSE)}
  ELSE {Outcome(Extended(fs, w.id, w.buf), [w EXCEPT !.buf = <<>>], ok) : ok \in BOOLEAN}
         \cup CutShort(fs, w, w.buf)

\* bufio.Writer.Write: how many of the bytes b \o e leave the buffer.
SpilledBytes(b, e) ==
  IF Len(b) + Len(e) <= cfg.BufferSize THEN 0
  ELSE IF b = <<>> \/ Len(b) + Len(e) - cfg.BufferSize > cfg.BufferSize
       THEN Len(b) + Len(e)
       ELSE cfg.BufferSize

WriteOutcomes(fs, w, e) ==
  LET all == w.buf \o e
      n == SpilledBytes(w.buf, e)
  IN  IF w.err
      THEN {Outcome(fs, w, FALSE)}
      ELSE {Outcome(Extended(fs, w.id, SubSeq(all, 1, n)),
                    [w EXCEPT !.buf = SubSeq(all, n + 1, Len(all)), !.offset = @ + Len(e)],
                    TRUE)}
             \cup CutShort(fs, w, SubSeq(all, 1, n))

\* Mutation of Opened: appending starts at offset zero.
OpenedAtStart(i, bytes) ==
  [id |-> i, offset |-> 0, buf |-> <<>>, err |-> FALSE, closed |-> FALSE]

\* A file opened for appending, at its size.
Opened(i, bytes) ==
  [id |-> i, offset |-> Len(bytes), buf |-> <<>>, err |-> FALSE, closed |-> FALSE]

NeedsRoll(w, e) ==
  ~Simple /\ w.offset > 0 /\ w.offset + Len(e) > cfg.MaxSegmentSize

\* roll: flush, close, and open the next segment.  If that fails, the writer
\* stays closed.
RollOutcomes(fs, w) ==
  UNION {IF ~o.ok
         THEN {o}
         ELSE {Outcome(o.files, [o.writer EXCEPT !.closed = TRUE], FALSE),
               Outcome(WithFile(o.files, w.id + 1, <<>>), Opened(w.id + 1, <<>>), TRUE)} :
           o \in FlushOutcomes(fs, w)}

\* What Append leaves: also whether the record is with the writer, and where.
Refused(o) ==
  [files |-> o.files, writer |-> o.writer, ok |-> FALSE, taken |-> FALSE, loc |-> NoLocation]
Taken(o, loc) ==
  [files |-> o.files, writer |-> o.writer, ok |-> o.ok, taken |-> TRUE, loc |-> loc]

\* Mutation of SyncOutcomes: the policies are swapped.
SyncOutcomesIfNever(fs, w) ==
  IF EveryWrite THEN {Outcome(fs, w, TRUE)} ELSE FlushOutcomes(fs, w)

\* What the policy asks for once the record is with the writer.
SyncOutcomes(fs, w) ==
  IF EveryWrite THEN FlushOutcomes(fs, w) ELSE {Outcome(fs, w, TRUE)}

\* The record goes to the end, and where that was is the answer.
RecordOutcomes(fs, w, e) ==
  UNION {IF p.ok
         THEN {Taken(q, [id |-> w.id, offset |-> w.offset, size |-> Len(e)]) :
                 q \in SyncOutcomes(p.files, p.writer)}
         ELSE {Refused(p)} : p \in WriteOutcomes(fs, w, e)}

\* Append: roll if the record does not fit, write, and flush and sync.
AppendOutcomes(fs, w, e) ==
  IF w.closed THEN {Refused(Outcome(fs, w, FALSE))}
  ELSE IF NeedsRoll(w, e)
  THEN UNION {IF o.ok THEN RecordOutcomes(o.files, o.writer, e) ELSE {Refused(o)} :
                o \in RollOutcomes(fs, w)}
  ELSE RecordOutcomes(fs, w, e)

\* An error that changes something is a fault of the environment.
IsFault(o) == ~o.ok /\ (o.files # files \/ o.writer # writer)

\* The status code the handlers of PUT and DELETE answer with.
Answer(op, ok) == IF op = "put" THEN IF ok THEN 201 ELSE 400 ELSE IF ok THEN 204 ELSE 500

\* The writer's part of a request, within the bounds.
Appending(r, o) ==
  /\ Len(log) < MaxAppends
  /\ IsFault(o) => faults < MaxFaults
  /\ files' = o.files
  /\ writer' = o.writer
  /\ log' = IF o.taken
            THEN Append(log, [rec |-> r, answer |-> Answer(r.op, o.ok),
                              synced |-> o.ok /\ EveryWrite, survived |-> FALSE])
            ELSE log
  /\ faults' = IF IsFault(o) THEN faults + 1 ELSE faults
  /\ UNCHANGED <<cfg, status, damaged, kills>>

-----------------------------------------------------------------------------
(* Reading. *)

\* The bytes in the file at a location, or an error if there are not enough,
\* or no record in them.  Close closes the one file, and leaves segments be.
ReadAtOffset(fs, loc) ==
  LET bytes == fs[loc.id]
      data == SubSeq(bytes, loc.offset + 1, loc.offset + loc.size)
  IN  IF \/ status = "closed" /\ Simple
         \/ loc.offset + loc.size > Len(bytes)
         \/ ~Decodes(data)
      THEN ReadError
      ELSE IF Decode(data).op = "del" THEN NotFound ELSE Decode(data).value

\* The answer Get gives, from some files and index, and from those of the store.
GetFrom(fs, entries, k) ==
  IF k \notin DOMAIN entries THEN NotFound
  ELSE IF Positions THEN ReadAtOffset(fs, entries[k].loc) ELSE entries[k].value

GetResult(k) == GetFrom(files, index, k)

\* Limits below the scanner's first buffer have no effect; MaxRecordSize stands
\* for the larger of the two.
Limit(c) == c.MaxRecordSize

\* Every line the readers take from the files, as file and end of line.
Lines(fs, limit) == UNION {{i} \X Delivered(fs[i], limit) : i \in DOMAIN fs}

Before(p, q) == p[1] < q[1] \/ (p[1] = q[1] /\ p[2] <= q[2])

LineRecord(fs, p) == Decode(LineAt(fs[p[1]], p[2]))

Scanned(fs, limit) == {[at |-> p, rec |-> LineRecord(fs, p)] : p \in Lines(fs, limit)}

\* The last line of each key, of those that put it.
Latest(scan) ==
  {x \in scan :
     x.rec.op = "put" /\ \A y \in scan : y.rec.key = x.rec.key => Before(y.at, x.at)}

\* Mutation of LineLocation: the offset advances without the newlines.
LineLocationDrifting(fs, p) ==
  LET first == LineStart(fs[p[1]], p[2])
  IN  [id |-> p[1],
       offset |-> first - 1 - Cardinality({j \in NewLines(fs[p[1]]) : j < first}),
       size |-> p[2] - first + 1]

\* Where the scan says a line is: the newline is counted, there or not.
LineLocation(fs, p) ==
  LET first == LineStart(fs[p[1]], p[2])
  IN  [id |-> p[1], offset |-> first - 1, size |-> p[2] - first + 1]

\* The index Populate builds; the value index has no locations.
Populate(c, fs) ==
  LET live == Latest(Scanned(fs, Limit(c)))
  IN  [k \in {x.rec.key : x \in live} |->
         LET x == CHOOSE y \in live : y.rec.key = k
         IN  [value |-> x.rec.value,
              loc |-> IF c.IndexFormat = "position" THEN LineLocation(fs, x.at) ELSE NoLocation]]

\* ReadAll and ScanAll fail on a line they cannot decode, and on one they cannot
\* hold; but for the one file's ScanAll, which takes that for the end.
PopulateErrs(c, fs) ==
  \E i \in DOMAIN fs :
    \/ DecodeErrs(fs[i], Limit(c))
    \/ ~(c.StorageFormat = "simple" /\ c.IndexFormat = "position")
         /\ ScanErrs(fs[i], Limit(c))

-----------------------------------------------------------------------------
(* Clients, through the HTTP handlers. *)

\* The entry Put makes: the value index has both, the position index no value.
EntryToPut(v, loc) == [value |-> IF Positions THEN <<>> ELSE v, loc |-> loc]

\* Mutation of IndexedAfter: the index is updated even if the append failed.
IndexedAfterAny(k, v, o) ==
  [x \in DOMAIN index \cup {k} |-> IF x = k THEN EntryToPut(v, o.loc) ELSE index[x]]

IndexedAfter(k, v, o) ==
  IF o.ok
  THEN [x \in DOMAIN index \cup {k} |-> IF x = k THEN EntryToPut(v, o.loc) ELSE index[x]]
  ELSE index

Put(k, v) ==
  /\ status = "running"
  /\ LET r == PutRecord(cfg.Version, k, v)
     IN  \E o \in AppendOutcomes(files, writer, Encode(r)) :
           /\ Appending(r, o)
           /\ index' = IndexedAfter(k, v, o)

\* A key that is not there is an error, and nothing is written.
Delete(k) ==
  /\ status = "running"
  /\ k \in DOMAIN index
  /\ LET r == DelRecord(cfg.Version, k)
     IN  \E o \in AppendOutcomes(files, writer, Encode(r)) :
           /\ Appending(r, o)
           /\ index' = IF o.ok THEN Restrict(index, DOMAIN index \ {k}) ELSE index

-----------------------------------------------------------------------------
(* The process. *)

\* Mutation of CloseOutcomes: the writer is closed first, and a closed writer
\* does not flush.
CloseOutcomesUnflushed(fs, w) == {Outcome(fs, [w EXCEPT !.closed = TRUE], TRUE)}

\* The writer's Close: flush and close, unless a failed roll has done so.
CloseOutcomes(fs, w) ==
  IF w.closed
  THEN {Outcome(fs, w, TRUE)}
  ELSE {[o EXCEPT !.writer.closed = TRUE] : o \in FlushOutcomes(fs, w)}

Close ==
  /\ status = "running"
  /\ \E o \in CloseOutcomes(files, writer) :
       /\ IsFault(o) => faults < MaxFaults
       /\ files' = o.files
       /\ writer' = o.writer
       /\ faults' = IF IsFault(o) THEN faults + 1 ELSE faults
  /\ status' = "closed"
  /\ UNCHANGED <<cfg, index, log, damaged, kills>>

\* The process ends: by a kill, or after Close.  What is in memory is gone.
Exit ==
  /\ status \in {"running", "closed"}
  /\ kills < MaxKills
  /\ status' = "stopped"
  /\ kills' = kills + 1
  /\ writer' = NoWriter
  /\ index' = Emptied
  /\ UNCHANGED <<cfg, files, log, damaged, faults>>

LastId(c, fs) ==
  IF c.StorageFormat = "simple" THEN 0
  ELSE IF DOMAIN fs = {} THEN 1
  ELSE Max(DOMAIN fs)

\* The one file is opened by its name, and data is a directory by then.
NameIsTaken(c) == c.StorageFormat = "simple" /\ c.FileName = DefaultDataDir

Whole(bytes) == bytes = <<>> \/ Last(bytes) = NewLine

Torn(fs) == \E i \in DOMAIN fs : ~Whole(fs[i])

\* Whole lines of the files that a start reads: so many records of the log.
WholeLines(c, fs) ==
  UNION {{i} \X (NewLines(fs[i]) \cap Delivered(fs[i], Limit(c))) : i \in DOMAIN fs}

Kept(c, fs) ==
  [j \in 1..Min({Len(log), Cardinality(WholeLines(c, fs))}) |->
     [log[j] EXCEPT !.survived = TRUE]]

\* NewFileStore: open the file to append to, replay all files.  The storage
\* format stays what it was; the rest of the environment may differ.
Start(env) ==
  /\ status \in {"stopped", "failed"}
  /\ LET c == Load(env)
         i == LastId(c, files)
         fs == IF i \in DOMAIN files THEN files ELSE WithFile(files, i, <<>>)
     IN  /\ DOMAIN files # {} => c.StorageFormat = cfg.StorageFormat
         /\ cfg' = c
         /\ IF NameIsTaken(c)
            THEN status' = "failed" /\ UNCHANGED <<files, writer, index, log, damaged>>
            ELSE /\ files' = fs
                 /\ IF PopulateErrs(c, fs)
                    THEN status' = "failed" /\ UNCHANGED <<writer, index, log, damaged>>
                    ELSE /\ status' = "running"
                         /\ writer' = Opened(i, fs[i])
                         /\ index' = Populate(c, fs)
                         /\ log' = Kept(c, fs)
                         /\ damaged' = (\/ damaged
                                        \/ Torn(fs)
                                        \/ \E x \in DOMAIN fs : ScanErrs(fs[x], Limit(c)))
  /\ UNCHANGED <<kills, faults>>

Next ==
  \/ \E p \in Puts : Put(p[1], p[2])
  \/ \E k \in Deletes : Delete(k)
  \/ Close
  \/ Exit
  \/ \E env \in Environments : Start(env)

Spec == Init /\ [][Next]_vars

-----------------------------------------------------------------------------
(* Properties. *)

Keys == {p[1] : p \in Puts} \cup Deletes

\* Keys and values that are read back as they were given (for the empty value see
\* Unaltered).
Plain(s) == \A i \in DOMAIN s : s[i] \notin Special
PlainKeys == {k \in Keys : Plain(k)}

LastOf(n, k, Test(_)) ==
  LET taken == {j \in 1..n : log[j].rec.key = k /\ Test(log[j])}
  IN  IF taken = {} \/ log[Max(taken)].rec.op = "del"
      THEN NotFound
      ELSE log[Max(taken)].rec.value

\* The last write of k that was acknowledged or has survived a start.
Acknowledged(k) ==
  LastOf(Len(log), k, LAMBDA entry : entry.survived \/ entry.answer \in {201, 204})

\* What the first n records of the log make of k.
Replayed(n, k) == LastOf(n, k, LAMBDA entry : TRUE)

\* A scan does not decode an empty value, a read at an offset does.
Unaltered(v) == v = NotFound \/ (v # <<>> /\ Plain(v))

Opening == {"running", "closed"}

\* The writer counts its offset by itself; it is the end of its file and buffer
\* after every write, roll, failed sync or open, and start, so that the next record's
\* location is where the record goes (segment-writer.go Append, simple-writer.go).
\* After a failed write it is not, and bufio takes no further one.
OffsetIsEnd ==
  status \in Opening /\ ~writer.err =>
    writer.offset = Len(files[writer.id]) + Len(writer.buf)

\* A running store answers a plain key with its last acknowledged write, or, by
\* position and without a sync per write, with an error while the record is
\* still in the buffer; never with another value, and under every-write never with
\* an error (filestore.go Get and Put over both indexes and both readers, after any
\* starts under any configuration).  That error is the code's departure from
\* .env.example:58, which names for 'never' a loss on a crash only.
ReadsAcknowledged ==
  status = "running" /\ ~damaged =>
    \A k \in PlainKeys :
      LET v == Acknowledged(k)
          loc == index[k].loc
      IN  v = NotFound \/ Plain(v) =>
            \/ GetResult(k) = v
            \/ /\ Positions /\ ~EveryWrite /\ GetResult(k) = ReadError
               /\ k \in DOMAIN index
               /\ loc.offset + loc.size > Len(files[loc.id])

\* Keys of lines that were cut short, as a start reads them.
TornKeys ==
  {LineRecord(files, p).key :
     p \in {q \in Lines(files, Limit(cfg)) : q[2] = Len(files[q[1]]) + 1}}

Fits(r) == Len(Encode(r)) <= Limit(cfg)

\* A start after a kill at this instant, if it succeeds, reads the first so many
\* records of the log: every record acknowledged after a sync, unless a record
\* before it exceeds what the scanner holds, and nothing out of order.  Only the
\* key of a line that was cut short may have another value
\* (segment-reader.go scanFile, simple-reader.go ScanAll, .env.example on syncs).
KillKeepsPrefix ==
  ~damaged /\ ~PopulateErrs(cfg, files) =>
    LET n == Len(Kept(cfg, files))
        next == Populate(cfg, files)
    IN  /\ \A j \in DOMAIN log :
             (log[j].survived \/ log[j].synced) /\ (\A i \in 1..j : Fits(log[i].rec)) => j <= n
        /\ \A k \in PlainKeys \ TornKeys :
             Unaltered(Replayed(n, k)) =>
               Replayed(n, k) = IF k \in DOMAIN next THEN next[k].value ELSE NotFound

\* A start fails for these reasons only: the file's name is that of the data
\* directory, which it is when it is not set; a line was cut short; a value is
\* empty; a record exceeds what the scanner holds (NewFileStore, Populate).
StartFailsForCause ==
  status = "failed" /\ ~damaged =>
    \/ NameIsTaken(cfg)
    \/ Torn(files)
    \/ \E j \in DOMAIN log :
         \/ log[j].rec.op = "put" /\ log[j].rec.value = <<>>
         \/ ~Fits(log[j].rec)

\* After Close every record the writer has taken is in the files, whatever the
\* sync policy, unless a write has failed (segment-writer.go and simple-writer.go
\* Close).
CloseKeepsAll ==
  status = "closed" /\ ~writer.err /\ ~damaged =>
    Len(log) = Cardinality(UNION {{i} \X NewLines(files[i]) : i \in DOMAIN files})

\* A step of a running store that answers with an error.
Refusing ==
  /\ status = "running" /\ status' = "running"
  /\ Len(log') = Len(log) \/ log'[Len(log')].answer \in {400, 500}

\* A write that is refused changes no answer, though it may leave its record in
\* the file; what could not be read before may be readable after (filestore.go Put
\* and Delete after a failed Append).
RefusedWritesUnseen ==
  [][Refusing =>
       \A k \in Keys :
         GetFrom(files', index', k) = GetResult(k) \/ GetResult(k) = ReadError]_vars
=============================================================================
