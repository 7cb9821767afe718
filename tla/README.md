# first-principles: TLA+ models, checks and proofs

The repository holds two Go programs: `kv-store`, an HTTP key-value store over
an append-only, segmented log with background compaction, and `state-machine`,
the beginnings of a replicated state machine with an append-only log of its own.
This directory keeps TLA+ models of them, the TLC configurations that check the
models on small instances, and TLAPS proofs for every instance. `PROJECT.json`
maps every definition to the lines it models and lists hazards and findings.

Paths below are relative to the repository (`kv-store/...`, `state-machine/...`).

## The system

| component | state | operations | interacts with |
|---|---|---|---|
| FileStore (`kv-store/storage/filestore.go`) | `f.mu` (RW lock), `closed`, index, writer, reader, compactor | `NewFileStore`, `Put`, `Get`, `Delete`, `CompactSegments`, `Close`, ticker loop | owns everything below; called concurrently by HTTP handlers and by its ticker |
| Segment writer (`file-writer/segment`) | active segment: id, offset, bufio buffer, `Closed` | `Append` (roll, write, flush and sync), `Flush`, `Close` | called under `f.mu` |
| Segment reader (`file-reader/segment`) | none | `ReadAtOffset`, `ScanAll`, `ScanStaleSegments`, `ReadAll` | called under `f.mu`, except the scan of a compaction |
| Segment files (`file-util`) | the data directory | list, choose stale, open, rename outputs, remove | shared by writer, reader, compactor and commit |
| Compactor (`compaction`) | `rwLock`; the result of one scan | `CompactStaleSegments` | under its own lock only, concurrently with clients and with other commits |
| Position index (`indexing/formats/position.go`) | key -> (segment, offset, size) | `Populate`, `Get`, `Update`, `Delete` | under `f.mu` |
| Text formatter (`formatter/text`) | none | `Encode`, `Decode` | writer, reader, compactor |
| Simple format and value index | one file; key -> value | `Append`, `ReadAll`, `ScanAll`, `Populate` | the alternative storage and index formats |
| Configuration (`config`) | none | `Load`, `Validate` | fixes sizes, thresholds, policies at start |
| HTTP API (`api`) | none | GET/PUT/DELETE `/kv/`, POST `/compaction` | runs store calls concurrently |
| Start and shutdown (`main.go`) | server, signal channel | start, signal, `Shutdown` with a timeout, `Close` | HTTP server and store |
| Replicated log (`state-machine/replication`, `file/simple`, `encoding`) | file, writer offset, index -> location, first and last index, `closed` | `CreateReplicatedLog`, `Append`, `Read`, `Close`, `RebuildIndex` | nothing calls it yet |
| State machine (`state-machine/state`) | a mutex, a store | `Apply`, `Get`, `Close` | forwards to FileStore |

### What is hard

* A compaction lists, scans and rewrites sealed segments while clients write and
  roll, and takes `f.mu` only to commit. What it read may be superseded, and
  the list it holds may be out of date, when it commits.
* `CompactSegments` may run twice at once: from the ticker and from every
  POST `/compaction`. The compactor's lock covers the scan, not the commit.
* A commit is a series of renames and removals. The process may be killed, or a
  call may fail, between any two; the error returns leave files replaced and
  the index as it was.
* Nothing but the log survives a restart. What the index has accumulated through
  writes, deletes and compactions must be what a replay would give.
* Offsets are computed three times (by the writer, by the scan, by the
  compactor) and must agree; so must segment ids and recency, since
  the replay takes a higher id for a newer record.
* Writes can be cut short: by a buffer that is dropped unflushed, by a kill, by
  a full disk. What a start makes of the bytes that are left depends on where the
  cut is, on the record's size, on its escapes, and on which reader and index the
  new configuration asks for.
* A request, the ticker loop and `Close` meet in three locks, two channels and a
  wait group; a manual compaction is in none of the latter.

### What makes each component correct

* FileStore and compactor: a read answers with the last acknowledged write; a
  restart recovers the same map; a commit never touches the two newest
  segments and never undoes a newer write; a compacted prefix says the same as
  the files it replaces; outputs fit into the ids they reuse.
* Segment writer: appends go to the existing segment with the highest id; sealed
  segments never change except by a commit.
* Replicated log: indexes have no gaps, an acknowledged entry stays readable,
  its index is never given to other data, and every indexed location holds an
  entry.
* Writers, readers, formatter and both indexes: a location is where the record is;
  a start reads a prefix of the log with everything synced, or fails for a cause
  one can name; a refused write changes no answer; `Close` leaves nothing behind.
* Start and shutdown: the loop runs when the configuration says so; every request
  and the shutdown come to an end; nothing runs on after a drained shutdown.

## Modules

* `SegmentFiles` - the data: a collection of segment files is a function from
  ids to sequences of records, and bytes are counted, not spelled. It defines
  the record sizes, `Offset`, the scan's `Location`, `ReadAtOffset`, the replay
  `Populate`, the choice of `StaleSegments`, the compactor's `Pack`, and what of
  a file is left when its `bufio.Writer` is dropped (`Buffered`, `Unflushed`,
  `CutRecord`). A record cut short decodes to another value, or not at all; a
  read at a location that is not exactly one record never yields the stored value.
* `KVStore` - the abstract specification: a map with atomic `Put` and `Delete`, which
  may keep its clients waiting (`Suspend`, `Resume`) but is the same afterwards.
  `FileStore` implements it with what `Get` answers as the map while `f.mu` is free
  (`ImplementsKVStore`).
* `FileStore` - EXTENDS `SegmentFiles`. One step for `Put`, `Delete` and
  `Restart` (`NewFileStore`); `Get` is the operator `GetResult`. A compaction `c` is
  the program counter `pc[c]` and the local variables `stale`, `todo`, `scanned`,
  `outs`, `renamed`, and one step per system call that matters: `StartCompaction`
  (list), `ScanFile` (one file), `WriteSurvivors` (outputs under random names,
  not visible to any scan, hence one step), `BeginCommit` (takes `f.mu`),
  `Rename` (one output), `BeginRemove`, `PanicOnSlice`, `RemoveStale` (one file),
  `Reindex` (releases `f.mu`). `Committing` stands for `f.mu` held by a commit,
  `Scanning` for `Compactor.rwLock`. Early returns and error returns are
  branches of the action they belong to; each ends in `Forget`. `Crash` is a
  kill between any two of these steps, `CrashInRoll` one between the creation of
  the next segment and its first record. A kill inside `Append` after
  the record is written is a `Put` followed by `Crash`: the write was not
  acknowledged but took effect. `Fail` is the error return of any call of a
  compaction: a scan has changed nothing by then, a commit keeps what it has renamed
  and removed, leaves the index as it was, and the store goes on serving.
* `MCFileStore` - sizes, crash phases and symmetry for TLC.
* `Recursion` - induction over sets of naturals and the existence of recursive
  functions, for the lemmas about `Offset`, `Pack`, `Buffered` and `Escape`.
* `SegmentFilesProofs` - EXTENDS `SegmentFiles` and `Recursion`: lemmas about offsets and
  locations, the last record of a key and the replay, packing, buffering and cutting.
* `FileStoreProofs` - EXTENDS `FileStore` and `SegmentFilesProofs`: types, what a commit
  never touches, recent writes; what a compaction writes, and how many files.
* `CompactionProofs` - EXTENDS `FileStoreProofs`: what compactions do to reads, to the
  index and to a restart, and the refinement of `KVStore`.
* `ReplicatedLog` - the log of `state-machine`: the file is a sequence of writes
  of which some bytes were kept; `offset` and `entries` are the writer's and the
  log's. `AppendEntry`, `ShortWrite` (an error return with bytes written), `Kill`,
  `KillInAppend`, `Open` (`CreateReplicatedLog` with `RebuildIndex`), `Close`.
  What the rebuild does behind a torn write depends on bytes the model does not
  have: `RebuildErrs` is then a set of possible outcomes. The checksum is exact.
  `Read` is the operator `ReadResult`: the entry, index and data, that lies at the
  indexed location, or `NoEntry` with an error, as always after `Close`.
* `MCReplicatedLog` - its instance.
* `Config` - `config.Load` with each getter: an environment is a function from the
  variables that are set to what parsing their text gives. The file name and the
  version fall back to the data directory's name, as in the code.
* `TextFormatter` - `Encode` with its escapes and `Decode` with its two trims and its
  split, on sequences of characters; `bufio.Scanner` as the lines it delivers from
  the bytes of a file, and whether it gives up on one that is too long.
* `RecordStore` - EXTENDS `Config` and `TextFormatter`. The store byte by byte, one
  client call at a time and without compaction, in every combination of storage
  format, index format and sync policy: one state machine for `segment-writer`,
  `simple-writer`, both readers and both indexes. `writer` is the segment or file
  writer with its `bufio.Writer`. A call's effects are sets of outcomes (files,
  writer, error or not), composed in the order of the code: `FlushOutcomes`,
  `WriteOutcomes`, `RollOutcomes`, `RecordOutcomes`, `AppendOutcomes`. `Put` and
  `Delete` take one outcome and update the index if there was no error; `Answer` is
  the status code of the HTTP handler. `Exit` is a kill at any instant, or the end
  after `Close`; `Start` is `NewFileStore` under any environment with the same
  storage format, and fails as `Populate` does.
* `StoreLifecycle` - EXTENDS `Config`. `main`, the requests and the ticker loop as
  program counters around `f.mu` (held across steps by commits only, hence
  `Committing`), `Compactor.rwLock` (`Scanning`), the state machine's mutex
  (`Applying`), the stop channel, the ticker's channel and the wait group
  (`LoopGone`). `program` tells the two users of the store apart: kv-store's `main`
  with its drain, and the state machine, which is closed under its callers' feet.
* `MCRecordStore`, `MCStoreLifecycle` - their instances.
* `RecordLines` - EXTENDS `RecordStore` and `Recursion`: lemmas about the bytes of its
  files, up to what it means that files hold a log line by line (`Laid`).
* `RecordStoreProofs` - EXTENDS `RecordLines`: all six properties of `RecordStore`.
* `StoreLifecycleProofs`, `ReplicatedLogProofs` - EXTEND the module of their name, and
  TLAPS or `Recursion`.

History variables: `acked` (the last acknowledged write of each key; the data
acknowledged for each index), `log` in `RecordStore` (the records the writer has
taken, with their answers), `damaged` (a start has met a line cut short, or one it
could not hold), and `kills`, `shorts` and `faults` as bounds.

## Runs

| run | shows |
|---|---|
| `one_compactor` | what clients see implements `KVStore`, and index, ids and compacted prefixes are right, when compactions do not overlap, each record fills a segment, and kills and failing calls fall outside commits |
| `shared_segments` | the same with two records to a file, where compaction moves records to new offsets |
| `crash_puts` | puts only, one output per compaction: a restart would recover every acknowledged write and nothing older at every instant, kills in commits included |
| `two_compactors` | overlapping compactions, kills and failing calls anywhere: exclusion, newest segment, sealed lists, and the safety of what is in the two newest segments |
| `repacking` | mixed record sizes, so that a compaction can need more outputs than it has files and end in an error or a panic: recent writes are still safe |
| `log_kills` | the replicated log through kills in and between writes, a short write and re-creations: what is read before a torn write whatever lies behind it, what is read behind it while the writer's offset is the end of the file, and that an answer stays |
| `record_store` | bytes, offsets, acknowledged reads, kills, refused writes, failing starts and `Close`, in six combinations of formats and policies and with the configuration changed between starts |
| `lifecycle` | requests, manual compactions, the loop and the shutdown of both programs: exclusion, who outlives whom, and liveness |
| `unflushed_output`, `kill_in_commit`, `overlapping_compactions`, `compactor_size` | the counterexamples under Findings |

The passing runs over `FileStore` exclude, by a named constant, exactly what a
violation run exhibits: `CompactorBufferSize = 1` lets every byte reach the outputs
(as with records of more than 256 bytes), `CompactorSegmentSize` is the writer's size
or large, `CrashPhases` is `NotCommitting`, `Compactors` has one element.
`two_compactors` allows overlap and kills anywhere, `repacking` kills anywhere and
outputs that outnumber the ids; both state what still holds then.

Bounds, and why they are enough:

* Two keys and at most two values: one key can be overwritten while the other
  is compacted, and a stale value differs from the current one.
* `MaxSegmentSize = 4`, header 1. `LargeRecords` (5, tombstone 2): every record
  rolls. `SmallRecords` (2): two records to a segment. `MixedRecords`: both. The
  code compares sizes only, with `>` against the threshold, so both outcomes
  of each comparison occur.
* `MaxSegments` 4 or 5, `StaleSegmentThreshold = 1`: up to three stale segments
  in one compaction, and compactions of the outputs of earlier ones. It bounds
  rolls only; restarts and compactions are not bounded.
* `CrashPhases` names the phases of a compaction a kill may fall in, `FaultPhases`
  those in which a call may fail: scans in the runs where reads must be right, since
  a commit that stops half way leaves an index that is not; any phase in
  `crash_puts`, `two_compactors` and `repacking`.
* `DeletableKeys` is empty in `crash_puts` only: with a delete, even the first
  rename of a commit makes a recovered store differ (see `kill_in_commit`).
* Symmetry: keys, and compactors in the two-compactor runs. Neither is ordered or
  chosen by the model except where every choice is a step; the properties are
  invariants and action properties, and treat all keys and compactors alike.
  `MixedRecords` distinguishes values, so values are not symmetric.
* Deadlock is checked for the store (a closed bound leaves restarts). It is not
  for the log, which stops when a rebuild fails or the bounds are used up.
* `ReplicatedLog`: entries of 3 and of 4 bytes with a header of 2, cut after 1 to 4: a
  write is torn in its header, right behind it, in its data, or whole, and bytes
  behind a torn write may or may not make up for it. Four writes and three kills
  allow a torn tail, a rebuild, writes behind it, and two more rebuilds.

* `RecordStore`: a record of two plain characters takes nine bytes. Segments of 19
  (two records), a buffer of 12 (a record and a half, so that a write spills in the
  middle of one), the scanner's limit 9 (an escaped key in a longer record exceeds
  it). Puts of a plain value, an empty one, an escaped one and one under an escaped
  key; a delete. A failing write leaves 7 or 8 bytes: half a value, or a line
  without its newline. `MaxAppends = 3` gives a roll and a record behind it,
  `MaxKills = 1` a second start, under any other configuration of the same storage
  format, `MaxFaults = 2` two failures. Six environments; one has the simple format
  without a file name, one a policy that does not parse. The properties speak of
  plain keys, and up to the first start that meets a damaged file (`damaged`): what
  is appended behind a torn line is glued to it, and the escapes are not undone.
* `StoreLifecycle`: two requests and the loop, so that a request, a manual compaction
  and the loop's can contend; intervals of 5 and 6 seconds, one that does not parse,
  compaction switched off, the value index, the simple format. Nothing is counted,
  so nothing else is bounded.
* Deadlock is not checked for `RecordStore` (the bounds are used up) and
  `StoreLifecycle` (the process ends).

Fairness is assumed by `StoreLifecycle.FairSpec` only; everything else is safety.
Weak fairness for what stays possible until it is done: the ticker ticks, a tick is
taken, `main` goes on, `Shutdown` returns by its timeout at the latest. Strong
fairness where something may be possible and impossible in turn: acquiring `f.mu`,
`rwLock` and `sm.mu` (Go's mutexes hand over to a goroutine that has waited for a
millisecond, and a waiting writer of an `RWMutex` holds off new readers), and the
stop branch of the loop's `select` (a ready case is chosen at random). Nothing is
fair about the arrival of requests or of the signal. `BacklogScanned` leaves out
intervals of five seconds and less: `NewFileStore` starts no loop for them, although
`test-auto-compaction.sh:3` suggests `5s` (in a variable that is not read either:
the name is `STORE_COMPACTION_INTERVAL`).

## Findings

Each of these has a run whose counterexample is the sequence of calls.

1. `unflushed_output`: `CompactStaleSegments` never flushes its last output. What
   fits in the 256-byte buffer is lost when that output replaces the stale files.
2. `kill_in_commit`: the outputs are renamed over the newest stale files before
   the older ones are removed. After a kill in between, records and deletes that
   had been shadowing older records are gone and a restart serves the older ones.
3. `overlapping_compactions`: a second compaction may scan and then commit over
   ids which a first one has reused in the meantime.
4. `compactor_size`: the compactor rolls at 2 KiB whatever the configured segment
   size, so outputs outnumber the ids; the commit stops in the middle.

Smaller things the models rest on and that have no run of their own:

* Even with equal sizes the map's order can pack the same records into more files
  than they came from (`OutputsReuseIds` excludes mixed sizes; in `repacking` it
  happens, and what still holds is checked).
* Under the policy `never` a record may be in the writer's buffer only. With the
  position index `Get` reads the file, which ends before: an acknowledged key is answered
  with 500 until later writes spill the buffer, in a process that nothing has gone wrong
  in. `.env.example:58` names only that the policy "loses recent writes on a crash".
  `ReadsAcknowledged` allows this error and no other: never under `every-write`, never
  when the location is in the file, and never another value.
* A write of the replicated log that returns short leaves its bytes in the file (opened
  with `O_APPEND`) and the writer's offset where it was. Every entry appended
  afterwards is acknowledged with a location that is too low, and `Read` fails on it,
  although `log.go:14` says that the index maps to where the data is stored.
  `AlignedLocationsHold` is about aligned offsets; for the others `AnswersStay` says
  that what was readable before stays so, and `IntactLogKeepsAcked` that the entries
  before the short write do in every later process.
* A manual compaction is not in `compactionWg`. If the drain times out, it may
  commit after `Close`, and the process may end in the middle of the commit; the
  divide `LEARNINGS.md` section 7 draws is kept for the loop only
  (`LoopEndsFirst`, `QuietAfterDrain`).
* An empty value, and a record above `STORE_MAX_RECORD_SIZE`, are accepted and make
  the next start fail; with the simple format and positions, the latter silently ends
  the replay instead (`StartFailsForCause`, `KillKeepsPrefix`).
* The simple format does not start without `STORE_FILENAME` (`NameIsTaken`).

## Proofs

The assumptions of every theorem are those its module states on the constants
(`SentinelAssumption`, `SizeAssumption`, `StoreAssumption`, `LogAssumption`, ...), which
TLC evaluates on every instance. Where a theorem needs more, its ASSUME says so, and a
run of the table above shows the case it leaves out.

### FileStore, whatever strikes

`FileStoreProofs` proves, for every set of keys, values and compactors, every
size, threshold and bound, with kills and failing calls anywhere:

* `TypeCorrect`: `Spec => []TypeOK`, including that commits exclude each other and
  scans exclude each other;
* `NewestActive`: `Spec => []NewestIsActive`;
* `SealedOnly`: `Spec => []SealedSegmentsOnly`;
* `SealedImmutable`: `Spec => SealedSegmentsImmutable`, an action property;
* `RecentSafe`: `Spec => []RecentWritesSafe`.

For the first four the inductive invariant is `IInv == TypeOK /\ NewestIsActive /\
SealedSegmentsOnly`; no conjunct is inductive alone. The argument: `StaleSegments`
lists ids that two other files are newer than, and by `NewestIsActive` no file is
newer than the active one, so a listed id is below `active - 1`. `active` never
decreases (a restart finds the same highest id because no commit removes or
overtakes it), so the list stays sealed however old it gets. A rename goes to the
highest listed id minus a count and a removal to a listed id (`todo \subseteq
stale` in `TypeOK`), so both stay below `active - 1`, which gives `NewestIsActive`
after every commit step and, with it, immutability of the two newest files. The
proof has one lemma per action and one step per conjunct the action can disturb;
`AppendRecordStep`, `RollStep`, `ForgetStep`, `StopStep` are shared.

`RecentSafe` rests on `RInv`, which adds the types of what files, scans and outputs hold
and splits the property into its two halves, what was acknowledged and what the
index says (`RecentAcked`, `RecentIndexed`). A commit may damage older files as it
likes: whether a key's last record lies in one of the two newest files, and where,
depends on those files alone (`OldFilesChange`), which a commit leaves as they are;
when it ends, `Reindex` gives the scan's location only to keys without a newer entry.
A roll makes the active file the second newest, and a restart's replay finds the
last record (`ReplayLast`).

### Compactions

The remaining properties of `FileStore` hold under conditions, and each has a
theorem whose hypotheses are the conditions of the run that checks it, for all
instances of them:

| theorem | property | hypotheses |
|---|---|---|
| `OutputsFitIds` | `OutputsReuseIds` | `Unbuffered`, `SameSizes` |
| `SerialIndex`, `SerialReads`, `SerialPrefix`, `SerialImplements` | `IndexIsReplay`, `ReadsLatest`, `CompactedPrefix`, `ImplementsKVStore` | `Serial`, `Unbuffered`, `[]OutputsReuseIds` |
| `OneSizeIndex`, `OneSizeReads`, `OneSizePrefix`, `OneSizeImplements` | the same | `Serial`, `Unbuffered`, `SameSizes` |
| `SingleOutputLosesNothing` | `CrashLosesNothing` | `Unbuffered`, `OneCompactor`, `OneOutput`, `DeletableKeys = {}` |

* `Unbuffered`: a put exceeds the compactor's buffer, so that bufio passes it on;
  otherwise the last output loses its tail (`unflushed_output`).
* `SameSizes`: puts have one size, and the writer's segments are no larger than the
  compactor's; otherwise outputs may outnumber the ids (`compactor_size`, `repacking`).
* `Serial`: one compaction at a time, and no kill or failing call inside a commit;
  otherwise `overlapping_compactions` and `kill_in_commit`.
* `OneOutput`: all keys but one together fit under the compactor's threshold, so that
  there is a single output. Kills and failing calls then may fall anywhere.

`one_compactor` and `shared_segments` satisfy `Serial`, `Unbuffered` and `SameSizes`;
`two_compactors` satisfies the last two, `crash_puts` the hypotheses of the last row.

`OutputsFitIds` is a counting argument. Puts have one size, so there is a number `q` of
them that first exceeds the compactor's threshold (`Fills`). No file has more than `q`
puts (`FewPuts`: one record fits into an empty segment, and what is within the writer's
segment size has fewer than `q`); the survivors are no more than the puts of the
scanned files (`SurvivorsCount`); and every output but the last holds exactly `q`
(`FilledBy`). The invariant `BInv` follows this through commits, since an output becomes
a stale file of the next compaction.

`SInv`, for the serial case, says in which stage the compaction is (`Stages`), that the
ids have no gaps outside a commit (`NoGaps`), and that the files replay to the index
and to the acknowledged writes (`Current`) or, in a commit, that the files as it found
them did (`Before`). The heart is `SerialPrefix`: when the outputs are in place, each
key's last record in the prefix is the survivor the scan had kept, or none when it
was a deletion, and newer files were only appended to; no record of the prefix is a
tombstone, since survivors are puts. `SerialImplements` takes
`acked` for the map of `KVStore`, equal to what `Get` answers by `ReadsLatest`; `Put` and
`Delete` are its operations, the beginning and the end of a commit (or of a process)
its waiting, and every other step a stutter.

`SingleOutputLosesNothing` needs another argument, because its commits are cut off:
its invariant `LInv` says of each stage that the one output holds every key's last
record of the scanned files (`LosslessStages`) and that the files answer as was
acknowledged at every instant. The rename puts the output where the newest scanned
file was, before anything is removed; without deletes, what the removed files held
is shadowed by it.

### RecordStore, byte by byte

`RecordStoreProofs` proves every property of `RecordStore`, for all sets of puts and
deletes, all environments (any sizes, either storage format, and either index and sync
policy, which may change from start to start), all places where a write may be cut short, and
all bounds:

| theorem | property |
|---|---|
| `OffsetsAreEnds` | `Spec => []OffsetIsEnd` |
| `CloseKeepsRecords` | `Spec => []CloseKeepsAll` |
| `RefusedWritesChangeNothing` | `Spec => RefusedWritesUnseen`, an action property |
| `StartsFailForCause` | `Spec => []StartFailsForCause` |
| `KillsKeepPrefix` | `Spec => []KillKeepsPrefix` |
| `ReadsAnswerAcknowledged` | `Spec => []ReadsAcknowledged` |

The argument has these layers.

* Bytes (`RecordLines`). A record is encoded to one line, which contains no other newline,
  because `Escape` writes a newline as two other characters (`EscapeFact`, `BodyFact`).
  Decoding the line at its offset, with the newline, gives back a plain key and a plain
  value (`OffsetDecode`); so does a scan, without the newline, and it fails exactly for
  an empty value (`ScanDecode`). For that `Split` is pinned down by the places of the first three separators (`SplitFact`).
* Files. `Laid(fs, entries, at)`: the whole lines of the files, in the order of files and
  of bytes, are `at`, and the j-th is the j-th entry's. Appending an encoded record
  adds one line (`LaidAppend`), bytes cut off at the end of the last file take lines off
  the end (`LaidShortened`), and opening a new file takes none (`LaidFile`).
* Writers. `Aligned` (offsets), `Tidy` (the writer is at the end of the highest file) and
  `Recorded`: files and buffer together are `Laid` with every entry of the log, or, after
  a failing write, the files with the first ones. The proof follows the composition of
  the outcomes: each of `FlushOutcomes`, `CutShort`, `WriteOutcomes`, `RollOutcomes`,
  `RecordOutcomes`, `AppendOutcomes` and `CloseOutcomes` has a lemma saying what it keeps
  (`Keeps`, `KeepsRecords`) or adds (`Takes`), composed by `EvolvesTwice` and `KeepsTwice`.
* States. `Base` holds in every state: types, `IInv`, what a running configuration is, where
  the writer is. `Core` holds until `damaged`: `Recorded` while a process has the files
  open and `Laid` otherwise, and `Durable`, no record that was synced or has survived a
  start is behind the whole lines. `CloseKeepsAll` counts the lines (`LaidCount`).
* Starts. A scan delivers the first whole lines of each file up to one that the scanner
  does not hold, and possibly a last one without its newline. If no line fails to decode,
  what is read is a prefix of the log (`ReadsFirst`), so that the entry indexed for a key
  is the last of that prefix which has it (`PopulateLast`), which gives `KillsKeepPrefix`.
  If one does, it is cut short, or the entry's value is empty (`StartsFailForCause`).
* Reads. `IndexRight` says of every plain key that the index holds its acknowledged value,
  or a location at which files and buffer together hold its record (`Held`), and the
  file alone when every write is synced (`Filed`). Appends keep it, since files and buffers
  only grow (`HeldEvolves`, `FiledEvolves`) and a synced append leaves no buffer behind
  (`Takes`, `UnbufferedFiled`); a start establishes it. An answer read at a location is
  the value, or an error when the location goes beyond the file (`ReadsHeld`). `RefusedWritesChangeNothing` needs no more than that located bytes
  stay where they are (`ReadStays`) and that a refused write leaves the index alone.

Assumptions: `SizeAssumption` and `CutAssumption` (sizes and places of cuts are naturals;
`getInt` falls back for anything that is not positive); `ClientAssumption` (keys and values
are strings of characters and keys are not empty, as `api.go` and `Encode` see to);
`VersionAssumption` (the version is one token that is neither separator nor newline:
`Encode` writes it without escapes, `getString` refuses only an empty one, and the
default is `data`; a version with a separator would move every field behind it);
`AnswerAssumption` (a value is not the answer that there is none). That properties end
at `damaged` is part of their statement: what is appended behind a line cut short is
glued to it, and the code has no repair for it.

### The other modules

`StoreLifecycleProofs` proves, for any set of requests and environments:
`TypeCorrect` (types and the exclusion of the three locks), `LoopEnds`
(`Spec => []LoopEndsFirst`) and `QuietShutdown` (`Spec => []QuietAfterDrain`). The
invariant is `TypeOK /\ LoopEndsFirst /\ DrainedStays`: `QuietAfterDrain` speaks of the
last phases only, and needs that no request is under way from the end of a drain
that was not cut off (`DrainedStays`), since none arrives after it; that the loop is
at rest then is `LoopEndsFirst`. Only `LoopAssumption` is used.

`ReplicatedLogProofs` proves, for all data, sizes, cuts and bounds, from
`LogAssumption`: `Contiguous` (`IndexesContiguous`), `NeverReassigned`
(`AckedNeverReassigned`), `TypeCorrect` (`TypeOK`), `KeepsAcked` (`IntactLogKeepsAcked`),
`LocationsHold` (`AlignedLocationsHold`) and `AnswersKept` (`AnswersStay`).
`IndexesContiguous` holds whatever was torn before, but it is not inductive: a rebuild
indexes what the file begins with. The invariant `IInv` adds that the file begins with
`n` whole entries numbered from one, that a process which has the log indexes at least
those, and that, as long as nothing lies behind a torn write, it indexes no more and no
index above `n` is acknowledged. That such an `n` exists is part of the invariant because
`Whole` chooses it (`WholeFact`); a write adds to it only when it is whole and nothing
is torn before it (`WholeWith`, `AppendNumbered`).

`EInv` adds what the index leads to. Before the first torn write, entry `i` is the `i`-th
write, holds the data acknowledged for it if any is, and is where the index says, whatever
lies behind (`EntriesKept`). Everywhere, an offset is at most the size of the file, and a
process whose offset is still equal to it has at each of its locations all of the entry
with that index, with the data acknowledged for it (`LocationsKept`, `Located`): a short
write leaves the offset behind for good. Every write keeps at least a byte, so that
locations differ (`OffsetIncreases`) and `Read` finds the one write that lies at a location
(`ReadAtLocation`); a write behind it moves nothing (`ReadAtAppend`), which with the index
that an open log never takes an entry out of gives `AnswersStay`.

### What the provers cannot do

The library's induction theorems take an operator as a parameter, which none of the
provers can instantiate. Induction over numbers is therefore stated for sets
(`SetInduction`, from `WFMin` and `NatLessThanWellFounded`), and a recursive function,
which TLA+ defines by a CHOOSE, is shown to exist (`RecursionExists`) before its
equations are used. That is how `Offset`, `Pack`, `PackRollingFirst` and `Buffered` are
reasoned about, and the fold in the library's `FlattenSeq` that `Escape` uses, whose local
function is shown to be the one that satisfies its equations (`FlattenFact`).

Only model-checked: the liveness properties of `StoreLifecycle` (`RequestsAnswered`,
`ShutdownEnds`, `BacklogScanned`), which need fairness and ENABLED. Every invariant
and action property that a passing run checks is stated by a theorem, some under the
hypotheses of the table above.

## Not modelled, and why

* A data directory other than `data`: the compactor always writes to `data`
  (`file-util.go:36-45`), so a compaction elsewhere installs nothing; listed as a
  hazard. The order of directory entries is taken to be id order (the padded names
  have it up to the padding's width).
* Removal of the outputs' random names, which nothing does.
* Loss of data that was written and not synced, by a power failure: a kill of
  the process keeps what was written. The compactor does not sync its last output.
* `Get` is not an action: it changes nothing and holds the read lock, so its
  result is a function of the state (`GetResult`) whenever no commit is under way.
* HTTP parsing, `/health`, logging, formatting of answers: stateless.
* In `RecordStore`: keys and values that are not UTF-8 (the escaping writes U+FFFD for
  them), errors of `File.Close` and `Stat`, a data directory that cannot be listed. A
  failing flush is followed by no further write of the same process (bufio keeps the
  error); compaction is `FileStore`'s.
* In `StoreLifecycle`: `Get` (a read lock that is given back at once), panics, a second
  `Close`, the HTTP server's read and write timeouts (a handler runs on behind them).
* `src/kv-store/testing`: shell scripts that drive a running server.

## Plan

Done: `SegmentFiles`, `KVStore`, `FileStore`, `ReplicatedLog`, `Config`, `TextFormatter`,
`RecordStore`, `StoreLifecycle`, and the proofs above. `SegmentWriter` and `SimpleStore`
of the first plan are one module, `RecordStore`, because they share every property;
`StateMachine` is the second program of `StoreLifecycle`.

Left:

1. A data directory other than `data` in `FileStore`'s commits.
2. The replicated log feeding `StateMachine.Apply`, once the repository connects them.
