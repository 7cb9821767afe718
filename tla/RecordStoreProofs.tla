------------------------- MODULE RecordStoreProofs -------------------------
(***************************************************************************)
(* Proofs about RecordStore, for all records, sizes, configurations and    *)
(* bounds, with kills, failing writes, syncs and opens anywhere: the       *)
(* offset a writer counts is the end of its file and buffer, the files are *)
(* the log line by line as far as they go, and what follows from that for  *)
(* Close, for refused writes, for starts, for kills and for reads.         *)
(***************************************************************************)
EXTENDS RecordLines

\* A writer over its files; after a failing write its offset may be anything.
Aligned(fs, w) ==
  /\ Typed(fs)
  /\ w \in [id : {w.id}, offset : Nat, buf : Bytes, err : BOOLEAN, closed : BOOLEAN]
  /\ w.id \in DOMAIN fs
  /\ ~w.err => w.offset = Len(fs[w.id]) + Len(w.buf)

\* The inductive invariant.
IInv ==
  /\ Typed(files)
  /\ status \in {"stopped", "running", "closed", "failed"}
  /\ status \in Opening => Aligned(files, writer)
  /\ status = "running" => \E env \in Environments : cfg = Load(env)

-----------------------------------------------------------------------------
(* Files and sequences. *)

\* Two sequences end to end.
LEMMA Concatenation ==
  ASSUME NEW s \in Bytes, NEW t \in Bytes
  PROVE  s \o t \in Bytes /\ Len(s \o t) = Len(s) + Len(t)
BY DEF Bytes

\* A piece of a sequence is one, with the length its ends say.
LEMMA Piece ==
  ASSUME NEW s \in Bytes, NEW m \in 1..Len(s) + 1, NEW n \in 0..Len(s), m <= n + 1
  PROVE  SubSeq(s, m, n) \in Bytes /\ Len(SubSeq(s, m, n)) = n - m + 1
BY DEF Bytes

\* Appending bytes to one file leaves files, longer by as much.
LEMMA ExtendedFact ==
  ASSUME NEW fs, Typed(fs), NEW i \in DOMAIN fs, NEW bytes \in Bytes
  PROVE  /\ Typed(Extended(fs, i, bytes))
         /\ DOMAIN Extended(fs, i, bytes) = DOMAIN fs
         /\ Len(Extended(fs, i, bytes)[i]) = Len(fs[i]) + Len(bytes)
<1>1. /\ DOMAIN Extended(fs, i, bytes) = DOMAIN fs
      /\ Extended(fs, i, bytes)[i] = fs[i] \o bytes
      /\ \A x \in DOMAIN fs : x # i => Extended(fs, i, bytes)[x] = fs[x]
  BY DEF Extended
<1>2. fs[i] \in Bytes BY DEF Typed
<1> QED BY <1>1, <1>2, Concatenation DEF Typed

\* A new or emptied file leaves files.
LEMMA WithFileFact ==
  ASSUME NEW fs, Typed(fs), NEW i, NEW bytes \in Bytes
  PROVE  /\ Typed(WithFile(fs, i, bytes))
         /\ i \in DOMAIN WithFile(fs, i, bytes)
         /\ WithFile(fs, i, bytes)[i] = bytes
BY DEF Typed, WithFile

-----------------------------------------------------------------------------
(* Writers. *)

\* A newly opened file is appended to at its end.
LEMMA OpenedAligned ==
  ASSUME NEW fs, Typed(fs), NEW i \in DOMAIN fs
  PROVE  Aligned(fs, Opened(i, fs[i])) /\ ~Opened(i, fs[i]).err
<1>1. fs[i] \in Bytes BY DEF Typed
<1>2. <<>> \in Bytes /\ Len(<<>>) = 0 BY DEF Bytes
<1>3. Len(fs[i]) \in Nat BY <1>1 DEF Bytes
<1> QED BY <1>2, <1>3 DEF Aligned, Opened

\* What is left of a write that fails; it promises nothing about the offset.
LEMMA CutShortAligned ==
  ASSUME NEW fs, NEW w, Aligned(fs, w),
         NEW bytes \in Bytes, NEW o \in CutShort(fs, w, bytes)
  PROVE  Aligned(o.files, o.writer) /\ ~o.ok
<1>1. PICK n \in CutPoints :
        /\ n < Len(bytes)
        /\ o = Outcome(Extended(fs, w.id, SubSeq(bytes, 1, n)),
                       [w EXCEPT !.buf = <<>>, !.err = TRUE], FALSE)
  BY DEF CutShort
<1>2. Len(bytes) \in Nat BY DEF Bytes
<1>3. SubSeq(bytes, 1, n) \in Bytes
  <2>1. n \in 0..Len(bytes) /\ 1 \in 1..Len(bytes) + 1 /\ 1 <= n + 1
    BY <1>1, <1>2, CutAssumption
  <2> QED BY <2>1, Piece
<1>4. /\ Typed(o.files) /\ DOMAIN o.files = DOMAIN fs
  BY <1>1, <1>3, ExtendedFact DEF Aligned, Outcome
<1>5. <<>> \in Bytes BY DEF Bytes
<1> QED BY <1>1, <1>4, <1>5 DEF Aligned, Outcome

\* Flushing moves the buffer to the end of the file.
LEMMA FlushAligned ==
  ASSUME NEW fs, NEW w, Aligned(fs, w),
         NEW o \in FlushOutcomes(fs, w)
  PROVE  Aligned(o.files, o.writer)
<1>0. w.buf \in Bytes /\ <<>> \in Bytes /\ Len(<<>>) = 0 BY DEF Aligned, Bytes
<1>1. CASE w.err
  BY <1>1 DEF FlushOutcomes, Outcome
<1>2. CASE ~w.err /\ o \in CutShort(fs, w, w.buf)
  BY <1>0, <1>2, CutShortAligned
<1>3. CASE ~w.err /\ o \notin CutShort(fs, w, w.buf)
  <2>1. /\ o.files = Extended(fs, w.id, w.buf)
        /\ o.writer = [w EXCEPT !.buf = <<>>]
    BY <1>3 DEF FlushOutcomes, Outcome
  <2>2. /\ Typed(o.files) /\ DOMAIN o.files = DOMAIN fs
        /\ Len(o.files[w.id]) = Len(fs[w.id]) + Len(w.buf)
    BY <1>0, <2>1, ExtendedFact DEF Aligned
  <2>3. Len(fs[w.id]) \in Nat /\ Len(w.buf) \in Nat BY <1>0 DEF Aligned, Typed, Bytes
  <2> QED BY <1>0, <2>1, <2>2, <2>3, <1>3 DEF Aligned
<1> QED BY <1>1, <1>2, <1>3

\* bufio lets between nothing and everything out.
LEMMA SpilledFact ==
  ASSUME cfg.BufferSize \in Nat, NEW b \in Bytes, NEW e \in Bytes
  PROVE  SpilledBytes(b, e) \in 0..Len(b \o e)
<1>1. Len(b) \in Nat /\ Len(e) \in Nat BY DEF Bytes
<1>2. Len(b \o e) = Len(b) + Len(e) BY Concatenation
<1> QED BY <1>1, <1>2 DEF SpilledBytes

\* A write puts the record behind what was there, in the file or the buffer.
LEMMA WriteAligned ==
  ASSUME cfg.BufferSize \in Nat,
         NEW fs, NEW w, Aligned(fs, w), NEW e \in Bytes,
         NEW o \in WriteOutcomes(fs, w, e)
  PROVE  Aligned(o.files, o.writer)
<1> DEFINE all == w.buf \o e
           n == SpilledBytes(w.buf, e)
<1>0. w.buf \in Bytes BY DEF Aligned
<1>1. /\ all \in Bytes /\ Len(all) = Len(w.buf) + Len(e)
      /\ n \in 0..Len(all)
  BY <1>0, Concatenation, SpilledFact
<1>2. Len(w.buf) \in Nat /\ Len(e) \in Nat /\ Len(fs[w.id]) \in Nat
  BY <1>0 DEF Aligned, Typed, Bytes
<1>3. /\ SubSeq(all, 1, n) \in Bytes /\ Len(SubSeq(all, 1, n)) = n
      /\ SubSeq(all, n + 1, Len(all)) \in Bytes
      /\ Len(SubSeq(all, n + 1, Len(all))) = Len(all) - n
  <2> HIDE DEF all, n
  <2>1. Len(all) \in Nat BY <1>1, <1>2
  <2>2. /\ 1 \in 1..Len(all) + 1 /\ 1 <= n + 1
        /\ n + 1 \in 1..Len(all) + 1 /\ Len(all) \in 0..Len(all) /\ n + 1 <= Len(all) + 1
    BY <1>1, <2>1
  <2>3. SubSeq(all, 1, n) \in Bytes /\ Len(SubSeq(all, 1, n)) = n - 1 + 1
    BY <1>1, <2>2, Piece
  <2>4. /\ SubSeq(all, n + 1, Len(all)) \in Bytes
        /\ Len(SubSeq(all, n + 1, Len(all))) = Len(all) - (n + 1) + 1
    BY <1>1, <2>2, Piece
  <2> QED BY <1>1, <2>1, <2>3, <2>4
<1>4. CASE w.err
  BY <1>4 DEF WriteOutcomes, Outcome
<1>5. CASE ~w.err /\ o \in CutShort(fs, w, SubSeq(all, 1, n))
  BY <1>3, <1>5, CutShortAligned
<1>6. CASE ~w.err /\ o \notin CutShort(fs, w, SubSeq(all, 1, n))
  <2> DEFINE out == SubSeq(all, 1, n)
             rest == SubSeq(all, n + 1, Len(all))
  <2>1. /\ o.files = Extended(fs, w.id, out)
        /\ o.writer = [w EXCEPT !.buf = rest, !.offset = @ + Len(e)]
    BY <1>6 DEF WriteOutcomes, Outcome
  <2>2. /\ out \in Bytes /\ Len(out) = n
        /\ rest \in Bytes /\ Len(rest) = Len(all) - n
    BY <1>3
  <2> HIDE DEF out, rest, all, n
  <2>3. /\ Typed(fs) /\ w.id \in DOMAIN fs
        /\ w \in [id : {w.id}, offset : Nat, buf : Bytes, err : BOOLEAN, closed : BOOLEAN]
        /\ w.offset = Len(fs[w.id]) + Len(w.buf)
    BY <1>6 DEF Aligned
  <2>4. /\ Typed(o.files) /\ DOMAIN o.files = DOMAIN fs
        /\ Len(o.files[w.id]) = Len(fs[w.id]) + n
    <3>1. /\ Typed(Extended(fs, w.id, out)) /\ DOMAIN Extended(fs, w.id, out) = DOMAIN fs
          /\ Len(Extended(fs, w.id, out)[w.id]) = Len(fs[w.id]) + Len(out)
      BY <2>2, <2>3, ExtendedFact
    <3> QED BY <2>1, <2>2, <3>1
  <2>5. /\ o.writer.id = w.id /\ o.writer.buf = rest
        /\ o.writer.offset = w.offset + Len(e)
        /\ o.writer \in [id : {w.id}, offset : Nat, buf : Bytes, err : BOOLEAN, closed : BOOLEAN]
    <3>1. w.offset + Len(e) \in Nat BY <1>2, <2>3
    <3>2. /\ o.writer.id = w.id /\ o.writer.buf = rest
          /\ o.writer.offset = w.offset + Len(e)
          /\ o.writer.err = w.err /\ o.writer.closed = w.closed
      BY <2>1, <2>3
    <3> QED BY <2>1, <2>2, <2>3, <3>1, <3>2
  <2>6. o.writer.offset = Len(o.files[w.id]) + Len(o.writer.buf)
    BY <1>1, <1>2, <2>2, <2>3, <2>4, <2>5
  <2> QED BY <2>3, <2>4, <2>5, <2>6 DEF Aligned
<1> QED BY <1>4, <1>5, <1>6

\* Rolling ends at the start of an empty segment, or leaves the writer closed.
LEMMA RollAligned ==
  ASSUME NEW fs, NEW w, Aligned(fs, w), NEW o \in RollOutcomes(fs, w)
  PROVE  Aligned(o.files, o.writer)
<1>1. PICK p \in FlushOutcomes(fs, w) :
        o \in IF ~p.ok
              THEN {p}
              ELSE {Outcome(p.files, [p.writer EXCEPT !.closed = TRUE], FALSE),
                    Outcome(WithFile(p.files, w.id + 1, <<>>), Opened(w.id + 1, <<>>), TRUE)}
  BY DEF RollOutcomes
<1>2. Aligned(p.files, p.writer) BY FlushAligned
<1>3. CASE o = p BY <1>2, <1>3
<1>4. CASE o = Outcome(p.files, [p.writer EXCEPT !.closed = TRUE], FALSE)
  BY <1>2, <1>4 DEF Outcome, Aligned
<1>5. CASE o = Outcome(WithFile(p.files, w.id + 1, <<>>), Opened(w.id + 1, <<>>), TRUE)
  <2> DEFINE gs == WithFile(p.files, w.id + 1, <<>>)
  <2>1. <<>> \in Bytes BY DEF Bytes
  <2>2. Typed(gs) /\ w.id + 1 \in DOMAIN gs /\ gs[w.id + 1] = <<>>
    BY <1>2, <2>1, WithFileFact DEF Aligned
  <2>3. Aligned(gs, Opened(w.id + 1, gs[w.id + 1])) BY <2>2, OpenedAligned
  <2> QED BY <1>5, <2>2, <2>3 DEF Outcome
<1> QED BY <1>1, <1>3, <1>4, <1>5

\* A record that is written, synced or not.
LEMMA RecordAligned ==
  ASSUME cfg.BufferSize \in Nat,
         NEW fs, NEW w, Aligned(fs, w), NEW e \in Bytes,
         NEW o \in RecordOutcomes(fs, w, e)
  PROVE  Aligned(o.files, o.writer)
<1>1. PICK p \in WriteOutcomes(fs, w, e) :
        o \in IF p.ok
              THEN {Taken(q, [id |-> w.id, offset |-> w.offset, size |-> Len(e)]) :
                      q \in SyncOutcomes(p.files, p.writer)}
              ELSE {Refused(p)}
  BY DEF RecordOutcomes
<1>2. Aligned(p.files, p.writer) BY WriteAligned
<1>3. CASE p.ok
  <2>1. PICK q \in SyncOutcomes(p.files, p.writer) :
          o = Taken(q, [id |-> w.id, offset |-> w.offset, size |-> Len(e)])
    BY <1>1, <1>3
  <2>2. Aligned(q.files, q.writer)
    BY <1>2, FlushAligned DEF SyncOutcomes, Outcome
  <2> QED BY <2>1, <2>2 DEF Taken
<1>4. CASE ~p.ok BY <1>1, <1>2, <1>4 DEF Refused
<1> QED BY <1>3, <1>4

\* Append takes an aligned writer to aligned writers.
LEMMA AppendAligned ==
  ASSUME cfg.BufferSize \in Nat,
         NEW fs, NEW w, Aligned(fs, w), NEW e \in Bytes,
         NEW o \in AppendOutcomes(fs, w, e)
  PROVE  Aligned(o.files, o.writer)
<1>1. CASE w.closed BY <1>1 DEF AppendOutcomes, Refused, Outcome
<1>2. CASE ~w.closed /\ NeedsRoll(w, e)
  <2>1. PICK p \in RollOutcomes(fs, w) :
          o \in IF p.ok THEN RecordOutcomes(p.files, p.writer, e) ELSE {Refused(p)}
    BY <1>2 DEF AppendOutcomes
  <2>2. Aligned(p.files, p.writer) BY RollAligned
  <2>3. CASE p.ok BY <2>1, <2>2, <2>3, RecordAligned
  <2>4. CASE ~p.ok BY <2>1, <2>2, <2>4 DEF Refused
  <2> QED BY <2>3, <2>4
<1>3. CASE ~w.closed /\ ~NeedsRoll(w, e)
  BY <1>3, RecordAligned DEF AppendOutcomes
<1> QED BY <1>1, <1>2, <1>3

\* So does Close.
LEMMA CloseAligned ==
  ASSUME NEW fs, NEW w, Aligned(fs, w), NEW o \in CloseOutcomes(fs, w)
  PROVE  Aligned(o.files, o.writer)
<1>1. CASE w.closed BY <1>1 DEF CloseOutcomes, Outcome
<1>2. CASE ~w.closed
  <2>1. PICK p \in FlushOutcomes(fs, w) : o = [p EXCEPT !.writer.closed = TRUE]
    BY <1>2 DEF CloseOutcomes
  <2>2. Aligned(p.files, p.writer) BY FlushAligned
  <2>3. o.files = p.files /\ o.writer = [p.writer EXCEPT !.closed = TRUE]
    <3>1. DOMAIN p = {"files", "writer", "ok"}
      BY <1>2 DEF FlushOutcomes, CutShort, Outcome
    <3> QED BY <2>1, <3>1
  <2> QED BY <2>2, <2>3 DEF Aligned
<1> QED BY <1>1, <1>2

-----------------------------------------------------------------------------
(* Steps. *)

\* No file is open at first.
LEMMA InitInv == Init => IInv
BY DEF Init, IInv, Typed, Opening

\* A request of either kind appends one of the clients' records.
LEMMA RequestStep ==
  ASSUME IInv, status = "running",
         NEW r \in ClientRecords, NEW o \in AppendOutcomes(files, writer, Encode(r)),
         Appending(r, o)
  PROVE  IInv'
<1>1. Encode(r) \in Bytes BY EncodeFact
<1>2. cfg.BufferSize \in Nat BY SizeAssumption DEF IInv
<1>3. Aligned(files, writer) BY DEF IInv, Opening
<1>4. Aligned(o.files, o.writer) BY <1>1, <1>2, <1>3, AppendAligned
<1>5. files' = o.files /\ writer' = o.writer /\ UNCHANGED <<cfg, status>> BY DEF Appending
<1>6. Aligned(files, writer)' BY <1>4, <1>5 DEF Aligned, Typed
<1> QED BY <1>5, <1>6 DEF IInv, Aligned

\* A client's step keeps the invariant.
LEMMA ClientStep ==
  ASSUME IInv,
         \/ \E p \in Puts : Put(p[1], p[2])
         \/ \E k \in Deletes : Delete(k)
  PROVE  IInv'
<1>1. ASSUME NEW p \in Puts, Put(p[1], p[2]) PROVE IInv'
  <2>1. status = "running" BY <1>1 DEF Put
  <2>2. cfg.Version \in Versions BY <2>1 DEF IInv, Versions
  <2>3. PutRecord(cfg.Version, p[1], p[2]) \in ClientRecords BY <2>2 DEF ClientRecords
  <2> QED BY <1>1, <2>1, <2>3, RequestStep DEF Put
<1>2. ASSUME NEW k \in Deletes, Delete(k) PROVE IInv'
  <2>1. status = "running" BY <1>2 DEF Delete
  <2>2. cfg.Version \in Versions BY <2>1 DEF IInv, Versions
  <2>3. DelRecord(cfg.Version, k) \in ClientRecords BY <2>2 DEF ClientRecords
  <2> QED BY <1>2, <2>1, <2>3, RequestStep DEF Delete
<1> QED BY <1>1, <1>2

\* So does Close.
LEMMA CloseStep ==
  ASSUME IInv, Close
  PROVE  IInv'
<1>1. PICK o \in CloseOutcomes(files, writer) : files' = o.files /\ writer' = o.writer
  BY DEF Close
<1>2. Aligned(o.files, o.writer) BY CloseAligned DEF Close, IInv, Opening
<1>3. Aligned(files, writer)' BY <1>1, <1>2 DEF Aligned, Typed
<1> QED BY <1>3 DEF Close, IInv, Aligned

\* So does a start: its writer is at the end of its file.
LEMMA StartStep ==
  ASSUME IInv, NEW env \in Environments, Start(env)
  PROVE  IInv'
<1> DEFINE c == Load(env)
           i == LastId(c, files)
           fs == IF i \in DOMAIN files THEN files ELSE WithFile(files, i, <<>>)
<1>1. <<>> \in Bytes BY DEF Bytes
<1>2. Typed(fs) /\ i \in DOMAIN fs
  BY <1>1, WithFileFact DEF IInv
<1>3. cfg' = c BY DEF Start
<1>4. CASE status' = "failed"
  <2>1. files' \in {files, fs} BY <1>4 DEF Start
  <2>2. Typed(files') BY <1>2, <2>1 DEF IInv
  <2> QED BY <1>4, <2>2 DEF IInv, Opening, Typed
<1>5. CASE status' # "failed"
  <2>1. /\ files' = fs /\ status' = "running"
        /\ writer' = Opened(i, fs[i])
    BY <1>5 DEF Start
  <2>2. Aligned(fs, Opened(i, fs[i])) BY <1>2, OpenedAligned
  <2>3. Aligned(files, writer)' BY <2>1, <2>2 DEF Aligned, Typed
  <2> QED BY <1>3, <2>1, <2>3 DEF IInv, Aligned
<1> QED BY <1>4, <1>5

\* The invariant is inductive.
LEMMA NextInv == IInv /\ [Next]_vars => IInv'
<1> SUFFICES ASSUME IInv, [Next]_vars PROVE IInv'
  OBVIOUS
<1>1. CASE Exit
  BY <1>1 DEF Exit, IInv, Opening, Typed
<1>2. CASE UNCHANGED vars
  BY <1>2 DEF vars, IInv, Opening, Aligned, Typed
<1> QED BY <1>1, <1>2, ClientStep, CloseStep, StartStep DEF Next

-----------------------------------------------------------------------------
(* The writer's offset. *)

\* Whatever fails and whenever the process is killed, under every configuration,
\* the offset the writer counts is the end of its file and buffer as long as its
\* last write has not failed: the next record's location is where it goes.
THEOREM OffsetsAreEnds == Spec => []OffsetIsEnd
<1>1. IInv => OffsetIsEnd BY DEF IInv, OffsetIsEnd, Aligned
<1> QED BY <1>1, InitInv, NextInv, PTL DEF Spec

-----------------------------------------------------------------------------
(* What the files and the buffer hold. *)

\* The files as they are once the buffer is out; after a failing write it is gone.
Contents(fs, w) == IF w.err THEN fs ELSE Extended(fs, w.id, w.buf)

\* The writer is at the end of the topmost file; once closed it has nothing left.
Tidy(fs, w) ==
  /\ Aligned(fs, w)
  /\ DOMAIN fs \subseteq Nat /\ Topmost(fs, w.id)
  /\ w.closed /\ ~w.err => w.buf = <<>>

\* Each file begins as it was.
Grown(fs, gs) == DOMAIN fs \subseteq DOMAIN gs /\ \A x \in DOMAIN fs : Begins(fs[x], gs[x])

\* Where both files have a byte it is the same.
Agree(fs, gs) ==
  /\ DOMAIN fs \subseteq DOMAIN gs
  /\ \A x \in DOMAIN fs : \A i \in 1..Len(fs[x]) : i <= Len(gs[x]) => fs[x][i] = gs[x][i]

\* What writing does: files grow, and so does what is in them and the buffer, until
\* a write fails.
Evolves(fs, w, gs, v) ==
  /\ Grown(fs, gs)
  /\ w.err => gs = fs /\ v.err
  /\ ~w.err /\ v.err => Agree(Contents(fs, w), Contents(gs, v))
  /\ ~w.err /\ ~v.err => Grown(Contents(fs, w), Contents(gs, v))

\* How sequences begin.
LEMMA BeginsFact ==
  ASSUME NEW s \in Bytes, NEW t \in Bytes
  PROVE  Begins(s, s) /\ Begins(s, s \o t) /\ Begins(<<>>, s)
<1>1. Len(s) \in Nat /\ Len(t) \in Nat BY NewLinesFact
<1>2. Begins(s, s) BY <1>1 DEF Begins
<1>3. Begins(s, s \o t) BY <1>1, Joined DEF Begins
<1>4. Begins(<<>>, s) BY <1>1 DEF Begins
<1> QED BY <1>2, <1>3, <1>4

\* A beginning of a beginning is one.
LEMMA BeginsTwice ==
  ASSUME NEW s \in Bytes, NEW t \in Bytes, NEW u \in Bytes, Begins(s, t), Begins(t, u)
  PROVE  Begins(s, u)
<1>1. Len(s) \in Nat /\ Len(t) \in Nat /\ Len(u) \in Nat BY NewLinesFact
<1> QED BY <1>1 DEF Begins

\* How one sequence begins, so it does after any other.
LEMMA BeginsAfter ==
  ASSUME NEW s \in Bytes, NEW t \in Bytes, NEW u \in Bytes, Begins(t, u)
  PROVE  Begins(s \o t, s \o u)
<1>1. Len(s) \in Nat /\ Len(t) \in Nat /\ Len(u) \in Nat BY NewLinesFact
<1>2. /\ Len(s \o t) = Len(s) + Len(t) /\ Len(s \o u) = Len(s) + Len(u)
      /\ \A i \in 1..Len(s) : (s \o t)[i] = s[i] /\ (s \o u)[i] = s[i]
      /\ \A i \in 1..Len(t) : (s \o t)[Len(s) + i] = t[i]
      /\ \A i \in 1..Len(u) : (s \o u)[Len(s) + i] = u[i]
  BY Joined
<1>3. Len(t) <= Len(u) /\ \A i \in 1..Len(t) : t[i] = u[i] /\ i \in 1..Len(u) BY <1>1 DEF Begins
<1>4. ASSUME NEW i \in 1..(Len(s) + Len(t)) PROVE (s \o t)[i] = (s \o u)[i]
  <2>1. CASE i <= Len(s) BY <1>1, <1>2, <2>1
  <2>2. CASE i > Len(s)
    <3>1. i - Len(s) \in 1..Len(t) /\ i = Len(s) + (i - Len(s)) BY <1>1, <2>2
    <3> QED BY <1>2, <1>3, <3>1
  <2>3. i <= Len(s) \/ i > Len(s) BY <1>1
  <2> QED BY <2>1, <2>2, <2>3
<1> QED BY <1>1, <1>2, <1>3, <1>4 DEF Begins

\* Extended appends to one file.
LEMMA AppendedFact ==
  ASSUME NEW fs, Typed(fs), NEW i \in DOMAIN fs, NEW bytes \in Bytes
  PROVE  /\ Appended(fs, Extended(fs, i, bytes), i, bytes)
         /\ Typed(Extended(fs, i, bytes)) /\ Grown(fs, Extended(fs, i, bytes))
<1> DEFINE gs == Extended(fs, i, bytes)
<1>1. DOMAIN gs = DOMAIN fs /\ gs[i] = fs[i] \o bytes /\ \A x \in DOMAIN fs : x # i => gs[x] = fs[x]
  BY DEF Extended
<1>2. Typed(gs) BY ExtendedFact
<1> HIDE DEF gs
<1>3. Grown(fs, gs)
  <2> SUFFICES ASSUME NEW x \in DOMAIN fs PROVE Begins(fs[x], gs[x]) BY <1>1 DEF Grown
  <2>1. fs[x] \in Bytes BY DEF Typed
  <2> QED BY <1>1, <2>1, BeginsFact
<1> QED BY <1>1, <1>2, <1>3 DEF Appended, gs

\* Files that grow twice have grown.
LEMMA GrownTwice ==
  ASSUME NEW fs, NEW gs, NEW hs, Typed(fs), Typed(gs), Typed(hs), Grown(fs, gs), Grown(gs, hs)
  PROVE  Grown(fs, hs)
<1> SUFFICES ASSUME NEW x \in DOMAIN fs PROVE Begins(fs[x], hs[x]) BY DEF Grown
<1>1. x \in DOMAIN gs /\ x \in DOMAIN hs BY DEF Grown
<1>2. fs[x] \in Bytes /\ gs[x] \in Bytes /\ hs[x] \in Bytes BY <1>1 DEF Typed
<1> QED BY <1>1, <1>2, BeginsTwice DEF Grown

\* Files that stay the same have grown by nothing.
LEMMA SameGrown ==
  ASSUME NEW fs, NEW gs, Typed(fs), SameFiles(fs, gs)
  PROVE  Grown(fs, gs) /\ Grown(gs, fs) /\ Typed(gs)
<1>1. \A x \in DOMAIN fs : Begins(fs[x], fs[x]) BY BeginsFact DEF Typed
<1> QED BY <1>1 DEF SameFiles, Grown, Typed

\* What is in the files and the buffer.
LEMMA ContentsFact ==
  ASSUME NEW fs, NEW w, Tidy(fs, w)
  PROVE  /\ Typed(fs) /\ w.buf \in Bytes
         /\ Typed(Contents(fs, w)) /\ DOMAIN Contents(fs, w) = DOMAIN fs
         /\ Grown(fs, Contents(fs, w))
         /\ ~w.err => Appended(fs, Contents(fs, w), w.id, w.buf)
         /\ w.buf = <<>> => SameFiles(fs, Contents(fs, w))
<1>1. Typed(fs) /\ w.buf \in Bytes /\ w.id \in DOMAIN fs BY DEF Tidy, Aligned
<1>2. CASE w.err
  <2>1. Contents(fs, w) = fs BY <1>2 DEF Contents
  <2>2. SameFiles(fs, fs) BY DEF SameFiles
  <2> QED BY <1>1, <1>2, <2>1, <2>2, SameGrown
<1>3. CASE ~w.err
  <2>1. Contents(fs, w) = Extended(fs, w.id, w.buf) BY <1>3 DEF Contents
  <2>2. /\ Appended(fs, Contents(fs, w), w.id, w.buf)
        /\ Typed(Contents(fs, w)) /\ Grown(fs, Contents(fs, w))
    BY <1>1, <2>1, AppendedFact
  <2>3. w.buf = <<>> => SameFiles(fs, Contents(fs, w))
    <3>1. fs[w.id] \o <<>> = fs[w.id]
      <4>1. fs[w.id] \in Bytes BY <1>1 DEF Typed
      <4> QED BY <4>1 DEF Bytes
    <3> QED BY <2>2, <3>1 DEF SameFiles, Appended
  <2> QED BY <1>1, <2>2, <2>3 DEF Appended
<1> QED BY <1>2, <1>3

\* What evolves twice has evolved.
LEMMA EvolvesTwice ==
  ASSUME NEW fs, NEW w, NEW gs, NEW v, NEW hs, NEW u,
         Tidy(fs, w), Tidy(gs, v), Tidy(hs, u),
         Evolves(fs, w, gs, v), Evolves(gs, v, hs, u)
  PROVE  Evolves(fs, w, hs, u)
<1>1. /\ Typed(fs) /\ Typed(gs) /\ Typed(hs)
      /\ Typed(Contents(fs, w)) /\ Typed(Contents(gs, v)) /\ Typed(Contents(hs, u))
      /\ DOMAIN Contents(fs, w) = DOMAIN fs /\ DOMAIN Contents(gs, v) = DOMAIN gs
      /\ DOMAIN Contents(hs, u) = DOMAIN hs
  BY ContentsFact
<1>2. Grown(fs, hs) BY <1>1, GrownTwice DEF Evolves
<1>3. CASE w.err \/ v.err BY <1>2, <1>3 DEF Evolves, Contents
<1>4. CASE ~w.err /\ ~v.err /\ u.err
  <2>1. Grown(Contents(fs, w), Contents(gs, v)) /\ Agree(Contents(gs, v), Contents(hs, u))
    BY <1>4 DEF Evolves
  <2>2. Agree(Contents(fs, w), Contents(hs, u))
    <3> DEFINE first == Contents(fs, w)
               second == Contents(gs, v)
               third == Contents(hs, u)
    <3> HIDE DEF first, second, third
    <3>1. Typed(first) /\ Typed(second) /\ Grown(first, second) /\ Agree(second, third)
      BY <1>1, <2>1 DEF first, second, third
    <3>2. ASSUME NEW x \in DOMAIN first, NEW i, i \in 1..Len(first[x]), i <= Len(third[x])
          PROVE  first[x][i] = third[x][i]
      <4>1. x \in DOMAIN second /\ first[x] \in Bytes /\ second[x] \in Bytes
        BY <3>1 DEF Grown, Typed
      <4>2. Len(first[x]) \in Nat /\ Len(second[x]) \in Nat BY <4>1, NewLinesFact
      <4>3. i \in 1..Len(second[x]) /\ first[x][i] = second[x][i]
        <5>1. Begins(first[x], second[x]) BY <3>1 DEF Grown
        <5> QED BY <3>2, <4>2, <5>1 DEF Begins
      <4> QED BY <3>1, <3>2, <4>1, <4>3 DEF Agree
    <3>3. DOMAIN first \subseteq DOMAIN third BY <3>1 DEF Grown, Agree
    <3>4. Agree(first, third) BY <3>2, <3>3 DEF Agree
    <3> QED BY <3>4 DEF first, third
  <2> QED BY <1>2, <1>4, <2>2 DEF Evolves
<1>5. CASE ~w.err /\ ~v.err /\ ~u.err
  <2>1. Grown(Contents(fs, w), Contents(gs, v)) /\ Grown(Contents(gs, v), Contents(hs, u))
    BY <1>5 DEF Evolves
  <2>2. Grown(Contents(fs, w), Contents(hs, u)) BY <1>1, <2>1, GrownTwice
  <2> QED BY <1>2, <1>5, <2>2 DEF Evolves
<1> QED BY <1>3, <1>4, <1>5

\* Nothing done is no change.
LEMMA EvolvesNot ==
  ASSUME NEW fs, NEW w, Tidy(fs, w)
  PROVE  Evolves(fs, w, fs, w)
<1>1. SameFiles(fs, fs) /\ SameFiles(Contents(fs, w), Contents(fs, w)) BY DEF SameFiles
<1>2. Typed(fs) /\ Typed(Contents(fs, w)) BY ContentsFact
<1>3. Grown(fs, fs) /\ Grown(Contents(fs, w), Contents(fs, w)) BY <1>1, <1>2, SameGrown
<1> QED BY <1>3 DEF Evolves

-----------------------------------------------------------------------------
(* Which records these are. *)

\* The history's entries.
Entry ==
  [rec : ClientRecords, answer : {201, 204, 400, 500}, synced : BOOLEAN, survived : BOOLEAN]

\* The lines of the files, those in the buffer too, are the entries; after a failing
\* write, those that are left are the first of them.
Recorded(fs, w, entries) ==
  IF w.err
  THEN \E at : Laid(fs, entries, at)
  ELSE /\ \E at : Laid(Contents(fs, w), entries, at) /\ Len(at) = Len(entries)
       /\ Whole(Contents(fs, w)[w.id])

\* The outcome of a call that writes no record.
KeepsRecords(fs, w, gs, v) ==
  \A entries \in Seq(Entry) : Recorded(fs, w, entries) => Recorded(gs, v, entries)

\* The outcome of one that writes r.
AddsRecord(fs, w, gs, v, r) ==
  \A entries \in Seq(Entry), entry \in Entry :
    entry.rec = r /\ Recorded(fs, w, entries) => Recorded(gs, v, Append(entries, entry))

\* What every call of a writer keeps.
Keeps(fs, w, gs, v) == Tidy(gs, v) /\ Evolves(fs, w, gs, v)

\* The file and the buffer hold the same bytes wherever the border between them is.
LEMMA Associates ==
  ASSUME NEW s \in Bytes, NEW t \in Bytes, NEW u \in Bytes
  PROVE  (s \o t) \o u = s \o (t \o u)
BY DEF Bytes

\* A sequence is what leaves the buffer and what stays.
LEMMA Divided ==
  ASSUME NEW s \in Bytes, NEW n \in 0..Len(s)
  PROVE  /\ SubSeq(s, 1, n) \in Bytes /\ SubSeq(s, n + 1, Len(s)) \in Bytes
         /\ Len(SubSeq(s, 1, n)) = n
         /\ Begins(SubSeq(s, 1, n), s)
         /\ SubSeq(s, 1, n) \o SubSeq(s, n + 1, Len(s)) = s
<1> DEFINE a == SubSeq(s, 1, n)
           b == SubSeq(s, n + 1, Len(s))
<1>1. Len(s) \in Nat /\ n \in Nat /\ n <= Len(s) BY NewLinesFact
<1>2. a \in Bytes /\ Len(a) = n /\ \A i \in 1..n : a[i] = s[i]
  BY <1>1 DEF Bytes
<1>3. b \in Bytes /\ Len(b) = Len(s) - n /\ \A i \in 1..(Len(s) - n) : b[i] = s[n + i]
  <2>1. b \in Bytes BY <1>1 DEF Bytes
  <2>2. Len(b) = Len(s) - n BY <1>1 DEF Bytes
  <2>3. \A i \in 1..(Len(s) - n) : b[i] = s[n + 1 + i - 1] BY <1>1 DEF Bytes
  <2>4. \A i \in 1..(Len(s) - n) : n + 1 + i - 1 = n + i BY <1>1
  <2> QED BY <2>1, <2>2, <2>3, <2>4
<1> HIDE DEF a, b
<1>4. /\ a \o b \in Bytes /\ Len(a \o b) = Len(s)
      /\ \A i \in 1..n : (a \o b)[i] = s[i]
      /\ \A i \in 1..(Len(s) - n) : (a \o b)[n + i] = s[n + i]
  <2>1. /\ a \o b \in Bytes /\ Len(a \o b) = Len(a) + Len(b)
        /\ \A i \in 1..Len(a) : (a \o b)[i] = a[i]
        /\ \A i \in 1..Len(b) : (a \o b)[Len(a) + i] = b[i]
    BY <1>2, <1>3, Joined
  <2> QED BY <1>1, <1>2, <1>3, <2>1
<1>5. ASSUME NEW i \in 1..Len(s) PROVE (a \o b)[i] = s[i]
  <2>1. CASE i <= n BY <1>1, <1>4, <2>1
  <2>2. CASE i > n
    <3>1. i - n \in 1..(Len(s) - n) /\ n + (i - n) = i BY <1>1, <2>2
    <3> QED BY <1>4, <3>1
  <2>3. i <= n \/ i > n BY <1>1
  <2> QED BY <2>1, <2>2, <2>3
<1>6. a \o b = s BY <1>4, <1>5, SameBytes
<1>7. Begins(a, s) BY <1>1, <1>2 DEF Begins
<1> QED BY <1>2, <1>3, <1>6, <1>7 DEF a, b

\* What is in the buffer and bytes behind it.
All(w, e) == w.buf \o e

\* The files with the buffer and some bytes written out.
Both(fs, w, e) == Extended(fs, w.id, All(w, e))

\* Bytes behind the buffer are bytes behind the contents.
LEMMA BothFact ==
  ASSUME NEW fs, NEW w, Tidy(fs, w), ~w.err, NEW e \in Bytes
  PROVE  /\ All(w, e) \in Bytes
         /\ Typed(Both(fs, w, e))
         /\ DOMAIN Both(fs, w, e) = DOMAIN fs
         /\ Both(fs, w, e)[w.id] = fs[w.id] \o All(w, e)
         /\ Appended(Contents(fs, w), Both(fs, w, e), w.id, e)
         /\ Grown(Contents(fs, w), Both(fs, w, e))
         /\ Appended(fs, Both(fs, w, e), w.id, All(w, e))
<1> DEFINE both == Both(fs, w, e)
           cs == Contents(fs, w)
<1>1. Typed(fs) /\ w.buf \in Bytes /\ w.id \in DOMAIN fs /\ fs[w.id] \in Bytes
  BY DEF Tidy, Aligned, Typed
<1>2. All(w, e) \in Bytes BY <1>1, Joined DEF All
<1>3. Appended(fs, both, w.id, All(w, e)) /\ Typed(both) BY <1>1, <1>2, AppendedFact DEF Both
<1>4. Appended(fs, cs, w.id, w.buf) /\ Typed(cs) BY ContentsFact
<1>5. cs[w.id] \o e = fs[w.id] \o All(w, e)
  <2> DEFINE f == fs[w.id]
             b == w.buf
  <2>1. cs[w.id] = f \o b /\ All(w, e) = b \o e BY <1>4 DEF Appended, All
  <2>2. f \in Bytes /\ b \in Bytes BY <1>1
  <2> HIDE DEF f, b, cs
  <2>3. (f \o b) \o e = f \o (b \o e) BY <2>2, Associates
  <2>4. cs[w.id] \o e = f \o All(w, e) BY <2>1, <2>3
  <2> QED BY <2>4 DEF f
<1> HIDE DEF both, cs
<1>6. Appended(cs, both, w.id, e) BY <1>3, <1>4, <1>5 DEF Appended
<1>7. Grown(cs, both)
  <2> SUFFICES ASSUME NEW x \in DOMAIN cs PROVE Begins(cs[x], both[x])
    BY <1>6 DEF Grown, Appended
  <2>1. cs[x] \in Bytes BY <1>4 DEF Typed
  <2> QED BY <1>6, <2>1, BeginsFact DEF Appended
<1> QED BY <1>2, <1>3, <1>6, <1>7 DEF both, cs, Appended

\* Two beginnings of a file agree.
LEMMA BeginningsAgree ==
  ASSUME NEW s \in Bytes, NEW t \in Bytes, NEW u \in Bytes, Begins(s, u), Begins(t, u),
         NEW i \in 1..Len(s), i <= Len(t)
  PROVE  s[i] = t[i]
<1>1. Len(s) \in Nat /\ Len(t) \in Nat /\ Len(u) \in Nat BY NewLinesFact
<1> QED BY <1>1 DEF Begins

\* A write that fails has cut what it would have made.
LEMMA CutShortKeeps ==
  ASSUME NEW fs, NEW w, Tidy(fs, w), ~w.err, NEW e \in Bytes,
         NEW bytes \in Bytes, Begins(bytes, All(w, e)), NEW o \in CutShort(fs, w, bytes)
  PROVE  /\ Keeps(fs, w, o.files, o.writer)
         /\ o.writer.err /\ ~o.ok /\ o.writer.id = w.id /\ o.writer.closed = w.closed
         /\ o.writer.buf = <<>>
         /\ DOMAIN o.files = DOMAIN fs
         /\ Shortened(Both(fs, w, e), o.files, w.id)
         /\ Len(o.files[w.id]) < Len(Both(fs, w, e)[w.id])
<1>1. PICK n \in CutPoints :
        /\ n < Len(bytes)
        /\ o = Outcome(Extended(fs, w.id, SubSeq(bytes, 1, n)),
                       [w EXCEPT !.buf = <<>>, !.err = TRUE], FALSE)
  BY DEF CutShort
<1> DEFINE cut == SubSeq(bytes, 1, n)
           gs == o.files
           both == Both(fs, w, e)
           cs == Contents(fs, w)
<1>2. /\ Typed(fs) /\ w.id \in DOMAIN fs /\ fs[w.id] \in Bytes /\ w.buf \in Bytes
      /\ w \in [id : {w.id}, offset : Nat, buf : Bytes, err : BOOLEAN, closed : BOOLEAN]
  BY DEF Tidy, Aligned, Typed
<1>3. /\ All(w, e) \in Bytes /\ Typed(both) /\ DOMAIN both = DOMAIN fs
      /\ both[w.id] = fs[w.id] \o All(w, e)
      /\ Appended(cs, both, w.id, e) /\ Grown(cs, both)
      /\ Appended(fs, both, w.id, All(w, e))
  BY BothFact
<1>4. n \in 0..Len(bytes) /\ Len(bytes) \in Nat BY <1>1, CutAssumption, NewLinesFact
<1>5. cut \in Bytes /\ Len(cut) = n /\ Begins(cut, bytes) BY <1>4, Divided
<1> HIDE DEF cut
<1>6. /\ gs = Extended(fs, w.id, cut) /\ o.writer = [w EXCEPT !.buf = <<>>, !.err = TRUE] /\ ~o.ok
  BY <1>1 DEF Outcome, cut
<1>7. Appended(fs, gs, w.id, cut) /\ Typed(gs) /\ Grown(fs, gs) BY <1>2, <1>5, <1>6, AppendedFact
<1>8. /\ o.writer.err /\ o.writer.id = w.id /\ o.writer.buf = <<>> /\ o.writer.closed = w.closed
  BY <1>2, <1>6
<1>9. Begins(cut, All(w, e)) BY <1>3, <1>5, BeginsTwice
<1>10. Begins(gs[w.id], both[w.id]) /\ gs[w.id] \in Bytes /\ both[w.id] \in Bytes
  <2>1. gs[w.id] = fs[w.id] \o cut BY <1>7 DEF Appended
  <2>2. gs[w.id] \in Bytes BY <1>2, <1>5, <2>1, Joined
  <2> QED BY <1>2, <1>3, <1>5, <1>9, <2>1, <2>2, BeginsAfter, Joined
<1>11. DOMAIN gs = DOMAIN fs /\ \A x \in DOMAIN fs : x # w.id => gs[x] = fs[x] BY <1>7 DEF Appended
<1>12. DOMAIN cs = DOMAIN fs /\ Typed(cs) /\ Appended(fs, cs, w.id, w.buf) BY ContentsFact
<1>13. \A x \in DOMAIN fs : x # w.id => both[x] = fs[x] /\ cs[x] = fs[x]
  <2> HIDE DEF both, cs
  <2> QED BY <1>3, <1>12 DEF Appended
<1>14. Len(gs[w.id]) < Len(both[w.id])
  <2> HIDE DEF both
  <2>1. Len(gs[w.id]) = Len(fs[w.id]) + n
    <3>1. gs[w.id] = fs[w.id] \o cut BY <1>7 DEF Appended
    <3> DEFINE f == fs[w.id]
    <3>2. f \in Bytes /\ gs[w.id] = f \o cut BY <1>2, <3>1
    <3> HIDE DEF f, gs
    <3>3. Len(gs[w.id]) = Len(f) + n BY <1>5, <3>2, Joined
    <3> QED BY <3>3 DEF f
  <2>2. Len(both[w.id]) = Len(fs[w.id]) + Len(All(w, e)) BY <1>2, <1>3, Joined
  <2>3. Len(fs[w.id]) \in Nat /\ Len(All(w, e)) \in Nat BY <1>2, <1>3, NewLinesFact
  <2>4. Len(bytes) <= Len(All(w, e)) BY DEF Begins
  <2> DEFINE l == Len(All(w, e))
  <2> HIDE DEF l
  <2>5. l \in Nat /\ Len(bytes) <= l /\ Len(both[w.id]) = Len(fs[w.id]) + l
    BY <2>2, <2>3, <2>4 DEF l
  <2>6. n \in Nat /\ n < l BY <1>1, <1>4, <2>5
  <2> QED BY <2>1, <2>3, <2>5, <2>6
<1> HIDE DEF both, cs
<1>15. Shortened(both, gs, w.id) BY <1>3, <1>10, <1>11, <1>13 DEF Shortened
<1>16. Agree(cs, gs)
  <2> SUFFICES ASSUME NEW x \in DOMAIN cs, NEW i, i \in 1..Len(cs[x]), i <= Len(gs[x])
               PROVE  cs[x][i] = gs[x][i]
    BY <1>11, <1>12 DEF Agree
  <2>1. CASE x = w.id
    <3>1. Begins(cs[x], both[x]) /\ cs[x] \in Bytes BY <1>3, <1>12 DEF Grown, Typed
    <3> QED BY <1>10, <2>1, <3>1, BeginningsAgree
  <2>2. CASE x # w.id BY <1>11, <1>12, <1>13, <2>2
  <2> QED BY <2>1, <2>2
<1>17. Contents(gs, o.writer) = gs BY <1>8 DEF Contents
<1>18. Evolves(fs, w, gs, o.writer) BY <1>7, <1>8, <1>16, <1>17 DEF Evolves, cs
<1>19. Aligned(gs, o.writer) BY CutShortAligned DEF Tidy
<1>20. Tidy(gs, o.writer) BY <1>8, <1>11, <1>19 DEF Tidy, Topmost
<1> QED BY <1>6, <1>8, <1>11, <1>14, <1>15, <1>18, <1>20 DEF Keeps, both

\* The bytes at a location are those of a record, or will be once the buffer is out;
\* after a failing write they may never be.
Held(fs, w, loc, r) ==
  /\ loc.id \in DOMAIN fs /\ loc.offset \in Nat /\ loc.size = Len(Encode(r))
  /\ ~w.err => loc.offset + loc.size <= Len(Contents(fs, w)[loc.id])
  /\ \A i \in 1..Len(Encode(r)) :
       loc.offset + i <= Len(Contents(fs, w)[loc.id]) =>
         Contents(fs, w)[loc.id][loc.offset + i] = Encode(r)[i]

\* The same contents hold the same records.
LEMMA SameRecorded ==
  ASSUME NEW fs, NEW w, NEW gs, NEW v, ~w.err, ~v.err, v.id = w.id,
         w.id \in DOMAIN Contents(fs, w), SameFiles(Contents(fs, w), Contents(gs, v))
  PROVE  KeepsRecords(fs, w, gs, v)
<1> SUFFICES ASSUME NEW entries \in Seq(Entry), Recorded(fs, w, entries)
             PROVE  Recorded(gs, v, entries)
  BY DEF KeepsRecords
<1>1. PICK at : Laid(Contents(fs, w), entries, at) /\ Len(at) = Len(entries) BY DEF Recorded
<1>2. Laid(Contents(gs, v), entries, at) BY <1>1, LaidSame
<1>3. Whole(Contents(gs, v)[v.id]) BY DEF Recorded, SameFiles
<1> QED BY <1>1, <1>2, <1>3 DEF Recorded

\* The topmost file is so with the buffer written out, and is whole.
LEMMA BothTopmost ==
  ASSUME NEW fs, NEW w, Tidy(fs, w), ~w.err, NEW e \in Bytes
  PROVE  Topmost(Contents(fs, w), w.id) /\ Topmost(Both(fs, w, e), w.id) /\ w.id \in Nat
<1>1. DOMAIN Contents(fs, w) = DOMAIN fs BY ContentsFact
<1>2. DOMAIN Both(fs, w, e) = DOMAIN fs BY BothFact
<1> QED BY <1>1, <1>2 DEF Tidy, Topmost

\* A record behind the contents is the next entry.
LEMMA BothLaid ==
  ASSUME NEW fs, NEW w, Tidy(fs, w), ~w.err, NEW r \in ClientRecords,
         NEW entries \in Seq(Entry), Recorded(fs, w, entries), NEW entry, entry.rec = r
  PROVE  /\ LaidNext(Both(fs, w, Encode(r)), entries, entry, w.id)
         /\ Whole(Both(fs, w, Encode(r))[w.id])
<1> DEFINE cs == Contents(fs, w)
           both == Both(fs, w, Encode(r))
<1>1. PICK at : Laid(cs, entries, at) /\ Len(at) = Len(entries) BY DEF Recorded
<1>2. Whole(cs[w.id]) BY DEF Recorded
<1>3. Encode(r) \in Bytes BY EncodeFact
<1>4. Appended(cs, both, w.id, Encode(r)) BY <1>3, BothFact
<1>5. Topmost(cs, w.id) BY <1>3, BothTopmost
<1>6. Typed(cs) BY ContentsFact
<1> HIDE DEF cs, both
<1>8. LaidNext(both, entries, entry, w.id)
  <2>1. Appended(cs, both, w.id, Encode(entry.rec)) /\ entry.rec \in ClientRecords BY <1>4
  <2>2. Whole(cs[w.id]) /\ Typed(cs) BY <1>2, <1>6
  <2> QED BY <1>1, <1>5, <2>1, <2>2, LaidAppend
<1>9. Whole(both[w.id])
  <2>1. cs[w.id] \in Bytes BY <1>5, <1>6 DEF Topmost, Typed
  <2>2. Whole(cs[w.id] \o Encode(r)) BY <1>2, <2>1, LineAdded
  <2> QED BY <1>4, <2>2 DEF Appended
<1> QED BY <1>8, <1>9 DEF both

\* A write that succeeds adds the record.
LEMMA LongRecorded ==
  ASSUME NEW fs, NEW w, Tidy(fs, w), NEW gs, NEW v, ~w.err, ~v.err, v.id = w.id,
         NEW r \in ClientRecords, SameFiles(Both(fs, w, Encode(r)), Contents(gs, v))
  PROVE  AddsRecord(fs, w, gs, v, r)
<1> SUFFICES ASSUME NEW entries \in Seq(Entry), NEW entry \in Entry, entry.rec = r,
                    Recorded(fs, w, entries)
             PROVE  Recorded(gs, v, Append(entries, entry))
  BY DEF AddsRecord
<1> DEFINE both == Both(fs, w, Encode(r))
           longer == Append(entries, entry)
<1>1. PICK at : Laid(both, longer, at) /\ Len(at) = Len(entries) + 1 BY BothLaid DEF LaidNext
<1>2. Whole(both[w.id]) BY BothLaid
<1>3. Len(longer) = Len(entries) + 1 OBVIOUS
<1>4. w.id \in DOMAIN both
  <2>1. Encode(r) \in Bytes BY EncodeFact
  <2> QED BY <2>1, BothTopmost DEF Topmost
<1> HIDE DEF both, longer
<1>5. Laid(Contents(gs, v), longer, at) BY <1>1, LaidSame DEF both
<1>6. Whole(Contents(gs, v)[v.id]) BY <1>2, <1>4 DEF SameFiles, both
<1>7. Recorded(gs, v, longer) BY <1>1, <1>3, <1>5, <1>6 DEF Recorded
<1> QED BY <1>7 DEF longer

\* A write that fails leaves the first records, and never the one it was to add.
LEMMA ShortRecorded ==
  ASSUME NEW fs, NEW w, Tidy(fs, w), NEW gs, NEW v, ~w.err, v.err,
         NEW e \in Bytes, e = <<>> \/ \E r \in ClientRecords : e = Encode(r),
         Shortened(Both(fs, w, e), gs, w.id), Len(gs[w.id]) < Len(Both(fs, w, e)[w.id])
  PROVE  KeepsRecords(fs, w, gs, v)
<1> SUFFICES ASSUME NEW entries \in Seq(Entry), Recorded(fs, w, entries)
             PROVE  \E at : Laid(gs, entries, at)
  BY DEF KeepsRecords, Recorded
<1> DEFINE cs == Contents(fs, w)
           both == Both(fs, w, e)
<1>0. Len(entries) \in Nat OBVIOUS
<1>1. Topmost(both, w.id) /\ Topmost(cs, w.id) BY BothTopmost
<1>2. CASE e = <<>>
  <2>1. PICK at : Laid(cs, entries, at) BY DEF Recorded
  <2>2. Appended(cs, both, w.id, e) /\ Typed(cs) BY BothFact, ContentsFact
  <2> HIDE DEF cs, both
  <2>3. cs[w.id] \in Bytes BY <1>1, <2>2 DEF Topmost, Typed
  <2>4. cs[w.id] \o <<>> = cs[w.id] BY <2>3 DEF Bytes
  <2>5. SameFiles(cs, both) BY <1>2, <2>2, <2>4 DEF SameFiles, Appended
  <2>6. Laid(both, entries, at) BY <2>1, <2>5, LaidSame
  <2>7. Shortened(both, gs, w.id) BY DEF both
  <2>8. \E bt : Laid(gs, entries, bt) BY <1>1, <2>6, <2>7, LaidShortened
  <2> QED BY <2>8
<1>3. ASSUME NEW r \in ClientRecords, e = Encode(r) PROVE \E at : Laid(gs, entries, at)
  <2> DEFINE entry == [rec |-> r]
             longer == Append(entries, entry)
  <2>0. entry.rec = r OBVIOUS
  <2> HIDE DEF entry
  <2>1. PICK at : /\ Laid(both, longer, at) /\ Len(at) = Len(entries) + 1
                  /\ at[Len(at)] = <<w.id, Len(both[w.id])>>
    <3>1. LaidNext(both, entries, entry, w.id) BY <1>3, <2>0, BothLaid
    <3> QED BY <3>1 DEF LaidNext
  <2>2. Len(longer) = Len(entries) + 1 /\ \A j \in 1..Len(entries) : longer[j] = entries[j]
    OBVIOUS
  <2> HIDE DEF longer
  <2>3. Shortened(both, gs, w.id) /\ Len(gs[w.id]) < Len(both[w.id]) BY DEF both
  <2>4. gs[w.id] \in Bytes /\ both[w.id] \in Bytes
    BY <1>1, <2>1, <2>3 DEF Laid, Typed, Topmost, Shortened
  <2>5. Len(gs[w.id]) \in Nat /\ Len(both[w.id]) \in Nat BY <2>4, NewLinesFact
  <2> HIDE DEF both
  <2>6. CutOff(gs, w.id, at) BY <2>1, <2>3, <2>5 DEF CutOff
  <2>7. at # <<>>
    <3>1. Len(at) # 0 BY <1>0, <2>1
    <3> QED BY <3>1
  <2>8. PICK bt : Laid(gs, longer, bt) /\ Len(bt) < Len(at)
    BY <1>1, <2>1, <2>3, <2>6, <2>7, LaidShortened
  <2>9. Len(bt) \in Nat /\ Len(bt) <= Len(entries)
    <3>1. Len(bt) \in Nat BY <2>8 DEF Laid
    <3> QED BY <1>0, <2>1, <2>8, <3>1
  <2>10. \A j \in 1..Len(bt) : entries[j].rec = longer[j].rec BY <1>0, <2>2, <2>9
  <2>11. Laid(gs, entries, bt) BY <2>8, <2>9, <2>10, LaidEntries
  <2> QED BY <2>11
<1> QED BY <1>2, <1>3

\* With nothing changed, everything is kept.
LEMMA NothingKeeps ==
  ASSUME NEW fs, NEW w, Tidy(fs, w)
  PROVE  Keeps(fs, w, fs, w) /\ KeepsRecords(fs, w, fs, w)
BY EvolvesNot DEF Keeps, KeepsRecords

\* A location holds its record as long as the files evolve.
LEMMA HeldEvolves ==
  ASSUME NEW fs, NEW w, NEW gs, NEW v, Tidy(fs, w), Tidy(gs, v), Evolves(fs, w, gs, v),
         NEW loc, NEW r \in ClientRecords, Held(fs, w, loc, r)
  PROVE  Held(gs, v, loc, r)
<1> DEFINE cs == Contents(fs, w)
           ds == Contents(gs, v)
           e == Encode(r)
<1>1. Typed(cs) /\ DOMAIN cs = DOMAIN fs /\ Typed(ds) /\ DOMAIN ds = DOMAIN gs BY ContentsFact
<1>2. Grown(fs, gs) BY DEF Evolves
<1>3. loc.id \in DOMAIN fs /\ loc.id \in DOMAIN gs /\ loc.offset \in Nat /\ loc.size = Len(e)
  BY <1>2 DEF Held, Grown
<1>4. Len(e) \in Nat BY EncodeFact
<1>5. CASE w.err
  <2>1. gs = fs /\ v.err BY <1>5 DEF Evolves
  <2> QED BY <1>5, <2>1 DEF Held, Contents
<1>6. CASE ~w.err
  <2> DEFINE old == cs[loc.id]
             new == ds[loc.id]
  <2>1. old \in Bytes /\ new \in Bytes BY <1>1, <1>3 DEF Typed
  <2>2. Len(old) \in Nat /\ Len(new) \in Nat BY <2>1, NewLinesFact
  <2>3. /\ loc.offset + Len(e) <= Len(old)
        /\ \A i \in 1..Len(e) : loc.offset + i <= Len(old) => old[loc.offset + i] = e[i]
    BY <1>3, <1>6 DEF Held
  <2>4. /\ \A i \in 1..Len(old) : i <= Len(new) => old[i] = new[i]
        /\ ~v.err => Len(old) <= Len(new)
    <3>1. CASE v.err
      <4>1. Agree(cs, ds) BY <1>6, <3>1 DEF Evolves
      <4> HIDE DEF cs, ds
      <4> QED BY <1>1, <1>3, <3>1, <4>1 DEF Agree
    <3>2. CASE ~v.err
      <4>1. Grown(cs, ds) BY <1>6, <3>2 DEF Evolves
      <4> HIDE DEF cs, ds
      <4>2. Begins(old, new) BY <1>1, <1>3, <4>1 DEF Grown
      <4> QED BY <4>2 DEF Begins
    <3> QED BY <3>1, <3>2
  <2> HIDE DEF old, new, e
  <2>5. \A i \in 1..Len(e) : loc.offset + i \in 1..Len(old) /\ loc.offset + i <= Len(old)
    BY <1>3, <1>4, <2>2, <2>3
  <2>6. \A i \in 1..Len(e) : loc.offset + i <= Len(new) => new[loc.offset + i] = e[i]
    BY <2>3, <2>4, <2>5
  <2>7. ~v.err => loc.offset + Len(e) <= Len(new) BY <1>3, <1>4, <2>2, <2>3, <2>4
  <2> QED BY <1>3, <2>6, <2>7 DEF Held, old, new, e
<1> QED BY <1>5, <1>6

-----------------------------------------------------------------------------
(* What each part of an append keeps. *)

\* What a flush leaves.
LEMMA FlushKeeps ==
  ASSUME NEW fs, NEW w, Tidy(fs, w), NEW o \in FlushOutcomes(fs, w)
  PROVE  /\ Keeps(fs, w, o.files, o.writer) /\ KeepsRecords(fs, w, o.files, o.writer)
         /\ o.writer.id = w.id /\ o.writer.closed = w.closed /\ DOMAIN o.files = DOMAIN fs
         /\ o.writer.err \/ o.writer.buf = <<>>
         /\ o.ok => ~o.writer.err
<1> DEFINE gs == o.files
           v == o.writer
           cs == Contents(fs, w)
<1>1. /\ Typed(fs) /\ w.id \in DOMAIN fs /\ w.buf \in Bytes
      /\ w \in [id : {w.id}, offset : Nat, buf : Bytes, err : BOOLEAN, closed : BOOLEAN]
  BY DEF Tidy, Aligned
<1>2. CASE w.err
  <2>1. o = Outcome(fs, w, FALSE) BY <1>2 DEF FlushOutcomes
  <2>2. gs = fs /\ v = w /\ ~o.ok BY <2>1 DEF Outcome
  <2> QED BY <1>2, <2>2, NothingKeeps
<1>3. CASE ~w.err /\ o \in CutShort(fs, w, w.buf)
  <2>1. <<>> \in Bytes BY DEF Bytes
  <2>2. All(w, <<>>) = w.buf BY <1>1 DEF All, Bytes
  <2>3. Begins(w.buf, All(w, <<>>)) BY <1>1, <2>2, BeginsFact
  <2>4. /\ Keeps(fs, w, gs, v) /\ v.err /\ ~o.ok /\ v.id = w.id /\ v.closed = w.closed
        /\ DOMAIN gs = DOMAIN fs
        /\ Shortened(Both(fs, w, <<>>), gs, w.id)
        /\ Len(gs[w.id]) < Len(Both(fs, w, <<>>)[w.id])
    BY <1>1, <1>3, <2>1, <2>3, CutShortKeeps
  <2>5. KeepsRecords(fs, w, gs, v) BY <1>3, <2>1, <2>4, ShortRecorded
  <2> QED BY <2>4, <2>5
<1>4. CASE ~w.err /\ o \notin CutShort(fs, w, w.buf)
  <2>1. gs = Extended(fs, w.id, w.buf) /\ v = [w EXCEPT !.buf = <<>>]
    BY <1>4 DEF FlushOutcomes, Outcome
  <2>2. v.id = w.id /\ ~v.err /\ v.closed = w.closed /\ v.buf = <<>> BY <1>1, <1>4, <2>1
  <2>3. gs = cs BY <1>4, <2>1 DEF Contents
  <2>4. DOMAIN gs = DOMAIN fs /\ Grown(fs, gs) /\ Typed(gs) BY <2>3, ContentsFact
  <2>5. Aligned(gs, v) BY FlushAligned DEF Tidy
  <2>6. Tidy(gs, v) BY <2>2, <2>4, <2>5 DEF Tidy, Topmost
  <2>7. SameFiles(gs, Contents(gs, v)) BY <2>2, <2>6, ContentsFact
  <2>8. Grown(gs, Contents(gs, v)) BY <2>4, <2>7, SameGrown
  <2>9. Evolves(fs, w, gs, v) BY <1>4, <2>2, <2>3, <2>4, <2>8 DEF Evolves
  <2>10. KeepsRecords(fs, w, gs, v)
    <3>1. w.id \in DOMAIN cs BY <1>1, <2>3, <2>4
    <3> QED BY <1>4, <2>2, <2>3, <2>7, <3>1, SameRecorded
  <2> QED BY <2>2, <2>4, <2>6, <2>9, <2>10 DEF Keeps
<1> QED BY <1>2, <1>3, <1>4

\* What a write leaves, and where the record is.
LEMMA WriteKeeps ==
  ASSUME cfg.BufferSize \in Nat, NEW fs, NEW w, Tidy(fs, w), ~w.closed, NEW r \in ClientRecords,
         NEW o \in WriteOutcomes(fs, w, Encode(r))
  PROVE  /\ Keeps(fs, w, o.files, o.writer)
         /\ ~o.writer.closed /\ DOMAIN o.files = DOMAIN fs
         /\ o.ok => /\ ~o.writer.err
                    /\ AddsRecord(fs, w, o.files, o.writer, r)
                    /\ Held(o.files, o.writer,
                            [id |-> w.id, offset |-> w.offset, size |-> Len(Encode(r))], r)
         /\ ~o.ok => KeepsRecords(fs, w, o.files, o.writer)
<1> DEFINE gs == o.files
           v == o.writer
           cs == Contents(fs, w)
           e == Encode(r)
           all == All(w, e)
           n == SpilledBytes(w.buf, e)
           both == Both(fs, w, e)
<1>1. /\ Typed(fs) /\ w.id \in DOMAIN fs /\ w.buf \in Bytes /\ fs[w.id] \in Bytes
      /\ w \in [id : {w.id}, offset : Nat, buf : Bytes, err : BOOLEAN, closed : BOOLEAN]
      /\ ~w.err => w.offset = Len(fs[w.id]) + Len(w.buf)
  BY DEF Tidy, Aligned, Typed
<1>2. e \in Bytes /\ Len(e) \in Nat BY EncodeFact
<1>3. CASE w.err
  <2>1. o = Outcome(fs, w, FALSE) BY <1>3 DEF WriteOutcomes
  <2>2. gs = fs /\ v = w /\ ~o.ok BY <2>1 DEF Outcome
  <2> QED BY <1>3, <2>2, NothingKeeps
<1>4. n \in 0..Len(all) BY <1>1, <1>2, SpilledFact DEF All
<1>5. all \in Bytes BY <1>1, <1>2, Joined DEF All
<1> DEFINE out == SubSeq(all, 1, n)
           rest == SubSeq(all, n + 1, Len(all))
<1>6. out \in Bytes /\ rest \in Bytes /\ Begins(out, all) /\ out \o rest = all
  <2> HIDE DEF all, n
  <2> QED BY <1>4, <1>5, Divided
<1>7. CASE ~w.err /\ o \in CutShort(fs, w, out)
  <2>1. /\ Keeps(fs, w, gs, v) /\ v.err /\ ~o.ok /\ v.id = w.id /\ v.closed = w.closed
        /\ DOMAIN gs = DOMAIN fs
        /\ Shortened(both, gs, w.id) /\ Len(gs[w.id]) < Len(both[w.id])
    <3> HIDE DEF out, e
    <3>1. Begins(out, All(w, e)) BY <1>6
    <3> QED BY <1>2, <1>6, <1>7, <3>1, CutShortKeeps
  <2>2. KeepsRecords(fs, w, gs, v)
    <3>1. \E q \in ClientRecords : e = Encode(q) OBVIOUS
    <3> HIDE DEF e
    <3> QED BY <1>2, <1>7, <2>1, <3>1, ShortRecorded
  <2> QED BY <2>1, <2>2
<1>8. CASE ~w.err /\ o \notin CutShort(fs, w, out)
  <2>1. gs = Extended(fs, w.id, out) /\ v = [w EXCEPT !.buf = rest, !.offset = @ + Len(e)] /\ o.ok
    BY <1>8 DEF WriteOutcomes, Outcome, All
  <2> HIDE DEF out, rest, all, n, e
  <2>2. v.id = w.id /\ ~v.err /\ ~v.closed /\ v.buf = rest BY <1>1, <1>8, <2>1
  <2>3. Appended(fs, gs, w.id, out) /\ Typed(gs) /\ Grown(fs, gs)
    BY <1>1, <1>6, <2>1, AppendedFact
  <2>4. Aligned(gs, v) BY <1>2, WriteAligned DEF Tidy, e
  <2>5. DOMAIN gs = DOMAIN fs BY <2>3 DEF Appended
  <2>6. Tidy(gs, v) BY <2>2, <2>4, <2>5 DEF Tidy, Topmost
  <2>7. /\ Typed(both) /\ DOMAIN both = DOMAIN fs
        /\ Appended(fs, both, w.id, all) /\ Appended(cs, both, w.id, e) /\ Grown(cs, both)
    BY <1>2, <1>8, BothFact DEF all
  <2>8. Appended(gs, Contents(gs, v), w.id, rest) BY <2>2, <2>6, ContentsFact
  <2>9. SameFiles(both, Contents(gs, v))
    <3> DEFINE f == fs[w.id]
               ds == Contents(gs, v)
    <3>1. f \in Bytes /\ gs[w.id] = f \o out /\ both[w.id] = f \o all
      BY <1>1, <2>3, <2>7 DEF Appended
    <3> HIDE DEF f, ds, both
    <3>2. ds[w.id] = gs[w.id] \o rest BY <2>8 DEF Appended, ds
    <3>3. (f \o out) \o rest = f \o (out \o rest) BY <1>6, <3>1, Associates
    <3>4. ds[w.id] = both[w.id] BY <1>6, <3>1, <3>2, <3>3
    <3>5. \A x \in DOMAIN fs : x # w.id => ds[x] = both[x] BY <2>3, <2>7, <2>8 DEF Appended, ds
    <3>6. DOMAIN ds = DOMAIN both BY <2>5, <2>7, <2>8 DEF Appended, ds
    <3> QED BY <2>7, <3>4, <3>5, <3>6 DEF SameFiles, ds
  <2>10. Grown(cs, Contents(gs, v))
    <3>1. Grown(both, Contents(gs, v)) /\ Typed(Contents(gs, v)) BY <2>7, <2>9, SameGrown
    <3>2. Typed(cs) BY ContentsFact
    <3> QED BY <2>7, <3>1, <3>2, GrownTwice
  <2>11. Evolves(fs, w, gs, v) BY <1>8, <2>2, <2>3, <2>10 DEF Evolves
  <2>12. AddsRecord(fs, w, gs, v, r) BY <1>8, <2>2, <2>9, LongRecorded DEF e
  <2>13. Held(gs, v, [id |-> w.id, offset |-> w.offset, size |-> Len(e)], r)
    <3> DEFINE c == cs[w.id]
               d == Contents(gs, v)[w.id]
    <3>1. c \in Bytes /\ w.offset = Len(c)
      <4>1. Appended(fs, cs, w.id, w.buf) /\ Typed(cs) /\ DOMAIN cs = DOMAIN fs
        BY <1>8, ContentsFact
      <4>2. c = fs[w.id] \o w.buf BY <4>1 DEF Appended
      <4>3. c \in Bytes BY <1>1, <4>1 DEF Typed
      <4> DEFINE f == fs[w.id]
                 b == w.buf
      <4>4. c = f \o b /\ f \in Bytes /\ b \in Bytes /\ w.offset = Len(f) + Len(b)
        BY <1>1, <1>8, <4>2
      <4> HIDE DEF f, b, c
      <4>5. Len(c) = Len(f) + Len(b) BY <4>4, Joined
      <4> QED BY <4>3, <4>4, <4>5
    <3>2. d = c \o e BY <1>1, <2>7, <2>9 DEF SameFiles, Appended
    <3> HIDE DEF c, d
    <3>3. /\ Len(d) = Len(c) + Len(e) /\ \A i \in 1..Len(e) : d[Len(c) + i] = e[i]
      BY <1>2, <3>1, <3>2, Joined
    <3>4. w.offset \in Nat BY <1>1
    <3>5. w.offset + Len(e) <= Len(d) BY <1>2, <3>1, <3>3, <3>4
    <3>6. \A i \in 1..Len(e) : d[w.offset + i] = e[i] BY <3>1, <3>3
    <3> DEFINE loc == [id |-> w.id, offset |-> w.offset, size |-> Len(e)]
    <3>7. loc.id = w.id /\ loc.offset = w.offset /\ loc.size = Len(e) OBVIOUS
    <3> HIDE DEF loc
    <3>8. Held(gs, v, loc, r) BY <1>1, <2>5, <3>4, <3>5, <3>6, <3>7 DEF Held, d, e
    <3> QED BY <3>8 DEF loc
  <2> QED BY <2>1, <2>2, <2>5, <2>6, <2>11, <2>12, <2>13 DEF Keeps, e
<1> QED BY <1>3, <1>7, <1>8

\* What two calls keep, both keep.
LEMMA KeepsTwice ==
  ASSUME NEW fs, NEW w, NEW gs, NEW v, NEW hs, NEW u,
         Tidy(fs, w), Keeps(fs, w, gs, v), Keeps(gs, v, hs, u)
  PROVE  Keeps(fs, w, hs, u)
BY EvolvesTwice DEF Keeps

\* A writer that has nothing left may be closed.
LEMMA ClosedKeeps ==
  ASSUME NEW fs, NEW w, Tidy(fs, w), w.err \/ w.buf = <<>>,
         NEW v, v = [w EXCEPT !.closed = TRUE]
  PROVE  /\ Keeps(fs, w, fs, v) /\ KeepsRecords(fs, w, fs, v)
         /\ v.closed = TRUE /\ v.err = w.err /\ v.buf = w.buf /\ v.id = w.id
<1>1. w \in [id : {w.id}, offset : Nat, buf : Bytes, err : BOOLEAN, closed : BOOLEAN]
  BY DEF Tidy, Aligned
<1>2. /\ v.id = w.id /\ v.err = w.err /\ v.buf = w.buf /\ v.closed = TRUE /\ v.offset = w.offset
      /\ v \in [id : {w.id}, offset : Nat, buf : Bytes, err : BOOLEAN, closed : BOOLEAN]
  BY <1>1
<1>3. Tidy(fs, v) BY <1>2 DEF Tidy, Aligned
<1>4. Contents(fs, v) = Contents(fs, w) BY <1>2 DEF Contents
<1>5. Evolves(fs, w, fs, w) BY EvolvesNot
<1>6. Evolves(fs, w, fs, v) BY <1>2, <1>4, <1>5 DEF Evolves
<1>7. KeepsRecords(fs, w, fs, v) BY <1>2, <1>4 DEF KeepsRecords, Recorded
<1> QED BY <1>2, <1>3, <1>6, <1>7 DEF Keeps

\* What a roll leaves.
LEMMA RollKeeps ==
  ASSUME NEW fs, NEW w, Tidy(fs, w), ~w.closed, NEW o \in RollOutcomes(fs, w)
  PROVE  /\ Keeps(fs, w, o.files, o.writer) /\ KeepsRecords(fs, w, o.files, o.writer)
         /\ o.ok => ~o.writer.closed
<1>1. PICK p \in FlushOutcomes(fs, w) :
        o \in IF ~p.ok
              THEN {p}
              ELSE {Outcome(p.files, [p.writer EXCEPT !.closed = TRUE], FALSE),
                    Outcome(WithFile(p.files, w.id + 1, <<>>), Opened(w.id + 1, <<>>), TRUE)}
  BY DEF RollOutcomes
<1> DEFINE gs == p.files
           v == p.writer
<1>2. /\ Keeps(fs, w, gs, v) /\ KeepsRecords(fs, w, gs, v)
      /\ v.id = w.id /\ v.closed = w.closed
      /\ v.err \/ v.buf = <<>>
      /\ p.ok => ~v.err
  BY FlushKeeps
<1>3. Tidy(gs, v) BY <1>2 DEF Keeps
<1>4. CASE ~p.ok
  <2>1. o = p BY <1>1, <1>4
  <2> QED BY <1>2, <1>4, <2>1
<1>5. CASE p.ok /\ o = Outcome(p.files, [p.writer EXCEPT !.closed = TRUE], FALSE)
  <2>1. o.files = gs /\ o.writer = [v EXCEPT !.closed = TRUE] /\ ~o.ok BY <1>5 DEF Outcome
  <2>2. Keeps(gs, v, gs, o.writer) /\ KeepsRecords(gs, v, gs, o.writer)
    BY <1>2, <1>3, <1>5, <2>1, ClosedKeeps
  <2> HIDE DEF gs, v
  <2>3. Keeps(fs, w, gs, o.writer) BY <1>2, <2>2, KeepsTwice
  <2>4. KeepsRecords(fs, w, gs, o.writer) BY <1>2, <2>2 DEF KeepsRecords
  <2> QED BY <2>1, <2>3, <2>4
<1>6. CASE p.ok /\ o = Outcome(WithFile(p.files, w.id + 1, <<>>), Opened(w.id + 1, <<>>), TRUE)
  <2> DEFINE i == w.id + 1
             hs == WithFile(gs, i, <<>>)
             u == Opened(i, <<>>)
             cs == Contents(gs, v)
             ds == Contents(hs, u)
  <2>1. o.files = hs /\ o.writer = u BY <1>6 DEF Outcome
  <2>2. /\ Typed(gs) /\ DOMAIN gs \subseteq Nat /\ w.id \in DOMAIN gs /\ v.buf = <<>> /\ ~v.err
        /\ \A x \in DOMAIN gs : x <= w.id
    BY <1>2, <1>3, <1>6 DEF Tidy, Aligned, Topmost
  <2>3. i \in Nat /\ i \notin DOMAIN gs /\ w.id \in Nat BY <2>2
  <2>4. <<>> \in Bytes BY DEF Bytes
  <2>5. DOMAIN hs = DOMAIN gs \cup {i} /\ hs[i] = <<>> /\ \A x \in DOMAIN gs : hs[x] = gs[x]
    BY <2>3 DEF WithFile
  <2>6. Typed(hs) /\ Aligned(hs, u)
    <3>1. Typed(hs) BY <2>2, <2>4, WithFileFact
    <3>2. i \in DOMAIN hs BY <2>5
    <3>3. Aligned(hs, Opened(i, hs[i])) BY <3>1, <3>2, OpenedAligned
    <3> QED BY <2>5, <3>1, <3>3
  <2>7. u.id = i /\ ~u.err /\ u.buf = <<>> /\ ~u.closed BY DEF Opened
  <2>8. Topmost(hs, i) /\ DOMAIN hs \subseteq Nat
    <3> HIDE DEF hs
    <3>1. \A x \in DOMAIN gs : x <= i BY <2>2, <2>3
    <3>2. i <= i BY <2>3
    <3> HIDE DEF i
    <3> QED BY <2>2, <2>3, <2>5, <3>1, <3>2 DEF Topmost
  <2>9. Tidy(hs, u)
    <3> HIDE DEF hs, u
    <3> QED BY <2>6, <2>7, <2>8 DEF Tidy
  <2>10. SameFiles(hs, ds) BY <2>7, <2>9, ContentsFact
  <2>11. SameFiles(gs, cs) BY <1>3, <2>2, ContentsFact
  <2> HIDE DEF hs, u, cs, ds, i
  <2>12. Grown(gs, hs)
    <3>1. \A x \in DOMAIN gs : Begins(gs[x], gs[x]) BY <2>2, BeginsFact DEF Typed
    <3> QED BY <2>5, <3>1 DEF Grown
  <2>13. Grown(cs, ds)
    <3>1. Grown(cs, gs) /\ Typed(cs) BY <2>2, <2>11, SameGrown
    <3>2. Grown(hs, ds) /\ Typed(ds) BY <2>6, <2>10, SameGrown
    <3>3. Grown(cs, hs) BY <2>2, <2>6, <2>12, <3>1, GrownTwice
    <3> QED BY <2>6, <3>1, <3>2, <3>3, GrownTwice
  <2>14. Evolves(gs, v, hs, u) BY <2>2, <2>7, <2>12, <2>13 DEF Evolves, cs, ds
  <2>15. KeepsRecords(gs, v, hs, u)
    <3> SUFFICES ASSUME NEW entries \in Seq(Entry), Recorded(gs, v, entries)
                 PROVE  Recorded(hs, u, entries)
      BY DEF KeepsRecords
    <3>1. PICK at : Laid(cs, entries, at) /\ Len(at) = Len(entries) BY <2>2 DEF Recorded, cs
    <3>2. SameFiles(cs, gs) BY <2>11 DEF SameFiles
    <3>3. Laid(gs, entries, at) BY <3>1, <3>2, LaidSame
    <3>4. Laid(hs, entries, at) BY <2>3, <3>3, LaidFile DEF hs
    <3>5. Laid(ds, entries, at) BY <2>10, <3>4, LaidSame
    <3>6. ds[i] = <<>> BY <2>5, <2>10 DEF SameFiles
    <3>7. Whole(ds[u.id]) BY <2>7, <3>6 DEF Whole
    <3> QED BY <2>7, <3>1, <3>5, <3>7 DEF Recorded, ds
  <2>16. Keeps(fs, w, hs, u) BY <1>2, <2>9, <2>14, KeepsTwice DEF Keeps
  <2>17. KeepsRecords(fs, w, hs, u) BY <1>2, <2>15 DEF KeepsRecords
  <2> QED BY <2>1, <2>7, <2>16, <2>17
<1> QED BY <1>1, <1>4, <1>5, <1>6

\* What an append of r does: the record is there or not, and if that is the answer it
\* is at the location, and on the disk if the policy says so.
Takes(fs, w, o, r) ==
  /\ Keeps(fs, w, o.files, o.writer)
  /\ o.taken => AddsRecord(fs, w, o.files, o.writer, r)
  /\ ~o.taken => KeepsRecords(fs, w, o.files, o.writer) /\ ~o.ok
  /\ o.ok => /\ Held(o.files, o.writer, o.loc, r)
             /\ EveryWrite => ~o.writer.err /\ o.writer.buf = <<>>

\* A record that is written, synced or not.
LEMMA RecordTakes ==
  ASSUME cfg.BufferSize \in Nat, NEW fs, NEW w, Tidy(fs, w), ~w.closed, NEW r \in ClientRecords,
         NEW o \in RecordOutcomes(fs, w, Encode(r))
  PROVE  Takes(fs, w, o, r) /\ DOMAIN o.files = DOMAIN fs
<1> DEFINE loc == [id |-> w.id, offset |-> w.offset, size |-> Len(Encode(r))]
<1>1. PICK p \in WriteOutcomes(fs, w, Encode(r)) :
        o \in IF p.ok
              THEN {Taken(q, loc) : q \in SyncOutcomes(p.files, p.writer)}
              ELSE {Refused(p)}
  BY DEF RecordOutcomes
<1> DEFINE gs == p.files
           v == p.writer
<1>2. /\ Keeps(fs, w, gs, v) /\ ~v.closed /\ DOMAIN gs = DOMAIN fs
      /\ p.ok => ~v.err /\ AddsRecord(fs, w, gs, v, r) /\ Held(gs, v, loc, r)
      /\ ~p.ok => KeepsRecords(fs, w, gs, v)
  BY WriteKeeps
<1>3. Tidy(gs, v) BY <1>2 DEF Keeps
<1> HIDE DEF loc
<1>4. CASE p.ok
  <2>1. PICK q \in SyncOutcomes(gs, v) : o = Taken(q, loc) BY <1>1, <1>4
  <2>2. o.files = q.files /\ o.writer = q.writer /\ o.ok = q.ok /\ o.taken = TRUE /\ o.loc = loc
    BY <2>1 DEF Taken
  <2> HIDE DEF gs, v
  <2>3. /\ Keeps(gs, v, q.files, q.writer) /\ KeepsRecords(gs, v, q.files, q.writer)
        /\ DOMAIN q.files = DOMAIN gs
        /\ q.ok /\ EveryWrite => ~q.writer.err /\ q.writer.buf = <<>>
    <3>1. CASE EveryWrite
      <4>1. q \in FlushOutcomes(gs, v) BY <2>1, <3>1 DEF SyncOutcomes
      <4> QED BY <1>3, <4>1, FlushKeeps
    <3>2. CASE ~EveryWrite
      <4>1. q.files = gs /\ q.writer = v /\ q.ok = TRUE BY <2>1, <3>2 DEF SyncOutcomes, Outcome
      <4> QED BY <1>3, <3>2, <4>1, NothingKeeps
    <3> QED BY <3>1, <3>2
  <2>4. Keeps(fs, w, q.files, q.writer) BY <1>2, <2>3, KeepsTwice DEF gs, v
  <2>5. AddsRecord(fs, w, q.files, q.writer, r)
    <3> SUFFICES ASSUME NEW entries \in Seq(Entry), NEW entry \in Entry, entry.rec = r,
                        Recorded(fs, w, entries)
                 PROVE  Recorded(q.files, q.writer, Append(entries, entry))
      BY DEF AddsRecord
    <3>1. Append(entries, entry) \in Seq(Entry)
      <4> DEFINE S == Entry
      <4>1. entries \in Seq(S) /\ entry \in S OBVIOUS
      <4> HIDE DEF S
      <4>2. Append(entries, entry) \in Seq(S) BY <4>1
      <4> QED BY <4>2 DEF S
    <3>2. Recorded(gs, v, Append(entries, entry)) BY <1>2, <1>4 DEF AddsRecord, gs, v
    <3> QED BY <2>3, <3>1, <3>2 DEF KeepsRecords
  <2>6. Held(q.files, q.writer, loc, r)
    <3>1. Held(gs, v, loc, r) BY <1>2, <1>4 DEF gs, v
    <3> QED BY <1>3, <2>3, <3>1, HeldEvolves DEF Keeps
  <2> QED BY <1>2, <2>2, <2>3, <2>4, <2>5, <2>6 DEF Takes, gs
<1>5. CASE ~p.ok
  <2>1. o = Refused(p) BY <1>1, <1>5
  <2>2. o.files = gs /\ o.writer = v /\ o.ok = FALSE /\ o.taken = FALSE BY <2>1 DEF Refused
  <2> QED BY <1>2, <1>5, <2>2 DEF Takes
<1> QED BY <1>4, <1>5

\* What an append leaves.
LEMMA AppendTakes ==
  ASSUME cfg.BufferSize \in Nat, NEW fs, NEW w, Tidy(fs, w), NEW r \in ClientRecords,
         NEW o \in AppendOutcomes(fs, w, Encode(r))
  PROVE  Takes(fs, w, o, r) /\ (Simple => DOMAIN o.files = DOMAIN fs)
<1>1. CASE w.closed
  <2>1. o = Refused(Outcome(fs, w, FALSE)) BY <1>1 DEF AppendOutcomes
  <2>2. o.files = fs /\ o.writer = w /\ o.ok = FALSE /\ o.taken = FALSE
    BY <2>1 DEF Refused, Outcome
  <2> QED BY <2>2, NothingKeeps DEF Takes
<1>2. CASE ~w.closed /\ NeedsRoll(w, Encode(r))
  <2>1. PICK p \in RollOutcomes(fs, w) :
          o \in IF p.ok THEN RecordOutcomes(p.files, p.writer, Encode(r)) ELSE {Refused(p)}
    BY <1>2 DEF AppendOutcomes
  <2> DEFINE gs == p.files
             v == p.writer
  <2>2. /\ Keeps(fs, w, gs, v) /\ KeepsRecords(fs, w, gs, v)
        /\ p.ok => ~v.closed
    BY <1>2, RollKeeps
  <2>3. Tidy(gs, v) BY <2>2 DEF Keeps
  <2>4. ~Simple BY <1>2 DEF NeedsRoll
  <2>5. CASE p.ok
    <3>1. o \in RecordOutcomes(gs, v, Encode(r)) BY <2>1, <2>5
    <3> HIDE DEF gs, v
    <3>2. Takes(gs, v, o, r) BY <2>2, <2>3, <2>5, <3>1, RecordTakes DEF gs, v
    <3>3. Keeps(fs, w, o.files, o.writer) BY <2>2, <3>2, KeepsTwice DEF Takes, gs, v
    <3>4. o.taken => AddsRecord(fs, w, o.files, o.writer, r)
      BY <2>2, <3>2 DEF Takes, KeepsRecords, AddsRecord, gs, v
    <3>5. ~o.taken => KeepsRecords(fs, w, o.files, o.writer)
      BY <2>2, <3>2 DEF Takes, KeepsRecords, gs, v
    <3> QED BY <2>4, <3>2, <3>3, <3>4, <3>5 DEF Takes
  <2>6. CASE ~p.ok
    <3>1. o = Refused(p) BY <2>1, <2>6
    <3>2. o.files = gs /\ o.writer = v /\ o.ok = FALSE /\ o.taken = FALSE BY <3>1 DEF Refused
    <3> QED BY <2>2, <2>4, <3>2 DEF Takes
  <2> QED BY <2>5, <2>6
<1>3. CASE ~w.closed /\ ~NeedsRoll(w, Encode(r))
  <2>1. o \in RecordOutcomes(fs, w, Encode(r)) BY <1>3 DEF AppendOutcomes
  <2> QED BY <1>3, <2>1, RecordTakes
<1> QED BY <1>1, <1>2, <1>3

\* What Close leaves: nothing, unless a write fails.
LEMMA CloseKeeps ==
  ASSUME NEW fs, NEW w, Tidy(fs, w), NEW o \in CloseOutcomes(fs, w)
  PROVE  /\ Keeps(fs, w, o.files, o.writer) /\ KeepsRecords(fs, w, o.files, o.writer)
         /\ o.writer.closed \/ o.writer.err
         /\ DOMAIN o.files = DOMAIN fs
<1>1. CASE w.closed
  <2>1. o.files = fs /\ o.writer = w BY <1>1 DEF CloseOutcomes, Outcome
  <2> QED BY <1>1, <2>1, NothingKeeps
<1>2. CASE ~w.closed
  <2>1. PICK p \in FlushOutcomes(fs, w) : o = [p EXCEPT !.writer.closed = TRUE]
    BY <1>2 DEF CloseOutcomes
  <2> DEFINE gs == p.files
             v == p.writer
  <2>2. o.files = gs /\ o.writer = [v EXCEPT !.closed = TRUE]
    <3>1. DOMAIN p = {"files", "writer", "ok"}
      BY <1>2 DEF FlushOutcomes, CutShort, Outcome
    <3> QED BY <2>1, <3>1
  <2>3. /\ Keeps(fs, w, gs, v) /\ KeepsRecords(fs, w, gs, v) /\ DOMAIN gs = DOMAIN fs
        /\ v.err \/ v.buf = <<>>
    BY FlushKeeps
  <2> HIDE DEF gs, v
  <2>4. Keeps(gs, v, gs, o.writer) /\ KeepsRecords(gs, v, gs, o.writer) /\ o.writer.closed = TRUE
    BY <2>2, <2>3, ClosedKeeps DEF Keeps
  <2>5. Keeps(fs, w, gs, o.writer) BY <2>3, <2>4, KeepsTwice
  <2>6. KeepsRecords(fs, w, gs, o.writer) BY <2>3, <2>4 DEF KeepsRecords
  <2> QED BY <2>2, <2>3, <2>4, <2>5, <2>6
<1> QED BY <1>1, <1>2

\* Files have finitely many lines.
LEMMA FiniteLines ==
  ASSUME NEW fs, Typed(fs), NEW b \in Nat, DOMAIN fs \subseteq 0..b
  PROVE  IsFiniteSet(WholeLinesOf(fs)) /\ Cardinality(WholeLinesOf(fs)) \in Nat
<1> DEFINE S == DOMAIN fs
           f == [i \in S |-> {i} \X NewLines(fs[i])]
           T == {{i} \X NewLines(fs[i]) : i \in S}
<1>1. IsFiniteSet(S)
  <2>1. IsFiniteSet(0..b) BY FS_Interval
  <2> QED BY <2>1, FS_Subset
<1>2. IsFiniteSet(T)
  <2>1. f \in [S -> T] /\ \A t \in T : \E s \in S : f[s] = t OBVIOUS
  <2> HIDE DEF f
  <2>2. f \in Surjection(S, T) BY <2>1 DEF Surjection
  <2> HIDE DEF S, T
  <2>3. IsFiniteSet(T) BY <1>1, <2>2, FS_Surjection
  <2> QED BY <2>3
<1>3. \A t \in T : IsFiniteSet(t)
  <2> SUFFICES ASSUME NEW i \in S PROVE IsFiniteSet({i} \X NewLines(fs[i])) OBVIOUS
  <2>1. IsFiniteSet(NewLines(fs[i])) BY NewLinesFact DEF Typed
  <2>2. IsFiniteSet({i}) BY FS_Singleton
  <2> QED BY <2>1, <2>2, FS_Product
<1>4. WholeLinesOf(fs) = UNION T BY DEF WholeLinesOf
<1> HIDE DEF T
<1>5. IsFiniteSet(WholeLinesOf(fs)) BY <1>2, <1>3, <1>4, FS_UNION
<1> QED BY <1>5, FS_CardinalityType

\* Files that grow lose no line.
LEMMA LinesGrow ==
  ASSUME NEW fs, NEW gs, Typed(fs), Typed(gs), Grown(fs, gs),
         NEW b \in Nat, DOMAIN gs \subseteq 0..b
  PROVE  Cardinality(WholeLinesOf(fs)) <= Cardinality(WholeLinesOf(gs))
<1>1. IsFiniteSet(WholeLinesOf(gs)) BY FiniteLines
<1>2. ASSUME NEW i \in DOMAIN fs PROVE i \in DOMAIN gs /\ NewLines(fs[i]) \subseteq NewLines(gs[i])
  <2>1. i \in DOMAIN gs /\ Begins(fs[i], gs[i]) BY DEF Grown
  <2>2. fs[i] \in Bytes /\ gs[i] \in Bytes BY <2>1 DEF Typed
  <2>3. Len(fs[i]) \in Nat /\ Len(gs[i]) \in Nat BY <2>2, NewLinesFact
  <2>4. ASSUME NEW p \in NewLines(fs[i]) PROVE p \in NewLines(gs[i])
    <3>1. p \in 1..Len(fs[i]) /\ fs[i][p] = NewLine BY <2>2, NewLinesFact
    <3>2. p \in 1..Len(gs[i]) /\ gs[i][p] = NewLine BY <2>1, <2>3, <3>1 DEF Begins
    <3> QED BY <2>2, <3>2, NewLinesFact
  <2> QED BY <2>1, <2>4
<1>3. WholeLinesOf(fs) \subseteq WholeLinesOf(gs) BY <1>2 DEF WholeLinesOf
<1> QED BY <1>1, <1>3, FS_Subset

\* Files are numbered up to some number.
Bounded(fs) == \E b \in Nat : DOMAIN fs \subseteq 0..b

\* What holds in every state, damaged or not.
Base ==
  /\ IInv
  /\ log \in Seq(Entry)
  /\ Bounded(files)
  /\ Simple => DOMAIN files \subseteq {0}
  /\ status \in Opening => Tidy(files, writer)
  /\ status = "closed" => writer.closed \/ writer.err
  /\ cfg.MaxRecordSize \in Nat

\* Entries that are on the disk for good.
Durable(fs, entries) ==
  \A j \in 1..Len(entries) :
    entries[j].survived \/ entries[j].synced => j <= Cardinality(WholeLinesOf(fs))

\* What holds until a start has found a damaged file.
Core ==
  ~damaged =>
    /\ IF status \in Opening THEN Recorded(files, writer, log) ELSE \E at : Laid(files, log, at)
    /\ Durable(files, log)

\* A writer's files.
LEMMA TidyBounded ==
  ASSUME NEW fs, NEW w, Tidy(fs, w)
  PROVE  Bounded(fs)
<1>1. w.id \in Nat /\ \A x \in DOMAIN fs : x \in Nat /\ x <= w.id BY DEF Tidy, Topmost
<1>2. DOMAIN fs \subseteq 0..w.id BY <1>1
<1> QED BY <1>1, <1>2 DEF Bounded

\* What is in the files while some is in the buffer are the first entries.
LEMMA FilesLaid ==
  ASSUME NEW fs, NEW w, Tidy(fs, w), NEW entries, Recorded(fs, w, entries)
  PROVE  \E at : Laid(fs, entries, at)
<1>1. CASE w.err BY <1>1 DEF Recorded
<1>2. CASE ~w.err
  <2> DEFINE cs == Contents(fs, w)
  <2>1. PICK at : Laid(cs, entries, at) BY <1>2 DEF Recorded
  <2>2. /\ Typed(fs) /\ DOMAIN cs = DOMAIN fs /\ Grown(fs, cs) /\ Appended(fs, cs, w.id, w.buf)
    BY <1>2, ContentsFact
  <2>3. Topmost(fs, w.id) BY DEF Tidy
  <2> HIDE DEF cs
  <2>4. Topmost(cs, w.id) BY <2>2, <2>3 DEF Topmost
  <2>5. Shortened(cs, fs, w.id)
    <3>1. w.id \in DOMAIN fs BY <2>3 DEF Topmost
    <3> QED BY <2>2, <3>1 DEF Shortened, Grown, Appended, Typed
  <2> QED BY <2>1, <2>4, <2>5, LaidShortened
<1> QED BY <1>1, <1>2

\* With an empty buffer they are all of them.
LEMMA AllLaid ==
  ASSUME NEW fs, NEW w, Tidy(fs, w), ~w.err, w.buf = <<>>, NEW entries, Recorded(fs, w, entries)
  PROVE  \E at : Laid(fs, entries, at) /\ Len(at) = Len(entries)
<1>1. PICK at : Laid(Contents(fs, w), entries, at) /\ Len(at) = Len(entries) BY DEF Recorded
<1>2. SameFiles(Contents(fs, w), fs) BY ContentsFact DEF SameFiles
<1> QED BY <1>1, <1>2, LaidSame

\* What is durable stays so.
LEMMA DurableGrows ==
  ASSUME NEW fs, NEW gs, Typed(fs), Typed(gs), Bounded(fs), Bounded(gs), Grown(fs, gs),
         NEW entries, Len(entries) \in Nat, Durable(fs, entries)
  PROVE  Durable(gs, entries)
<1> DEFINE m == Cardinality(WholeLinesOf(fs))
           n == Cardinality(WholeLinesOf(gs))
<1>1. m \in Nat /\ n \in Nat /\ m <= n BY FiniteLines, LinesGrow DEF Bounded
<1> HIDE DEF m, n
<1>2. \A j \in 1..Len(entries) : j <= m => j <= n BY <1>1
<1> QED BY <1>2 DEF Durable, m, n

-----------------------------------------------------------------------------
(* Requests. *)

\* The entry a request adds to the log.
NewEntry(r, o) ==
  [rec |-> r, answer |-> Answer(r.op, o.ok), synced |-> o.ok /\ EveryWrite, survived |-> FALSE]

\* Its type.
LEMMA EntryTyped ==
  ASSUME NEW r \in ClientRecords, NEW o
  PROVE  NewEntry(r, o) \in Entry /\ NewEntry(r, o).rec = r
<1>1. Answer(r.op, o.ok) \in {201, 204, 400, 500} BY DEF Answer
<1> QED BY <1>1 DEF NewEntry, Entry

\* What a request makes of files, writer and log.
LEMMA RequestFact ==
  ASSUME Base, status = "running",
         NEW r \in ClientRecords, NEW o \in AppendOutcomes(files, writer, Encode(r)),
         Appending(r, o)
  PROVE  /\ Takes(files, writer, o, r) /\ (Simple => DOMAIN o.files = DOMAIN files)
         /\ files' = o.files /\ writer' = o.writer
         /\ log' = IF o.taken THEN Append(log, NewEntry(r, o)) ELSE log
         /\ UNCHANGED <<cfg, status, damaged>>
<1>1. cfg.BufferSize \in Nat BY SizeAssumption DEF Base, IInv
<1>2. Tidy(files, writer) BY DEF Base, Opening
<1>3. Takes(files, writer, o, r) /\ (Simple => DOMAIN o.files = DOMAIN files)
  BY <1>1, <1>2, AppendTakes
<1> QED BY <1>3 DEF Appending, NewEntry

\* A request keeps the first part of the invariant.
LEMMA RequestBase ==
  ASSUME Base, status = "running",
         NEW r \in ClientRecords, NEW o \in AppendOutcomes(files, writer, Encode(r)),
         Appending(r, o)
  PROVE  Base'
<1>1. /\ Takes(files, writer, o, r) /\ (Simple => DOMAIN o.files = DOMAIN files)
      /\ files' = o.files /\ writer' = o.writer
      /\ log' = IF o.taken THEN Append(log, NewEntry(r, o)) ELSE log
      /\ UNCHANGED <<cfg, status, damaged>>
  BY RequestFact
<1>2. IInv' BY RequestStep DEF Base
<1>3. Tidy(o.files, o.writer) BY <1>1 DEF Takes, Keeps
<1>4. Tidy(files, writer)' BY <1>1, <1>3 DEF Tidy, Aligned, Typed, Topmost
<1>5. Bounded(o.files) BY <1>3, TidyBounded
<1>6. Bounded(files)' BY <1>1, <1>5 DEF Bounded
<1>7. log' \in Seq(Entry)
  <2> DEFINE S == Entry
             x == NewEntry(r, o)
  <2>1. x \in S /\ log \in Seq(S) BY EntryTyped DEF Base
  <2> HIDE DEF S, x
  <2>2. Append(log, x) \in Seq(S) BY <2>1
  <2>3. log' \in Seq(S) BY <1>1, <2>1, <2>2 DEF x
  <2> QED BY <2>3 DEF S
<1>8. (Simple => DOMAIN files \subseteq {0})' BY <1>1 DEF Base, Simple
<1> QED BY <1>1, <1>2, <1>4, <1>6, <1>7, <1>8 DEF Base

\* It keeps the second part.
LEMMA RequestCore ==
  ASSUME Base, Core, status = "running",
         NEW r \in ClientRecords, NEW o \in AppendOutcomes(files, writer, Encode(r)),
         Appending(r, o)
  PROVE  Core'
<1>1. /\ Takes(files, writer, o, r)
      /\ files' = o.files /\ writer' = o.writer
      /\ log' = IF o.taken THEN Append(log, NewEntry(r, o)) ELSE log
      /\ UNCHANGED <<cfg, status, damaged>>
  BY RequestFact
<1> SUFFICES ASSUME ~damaged PROVE Recorded(files, writer, log)' /\ Durable(files, log)'
  BY <1>1 DEF Core, Opening
<1>2. Recorded(files, writer, log) /\ Durable(files, log) BY DEF Core, Opening
<1> DEFINE gs == o.files
           v == o.writer
           x == NewEntry(r, o)
           longer == IF o.taken THEN Append(log, x) ELSE log
<1>3. log \in Seq(Entry) /\ Len(log) \in Nat /\ Tidy(files, writer) BY DEF Base, Opening
<1>4. x \in Entry /\ x.rec = r BY EntryTyped
<1>5. Recorded(gs, v, longer)
  <2>1. CASE o.taken
    <3>1. AddsRecord(files, writer, gs, v, r) BY <1>1, <2>1 DEF Takes
    <3> HIDE DEF x
    <3>2. Recorded(gs, v, Append(log, x)) BY <1>2, <1>3, <1>4, <3>1 DEF AddsRecord
    <3> QED BY <2>1, <3>2
  <2>2. CASE ~o.taken
    <3>1. KeepsRecords(files, writer, gs, v) BY <1>1, <2>2 DEF Takes
    <3>2. Recorded(gs, v, log) BY <1>2, <1>3, <3>1 DEF KeepsRecords
    <3> QED BY <2>2, <3>2
  <2> QED BY <2>1, <2>2
<1>6. Tidy(gs, v) /\ Grown(files, gs) BY <1>1 DEF Takes, Keeps, Evolves
<1>7. Typed(files) /\ Typed(gs) /\ Bounded(files) /\ Bounded(gs)
  BY <1>3, <1>6, TidyBounded DEF Tidy, Aligned
<1>8. Durable(gs, log) BY <1>2, <1>3, <1>6, <1>7, DurableGrows
<1>9. Durable(gs, longer)
  <2>1. CASE ~o.taken BY <1>8, <2>1
  <2>2. CASE o.taken
    <3>1. /\ longer = Append(log, x) /\ Len(longer) = Len(log) + 1
          /\ \A j \in 1..Len(log) : longer[j] = log[j]
          /\ longer[Len(log) + 1] = x
      BY <1>3, <2>2
    <3>2. x.synced = (o.ok /\ EveryWrite) /\ x.survived = FALSE BY DEF NewEntry
    <3> HIDE DEF longer, x, gs, v
    <3>3. ASSUME o.ok, EveryWrite PROVE Len(log) + 1 <= Cardinality(WholeLinesOf(gs))
      <4>1. ~v.err /\ v.buf = <<>> BY <1>1, <3>3 DEF Takes, gs, v
      <4>2. PICK at : Laid(gs, longer, at) /\ Len(at) = Len(longer) BY <1>5, <1>6, <4>1, AllLaid
      <4>3. Cardinality(WholeLinesOf(gs)) = Len(log) + 1 BY <3>1, <4>2, LaidCount
      <4> QED BY <1>3, <4>3
    <3>4. \A j \in 1..Len(longer) : j \in 1..Len(log) \/ j = Len(log) + 1 BY <1>3, <3>1
    <3> QED BY <1>8, <3>1, <3>2, <3>3, <3>4 DEF Durable
  <2> QED BY <2>1, <2>2
<1>10. log' = longer /\ files' = gs /\ writer' = v BY <1>1
<1> HIDE DEF longer, gs, v
<1>11. Recorded(files, writer, log)'
  BY <1>5, <1>10 DEF Recorded, Contents, Extended, Laid, Placed, AllPlaced, Ascending, Typed, Whole
<1>12. Durable(files, log)' BY <1>9, <1>10 DEF Durable, WholeLinesOf
<1> QED BY <1>11, <1>12

\* What Close makes of files and writer.
LEMMA CloseFact ==
  ASSUME Base, Close
  PROVE  \E o \in CloseOutcomes(files, writer) :
           /\ files' = o.files /\ writer' = o.writer
           /\ Keeps(files, writer, o.files, o.writer)
           /\ KeepsRecords(files, writer, o.files, o.writer)
           /\ o.writer.closed \/ o.writer.err
           /\ DOMAIN o.files = DOMAIN files
<1>1. Tidy(files, writer) BY DEF Base, Close, Opening
<1>2. PICK o \in CloseOutcomes(files, writer) : files' = o.files /\ writer' = o.writer
  BY DEF Close
<1> QED BY <1>1, <1>2, CloseKeeps

\* Close keeps the first part.
LEMMA CloseBase ==
  ASSUME Base, Close
  PROVE  Base'
<1>1. PICK o \in CloseOutcomes(files, writer) :
           /\ files' = o.files /\ writer' = o.writer
           /\ Keeps(files, writer, o.files, o.writer)
           /\ o.writer.closed \/ o.writer.err
           /\ DOMAIN o.files = DOMAIN files
  BY CloseFact
<1>2. UNCHANGED <<cfg, log>> /\ status' = "closed" BY DEF Close
<1>3. IInv' BY CloseStep DEF Base
<1>4. Tidy(files, writer)' BY <1>1 DEF Keeps, Tidy, Aligned, Typed, Topmost
<1>5. Bounded(files)' BY <1>1 DEF Base, Bounded
<1> QED BY <1>1, <1>2, <1>3, <1>4, <1>5 DEF Base, Simple

\* Equal files and writers hold the same.
LEMMA SameLaid ==
  ASSUME NEW gs, NEW v, NEW entries, files' = gs, writer' = v, log' = entries
  PROVE  /\ Recorded(gs, v, entries) => Recorded(files, writer, log)'
         /\ Durable(gs, entries) => Durable(files, log)'
         /\ (\E at : Laid(gs, entries, at)) => (\E at : Laid(files, log, at))'
<1>1. Recorded(gs, v, entries) => Recorded(files, writer, log)'
  BY DEF Recorded, Contents, Extended, Laid, Placed, AllPlaced, Ascending, Typed, Whole
<1>2. Durable(gs, entries) => Durable(files, log)' BY DEF Durable, WholeLinesOf
<1>3. (\E at : Laid(gs, entries, at)) => (\E at : Laid(files, log, at))'
  BY DEF Laid, Placed, AllPlaced, Ascending, Typed
<1> QED BY <1>1, <1>2, <1>3

\* It keeps the second part: what is left in the buffer is written.
LEMMA CloseCore ==
  ASSUME Base, Core, Close
  PROVE  Core'
<1>1. PICK o \in CloseOutcomes(files, writer) :
           /\ files' = o.files /\ writer' = o.writer
           /\ Keeps(files, writer, o.files, o.writer)
           /\ KeepsRecords(files, writer, o.files, o.writer)
  BY CloseFact
<1>2. UNCHANGED <<log, damaged>> /\ status' = "closed" /\ status = "running" BY DEF Close
<1> SUFFICES ASSUME ~damaged PROVE Recorded(files, writer, log)' /\ Durable(files, log)'
  BY <1>2 DEF Core, Opening
<1>3. Recorded(files, writer, log) /\ Durable(files, log) BY <1>2 DEF Core, Opening
<1>4. log \in Seq(Entry) /\ Len(log) \in Nat /\ Tidy(files, writer) BY <1>2 DEF Base, Opening
<1>5. Recorded(o.files, o.writer, log) BY <1>1, <1>3, <1>4 DEF KeepsRecords
<1>6. Tidy(o.files, o.writer) /\ Grown(files, o.files) BY <1>1 DEF Keeps, Evolves
<1>7. Durable(o.files, log) BY <1>3, <1>4, <1>6, TidyBounded, DurableGrows DEF Tidy, Aligned
<1> QED BY <1>1, <1>2, <1>5, <1>7, SameLaid

\* The end of a process keeps the first part.
LEMMA ExitBase ==
  ASSUME Base, Exit
  PROVE  Base'
<1>1. IInv' BY DEF Base, Exit, IInv, Opening, Typed
<1> QED BY <1>1 DEF Base, Exit, Opening, Simple, Bounded

\* It keeps the second part: what is in the files are the first records.
LEMMA ExitCore ==
  ASSUME Base, Core, Exit
  PROVE  Core'
<1>1. /\ status \in Opening /\ status' = "stopped" /\ UNCHANGED <<files, log, damaged>>
  BY DEF Exit, Opening
<1> SUFFICES ASSUME ~damaged PROVE (\E at : Laid(files, log, at))' /\ Durable(files, log)'
  BY <1>1 DEF Core, Opening
<1>2. Recorded(files, writer, log) /\ Durable(files, log) BY <1>1 DEF Core
<1>3. Tidy(files, writer) BY <1>1 DEF Base
<1>4. \E at : Laid(files, log, at) BY <1>2, <1>3, FilesLaid
<1> QED BY <1>1, <1>2, <1>4, SameLaid

-----------------------------------------------------------------------------
(* Starts. *)

\* The files a start opens.
StartFiles(c) ==
  LET i == LastId(c, files)
  IN  IF i \in DOMAIN files THEN files ELSE WithFile(files, i, <<>>)

\* Numbers up to a bound have a greatest one.
LEMMA MaxFact ==
  ASSUME NEW S \in SUBSET Nat, S # {}, NEW b \in Nat, S \subseteq 0..b
  PROVE  Max(S) \in S /\ \A x \in S : x <= Max(S)
<1>1. \A x \in S : x <= b OBVIOUS
<1>2. PICK m \in S : \A x \in S : x <= m BY <1>1, GreatestElement
<1>3. \A x \in S : m >= x BY <1>2
<1>4. Max(S) \in S /\ \A x \in S : Max(S) >= x BY <1>3 DEF Max
<1>5. Max(S) \in Nat BY <1>4
<1> QED BY <1>4, <1>5

\* The writer's file is the topmost one.
LEMMA StartFilesFact ==
  ASSUME Base, NEW env \in Environments,
         DOMAIN files # {} => Load(env).StorageFormat = cfg.StorageFormat
  PROVE  LET c == Load(env)
             i == LastId(c, files)
             fs == StartFiles(c)
         IN  /\ Tidy(fs, Opened(i, fs[i])) /\ Bounded(fs)
             /\ c.StorageFormat = "simple" => DOMAIN fs \subseteq {0} /\ DOMAIN files \subseteq {0}
             /\ Grown(files, fs)
             /\ \A entries, at : Laid(files, entries, at) => Laid(fs, entries, at)
<1> DEFINE c == Load(env)
           i == LastId(c, files)
           fs == StartFiles(c)
<1>1. PICK b \in Nat : DOMAIN files \subseteq 0..b BY DEF Base, Bounded
<1>2. DOMAIN files \in SUBSET Nat BY <1>1
<1>3. Typed(files) BY DEF Base, IInv
<1>4. c.StorageFormat = "simple" => DOMAIN files \subseteq {0} BY DEF Base, Simple
<1>5. i \in Nat /\ \A x \in DOMAIN files : x <= i
  <2>1. CASE c.StorageFormat = "simple"
    <3>1. i = 0 BY <2>1 DEF LastId
    <3> HIDE DEF i
    <3> QED BY <1>4, <2>1, <3>1
  <2>2. CASE c.StorageFormat # "simple" /\ DOMAIN files = {} BY <2>2 DEF LastId
  <2>3. CASE c.StorageFormat # "simple" /\ DOMAIN files # {}
    <3>1. i = Max(DOMAIN files) BY <2>3 DEF LastId
    <3>2. Max(DOMAIN files) \in DOMAIN files /\ \A x \in DOMAIN files : x <= Max(DOMAIN files)
      BY <1>1, <1>2, <2>3, MaxFact
    <3> HIDE DEF i
    <3> QED BY <1>2, <3>1, <3>2
  <2> QED BY <2>1, <2>2, <2>3
<1>6. fs = IF i \in DOMAIN files THEN files ELSE WithFile(files, i, <<>>) BY DEF StartFiles
<1>7. c.StorageFormat = "simple" => i = 0 BY DEF LastId
<1> HIDE DEF i, fs, c
<1>8. /\ Typed(fs) /\ i \in DOMAIN fs /\ DOMAIN fs = DOMAIN files \cup {i}
      /\ \A x \in DOMAIN files : fs[x] = files[x]
  <2>1. <<>> \in Bytes BY DEF Bytes
  <2>2. CASE i \in DOMAIN files BY <1>3, <1>6, <2>2
  <2>3. CASE i \notin DOMAIN files
    <3>1. fs = WithFile(files, i, <<>>) BY <1>6, <2>3
    <3>2. Typed(fs) BY <1>3, <2>1, <3>1, WithFileFact
    <3> QED BY <2>3, <3>1, <3>2 DEF WithFile
  <2> QED BY <2>2, <2>3
<1>9. Topmost(fs, i) /\ DOMAIN fs \subseteq Nat
  <2>1. i <= i BY <1>5
  <2> QED BY <1>2, <1>5, <1>8, <2>1 DEF Topmost
<1>10. Aligned(fs, Opened(i, fs[i])) BY <1>8, OpenedAligned
<1>11. Tidy(fs, Opened(i, fs[i])) BY <1>9, <1>10 DEF Tidy, Opened
<1>12. Bounded(fs) BY <1>11, TidyBounded
<1>13. Grown(files, fs)
  <2>1. \A x \in DOMAIN files : Begins(files[x], files[x]) BY <1>3, BeginsFact DEF Typed
  <2> QED BY <1>8, <2>1 DEF Grown
<1>14. \A entries, at : Laid(files, entries, at) => Laid(fs, entries, at)
  <2>1. CASE i \in DOMAIN files BY <1>6, <2>1
  <2>2. CASE i \notin DOMAIN files
    <3>1. fs = WithFile(files, i, <<>>) BY <1>6, <2>2
    <3> QED BY <1>5, <2>2, <3>1, LaidFile
  <2> QED BY <2>1, <2>2
<1>15. c.StorageFormat = "simple" => DOMAIN fs \subseteq {0} /\ DOMAIN files \subseteq {0}
  BY <1>4, <1>7, <1>8
<1> QED BY <1>11, <1>12, <1>13, <1>14, <1>15 DEF i, fs, c

\* Without a line that is too long, a start reads every line.
LEMMA AllDelivered ==
  ASSUME NEW c, NEW fs, \A x \in DOMAIN fs : ~ScanErrs(fs[x], Limit(c))
  PROVE  /\ WholeLines(c, fs) = WholeLinesOf(fs)
         /\ \A x \in DOMAIN fs : Delivered(fs[x], Limit(c)) = LineEnds(fs[x])
<1>1. ASSUME NEW x \in DOMAIN fs PROVE Delivered(fs[x], Limit(c)) = LineEnds(fs[x])
  BY DEF ScanErrs, Delivered
<1>2. \A x : NewLines(fs[x]) \subseteq LineEnds(fs[x]) BY DEF LineEnds
<1>3. \A x \in DOMAIN fs : NewLines(fs[x]) \cap Delivered(fs[x], Limit(c)) = NewLines(fs[x])
  BY <1>1, <1>2
<1>4. WholeLines(c, fs) = WholeLinesOf(fs) BY <1>3 DEF WholeLines, WholeLinesOf
<1> QED BY <1>1, <1>4

\* An entry that has survived is an entry.
LEMMA SurvivedFact ==
  ASSUME NEW x \in Entry
  PROVE  [x EXCEPT !.survived = TRUE] \in Entry /\ [x EXCEPT !.survived = TRUE].rec = x.rec
<1> DEFINE y == [x EXCEPT !.survived = TRUE]
<1>1. /\ DOMAIN x = {"rec", "answer", "synced", "survived"}
      /\ x.rec \in ClientRecords /\ x.answer \in {201, 204, 400, 500}
      /\ x.synced \in BOOLEAN
  BY DEF Entry
<1>2. DOMAIN y = DOMAIN x /\ y = [f \in DOMAIN x |-> y[f]] OBVIOUS
<1>3. y.rec = x.rec /\ y.answer = x.answer /\ y.synced = x.synced /\ y.survived = TRUE BY <1>1
<1>6. y.survived \in BOOLEAN BY <1>3
<1> HIDE DEF y
<1>4. y = [rec |-> y.rec, answer |-> y.answer, synced |-> y.synced, survived |-> y.survived]
  BY <1>1, <1>2
<1>5. y \in Entry
  <2>1. y.rec \in ClientRecords BY <1>1, <1>3
  <2>2. y.answer \in {201, 204, 400, 500} BY <1>1, <1>3
  <2>3. y.synced \in BOOLEAN BY <1>1, <1>3
  <2> QED BY <1>4, <1>6, <2>1, <2>2, <2>3 DEF Entry
<1> QED BY <1>3, <1>5 DEF y

\* A start keeps so many records as there are whole lines it reads.
LEMMA KeptFact ==
  ASSUME Base, NEW c, NEW fs, Typed(fs), Bounded(fs)
  PROVE  /\ Kept(c, fs) \in Seq(Entry)
         /\ Len(Kept(c, fs)) \in Nat /\ Len(Kept(c, fs)) <= Len(log)
         /\ Len(Kept(c, fs)) <= Cardinality(WholeLines(c, fs))
         /\ Cardinality(WholeLines(c, fs)) \in Nat
         /\ Cardinality(WholeLines(c, fs)) <= Len(log) =>
              Len(Kept(c, fs)) = Cardinality(WholeLines(c, fs))
         /\ \A j \in 1..Len(Kept(c, fs)) : Kept(c, fs)[j] = [log[j] EXCEPT !.survived = TRUE]
         /\ \A j \in 1..Len(Kept(c, fs)) : Kept(c, fs)[j].rec = log[j].rec
<1> DEFINE m == Cardinality(WholeLines(c, fs))
           n == Min({Len(log), m})
           kept == Kept(c, fs)
<1>1. IsFiniteSet(WholeLinesOf(fs)) BY FiniteLines DEF Bounded
<1>2. WholeLines(c, fs) \subseteq WholeLinesOf(fs) BY DEF WholeLines, WholeLinesOf
<1>3. m \in Nat BY <1>1, <1>2, FS_Subset, FS_CardinalityType
<1>4. log \in Seq(Entry) /\ Len(log) \in Nat BY DEF Base
<1> HIDE DEF m
<1>5. n \in Nat /\ n <= Len(log) /\ n <= m /\ (m <= Len(log) => n = m)
  <2>1. \E x \in {Len(log), m} : \A y \in {Len(log), m} : x <= y BY <1>3, <1>4
  <2>2. n \in {Len(log), m} /\ \A y \in {Len(log), m} : n <= y BY <2>1 DEF Min
  <2> HIDE DEF n
  <2> QED BY <1>3, <1>4, <2>2
<1>6. kept = [j \in 1..n |-> [log[j] EXCEPT !.survived = TRUE]] BY DEF Kept, m
<1> HIDE DEF n, kept
<1>7. \A j \in 1..n : log[j] \in Entry BY <1>4, <1>5
<1>8. \A j \in 1..n : /\ [log[j] EXCEPT !.survived = TRUE] \in Entry
                      /\ [log[j] EXCEPT !.survived = TRUE].rec = log[j].rec
  BY <1>7, SurvivedFact
<1>9. kept \in Seq(Entry) /\ Len(kept) = n
  <2> DEFINE S == Entry
             F(j) == [log[j] EXCEPT !.survived = TRUE]
  <2>1. \A j \in 1..n : F(j) \in S BY <1>8
  <2>2. kept = [j \in 1..n |-> F(j)] BY <1>6
  <2> HIDE DEF S, F
  <2>3. kept \in Seq(S) /\ Len(kept) = n BY <1>5, <2>1, <2>2
  <2> QED BY <2>3 DEF S
<1> QED BY <1>3, <1>5, <1>6, <1>8, <1>9 DEF m, kept

\* A start keeps the first part.
LEMMA StartBase ==
  ASSUME Base, NEW env \in Environments, Start(env)
  PROVE  Base'
<1> DEFINE c == Load(env)
           i == LastId(c, files)
           fs == StartFiles(c)
<1>1. /\ DOMAIN files # {} => c.StorageFormat = cfg.StorageFormat
      /\ cfg' = c
      /\ \/ status' = "failed" /\ files' \in {files, fs} /\ log' = log
         \/ /\ status' = "running" /\ files' = fs /\ writer' = Opened(i, fs[i])
            /\ log' = Kept(c, fs)
  BY DEF Start, StartFiles
<1>2. IInv' BY StartStep DEF Base
<1>3. /\ Tidy(fs, Opened(i, fs[i])) /\ Bounded(fs)
      /\ c.StorageFormat = "simple" => DOMAIN fs \subseteq {0} /\ DOMAIN files \subseteq {0}
  BY <1>1, StartFilesFact
<1>4. c.MaxRecordSize \in Nat BY SizeAssumption
<1>5. Bounded(files) /\ log \in Seq(Entry) BY DEF Base
<1>6. Typed(fs) BY <1>3 DEF Tidy, Aligned
<1>7. Kept(c, fs) \in Seq(Entry) BY <1>3, <1>6, KeptFact
<1> HIDE DEF c, i, fs
<1>8. files' \in {files, fs} BY <1>1
<1>9. Bounded(files)' BY <1>3, <1>5, <1>8 DEF Bounded
<1>10. (Simple => DOMAIN files \subseteq {0})' BY <1>1, <1>3, <1>8 DEF Simple
<1>11. (status \in Opening => Tidy(files, writer))'
  <2>1. CASE status' = "failed" BY <2>1 DEF Opening
  <2>2. CASE status' = "running"
    <3>1. files' = fs /\ writer' = Opened(i, fs[i]) BY <1>1, <2>2
    <3> QED BY <1>3, <3>1 DEF Tidy, Aligned, Typed, Topmost
  <2> QED BY <1>1, <2>1, <2>2
<1>12. (log \in Seq(Entry))' BY <1>1, <1>5, <1>7
<1> QED BY <1>1, <1>2, <1>4, <1>9, <1>10, <1>11, <1>12 DEF Base

\* It keeps the second part: the records it keeps are those of the lines it reads.
LEMMA StartCore ==
  ASSUME Base, Core, NEW env \in Environments, Start(env)
  PROVE  Core'
<1> DEFINE c == Load(env)
           i == LastId(c, files)
           fs == StartFiles(c)
<1>0. status \notin Opening BY DEF Start, Opening
<1>1. /\ DOMAIN files # {} => c.StorageFormat = cfg.StorageFormat
      /\ \/ status' = "failed" /\ files' \in {files, fs} /\ log' = log /\ damaged' = damaged
         \/ /\ status' = "running" /\ files' = fs /\ writer' = Opened(i, fs[i])
            /\ log' = Kept(c, fs)
            /\ damaged' = (damaged \/ Torn(fs) \/ \E x \in DOMAIN fs : ScanErrs(fs[x], Limit(c)))
  BY DEF Start, StartFiles
<1>3. /\ Tidy(fs, Opened(i, fs[i])) /\ Bounded(fs) /\ Grown(files, fs)
      /\ \A entries, at : Laid(files, entries, at) => Laid(fs, entries, at)
  BY <1>1, StartFilesFact
<1>4. Typed(fs) /\ Typed(files) /\ Bounded(files) /\ log \in Seq(Entry) /\ Len(log) \in Nat
  BY <1>3 DEF Tidy, Aligned, Base, IInv
<1> SUFFICES ASSUME ~damaged' PROVE Core'
  BY DEF Core
<1>5. ~damaged BY <1>1
<1>6. PICK at : Laid(files, log, at) BY <1>0, <1>5 DEF Core
<1>7. Durable(files, log) BY <1>5 DEF Core
<1>8. Laid(fs, log, at) BY <1>3, <1>6
<1> HIDE DEF c, i, fs
<1>9. Durable(fs, log) BY <1>3, <1>4, <1>7, DurableGrows
<1>10. CASE status' = "failed"
  <2>1. files' \in {files, fs} /\ log' = log BY <1>1, <1>10
  <2>2. (\E bt : Laid(files', log, bt)) /\ Durable(files', log) BY <1>6, <1>7, <1>8, <1>9, <2>1
  <2>3. (\E bt : Laid(files, log, bt))' BY <2>1, <2>2 DEF Laid, Placed, AllPlaced, Ascending, Typed
  <2>4. Durable(files, log)' BY <2>1, <2>2 DEF Durable, WholeLinesOf
  <2> QED BY <1>10, <2>3, <2>4 DEF Core, Opening
<1>11. CASE status' = "running"
  <2> DEFINE w == Opened(i, fs[i])
             kept == Kept(c, fs)
  <2>1. files' = fs /\ writer' = w /\ log' = kept BY <1>1, <1>11
  <2>2. ~Torn(fs) /\ \A x \in DOMAIN fs : ~ScanErrs(fs[x], Limit(c)) BY <1>1, <1>11
  <2>3. WholeLines(c, fs) = WholeLinesOf(fs) BY <2>2, AllDelivered
  <2>4. Cardinality(WholeLinesOf(fs)) = Len(at) /\ Len(at) <= Len(log) BY <1>8, LaidCount DEF Laid
  <2>5. /\ kept \in Seq(Entry) /\ Len(kept) = Len(at)
        /\ \A j \in 1..Len(kept) : kept[j].rec = log[j].rec
    BY <1>3, <1>4, <2>3, <2>4, KeptFact
  <2>6. w.id = i /\ ~w.err /\ w.buf = <<>> BY DEF Opened
  <2> HIDE DEF w, kept
  <2>7. Len(at) <= Len(kept)
    <3>1. Len(at) \in Nat BY <1>8 DEF Laid
    <3> QED BY <2>5, <3>1
  <2>8. Laid(fs, kept, at) BY <1>8, <2>5, <2>7, LaidEntries
  <2>9. Recorded(fs, w, kept)
    <3> DEFINE cs == Contents(fs, w)
    <3>1. SameFiles(fs, cs) BY <1>3, <2>6, ContentsFact DEF w
    <3>2. Laid(cs, kept, at) BY <2>8, <3>1, LaidSame
    <3>3. i \in DOMAIN fs /\ Whole(fs[i])
      <4>1. i \in DOMAIN fs BY <1>3, <2>6 DEF Tidy, Topmost, w
      <4> QED BY <2>2, <4>1 DEF Torn
    <3>4. cs[w.id] = fs[i] BY <2>6, <3>1, <3>3 DEF SameFiles
    <3>5. Whole(cs[w.id]) BY <3>3, <3>4
    <3> QED BY <2>5, <2>6, <3>2, <3>5 DEF Recorded
  <2>10. Durable(fs, kept)
    <3>1. \A j \in 1..Len(kept) : j <= Cardinality(WholeLinesOf(fs)) BY <2>4, <2>5
    <3> QED BY <3>1 DEF Durable
  <2> HIDE DEF fs
  <2>11. Recorded(files, writer, log)' /\ Durable(files, log)' BY <2>1, <2>9, <2>10, SameLaid
  <2> QED BY <1>11, <2>11 DEF Core, Opening
<1> QED BY <1>1, <1>10, <1>11

-----------------------------------------------------------------------------
(* The invariant holds. *)

\* A client's step is a request for one of the clients' records.
Requesting(r, o) ==
  /\ r \in ClientRecords /\ o \in AppendOutcomes(files, writer, Encode(r)) /\ Appending(r, o)
  /\ \/ /\ r.op = "put" /\ index' = IndexedAfter(r.key, r.value, o)
     \/ /\ r.op = "del" /\ r.key \in DOMAIN index
        /\ index' = IF o.ok THEN Restrict(index, DOMAIN index \ {r.key}) ELSE index

\* A put or a delete is a request.
LEMMA ClientFact ==
  ASSUME IInv,
         \/ \E p \in Puts : Put(p[1], p[2])
         \/ \E k \in Deletes : Delete(k)
  PROVE  status = "running" /\ \E r, o : Requesting(r, o)
<1>1. ASSUME NEW p \in Puts, Put(p[1], p[2]) PROVE status = "running" /\ \E r, o : Requesting(r, o)
  <2>1. status = "running" BY <1>1 DEF Put
  <2>2. cfg.Version \in Versions BY <2>1 DEF IInv, Versions
  <2> DEFINE r == PutRecord(cfg.Version, p[1], p[2])
  <2>3. r \in ClientRecords BY <2>2 DEF ClientRecords
  <2>4. r.op = "put" /\ r.key = p[1] /\ r.value = p[2] BY DEF PutRecord
  <2>5. \E o \in AppendOutcomes(files, writer, Encode(r)) :
          Appending(r, o) /\ index' = IndexedAfter(p[1], p[2], o)
    BY <1>1 DEF Put
  <2> HIDE DEF r
  <2> QED BY <2>1, <2>3, <2>4, <2>5 DEF Requesting
<1>2. ASSUME NEW k \in Deletes, Delete(k) PROVE status = "running" /\ \E r, o : Requesting(r, o)
  <2>1. status = "running" BY <1>2 DEF Delete
  <2>2. cfg.Version \in Versions BY <2>1 DEF IInv, Versions
  <2> DEFINE r == DelRecord(cfg.Version, k)
  <2>3. r \in ClientRecords BY <2>2 DEF ClientRecords
  <2>4. r.op = "del" /\ r.key = k BY DEF DelRecord
  <2>5. k \in DOMAIN index /\ \E o \in AppendOutcomes(files, writer, Encode(r)) :
          /\ Appending(r, o)
          /\ index' = IF o.ok THEN Restrict(index, DOMAIN index \ {k}) ELSE index
    BY <1>2 DEF Delete
  <2> HIDE DEF r
  <2> QED BY <2>1, <2>3, <2>4, <2>5 DEF Requesting
<1> QED BY <1>1, <1>2

\* The invariant holds at first.
LEMMA InitBase == Init => Base /\ Core
<1> SUFFICES ASSUME Init PROVE Base /\ Core OBVIOUS
<1>1. IInv BY InitInv
<1>2. files = [x \in {} |-> <<>>] /\ status = "stopped" /\ log = <<>> BY DEF Init
<1>3. DOMAIN files = {} BY <1>2
<1>4. cfg.MaxRecordSize = 4194304
  <2>1. cfg = Load([name \in {} |-> name]) BY DEF Init
  <2> QED BY <2>1 DEF Load, GetPositive, IsSet, DefaultMaxRecordSize
<1>5. Bounded(files)
  <2>1. DOMAIN files \subseteq 0..0 BY <1>3
  <2> QED BY <2>1 DEF Bounded
<1>6. log \in Seq(Entry) BY <1>2
<1>7. Laid(files, log, <<>>)
  <2>1. <<>> \in Seq(Nat \X Nat) /\ Len(<<>>) = 0 OBVIOUS
  <2>2. Placed(files, log, <<>>) /\ Ascending(<<>>) BY DEF Placed, Ascending
  <2>3. AllPlaced(files, <<>>) /\ Typed(files) BY <1>3 DEF AllPlaced, Typed
  <2> QED BY <1>2, <1>3, <2>1, <2>2, <2>3 DEF Laid
<1>8. Durable(files, log) BY <1>2 DEF Durable
<1>9. status \notin Opening /\ status # "closed" BY <1>2 DEF Opening
<1>10. Base BY <1>1, <1>3, <1>4, <1>5, <1>6, <1>9 DEF Base
<1>11. Core BY <1>7, <1>8, <1>9 DEF Core
<1> QED BY <1>10, <1>11

\* Its first part is inductive.
LEMMA NextBase == Base /\ [Next]_vars => Base'
<1> SUFFICES ASSUME Base, [Next]_vars PROVE Base'
  OBVIOUS
<1>1. IInv BY DEF Base
<1>2. CASE \/ \E p \in Puts : Put(p[1], p[2])
           \/ \E k \in Deletes : Delete(k)
  BY <1>1, <1>2, ClientFact, RequestBase DEF Requesting
<1>3. CASE UNCHANGED vars
  BY <1>3 DEF vars, Base, IInv, Opening, Aligned, Typed, Bounded, Simple, Tidy, Topmost
<1> QED BY <1>2, <1>3, CloseBase, ExitBase, StartBase DEF Next

\* So is its second part, given the first.
LEMMA NextCore == Base /\ Core /\ [Next]_vars => Core'
<1> SUFFICES ASSUME Base, Core, [Next]_vars PROVE Core'
  OBVIOUS
<1>1. IInv BY DEF Base
<1>2. CASE \/ \E p \in Puts : Put(p[1], p[2])
           \/ \E k \in Deletes : Delete(k)
  BY <1>1, <1>2, ClientFact, RequestCore DEF Requesting
<1>3. CASE UNCHANGED vars
  <2>1. files' = files /\ writer' = writer /\ log' = log /\ status' = status /\ damaged' = damaged
    BY <1>3 DEF vars
  <2> QED BY <2>1, SameLaid DEF Core, Opening
<1> QED BY <1>2, <1>3, CloseCore, ExitCore, StartCore DEF Next

\* After Close every record taken is in the files, whatever the sync policy and however
\* the files were left by earlier processes, as long as no write has failed.
THEOREM CloseKeepsRecords == Spec => []CloseKeepsAll
<1>1. Base /\ Core => CloseKeepsAll
  <2> SUFFICES ASSUME Base, Core, status = "closed", ~writer.err, ~damaged
               PROVE  Len(log) = Cardinality(UNION {{i} \X NewLines(files[i]) : i \in DOMAIN files})
    BY DEF CloseKeepsAll
  <2>1. Tidy(files, writer) /\ Recorded(files, writer, log) BY DEF Base, Core, Opening
  <2>2. writer.buf = <<>> BY <2>1 DEF Base, Tidy
  <2>3. PICK at : Laid(files, log, at) /\ Len(at) = Len(log) BY <2>1, <2>2, AllLaid
  <2>4. Cardinality(WholeLinesOf(files)) = Len(at) BY <2>3, LaidCount
  <2> QED BY <2>3, <2>4 DEF WholeLinesOf
<1> QED BY <1>1, InitBase, NextBase, NextCore, PTL DEF Spec

-----------------------------------------------------------------------------
(* Indexed locations, and what a refused write changes. *)

\* A line a scan delivers is in a file, and ends there or just past its end.
LEMMA LinesFact ==
  ASSUME NEW fs, Typed(fs), NEW limit, NEW p \in Lines(fs, limit)
  PROVE  /\ p = <<p[1], p[2]>> /\ p[1] \in DOMAIN fs /\ p[2] \in Delivered(fs[p[1]], limit)
         /\ p[2] \in LineEnds(fs[p[1]])
         /\ p[2] \in Nat /\ p[2] >= 1
<1>1. PICK i \in DOMAIN fs : p \in {i} \X Delivered(fs[i], limit) BY DEF Lines
<1>2. p = <<p[1], p[2]>> /\ p[1] = i /\ p[2] \in Delivered(fs[i], limit) BY <1>1
<1>3. p[2] \in LineEnds(fs[i]) BY <1>2 DEF Delivered
<1>4. fs[i] \in Bytes BY DEF Typed
<1>5. Len(fs[i]) \in Nat /\ NewLines(fs[i]) \subseteq 1..Len(fs[i]) BY <1>4, NewLinesFact
<1>6. p[2] \in NewLines(fs[i]) \/ p[2] = Len(fs[i]) + 1 BY <1>3 DEF LineEnds
<1>7. p[2] \in Nat /\ p[2] >= 1 BY <1>5, <1>6
<1> QED BY <1>1, <1>2, <1>3, <1>7

\* A start indexes a key at a line that it has read.
Indexes(c, fs, k, x) ==
  /\ x \in Latest(Scanned(fs, Limit(c)))
  /\ x.at \in Lines(fs, Limit(c)) /\ x.rec = LineRecord(fs, x.at) /\ x.rec.key = k
  /\ Populate(c, fs)[k].value = x.rec.value
  /\ c.IndexFormat = "position" => Populate(c, fs)[k].loc = LineLocation(fs, x.at)

\* Every key of the index a start makes is indexed at such a line.
LEMMA PopulateFact ==
  ASSUME NEW c, NEW fs
  PROVE  /\ DOMAIN Populate(c, fs) = {x.rec.key : x \in Latest(Scanned(fs, Limit(c)))}
         /\ \A k \in DOMAIN Populate(c, fs) : \E x : Indexes(c, fs, k, x)
<1> DEFINE live == Latest(Scanned(fs, Limit(c)))
           next == Populate(c, fs)
           X(k) == CHOOSE y \in live : y.rec.key = k
<1>1. next = [k \in {x.rec.key : x \in live} |->
                [value |-> X(k).rec.value,
                 loc |-> IF c.IndexFormat = "position" THEN LineLocation(fs, X(k).at)
                         ELSE NoLocation]]
  BY DEF Populate
<1>2. \A x \in live : x.at \in Lines(fs, Limit(c)) /\ x.rec = LineRecord(fs, x.at)
  BY DEF Latest, Scanned
<1> HIDE DEF live
<1>3. \A k \in {x.rec.key : x \in live} : X(k) \in live /\ X(k).rec.key = k OBVIOUS
<1> HIDE DEF X, next
<1>4. DOMAIN next = {x.rec.key : x \in live} BY <1>1
<1>5. ASSUME NEW k \in DOMAIN next
      PROVE  /\ next[k].value = X(k).rec.value
             /\ c.IndexFormat = "position" => next[k].loc = LineLocation(fs, X(k).at)
  BY <1>1, <1>4
<1>6. \A k \in DOMAIN next : Indexes(c, fs, k, X(k))
  BY <1>2, <1>3, <1>4, <1>5 DEF Indexes, live, next
<1> QED BY <1>4, <1>6 DEF live, next

\* Locations are in files.
Located(fs, entries) ==
  \A k \in DOMAIN entries :
    LET loc == entries[k].loc
    IN  loc.id \in DOMAIN fs /\ loc.offset \in Nat /\ loc.size \in Nat

\* A running store by position has locations in its files.
IndexLocated == status = "running" /\ Positions => Located(files, index)

\* The locations of a start are in the files it reads.
LEMMA PopulateLocated ==
  ASSUME NEW c, c.IndexFormat = "position", NEW fs, Typed(fs)
  PROVE  Located(fs, Populate(c, fs))
<1> SUFFICES ASSUME NEW k \in DOMAIN Populate(c, fs)
             PROVE  LET loc == Populate(c, fs)[k].loc
                    IN  loc.id \in DOMAIN fs /\ loc.offset \in Nat /\ loc.size \in Nat
  BY DEF Located
<1>1. PICK x : Indexes(c, fs, k, x) BY PopulateFact
<1>2. x.at \in Lines(fs, Limit(c)) /\ Populate(c, fs)[k].loc = LineLocation(fs, x.at)
  BY <1>1 DEF Indexes
<1> DEFINE i == x.at[1]
           end == x.at[2]
           first == LineStart(fs[i], end)
<1>3. i \in DOMAIN fs /\ end \in Nat /\ end >= 1 BY <1>2, LinesFact
<1>4. fs[i] \in Bytes BY <1>3 DEF Typed
<1>5. StartsAt(fs[i], end, first) BY <1>3, <1>4, LineStartFact
<1> HIDE DEF first, end, i
<1>6. first \in Nat /\ first >= 1 /\ first <= end BY <1>3, <1>5 DEF StartsAt
<1>7. first - 1 \in Nat /\ end - first + 1 \in Nat BY <1>3, <1>6
<1>8. LineLocation(fs, x.at) = [id |-> i, offset |-> first - 1, size |-> end - first + 1]
  BY DEF LineLocation, first, end, i
<1> QED BY <1>2, <1>3, <1>7, <1>8

\* What a request makes of the index.
LEMMA IndexAfter ==
  ASSUME NEW r, NEW o, Requesting(r, o)
  PROVE  /\ ~o.ok => index' = index
         /\ o.ok /\ r.op = "put" =>
              /\ DOMAIN index' = DOMAIN index \cup {r.key}
              /\ index'[r.key] = EntryToPut(r.value, o.loc)
              /\ \A k \in DOMAIN index : k # r.key => index'[k] = index[k]
         /\ o.ok /\ r.op = "del" =>
              /\ DOMAIN index' = DOMAIN index \ {r.key}
              /\ \A k \in DOMAIN index : k # r.key => index'[k] = index[k]
<1>1. CASE ~o.ok BY <1>1 DEF Requesting, IndexedAfter
<1>2. CASE o.ok /\ r.op = "put"
  <2>1. index' = [x \in DOMAIN index \cup {r.key} |->
                    IF x = r.key THEN EntryToPut(r.value, o.loc) ELSE index[x]]
    BY <1>2 DEF Requesting, IndexedAfter
  <2> QED BY <1>2, <2>1
<1>3. CASE o.ok /\ r.op = "del"
  <2>1. index' = Restrict(index, DOMAIN index \ {r.key}) BY <1>3 DEF Requesting
  <2> QED BY <1>3, <2>1 DEF Restrict
<1> QED BY <1>1, <1>2, <1>3

\* Locations stay in files.
LEMMA NextLocated == Base /\ IndexLocated /\ [Next]_vars => IndexLocated'
<1> SUFFICES ASSUME Base, IndexLocated, [Next]_vars, (status = "running" /\ Positions)'
             PROVE  Located(files, index)'
  BY DEF IndexLocated
<1>0. IInv BY DEF Base
<1>1. CASE \/ \E p \in Puts : Put(p[1], p[2])
           \/ \E k \in Deletes : Delete(k)
  <2>1. status = "running" BY <1>0, <1>1, ClientFact
  <2>2. PICK r, o : Requesting(r, o) BY <1>0, <1>1, ClientFact
  <2>3. r \in ClientRecords /\ o \in AppendOutcomes(files, writer, Encode(r)) /\ Appending(r, o)
    BY <2>2 DEF Requesting
  <2>4. Takes(files, writer, o, r) /\ files' = o.files /\ cfg' = cfg BY <2>1, <2>3, RequestFact
  <2>5. Located(files, index) BY <2>1, <2>4 DEF IndexLocated, Positions
  <2>6. DOMAIN files \subseteq DOMAIN files' BY <2>4 DEF Takes, Keeps, Evolves, Grown
  <2>7. CASE ~o.ok BY <2>2, <2>5, <2>6, <2>7, IndexAfter DEF Located
  <2>8. CASE o.ok
    <3>1. Held(o.files, o.writer, o.loc, r) BY <2>4, <2>8 DEF Takes
    <3>2. Len(Encode(r)) \in Nat BY <2>3, EncodeFact
    <3>3. o.loc.id \in DOMAIN files' /\ o.loc.offset \in Nat /\ o.loc.size \in Nat
      BY <2>4, <3>1, <3>2 DEF Held
    <3>4. r.op \in {"put", "del"} BY <2>3, RecordFact
    <3>5. ASSUME NEW k \in DOMAIN index'
          PROVE  \/ index'[k].loc = o.loc
                 \/ k \in DOMAIN index /\ index'[k] = index[k]
      <4>1. CASE r.op = "put"
        <5>1. /\ DOMAIN index' = DOMAIN index \cup {r.key}
              /\ index'[r.key] = EntryToPut(r.value, o.loc)
              /\ \A x \in DOMAIN index : x # r.key => index'[x] = index[x]
          BY <2>2, <2>8, <4>1, IndexAfter
        <5>2. EntryToPut(r.value, o.loc).loc = o.loc BY DEF EntryToPut
        <5> QED BY <5>1, <5>2, <3>5
      <4>2. CASE r.op = "del"
        <5>1. /\ DOMAIN index' = DOMAIN index \ {r.key}
              /\ \A x \in DOMAIN index : x # r.key => index'[x] = index[x]
          BY <2>2, <2>8, <4>2, IndexAfter
        <5> QED BY <5>1, <3>5
      <4> QED BY <3>4, <4>1, <4>2
    <3> QED BY <2>5, <2>6, <3>3, <3>5 DEF Located
  <2> QED BY <2>7, <2>8
<1>2. ASSUME NEW env \in Environments, Start(env) PROVE Located(files, index)'
  <2> DEFINE c == Load(env)
             fs == StartFiles(c)
  <2>1. /\ DOMAIN files # {} => c.StorageFormat = cfg.StorageFormat
        /\ cfg' = c
        /\ status' = "running" => files' = fs /\ index' = Populate(c, fs)
    BY <1>2 DEF Start, StartFiles
  <2>2. files' = fs /\ index' = Populate(c, fs) /\ c.IndexFormat = "position"
    BY <2>1 DEF Positions
  <2>3. Typed(fs) BY <2>1, StartFilesFact DEF Tidy, Aligned
  <2> HIDE DEF c, fs
  <2>4. Located(fs, Populate(c, fs)) BY <2>2, <2>3, PopulateLocated
  <2> QED BY <2>2, <2>4 DEF Located
<1>3. CASE UNCHANGED vars
  BY <1>3 DEF vars, IndexLocated, Positions, Located
<1>4. CASE Close \/ Exit
  BY <1>4 DEF Close, Exit
<1> QED BY <1>1, <1>2, <1>3, <1>4 DEF Next

\* The bytes of a piece of a sequence.
LEMMA PieceAt ==
  ASSUME NEW s \in Bytes, NEW m \in Nat, NEW n \in Nat, m <= n, n <= Len(s)
  PROVE  /\ SubSeq(s, m + 1, n) \in Bytes /\ Len(SubSeq(s, m + 1, n)) = n - m
         /\ \A i \in 1..(n - m) : SubSeq(s, m + 1, n)[i] = s[m + i]
<1> DEFINE t == SubSeq(s, m + 1, n)
<1>1. Len(s) \in Nat BY NewLinesFact
<1>2. t \in Bytes BY <1>1 DEF Bytes
<1>3. Len(t) = n - m BY <1>1 DEF Bytes
<1>4. \A i \in 1..(n - m) : t[i] = s[m + 1 + i - 1] BY <1>1 DEF Bytes
<1>5. \A i \in 1..(n - m) : m + 1 + i - 1 = m + i OBVIOUS
<1> QED BY <1>2, <1>3, <1>4, <1>5

\* Bytes that are read now are read again once the files have grown.
LEMMA ReadStays ==
  ASSUME NEW fs, NEW gs, Typed(fs), Typed(gs), Grown(fs, gs), NEW loc,
         loc.id \in DOMAIN fs, loc.offset \in Nat, loc.size \in Nat
  PROVE  ReadAtOffset(gs, loc) = ReadAtOffset(fs, loc) \/ ReadAtOffset(fs, loc) = ReadError
<1> DEFINE s == fs[loc.id]
           t == gs[loc.id]
           m == loc.offset
           n == loc.offset + loc.size
<1>1. s \in Bytes /\ t \in Bytes /\ Begins(s, t) BY DEF Typed, Grown
<1>2. Len(s) \in Nat /\ Len(t) \in Nat /\ m \in Nat /\ n \in Nat /\ m <= n BY <1>1, NewLinesFact
<1>3. CASE n <= Len(s)
  <2> HIDE DEF s, t, m, n
  <2>1. Len(s) <= Len(t) /\ \A i \in 1..Len(s) : s[i] = t[i] BY <1>1 DEF Begins
  <2>2. n <= Len(t) BY <1>2, <1>3, <2>1
  <2>3. SubSeq(t, m + 1, n) = SubSeq(s, m + 1, n)
    <3>1. /\ SubSeq(s, m + 1, n) \in Bytes /\ Len(SubSeq(s, m + 1, n)) = n - m
          /\ \A i \in 1..(n - m) : SubSeq(s, m + 1, n)[i] = s[m + i]
      BY <1>1, <1>2, <1>3, PieceAt
    <3>2. /\ SubSeq(t, m + 1, n) \in Bytes /\ Len(SubSeq(t, m + 1, n)) = n - m
          /\ \A i \in 1..(n - m) : SubSeq(t, m + 1, n)[i] = t[m + i]
      BY <1>1, <1>2, <2>2, PieceAt
    <3>3. \A i \in 1..(n - m) : m + i \in 1..Len(s) BY <1>2, <1>3
    <3>4. \A i \in 1..Len(SubSeq(s, m + 1, n)) : SubSeq(s, m + 1, n)[i] = SubSeq(t, m + 1, n)[i]
      BY <2>1, <3>1, <3>2, <3>3
    <3> QED BY <3>1, <3>2, <3>4, SameBytes
  <2>4. ~(n > Len(s)) /\ ~(n > Len(t)) BY <1>2, <1>3, <2>2
  <2> QED BY <2>3, <2>4 DEF ReadAtOffset, s, t, m, n
<1>4. CASE n > Len(s) BY <1>4 DEF ReadAtOffset
<1> QED BY <1>2, <1>3, <1>4

\* An answer that is an error means the append failed.
LEMMA RefusingFact ==
  ASSUME Base, NEW r \in ClientRecords, NEW o, Refusing,
         log' = IF o.taken THEN Append(log, NewEntry(r, o)) ELSE log,
         ~o.taken => ~o.ok
  PROVE  ~o.ok
<1> SUFFICES ASSUME o.ok PROVE FALSE OBVIOUS
<1>1. log \in Seq(Entry) /\ Len(log) \in Nat BY DEF Base
<1> DEFINE x == NewEntry(r, o)
<1>2. x.answer \in {201, 204}
  <2>1. x.answer = Answer(r.op, o.ok) BY DEF NewEntry
  <2> HIDE DEF x
  <2> QED BY <2>1 DEF Answer
<1> HIDE DEF x
<1>3. log' = Append(log, x) BY DEF x
<1>4. Len(log') = Len(log) + 1 /\ log'[Len(log')] = x BY <1>1, <1>3
<1>5. x.answer \in {400, 500} BY <1>1, <1>4 DEF Refusing
<1> QED BY <1>2, <1>5

\* A request that is refused changes the answer for no key: files only grow, and the
\* index stays what it was, so that what could be read still is, and is the same.
THEOREM RefusedWritesChangeNothing == Spec => RefusedWritesUnseen
<1> DEFINE Unseen == Refusing =>
                       \A k \in Keys :
                         GetFrom(files', index', k) = GetResult(k) \/ GetResult(k) = ReadError
<1>1. Init => Base /\ IndexLocated
  <2>1. Init => IndexLocated BY DEF Init, IndexLocated
  <2> QED BY <2>1, InitBase
<1>2. Base /\ IndexLocated /\ [Next]_vars => [Unseen]_vars
  <2> SUFFICES ASSUME Base, IndexLocated, Next, Refusing, NEW k \in Keys
               PROVE  GetFrom(files', index', k) = GetResult(k) \/ GetResult(k) = ReadError
    OBVIOUS
  <2>1. status = "running" /\ status' = "running" BY DEF Refusing
  <2>2. \/ \E p \in Puts : Put(p[1], p[2])
        \/ \E d \in Deletes : Delete(d)
    BY <2>1 DEF Next, Close, Exit, Start
  <2>3. IInv BY DEF Base
  <2>4. PICK r, o : Requesting(r, o) BY <2>2, <2>3, ClientFact
  <2>5. r \in ClientRecords /\ o \in AppendOutcomes(files, writer, Encode(r)) /\ Appending(r, o)
    BY <2>4 DEF Requesting
  <2>6. /\ Takes(files, writer, o, r) /\ files' = o.files
        /\ log' = IF o.taken THEN Append(log, NewEntry(r, o)) ELSE log
    BY <2>1, <2>5, RequestFact
  <2>7. ~o.ok BY <2>5, <2>6, RefusingFact DEF Takes
  <2>8. index' = index BY <2>4, <2>7, IndexAfter
  <2>9. CASE k \notin DOMAIN index \/ ~Positions BY <2>8, <2>9 DEF GetFrom, GetResult
  <2>10. CASE k \in DOMAIN index /\ Positions
    <3> DEFINE loc == index[k].loc
    <3>1. loc.id \in DOMAIN files /\ loc.offset \in Nat /\ loc.size \in Nat
      BY <2>1, <2>10 DEF IndexLocated, Located
    <3>2. Typed(files) /\ Typed(o.files) /\ Grown(files, o.files)
      BY <2>3, <2>6 DEF IInv, Takes, Keeps, Tidy, Aligned, Evolves
    <3> HIDE DEF loc
    <3>3. \/ ReadAtOffset(o.files, loc) = ReadAtOffset(files, loc)
          \/ ReadAtOffset(files, loc) = ReadError
      BY <3>1, <3>2, ReadStays
    <3>4. GetResult(k) = ReadAtOffset(files, loc) BY <2>10 DEF GetResult, GetFrom, loc
    <3>5. GetFrom(files', index', k) = ReadAtOffset(o.files, loc)
      BY <2>6, <2>8, <2>10 DEF GetFrom, loc
    <3> QED BY <3>3, <3>4, <3>5
  <2> QED BY <2>9, <2>10
<1> QED BY <1>1, <1>2, InitBase, NextBase, NextLocated, PTL DEF Spec, RefusedWritesUnseen

-----------------------------------------------------------------------------
(* Whole lines, and failing starts. *)

\* A whole line is that of an entry.
LineOf(fs, entries, at, j, i, end) ==
  /\ j \in 1..Len(at) /\ at[j] = <<i, end>>
  /\ entries[j].rec \in ClientRecords
  /\ Len(Encode(entries[j].rec)) \in Nat /\ Len(Encode(entries[j].rec)) >= 1
  /\ end - Len(Encode(entries[j].rec)) \in Nat /\ end \in Nat
  /\ end \in NewLines(fs[i])
  /\ LineStart(fs[i], end) = end - Len(Encode(entries[j].rec)) + 1
  /\ LineAt(fs[i], end) = Body(entries[j].rec)
  /\ SubSeq(fs[i], end - Len(Encode(entries[j].rec)) + 1, end) = Encode(entries[j].rec)

\* The line of an entry is where it is laid.
LEMMA PlacedLine ==
  ASSUME NEW fs, NEW entries, NEW at, Laid(fs, entries, at), NEW j \in 1..Len(at)
  PROVE  LineOf(fs, entries, at, j, at[j][1], at[j][2]) /\ at[j][1] \in DOMAIN fs
<1> DEFINE i == at[j][1]
           end == at[j][2]
           r == entries[j].rec
<1>1. i \in DOMAIN fs /\ r \in ClientRecords /\ LineHolds(fs[i], end, r) BY DEF Laid, Placed
<1>2. fs[i] \in Bytes BY <1>1 DEF Laid, Typed
<1>3. /\ end \in NewLines(fs[i])
      /\ LineStart(fs[i], end) = end - Len(Encode(r)) + 1
      /\ LineAt(fs[i], end) = Body(r)
      /\ SubSeq(fs[i], end - Len(Encode(r)) + 1, end) = Encode(r)
  BY <1>1, <1>2, LineFact
<1>4. Len(Encode(r)) \in Nat /\ Len(Encode(r)) >= 1 BY <1>1, EncodeFact
<1>5. end - Len(Encode(r)) \in Nat /\ end \in Nat
  <2>1. Len(fs[i]) \in Nat BY <1>2, NewLinesFact
  <2> QED BY <1>1, <2>1 DEF LineHolds
<1>6. at[j] = <<i, end>>
  <2>1. at[j] \in Nat \X Nat BY DEF Laid
  <2> QED BY <2>1
<1> HIDE DEF i, end, r
<1> QED BY <1>1, <1>3, <1>4, <1>5, <1>6 DEF LineOf, r, i, end

\* Every whole line is that of an entry.
LEMMA WholeLine ==
  ASSUME NEW fs, NEW entries, NEW at, Laid(fs, entries, at),
         NEW i \in DOMAIN fs, NEW end \in NewLines(fs[i])
  PROVE  \E j : LineOf(fs, entries, at, j, i, end)
<1>1. PICK j \in 1..Len(at) : at[j] = <<i, end>> BY DEF Laid, AllPlaced
<1>2. at[j][1] = i /\ at[j][2] = end BY <1>1
<1> QED BY <1>1, <1>2, PlacedLine

\* It is too long for the scanner only if the record is.
LEMMA LineFits ==
  ASSUME NEW fs, NEW entries, NEW at, NEW j, NEW i, NEW end, LineOf(fs, entries, at, j, i, end),
         NEW limit \in Nat
  PROVE  TooLong(fs[i], end, limit) <=> ~(Len(Encode(entries[j].rec)) <= limit)
<1> DEFINE n == Len(Encode(entries[j].rec))
<1>1. n \in Nat /\ end \in Nat /\ LineStart(fs[i], end) = end - n + 1 BY DEF LineOf
<1> HIDE DEF n
<1>2. end - LineStart(fs[i], end) + 1 = n BY <1>1
<1> QED BY <1>1, <1>2 DEF TooLong, n

\* A start that has failed has met its reason in the files as they are.
FailedFor == status = "failed" => NameIsTaken(cfg) \/ PopulateErrs(cfg, files)

\* The reason stays until the next start.
LEMMA NextFailed == Base /\ FailedFor /\ [Next]_vars => FailedFor'
<1> SUFFICES ASSUME Base, FailedFor, [Next]_vars, status' = "failed"
             PROVE  (NameIsTaken(cfg) \/ PopulateErrs(cfg, files))'
  BY DEF FailedFor
<1>1. CASE UNCHANGED vars
  BY <1>1 DEF vars, FailedFor, NameIsTaken, PopulateErrs
<1>2. ASSUME NEW env \in Environments, Start(env)
      PROVE  (NameIsTaken(cfg) \/ PopulateErrs(cfg, files))'
  <2>1. /\ cfg' = Load(env)
        /\ \/ NameIsTaken(Load(env))
           \/ files' = StartFiles(Load(env)) /\ PopulateErrs(Load(env), StartFiles(Load(env)))
    BY <1>2 DEF Start, StartFiles
  <2>2. CASE NameIsTaken(Load(env)) BY <2>1, <2>2 DEF NameIsTaken
  <2>3. CASE files' = StartFiles(Load(env)) /\ PopulateErrs(Load(env), StartFiles(Load(env)))
    BY <2>1, <2>3 DEF PopulateErrs
  <2> QED BY <2>1, <2>2, <2>3
<1>3. CASE Close \/ Exit BY <1>3 DEF Close, Exit
<1>4. CASE \/ \E p \in Puts : Put(p[1], p[2])
           \/ \E k \in Deletes : Delete(k)
  <2>1. IInv BY DEF Base
  <2>2. status = "running" BY <1>4, <2>1, ClientFact
  <2>3. status' = status BY <1>4 DEF Put, Delete, Appending
  <2> QED BY <2>2, <2>3
<1> QED BY <1>1, <1>2, <1>3, <1>4 DEF Next

\* The records of the log make no start fail but by their values or their size.
THEOREM StartsFailForCause == Spec => []StartFailsForCause
<1>1. Base /\ Core /\ FailedFor => StartFailsForCause
  <2> SUFFICES ASSUME Base, Core, FailedFor, status = "failed", ~damaged,
                      ~NameIsTaken(cfg), ~Torn(files),
                      \A j \in DOMAIN log :
                        ~(log[j].rec.op = "put" /\ log[j].rec.value = <<>>) /\ Fits(log[j].rec)
               PROVE  FALSE
    BY DEF StartFailsForCause
  <2>1. PICK at : Laid(files, log, at) BY DEF Core, Opening
  <2>2. DOMAIN log = 1..Len(log) /\ Len(log) \in Nat /\ Len(at) \in Nat /\ Len(at) <= Len(log)
    BY <2>1 DEF Base, Laid
  <2>3. PopulateErrs(cfg, files) BY DEF FailedFor
  <2>4. PICK i \in DOMAIN files :
          \/ DecodeErrs(files[i], Limit(cfg))
          \/ ScanErrs(files[i], Limit(cfg))
    BY <2>3 DEF PopulateErrs
  <2>5. LineEnds(files[i]) = NewLines(files[i])
    BY DEF Torn, Whole, LineEnds
  <2>6. ASSUME NEW end \in LineEnds(files[i])
        PROVE  Decodes(LineAt(files[i], end)) /\ ~TooLong(files[i], end, Limit(cfg))
    <3>1. PICK j : LineOf(files, log, at, j, i, end) BY <2>1, <2>5, WholeLine
    <3>2. /\ j \in DOMAIN log /\ log[j].rec \in ClientRecords
          /\ LineAt(files[i], end) = Body(log[j].rec)
      BY <2>2, <3>1 DEF LineOf
    <3>3. Decodes(LineAt(files[i], end)) BY <3>2, ScanDecode
    <3>4. Limit(cfg) \in Nat BY DEF Base, Limit
    <3>5. ~TooLong(files[i], end, Limit(cfg)) BY <3>1, <3>2, <3>4, LineFits DEF Fits
    <3> QED BY <3>3, <3>5
  <2> QED BY <2>4, <2>6 DEF DecodeErrs, Delivered, ScanErrs
<1>2. Init => FailedFor BY DEF Init, FailedFor
<1> QED BY <1>1, <1>2, InitBase, NextBase, NextCore, NextFailed, PTL DEF Spec

-----------------------------------------------------------------------------
(* What a start makes of the lines it reads. *)

\* The lines read are those of the first n entries, and lines that were cut short.
ReadsFirst(c, fs, entries, at, n) ==
  /\ Laid(fs, entries, at) /\ n \in Nat /\ n <= Len(at)
  /\ \A p \in Lines(fs, Limit(c)) : Decodes(LineAt(fs[p[1]], p[2]))
  /\ \A q \in 1..n : at[q] \in Lines(fs, Limit(c))
  /\ \A p \in Lines(fs, Limit(c)) :
       p[2] = Len(fs[p[1]]) + 1 \/ \E q \in 1..n : p = at[q]

\* No line that was cut short has that key.
NotTorn(c, fs, k) ==
  \A p \in Lines(fs, Limit(c)) : p[2] = Len(fs[p[1]]) + 1 => LineRecord(fs, p).key # k

\* The last of the first n entries that has the key.
LastIn(entries, n, k, j) ==
  /\ j \in 1..n /\ entries[j].rec.key = k
  /\ \A i \in 1..n : entries[i].rec.key = k => i <= j

\* A line that is read has the operation of its entry, and its key and its value if they
\* are plain.
LEMMA LineReads ==
  ASSUME NEW c, NEW fs, NEW entries, NEW at, NEW n, ReadsFirst(c, fs, entries, at, n),
         NEW q \in 1..n, NEW k, Plain(k)
  PROVE  /\ LineRecord(fs, at[q]).op = entries[q].rec.op
         /\ LineRecord(fs, at[q]).key = k <=> entries[q].rec.key = k
         /\ entries[q].rec.key = k /\ entries[q].rec.op = "put" /\ Plain(entries[q].rec.value) =>
              LineRecord(fs, at[q]).value = entries[q].rec.value
<1>1. at[q] \in Lines(fs, Limit(c)) BY DEF ReadsFirst
<1>2. q \in 1..Len(at) /\ Laid(fs, entries, at)
  <2>1. Len(at) \in Nat BY DEF ReadsFirst, Laid
  <2> QED BY <2>1 DEF ReadsFirst
<1>3. LineOf(fs, entries, at, q, at[q][1], at[q][2]) BY <1>2, PlacedLine
<1> DEFINE r == entries[q].rec
<1>4. r \in ClientRecords /\ LineAt(fs[at[q][1]], at[q][2]) = Body(r) BY <1>3 DEF LineOf
<1>5. Decodes(Body(r)) BY <1>1, <1>4 DEF ReadsFirst
<1>6. ReadsAs(Body(r), r) BY <1>4, <1>5, ScanDecode
<1>7. LineRecord(fs, at[q]) = Decode(Body(r)) BY <1>4 DEF LineRecord
<1> HIDE DEF r
<1> QED BY <1>6, <1>7 DEF ReadsAs, r

\* A key is indexed at the line of its last entry, which puts it.
LEMMA IndexesLast ==
  ASSUME NEW c, NEW fs, NEW entries, NEW at, NEW n, ReadsFirst(c, fs, entries, at, n),
         NEW k, Plain(k), NotTorn(c, fs, k), NEW x, Indexes(c, fs, k, x)
  PROVE  \E q : /\ LastIn(entries, n, k, q) /\ entries[q].rec.op = "put" /\ x.at = at[q]
<1>1. x.at \in Lines(fs, Limit(c)) /\ x.rec = LineRecord(fs, x.at) /\ x.rec.key = k
  BY DEF Indexes
<1>2. PICK q \in 1..n : x.at = at[q] BY <1>1 DEF ReadsFirst, NotTorn
<1>3. entries[q].rec.key = k /\ LineRecord(fs, at[q]).op = entries[q].rec.op
  BY <1>1, <1>2, LineReads
<1>4. x.rec.op = "put" /\ \A y \in Scanned(fs, Limit(c)) : y.rec.key = k => Before(y.at, x.at)
  BY <1>1 DEF Indexes, Latest
<1>5. ASSUME NEW i \in 1..n, entries[i].rec.key = k PROVE i <= q
  <2> DEFINE y == [at |-> at[i], rec |-> LineRecord(fs, at[i])]
  <2>1. at[i] \in Lines(fs, Limit(c)) BY DEF ReadsFirst
  <2>2. y \in Scanned(fs, Limit(c)) BY <2>1 DEF Scanned
  <2>3. y.at = at[i] /\ y.rec.key = k BY <1>5, LineReads
  <2> HIDE DEF y
  <2>4. Before(at[i], at[q]) BY <1>2, <1>4, <2>2, <2>3
  <2>5. n \in Nat /\ i \in 1..Len(at) /\ q \in 1..Len(at) /\ i \in Nat /\ q \in Nat
    <3>1. Len(at) \in Nat /\ n \in Nat /\ n <= Len(at) BY DEF ReadsFirst, Laid
    <3> QED BY <3>1
  <2>6. q < i => Precedes(at[q], at[i]) BY <2>5 DEF ReadsFirst, Laid, Ascending
  <2>7. at[i] \in Nat \X Nat /\ at[q] \in Nat \X Nat
    <3>1. at \in Seq(Nat \X Nat) BY DEF ReadsFirst, Laid
    <3> QED BY <2>5, <3>1
  <2>8. ~(q < i) BY <2>4, <2>6, <2>7 DEF Before, Precedes
  <2> QED BY <2>5, <2>8
<1> QED BY <1>1, <1>2, <1>3, <1>4, <1>5 DEF LastIn

\* The index entry a start makes for a key whose last entry is at a line.
Follows(c, fs, entry, r, p) ==
  /\ Plain(r.value) => entry.value = r.value
  /\ c.IndexFormat = "position" => entry.loc = LineLocation(fs, p)

\* A start indexes a key if its last entry puts it, with the value of that entry.
LEMMA PopulateLast ==
  ASSUME NEW c, NEW fs, NEW entries, NEW at, NEW n, ReadsFirst(c, fs, entries, at, n),
         NEW k, Plain(k), NotTorn(c, fs, k)
  PROVE  /\ \A j : LastIn(entries, n, k, j) /\ entries[j].rec.op = "put" =>
              /\ k \in DOMAIN Populate(c, fs)
              /\ Follows(c, fs, Populate(c, fs)[k], entries[j].rec, at[j])
         /\ k \in DOMAIN Populate(c, fs) =>
              \E j : LastIn(entries, n, k, j) /\ entries[j].rec.op = "put"
<1>0. n \in Nat /\ Len(at) \in Nat /\ n <= Len(at) BY DEF ReadsFirst, Laid
<1>1. ASSUME NEW j, LastIn(entries, n, k, j), entries[j].rec.op = "put"
      PROVE  k \in DOMAIN Populate(c, fs)
  <2> DEFINE x == [at |-> at[j], rec |-> LineRecord(fs, at[j])]
  <2>1. j \in 1..n /\ entries[j].rec.key = k BY <1>1 DEF LastIn
  <2>2. at[j] \in Lines(fs, Limit(c)) BY <2>1 DEF ReadsFirst
  <2>3. x \in Scanned(fs, Limit(c)) BY <2>2 DEF Scanned
  <2>4. x.at = at[j] /\ x.rec.key = k /\ x.rec.op = "put" BY <1>1, <2>1, LineReads
  <2> HIDE DEF x
  <2>5. ASSUME NEW y \in Scanned(fs, Limit(c)), y.rec.key = k PROVE Before(y.at, at[j])
    <3>1. y.at \in Lines(fs, Limit(c)) /\ y.rec = LineRecord(fs, y.at) BY DEF Scanned
    <3>2. PICK i \in 1..n : y.at = at[i] BY <2>5, <3>1 DEF ReadsFirst, NotTorn
    <3>3. entries[i].rec.key = k BY <2>5, <3>1, <3>2, LineReads
    <3>4. i <= j BY <1>1, <3>3 DEF LastIn
    <3>5. i \in 1..Len(at) /\ j \in 1..Len(at) BY <1>0, <2>1
    <3>6. at[i] \in Nat \X Nat /\ at[j] \in Nat \X Nat BY <3>5 DEF ReadsFirst, Laid
    <3>7. CASE i = j BY <3>2, <3>6, <3>7 DEF Before
    <3>8. CASE i < j
      <4>1. Precedes(at[i], at[j]) BY <3>5, <3>8 DEF ReadsFirst, Laid, Ascending
      <4> QED BY <3>2, <3>6, <4>1 DEF Precedes, Before
    <3>9. i = j \/ i < j BY <3>4, <3>5
    <3> QED BY <3>7, <3>8, <3>9
  <2>6. x \in Latest(Scanned(fs, Limit(c))) BY <2>3, <2>4, <2>5 DEF Latest
  <2> QED BY <2>4, <2>6, PopulateFact
<1>2. ASSUME k \in DOMAIN Populate(c, fs)
      PROVE  \E j : /\ LastIn(entries, n, k, j) /\ entries[j].rec.op = "put"
                    /\ Follows(c, fs, Populate(c, fs)[k], entries[j].rec, at[j])
  <2>1. PICK x : Indexes(c, fs, k, x) BY <1>2, PopulateFact
  <2>2. PICK q : LastIn(entries, n, k, q) /\ entries[q].rec.op = "put" /\ x.at = at[q]
    BY <2>1, IndexesLast
  <2>3. q \in 1..n /\ entries[q].rec.key = k BY <2>2 DEF LastIn
  <2>4. /\ Populate(c, fs)[k].value = LineRecord(fs, at[q]).value
        /\ c.IndexFormat = "position" => Populate(c, fs)[k].loc = LineLocation(fs, at[q])
    BY <2>1, <2>2 DEF Indexes
  <2>5. Plain(entries[q].rec.value) => LineRecord(fs, at[q]).value = entries[q].rec.value
    BY <2>2, <2>3, LineReads
  <2>6. Follows(c, fs, Populate(c, fs)[k], entries[q].rec, at[q]) BY <2>4, <2>5 DEF Follows
  <2> QED BY <2>2, <2>6
<1>3. \A i, j : LastIn(entries, n, k, i) /\ LastIn(entries, n, k, j) => i = j
  BY <1>0 DEF LastIn
<1> QED BY <1>1, <1>2, <1>3

\* The lines that are read whole are the first ones, if none is skipped.
LEMMA FirstLines ==
  ASSUME NEW fs, NEW entries, NEW at, Laid(fs, entries, at), NEW W, W \subseteq WholeLinesOf(fs),
         \A i, j \in 1..Len(at) : i < j /\ at[j] \in W => at[i] \in W
  PROVE  /\ Cardinality(W) \in Nat /\ Cardinality(W) <= Len(at)
         /\ \A j \in 1..Len(at) : at[j] \in W <=> j <= Cardinality(W)
<1>1. /\ \A p : p \in WholeLinesOf(fs) <=> \E j \in 1..Len(at) : at[j] = p
      /\ \A i, j \in 1..Len(at) : at[i] = at[j] => i = j
  BY LaidCount
<1>2. Len(at) \in Nat /\ at = [j \in 1..Len(at) |-> at[j]] BY DEF Laid
<1>3. \E m \in Nat : m <= Len(at) /\ \A j \in 1..Len(at) : at[j] \in W <=> j <= m
  <2> DEFINE N == {j \in 1..Len(at) : at[j] \in W}
  <2>1. CASE N = {}
    <3>1. 0 \in Nat /\ 0 <= Len(at) /\ \A j \in 1..Len(at) : at[j] \in W <=> j <= 0
      BY <1>2, <2>1
    <3> QED BY <3>1
  <2>2. CASE N # {}
    <3>1. N \in SUBSET Nat /\ \A j \in N : j <= Len(at) BY <1>2
    <3> HIDE DEF N
    <3>2. PICK m \in N : \A j \in N : j <= m BY <1>2, <2>2, <3>1, GreatestElement
    <3>3. m \in Nat /\ m <= Len(at) /\ m \in 1..Len(at) /\ at[m] \in W BY <3>2 DEF N
    <3>4. ASSUME NEW j \in 1..Len(at) PROVE at[j] \in W <=> j <= m
      <4>1. at[j] \in W => j <= m BY <3>2 DEF N
      <4>2. j < m => at[j] \in W BY <3>3
      <4>3. j <= m => j < m \/ j = m BY <3>3
      <4> QED BY <3>3, <4>1, <4>2, <4>3
    <3> QED BY <3>3, <3>4
  <2> QED BY <2>1, <2>2
<1>4. PICK m \in Nat : m <= Len(at) /\ \A j \in 1..Len(at) : at[j] \in W <=> j <= m BY <1>3
<1> DEFINE f == [j \in 1..m |-> at[j]]
<1>5. \A j \in 1..m : j \in 1..Len(at) BY <1>2, <1>4
<1>6. f \in [1..m -> W]
  <2>1. \A j \in 1..m : at[j] \in W BY <1>4, <1>5
  <2> QED BY <2>1
<1>7. f \in Injection(1..m, W)
  <2>1. \A i, j \in 1..m : f[i] = f[j] => i = j BY <1>1, <1>5
  <2> QED BY <1>6, <2>1 DEF Injection, IsInjective
<1>8. f \in Surjection(1..m, W)
  <2>1. ASSUME NEW p \in W PROVE \E j \in 1..m : f[j] = p
    <3>1. PICK j \in 1..Len(at) : at[j] = p BY <1>1
    <3>2. j \in 1..m BY <1>2, <1>4, <3>1
    <3> QED BY <3>1, <3>2
  <2> QED BY <1>6, <2>1 DEF Surjection
<1> HIDE DEF f
<1>9. ExistsBijection(1..m, W) BY <1>7, <1>8 DEF Bijection, ExistsBijection
<1>10. IsFiniteSet(1..m) /\ Cardinality(1..m) = m BY IntervalFact
<1>11. Cardinality(W) = m BY <1>9, <1>10, FS_Bijection
<1> QED BY <1>4, <1>11

\* A start that succeeds has read the lines in order: only the one file's last ones may be
\* missing.
LEMMA ReadInOrder ==
  ASSUME NEW c, NEW fs, NEW entries, NEW at, Laid(fs, entries, at), ~PopulateErrs(c, fs),
         c.StorageFormat = "simple" => DOMAIN fs \subseteq {0},
         NEW i \in 1..Len(at), NEW j \in 1..Len(at), i < j, at[j] \in WholeLines(c, fs)
  PROVE  at[i] \in WholeLines(c, fs)
<1>1. CASE \A x \in DOMAIN fs : ~ScanErrs(fs[x], Limit(c))
  <2>1. WholeLines(c, fs) = WholeLinesOf(fs) BY <1>1, AllDelivered
  <2> QED BY <2>1, LaidCount
<1>2. CASE DOMAIN fs \subseteq {0}
  <2>1. at[i] \in WholeLinesOf(fs) BY LaidCount
  <2>2. PICK x \in DOMAIN fs : at[i] \in {x} \X NewLines(fs[x]) BY <2>1 DEF WholeLinesOf
  <2>3. PICK y \in DOMAIN fs : at[j] \in {y} \X (NewLines(fs[y]) \cap Delivered(fs[y], Limit(c)))
    BY DEF WholeLines
  <2>4. x = 0 /\ y = 0 BY <1>2
  <2> DEFINE p == at[i][2]
             q == at[j][2]
  <2>5. /\ at[i] = <<0, p>> /\ p \in NewLines(fs[0])
        /\ at[j] = <<0, q>> /\ q \in NewLines(fs[0]) /\ q \in Delivered(fs[0], Limit(c))
    BY <2>2, <2>3, <2>4
  <2>6. Precedes(at[i], at[j]) BY DEF Laid, Ascending
  <2>7. p < q
    <3>1. at[i][1] = 0 /\ at[j][1] = 0 BY <2>5
    <3> QED BY <2>6, <3>1 DEF Precedes
  <2> HIDE DEF p, q
  <2>8. fs[0] \in Bytes BY <2>3, <2>4 DEF Laid, Typed
  <2>9. p \in Nat /\ q \in Nat /\ \A e \in LineEnds(fs[0]) : e \in Nat
    <3>1. Len(fs[0]) \in Nat /\ NewLines(fs[0]) \subseteq 1..Len(fs[0]) BY <2>8, NewLinesFact
    <3>2. \A e \in LineEnds(fs[0]) : e \in NewLines(fs[0]) \/ e = Len(fs[0]) + 1 BY DEF LineEnds
    <3> QED BY <2>5, <3>1, <3>2
  <2>10. \A e \in LineEnds(fs[0]) : e <= p => e <= q BY <2>7, <2>9
  <2>11. p \in Delivered(fs[0], Limit(c))
    <3>1. p \in LineEnds(fs[0]) BY <2>5 DEF LineEnds
    <3>2. \A e \in LineEnds(fs[0]) : e <= p => ~TooLong(fs[0], e, Limit(c))
      BY <2>5, <2>10 DEF Delivered
    <3> QED BY <3>1, <3>2 DEF Delivered
  <2>12. at[i] \in {0} \X (NewLines(fs[0]) \cap Delivered(fs[0], Limit(c))) BY <2>5, <2>11
  <2>13. 0 \in DOMAIN fs BY <2>2, <2>4
  <2> QED BY <2>12, <2>13 DEF WholeLines
<1> QED BY <1>1, <1>2 DEF PopulateErrs

\* What a start reads, if it succeeds, are the first entries.
LEMMA ReadsThose ==
  ASSUME NEW c, NEW fs, NEW entries, NEW at, Laid(fs, entries, at), ~PopulateErrs(c, fs),
         c.StorageFormat = "simple" => DOMAIN fs \subseteq {0}
  PROVE  LET n == Cardinality(WholeLines(c, fs))
         IN  /\ ReadsFirst(c, fs, entries, at, n)
             /\ \A j \in 1..Len(at) : at[j] \in WholeLines(c, fs) <=> j <= n
<1> DEFINE n == Cardinality(WholeLines(c, fs))
<1>1. WholeLines(c, fs) \subseteq WholeLinesOf(fs) BY DEF WholeLines, WholeLinesOf
<1>2. \A i, j \in 1..Len(at) : i < j /\ at[j] \in WholeLines(c, fs) => at[i] \in WholeLines(c, fs)
  BY ReadInOrder
<1>3. /\ n \in Nat /\ n <= Len(at)
      /\ \A j \in 1..Len(at) : at[j] \in WholeLines(c, fs) <=> j <= n
  BY <1>1, <1>2, FirstLines
<1> HIDE DEF n
<1>4. Len(at) \in Nat /\ \A q \in 1..n : q \in 1..Len(at) /\ q <= n
  <2>1. Len(at) \in Nat BY DEF Laid
  <2> QED BY <1>3, <2>1
<1>5. \A q \in 1..n : at[q] \in Lines(fs, Limit(c))
  <2>1. WholeLines(c, fs) \subseteq Lines(fs, Limit(c)) BY DEF WholeLines, Lines
  <2> QED BY <1>3, <1>4, <2>1
<1>6. Typed(fs) BY DEF Laid
<1>7. ASSUME NEW p \in Lines(fs, Limit(c))
      PROVE  /\ Decodes(LineAt(fs[p[1]], p[2]))
             /\ p[2] = Len(fs[p[1]]) + 1 \/ \E q \in 1..n : p = at[q]
  <2>1. /\ p = <<p[1], p[2]>> /\ p[1] \in DOMAIN fs /\ p[2] \in Delivered(fs[p[1]], Limit(c))
        /\ p[2] \in LineEnds(fs[p[1]])
    BY <1>6, LinesFact
  <2>2. Decodes(LineAt(fs[p[1]], p[2])) BY <2>1 DEF PopulateErrs, DecodeErrs
  <2>3. CASE p[2] \in NewLines(fs[p[1]])
    <3>1. p \in {p[1]} \X (NewLines(fs[p[1]]) \cap Delivered(fs[p[1]], Limit(c))) BY <2>1, <2>3
    <3>2. p \in WholeLines(c, fs) BY <2>1, <3>1 DEF WholeLines
    <3>3. PICK j \in 1..Len(at) : at[j] = p BY <1>1, <3>2, LaidCount
    <3>4. j \in 1..n BY <1>3, <1>4, <3>2, <3>3
    <3> QED BY <2>2, <3>3, <3>4
  <2>4. CASE p[2] = Len(fs[p[1]]) + 1 BY <2>2, <2>4
  <2> QED BY <2>1, <2>3, <2>4 DEF LineEnds
<1> QED BY <1>3, <1>5, <1>7 DEF ReadsFirst, n

\* A line is among those read if it fits the scanner and so does every line before it.
LEMMA FittingRead ==
  ASSUME NEW c, Limit(c) \in Nat, NEW fs, NEW entries, NEW at, Laid(fs, entries, at),
         NEW j \in 1..Len(at), \A i \in 1..j : Len(Encode(entries[i].rec)) <= Limit(c)
  PROVE  at[j] \in WholeLines(c, fs)
<1> DEFINE x == at[j][1]
           p == at[j][2]
<1>1. x \in DOMAIN fs /\ LineOf(fs, entries, at, j, x, p) BY PlacedLine
<1>2. at[j] = <<x, p>> /\ p \in NewLines(fs[x]) BY <1>1 DEF LineOf
<1> HIDE DEF x, p
<1>3. fs[x] \in Bytes BY <1>1 DEF Laid, Typed
<1>4. Len(fs[x]) \in Nat /\ p \in 1..Len(fs[x]) BY <1>2, <1>3, NewLinesFact
<1>5. ASSUME NEW e \in LineEnds(fs[x]), e <= p PROVE ~TooLong(fs[x], e, Limit(c))
  <2>1. e \in NewLines(fs[x])
    <3>1. e # Len(fs[x]) + 1 BY <1>4, <1>5
    <3> QED BY <3>1 DEF LineEnds
  <2>2. PICK i : LineOf(fs, entries, at, i, x, e) BY <1>1, <2>1, WholeLine
  <2>3. i \in 1..Len(at) /\ at[i] = <<x, e>> BY <2>2 DEF LineOf
  <2>4. ~(j < i)
    <3>1. j < i => Precedes(at[j], at[i]) BY <2>3 DEF Laid, Ascending
    <3>2. at[j][1] = x /\ at[j][2] = p /\ at[i][1] = x /\ at[i][2] = e BY <1>2, <2>3
    <3>3. e \in Nat /\ x \in Nat
      <4>1. e \in 1..Len(fs[x]) BY <1>3, <2>1, NewLinesFact
      <4> QED BY <1>1, <1>4, <4>1 DEF Laid
    <3> QED BY <1>4, <1>5, <3>1, <3>2, <3>3 DEF Precedes
  <2>5. i \in 1..j
    <3>1. Len(at) \in Nat BY DEF Laid
    <3> QED BY <2>3, <2>4, <3>1
  <2> QED BY <2>2, <2>5, LineFits
<1>6. p \in Delivered(fs[x], Limit(c)) BY <1>2, <1>5 DEF Delivered, LineEnds
<1>7. at[j] \in {x} \X (NewLines(fs[x]) \cap Delivered(fs[x], Limit(c))) BY <1>2, <1>6
<1> QED BY <1>1, <1>7 DEF WholeLines

-----------------------------------------------------------------------------
(* What is left of the log. *)

\* What an entry leaves of its key.
Left(entry) == IF entry.rec.op = "del" THEN NotFound ELSE entry.rec.value

\* The greatest of some of the numbers up to n.
LEMMA LastFact ==
  ASSUME NEW n \in Nat, NEW T, T \subseteq 1..n
  PROVE  /\ T # {} => Max(T) \in T
         /\ \A j : j \in T /\ (\A i \in T : i <= j) => Max(T) = j
<1>1. T \in SUBSET Nat /\ T \subseteq 0..n OBVIOUS
<1>2. T # {} => Max(T) \in T /\ \A x \in T : x <= Max(T) BY <1>1, MaxFact
<1>3. ASSUME NEW j \in T, \A i \in T : i <= j PROVE Max(T) = j
  <2>1. Max(T) \in T /\ j <= Max(T) BY <1>2
  <2>2. Max(T) <= j BY <1>3, <2>1
  <2>3. Max(T) \in Nat /\ j \in Nat BY <1>1, <2>1
  <2> QED BY <2>1, <2>2, <2>3
<1> QED BY <1>2, <1>3

\* What the first n records make of a key is left by the last of them that has it.
LEMMA ReplayedFact ==
  ASSUME NEW n \in Nat, NEW k
  PROVE  /\ \A j : LastIn(log, n, k, j) => Replayed(n, k) = Left(log[j])
         /\ \/ \E j : LastIn(log, n, k, j)
            \/ Replayed(n, k) = NotFound
<1> DEFINE T == {j \in 1..n : log[j].rec.key = k}
<1>1. Replayed(n, k) = IF T = {} \/ log[Max(T)].rec.op = "del"
                       THEN NotFound ELSE log[Max(T)].rec.value
  BY DEF Replayed, LastOf
<1>2. T \subseteq 1..n OBVIOUS
<1>3. ASSUME NEW j, LastIn(log, n, k, j) PROVE T # {} /\ Max(T) = j
  <2>1. j \in T /\ \A i \in T : i <= j BY <1>3 DEF LastIn
  <2> HIDE DEF T
  <2> QED BY <1>2, <2>1, LastFact
<1>4. T # {} => \E j : LastIn(log, n, k, j)
  <2> SUFFICES ASSUME T # {} PROVE \E j : LastIn(log, n, k, j) OBVIOUS
  <2>1. T \in SUBSET Nat /\ T \subseteq 0..n OBVIOUS
  <2>2. Max(T) \in T /\ \A i \in T : i <= Max(T)
    <3> HIDE DEF T
    <3> QED BY <2>1, MaxFact
  <2>3. LastIn(log, n, k, Max(T)) BY <2>2 DEF LastIn
  <2> QED BY <2>3
<1> HIDE DEF T
<1> QED BY <1>1, <1>3, <1>4 DEF Left

\* The first records are what a start after a kill at this instant reads.
LEMMA KillReads ==
  ASSUME Base, Core, ~damaged, ~PopulateErrs(cfg, files)
  PROVE  LET n == Len(Kept(cfg, files))
         IN  \E at : /\ ReadsFirst(cfg, files, log, at, n)
                     /\ \A j \in 1..Len(at) : at[j] \in WholeLines(cfg, files) <=> j <= n
<1>1. PICK at : Laid(files, log, at)
  <2>1. CASE status \in Opening
    <3>1. Tidy(files, writer) /\ Recorded(files, writer, log) BY <2>1 DEF Base, Core
    <3> QED BY <3>1, FilesLaid
  <2>2. CASE status \notin Opening BY <2>2 DEF Core
  <2> QED BY <2>1, <2>2
<1> DEFINE m == Cardinality(WholeLines(cfg, files))
<1>2. cfg.StorageFormat = "simple" => DOMAIN files \subseteq {0} BY DEF Base, Simple
<1>3. /\ ReadsFirst(cfg, files, log, at, m)
      /\ \A j \in 1..Len(at) : at[j] \in WholeLines(cfg, files) <=> j <= m
  BY <1>1, <1>2, ReadsThose
<1> HIDE DEF m
<1>4. m <= Len(log)
  <2>1. m \in Nat /\ Len(at) \in Nat /\ m <= Len(at) /\ Len(at) <= Len(log)
    BY <1>3 DEF ReadsFirst, Laid
  <2>2. Len(log) \in Nat BY DEF Base
  <2> QED BY <2>1, <2>2
<1>5. Typed(files) /\ Bounded(files) BY DEF Base, IInv
<1>6. Len(Kept(cfg, files)) = m BY <1>4, <1>5, KeptFact DEF m
<1> QED BY <1>3, <1>6

\* The log's entries are clients' records.
LEMMA LogFact ==
  ASSUME Base, NEW j \in 1..Len(log)
  PROVE  log[j] \in Entry /\ log[j].rec \in ClientRecords
<1>1. log[j] \in Entry
  <2> DEFINE S == Entry
  <2>1. log \in Seq(S) BY DEF Base
  <2> HIDE DEF S
  <2>2. log[j] \in S BY <2>1
  <2> QED BY <2>2 DEF S
<1> QED BY <1>1 DEF Entry

\* A put's value is an answer of its own.
LEMMA PutAnswers ==
  ASSUME NEW r \in ClientRecords, r.op = "put"
  PROVE  r.value # NotFound
<1>1. \/ \E version \in Versions, p \in Puts : r = PutRecord(version, p[1], p[2])
      \/ \E version \in Versions, d \in Deletes : r = DelRecord(version, d)
  BY DEF ClientRecords
<1>2. ~\E version \in Versions, d \in Deletes : r = DelRecord(version, d)
  BY DEF DelRecord
<1>3. PICK version \in Versions, p \in Puts : r = PutRecord(version, p[1], p[2])
  BY <1>1, <1>2
<1> QED BY <1>3, AnswerAssumption DEF PutRecord

\* Whatever a kill leaves, a start that succeeds has the first records of the log: those
\* that are on the disk and fit the scanner among them, and each key as they make it.
THEOREM KillsKeepPrefix == Spec => []KillKeepsPrefix
<1>1. Base /\ Core => KillKeepsPrefix
  <2> SUFFICES ASSUME Base, Core, ~damaged, ~PopulateErrs(cfg, files)
               PROVE  LET n == Len(Kept(cfg, files))
                          next == Populate(cfg, files)
                      IN  /\ \A j \in DOMAIN log :
                               /\ log[j].survived \/ log[j].synced
                               /\ \A i \in 1..j : Fits(log[i].rec)
                               => j <= n
                          /\ \A k \in PlainKeys \ TornKeys :
                               Unaltered(Replayed(n, k)) =>
                                 Replayed(n, k) =
                                   IF k \in DOMAIN next THEN next[k].value ELSE NotFound
    BY DEF KillKeepsPrefix
  <2> DEFINE n == Len(Kept(cfg, files))
             next == Populate(cfg, files)
  <2>1. PICK at : /\ ReadsFirst(cfg, files, log, at, n)
                  /\ \A j \in 1..Len(at) : at[j] \in WholeLines(cfg, files) <=> j <= n
    BY KillReads
  <2>2. Laid(files, log, at) /\ n \in Nat BY <2>1 DEF ReadsFirst
  <2>3. Len(at) \in Nat /\ Len(log) \in Nat /\ DOMAIN log = 1..Len(log) BY <2>2 DEF Laid, Base
  <2>4. ASSUME NEW j \in DOMAIN log, log[j].survived \/ log[j].synced,
               \A i \in 1..j : Fits(log[i].rec)
        PROVE  j <= n
    <3>1. Durable(files, log) BY DEF Core
    <3>2. Cardinality(WholeLinesOf(files)) = Len(at) BY <2>2, LaidCount
    <3>3. j <= Len(at) BY <2>3, <2>4, <3>1, <3>2 DEF Durable
    <3>4. j \in 1..Len(at) BY <2>3, <3>3
    <3>5. Limit(cfg) \in Nat BY DEF Base, Limit
    <3>6. at[j] \in WholeLines(cfg, files) BY <2>2, <2>4, <3>4, <3>5, FittingRead DEF Fits
    <3> QED BY <2>1, <3>4, <3>6
  <2>5. ASSUME NEW k \in PlainKeys \ TornKeys, Unaltered(Replayed(n, k))
        PROVE  Replayed(n, k) = IF k \in DOMAIN next THEN next[k].value ELSE NotFound
    <3>1. Plain(k) BY DEF PlainKeys
    <3>2. NotTorn(cfg, files, k) BY DEF TornKeys, NotTorn
    <3> HIDE DEF n
    <3>3. /\ \A j : LastIn(log, n, k, j) /\ log[j].rec.op = "put" =>
               /\ k \in DOMAIN next
               /\ Follows(cfg, files, next[k], log[j].rec, at[j])
          /\ k \in DOMAIN next => \E j : LastIn(log, n, k, j) /\ log[j].rec.op = "put"
      BY <2>1, <3>1, <3>2, PopulateLast
    <3> HIDE DEF next
    <3>4. CASE k \in DOMAIN next
      <4>1. PICK j : LastIn(log, n, k, j) /\ log[j].rec.op = "put" BY <3>3, <3>4
      <4>2. Replayed(n, k) = log[j].rec.value BY <2>2, <4>1, ReplayedFact DEF Left
      <4>3. j \in 1..Len(log)
        <5>1. n <= Len(log) BY <2>1, <2>2, <2>3 DEF ReadsFirst, Laid
        <5> QED BY <2>2, <2>3, <4>1, <5>1 DEF LastIn
      <4>4. log[j].rec \in ClientRecords BY <4>3, LogFact
      <4>5. log[j].rec.value # NotFound BY <4>1, <4>4, PutAnswers
      <4>6. Plain(log[j].rec.value) BY <2>5, <4>2, <4>5 DEF Unaltered
      <4>7. next[k].value = log[j].rec.value BY <3>3, <4>1, <4>6 DEF Follows
      <4> QED BY <3>4, <4>2, <4>7
    <3>5. CASE k \notin DOMAIN next
      <4>1. \A j : LastIn(log, n, k, j) => log[j].rec.op # "put" BY <3>3, <3>5
      <4>2. \A j : LastIn(log, n, k, j) => log[j].rec.op = "del"
        <5> SUFFICES ASSUME NEW j, LastIn(log, n, k, j) PROVE log[j].rec.op = "del" OBVIOUS
        <5>1. j \in 1..Len(log)
          <6>1. n <= Len(log) BY <2>1, <2>2, <2>3 DEF ReadsFirst, Laid
          <6> QED BY <2>2, <2>3, <6>1 DEF LastIn
        <5>2. log[j].rec \in ClientRecords BY <5>1, LogFact
        <5> QED BY <4>1, <5>2, RecordFact
      <4>3. Replayed(n, k) = NotFound BY <2>2, <4>2, ReplayedFact DEF Left
      <4> QED BY <3>5, <4>3
    <3> QED BY <3>4, <3>5
  <2> QED BY <2>4, <2>5
<1> QED BY <1>1, InitBase, NextBase, NextCore, PTL DEF Spec

-----------------------------------------------------------------------------
(* What a running store's index says of the acknowledged writes. *)

\* An entry a client may rely on.
Acked(entry) == entry.survived \/ entry.answer \in {201, 204}

\* The last such entry that has the key.
LastAcked(entries, k, j) ==
  /\ j \in 1..Len(entries) /\ entries[j].rec.key = k /\ Acked(entries[j])
  /\ \A i \in 1..Len(entries) : entries[i].rec.key = k /\ Acked(entries[i]) => i <= j

\* The bytes at a location are in the file, not in the buffer.
Filed(fs, loc) == loc.offset + loc.size <= Len(fs[loc.id])

\* An index entry leads to a record: to its place, which is in the file if every write
\* is synced, or to its value if that is plain.
LeadsTo(c, fs, w, entry, r) ==
  IF c.IndexFormat = "position"
  THEN /\ Held(fs, w, entry.loc, r)
       /\ c.SyncPolicy = "every-write" => Filed(fs, entry.loc)
  ELSE Plain(r.value) => entry.value = r.value

\* The plain keys of the index are those last put, and lead to their records.
Indexed(c, fs, w, entries, history) ==
  \A k \in PlainKeys :
    /\ \A j : LastAcked(history, k, j) /\ history[j].rec.op = "put" =>
         k \in DOMAIN entries /\ LeadsTo(c, fs, w, entries[k], history[j].rec)
    /\ k \in DOMAIN entries => \E j : LastAcked(history, k, j) /\ history[j].rec.op = "put"

IndexRight == status = "running" /\ ~damaged => Indexed(cfg, files, writer, index, log)

\* The last acknowledged write of a key is what its last such entry leaves.
LEMMA AcknowledgedFact ==
  ASSUME Base, NEW k
  PROVE  /\ \A j : LastAcked(log, k, j) => Acknowledged(k) = Left(log[j])
         /\ \/ \E j : LastAcked(log, k, j)
            \/ Acknowledged(k) = NotFound
<1> DEFINE T == {j \in 1..Len(log) : log[j].rec.key = k /\ Acked(log[j])}
<1>0. Len(log) \in Nat BY DEF Base
<1>1. Acknowledged(k) = IF T = {} \/ log[Max(T)].rec.op = "del"
                        THEN NotFound ELSE log[Max(T)].rec.value
  BY DEF Acknowledged, LastOf, Acked
<1>2. T \subseteq 1..Len(log) OBVIOUS
<1>3. ASSUME NEW j, LastAcked(log, k, j) PROVE T # {} /\ Max(T) = j
  <2>1. j \in T /\ \A i \in T : i <= j BY <1>3 DEF LastAcked
  <2> HIDE DEF T
  <2> QED BY <1>0, <1>2, <2>1, LastFact
<1>4. T # {} => \E j : LastAcked(log, k, j)
  <2> SUFFICES ASSUME T # {} PROVE \E j : LastAcked(log, k, j) OBVIOUS
  <2>1. T \in SUBSET Nat /\ T \subseteq 0..Len(log) BY <1>0
  <2>2. Max(T) \in T /\ \A i \in T : i <= Max(T)
    <3> HIDE DEF T
    <3> QED BY <1>0, <2>1, MaxFact
  <2>3. LastAcked(log, k, Max(T)) BY <2>2 DEF LastAcked
  <2> QED BY <2>3
<1> HIDE DEF T
<1> QED BY <1>1, <1>3, <1>4 DEF Left

\* An entry nobody may rely on changes no key's last one.
LEMMA NotAcked ==
  ASSUME NEW S, NEW entries \in Seq(S), NEW x, ~Acked(x)
  PROVE  \A k, j : /\ LastAcked(Append(entries, x), k, j) <=> LastAcked(entries, k, j)
                   /\ LastAcked(entries, k, j) => Append(entries, x)[j] = entries[j]
<1> DEFINE longer == Append(entries, x)
           n == Len(entries)
<1>1. /\ n \in Nat /\ Len(longer) = n + 1 /\ longer[n + 1] = x
      /\ \A i \in 1..n : longer[i] = entries[i]
  OBVIOUS
<1> HIDE DEF longer, n
<1>2. \A i \in 1..(n + 1) : i \in 1..n \/ i = n + 1 BY <1>1
<1>3. \A i \in 1..n : i \in 1..(n + 1) BY <1>1
<1> QED BY <1>1, <1>2, <1>3 DEF LastAcked, longer, n

\* An acknowledged one is the last of its key, and of no other.
LEMMA NewlyAcked ==
  ASSUME NEW S, NEW entries \in Seq(S), NEW x, Acked(x), NEW k, NEW j
  PROVE  /\ x.rec.key = k => (LastAcked(Append(entries, x), k, j) <=> j = Len(entries) + 1)
         /\ Append(entries, x)[Len(entries) + 1] = x
         /\ x.rec.key # k =>
              /\ LastAcked(Append(entries, x), k, j) <=> LastAcked(entries, k, j)
              /\ LastAcked(entries, k, j) => Append(entries, x)[j] = entries[j]
<1> DEFINE longer == Append(entries, x)
           n == Len(entries)
<1>1. /\ n \in Nat /\ Len(longer) = n + 1 /\ longer[n + 1] = x
      /\ \A i \in 1..n : longer[i] = entries[i]
  OBVIOUS
<1> HIDE DEF longer, n
<1>2. \A i \in 1..(n + 1) : i \in 1..n \/ i = n + 1 BY <1>1
<1>3. n + 1 \in 1..(n + 1) /\ \A i \in 1..n : i \in 1..(n + 1) /\ i # n + 1 BY <1>1
<1>4. ASSUME x.rec.key = k PROVE LastAcked(longer, k, j) <=> j = n + 1
  <2>1. LastAcked(longer, k, j) => j = n + 1
    <3> SUFFICES ASSUME LastAcked(longer, k, j) PROVE j = n + 1 OBVIOUS
    <3>1. j \in 1..(n + 1) /\ n + 1 <= j BY <1>1, <1>3, <1>4 DEF LastAcked
    <3> QED BY <1>1, <3>1
  <2>2. \A i \in 1..(n + 1) : i <= n + 1 BY <1>1
  <2>3. LastAcked(longer, k, n + 1) BY <1>1, <1>3, <1>4, <2>2 DEF LastAcked
  <2> QED BY <2>1, <2>3
<1>5. ASSUME x.rec.key # k
      PROVE  /\ LastAcked(longer, k, j) <=> LastAcked(entries, k, j)
             /\ LastAcked(entries, k, j) => longer[j] = entries[j]
  BY <1>1, <1>2, <1>3, <1>5 DEF LastAcked, n
<1> QED BY <1>1, <1>4, <1>5 DEF longer, n

\* What is in a file stays in it.
LEMMA FiledEvolves ==
  ASSUME NEW fs, NEW w, NEW gs, NEW v, Tidy(fs, w), Keeps(fs, w, gs, v),
         NEW loc, NEW r, Held(fs, w, loc, r), r \in ClientRecords, Filed(fs, loc)
  PROVE  Filed(gs, loc)
<1>1. loc.id \in DOMAIN fs /\ loc.offset \in Nat /\ loc.size = Len(Encode(r)) BY DEF Held
<1>2. Len(Encode(r)) \in Nat BY EncodeFact
<1>3. Typed(fs) /\ Typed(gs) BY ContentsFact DEF Keeps
<1>4. loc.id \in DOMAIN gs /\ Begins(fs[loc.id], gs[loc.id])
  BY <1>1 DEF Keeps, Evolves, Grown
<1>5. fs[loc.id] \in Bytes /\ gs[loc.id] \in Bytes BY <1>1, <1>3, <1>4 DEF Typed
<1>6. Len(fs[loc.id]) \in Nat /\ Len(gs[loc.id]) \in Nat BY <1>5, NewLinesFact
<1>7. Len(fs[loc.id]) <= Len(gs[loc.id]) BY <1>4 DEF Begins
<1> QED BY <1>1, <1>2, <1>6, <1>7 DEF Filed

\* What is held when the buffer is empty and no write has failed is in a file.
LEMMA UnbufferedFiled ==
  ASSUME NEW fs, NEW w, Tidy(fs, w), ~w.err, w.buf = <<>>, NEW loc, NEW r, Held(fs, w, loc, r)
  PROVE  Filed(fs, loc)
<1>1. SameFiles(fs, Contents(fs, w)) BY ContentsFact
<1>2. Contents(fs, w)[loc.id] = fs[loc.id] BY <1>1 DEF Held, SameFiles
<1>3. loc.offset + loc.size <= Len(Contents(fs, w)[loc.id]) BY DEF Held
<1> QED BY <1>2, <1>3 DEF Filed

\* Where an entry leads to, it still does when the files have evolved.
LEMMA LeadsStill ==
  ASSUME NEW fs, NEW w, NEW gs, NEW v, Tidy(fs, w), Keeps(fs, w, gs, v),
         NEW c, NEW entry, NEW r \in ClientRecords, LeadsTo(c, fs, w, entry, r)
  PROVE  LeadsTo(c, gs, v, entry, r)
<1>1. CASE c.IndexFormat = "position"
  <2>1. Held(fs, w, entry.loc, r) /\ (c.SyncPolicy = "every-write" => Filed(fs, entry.loc))
    BY <1>1 DEF LeadsTo
  <2>2. Held(gs, v, entry.loc, r) BY <2>1, HeldEvolves DEF Keeps
  <2>3. c.SyncPolicy = "every-write" => Filed(gs, entry.loc) BY <2>1, FiledEvolves
  <2> QED BY <1>1, <2>2, <2>3 DEF LeadsTo
<1>2. CASE c.IndexFormat # "position" BY <1>2 DEF LeadsTo
<1> QED BY <1>1, <1>2

\* A request that fails leaves the index right.
LEMMA FailedIndexed ==
  ASSUME NEW fs, NEW w, NEW gs, NEW v, Tidy(fs, w), Keeps(fs, w, gs, v),
         NEW c, NEW entries, NEW history \in Seq(Entry), Indexed(c, fs, w, entries, history),
         NEW longer, longer = history \/ \E x : longer = Append(history, x) /\ ~Acked(x)
  PROVE  Indexed(c, gs, v, entries, longer)
<1>1. \A k, j : /\ LastAcked(longer, k, j) <=> LastAcked(history, k, j)
                /\ LastAcked(history, k, j) => longer[j] = history[j]
  <2> DEFINE S == Entry
  <2>1. history \in Seq(S) OBVIOUS
  <2> HIDE DEF S
  <2>2. CASE longer = history BY <2>2
  <2>3. ASSUME NEW x, longer = Append(history, x), ~Acked(x)
        PROVE  \A k, j : /\ LastAcked(longer, k, j) <=> LastAcked(history, k, j)
                         /\ LastAcked(history, k, j) => longer[j] = history[j]
    <3>1. \A k, j : /\ LastAcked(Append(history, x), k, j) <=> LastAcked(history, k, j)
                    /\ LastAcked(history, k, j) => Append(history, x)[j] = history[j]
      BY <2>1, <2>3, NotAcked
    <3> QED BY <2>3, <3>1
  <2> QED BY <2>2, <2>3
<1>2. \A k, j : LastAcked(history, k, j) => history[j].rec \in ClientRecords
  <2> DEFINE S == Entry
  <2>1. history \in Seq(S) OBVIOUS
  <2>2. \A x \in S : x.rec \in ClientRecords BY DEF Entry
  <2> HIDE DEF S
  <2>3. \A j \in 1..Len(history) : history[j] \in S BY <2>1
  <2> QED BY <2>2, <2>3 DEF LastAcked
<1> QED BY <1>1, <1>2, LeadsStill DEF Indexed

\* What a request that succeeds makes of the index.
Updated(entries, next, r, loc) ==
  /\ r.op = "put" => /\ DOMAIN next = DOMAIN entries \cup {r.key}
                     /\ next[r.key] = EntryToPut(r.value, loc)
                     /\ \A k \in DOMAIN entries : k # r.key => next[k] = entries[k]
  /\ r.op = "del" => /\ DOMAIN next = DOMAIN entries \ {r.key}
                     /\ \A k \in DOMAIN entries : k # r.key => next[k] = entries[k]

\* A request that succeeds leaves it right too.
LEMMA TakenIndexed ==
  ASSUME NEW fs, NEW w, NEW gs, NEW v, Tidy(fs, w), Keeps(fs, w, gs, v),
         NEW entries, NEW history \in Seq(Entry), Indexed(cfg, fs, w, entries, history),
         NEW r \in ClientRecords, NEW o, o.ok, Held(gs, v, o.loc, r),
         EveryWrite => Filed(gs, o.loc), NEW next, Updated(entries, next, r, o.loc)
  PROVE  Indexed(cfg, gs, v, next, Append(history, NewEntry(r, o)))
<1> DEFINE x == NewEntry(r, o)
           longer == Append(history, x)
           n == Len(history)
           S == Entry
<1>1. Acked(x) /\ x.rec = r
  <2>1. x.answer = Answer(r.op, o.ok) /\ x.rec = r BY DEF NewEntry
  <2> HIDE DEF x
  <2> QED BY <2>1 DEF Answer, Acked
<1>2. r.op \in {"put", "del"} BY RecordFact
<1>3. history \in Seq(S) /\ \A y \in S : y.rec \in ClientRecords BY DEF Entry
<1> HIDE DEF x, S
<1>5. \A j : LastAcked(longer, r.key, j) <=> j = n + 1 BY <1>1, <1>3, NewlyAcked
<1>6. longer[n + 1] = x BY <1>1, <1>3, NewlyAcked
<1>7. \A k, j : k # r.key =>
        /\ LastAcked(longer, k, j) <=> LastAcked(history, k, j)
        /\ LastAcked(history, k, j) => longer[j] = history[j]
  <2> SUFFICES ASSUME NEW k, k # r.key, NEW j
               PROVE  /\ LastAcked(longer, k, j) <=> LastAcked(history, k, j)
                      /\ LastAcked(history, k, j) => longer[j] = history[j]
    OBVIOUS
  <2> QED BY <1>1, <1>3, NewlyAcked
<1>8. \A k, j : LastAcked(history, k, j) => history[j].rec \in ClientRecords
  <2>1. \A j \in 1..n : history[j] \in S BY <1>3
  <2> QED BY <1>3, <2>1 DEF LastAcked
<1> HIDE DEF longer, n
<1>9. ASSUME NEW k \in PlainKeys, k = r.key
      PROVE  /\ \A j : LastAcked(longer, k, j) /\ longer[j].rec.op = "put" =>
                  k \in DOMAIN next /\ LeadsTo(cfg, gs, v, next[k], longer[j].rec)
             /\ k \in DOMAIN next => \E j : LastAcked(longer, k, j) /\ longer[j].rec.op = "put"
  <2>1. CASE r.op = "put"
    <3>1. k \in DOMAIN next /\ next[k] = EntryToPut(r.value, o.loc) BY <1>9, <2>1 DEF Updated
    <3>2. LeadsTo(cfg, gs, v, next[k], r) BY <3>1 DEF LeadsTo, EntryToPut, Positions, EveryWrite
    <3> QED BY <1>1, <1>5, <1>6, <1>9, <2>1, <3>1, <3>2
  <2>2. CASE r.op = "del"
    <3>1. k \notin DOMAIN next BY <1>9, <2>2 DEF Updated
    <3> QED BY <1>1, <1>5, <1>6, <1>9, <2>2, <3>1
  <2> QED BY <1>2, <2>1, <2>2
<1>10. ASSUME NEW k \in PlainKeys, k # r.key
      PROVE  /\ \A j : LastAcked(longer, k, j) /\ longer[j].rec.op = "put" =>
                  k \in DOMAIN next /\ LeadsTo(cfg, gs, v, next[k], longer[j].rec)
             /\ k \in DOMAIN next => \E j : LastAcked(longer, k, j) /\ longer[j].rec.op = "put"
  <2>1. k \in DOMAIN next <=> k \in DOMAIN entries BY <1>2, <1>10 DEF Updated
  <2>2. k \in DOMAIN entries => next[k] = entries[k] BY <1>2, <1>10 DEF Updated
  <2>3. /\ \A j : LastAcked(history, k, j) /\ history[j].rec.op = "put" =>
             k \in DOMAIN entries /\ LeadsTo(cfg, fs, w, entries[k], history[j].rec)
        /\ k \in DOMAIN entries => \E j : LastAcked(history, k, j) /\ history[j].rec.op = "put"
    BY DEF Indexed
  <2> QED BY <1>7, <1>8, <1>10, <2>1, <2>2, <2>3, LeadsStill
<1>11. Indexed(cfg, gs, v, next, longer) BY <1>9, <1>10 DEF Indexed
<1> QED BY <1>11 DEF longer, x

\* The state's index, when it is right of equal files, writer and log.
LEMMA SameIndexed ==
  ASSUME NEW c, NEW gs, NEW v, NEW entries, NEW history, Indexed(c, gs, v, entries, history),
         cfg' = c, files' = gs, writer' = v, index' = entries, log' = history
  PROVE  Indexed(cfg, files, writer, index, log)'
<1> SUFFICES ASSUME NEW k \in PlainKeys
             PROVE  (/\ \A j : LastAcked(log, k, j) /\ log[j].rec.op = "put" =>
                          k \in DOMAIN index /\ LeadsTo(cfg, files, writer, index[k], log[j].rec)
                     /\ k \in DOMAIN index => \E j : LastAcked(log, k, j) /\ log[j].rec.op = "put")'
  BY DEF Indexed
<1>1. \A j : LastAcked(log, k, j)' <=> LastAcked(history, k, j) BY DEF LastAcked, Acked
<1>2. \A r : LeadsTo(cfg, files, writer, index[k], r)' <=> LeadsTo(c, gs, v, entries[k], r)
  BY DEF LeadsTo, Held, Filed, Contents, Extended
<1>3. \A j : LeadsTo(cfg, files, writer, index[k], log[j].rec)'
             <=> LeadsTo(c, gs, v, entries[k], history[j].rec)
  BY DEF LeadsTo, Held, Filed, Contents, Extended
<1> QED BY <1>1, <1>3 DEF Indexed

\* A request keeps the index right.
LEMMA RequestRight ==
  ASSUME Base, IndexRight, status = "running", NEW r, NEW o, Requesting(r, o)
  PROVE  IndexRight'
<1>1. r \in ClientRecords /\ o \in AppendOutcomes(files, writer, Encode(r)) /\ Appending(r, o)
  BY DEF Requesting
<1>2. /\ Takes(files, writer, o, r) /\ files' = o.files /\ writer' = o.writer
      /\ log' = IF o.taken THEN Append(log, NewEntry(r, o)) ELSE log
      /\ UNCHANGED <<cfg, status, damaged>>
  BY <1>1, RequestFact
<1> SUFFICES ASSUME ~damaged PROVE Indexed(cfg, files, writer, index, log)'
  BY <1>2 DEF IndexRight
<1>3. Indexed(cfg, files, writer, index, log) BY DEF IndexRight
<1>4. Tidy(files, writer) /\ log \in Seq(Entry) BY DEF Base, Opening
<1>5. Keeps(files, writer, o.files, o.writer) BY <1>2 DEF Takes
<1>6. CASE ~o.ok
  <2>1. index' = index BY <1>6, IndexAfter
  <2>2. ~Acked(NewEntry(r, o))
    <3> DEFINE x == NewEntry(r, o)
    <3>1. x.answer = Answer(r.op, o.ok) /\ x.survived = FALSE BY DEF NewEntry
    <3> HIDE DEF x
    <3>2. x.answer \in {400, 500} BY <1>6, <3>1 DEF Answer
    <3>3. ~Acked(x) BY <3>1, <3>2 DEF Acked
    <3> QED BY <3>3 DEF x
  <2>3. log' = log \/ \E x : log' = Append(log, x) /\ ~Acked(x) BY <1>2, <2>2
  <2>4. Indexed(cfg, o.files, o.writer, index, log') BY <1>3, <1>4, <1>5, <2>3, FailedIndexed
  <2> QED BY <1>2, <2>1, <2>4, SameIndexed
<1>7. CASE o.ok
  <2>1. o.taken /\ Held(o.files, o.writer, o.loc, r) BY <1>2, <1>7 DEF Takes
  <2>2. log' = Append(log, NewEntry(r, o)) BY <1>2, <2>1
  <2>3. Updated(index, index', r, o.loc) BY <1>7, IndexAfter DEF Updated
  <2>4. EveryWrite => Filed(o.files, o.loc)
    <3> SUFFICES ASSUME EveryWrite PROVE Filed(o.files, o.loc) OBVIOUS
    <3>1. ~o.writer.err /\ o.writer.buf = <<>> BY <1>2, <1>7 DEF Takes
    <3>2. Tidy(o.files, o.writer) BY <1>5 DEF Keeps
    <3> QED BY <2>1, <3>1, <3>2, UnbufferedFiled
  <2>5. Indexed(cfg, o.files, o.writer, index', Append(log, NewEntry(r, o)))
    BY <1>1, <1>3, <1>4, <1>5, <1>7, <2>1, <2>3, <2>4, TakenIndexed
  <2> QED BY <1>2, <2>2, <2>5, SameIndexed
<1> QED BY <1>6, <1>7

\* A line read at its location is its record.
LEMMA LocationHolds ==
  ASSUME NEW fs, NEW entries, NEW at, Laid(fs, entries, at), NEW j \in 1..Len(at),
         NEW w, SameFiles(fs, Contents(fs, w))
  PROVE  /\ Held(fs, w, LineLocation(fs, at[j]), entries[j].rec)
         /\ Filed(fs, LineLocation(fs, at[j]))
<1> DEFINE i == at[j][1]
           end == at[j][2]
           r == entries[j].rec
           n == Len(Encode(r))
           loc == LineLocation(fs, at[j])
           cs == Contents(fs, w)
<1>1. i \in DOMAIN fs /\ r \in ClientRecords /\ LineHolds(fs[i], end, r) BY DEF Laid, Placed
<1>2. LineOf(fs, entries, at, j, i, end) BY PlacedLine
<1>3. n \in Nat /\ end - n \in Nat /\ end \in Nat /\ LineStart(fs[i], end) = end - n + 1
  BY <1>2 DEF LineOf
<1>4. loc = [id |-> i, offset |-> LineStart(fs[i], end) - 1,
             size |-> end - LineStart(fs[i], end) + 1]
  BY DEF LineLocation
<1>5. /\ loc.id = i /\ loc.offset = LineStart(fs[i], end) - 1
      /\ loc.size = end - LineStart(fs[i], end) + 1
  BY <1>4
<1>6. end <= Len(fs[i]) /\ \A p \in 1..n : fs[i][end - n + p] = Encode(r)[p]
  BY <1>1 DEF LineHolds
<1>7. cs[i] = fs[i] BY <1>1 DEF SameFiles
<1> HIDE DEF i, end, n, r, loc, cs
<1>8. loc.offset = end - n /\ loc.size = n /\ loc.offset + loc.size = end BY <1>3, <1>5
<1>9. Held(fs, w, loc, r) BY <1>1, <1>3, <1>5, <1>6, <1>7, <1>8 DEF Held, n, cs
<1>10. Filed(fs, loc) BY <1>5, <1>6, <1>8 DEF Filed
<1> QED BY <1>9, <1>10 DEF loc, r

\* A start of files that are not damaged indexes what is in them.
LEMMA StartIndexed ==
  ASSUME NEW c, NEW fs, NEW kept \in Seq(Entry), NEW at, Laid(fs, kept, at),
         Len(kept) = Len(at), \A j \in 1..Len(kept) : kept[j].survived,
         Cardinality(WholeLines(c, fs)) = Len(at),
         c.StorageFormat = "simple" => DOMAIN fs \subseteq {0},
         ~PopulateErrs(c, fs), ~Torn(fs),
         NEW w, SameFiles(fs, Contents(fs, w))
  PROVE  Indexed(c, fs, w, Populate(c, fs), kept)
<1> DEFINE n == Len(at)
           next == Populate(c, fs)
<1>1. ReadsFirst(c, fs, kept, at, n) BY ReadsThose
<1> SUFFICES ASSUME NEW k \in PlainKeys
             PROVE  /\ \A j : LastAcked(kept, k, j) /\ kept[j].rec.op = "put" =>
                         k \in DOMAIN next /\ LeadsTo(c, fs, w, next[k], kept[j].rec)
                    /\ k \in DOMAIN next => \E j : LastAcked(kept, k, j) /\ kept[j].rec.op = "put"
  BY DEF Indexed
<1>2. NotTorn(c, fs, k)
  <2> SUFFICES ASSUME NEW p \in Lines(fs, Limit(c)), p[2] = Len(fs[p[1]]) + 1 PROVE FALSE
    BY DEF NotTorn
  <2>1. Typed(fs) BY DEF Laid
  <2>2. p[1] \in DOMAIN fs /\ p[2] \in LineEnds(fs[p[1]]) BY <2>1, LinesFact
  <2>3. p[2] \in NewLines(fs[p[1]]) BY <2>2 DEF Torn, Whole, LineEnds
  <2>4. fs[p[1]] \in Bytes BY <2>1, <2>2 DEF Typed
  <2>5. Len(fs[p[1]]) \in Nat /\ p[2] \in 1..Len(fs[p[1]]) BY <2>3, <2>4, NewLinesFact
  <2> QED BY <2>5
<1>3. \A j : LastAcked(kept, k, j) <=> LastIn(kept, n, k, j) BY DEF LastAcked, LastIn, Acked
<1>4. Plain(k) BY DEF PlainKeys
<1>5. /\ \A j : LastIn(kept, n, k, j) /\ kept[j].rec.op = "put" =>
           k \in DOMAIN next /\ Follows(c, fs, next[k], kept[j].rec, at[j])
      /\ k \in DOMAIN next => \E j : LastIn(kept, n, k, j) /\ kept[j].rec.op = "put"
  BY <1>1, <1>2, <1>4, PopulateLast
<1> HIDE DEF next
<1>6. ASSUME NEW j, LastIn(kept, n, k, j), Follows(c, fs, next[k], kept[j].rec, at[j])
      PROVE  LeadsTo(c, fs, w, next[k], kept[j].rec)
  <2>1. j \in 1..Len(at) BY <1>6 DEF LastIn
  <2>2. Held(fs, w, LineLocation(fs, at[j]), kept[j].rec) /\ Filed(fs, LineLocation(fs, at[j]))
    BY <2>1, LocationHolds
  <2> QED BY <1>6, <2>2 DEF Follows, LeadsTo
<1> QED BY <1>3, <1>5, <1>6

\* A start of files that are not damaged makes it right.
LEMMA StartRight ==
  ASSUME Base, Core, NEW env \in Environments, Start(env)
  PROVE  IndexRight'
<1> DEFINE c == Load(env)
           i == LastId(c, files)
           fs == StartFiles(c)
           w == Opened(i, fs[i])
           kept == Kept(c, fs)
<1> SUFFICES ASSUME status' = "running", ~damaged'
             PROVE  Indexed(cfg, files, writer, index, log)'
  BY DEF IndexRight
<1>1. /\ DOMAIN files # {} => c.StorageFormat = cfg.StorageFormat
      /\ cfg' = c /\ files' = fs /\ writer' = w /\ index' = Populate(c, fs) /\ log' = kept
      /\ ~PopulateErrs(c, fs)
      /\ ~damaged /\ ~Torn(fs) /\ \A x \in DOMAIN fs : ~ScanErrs(fs[x], Limit(c))
  BY DEF Start, StartFiles
<1>2. /\ Tidy(fs, w) /\ Bounded(fs)
      /\ c.StorageFormat = "simple" => DOMAIN fs \subseteq {0}
      /\ \A entries, at : Laid(files, entries, at) => Laid(fs, entries, at)
  BY <1>1, StartFilesFact
<1>3. status \notin Opening BY DEF Start, Opening
<1>4. PICK at : Laid(files, log, at) BY <1>1, <1>3 DEF Core
<1>5. Laid(fs, log, at) BY <1>2, <1>4
<1>6. w.buf = <<>> BY DEF Opened
<1> HIDE DEF c, i, fs, w
<1>7. WholeLines(c, fs) = WholeLinesOf(fs) BY <1>1, AllDelivered
<1>8. Cardinality(WholeLinesOf(fs)) = Len(at) /\ Len(at) <= Len(log) BY <1>5, LaidCount DEF Laid
<1>9. Typed(fs) BY <1>5 DEF Laid
<1>10. /\ kept \in Seq(Entry) /\ Len(kept) = Len(at) /\ Len(kept) \in Nat
       /\ \A j \in 1..Len(kept) : kept[j] = [log[j] EXCEPT !.survived = TRUE]
       /\ \A j \in 1..Len(kept) : kept[j].rec = log[j].rec
  BY <1>2, <1>7, <1>8, <1>9, KeptFact
<1>11. \A j \in 1..Len(kept) : kept[j].survived
  <2> SUFFICES ASSUME NEW j \in 1..Len(kept) PROVE kept[j].survived OBVIOUS
  <2>1. j \in 1..Len(log)
    <3>1. Len(log) \in Nat BY DEF Base
    <3> QED BY <1>8, <1>10, <3>1
  <2>2. log[j] \in Entry BY <2>1, LogFact
  <2>3. "survived" \in DOMAIN log[j] BY <2>2 DEF Entry
  <2> QED BY <1>10, <2>3
<1> HIDE DEF kept
<1>12. Laid(fs, kept, at) BY <1>5, <1>10, LaidEntries
<1>13. SameFiles(fs, Contents(fs, w)) BY <1>2, <1>6, ContentsFact
<1>14. Indexed(c, fs, w, Populate(c, fs), kept)
  BY <1>1, <1>2, <1>7, <1>8, <1>10, <1>11, <1>12, <1>13, StartIndexed
<1> QED BY <1>1, <1>14, SameIndexed

\* The index stays right.
LEMMA NextRight == Base /\ Core /\ IndexRight /\ [Next]_vars => IndexRight'
<1> SUFFICES ASSUME Base, Core, IndexRight, [Next]_vars PROVE IndexRight'
  OBVIOUS
<1>1. IInv BY DEF Base
<1>2. CASE \/ \E p \in Puts : Put(p[1], p[2])
           \/ \E k \in Deletes : Delete(k)
  BY <1>1, <1>2, ClientFact, RequestRight
<1>3. CASE UNCHANGED vars
  <2>1. /\ cfg' = cfg /\ files' = files /\ writer' = writer /\ index' = index /\ log' = log
        /\ status' = status /\ damaged' = damaged
    BY <1>3 DEF vars
  <2> QED BY <2>1, SameIndexed DEF IndexRight
<1>4. CASE Close \/ Exit BY <1>4 DEF Close, Exit, IndexRight
<1> QED BY <1>2, <1>3, <1>4, StartRight DEF Next

\* What an index entry leads to by position is read, or is not yet in the file.
LEMMA ReadsHeld ==
  ASSUME status = "running", NEW fs, NEW w, Tidy(fs, w), NEW loc, NEW r \in ClientRecords,
         Held(fs, w, loc, r), r.op = "put", Plain(r.key), Plain(r.value)
  PROVE  IF loc.offset + loc.size > Len(fs[loc.id])
         THEN ReadAtOffset(fs, loc) = ReadError
         ELSE ReadAtOffset(fs, loc) = r.value
<1> DEFINE e == Encode(r)
           bytes == fs[loc.id]
           cs == Contents(fs, w)
           m == loc.offset
           n == loc.offset + loc.size
<1>1. loc.id \in DOMAIN fs /\ m \in Nat /\ loc.size = Len(e) BY DEF Held
<1>2. e \in Bytes /\ Len(e) \in Nat BY EncodeFact
<1>3. Typed(fs) /\ Grown(fs, cs) /\ Typed(cs) BY ContentsFact
<1>4. bytes \in Bytes /\ cs[loc.id] \in Bytes /\ Begins(bytes, cs[loc.id])
  BY <1>1, <1>3 DEF Typed, Grown
<1>5. Len(bytes) \in Nat /\ Len(cs[loc.id]) \in Nat BY <1>4, NewLinesFact
<1>6. \A i \in 1..Len(e) : m + i <= Len(cs[loc.id]) => cs[loc.id][m + i] = e[i] BY DEF Held
<1>7. n = m + Len(e) /\ n \in Nat /\ m <= n BY <1>1, <1>2
<1>8. CASE n > Len(bytes) BY <1>8 DEF ReadAtOffset
<1>9. CASE n <= Len(bytes)
  <2> HIDE DEF e, bytes, cs, m, n
  <2> DEFINE data == SubSeq(bytes, m + 1, n)
  <2>1. data \in Bytes /\ Len(data) = n - m /\ \A i \in 1..(n - m) : data[i] = bytes[m + i]
    BY <1>1, <1>4, <1>7, <1>9, PieceAt
  <2>2. n - m = Len(e) BY <1>1, <1>2, <1>7
  <2>3. ASSUME NEW i \in 1..Len(e) PROVE bytes[m + i] = e[i]
    <3>1. m + i \in 1..Len(bytes) BY <1>1, <1>2, <1>5, <1>7, <1>9
    <3>2. m + i <= Len(cs[loc.id]) /\ bytes[m + i] = cs[loc.id][m + i]
      BY <1>4, <1>5, <3>1 DEF Begins
    <3> QED BY <1>6, <3>2
  <2> HIDE DEF data
  <2>4. data = e BY <1>2, <2>1, <2>2, <2>3, SameBytes
  <2>5. Decodes(data) /\ ReadsAs(data, r) BY <2>4, OffsetDecode DEF e
  <2>6. Decode(data).op = "put" /\ Decode(data).value = r.value BY <2>5 DEF ReadsAs
  <2>7. ~(n > Len(bytes)) BY <1>5, <1>7, <1>9
  <2>8. data = SubSeq(fs[loc.id], loc.offset + 1, loc.offset + loc.size)
    BY DEF data, bytes, m, n
  <2>9. ~(loc.offset + loc.size > Len(fs[loc.id])) BY <2>7 DEF n, bytes
  <2> QED BY <2>5, <2>6, <2>8, <2>9 DEF ReadAtOffset
<1>10. n > Len(bytes) \/ n <= Len(bytes) BY <1>5, <1>7
<1> QED BY <1>8, <1>9, <1>10

\* A running store answers with what was last acknowledged, through any starts under any
\* configuration, and with an error only for a location that is not yet in its file,
\* which no location is when every write is synced.
THEOREM ReadsAnswerAcknowledged == Spec => []ReadsAcknowledged
<1>1. Init => IndexRight BY DEF Init, IndexRight
<1>2. Base /\ IndexRight => ReadsAcknowledged
  <2> SUFFICES ASSUME Base, IndexRight, status = "running", ~damaged, NEW k \in PlainKeys,
                      Acknowledged(k) = NotFound \/ Plain(Acknowledged(k))
               PROVE  \/ GetResult(k) = Acknowledged(k)
                      \/ /\ Positions /\ ~EveryWrite /\ GetResult(k) = ReadError
                         /\ k \in DOMAIN index
                         /\ index[k].loc.offset + index[k].loc.size > Len(files[index[k].loc.id])
    BY DEF ReadsAcknowledged
  <2>1. Indexed(cfg, files, writer, index, log) BY DEF IndexRight
  <2>2. /\ \A j : LastAcked(log, k, j) /\ log[j].rec.op = "put" =>
             k \in DOMAIN index /\ LeadsTo(cfg, files, writer, index[k], log[j].rec)
        /\ k \in DOMAIN index => \E j : LastAcked(log, k, j) /\ log[j].rec.op = "put"
    BY <2>1 DEF Indexed
  <2>3. \A j : LastAcked(log, k, j) => log[j].rec \in ClientRecords BY LogFact DEF LastAcked
  <2>4. CASE k \notin DOMAIN index
    <3>1. \A j : LastAcked(log, k, j) => log[j].rec.op = "del"
      <4> SUFFICES ASSUME NEW j, LastAcked(log, k, j) PROVE log[j].rec.op = "del" OBVIOUS
      <4>1. log[j].rec.op \in {"put", "del"} BY <2>3, RecordFact
      <4> QED BY <2>2, <2>4, <4>1
    <3>2. Acknowledged(k) = NotFound BY <3>1, AcknowledgedFact DEF Left
    <3> QED BY <2>4, <3>2 DEF GetResult, GetFrom
  <2>5. CASE k \in DOMAIN index
    <3>1. PICK j : LastAcked(log, k, j) /\ log[j].rec.op = "put" BY <2>2, <2>5
    <3> DEFINE r == log[j].rec
    <3>2. r \in ClientRecords /\ r.op = "put" BY <2>3, <3>1
    <3>3. Acknowledged(k) = r.value BY <3>1, AcknowledgedFact DEF Left
    <3>4. Plain(r.value)
      <4>1. r.value # NotFound BY <3>2, PutAnswers
      <4> HIDE DEF r
      <4> QED BY <3>3, <4>1
    <3>5. r.key = k /\ Plain(k) BY <3>1 DEF LastAcked, PlainKeys
    <3>6. LeadsTo(cfg, files, writer, index[k], r) BY <2>2, <3>1
    <3> HIDE DEF r
    <3>7. CASE Positions
      <4>1. /\ Held(files, writer, index[k].loc, r)
            /\ EveryWrite => Filed(files, index[k].loc)
        BY <3>6, <3>7 DEF LeadsTo, Positions, EveryWrite
      <4>2. Tidy(files, writer) BY DEF Base, Opening
      <4>3. IF index[k].loc.offset + index[k].loc.size > Len(files[index[k].loc.id])
            THEN ReadAtOffset(files, index[k].loc) = ReadError
            ELSE ReadAtOffset(files, index[k].loc) = r.value
        BY <3>2, <3>4, <3>5, <4>1, <4>2, ReadsHeld
      <4>4. GetResult(k) = ReadAtOffset(files, index[k].loc) BY <2>5, <3>7 DEF GetResult, GetFrom
      <4> DEFINE n == index[k].loc.offset + index[k].loc.size
                 m == Len(files[index[k].loc.id])
      <4>5. n \in Nat /\ m \in Nat
        <5>1. index[k].loc.id \in DOMAIN files BY <4>1 DEF Held
        <5>2. files[index[k].loc.id] \in Bytes BY <4>2, <5>1, ContentsFact DEF Typed
        <5>3. index[k].loc.offset \in Nat /\ index[k].loc.size = Len(Encode(r)) BY <4>1 DEF Held
        <5>4. Len(Encode(r)) \in Nat BY <3>2, EncodeFact
        <5> QED BY <5>2, <5>3, <5>4, NewLinesFact
      <4>6. EveryWrite => n <= m BY <4>1 DEF Filed
      <4> HIDE DEF n, m
      <4>7. EveryWrite => ~(n > m) BY <4>5, <4>6
      <4> QED BY <2>5, <3>3, <3>7, <4>3, <4>4, <4>7 DEF n, m
    <3>8. CASE ~Positions
      <4>1. index[k].value = r.value BY <3>4, <3>6, <3>8 DEF LeadsTo, Positions
      <4> QED BY <2>5, <3>3, <3>8, <4>1 DEF GetResult, GetFrom
    <3> QED BY <3>7, <3>8
  <2> QED BY <2>4, <2>5
<1> QED BY <1>1, <1>2, InitBase, NextBase, NextCore, NextRight, PTL DEF Spec
=============================================================================
