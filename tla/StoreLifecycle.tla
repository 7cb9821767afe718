--------------------------- MODULE StoreLifecycle ---------------------------
(***************************************************************************)
(* The goroutines around one store from its start to the end of the        *)
(* process: the ticker loop, the requests with their writes and manual     *)
(* compactions, the shutdown with its timeout and Close, and the locks and *)
(* channels between them.  The program is the kv-store's main, or the state*)
(* machine, whose users call Apply and Close and nothing else.  What a     *)
(* compaction does to the files is FileStore's; here it is whether there   *)
(* are enough sealed segments for one.                                     *)
(***************************************************************************)
EXTENDS Config

CONSTANTS
  Requests,      \* the requests (or callers of Apply) there are at a time
  Loop,          \* the goroutine of startCompactionLoop
  Environments   \* the environments the process may be started in

ASSUME LoopAssumption == Loop \notin Requests

Procs == Requests \cup {Loop}

VARIABLES
  program,    \* "kvstore" or "statemachine"
  cfg,        \* the configuration, Config's Load
  main,       \* where main is, from "serving" to "exited"
  timedOut,   \* server.Shutdown has given up waiting for requests
  stop,       \* stopCompaction is closed
  closed,     \* f.closed
  tick,       \* the ticker's channel holds a tick
  backlog,    \* there are enough sealed segments for a compaction
  pc          \* where each request and the loop are

vars == <<program, cfg, main, timedOut, stop, closed, tick, backlog, pc>>

HasCompactor == cfg.IndexFormat = "position"

\* Mutation of LoopRuns: the limit is read in minutes.
LoopRunsAfterMinutes(c) ==
  c.IndexFormat = "position" /\ c.EnableCompaction /\ c.CompactionInterval > 300

\* NewFileStore starts the loop for intervals above five seconds only.
LoopRuns(c) ==
  c.IndexFormat = "position" /\ c.EnableCompaction /\ c.CompactionInterval > 5

Init ==
  /\ program \in {"kvstore", "statemachine"}
  /\ cfg \in {Load(env) : env \in Environments}
  /\ main = "serving"
  /\ timedOut = FALSE
  /\ stop = FALSE
  /\ closed = FALSE
  /\ tick = FALSE
  /\ backlog = FALSE
  /\ pc = [p \in Procs |-> IF p # Loop THEN "idle" ELSE IF LoopRuns(cfg) THEN "select" ELSE "none"]

\* Nothing runs once main has returned.
Alive == main # "exited"

\* f.mu is held across steps by a commit only; every other holder is one step.
Committing == \E p \in Procs : pc[p] = "commit"

\* Compactor.rwLock, and the state machine's mutex with its Apply.
Scanning == \E p \in Procs : pc[p] = "scan"
Applying == \E p \in Procs : pc[p] = "apply"

Goto(p, phase) == pc' = [pc EXCEPT ![p] = phase]

\* Back to where the goroutine waits for work.
Finish(p) == Goto(p, IF p = Loop THEN "select" ELSE "idle")

-----------------------------------------------------------------------------
(* Requests. *)

\* A handler starts: the server accepts connections, or has some left that it
\* has not closed yet.
Arrive(r) ==
  /\ Alive /\ pc[r] = "idle"
  /\ \/ /\ program = "kvstore" /\ main \in {"serving", "draining"}
        /\ \E phase \in {"write", "check"} : Goto(r, phase)
     \/ /\ program = "statemachine"
        /\ Goto(r, "mutex")
  /\ UNCHANGED <<program, cfg, main, timedOut, stop, closed, tick, backlog>>

\* Apply: sm.mu, and the store's write inside it.
TakeMutex(r) ==
  /\ Alive /\ pc[r] = "mutex" /\ ~Applying
  /\ Goto(r, "apply")
  /\ UNCHANGED <<program, cfg, main, timedOut, stop, closed, tick, backlog>>

\* Put and Delete, under f.mu; refused by a closed store or its closed writer.
\* A write may roll, which may make up the backlog.
Write(r) ==
  /\ Alive /\ pc[r] \in {"write", "apply"} /\ ~Committing
  /\ backlog' \in IF closed THEN {backlog} ELSE {backlog, TRUE}
  /\ Finish(r)
  /\ UNCHANGED <<program, cfg, main, timedOut, stop, closed, tick>>

-----------------------------------------------------------------------------
(* CompactSegments, by a request or the loop. *)

\* f.closed, read under a read lock that is given back at once.
CheckClosed(p) ==
  /\ Alive /\ pc[p] = "check" /\ ~Committing
  /\ IF closed \/ ~HasCompactor THEN Finish(p) ELSE Goto(p, "queue")
  /\ UNCHANGED <<program, cfg, main, timedOut, stop, closed, tick, backlog>>

\* The compactor's lock, and the list of stale segments.  The simple format has
\* none.
BeginScan(p) ==
  /\ Alive /\ pc[p] = "queue" /\ ~Scanning
  /\ IF backlog /\ cfg.StorageFormat = "segment" THEN Goto(p, "scan") ELSE Finish(p)
  /\ UNCHANGED <<program, cfg, main, timedOut, stop, closed, tick, backlog>>

\* The scan ends with a result, or with an error or nothing that survives.
EndScan(p) ==
  /\ Alive /\ pc[p] = "scan"
  /\ Goto(p, "result") \/ Finish(p)
  /\ UNCHANGED <<program, cfg, main, timedOut, stop, closed, tick, backlog>>

\* Mutations of MayCommit: no lock; and the read lock of CheckClosed is held
\* until CompactSegments returns.
MayCommitAnyTime == TRUE
MayCommitUnlessRead == \A p \in Procs : pc[p] \notin {"queue", "scan", "result", "commit"}

MayCommit == ~Committing

\* processCompaction takes f.mu and does not look at f.closed.
BeginCommit(p) ==
  /\ Alive /\ pc[p] = "result" /\ MayCommit
  /\ Goto(p, "commit")
  /\ UNCHANGED <<program, cfg, main, timedOut, stop, closed, tick, backlog>>

\* The commit ends, with the files replaced or with an error.
EndCommit(p) ==
  /\ Alive /\ pc[p] = "commit"
  /\ backlog' \in {backlog, FALSE}
  /\ Finish(p)
  /\ UNCHANGED <<program, cfg, main, timedOut, stop, closed, tick>>

Compact(p) ==
  \/ CheckClosed(p)
  \/ BeginScan(p)
  \/ EndScan(p)
  \/ BeginCommit(p)
  \/ EndCommit(p)

-----------------------------------------------------------------------------
(* The loop. *)

\* The ticker's channel holds one tick; more are dropped.
Tick ==
  /\ Alive /\ pc[Loop] \notin {"none", "ended"} /\ ~tick
  /\ tick' = TRUE
  /\ UNCHANGED <<program, cfg, main, timedOut, stop, closed, backlog, pc>>

\* The select takes either channel when both are ready.
TakeTick ==
  /\ Alive /\ pc[Loop] = "select" /\ tick
  /\ tick' = FALSE
  /\ Goto(Loop, "check")
  /\ UNCHANGED <<program, cfg, main, timedOut, stop, closed, backlog>>

EndLoop ==
  /\ Alive /\ pc[Loop] = "select" /\ stop
  /\ Goto(Loop, "ended")
  /\ UNCHANGED <<program, cfg, main, timedOut, stop, closed, tick, backlog>>

-----------------------------------------------------------------------------
(* main. *)

\* A signal, or the server's failure; the state machine is just closed.
BeginShutdown ==
  /\ main = "serving"
  /\ main' = IF program = "kvstore" THEN "draining" ELSE "stopping"
  /\ UNCHANGED <<program, cfg, timedOut, stop, closed, tick, backlog, pc>>

\* Mutation of Drained: writes are waited for, compactions are not.
DrainedOfWrites == \A r \in Requests : pc[r] # "write"

Drained == \A r \in Requests : pc[r] = "idle"

\* server.Shutdown returns when no request is left, or after its timeout.
EndDrain ==
  /\ main = "draining"
  /\ main' = "stopping"
  /\ timedOut' = ~Drained
  /\ UNCHANGED <<program, cfg, stop, closed, tick, backlog, pc>>

\* Close: the stop signal, the wait for the loop, and the rest under f.mu.
StopLoop ==
  /\ main = "stopping"
  /\ stop' = TRUE
  /\ main' = "waiting"
  /\ UNCHANGED <<program, cfg, timedOut, closed, tick, backlog, pc>>

\* Mutations of LoopGone: Close does not wait, or waits for a loop that was
\* never started.
LoopGoneAtOnce == TRUE
LoopGoneIfEnded == pc[Loop] = "ended"

LoopGone == pc[Loop] \in {"none", "ended"}

EndWait ==
  /\ main = "waiting" /\ LoopGone
  /\ main' = "closing"
  /\ UNCHANGED <<program, cfg, timedOut, stop, closed, tick, backlog, pc>>

EndClose ==
  /\ main = "closing" /\ ~Committing
  /\ closed' = TRUE
  /\ main' = "closed"
  /\ UNCHANGED <<program, cfg, timedOut, stop, tick, backlog, pc>>

Exit ==
  /\ main = "closed"
  /\ main' = "exited"
  /\ UNCHANGED <<program, cfg, timedOut, stop, closed, tick, backlog, pc>>

Shutdown == EndDrain \/ StopLoop \/ EndWait \/ Exit

Next ==
  \/ \E r \in Requests : Arrive(r) \/ TakeMutex(r) \/ Write(r)
  \/ \E p \in Procs : Compact(p)
  \/ Tick \/ TakeTick \/ EndLoop
  \/ BeginShutdown \/ Shutdown \/ EndClose

Spec == Init /\ [][Next]_vars

\* A goroutine that can go on does.  The mutexes are fair: Go hands a mutex to
\* who has waited longest, so a lock that is free again and again is acquired;
\* a select takes each of its ready channels at some time; the ticker ticks, and
\* Shutdown has a timeout.  No request has to come and no signal.
Serve(r) == TakeMutex(r) \/ Write(r) \/ Compact(r)

Fairness ==
  /\ \A r \in Requests : SF_vars(Serve(r))
  /\ SF_vars(Compact(Loop))
  /\ WF_vars(Tick) /\ WF_vars(TakeTick) /\ SF_vars(EndLoop)
  /\ WF_vars(Shutdown) /\ SF_vars(EndClose)

FairSpec == Spec /\ Fairness

-----------------------------------------------------------------------------
(* Properties. *)

WorkPhases == {"write", "mutex", "apply", "check", "queue", "scan", "result", "commit"}

\* Every variable has its type, and f.mu, Compactor.rwLock and sm.mu exclude.
TypeOK ==
  /\ program \in {"kvstore", "statemachine"}
  /\ cfg \in {Load(env) : env \in Environments}
  /\ main \in {"serving", "draining", "stopping", "waiting", "closing", "closed", "exited"}
  /\ timedOut \in BOOLEAN /\ stop \in BOOLEAN /\ closed \in BOOLEAN
  /\ tick \in BOOLEAN /\ backlog \in BOOLEAN
  /\ pc \in [Procs -> WorkPhases \cup {"idle", "none", "select", "ended"}]
  /\ \A p, q \in Procs :
       p # q /\ pc[p] = pc[q] => pc[p] \notin {"commit", "scan", "apply"}

\* Close goes on to the files only when the loop has returned, and the loop never
\* comes back: no compaction of the loop runs on a closed store, or is cut off by
\* the end of the process (filestore.go:307-312, LEARNINGS.md section 7).
LoopEndsFirst ==
  main \in {"closing", "closed", "exited"} => LoopGone /\ pc[Loop] \notin WorkPhases

\* When Shutdown has drained the requests, the kv-store's end finds nothing half
\* done: no write, no scan and no commit, of a request or of the loop
\* (main.go:71-81 with Close and the handlers).
QuietAfterDrain ==
  program = "kvstore" /\ main \in {"closing", "closed", "exited"} /\ ~timedOut =>
    \A p \in Procs : pc[p] \notin WorkPhases

\* Once begun, the shutdown ends: Close is not kept waiting for ever by the loop,
\* its ticks, or those that take the lock.
ShutdownEnds == main # "serving" ~> main = "exited"

\* Every request is answered while the process lives: nobody waits for ever for
\* f.mu, the compactor's lock or the state machine's.
RequestsAnswered ==
  \A r \in Requests : pc[r] \in WorkPhases ~> (pc[r] = "idle" \/ ~Alive)

\* Compaction is on, over position-indexed segments, with an interval for which
\* NewFileStore starts the loop: five seconds and less start none.
CompactsByItself ==
  /\ cfg.EnableCompaction /\ cfg.CompactionInterval > 5
  /\ cfg.StorageFormat = "segment" /\ cfg.IndexFormat = "position"

\* Then enough sealed segments are scanned for a compaction at some time, without
\* anybody asking for it (.env.example:33-41, filestore.go:136 and 391-412).
BacklogScanned ==
  CompactsByItself /\ backlog ~> Scanning \/ ~backlog \/ main # "serving"
=============================================================================
