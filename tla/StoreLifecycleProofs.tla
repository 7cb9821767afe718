------------------------ MODULE StoreLifecycleProofs ------------------------
(***************************************************************************)
(* Proofs about StoreLifecycle, for any number of requests and in every    *)
(* environment: the locks exclude, Close outlives the loop, and a drained  *)
(* shutdown finds nothing half done.                                       *)
(***************************************************************************)
EXTENDS StoreLifecycle, TLAPS

\* Past a drain that was not cut short no request is under way.
DrainedStays ==
  program = "kvstore" /\ main \notin {"serving", "draining"} /\ ~timedOut => Drained

\* The inductive invariant.
IInv == TypeOK /\ LoopEndsFirst /\ DrainedStays

LEMMA InitInv == Init => IInv
<1> SUFFICES ASSUME Init PROVE IInv
  OBVIOUS
<1>1. TypeOK
  BY DEF Init, TypeOK, WorkPhases, Procs
<1>2. LoopEndsFirst /\ DrainedStays
  BY DEF Init, LoopEndsFirst, DrainedStays
<1> QED BY <1>1, <1>2 DEF IInv

\* A goroutine that moves to a phase which excludes no other keeps TypeOK.
LEMMA GotoShared ==
  ASSUME TypeOK, NEW p \in Procs,
         NEW phase \in (WorkPhases \cup {"idle", "none", "select", "ended"})
                         \ {"commit", "scan", "apply"},
         Goto(p, phase)
  PROVE  /\ pc' \in [Procs -> WorkPhases \cup {"idle", "none", "select", "ended"}]
         /\ \A q, s \in Procs :
              q # s /\ pc'[q] = pc'[s] => pc'[q] \notin {"commit", "scan", "apply"}
BY DEF TypeOK, Goto

\* A goroutine that enters an exclusive phase nobody is in keeps it exclusive.
LEMMA GotoExclusive ==
  ASSUME TypeOK, NEW p \in Procs,
         NEW phase \in {"commit", "scan", "apply"},
         \A q \in Procs : pc[q] # phase,
         Goto(p, phase)
  PROVE  /\ pc' \in [Procs -> WorkPhases \cup {"idle", "none", "select", "ended"}]
         /\ \A q, s \in Procs :
              q # s /\ pc'[q] = pc'[s] => pc'[q] \notin {"commit", "scan", "apply"}
BY DEF TypeOK, Goto, WorkPhases

\* A goroutine at work ends its work.
LEMMA FinishShared ==
  ASSUME TypeOK, NEW p \in Procs, Finish(p)
  PROVE  /\ pc' \in [Procs -> WorkPhases \cup {"idle", "none", "select", "ended"}]
         /\ \A q, s \in Procs :
              q # s /\ pc'[q] = pc'[s] => pc'[q] \notin {"commit", "scan", "apply"}
<1>1. CASE p = Loop
  BY <1>1, GotoShared DEF Finish, WorkPhases
<1>2. CASE p # Loop
  BY <1>2, GotoShared DEF Finish, WorkPhases
<1> QED BY <1>1, <1>2

LEMMA RequestTypes ==
  ASSUME TypeOK, NEW r \in Requests, Arrive(r) \/ TakeMutex(r) \/ Write(r)
  PROVE  TypeOK'
<1> USE DEF TypeOK
<1>0. r \in Procs BY DEF Procs
<1>1. CASE Arrive(r)
  <2>1. \E phase \in {"write", "check", "mutex"} : Goto(r, phase) BY <1>1 DEF Arrive
  <2> QED BY <1>0, <1>1, <2>1, GotoShared DEF Arrive, WorkPhases
<1>2. CASE TakeMutex(r)
  BY <1>0, <1>2, GotoExclusive DEF TakeMutex, Applying
<1>3. CASE Write(r)
  BY <1>0, <1>3, FinishShared DEF Write
<1> QED BY <1>1, <1>2, <1>3

LEMMA CompactTypes ==
  ASSUME TypeOK, NEW p \in Procs, Compact(p)
  PROVE  TypeOK'
<1> USE DEF TypeOK
<1>1. CASE CheckClosed(p)
  BY <1>1, FinishShared, GotoShared DEF CheckClosed, WorkPhases
<1>2. CASE BeginScan(p)
  BY <1>2, FinishShared, GotoExclusive DEF BeginScan, Scanning
<1>3. CASE EndScan(p)
  BY <1>3, FinishShared, GotoShared DEF EndScan, WorkPhases
<1>4. CASE BeginCommit(p)
  BY <1>4, GotoExclusive DEF BeginCommit, MayCommit, Committing
<1>5. CASE EndCommit(p)
  BY <1>5, FinishShared DEF EndCommit
<1> QED BY <1>1, <1>2, <1>3, <1>4, <1>5 DEF Compact

LEMMA LoopTypes ==
  ASSUME TypeOK, Tick \/ TakeTick \/ EndLoop
  PROVE  TypeOK'
<1> USE DEF TypeOK
<1>0. Loop \in Procs BY DEF Procs
<1>1. CASE Tick BY <1>1 DEF Tick
<1>2. CASE TakeTick BY <1>0, <1>2, GotoShared DEF TakeTick, WorkPhases
<1>3. CASE EndLoop BY <1>0, <1>3, GotoShared DEF EndLoop, WorkPhases
<1> QED BY <1>1, <1>2, <1>3

LEMMA MainTypes ==
  ASSUME TypeOK, BeginShutdown \/ Shutdown \/ EndClose
  PROVE  TypeOK'
BY DEF TypeOK, BeginShutdown, Shutdown, EndDrain, StopLoop, EndWait, EndClose, Exit, Drained

-----------------------------------------------------------------------------
(* One step. *)

\* A loop that is gone does not come back, and Close has waited for it.
LEMMA LoopGoneStep ==
  ASSUME TypeOK, LoopEndsFirst, [Next]_vars
  PROVE  LoopEndsFirst'
<1> USE LoopAssumption DEF LoopEndsFirst, LoopGone, WorkPhases
<1>0. Loop \in Procs /\ pc \in [Procs -> WorkPhases \cup {"idle", "none", "select", "ended"}]
  BY DEF Procs, TypeOK
<1>1. ASSUME NEW r \in Requests, Arrive(r) \/ TakeMutex(r) \/ Write(r)
      PROVE  LoopEndsFirst'
  <2>1. pc'[Loop] = pc[Loop] /\ main' = main
    BY <1>0, <1>1 DEF Arrive, TakeMutex, Write, Finish, Goto
  <2> QED BY <2>1
<1>2. ASSUME NEW p \in Procs, Compact(p)
      PROVE  LoopEndsFirst'
  <2>1. main' = main /\ pc[p] \notin {"none", "ended"}
    BY <1>2 DEF Compact, CheckClosed, BeginScan, EndScan, BeginCommit, EndCommit
  <2>2. p # Loop => pc'[Loop] = pc[Loop]
    BY <1>0, <1>2
    DEF Compact, CheckClosed, BeginScan, EndScan, BeginCommit, EndCommit, Finish, Goto
  <2> QED BY <2>1, <2>2
<1>3. ASSUME Tick \/ TakeTick \/ EndLoop PROVE LoopEndsFirst'
  BY <1>0, <1>3 DEF Tick, TakeTick, EndLoop, Goto
<1>4. ASSUME BeginShutdown \/ Shutdown \/ EndClose PROVE LoopEndsFirst'
  BY <1>4 DEF BeginShutdown, Shutdown, EndDrain, StopLoop, EndWait, EndClose, Exit
<1>5. CASE UNCHANGED vars BY <1>5 DEF vars
<1> QED BY <1>1, <1>2, <1>3, <1>4, <1>5 DEF Next

\* No request starts once the server has drained, and one that is idle only
\* starts.
LEMMA DrainedStep ==
  ASSUME TypeOK, DrainedStays, [Next]_vars
  PROVE  DrainedStays'
<1> USE LoopAssumption DEF DrainedStays, Drained
<1>0. pc \in [Procs -> WorkPhases \cup {"idle", "none", "select", "ended"}]
  BY DEF TypeOK
<1>1. ASSUME NEW r \in Requests, Arrive(r) \/ TakeMutex(r) \/ Write(r)
      PROVE  DrainedStays'
  BY <1>1 DEF Arrive, TakeMutex, Write
<1>2. ASSUME NEW p \in Procs, Compact(p)
      PROVE  DrainedStays'
  <2>1. pc[p] # "idle" /\ UNCHANGED <<program, main, timedOut>>
    BY <1>2 DEF Compact, CheckClosed, BeginScan, EndScan, BeginCommit, EndCommit
  <2>2. \A r \in Requests : r # p => pc'[r] = pc[r]
    BY <1>0, <1>2
    DEF Compact, CheckClosed, BeginScan, EndScan, BeginCommit, EndCommit, Finish, Goto, Procs
  <2> QED BY <2>1, <2>2
<1>3. ASSUME Tick \/ TakeTick \/ EndLoop PROVE DrainedStays'
  <2>1. UNCHANGED <<program, main, timedOut>> /\ \A r \in Requests : pc'[r] = pc[r]
    BY <1>0, <1>3 DEF Tick, TakeTick, EndLoop, Goto, Procs
  <2> QED BY <2>1
<1>4. ASSUME BeginShutdown \/ Shutdown \/ EndClose PROVE DrainedStays'
  BY <1>4 DEF BeginShutdown, Shutdown, EndDrain, StopLoop, EndWait, EndClose, Exit, TypeOK
<1>5. CASE UNCHANGED vars BY <1>5 DEF vars
<1> QED BY <1>1, <1>2, <1>3, <1>4, <1>5 DEF Next

LEMMA TypeStep ==
  ASSUME TypeOK, [Next]_vars
  PROVE  TypeOK'
<1>1. CASE UNCHANGED vars BY <1>1 DEF vars, TypeOK
<1> QED BY <1>1, RequestTypes, CompactTypes, LoopTypes, MainTypes DEF Next

LEMMA NextInv == IInv /\ [Next]_vars => IInv'
BY TypeStep, LoopGoneStep, DrainedStep DEF IInv

-----------------------------------------------------------------------------
(* Theorems. *)

\* Every variable keeps its type; no two goroutines are in a commit (f.mu), in a
\* scan (Compactor.rwLock) or in Apply (sm.mu) at a time.
THEOREM TypeCorrect == Spec => []TypeOK
BY InitInv, NextInv, PTL DEF Spec, IInv

\* Close goes on to the files after the loop has returned, which never comes
\* back: nothing of the loop runs on a closed store.
THEOREM LoopEnds == Spec => []LoopEndsFirst
BY InitInv, NextInv, PTL DEF Spec, IInv

\* A shutdown whose drain was not cut short finds no request and no loop at work
\* when it closes the files, and none starts.
THEOREM QuietShutdown == Spec => []QuietAfterDrain
<1>1. IInv => QuietAfterDrain
  <2> SUFFICES ASSUME IInv, program = "kvstore", ~timedOut,
                      main \in {"closing", "closed", "exited"},
                      NEW p \in Procs
               PROVE  pc[p] \notin WorkPhases
    BY DEF QuietAfterDrain
  <2>1. CASE p = Loop BY <2>1 DEF IInv, LoopEndsFirst
  <2>2. CASE p # Loop
    <3>1. pc[p] = "idle" BY <2>2 DEF IInv, DrainedStays, Drained, Procs
    <3> QED BY <3>1 DEF WorkPhases
  <2> QED BY <2>1, <2>2
<1> QED BY <1>1, InitInv, NextInv, PTL DEF Spec
=============================================================================
