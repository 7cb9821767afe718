------------------------------ MODULE KVStore ------------------------------
(***************************************************************************)
(* What the store promises its clients: a map from keys to values, in which*)
(* a Put sets one key and a Delete of a present key removes it, each at    *)
(* once and for good, and which may keep clients waiting but is the same   *)
(* when it serves again.  This is the Store interface of api/api.go with   *)
(* the segments, the index, compaction and kills left out.                 *)
(***************************************************************************)
CONSTANTS Key, Value, NotFound

VARIABLES
  store,   \* what Get answers for each key
  serving  \* are calls let in?

Init ==
  /\ store = [k \in Key |-> NotFound]
  /\ serving = TRUE

Put(k, v) ==
  /\ serving
  /\ store' = [store EXCEPT ![k] = v]
  /\ UNCHANGED serving

Delete(k) ==
  /\ serving /\ store[k] # NotFound
  /\ store' = [store EXCEPT ![k] = NotFound]
  /\ UNCHANGED serving

\* Clients wait for a commit, or the process is gone; and the end of that.
Suspend == serving /\ serving' = FALSE /\ UNCHANGED store
Resume == ~serving /\ serving' = TRUE /\ UNCHANGED store

Next ==
  \/ \E k \in Key, v \in Value : Put(k, v)
  \/ \E k \in Key : Delete(k)
  \/ Suspend
  \/ Resume

Spec == Init /\ [][Next]_<<store, serving>>
=============================================================================
