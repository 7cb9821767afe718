-------------------------- MODULE MCStoreLifecycle --------------------------
(***************************************************************************)
(* Instances of StoreLifecycle for TLC.                                    *)
(***************************************************************************)
EXTENDS StoreLifecycle, TLC

Set(x) == [parses |-> TRUE, value |-> x]
Junk == [parses |-> FALSE, value |-> "junk"]

Interval(seconds) == "STORE_COMPACTION_INTERVAL" :> Set(seconds)

\* A loop by a set interval, by the fallback for one that does not parse, and no
\* loop: too short an interval, switched off, no compactor.  The simple format has
\* nothing to compact.
SomeEnvironments ==
  {Interval(6),
   Interval(5),
   "STORE_COMPACTION_INTERVAL" :> Junk @@ "STORE_STORAGE_FORMAT" :> Set("simple"),
   "STORE_ENABLE_COMPACTION" :> Set(FALSE),
   "STORE_INDEX_FORMAT" :> Set("value")}
=============================================================================
