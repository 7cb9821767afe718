------------------------------- MODULE Config -------------------------------
(***************************************************************************)
(* The configuration both programs read once, at their start: environment  *)
(* variables with a fallback each.  An environment is a function from the  *)
(* variables that are set (and not empty) to what the conversion made of   *)
(* their text: whether it parsed, and the value.  Durations are in seconds.*)
(***************************************************************************)
EXTENDS Integers

DefaultDataDir == "data"
DefaultMaxSegmentSize == 1048576
DefaultBufferSize == 32768
DefaultMaxRecordSize == 4194304
DefaultSyncPolicy == "every-write"
DefaultStaleSegmentThreshold == 5
DefaultCompactionInterval == 300
DefaultEnableCompaction == TRUE
DefaultStorageFormat == "segment"
DefaultIndexFormat == "position"

IsSet(env, name) == name \in DOMAIN env

GetString(env, name, fallback) ==
  IF IsSet(env, name) THEN env[name].value ELSE fallback

\* Numbers and durations: what does not parse, and what is not positive, is
\* replaced by the fallback.
GetPositive(env, name, fallback) ==
  IF IsSet(env, name) /\ env[name].parses /\ env[name].value > 0
  THEN env[name].value
  ELSE fallback

GetBool(env, name, fallback) ==
  IF IsSet(env, name) /\ env[name].parses THEN env[name].value ELSE fallback

GetEnum(env, name, fallback, accepted) ==
  IF IsSet(env, name) /\ env[name].value \in accepted
  THEN env[name].value
  ELSE fallback

\* The fallback of the file name is the name of the data directory, and so is
\* that of the version.  The record formatter is never read: there is one only.
Load(env) ==
  [DataDir |-> GetString(env, "STORE_DATA_DIR", DefaultDataDir),
   FileName |-> GetString(env, "STORE_FILENAME", DefaultDataDir),
   Version |-> GetString(env, "STORE_VERSION", DefaultDataDir),
   MaxSegmentSize |->
     GetPositive(env, "STORE_MAX_SEGMENT_SIZE", DefaultMaxSegmentSize),
   BufferSize |-> GetPositive(env, "STORE_BUFFER_SIZE", DefaultBufferSize),
   MaxRecordSize |->
     GetPositive(env, "STORE_MAX_RECORD_SIZE", DefaultMaxRecordSize),
   StaleSegmentThreshold |->
     GetPositive(env, "STORE_STALE_SEGMENT_THRESHOLD", DefaultStaleSegmentThreshold),
   EnableCompaction |->
     GetBool(env, "STORE_ENABLE_COMPACTION", DefaultEnableCompaction),
   CompactionInterval |->
     GetPositive(env, "STORE_COMPACTION_INTERVAL", DefaultCompactionInterval),
   StorageFormat |->
     GetEnum(env, "STORE_STORAGE_FORMAT", DefaultStorageFormat, {"segment", "simple"}),
   IndexFormat |->
     GetEnum(env, "STORE_INDEX_FORMAT", DefaultIndexFormat, {"value", "position"}),
   SyncPolicy |->
     GetEnum(env, "STORE_SYNC_POLICY", DefaultSyncPolicy, {"never", "every-write"})]
=============================================================================
