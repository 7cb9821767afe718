--------------------------- MODULE MCRecordStore ---------------------------
(***************************************************************************)
(* An instance of RecordStore for TLC.                                     *)
(***************************************************************************)
EXTENDS RecordStore

Set(x) == [parses |-> TRUE, value |-> x]
Junk == [parses |-> FALSE, value |-> "junk"]

\* Sizes in bytes of which a record of two plain characters takes nine: two
\* records to a segment, a record and a half to the buffer.
Sizes ==
  "STORE_MAX_SEGMENT_SIZE" :> Set(19) @@ "STORE_BUFFER_SIZE" :> Set(12)
    @@ "STORE_MAX_RECORD_SIZE" :> Set(9) @@ "STORE_VERSION" :> Set("V1")

Simply == "STORE_STORAGE_FORMAT" :> Set("simple")
Named == "STORE_FILENAME" :> Set("text.txt")
ByValue == "STORE_INDEX_FORMAT" :> Set("value")
Never == "STORE_SYNC_POLICY" :> Set("never")

SomeEnvironments ==
  {Sizes,
   Never @@ Sizes,
   ByValue @@ Sizes,
   Simply @@ Named @@ Never @@ Sizes,
   Simply @@ Named @@ ByValue @@ "STORE_SYNC_POLICY" :> Junk @@ Sizes,
   Simply @@ Sizes}

\* A plain value, an empty one, one that is escaped, and an escaped key in a
\* record that is longer than the scanner takes.
K == <<"k">>
SomePuts ==
  {<<K, <<"b", "b">>>>, <<K, <<>>>>, <<<<"j">>, <<Bar>>>>, <<<<Bar>>, <<"c", "c">>>>}
SomeDeletes == {K}

\* A failing write leaves half a value, or a line without its newline.
SomeCuts == {7, 8}
=============================================================================
