-------------------------- MODULE MCReplicatedLog --------------------------
(***************************************************************************)
(* Instances of ReplicatedLog for TLC.                                     *)
(***************************************************************************)
EXTENDS ReplicatedLog

\* A header of 2 and one byte of data, or two: a write can be cut in the header,
\* right after it, in the data, or not at all.
EntrySizes == LET longer == CHOOSE d \in Data : TRUE
              IN  [d \in Data |-> IF d = longer THEN 4 ELSE 3]
AnyCut == 1..4
=============================================================================
