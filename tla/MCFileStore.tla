---------------------------- MODULE MCFileStore ----------------------------
(***************************************************************************)
(* Instances of FileStore for TLC.                                         *)
(***************************************************************************)
EXTENDS FileStore

\* Sizes in units of which a segment holds MaxSegmentSize, header 1: a record
\* to a segment, two records to a segment, and one value of each kind.
LargeRecords == [v \in Value \cup {Tombstone} |-> IF v = Tombstone THEN 2 ELSE 5]
SmallRecords == [v \in Value \cup {Tombstone} |-> 2]
MixedRecords ==
  [v \in Value \cup {Tombstone} |->
     IF v # Tombstone /\ v = CHOOSE x \in Value : TRUE THEN 5 ELSE 2]

AnyPhase == Phases
NotCommitting == Phases \ CommitPhases
NoCrash == {}

AnyFault == ScanPhases \cup CommitPhases
ScanFault == ScanPhases
NoFault == {}

KeySymmetry == Permutations(Key)
Symmetry == Permutations(Key) \cup Permutations(Compactors)
=============================================================================
