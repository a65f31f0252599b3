-------------------------- MODULE MCPartitionLog --------------------------
(***************************************************************************)
(* Instances of PartitionLog: the sizes and timestamps of the records.     *)
(***************************************************************************)
EXTENDS PartitionLog

\* The second record is twice as large and carries an older timestamp.
MixedSizes == [id \in 1..MaxIds |-> IF id = 2 THEN 2 ELSE 1]

MixedTimes == [id \in 1..MaxIds |-> IF id = 2 THEN 1 ELSE 1 + id]

\* A consumer at the start of the log, whose budget spans segments, and a
\* follower whose budget is below the size of the record it asks for.
ConsumerAndFollower == {<<"replicated", Earliest, 2>>, <<"follower", 1, 1>>}
=============================================================================
