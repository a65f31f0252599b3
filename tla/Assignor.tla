------------------------------ MODULE Assignor ------------------------------
(***************************************************************************)
(* The partition assignment of a consumer group, a function of the set of  *)
(* member identities and the set of partitions.  A partition is a pair     *)
(* <<topic, index>>, ordered like SortedPartitions; a member identity is   *)
(* the number AllocateMemberId gave it.  Sorting is expressed by ranks:    *)
(* the place of an element in the sorted vector is the number of elements  *)
(* before it.                                                              *)
(***************************************************************************)
EXTENDS Integers, FiniteSets

Before(p, q) == p[1] < q[1] \/ (p[1] = q[1] /\ p[2] < q[2])

SortedPartitions(P, p) == Cardinality({q \in P : Before(q, p)})

\* The members are sorted the other way round.
Bug_SortedMembers(M, m) == Cardinality({n \in M : m < n})

SortedMembers(M, m) == Cardinality({n \in M : n < m})

\* Partition number i is dealt to member number i % members.size().
AssignRoundRobin(M, P) ==
  [m \in M |-> {p \in P : SortedPartitions(P, p) % Cardinality(M) = SortedMembers(M, m)}]

\* The partitions that are left over go to nobody.
Bug_Cursor(m, count, size) == m * (count \div size)

\* The number of partitions the members before number m have taken: the first
\* count % size members take one more than the others.
Cursor(m, count, size) ==
  m * (count \div size) + (IF m < count % size THEN m ELSE count % size)

\* Each topic is cut into contiguous blocks, one per member.
AssignRange(M, P) ==
  [m \in M |->
    {p \in P :
      LET topicPartitions == {q \in P : q[1] = p[1]}
          place == SortedPartitions(topicPartitions, p)
          count == Cardinality(topicPartitions)
          size  == Cardinality(M)
          index == SortedMembers(M, m)
      IN  Cursor(index, count, size) <= place /\ place < Cursor(index + 1, count, size)}]

Assign(strategy, M, P) ==
  IF strategy = "round-robin" THEN AssignRoundRobin(M, P) ELSE AssignRange(M, P)
=============================================================================
