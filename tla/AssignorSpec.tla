---------------------------- MODULE AssignorSpec ----------------------------
(***************************************************************************)
(* The assignors over every membership and every set of partitions, and    *)
(* the loops of the code, which the closed forms of Assignor stand for.    *)
(***************************************************************************)
EXTENDS Assignor, SequencesExt

CONSTANTS MaxMembers, Universe     \* bounds: member identities, partitions

VARIABLES members, partitions

vars == <<members, partitions>>

Init == members = {} /\ partitions = {}

MemberJoins(m) == m \notin members /\ members' = members \cup {m} /\ UNCHANGED partitions
MemberLeaves(m) == m \in members /\ members' = members \ {m} /\ UNCHANGED partitions
PartitionAppears(p) == p \notin partitions /\ partitions' = partitions \cup {p} /\ UNCHANGED members

Next == \/ \E m \in 1..MaxMembers : MemberJoins(m) \/ MemberLeaves(m)
        \/ \E p \in Universe : PartitionAppears(p)

Spec == Init /\ [][Next]_vars
-----------------------------------------------------------------------------
(***************************************************************************)
(* The code's loops over sorted vectors.                                   *)
(***************************************************************************)
SortedMemberIds(M) == SetToSortSeq(M, LAMBDA a, b : a < b)
SortedPartitionList(P) == SetToSortSeq(P, Before)

\* for i: assignment[members[i % members.size()]].push_back(sorted[i])
RoundRobinLoop(ids, sorted) ==
  [m \in Range(ids) |->
    {sorted[i + 1] : i \in {k \in 0..(Len(sorted) - 1) : ids[(k % Len(ids)) + 1] = m}}]

\* The cursor before the turn of member number m, and after the last one.
CursorLoop(count, size) ==
  LET take(m) == count \div size + (IF m < count % size THEN 1 ELSE 0)
      cursor[m \in 0..size] ==
        IF m = 0 THEN 0
        ELSE IF cursor[m - 1] + take(m - 1) < count THEN cursor[m - 1] + take(m - 1) ELSE count
  IN  cursor

RangeLoop(ids, sorted) ==
  LET byTopic(t) == SelectSeq(sorted, LAMBDA p : p[1] = t)
      taken(m, t) == LET list == byTopic(t)
                         cursor == CursorLoop(Len(list), Len(ids))
                     IN  {list[i + 1] : i \in cursor[m]..(cursor[m + 1] - 1)}
  IN  [id \in Range(ids) |->
        LET m == CHOOSE k \in 0..(Len(ids) - 1) : ids[k + 1] = id
        IN  UNION {taken(m, sorted[i][1]) : i \in 1..Len(sorted)}]
-----------------------------------------------------------------------------
Assignments == {AssignRoundRobin(members, partitions), AssignRange(members, partitions)}

\* "within one generation, every assigned partition goes to exactly one member",
\* and none is left out.
EachPartitionOnce ==
  members # {} =>
    \A a \in Assignments :
      \A p \in partitions : Cardinality({m \in members : p \in a[m]}) = 1

Even(S, share(_)) == \A m, n \in S : Cardinality(share(m)) <= Cardinality(share(n)) + 1

\* Round-robin is even to within one partition, range within one partition of
\* each topic.
EvenShares ==
  /\ Even(members, LAMBDA m : AssignRoundRobin(members, partitions)[m])
  /\ \A t \in {p[1] : p \in partitions} :
       Even(members, LAMBDA m : {p \in AssignRange(members, partitions)[m] : p[1] = t})

\* What a group is promised of an assignment: nobody shares a partition, none is
\* without an owner, and nobody has more than a fair share.
SharedFairly == EachPartitionOnce /\ EvenShares

\* The closed forms assign what the loops of AssignRange and AssignRoundRobin do.
LoopsAgree ==
  LET ids == SortedMemberIds(members)
      sorted == SortedPartitionList(partitions)
  IN  /\ AssignRoundRobin(members, partitions) = RoundRobinLoop(ids, sorted)
      /\ AssignRange(members, partitions) = RangeLoop(ids, sorted)
=============================================================================
