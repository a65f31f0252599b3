-------------------------- MODULE PartitionReplica --------------------------
(***************************************************************************)
(* What broker::PartitionReplica computes while it holds its mutex: the    *)
(* high-water mark and the acknowledgement condition of a produce request, *)
(* as functions of the leader's log and of what the leader knows about     *)
(* each follower.  Offsets are exclusive ends: a replica whose log end is  *)
(* n holds the records 0 .. n-1.                                           *)
(*                                                                         *)
(* A definition named Bug_X, here and in the other modules, is X with a    *)
(* plausible defect; substituting it for X must break a stated property.   *)
(***************************************************************************)
EXTENDS Integers, FiniteSets

CONSTANTS Leader,     \* the broker that leads the partition
          Followers   \* the other brokers of its replica set

ASSUME ReplicaSetAssumption == IsFiniteSet(Followers) /\ Leader \notin Followers

Replicas == {Leader} \cup Followers

Bug_QuorumSize == Cardinality(Replicas) \div 2

\* PartitionAssignment::QuorumSize: a strict majority of the replica set.
QuorumSize == Cardinality(Replicas) \div 2 + 1

\* enum AckMode
AckMode == {"none", "leader", "quorum"}

\* A DurabilityWaiter: the last offset of its batch and the mode requested.
Waiter == [offset : Nat, mode : AckMode]

\* FollowerState, as the constructor leaves it: in sync, at offset 0.
FollowerState == [leo : Nat, flushed : Nat, inSync : BOOLEAN]
NewFollower == [leo |-> 0, flushed |-> 0, inSync |-> TRUE]

InSync(fol) == {f \in Followers : fol[f].inSync}

\* GetStats().in_sync_replicas: the leader counts as one.
InSyncReplicas(fol) == 1 + Cardinality(InSync(fol))

\* The high-water mark a freshly opened leader replica starts from.
InitialHighWaterMark(leaderEnd) == IF Followers = {} THEN leaderEnd ELSE 0

SmallestOf(S) == CHOOSE x \in S : \A y \in S : x <= y
LargerOf(m, n) == IF m > n THEN m ELSE n

\* The followers' positions are not consulted.
Bug_RecomputeHighWaterMark(hwm, leaderEnd, fol) == LargerOf(hwm, leaderEnd)

(***************************************************************************)
(* RecomputeHighWaterMarkLocked, on the leader: the smallest log end among *)
(* the leader and the followers in sync, but never below the mark stored.  *)
(***************************************************************************)
RecomputeHighWaterMark(hwm, leaderEnd, fol) ==
  LargerOf(hwm, SmallestOf({leaderEnd} \cup {fol[f].leo : f \in InSync(fol)}))

(***************************************************************************)
(* OnFollowerProgress, the update of the follower's entry: positions only  *)
(* move forwards, and any report puts the follower back in sync.           *)
(***************************************************************************)
WithProgress(fol, f, end, flushed) ==
  [fol EXCEPT ![f] = [leo |-> LargerOf(@.leo, end),
                      flushed |-> LargerOf(@.flushed, flushed),
                      inSync |-> TRUE]]

\* MarkFollowerOutOfSync, the update of the follower's entry.
WithoutSync(fol, f) == [fol EXCEPT ![f].inSync = FALSE]

\* Receiving a record is taken for having flushed it.
Bug_Persisted(offset, flushed, fol) ==
  (IF flushed > offset THEN {Leader} ELSE {})
    \cup {f \in InSync(fol) : fol[f].leo > offset}

\* The replicas the leader believes have flushed past an offset.
Persisted(offset, flushed, fol) ==
  (IF flushed > offset THEN {Leader} ELSE {})
    \cup {f \in InSync(fol) : fol[f].flushed > offset}

(***************************************************************************)
(* The lambda `satisfied` of ExtractSatisfiedLocked.                       *)
(***************************************************************************)
Satisfied(w, leaderEnd, flushed, fol) ==
  \/ w.mode = "none"
  \/ w.mode = "leader" /\ leaderEnd > w.offset
  \/ w.mode = "quorum" /\ Cardinality(Persisted(w.offset, flushed, fol)) >= QuorumSize

\* ExtractSatisfiedLocked: the waiters it takes out of the list.
SatisfiedWaiters(waiters, leaderEnd, flushed, fol) ==
  {w \in waiters : Satisfied(w, leaderEnd, flushed, fol)}
=============================================================================
