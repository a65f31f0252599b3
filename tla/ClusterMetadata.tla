-------------------------- MODULE ClusterMetadata --------------------------
(***************************************************************************)
(* The topic table of a broker (src/metadata/cluster_metadata.cc) as a     *)
(* function from topic names to descriptors, and the functions by which    *)
(* brokers and clients agree on placement without talking to each other.   *)
(* A descriptor is the sequence of the replica lists of a topic's          *)
(* partitions; the leader is the first of the list.                        *)
(***************************************************************************)
EXTENDS Integers, Sequences, FiniteSets

CONSTANTS
  Brokers,    \* broker ids of the configuration
  TopicHash   \* topic |-> Crc32c of its name

\* SetBrokersFromSpec sorts the configured brokers by id.
SortedBrokers ==
  CHOOSE s \in [1..Cardinality(Brokers) -> Brokers] :
    \A i, j \in DOMAIN s : i < j => s[i] < s[j]

\* The lowest id is the controller.
ControllerId == SortedBrokers[1]

\* Partitions are dealt to the brokers in turn, the replicas of one partition
\* to neighbours.
ComputeAssignments(topic, count, rf) ==
  LET n == Cardinality(Brokers)
  IN [p \in 1..count |->
        [r \in 1..(IF rf < n THEN rf ELSE n) |->
           SortedBrokers[(((p - 1) + (r - 1) + TopicHash[topic]) % n) + 1]]]

PartitionCount(descriptor) == Len(descriptor)

ReplicationFactor(descriptor) == Len(descriptor[1])

LeaderOf(descriptor, p) == descriptor[p + 1][1]

HasReplica(descriptor, p, b) == \E r \in DOMAIN descriptor[p + 1] : descriptor[p + 1][r] = b

\* What CreateTopic answers: an existing topic only if the request matches it.
CreateStatus(topics, topic, count, rf) ==
  IF count <= 0 \/ rf <= 0 \/ rf > Cardinality(Brokers) THEN "invalid"
  ELSE IF topic \notin DOMAIN topics THEN "created"
  ELSE IF /\ PartitionCount(topics[topic]) = count
          /\ ReplicationFactor(topics[topic]) = rf THEN "existing"
  ELSE "exists"

UpsertTopic(topics, topic, descriptor) ==
  [t \in DOMAIN topics \cup {topic} |-> IF t = topic THEN descriptor ELSE topics[t]]

DeleteTopic(topics, topic) == [t \in DOMAIN topics \ {topic} |-> topics[t]]

PartitionsHostedBy(topics, b) ==
  {tp \in UNION {{t} \X (0..PartitionCount(topics[t]) - 1) : t \in DOMAIN topics} :
     HasReplica(topics[tp[1]], tp[2], b)}

\* The topics asked for that the broker knows.
BuildMetadataResponse(topics, requested) ==
  [t \in DOMAIN topics \cap requested |-> topics[t]]

\* Routing of a keyed record, given the hash of its key.
PartitionForKey(hash, count) == IF count <= 1 THEN 0 ELSE hash % count

PartitionRoundRobin(counter, count) == IF count <= 1 THEN 0 ELSE counter % count
=============================================================================
