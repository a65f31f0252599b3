------------------------------ MODULE Producer ------------------------------
(***************************************************************************)
(* The clients of the cluster: a producer with its batch, its metadata     *)
(* cache and its retries (clients/cpp/src/producer.cc on                   *)
(* clients/cpp/src/client_context.cc), and an administrator who creates    *)
(* and deletes topics.  The producer sends the records 1, 2, ... to one    *)
(* topic.                                                                  *)
(***************************************************************************)
EXTENDS Cluster

CONSTANTS
  Topic,         \* the topic the producer sends to
  KeyHash,       \* record |-> hash of its key, or -1 for a record without a key
  BatchRecords,  \* ProducerConfig::batch_records
  Large,         \* records that reach batch_bytes by themselves
  MaxAttempts,   \* RetryPolicy::max_attempts
  MayExpire,     \* whether cached metadata may reach metadata_refresh_ms
  AdminCalls,    \* requests of the administrator
  Budgets        \* bound: <<records, administrator's calls, faults>> of a behaviour

(* The records are numbered and have hashes.  AdminClient creates and       *)
(* deletes topics and does not say that its request was pushed by the       *)
(* controller.                                                              *)
ASSUME RecordsAssumption ==
  /\ Topic \in Topics /\ BatchRecords \in Nat /\ Large \subseteq Nat /\ KeyHash \in Seq(Int)
  /\ \A budget \in Budgets : budget[1] \in 0..Len(KeyHash)
ASSUME AdminAssumption ==
  \A req \in AdminCalls :
    /\ DOMAIN req = DOMAIN NoRequest /\ req.kind \in {"create", "delete"} /\ req.topic \in Topics
    /\ req.count \in Int /\ req.rf \in Int /\ req.part \in Int /\ req.pushed = FALSE

VARIABLES
  prod,      \* the producer and its context
  admin,     \* calls the administrator has still to make
  promised,  \* whether the administrator was told of a creation
  acked,     \* <<record, partition>> the brokers have acknowledged
  told,      \* records that a returned DeliveryResult covers
  retried    \* whether a produce call has timed out

vars == <<clusterVars, prod, admin, promised, acked, told, retried>>

AdminClient == <<0, 1>>
ProducerClient == <<0, 2>>

\* No cached metadata for the topic.
Unknown == <<>>

IdleProducer == [pc |-> "idle", next |-> 0, left |-> 0, cache |-> Unknown, pending |-> <<>>,
                 target |-> 0, batch |-> <<>>, part |-> 0, attempt |-> 0, held |-> <<>>,
                 sticky |-> 0, counter |-> 0]

Init ==
  /\ ClusterInit
  /\ \E budget \in Budgets :
       /\ prod = [IdleProducer EXCEPT !.left = budget[1]]
       /\ admin = budget[2] /\ faults = budget[3]
  /\ promised = FALSE /\ acked = {} /\ told = {} /\ retried = FALSE

(***************************************************************************)
(* ClientContext.                                                          *)
(***************************************************************************)
\* The brokers that accept a connection; the rotation of the starting point
\* makes any of them the first to be tried.
AnyBroker == up

\* What the cache may hold after RefreshMetadata; any reachable broker answers,
\* and one that does not know the topic leaves the entry as it is.
Refreshed(cache) ==
  {IF Topic \in DOMAIN topics[b] THEN topics[b][Topic] ELSE cache : b \in AnyBroker}

\* The caches with which PartitionCount and LeaderFor may go on.
CacheForCount(cache) == IF cache = Unknown THEN Refreshed(cache) ELSE {cache}

CacheForLeader(cache) ==
  IF cache = Unknown THEN Refreshed(cache)
  ELSE IF MayExpire THEN {cache} \cup Refreshed(cache) ELSE {cache}

\* LeaderOrAny: the leader, or any broker for a partition that is not known.
LeaderOrAny(cache, part) ==
  IF part < PartitionCount(cache) THEN {LeaderOf(cache, part)} ELSE Brokers

(***************************************************************************)
(* Producer.                                                               *)
(***************************************************************************)
\* RouteFor: partition 0 of a topic that is not known; the partition of the
\* batch for a record without a key; the hash of the key otherwise.
RouteFor(p, record) ==
  IF p.cache = Unknown THEN 0
  ELSE IF KeyHash[record] = -1
  THEN LET sticky == IF p.pending = <<>>
                     THEN PartitionRoundRobin(p.counter, PartitionCount(p.cache)) ELSE p.sticky
       IN IF sticky >= PartitionCount(p.cache) THEN 0 ELSE sticky
  ELSE PartitionForKey(KeyHash[record], PartitionCount(p.cache))

\* The fields RouteFor keeps for the records that follow.
Routed(p, record) ==
  IF p.cache # Unknown /\ KeyHash[record] = -1
  THEN [p EXCEPT !.sticky = RouteFor(p, record),
                 !.counter = IF p.pending = <<>> THEN @ + 1 ELSE @]
  ELSE p

\* The buffer keeps what is being sent.
Bug_Flushing(p) ==
  [p EXCEPT !.pc = "attempt", !.batch = p.pending, !.part = p.target, !.attempt = 0]

\* Flush takes the records out of the buffer before it sends them.
Flushing(p) ==
  [p EXCEPT !.pc = "attempt", !.batch = p.pending, !.part = p.target, !.pending = <<>>,
            !.attempt = 0]

\* The record joins the buffer, which is flushed when a threshold is reached.
Buffered(p, record, part) ==
  LET q == [p EXCEPT !.pc = "idle", !.batch = <<>>, !.part = 0, !.attempt = 0, !.held = <<>>,
                     !.pending = Append(@, record), !.target = part]
  IN IF Len(q.pending) >= BatchRecords \/ record \in Large THEN Flushing(q) ELSE q

\* Send: a record for another partition flushes the buffer first.
Send ==
  /\ prod.pc = "idle" /\ prod.left > 0
  /\ \/ \E cache \in CacheForCount(prod.cache) :
          LET record == prod.next + 1
              p == [prod EXCEPT !.cache = cache, !.next = record, !.left = @ - 1]
              part == RouteFor(p, record)
              q == Routed(p, record)
          IN prod' = IF p.pending # <<>> /\ p.target # part
                     THEN [Flushing(q) EXCEPT !.held = <<record, part>>]
                     ELSE Buffered(q, record, part)
     \/ /\ CacheForCount(prod.cache) = {}
        /\ prod' = [prod EXCEPT !.next = @ + 1, !.left = @ - 1]
  /\ UNCHANGED <<clusterVars, admin, promised, acked, told, retried>>

Flush ==
  /\ prod.pc = "idle" /\ prod.pending # <<>>
  /\ prod' = Flushing(prod)
  /\ UNCHANGED <<clusterVars, admin, promised, acked, told, retried>>

ProduceRequest(p) ==
  [NoRequest EXCEPT !.kind = "produce", !.topic = Topic, !.part = p.part, !.records = p.batch]

\* The call returns an error; a record held back for the flush is dropped too.
Failed(p) == [p EXCEPT !.pc = "idle", !.batch = <<>>, !.part = 0, !.attempt = 0, !.held = <<>>]

\* One attempt of SendEncoded; an unreachable broker costs an attempt.
Attempt ==
  /\ prod.pc = "attempt"
  /\ \/ /\ prod.attempt = MaxAttempts
        /\ prod' = Failed(prod)
        /\ UNCHANGED <<inbox, reply>>
     \/ /\ prod.attempt < MaxAttempts
        /\ \E cache \in CacheForLeader(prod.cache) :
             /\ \E b \in LeaderOrAny(cache, prod.part) \cap up :
                  Call(ProducerClient, b, ProduceRequest(prod))
             /\ prod' = [prod EXCEPT !.pc = "wait", !.cache = cache]
     \/ /\ prod.attempt < MaxAttempts
        /\ \/ CacheForLeader(prod.cache) = {} /\ prod' = [prod EXCEPT !.attempt = @ + 1]
           \/ \E cache \in CacheForLeader(prod.cache) :
                /\ LeaderOrAny(cache, prod.part) \cap up = {}
                /\ prod' = [prod EXCEPT !.attempt = @ + 1, !.cache = cache]
        /\ UNCHANGED <<inbox, reply>>
  /\ UNCHANGED <<up, topics, open, disks, thread, history, faults, admin, promised, acked, told,
                 retried>>

\* The result of the flush that made room for a record is not returned.
Bug_Answered ==
  /\ prod.pc = "wait" /\ reply[ProducerClient] # "pending"
  /\ LET code == reply[ProducerClient]
         done == IF prod.held = <<>> THEN Failed(prod)
                 ELSE Buffered(prod, prod.held[1], prod.held[2])
         batch == {prod.batch[i] : i \in DOMAIN prod.batch}
     IN /\ prod' = IF code = "ok" THEN done ELSE Failed(prod)
        /\ acked' = IF code = "ok" THEN acked \cup (batch \X {prod.part}) ELSE acked
        /\ told' = IF code = "ok" /\ prod.held = <<>> THEN told \cup batch ELSE told
        /\ retried' = (retried \/ code = "timeout")
  /\ reply' = [reply EXCEPT ![ProducerClient] = "none"]
  /\ UNCHANGED <<up, topics, open, disks, inbox, thread, history, faults, admin, promised>>

\* The answer: delivered, tried again, or given up.
Answered ==
  /\ prod.pc = "wait" /\ reply[ProducerClient] # "pending"
  /\ LET code == reply[ProducerClient]
         again == [prod EXCEPT !.pc = "attempt", !.attempt = @ + 1,
                               !.cache = IF code = "unavailable" THEN @ ELSE Unknown]
         gone == IF code = "closed" THEN [prod EXCEPT !.cache = Unknown] ELSE prod
         done == IF prod.held = <<>> THEN Failed(prod)
                 ELSE Buffered(prod, prod.held[1], prod.held[2])
         batch == {prod.batch[i] : i \in DOMAIN prod.batch}
     IN /\ prod' = CASE code = "ok" -> done
                     [] code \in {"timeout", "unavailable", "not_leader"} -> again
                     [] OTHER -> Failed(gone)
        /\ acked' = IF code = "ok" THEN acked \cup (batch \X {prod.part}) ELSE acked
        /\ told' = IF code = "ok" /\ done.pc = "idle" THEN told \cup batch ELSE told
        /\ retried' = (retried \/ code = "timeout")
  /\ reply' = [reply EXCEPT ![ProducerClient] = "none"]
  /\ UNCHANGED <<up, topics, open, disks, inbox, thread, history, faults, admin, promised>>

(***************************************************************************)
(* AdminClient.                                                            *)
(***************************************************************************)
AdminCall ==
  /\ reply[AdminClient] = "none" /\ admin > 0
  /\ \E b \in AnyBroker, req \in AdminCalls :
       /\ Call(AdminClient, b, req)
       /\ deletes' = IF req.kind = "delete" THEN deletes \cup {req.topic} ELSE deletes
       /\ admin' = admin - 1
  /\ UNCHANGED <<up, topics, open, disks, thread, created, doubled, crowded, faults, prod,
                 promised, acked, told, retried>>

AdminAnswered ==
  /\ reply[AdminClient] \notin {"none", "pending"}
  /\ promised' = (promised \/ reply[AdminClient] = "created")
  /\ reply' = [reply EXCEPT ![AdminClient] = "none"]
  /\ UNCHANGED <<up, topics, open, disks, inbox, thread, history, faults, prod, admin, acked,
                 told, retried>>

ClientStep == Send \/ Flush \/ Attempt \/ Answered \/ AdminCall \/ AdminAnswered

Next ==
  \/ BrokerStep /\ UNCHANGED <<prod, admin, promised, acked, told, retried>>
  \/ ClientStep

Spec == Init /\ [][Next]_vars
-----------------------------------------------------------------------------
Codes == {"none", "pending", "ok", "created", "timeout", "closed", "unavailable", "not_leader",
          "not_found", "exists", "invalid"}

IsTable(table) == \E ts \in SUBSET Topics : table \in [ts -> Seq(Seq(Brokers))]

\* The tables, the files, the calls and the producer keep their types; a replica
\* is open only over a directory that holds its first segment, or is just
\* being deleted.
TypeOK ==
  /\ up \subseteq Brokers
  /\ \A b \in Brokers : IsTable(topics[b]) /\ IsTable(disk[b])
  /\ \A b \in Brokers : open[b] \subseteq Partitions /\ dirs[b] \subseteq Partitions
  /\ deletes = {} => \A b \in Brokers : open[b] \subseteq dirs[b]
  /\ temp \in [Brokers -> {"none", "empty", "full"}]
  /\ reply \in [Callers -> Codes]
  /\ \A b \in Brokers, w \in Workers : \A i \in DOMAIN inbox[b][w] :
       WorkerForRequest(inbox[b][w][i]) = w
  /\ acked \subseteq (1..prod.next) \X (0..(MaxPartitions - 1)) /\ told \subseteq 1..prod.next

\* Brokers that know a topic agree on its partitions and their leaders, as long
\* as the controller has created it only once: whichever of the push, the
\* forwarded answer, the periodic reconciliation and the file a broker has the
\* topic from, in whatever order they arrive (EnsureTopic, BroadcastTopic,
\* ReconcileMetadataFromController, LoadFrom).
PlacementAgrees ==
  \A t \in Topics, b, c \in Brokers :
    created[t] <= 1 /\ t \in DOMAIN topics[b] \cap DOMAIN topics[c] =>
      topics[b][t] = topics[c][t]

\* A thread that still has to open a partition of the topic.
IsOpening(b, tp) ==
  \E w \in Threads :
    /\ thread[b][w].pc \in {"open", "emplace"} /\ thread[b][w].topic = tp[1]
    /\ thread[b][w].part <= tp[2]

\* What a broker's table assigns to it is open or being opened: a broker never
\* refuses for good a partition that clients are sent to it for
\* (OpenPartitionsForTopic after CreateTopic and after UpsertTopic,
\* OpenHostedPartitions).
HostedOpen ==
  \A b \in up : \A tp \in PartitionsHostedBy(topics[b], b) :
    tp[1] \notin deletes => tp \in open[b] \/ IsOpening(b, tp)

\* An acknowledged record stays in the log of its partition's leader, through
\* kills and through every reopening of the partition, unless the topic was
\* deleted or two threads opened the partition at the same time (OpenPartition).
AckedKept ==
  ~doubled /\ Topic \notin deletes =>
    \A a \in acked :
      \E b \in Brokers :
        /\ LeaderOf(ComputeAssignments(Topic, a[2] + 1, 1), a[2]) = b
        /\ \E i \in DOMAIN data[b][<<Topic, a[2]>>] : data[b][<<Topic, a[2]>>][i] = a[1]

\* No record enters a partition behind one that was sent after it, unless as
\* a copy, and there are copies only if a call has timed out: SendEncoded's
\* retries stand in the leader's queue before the next batch, whichever brokers
\* the attempts went to meanwhile.
OrderKept ==
  \A b \in Brokers, tp \in Partitions :
    LET log == data[b][tp]
    IN \A i, j \in DOMAIN log :
         i < j /\ log[j] <= log[i] => retried /\ \E k \in 1..i : log[k] = log[j]

\* Send's comment: the return values account for every record the brokers
\* acknowledged.  It holds but for records that were flushed to make room for
\* one that reached batch_bytes by itself.
Accounted ==
  prod.pc = "idle" =>
    \A a \in acked : a[1] \in told \/ \E l \in Large : a[1] < l /\ l <= prod.next

\* A creation the administrator was told of is in the controller's file, and in
\* its table whenever it runs: a kill at any moment does not undo it (EnsureTopic
\* persists before it broadcasts and answers).
CreationKept ==
  promised /\ deletes = {} =>
    /\ Topic \in DOMAIN disk[ControllerId]
    /\ ControllerId \in up => Topic \in DOMAIN topics[ControllerId]

\* SaveTo's comment: a crash at any moment leaves a file that the next start
\* can parse.  It holds but for two threads of a broker that save at once.
MetadataLoads == ~crowded => \A b \in Brokers : Loads(disk[b])

\* The tables keep their form, and a kill of any broker at any moment leaves files
\* that load and every creation somebody was told of.
MetadataKept == TypeOK /\ CreationKept /\ MetadataLoads
=============================================================================
