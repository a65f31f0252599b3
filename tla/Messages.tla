------------------------------ MODULE Messages ------------------------------
(***************************************************************************)
(* The messages brokers and clients exchange: what each one's Encode puts  *)
(* in a payload and what its Decode expects there, in the order of the     *)
(* code, and how a payload from a peer of another version is received.     *)
(***************************************************************************)
EXTENDS PayloadCodec

CONSTANTS TextLengths, ItemCounts, IdCounts, TailSizes

VARIABLES message,  \* the name of the message on its way, or "none"
          filling,  \* how its fields are filled in
          payload   \* its pieces as they arrive

wireVars == <<message, filling, payload>>

Fillings ==
  [text : TextLengths, items : ItemCounts, ids : IdCounts, tail : TailSizes]

kRoundRobin == 1
kQuorum == 2
kReadReplicated == 1
kLz4Like == 1

ResponseHeader_Encode(f) == PutInt("error", 2) \o PutString("error_message", f)
ResponseHeader_Decode == <<GetInt("error", 2), Text("error_message")>>

EncodeErrorResponse(f) == ResponseHeader_Encode(f)

-----------------------------------------------------------------------------
(* Produce, fetch and list-offsets.                                        *)

ProduceRequest_Encode(f) ==
  PutString("topic", f) \o PutInt("partition", 4) \o PutEnum("acks", kQuorum)
    \o PutInt("timeout_ms", 4) \o PutRecords(f)
ProduceRequest_Decode ==
  <<Text("topic"), GetIndex("partition"), GetEnum("acks", kQuorum),
    GetInt("timeout_ms", 4), Records>>

ProduceResponse_Encode(f) ==
  ResponseHeader_Encode(f) \o PutInt("base_offset", 8) \o PutInt("last_offset", 8)
    \o PutInt("append_time", 8) \o PutInt("high_water_mark", 8)
ProduceResponse_Decode ==
  ResponseHeader_Decode
    \o <<GetInt("base_offset", 8), GetInt("last_offset", 8), GetInt("append_time", 8),
         GetInt("high_water_mark", 8)>>

FetchRequest_Encode(f) ==
  PutString("topic", f) \o PutInt("partition", 4) \o PutInt("fetch_offset", 8)
    \o PutInt("max_bytes", 4) \o PutInt("min_bytes", 4) \o PutInt("max_wait_ms", 4)
    \o PutEnum("isolation", kReadReplicated)
FetchRequest_Decode ==
  <<Text("topic"), GetIndex("partition"), GetInt("fetch_offset", 8),
    GetInt("max_bytes", 4), GetInt("min_bytes", 4), GetInt("max_wait_ms", 4),
    GetEnum("isolation", kReadReplicated)>>

FetchResponse_Encode(f) ==
  ResponseHeader_Encode(f) \o PutInt("high_water_mark", 8)
    \o PutInt("log_start_offset", 8) \o PutInt("base_offset", 8) \o PutRecords(f)
FetchResponse_Decode ==
  ResponseHeader_Decode
    \o <<GetInt("high_water_mark", 8), GetInt("log_start_offset", 8),
         GetInt("base_offset", 8), Records>>

ListOffsetsRequest_Encode(f) ==
  PutString("topic", f) \o PutInt("partition", 4) \o PutInt("timestamp", 8)
ListOffsetsRequest_Decode ==
  <<Text("topic"), GetIndex("partition"), GetInt("timestamp", 8)>>

ListOffsetsResponse_Encode(f) ==
  ResponseHeader_Encode(f) \o PutInt("offset", 8) \o PutInt("timestamp", 8)
ListOffsetsResponse_Decode ==
  ResponseHeader_Decode \o <<GetInt("offset", 8), GetInt("timestamp", 8)>>

-----------------------------------------------------------------------------
(* Topics, metadata and health.                                            *)

EncodeBrokerIds(field, f) == PutArray(field, [f EXCEPT !.items = f.ids], PutInt("id", 4))
DecodeBrokerIds(field) == Array(field, 4, <<GetInt("id", 4)>>)

CreateTopicRequest_Encode(f) ==
  PutString("topic", f) \o PutInt("partitions", 4) \o PutInt("replication_factor", 2)
    \o PutInt("retention_ms", 8) \o PutInt("segment_bytes", 8)
    \o PutEnum("compression", kLz4Like) \o PutInt("from_controller", 1)
CreateTopicRequest_Decode ==
  <<Text("topic"), GetInt("partitions", 4), GetInt("replication_factor", 2),
    GetInt("retention_ms", 8), GetInt("segment_bytes", 8),
    GetEnum("compression", kLz4Like), GetInt("from_controller", 1)>>

CreateTopicResponse_Encode(f) == ResponseHeader_Encode(f) \o PutInt("partitions", 4)
CreateTopicResponse_Decode == ResponseHeader_Decode \o <<GetInt("partitions", 4)>>

DeleteTopicRequest_Encode(f) == PutString("topic", f)
DeleteTopicRequest_Decode == <<Text("topic")>>
DeleteTopicResponse_Encode(f) == ResponseHeader_Encode(f)
DeleteTopicResponse_Decode == ResponseHeader_Decode

MetadataRequest_Encode(f) == PutArray("topics", f, PutString("name", f))
MetadataRequest_Decode == <<Array("topics", 2, <<Text("name")>>)>>

MetadataResponse_Encode(f) ==
  LET broker == PutInt("id", 4) \o PutString("host", f) \o PutInt("port", 2)
      partition == PutInt("index", 4) \o PutInt("leader", 4) \o PutInt("leader_epoch", 8)
                     \o EncodeBrokerIds("replicas", f)
                     \o EncodeBrokerIds("in_sync_replicas", f)
      topic == PutString("name", f) \o PutArray("partitions", f, partition)
  IN  ResponseHeader_Encode(f) \o PutInt("controller_id", 4)
        \o PutArray("brokers", f, broker) \o PutArray("topics", f, topic)
\* Mutant: the bytes a partition takes at least count a broker id in each list.
Bug_MetadataResponse_Decode ==
  LET partition == <<GetInt("index", 4), GetInt("leader", 4), GetInt("leader_epoch", 8),
                     DecodeBrokerIds("replicas"), DecodeBrokerIds("in_sync_replicas")>>
  IN  ResponseHeader_Decode
        \o <<GetInt("controller_id", 4),
             Array("brokers", 8, <<GetInt("id", 4), Text("host"), GetInt("port", 2)>>),
             Array("topics", 6, <<Text("name"), Array("partitions", 32, partition)>>)>>
MetadataResponse_Decode ==
  LET partition == <<GetInt("index", 4), GetInt("leader", 4), GetInt("leader_epoch", 8),
                     DecodeBrokerIds("replicas"), DecodeBrokerIds("in_sync_replicas")>>
  IN  ResponseHeader_Decode
        \o <<GetInt("controller_id", 4),
             Array("brokers", 8, <<GetInt("id", 4), Text("host"), GetInt("port", 2)>>),
             Array("topics", 6, <<Text("name"), Array("partitions", 24, partition)>>)>>

ListTopicsRequest_Encode(f) == <<>>
ListTopicsRequest_Decode == <<>>
ListTopicsResponse_Encode(f) ==
  ResponseHeader_Encode(f)
    \o PutArray("topics", f, PutString("name", f) \o PutInt("partitions", 4)
                               \o PutInt("total_bytes", 8) \o PutInt("total_records", 8))
ListTopicsResponse_Decode ==
  ResponseHeader_Decode
    \o <<Array("topics", 22, <<Text("name"), GetInt("partitions", 4),
                               GetInt("total_bytes", 8), GetInt("total_records", 8)>>)>>

HealthRequest_Encode(f) == <<>>
HealthRequest_Decode == <<>>
HealthResponse_Encode(f) ==
  ResponseHeader_Encode(f) \o PutInt("broker_id", 4) \o PutInt("uptime_ms", 8)
    \o PutInt("hosted_partitions", 4) \o PutInt("leader_partitions", 4) \o PutInt("ready", 1)
    \o PutString("version", f)
HealthResponse_Decode ==
  ResponseHeader_Decode
    \o <<GetInt("broker_id", 4), GetInt("uptime_ms", 8), GetInt("hosted_partitions", 4),
         GetInt("leader_partitions", 4), GetInt("ready", 1), Text("version")>>

DescribeClusterRequest_Encode(f) == <<>>
DescribeClusterRequest_Decode == <<>>
DescribeClusterResponse_Encode(f) ==
  ResponseHeader_Encode(f) \o PutInt("controller_id", 4)
    \o PutArray("brokers", f, PutInt("id", 4) \o PutString("host", f) \o PutInt("port", 2))
    \o EncodeBrokerIds("live_brokers", f)
DescribeClusterResponse_Decode ==
  ResponseHeader_Decode
    \o <<GetInt("controller_id", 4),
         Array("brokers", 8, <<GetInt("id", 4), Text("host"), GetInt("port", 2)>>),
         DecodeBrokerIds("live_brokers")>>

-----------------------------------------------------------------------------
(* Consumer groups.                                                        *)

JoinGroupRequest_Encode(f) ==
  PutString("group_id", f) \o PutString("member_id", f)
    \o PutArray("topics", f, PutString("name", f)) \o PutInt("session_timeout_ms", 4)
    \o PutEnum("strategy", kRoundRobin)
JoinGroupRequest_Decode ==
  <<Text("group_id"), Text("member_id"), Array("topics", 2, <<Text("name")>>),
    GetInt("session_timeout_ms", 4), GetEnum("strategy", kRoundRobin)>>

JoinGroupResponse_Encode(f) ==
  ResponseHeader_Encode(f) \o PutInt("generation", 4) \o PutString("member_id", f)
    \o PutString("leader_id", f)
    \o PutArray("assignment", f, PutString("topic", f) \o PutInt("partition", 4))
JoinGroupResponse_Decode ==
  ResponseHeader_Decode
    \o <<GetInt("generation", 4), Text("member_id"), Text("leader_id"),
         Array("assignment", 6, <<Text("topic"), GetIndex("partition")>>)>>

HeartbeatRequest_Encode(f) ==
  PutString("group_id", f) \o PutString("member_id", f) \o PutInt("generation", 4)
HeartbeatRequest_Decode == <<Text("group_id"), Text("member_id"), GetInt("generation", 4)>>
HeartbeatResponse_Encode(f) ==
  ResponseHeader_Encode(f) \o PutInt("generation", 4) \o PutInt("rejoin_required", 1)
HeartbeatResponse_Decode ==
  ResponseHeader_Decode \o <<GetInt("generation", 4), GetInt("rejoin_required", 1)>>

LeaveGroupRequest_Encode(f) == PutString("group_id", f) \o PutString("member_id", f)
LeaveGroupRequest_Decode == <<Text("group_id"), Text("member_id")>>
LeaveGroupResponse_Encode(f) == ResponseHeader_Encode(f)
LeaveGroupResponse_Decode == ResponseHeader_Decode

CommitOffsetRequest_Encode(f) ==
  PutString("group_id", f) \o PutString("member_id", f) \o PutInt("generation", 4)
    \o PutString("topic", f) \o PutInt("partition", 4) \o PutInt("offset", 8)
    \o PutString("metadata", f)
CommitOffsetRequest_Decode ==
  <<Text("group_id"), Text("member_id"), GetInt("generation", 4), Text("topic"),
    GetIndex("partition"), GetInt("offset", 8), Text("metadata")>>
CommitOffsetResponse_Encode(f) == ResponseHeader_Encode(f)
CommitOffsetResponse_Decode == ResponseHeader_Decode

FetchOffsetRequest_Encode(f) ==
  PutString("group_id", f) \o PutString("topic", f) \o PutInt("partition", 4)
FetchOffsetRequest_Decode == <<Text("group_id"), Text("topic"), GetIndex("partition")>>
FetchOffsetResponse_Encode(f) ==
  ResponseHeader_Encode(f) \o PutInt("offset", 8) \o PutString("metadata", f)
FetchOffsetResponse_Decode ==
  ResponseHeader_Decode \o <<GetInt("offset", 8), Text("metadata")>>

-----------------------------------------------------------------------------
(* Replication.                                                            *)

ReplicateRequest_Encode(f) ==
  PutString("topic", f) \o PutInt("partition", 4) \o PutInt("leader_id", 4)
    \o PutInt("leader_epoch", 8) \o PutInt("base_offset", 8) \o PutInt("prev_offset", 8)
    \o PutInt("leader_high_water_mark", 8) \o PutInt("leader_log_start_offset", 8)
    \o PutRecords(f)
ReplicateRequest_Decode ==
  <<Text("topic"), GetIndex("partition"), GetInt("leader_id", 4), GetInt("leader_epoch", 8),
    GetInt("base_offset", 8), GetInt("prev_offset", 8), GetInt("leader_high_water_mark", 8),
    GetInt("leader_log_start_offset", 8), Records>>
ReplicateResponse_Encode(f) ==
  ResponseHeader_Encode(f) \o PutInt("follower_id", 4) \o PutInt("log_end_offset", 8)
    \o PutInt("flushed_offset", 8) \o PutInt("leader_epoch", 8)
ReplicateResponse_Decode ==
  ResponseHeader_Decode
    \o <<GetInt("follower_id", 4), GetInt("log_end_offset", 8), GetInt("flushed_offset", 8),
         GetInt("leader_epoch", 8)>>

ReplicaFetchRequest_Encode(f) ==
  PutString("topic", f) \o PutInt("partition", 4) \o PutInt("follower_id", 4)
    \o PutInt("leader_epoch", 8) \o PutInt("fetch_offset", 8) \o PutInt("max_bytes", 4)
ReplicaFetchRequest_Decode ==
  <<Text("topic"), GetIndex("partition"), GetInt("follower_id", 4), GetInt("leader_epoch", 8),
    GetInt("fetch_offset", 8), GetInt("max_bytes", 4)>>
ReplicaFetchResponse_Encode(f) ==
  ResponseHeader_Encode(f) \o PutInt("leader_epoch", 8) \o PutInt("high_water_mark", 8)
    \o PutInt("log_start_offset", 8) \o PutInt("base_offset", 8) \o PutRecords(f)
ReplicaFetchResponse_Decode ==
  ResponseHeader_Decode
    \o <<GetInt("leader_epoch", 8), GetInt("high_water_mark", 8), GetInt("log_start_offset", 8),
         GetInt("base_offset", 8), Records>>

ReplicaAckRequest_Encode(f) ==
  PutString("topic", f) \o PutInt("partition", 4) \o PutInt("follower_id", 4)
    \o PutInt("leader_epoch", 8) \o PutInt("log_end_offset", 8) \o PutInt("flushed_offset", 8)
ReplicaAckRequest_Decode ==
  <<Text("topic"), GetIndex("partition"), GetInt("follower_id", 4), GetInt("leader_epoch", 8),
    GetInt("log_end_offset", 8), GetInt("flushed_offset", 8)>>
ReplicaAckResponse_Encode(f) == ResponseHeader_Encode(f) \o PutInt("high_water_mark", 8)
ReplicaAckResponse_Decode == ResponseHeader_Decode \o <<GetInt("high_water_mark", 8)>>

-----------------------------------------------------------------------------
(* Every message by its name: what it is written as, how it is read.       *)

Requests ==
  [f \in Fillings |->
    [ProduceRequest |-> <<ProduceRequest_Encode(f), ProduceRequest_Decode>>,
     FetchRequest |-> <<FetchRequest_Encode(f), FetchRequest_Decode>>,
     ListOffsetsRequest |-> <<ListOffsetsRequest_Encode(f), ListOffsetsRequest_Decode>>,
     CreateTopicRequest |-> <<CreateTopicRequest_Encode(f), CreateTopicRequest_Decode>>,
     DeleteTopicRequest |-> <<DeleteTopicRequest_Encode(f), DeleteTopicRequest_Decode>>,
     MetadataRequest |-> <<MetadataRequest_Encode(f), MetadataRequest_Decode>>,
     ListTopicsRequest |-> <<ListTopicsRequest_Encode(f), ListTopicsRequest_Decode>>,
     HealthRequest |-> <<HealthRequest_Encode(f), HealthRequest_Decode>>,
     DescribeClusterRequest |-> <<DescribeClusterRequest_Encode(f), DescribeClusterRequest_Decode>>,
     JoinGroupRequest |-> <<JoinGroupRequest_Encode(f), JoinGroupRequest_Decode>>,
     HeartbeatRequest |-> <<HeartbeatRequest_Encode(f), HeartbeatRequest_Decode>>,
     LeaveGroupRequest |-> <<LeaveGroupRequest_Encode(f), LeaveGroupRequest_Decode>>,
     CommitOffsetRequest |-> <<CommitOffsetRequest_Encode(f), CommitOffsetRequest_Decode>>,
     FetchOffsetRequest |-> <<FetchOffsetRequest_Encode(f), FetchOffsetRequest_Decode>>,
     ReplicateRequest |-> <<ReplicateRequest_Encode(f), ReplicateRequest_Decode>>,
     ReplicaFetchRequest |-> <<ReplicaFetchRequest_Encode(f), ReplicaFetchRequest_Decode>>,
     ReplicaAckRequest |-> <<ReplicaAckRequest_Encode(f), ReplicaAckRequest_Decode>>]]

Responses ==
  [f \in Fillings |->
    [ProduceResponse |-> <<ProduceResponse_Encode(f), ProduceResponse_Decode>>,
     FetchResponse |-> <<FetchResponse_Encode(f), FetchResponse_Decode>>,
     ListOffsetsResponse |-> <<ListOffsetsResponse_Encode(f), ListOffsetsResponse_Decode>>,
     CreateTopicResponse |-> <<CreateTopicResponse_Encode(f), CreateTopicResponse_Decode>>,
     DeleteTopicResponse |-> <<DeleteTopicResponse_Encode(f), DeleteTopicResponse_Decode>>,
     MetadataResponse |-> <<MetadataResponse_Encode(f), MetadataResponse_Decode>>,
     ListTopicsResponse |-> <<ListTopicsResponse_Encode(f), ListTopicsResponse_Decode>>,
     HealthResponse |-> <<HealthResponse_Encode(f), HealthResponse_Decode>>,
     DescribeClusterResponse |-> <<DescribeClusterResponse_Encode(f), DescribeClusterResponse_Decode>>,
     JoinGroupResponse |-> <<JoinGroupResponse_Encode(f), JoinGroupResponse_Decode>>,
     HeartbeatResponse |-> <<HeartbeatResponse_Encode(f), HeartbeatResponse_Decode>>,
     LeaveGroupResponse |-> <<LeaveGroupResponse_Encode(f), LeaveGroupResponse_Decode>>,
     CommitOffsetResponse |-> <<CommitOffsetResponse_Encode(f), CommitOffsetResponse_Decode>>,
     FetchOffsetResponse |-> <<FetchOffsetResponse_Encode(f), FetchOffsetResponse_Decode>>,
     ReplicateResponse |-> <<ReplicateResponse_Encode(f), ReplicateResponse_Decode>>,
     ReplicaFetchResponse |-> <<ReplicaFetchResponse_Encode(f), ReplicaFetchResponse_Decode>>,
     ReplicaAckResponse |-> <<ReplicaAckResponse_Encode(f), ReplicaAckResponse_Decode>>]]

IsRequest(m) == m \in DOMAIN Requests[filling]
Codec ==
  IF IsRequest(message) THEN Requests[filling][message] ELSE Responses[filling][message]
Written == Codec[1]
Decoded == Decode(Reader(payload), Codec[2])

\* The handlers that also ask for Complete().
ChecksComplete ==
  {"MetadataRequest", "JoinGroupRequest", "HeartbeatRequest", "LeaveGroupRequest",
   "CommitOffsetRequest", "FetchOffsetRequest", "CreateTopicRequest",
   "DeleteTopicRequest", "FetchRequest", "ListOffsetsRequest", "ReplicaFetchRequest",
   "ReplicaAckRequest"}

\* Whether the receiver takes the payload for the message.
Accepted(m, r) == IF m \in ChecksComplete THEN Complete(r) ELSE ~r.failed

-----------------------------------------------------------------------------
(* A message is sent whole, or by a peer whose version of it ends earlier  *)
(* or has one more field.                                                  *)

WireInit ==
  /\ message = "none" /\ payload = <<>>
  /\ filling = [text |-> 0, items |-> 0, ids |-> 0, tail |-> 0]

SendRequest ==
  /\ message = "none"
  /\ filling' \in Fillings
  /\ message' \in DOMAIN Requests[filling']
  /\ payload' = Requests[filling'][message'][1]

SendResponse ==
  /\ message = "none"
  /\ filling' \in Fillings
  /\ message' \in DOMAIN Responses[filling']
  /\ payload' = Responses[filling'][message'][1]

OlderPeer ==
  /\ message # "none" /\ payload # <<>> /\ Len(payload) <= Len(Written)
  /\ payload' = Front(payload)
  /\ UNCHANGED <<message, filling>>

NewerPeer ==
  /\ message # "none" /\ payload = Written
  /\ payload' = payload \o PutInt("field of a later version", 4)
  /\ UNCHANGED <<message, filling>>

WireNext == SendRequest \/ SendResponse \/ OlderPeer \/ NewerPeer

-----------------------------------------------------------------------------

\* What an Encode writes its Decode accepts, each field read from the bytes it was
\* written to and none left over, however many elements the arrays have and however
\* short the strings: a budget per array element above the least an element takes, or
\* two fields of one width in different order, would break it. The header of any
\* response, which a client reads first and which is all an error answer has, is read
\* the same way.
DecodesWhatWasEncoded ==
  message # "none" /\ payload = Written =>
    /\ Accepted(message, Decoded) /\ Decoded.right /\ Decoded.rest = <<>>
    /\ ~IsRequest(message) =>
         LET header == Decode(Reader(payload), ResponseHeader_Decode)
         IN  /\ ~header.failed /\ header.right
             /\ Len(payload) - Len(header.rest) = Len(EncodeErrorResponse(filling))

\* A payload that ends early is refused wherever it ends, so no field keeps a value
\* left from its initialisation; a field the receiver does not know makes a handler
\* that asks for Complete() refuse the request, and leaves what a client reads of a
\* response as it was.
SkewIsLoud ==
  message # "none" =>
    /\ Len(payload) < Len(Written) => ~Accepted(message, Decoded)
    /\ Len(payload) > Len(Written) =>
         /\ Accepted(message, Decoded) <=> message \notin ChecksComplete
         /\ Decoded.right

\* Encode and Decode agree on every message, and peers notice when they do not.
MessagesUnderstood == DecodesWhatWasEncoded /\ SkewIsLoud
=============================================================================
