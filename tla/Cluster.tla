------------------------------ MODULE Cluster ------------------------------
(***************************************************************************)
(* How brokers create, spread, persist and delete topics                   *)
(* (src/broker/broker.cc, src/broker/partition_manager.cc and the handlers *)
(* of src/broker/request_handler.cc), and how a produce request finds its  *)
(* partition.  Each broker has worker threads with a queue each and a      *)
(* maintenance thread.  Calls between brokers, and of the clients that     *)
(* Producer.tla adds, block the caller until the answer, the end of the    *)
(* connection or a timeout; a request whose caller has given up is         *)
(* executed all the same and its answer is dropped.  A connection that a   *)
(* kill has closed is opened again by the next call over it.               *)
(***************************************************************************)
EXTENDS ClusterMetadata

CONSTANTS
  Topics,
  WorkerCount,    \* worker_threads
  DefaultCount, DefaultFactor,   \* default_partitions, default_replication_factor
  MaxPartitions,  \* bound: partitions of a topic
  Clients,        \* clients that call the brokers, as pairs <<0, n>>
  MayKill         \* brokers that may be killed

(* The brokers are those of a configuration file; the empty name is no     *)
(* topic's.                                                                *)
ASSUME ClusterAssumption ==
  /\ Cardinality(Brokers) \in Nat /\ "" \notin Topics /\ DefaultCount \in Int /\ DefaultFactor \in Int

VARIABLES
  up,        \* brokers that run
  topics,    \* the topic table of each broker
  open,      \* partitions_: the replicas each broker has open
  data,      \* the records in each broker's partition directories
  dirs,      \* partition directories that hold a segment file
  disk,      \* metadata.tsv: a topic table, or Torn
  temp,      \* metadata.tsv.tmp: "none", "empty" or "full"
  inbox,     \* the queue of each worker
  thread,    \* what each thread is doing
  reply,     \* caller |-> "none", "pending" or the code of the answer
  created,   \* how often the controller has created each topic
  deletes,   \* topics of which a deletion was requested
  doubled,   \* whether two threads opened one partition at the same time
  crowded,   \* whether two threads saved the metadata at the same time
  faults     \* bound: kills, and timeouts of calls that would be answered, to come

disks == <<data, dirs, disk, temp>>
calls == <<inbox, reply>>
history == <<created, deletes, doubled, crowded>>
clusterVars == <<up, topics, open, disks, calls, thread, history, faults>>

Workers == 0..(WorkerCount - 1)
Maintenance == -1
Threads == Workers \cup {Maintenance}
Nobody == <<0, 0>>
Callers == Clients \cup (Brokers \X Threads)
Partitions == Topics \X (0..(MaxPartitions - 1))

\* A file that a restart cannot parse.
Torn == [t \in Topics |-> <<>>]

WorkerFor(tp) == tp[2] % WorkerCount

\* CREATE and DELETE go to worker 0, a produce request to its partition's.
WorkerForRequest(req) == IF req.kind = "produce" THEN WorkerFor(<<req.topic, req.part>>) ELSE 0

NoRequest == [kind |-> "none", topic |-> "", from |-> Nobody, count |-> 0, rf |-> 0,
              pushed |-> FALSE, part |-> 0, records |-> <<>>]

\* A thread with its request, the topic it is opening, the controller's answer
\* it is adopting, the peers it still has to push to and the file it saves to.
IdleThread == [pc |-> "idle", job |-> NoRequest, made |-> FALSE, topic |-> "", desc |-> <<>>,
               part |-> -1, fresh |-> FALSE, list |-> <<>>, adopted |-> FALSE, peers |-> {},
               at |-> "none"]

CreateRequest(topic, count, rf, pushed) ==
  [NoRequest EXCEPT !.kind = "create", !.topic = topic, !.count = count, !.rf = rf,
                    !.pushed = pushed]

ClusterInit ==
  /\ up = Brokers
  /\ topics = [b \in Brokers |-> <<>>] /\ open = [b \in Brokers |-> {}]
  /\ data = [b \in Brokers |-> [tp \in Partitions |-> <<>>]]
  /\ dirs = [b \in Brokers |-> {}]
  /\ disk = [b \in Brokers |-> <<>>] /\ temp = [b \in Brokers |-> "none"]
  /\ inbox = [b \in Brokers |-> [w \in Workers |-> <<>>]]
  /\ thread = [b \in Brokers |-> [w \in Threads |-> IdleThread]]
  /\ reply = [c \in Callers |-> "none"]
  /\ created = [t \in Topics |-> 0] /\ deletes = {}
  /\ doubled = FALSE /\ crowded = FALSE

(***************************************************************************)
(* Calls.                                                                  *)
(***************************************************************************)
\* The caller sends a request to a running broker and waits.
Call(caller, b, req) ==
  LET w == WorkerForRequest(req)
  IN /\ inbox' = [inbox EXCEPT ![b][w] = Append(@, [req EXCEPT !.from = caller])]
     /\ reply' = [reply EXCEPT ![caller] = "pending"]

\* A caller that has given up does not hear of its request again.
Disowned(req, callers) == IF req.from \in callers THEN [req EXCEPT !.from = Nobody] ELSE req

\* The worker that holds a caller's request: in its queue or in its hands.
Holds(b, w, caller) ==
  \/ thread[b][w].job.from = caller
  \/ \E i \in DOMAIN inbox[b][w] : inbox[b][w][i].from = caller

\* Two workers wait for each other.
Entangled(b, w, caller) ==
  /\ caller \in up \X Workers
  /\ Holds(caller[1], caller[2], <<b, w>>) /\ reply[<<b, w>>] = "pending"

\* A call times out.  It costs a fault unless it would never be answered.
Timeout(caller) ==
  /\ reply[caller] = "pending"
  /\ \E b \in up, w \in Workers :
       /\ Holds(b, w, caller)
       /\ \/ Entangled(b, w, caller) /\ UNCHANGED faults
          \/ ~Entangled(b, w, caller) /\ faults > 0 /\ faults' = faults - 1
       /\ thread' = [thread EXCEPT ![b][w].job = Disowned(@, {caller})]
       /\ inbox' = [inbox EXCEPT ![b][w] = [i \in DOMAIN @ |-> Disowned(@[i], {caller})]]
  /\ reply' = [reply EXCEPT ![caller] = "timeout"]
  /\ UNCHANGED <<up, topics, open, disks, history>>

\* The caller, if it still waits, has its answer.
Answer(req, code) == reply' = IF req.from = Nobody THEN reply ELSE [reply EXCEPT ![req.from] = code]

\* The thread's request is answered and the thread is free.
Respond(b, w, code) ==
  /\ thread' = [thread EXCEPT ![b][w] = IdleThread]
  /\ Answer(thread[b][w].job, code)

Goto(b, w, next) == thread' = [thread EXCEPT ![b][w] = next]

(***************************************************************************)
(* Broker::EnsureTopic.                                                    *)
(***************************************************************************)
\* Every broker creates the topic itself.
Bug_EnsureFrom(b, req) == [IdleThread EXCEPT !.job = req, !.pc = "create"]

\* How EnsureTopic begins for a topic the broker does not know.
EnsureFrom(b, req) ==
  [IdleThread EXCEPT !.job = req,
                     !.pc = IF b = ControllerId \/ req.pushed THEN "create" ELSE "forward"]

\* What EnsureTopic's result means for the request: a produce request resolves
\* its partition again, a create request is answered.  The answer is the same
\* whoever created the topic; "created" tells the two apart for the properties.
Ensured(b, w) ==
  IF thread[b][w].job.kind = "produce"
  THEN Goto(b, w, [IdleThread EXCEPT !.pc = "again", !.job = thread[b][w].job])
       /\ UNCHANGED reply
  ELSE Respond(b, w, IF thread[b][w].made THEN "created" ELSE "ok")

\* A thread inside SaveTo holds the table's lock in shared mode.
Saving(b) == \E w \in Threads : thread[b][w].pc \in {"write", "rename"}

\* The hosted partitions a thread still has to open.
ToOpen(b, th, opened) ==
  {p \in 0..(Len(th.desc) - 1) :
     p > th.part /\ HasReplica(th.desc, p, b) /\ <<th.topic, p>> \notin opened}

\* OpenPartitionsForTopic goes on, or ends: an adopted topic is followed by the
\* next one, a created topic is persisted, for one that existed all is done.
Opening(b, th, opened) ==
  IF ToOpen(b, th, opened) # {} THEN [th EXCEPT !.pc = "open"]
  ELSE IF th.adopted
  THEN [th EXCEPT !.pc = "adopt", !.topic = "", !.desc = <<>>, !.part = -1]
  ELSE IF th.made THEN [th EXCEPT !.pc = "save", !.part = -1]
  ELSE [th EXCEPT !.pc = "done"]

\* PartitionManager::CreateTopic puts the topic in the table.
Create(b, w) ==
  /\ thread[b][w].pc = "create" /\ ~Saving(b)
  /\ LET req == thread[b][w].job
         status == CreateStatus(topics[b], req.topic, req.count, req.rf)
         desc == IF status = "existing" THEN topics[b][req.topic]
                 ELSE ComputeAssignments(req.topic, req.count, req.rf)
         th == [thread[b][w] EXCEPT !.topic = req.topic, !.desc = desc,
                                    !.made = status = "created"]
     IN \/ /\ status = "created"
           /\ topics' = [topics EXCEPT ![b] = UpsertTopic(@, req.topic, desc)]
           /\ created' = IF b = ControllerId
                         THEN [created EXCEPT ![req.topic] = @ + 1] ELSE created
           /\ Goto(b, w, Opening(b, th, open[b]))
           /\ UNCHANGED reply
        \/ /\ status = "existing"
           /\ Goto(b, w, Opening(b, th, open[b]))
           /\ UNCHANGED <<topics, created, reply>>
        \/ /\ status \in {"exists", "invalid"}
           /\ Respond(b, w, status)
           /\ UNCHANGED <<topics, created>>
  /\ UNCHANGED <<up, open, disks, inbox, deletes, doubled, crowded, faults>>

\* The segment file is opened with truncation.
Bug_OpenLog(b, w) ==
  /\ thread[b][w].pc = "open"
  /\ LET due == ToOpen(b, thread[b][w], open[b])
     IN IF due = {}
        THEN /\ Goto(b, w, Opening(b, thread[b][w], open[b]))
             /\ UNCHANGED <<data, dirs>>
        ELSE \E p \in due :
               LET tp == <<thread[b][w].topic, p>>
               IN /\ \A r \in due : p <= r
                  /\ Goto(b, w, [thread[b][w] EXCEPT !.pc = "emplace", !.part = p, !.fresh = TRUE])
                  /\ data' = [data EXCEPT ![b][tp] = <<>>]
                  /\ dirs' = [dirs EXCEPT ![b] = @ \cup {tp}]
  /\ UNCHANGED <<up, topics, open, disk, temp, calls, history, faults>>

\* OpenPartition opens the log of the next partition, and creates its first
\* segment file if there is none,
OpenLog(b, w) ==
  /\ thread[b][w].pc = "open"
  /\ LET due == ToOpen(b, thread[b][w], open[b])
     IN IF due = {}
        THEN /\ Goto(b, w, Opening(b, thread[b][w], open[b]))
             /\ UNCHANGED dirs
        ELSE \E p \in due :
               LET tp == <<thread[b][w].topic, p>>
               IN /\ \A r \in due : p <= r
                  /\ Goto(b, w, [thread[b][w] EXCEPT !.pc = "emplace", !.part = p,
                                                     !.fresh = tp \notin dirs[b]])
                  /\ dirs' = [dirs EXCEPT ![b] = @ \cup {tp}]
  /\ UNCHANGED <<up, topics, open, data, disk, temp, calls, history, faults>>

\* and then enters it, unless another thread was faster.  The log of the slower
\* one is closed, which cuts its preallocated file back to the end it knows.
Emplace(b, w) ==
  /\ thread[b][w].pc = "emplace"
  /\ LET tp == <<thread[b][w].topic, thread[b][w].part>>
     IN IF tp \in open[b]
        THEN /\ data' = [data EXCEPT ![b][tp] = IF thread[b][w].fresh THEN <<>> ELSE @]
             /\ doubled' = TRUE
             /\ UNCHANGED open
        ELSE /\ open' = [open EXCEPT ![b] = @ \cup {tp}]
             /\ UNCHANGED <<data, doubled>>
  /\ Goto(b, w, Opening(b, [thread[b][w] EXCEPT !.fresh = FALSE], open'[b]))
  /\ UNCHANGED <<up, topics, dirs, disk, temp, calls, created, deletes, crowded, faults>>

\* EnsureTopic returns.
Done(b, w) ==
  /\ thread[b][w].pc = "done"
  /\ Ensured(b, w)
  /\ UNCHANGED <<up, topics, open, disks, inbox, history, faults>>

(***************************************************************************)
(* ClusterMetadata::SaveTo: the table is written to a temporary file which *)
(* is then renamed.  All savers of a broker use the same temporary file.   *)
(***************************************************************************)
\* The file is rewritten in place.
Bug_SaveOpen(b, w) ==
  /\ thread[b][w].pc = "save"
  /\ disk' = [disk EXCEPT ![b] = Torn]
  /\ crowded' = (crowded \/ Saving(b))
  /\ Goto(b, w, [thread[b][w] EXCEPT !.pc = "write", !.at = "disk"])
  /\ UNCHANGED <<up, topics, open, data, dirs, temp, calls, created, deletes, doubled, faults>>

SaveOpen(b, w) ==
  /\ thread[b][w].pc = "save"
  /\ temp' = [temp EXCEPT ![b] = "empty"]
  /\ crowded' = (crowded \/ Saving(b))
  /\ Goto(b, w, [thread[b][w] EXCEPT !.pc = "write", !.at = "temp"])
  /\ UNCHANGED <<up, topics, open, data, dirs, disk, calls, created, deletes, doubled, faults>>

\* The write goes to the file that was opened, wherever it has been renamed to.
SaveWrite(b, w) ==
  /\ thread[b][w].pc = "write"
  /\ IF thread[b][w].at = "temp"
     THEN temp' = [temp EXCEPT ![b] = "full"] /\ UNCHANGED disk
     ELSE disk' = [disk EXCEPT ![b] = topics[b]] /\ UNCHANGED temp
  /\ Goto(b, w, [thread[b][w] EXCEPT !.pc = "rename"])
  /\ UNCHANGED <<up, topics, open, data, dirs, calls, history, faults>>

\* What follows a save: the controller pushes the topic to its peers, a worker
\* that reconciled looks its topic up, a deletion is answered.
AfterSave(b, w, th) ==
  IF w = Maintenance THEN IdleThread
  ELSE IF th.adopted THEN [th EXCEPT !.pc = "get"]
  ELSE IF th.job.kind = "delete" THEN [th EXCEPT !.pc = "deleted"]
  ELSE IF th.job.pushed THEN [th EXCEPT !.pc = "done"]
  ELSE [th EXCEPT !.pc = "push", !.peers = Brokers \ {b}]

\* A failure to rename is logged and otherwise ignored.
SaveRename(b, w) ==
  /\ thread[b][w].pc = "rename"
  /\ disk' = [disk EXCEPT ![b] = CASE temp[b] = "none" -> @
                                   [] temp[b] = "empty" -> Torn
                                   [] temp[b] = "full" -> topics[b]]
  /\ temp' = [temp EXCEPT ![b] = "none"]
  /\ LET me == AfterSave(b, w, [thread[b][w] EXCEPT !.at = "none"])
     IN thread' = [thread EXCEPT ![b] =
          [v \in Threads |-> IF v = w THEN me
                             ELSE IF @[v].at = "temp" THEN [@[v] EXCEPT !.at = "disk"] ELSE @[v]]]
  /\ UNCHANGED <<up, topics, open, data, dirs, calls, history, faults>>

(***************************************************************************)
(* Broker::BroadcastTopic: one peer after the other, failures are skipped. *)
(***************************************************************************)
Push(b, w) ==
  /\ thread[b][w].pc = "push"
  /\ LET th == thread[b][w]
         peer == CHOOSE c \in th.peers : \A d \in th.peers : c <= d
     IN \/ /\ th.peers # {} /\ peer \in up
           /\ Call(<<b, w>>, peer, CreateRequest(th.topic, PartitionCount(th.desc),
                                                 ReplicationFactor(th.desc), TRUE))
           /\ Goto(b, w, [th EXCEPT !.pc = "pushed", !.peers = @ \ {peer}])
        \/ /\ th.peers # {} /\ peer \notin up
           /\ Goto(b, w, [th EXCEPT !.peers = @ \ {peer}])
           /\ UNCHANGED calls
        \/ /\ th.peers = {}
           /\ Goto(b, w, [th EXCEPT !.pc = "done"])
           /\ UNCHANGED calls
  /\ UNCHANGED <<up, topics, open, disks, history, faults>>

Pushed(b, w) ==
  /\ thread[b][w].pc = "pushed" /\ reply[<<b, w>>] # "pending"
  /\ reply' = [reply EXCEPT ![<<b, w>>] = "none"]
  /\ Goto(b, w, [thread[b][w] EXCEPT !.pc = "push"])
  /\ UNCHANGED <<up, topics, open, disks, inbox, history, faults>>

(***************************************************************************)
(* Forwarding to the controller, under controller_mutex_, and              *)
(* Broker::ReconcileMetadataFromController.                                *)
(***************************************************************************)
MutexFree(b) == \A w \in Threads : thread[b][w].pc # "forwarded"

Forward(b, w) ==
  /\ thread[b][w].pc = "forward" /\ MutexFree(b)
  /\ LET req == thread[b][w].job
     IN \/ /\ ControllerId \in up
           /\ Call(<<b, w>>, ControllerId, CreateRequest(req.topic, req.count, req.rf, FALSE))
           /\ Goto(b, w, [thread[b][w] EXCEPT !.pc = "forwarded"])
        \/ /\ ControllerId \notin up
           /\ Respond(b, w, "unavailable")
           /\ UNCHANGED inbox
  /\ UNCHANGED <<up, topics, open, disks, history, faults>>

\* The error of the forwarded call becomes the error of the request: what a
\* caller can tell is whether it may try again.
PassedOn(code) ==
  CASE code = "timeout" -> "unavailable" [] code = "closed" -> "not_found" [] OTHER -> code

Forwarded(b, w) ==
  /\ thread[b][w].pc = "forwarded" /\ reply[<<b, w>>] # "pending"
  /\ LET code == reply[<<b, w>>]
         from == thread[b][w].job.from
         done == code \in {"ok", "created"}
     IN /\ Goto(b, w, IF done THEN [thread[b][w] EXCEPT !.pc = "reconcile"] ELSE IdleThread)
        /\ reply' = [c \in Callers |-> IF c = <<b, w>> THEN "none"
                                       ELSE IF c = from /\ ~done THEN PassedOn(code) ELSE reply[c]]
  /\ UNCHANGED <<up, topics, open, disks, inbox, history, faults>>

\* The controller's io loop answers with its whole table.  The maintenance
\* thread of a broker asks again and again; an answer with nothing new changes
\* nothing unless a topic is deleted meanwhile, and is left out.
Reconcile(b, w) ==
  /\ MutexFree(b)
  /\ \/ thread[b][w].pc = "reconcile"
     \/ w = Maintenance /\ thread[b][w].pc = "idle" /\ b \in up /\ b # ControllerId
        /\ ControllerId \in up /\ topics[ControllerId] # <<>>
        /\ (DOMAIN topics[ControllerId] \subseteq DOMAIN topics[b] => deletes # {})
  /\ IF ControllerId \in up
     THEN /\ Goto(b, w, [thread[b][w] EXCEPT
                            !.pc = "adopt",
                            !.list = BuildMetadataResponse(topics[ControllerId], Topics)])
          /\ UNCHANGED reply
     ELSE Respond(b, w, "unavailable")
  /\ UNCHANGED <<up, topics, open, disks, inbox, history, faults>>

\* A topic of the answer that the broker does not have is adopted; when there
\* is none left, the table is persisted if any was.
Adopt(b, w) ==
  /\ thread[b][w].pc = "adopt"
  /\ LET th == thread[b][w]
         new == DOMAIN th.list \ DOMAIN topics[b]
     IN \/ \E t \in new : Goto(b, w, [th EXCEPT !.pc = "upsert", !.topic = t, !.desc = th.list[t]])
        \/ /\ new = {}
           /\ Goto(b, w, IF th.adopted THEN [th EXCEPT !.pc = "save", !.list = <<>>]
                         ELSE IF w = Maintenance THEN IdleThread
                         ELSE [th EXCEPT !.pc = "get", !.list = <<>>])
  /\ UNCHANGED <<up, topics, open, disks, calls, history, faults>>

\* An adopted topic is entered in the table and its partitions are left closed.
Bug_Upsert(b, w) ==
  /\ thread[b][w].pc = "upsert" /\ ~Saving(b)
  /\ LET th == thread[b][w]
     IN /\ topics' = [topics EXCEPT ![b] = UpsertTopic(@, th.topic, th.desc)]
        /\ Goto(b, w, [th EXCEPT !.pc = "adopt", !.adopted = TRUE, !.topic = "", !.desc = <<>>])
  /\ UNCHANGED <<up, open, disks, calls, history, faults>>

Upsert(b, w) ==
  /\ thread[b][w].pc = "upsert" /\ ~Saving(b)
  /\ LET th == thread[b][w]
     IN /\ topics' = [topics EXCEPT ![b] = UpsertTopic(@, th.topic, th.desc)]
        /\ Goto(b, w, Opening(b, [th EXCEPT !.adopted = TRUE, !.list = DeleteTopic(@, th.topic)],
                              open[b]))
  /\ UNCHANGED <<up, open, disks, calls, history, faults>>

\* EnsureTopic ends with a lookup of the topic it forwarded.
GetTopic(b, w) ==
  /\ thread[b][w].pc = "get"
  /\ IF thread[b][w].job.topic \in DOMAIN topics[b] THEN Ensured(b, w)
     ELSE Respond(b, w, "not_found")
  /\ UNCHANGED <<up, topics, open, disks, inbox, history, faults>>

(***************************************************************************)
(* The worker: Broker::Execute.                                            *)
(***************************************************************************)
\* A worker takes the next request of its queue.  EnsureTopic answers a create
\* request for a known topic without comparing it; DeleteTopic refuses an
\* unknown topic and otherwise takes its replicas out of partitions_.
Take(b, w) ==
  /\ w \in Workers /\ thread[b][w].pc = "idle" /\ inbox[b][w] # <<>>
  /\ LET req == Head(inbox[b][w])
         known == req.topic \in DOMAIN topics[b]
     IN /\ \/ /\ req.kind = "create" /\ known
              /\ Answer(req, "ok")
              /\ UNCHANGED <<open, thread>>
           \/ /\ req.kind = "create" /\ ~known
              /\ Goto(b, w, EnsureFrom(b, req))
              /\ UNCHANGED <<reply, open>>
           \/ /\ req.kind = "delete" /\ ~known
              /\ Answer(req, "not_found")
              /\ UNCHANGED <<open, thread>>
           \/ /\ req.kind = "delete" /\ known
              /\ open' = [open EXCEPT ![b] =
                            @ \ ({req.topic} \X (0..(PartitionCount(topics[b][req.topic]) - 1)))]
              /\ Goto(b, w, [IdleThread EXCEPT !.pc = "remove", !.job = req,
                                               !.desc = topics[b][req.topic]])
              /\ UNCHANGED reply
           \/ /\ req.kind = "produce"
              /\ Goto(b, w, [IdleThread EXCEPT !.pc = "resolve", !.job = req])
              /\ UNCHANGED <<reply, open>>
  /\ inbox' = [inbox EXCEPT ![b][w] = Tail(@)]
  /\ UNCHANGED <<up, topics, disks, history, faults>>

\* Broker::ResolvePartition, and the append of a produce request.  A partition
\* leader is the same broker whatever the number of partitions.
Resolve(b, w) ==
  /\ thread[b][w].pc \in {"resolve", "again"}
  /\ LET req == thread[b][w].job
         tp == <<req.topic, req.part>>
         leader == LeaderOf(ComputeAssignments(req.topic, req.part + 1, 1), req.part)
         known == req.topic \in DOMAIN topics[b]
     IN \/ /\ tp \in open[b] /\ leader = b
           /\ data' = [data EXCEPT ![b][tp] = @ \o req.records]
           /\ Respond(b, w, "ok")
        \/ /\ tp \in open[b] /\ leader # b
           /\ Respond(b, w, "not_leader")
           /\ UNCHANGED data
        \/ /\ tp \notin open[b] /\ ~known /\ thread[b][w].pc = "resolve"
           /\ Goto(b, w, EnsureFrom(b, [req EXCEPT
                !.count = IF DefaultCount > req.part THEN DefaultCount ELSE req.part + 1,
                !.rf = DefaultFactor]))
           /\ UNCHANGED <<data, reply>>
        \/ /\ tp \notin open[b] /\ (known \/ thread[b][w].pc = "again")
           /\ Respond(b, w, IF known /\ req.part < PartitionCount(topics[b][req.topic])
                            THEN "not_leader" ELSE "not_found")
           /\ UNCHANGED data
  /\ UNCHANGED <<up, topics, open, dirs, disk, temp, inbox, history, faults>>

\* The rest of PartitionManager::DeleteTopic: the directories are removed,
RemoveData(b, w) ==
  /\ thread[b][w].pc = "remove"
  /\ LET gone == {thread[b][w].job.topic} \X (0..(Len(thread[b][w].desc) - 1))
     IN /\ data' = [data EXCEPT ![b] = [tp \in Partitions |-> IF tp \in gone THEN <<>> ELSE @[tp]]]
        /\ dirs' = [dirs EXCEPT ![b] = @ \ gone]
  /\ Goto(b, w, [thread[b][w] EXCEPT !.pc = "forget", !.desc = <<>>])
  /\ UNCHANGED <<up, topics, open, disk, temp, calls, history, faults>>

\* then the topic, which is still there since only worker 0 deletes, and
\* ExecuteDeleteTopic persists the table
Forget(b, w) ==
  /\ thread[b][w].pc = "forget" /\ ~Saving(b)
  /\ topics' = [topics EXCEPT ![b] = DeleteTopic(@, thread[b][w].job.topic)]
  /\ Goto(b, w, [thread[b][w] EXCEPT !.pc = "save"])
  /\ UNCHANGED <<up, open, disks, calls, history, faults>>

\* and answers.
Deleted(b, w) ==
  /\ thread[b][w].pc = "deleted"
  /\ Respond(b, w, "ok")
  /\ UNCHANGED <<up, topics, open, disks, inbox, history, faults>>

(***************************************************************************)
(* Kills and restarts.                                                     *)
(***************************************************************************)
\* The process is killed: callers see their connection close, and the calls
\* of its own threads are executed for nobody.
Kill(b) ==
  /\ b \in MayKill \cap up /\ faults > 0
  /\ LET own == {b} \X Threads
         Asked(c) == reply[c] = "pending" /\ \E w \in Workers : Holds(b, w, c)
     IN /\ reply' = [c \in Callers |-> IF c \in own THEN "none"
                                       ELSE IF Asked(c) THEN "closed" ELSE reply[c]]
        /\ inbox' = [d \in Brokers |-> [w \in Workers |->
                       IF d = b THEN <<>>
                       ELSE [i \in DOMAIN inbox[d][w] |-> Disowned(inbox[d][w][i], own)]]]
        /\ thread' = [d \in Brokers |-> [w \in Threads |->
                        IF d = b THEN IdleThread
                        ELSE [thread[d][w] EXCEPT !.job = Disowned(@, own)]]]
  /\ up' = up \ {b}
  /\ topics' = [topics EXCEPT ![b] = <<>>] /\ open' = [open EXCEPT ![b] = {}]
  /\ faults' = faults - 1
  /\ UNCHANGED <<disks, history>>

\* LoadFrom takes a whole file, or none at all; anything else is fatal.
Loads(table) == table # Torn

\* Broker::Start: the table is loaded and the hosted partitions are opened.
Restart(b) ==
  /\ b \in Brokers \ up /\ Loads(disk[b])
  /\ up' = up \cup {b}
  /\ topics' = [topics EXCEPT ![b] = disk[b]]
  /\ open' = [open EXCEPT ![b] = PartitionsHostedBy(disk[b], b)]
  /\ dirs' = [dirs EXCEPT ![b] = @ \cup PartitionsHostedBy(disk[b], b)]
  /\ UNCHANGED <<data, disk, temp, calls, thread, history, faults>>

ThreadStep(b, w) ==
  \/ Create(b, w) \/ OpenLog(b, w) \/ Emplace(b, w) \/ Done(b, w)
  \/ SaveOpen(b, w) \/ SaveWrite(b, w) \/ SaveRename(b, w)
  \/ Push(b, w) \/ Pushed(b, w) \/ Forward(b, w) \/ Forwarded(b, w)
  \/ Reconcile(b, w) \/ Adopt(b, w) \/ Upsert(b, w) \/ GetTopic(b, w)
  \/ Take(b, w) \/ Resolve(b, w) \/ RemoveData(b, w) \/ Forget(b, w)
  \/ Deleted(b, w)

BrokerStep ==
  \/ \E b \in Brokers, w \in Threads : ThreadStep(b, w)
  \/ \E c \in Callers : Timeout(c)
  \/ \E b \in Brokers : Kill(b) \/ Restart(b)
=============================================================================
