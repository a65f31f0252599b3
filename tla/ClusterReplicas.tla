-------------------------- MODULE ClusterReplicas --------------------------
(***************************************************************************)
(* Proofs about the replicas a broker has open, for any number of brokers, *)
(* workers, topics, partitions, kills and timeouts.                        *)
(***************************************************************************)
EXTENDS ClusterProofs

(***************************************************************************)
(* What the requests and the threads of the brokers have in hand: topics   *)
(* by their names, deletions that were asked for, and how far a thread is  *)
(* with the partitions of its topic.                                       *)
(***************************************************************************)
\* Where a thread has not begun to open partitions.
Early == {"idle", "create", "forward", "forwarded", "reconcile", "adopt", "upsert"}

\* Where it has nothing to do but to answer.
Late == {"done", "get", "deleted"}

TidyRequest(req, gone) ==
  /\ req.kind # "none" => req.topic \in Topics
  /\ req.kind = "delete" => req.topic \in gone

TidyThread(th, gone) ==
  /\ TidyRequest(th.job, gone) /\ DOMAIN th.list \subseteq Topics
  /\ th.pc \in {"create", "forward"} => th.job.kind # "none"
  /\ th.pc \in {"upsert", "open", "emplace"} => th.topic \in Topics
  /\ th.pc \in Early => th.part = -1
  /\ th.pc \in {"open", "emplace"} => th.part \in Int
  /\ th.pc \in {"save", "write", "rename"} =>
       th.adopted \/ th.job.kind = "delete" \/ th.topic \in Topics
  /\ th.pc \in {"push", "pushed"} => th.topic \in Topics
  /\ th.pc \in {"remove", "forget"} => th.job.kind = "delete"

TidyTables(tables) == \A b \in Brokers : DOMAIN tables[b] \subseteq Topics
TidyThreads(threads, gone) == \A b \in Brokers, w \in Threads : TidyThread(threads[b][w], gone)
TidyQueue(queue, gone) == \A i \in DOMAIN queue : TidyRequest(queue[i], gone)
TidyQueues(queues, gone) == \A b \in Brokers, w \in Workers : TidyQueue(queues[b][w], gone)

Tidy ==
  /\ DOMAIN open = Brokers /\ TidyTables(topics) /\ TidyTables(disk)
  /\ TidyThreads(thread, deletes) /\ TidyQueues(inbox, deletes)

\* The empty table has no topic.
LEMMA EmptyTable == DOMAIN <<>> = {}
<1>1. DOMAIN <<>> = 1..0 /\ 1..0 = {}
  OBVIOUS
<1> QED
  BY Zenon, <1>1

\* An idle thread has nothing in hand.
LEMMA IdleTidy ==
  ASSUME NEW gone
  PROVE  TidyThread(IdleThread, gone)
<1>1. /\ IdleThread.pc = "idle" /\ IdleThread.list = <<>> /\ IdleThread.job = NoRequest
      /\ IdleThread.part = -1
  BY Zenon DEF IdleThread
<1>2. NoRequest.kind = "none"
  BY Zenon DEF NoRequest
<1>3. TidyRequest(NoRequest, gone)
  BY Zenon, <1>2 DEF TidyRequest
<1> QED
  BY Zenon, <1>1, <1>3, EmptyTable DEF TidyThread

\* A thread begins with a request,
LEMMA BeginsTidy ==
  ASSUME NEW gone, NEW req, TidyRequest(req, gone), req.kind # "none", NEW pc, NEW desc, NEW next,
         \/ next = [IdleThread EXCEPT !.job = req, !.pc = pc]
         \/ next = [IdleThread EXCEPT !.pc = pc, !.job = req]
         \/ next = [IdleThread EXCEPT !.pc = pc, !.job = req, !.desc = desc],
         pc \in {"create", "forward", "again", "resolve"} \/ (pc = "remove" /\ req.kind = "delete")
  PROVE  TidyThread(next, gone)
<1>1. next.pc = pc /\ next.job = req /\ next.list = <<>> /\ next.part = -1
  BY Zenon DEF IdleThread
<1> QED
  BY Zenon, <1>1, EmptyTable DEF TidyThread

\* goes on with it before it opens a partition
LEMMA EarlyTidy ==
  ASSUME NEW gone, NEW th, TidyThread(th, gone), th.pc \in Early, NEW next,
         next.pc \in Early, next.pc \notin {"create", "forward"},
         next.pc = "upsert" => next.topic \in Topics, next.part = th.part,
         next.job = th.job, DOMAIN next.list \subseteq Topics
  PROVE  TidyThread(next, gone)
<1>1. next.pc \notin {"open", "emplace", "save", "write", "rename", "push", "pushed", "remove", "forget"}
  BY Zenon DEF Early
<1> QED
  BY Zenon, <1>1 DEF TidyThread

\* and after it has opened them,
LEMMA LaterTidy ==
  ASSUME NEW gone, NEW th, TidyThread(th, gone), NEW next,
         next.pc \in Late, next.job = th.job, DOMAIN next.list \subseteq Topics
  PROVE  TidyThread(next, gone)
<1>1. next.pc \notin Early
  BY Zenon DEF Early, Late
<1>2. TidyRequest(next.job, gone)
  BY Zenon DEF TidyThread
<1> QED
  BY Zenon, <1>1, <1>2 DEF TidyThread, Late

\* and when it saves and pushes the topic.
LEMMA SaverTidy ==
  ASSUME NEW gone, NEW th, TidyThread(th, gone), NEW next,
         \/ /\ next.pc \in {"save", "write", "rename"}
            /\ next.adopted \/ next.job.kind = "delete" \/ next.topic \in Topics
         \/ next.pc \in {"push", "pushed"} /\ next.topic \in Topics,
         next.job = th.job, next.list = th.list \/ next.list = <<>>
  PROVE  TidyThread(next, gone)
<1>1. next.pc \notin Early
  BY Zenon DEF Early
<1> QED
  BY Zenon, <1>1, EmptyTable DEF TidyThread

\* OpenPartitionsForTopic begins, or goes on.
LEMMA OpeningTidy ==
  ASSUME NEW gone, NEW b, NEW th, DOMAIN th = ThreadFields, TidyRequest(th.job, gone),
         DOMAIN th.list \subseteq Topics, th.topic \in Topics, th.part \in Int, NEW opened,
         NEW next, next = Opening(b, th, opened)
  PROVE  TidyThread(next, gone)
<1>1. ASSUME next = [th EXCEPT !.pc = "open"] PROVE TidyThread(next, gone)
  <2>1. /\ next.pc = "open" /\ next.job = th.job /\ next.list = th.list /\ next.topic = th.topic
        /\ next.part = th.part
    BY Zenon, <1>1 DEF ThreadFields
  <2> QED
    BY Zenon, <2>1 DEF TidyThread, Early
<1>2. ASSUME next = [th EXCEPT !.pc = "adopt", !.topic = "", !.desc = <<>>, !.part = -1]
      PROVE  TidyThread(next, gone)
  <2>1. next.pc = "adopt" /\ next.job = th.job /\ next.list = th.list /\ next.part = -1
    BY Zenon, <1>2 DEF ThreadFields
  <2> QED
    BY Zenon, <2>1 DEF TidyThread
<1>3. ASSUME next = [th EXCEPT !.pc = "save", !.part = -1] \/ next = [th EXCEPT !.pc = "done"]
      PROVE  TidyThread(next, gone)
  <2>1. /\ next.pc \in {"save", "done"} /\ next.job = th.job /\ next.list = th.list
        /\ next.topic = th.topic
    BY Zenon, <1>3 DEF ThreadFields
  <2> QED
    BY Zenon, <2>1 DEF TidyThread, Early
<1> QED
  BY Zenon, <1>1, <1>2, <1>3 DEF Opening

\* One thread moves on.
LEMMA TidyMoves ==
  ASSUME Shaped, Tidy, NEW b \in Brokers, NEW w \in Threads, NEW next, TidyThread(next, deletes),
         thread' = [thread EXCEPT ![b][w] = next]
  PROVE  TidyThreads(thread', deletes)
<1>1. \A c \in Brokers, v \in Threads : thread'[c][v] = next \/ thread'[c][v] = thread[c][v]
  BY Zenon DEF Shaped
<1>2. \A c \in Brokers, v \in Threads : TidyThread(thread[c][v], deletes)
  BY Zenon DEF Tidy, TidyThreads
<1>3. \A c \in Brokers, v \in Threads : TidyThread(thread'[c][v], deletes)
  BY Zenon, <1>1, <1>2
<1> QED
  BY Zenon, <1>3 DEF TidyThreads

\* What is not moved stays tidy, whatever else has been asked to be deleted.
LEMMA TidyFrame ==
  ASSUME Tidy, UNCHANGED deletes, DOMAIN open' = Brokers, TidyTables(topics'), TidyTables(disk'),
         TidyThreads(thread', deletes), TidyQueues(inbox', deletes)
  PROVE  Tidy'
BY Zenon DEF Tidy

\* A step that moves one thread and leaves the tables, the files and the queues alone.
LEMMA TidyStep ==
  ASSUME Shaped, Tidy, NEW b \in Brokers, NEW w \in Threads, NEW next, TidyThread(next, deletes),
         thread' = [thread EXCEPT ![b][w] = next],
         UNCHANGED <<topics, disk, inbox, deletes>>, DOMAIN open' = Brokers
  PROVE  Tidy'
<1>1. TidyThreads(thread', deletes)
  BY Zenon, TidyMoves
<1>2. TidyTables(topics') /\ TidyTables(disk') /\ TidyQueues(inbox', deletes)
  BY Zenon DEF Tidy
<1> QED
  BY Zenon, <1>1, <1>2, TidyFrame

\* What a thread has in hand now.
LEMMA TidyNow ==
  ASSUME Shaped, Tidy, NEW b \in Brokers, NEW w \in Threads
  PROVE  /\ TidyThread(thread[b][w], deletes) /\ TidyRequest(thread[b][w].job, deletes)
         /\ DOMAIN thread[b][w].list \subseteq Topics /\ DOMAIN thread[b][w] = ThreadFields
<1>1. TidyThread(thread[b][w], deletes)
  BY Zenon DEF Tidy, TidyThreads
<1> QED
  BY Zenon, <1>1, ThreadRecord DEF TidyThread

\* The end of a request.
LEMMA EndsTidy ==
  ASSUME Shaped, Tidy, NEW b \in Brokers, NEW w \in Threads,
         UNCHANGED <<topics, disk, inbox, deletes, open>>,
         NEW code, Respond(b, w, code) \/ Ensured(b, w)
  PROVE  Tidy'
<1>1. DOMAIN open' = Brokers
  BY Zenon DEF Tidy
<1>2. CASE thread' = [thread EXCEPT ![b][w] = IdleThread]
  <2>1. TidyThread(IdleThread, deletes)
    BY Zenon, IdleTidy
  <2> QED
    BY Zenon, <1>1, <1>2, <2>1, TidyStep
<1>3. CASE /\ thread' = [thread EXCEPT ![b][w] = [IdleThread EXCEPT !.pc = "again", !.job = thread[b][w].job]]
           /\ thread[b][w].job.kind = "produce"
  <2>1. PICK req : req = thread[b][w].job
    BY Zenon
  <2>2. PICK next : next = [IdleThread EXCEPT !.pc = "again", !.job = req]
    BY Zenon
  <2>3. TidyRequest(req, deletes) /\ req.kind # "none"
    BY Zenon, <1>3, <2>1, TidyNow
  <2>4. PICK pc : pc = "again"
    BY Zenon
  <2>5. next = [IdleThread EXCEPT !.pc = pc, !.job = req] 
    BY Zenon, <2>2, <2>4
  <2>6. TidyThread(next, deletes)
    BY Zenon, <2>3, <2>4, <2>5, BeginsTidy
  <2>7. thread' = [thread EXCEPT ![b][w] = next]
    BY Zenon, <1>3, <2>1, <2>2
  <2> QED
    BY Zenon, <1>1, <2>6, <2>7, TidyStep
<1> QED
  BY <1>2, <1>3, Zenon DEF Respond, Ensured, Goto

\* A descriptor that a thread has of a topic can be counted.
LEMMA DescCounts ==
  ASSUME Shaped, Agreed, NEW b \in Brokers, NEW w \in Threads, thread[b][w].topic \in Topics
  PROVE  Len(thread[b][w].desc) \in Nat
<1>1. PICK topic : topic = thread[b][w].topic
  BY Zenon
<1>2. PICK desc : desc = thread[b][w].desc
  BY Zenon
<1>3. Says(topic, desc) /\ topic \in Topics
  BY Zenon, <1>1, <1>2, ThreadKnown
<1>4. Placed(topic, desc)
  BY Zenon, <1>3 DEF Agreed
<1>5. Len(desc) \in Nat
  BY Zenon, <1>4, PlacedTells
<1> QED
  BY Zenon, <1>2, <1>5

\* OpenLog's thread goes to the lowest partition that is to be opened.
OpenLogMove(b, w, due, low, next, fresh) ==
  /\ thread' = [thread EXCEPT ![b][w] = next]
  /\ due = {} => next = Opening(b, thread[b][w], open[b])
  /\ due # {} => /\ low \in due /\ \A r \in due : low <= r
                 /\ next = [thread[b][w] EXCEPT !.pc = "emplace", !.part = low, !.fresh = fresh]

LEMMA OpenLogMoves ==
  ASSUME NEW b, NEW w, OpenLog(b, w), NEW due, due = ToOpen(b, thread[b][w], open[b])
  PROVE  \E low, next, fresh : OpenLogMove(b, w, due, low, next, fresh)
<1>1. CASE due = {}
  <2>1. PICK next : next = Opening(b, thread[b][w], open[b])
    BY Zenon
  <2>2. Goto(b, w, next)
    BY <1>1, <2>1, Zenon DEF OpenLog
  <2>3. OpenLogMove(b, w, due, 0, next, FALSE)
    BY Zenon, <1>1, <2>1, <2>2 DEF Goto, OpenLogMove
  <2> QED
    BY Zenon, <2>3
<1>2. CASE due # {}
  <2>1. PICK low \in due :
          /\ \A r \in due : low <= r
          /\ Goto(b, w, [thread[b][w] EXCEPT !.pc = "emplace", !.part = low,
                           !.fresh = <<thread[b][w].topic, low>> \notin dirs[b]])
    BY <1>2, Zenon DEF OpenLog
  <2>2. PICK fresh : fresh = (<<thread[b][w].topic, low>> \notin dirs[b])
    BY Zenon
  <2>3. PICK next : next = [thread[b][w] EXCEPT !.pc = "emplace", !.part = low, !.fresh = fresh]
    BY Zenon
  <2>4. OpenLogMove(b, w, due, low, next, fresh)
    BY Zenon, <1>2, <2>1, <2>2, <2>3 DEF Goto, OpenLogMove
  <2> QED
    BY Zenon, <2>4
<1> QED
  BY Zenon, <1>1, <1>2

\* Create's thread begins to open the topic, or answers.
CreateMove(b, w, topic, desc, made, th, next, code) ==
  /\ th = [thread[b][w] EXCEPT !.topic = topic, !.desc = desc, !.made = made]
  /\ next = Opening(b, th, open[b])
  /\ \/ /\ thread' = [thread EXCEPT ![b][w] = next]
        /\ topics' = topics \/ topics' = [topics EXCEPT ![b] = UpsertTopic(topics[b], topic, desc)]
     \/ Respond(b, w, code) /\ UNCHANGED topics

LEMMA CreateMoves ==
  ASSUME NEW b, NEW w, Create(b, w), NEW topic, topic = thread[b][w].job.topic
  PROVE  \E desc, made, th, next, code : CreateMove(b, w, topic, desc, made, th, next, code)
<1>1. PICK req : req = thread[b][w].job
  BY Zenon
<1>2. PICK status : status = CreateStatus(topics[b], topic, req.count, req.rf)
  BY Zenon
<1>3. PICK desc : desc = IF status = "existing" THEN topics[b][topic]
                         ELSE ComputeAssignments(topic, req.count, req.rf)
  BY Zenon
<1>4. PICK made : made = (status = "created")
  BY Zenon
<1>5. PICK th : th = [thread[b][w] EXCEPT !.topic = topic, !.desc = desc, !.made = made]
  BY Zenon
<1>6. PICK next : next = Opening(b, th, open[b])
  BY Zenon
<1>7. \/ /\ thread' = [thread EXCEPT ![b][w] = next]
         /\ topics' = topics \/ topics' = [topics EXCEPT ![b] = UpsertTopic(topics[b], topic, desc)]
      \/ Respond(b, w, status) /\ UNCHANGED topics
  BY <1>1, <1>2, <1>3, <1>4, <1>5, <1>6, Zenon DEF Create, Goto
<1>8. CreateMove(b, w, topic, desc, made, th, next, status)
  BY Zenon, <1>5, <1>6, <1>7 DEF CreateMove
<1> QED
  BY Zenon, <1>8

\* OpenLog and Emplace.
LEMMA OpeningKeepsTidy ==
  ASSUME Shaped, Agreed, Tidy, NEW b \in Brokers, NEW w \in Threads, OpenLog(b, w) \/ Emplace(b, w)
  PROVE  Tidy'
<1> DEFINE th == thread[b][w]
<1>0. th.pc \in {"open", "emplace"} /\ UNCHANGED <<topics, disk, inbox, deletes>>
  BY Zenon DEF OpenLog, Emplace, calls, history
<1>1. /\ DOMAIN th = ThreadFields /\ TidyRequest(th.job, deletes)
      /\ DOMAIN th.list \subseteq Topics /\ th.topic \in Topics /\ th.part \in Int
  BY Zenon, <1>0, TidyNow DEF TidyThread
<1>2. DOMAIN open' = Brokers
  BY Zenon DEF OpenLog, Emplace, Tidy
<1>3. ASSUME NEW next, NEW opened, next = Opening(b, th, opened) PROVE TidyThread(next, deletes)
  <2>1. PICK t : t = th
    BY Zenon
  <2>2. /\ DOMAIN t = ThreadFields /\ TidyRequest(t.job, deletes)
        /\ DOMAIN t.list \subseteq Topics /\ t.topic \in Topics /\ t.part \in Int
        /\ next = Opening(b, t, opened)
    BY Zenon, <1>1, <1>3, <2>1
  <2> QED
    BY Zenon, <2>2, OpeningTidy
<1>4. ASSUME NEW next, NEW opened, next = Opening(b, [th EXCEPT !.fresh = FALSE], opened)
      PROVE  TidyThread(next, deletes)
  <2>1. PICK t : t = [th EXCEPT !.fresh = FALSE]
    BY Zenon
  <2>2. /\ DOMAIN t = ThreadFields /\ t.job = th.job /\ t.list = th.list /\ t.topic = th.topic
        /\ t.part = th.part
    BY Zenon, <1>1, <2>1 DEF ThreadFields
  <2>3. /\ TidyRequest(t.job, deletes) /\ DOMAIN t.list \subseteq Topics /\ t.topic \in Topics
        /\ t.part \in Int /\ next = Opening(b, t, opened)
    BY Zenon, <1>1, <1>4, <2>1, <2>2
  <2> QED
    BY Zenon, <2>2, <2>3, OpeningTidy
<1>5. ASSUME NEW p \in ToOpen(b, th, open[b]), NEW fresh, NEW next,
             next = [th EXCEPT !.pc = "emplace", !.part = p, !.fresh = fresh]
      PROVE  TidyThread(next, deletes)
  <2>1. p \in Int
    <3>1. Len(th.desc) \in Nat
      BY Zenon, <1>1, DescCounts
    <3>2. p \in 0..(Len(th.desc) - 1)
      BY Zenon DEF ToOpen
    <3> QED
      BY <3>1, <3>2
  <2>2. /\ next.pc = "emplace" /\ next.job = th.job /\ next.list = th.list
        /\ next.topic = th.topic /\ next.part = p
    BY Zenon, <1>1, <1>5 DEF ThreadFields
  <2> QED
    BY Zenon, <1>1, <2>1, <2>2 DEF TidyThread, Early
<1>6. CASE Emplace(b, w)
  <2>1. PICK next : /\ thread' = [thread EXCEPT ![b][w] = next]
                    /\ next = Opening(b, [th EXCEPT !.fresh = FALSE], open'[b])
    BY <1>6, Zenon DEF Emplace, Goto
  <2>2. TidyThread(next, deletes)
    BY Zenon, <1>4, <2>1
  <2> QED
    BY Zenon, <1>0, <1>2, <2>1, <2>2, TidyStep
<1>7. CASE OpenLog(b, w)
  <2>1. PICK due : due = ToOpen(b, th, open[b])
    BY Zenon
  <2>2. PICK low, next, fresh : OpenLogMove(b, w, due, low, next, fresh)
    BY Zenon, <1>7, <2>1, OpenLogMoves
  <2>3. TidyThread(next, deletes)
    BY Zenon, <1>3, <1>5, <2>1, <2>2 DEF OpenLogMove
  <2> QED
    BY Zenon, <1>0, <1>2, <2>2, <2>3, TidyStep DEF OpenLogMove
<1> QED
  BY Zenon, <1>6, <1>7

\* A table with a topic more or less.
LEMMA TablesTidy ==
  ASSUME Shaped, Tidy, NEW b \in Brokers, NEW table, DOMAIN table \subseteq Topics, NEW tables,
         \/ tables = topics \/ tables = disk
         \/ tables = [topics EXCEPT ![b] = table] \/ tables = [disk EXCEPT ![b] = table]
  PROVE  TidyTables(tables)
<1>1. CASE tables = topics \/ tables = disk
  BY Zenon, <1>1 DEF Tidy
<1>2. CASE tables = [topics EXCEPT ![b] = table] \/ tables = [disk EXCEPT ![b] = table]
  <2>1. \A c \in Brokers : tables[c] = table \/ tables[c] = topics[c] \/ tables[c] = disk[c]
    BY Zenon, <1>2 DEF Shaped
  <2> QED
    BY Zenon, <2>1 DEF Tidy, TidyTables
<1> QED
  BY Zenon, <1>1, <1>2

\* SaveTo.
LEMMA SavingTidy ==
  ASSUME Shaped, Tidy, NEW b \in Brokers, NEW w \in Threads, SaveOpen(b, w) \/ SaveWrite(b, w)
  PROVE  Tidy'
<1> DEFINE th == thread[b][w]
<1>0. UNCHANGED <<topics, open, inbox, deletes>>
  BY Zenon DEF SaveOpen, SaveWrite, calls, history
<1>1. PICK next : /\ thread' = [thread EXCEPT ![b][w] = next]
                  /\ \/ next = [th EXCEPT !.pc = "write", !.at = "temp"]
                     \/ next = [th EXCEPT !.pc = "rename"]
  BY Zenon DEF SaveOpen, SaveWrite, Goto
<1>2. DOMAIN th = ThreadFields /\ TidyThread(th, deletes)
  BY Zenon, TidyNow
<1>3. /\ next.pc \in {"write", "rename"} /\ next.job = th.job /\ next.list = th.list
      /\ next.topic = th.topic /\ next.adopted = th.adopted
  BY Zenon, <1>1, <1>2 DEF ThreadFields
<1>4. TidyThread(next, deletes)
  <2>1. th.pc \in {"save", "write"}
    BY Zenon DEF SaveOpen, SaveWrite
  <2>2. next.adopted \/ next.job.kind = "delete" \/ next.topic \in Topics
    BY Zenon, <1>2, <1>3, <2>1 DEF TidyThread
  <2> QED
    BY ZenonT(30), <1>2, <1>3, <2>2, SaverTidy
<1>5. TidyThreads(thread', deletes)
  BY Zenon, <1>1, <1>4, TidyMoves
<1>6. disk' = disk \/ disk' = [disk EXCEPT ![b] = topics[b]]
  BY Zenon DEF SaveOpen, SaveWrite
<1>7. DOMAIN topics[b] \subseteq Topics
  BY Zenon DEF Tidy, TidyTables
<1>8. TidyTables(disk')
  BY Zenon, <1>6, <1>7, TablesTidy
<1>9. DOMAIN open' = Brokers /\ TidyTables(topics') /\ TidyQueues(inbox', deletes)
  BY Zenon, <1>0 DEF Tidy
<1> QED
  BY Zenon, <1>0, <1>5, <1>8, <1>9, TidyFrame

\* The file that a save leaves is the old one, a torn one or the table.
LEMMA RenamedFile ==
  ASSUME TempShaped, NEW b \in Brokers, NEW w, SaveRename(b, w)
  PROVE  \E file \in {disk[b], Torn, topics[b]} : disk' = [disk EXCEPT ![b] = file]
<1>1. temp[b] = "none" \/ temp[b] = "empty" \/ temp[b] = "full"
  BY Zenon DEF TempShaped
<1>2. disk' = [disk EXCEPT ![b] = CASE temp[b] = "none" -> disk[b]
                                    [] temp[b] = "empty" -> Torn
                                    [] temp[b] = "full" -> topics[b]]
  BY Zenon DEF SaveRename
<1>3. CASE temp[b] = "none"
  BY Zenon, <1>2, <1>3
<1>4. CASE temp[b] = "empty"
  BY Zenon, <1>2, <1>4
<1>5. CASE temp[b] = "full"
  BY Zenon, <1>2, <1>5
<1> QED
  BY Zenon, <1>1, <1>3, <1>4, <1>5

\* What a save leaves.
LEMMA RenameTidy ==
  ASSUME Shaped, Tidy, TempShaped, NEW b \in Brokers, NEW w \in Threads, SaveRename(b, w)
  PROVE  Tidy'
<1>0. UNCHANGED <<topics, open, inbox, deletes>>
  BY Zenon DEF SaveRename, calls, history
<1>1. PICK th : th = [thread[b][w] EXCEPT !.at = "none"]
  BY Zenon
<1>2. PICK me : me = AfterSave(b, w, th)
  BY Zenon
<1>3. thread' = [thread EXCEPT ![b] =
        [v \in Threads |-> IF v = w THEN me
                           ELSE IF @[v].at = "temp" THEN [@[v] EXCEPT !.at = "disk"] ELSE @[v]]]
  BY <1>1, <1>2, Zenon DEF SaveRename
<1>4. /\ DOMAIN th = ThreadFields /\ th.job = thread[b][w].job /\ th.list = thread[b][w].list
      /\ th.topic = thread[b][w].topic /\ th.adopted = thread[b][w].adopted
  BY Zenon, <1>1, TidyNow DEF ThreadFields
<1>5. TidyThread(me, deletes)
  <2>1. CASE me = IdleThread
    BY Zenon, <2>1, IdleTidy
  <2>2. TidyThread(thread[b][w], deletes)
    BY Zenon, TidyNow
  <2>3. ASSUME \/ me = [th EXCEPT !.pc = "get"] \/ me = [th EXCEPT !.pc = "deleted"]
               \/ me = [th EXCEPT !.pc = "done"]
        PROVE  TidyThread(me, deletes)
    <3>1. /\ me.pc \in Late /\ me.job = thread[b][w].job
          /\ me.list = thread[b][w].list
      BY Zenon, <1>4, <2>3 DEF ThreadFields, Late
    <3>2. DOMAIN me.list \subseteq Topics
      BY Zenon, <3>1, TidyNow
    <3> QED
      BY Zenon, <2>2, <3>1, <3>2, LaterTidy
  <2>4. ASSUME me = [th EXCEPT !.pc = "push", !.peers = Brokers \ {b}],
               ~th.adopted, th.job.kind # "delete"
        PROVE  TidyThread(me, deletes)
    <3>1. /\ me.pc = "push" /\ me.job = thread[b][w].job /\ me.list = thread[b][w].list
          /\ me.topic = thread[b][w].topic
      BY Zenon, <1>4, <2>4 DEF ThreadFields
    <3>2. thread[b][w].pc = "rename"
      BY Zenon DEF SaveRename
    <3>3. me.topic \in Topics
      BY Zenon, <1>4, <2>2, <2>4, <3>1, <3>2 DEF TidyThread
    <3> QED
      BY Zenon, <2>2, <3>1, <3>3, SaverTidy
  <2> QED
    BY <1>2, <2>1, <2>3, <2>4, Zenon DEF AfterSave
<1>6. ASSUME NEW c \in Brokers, NEW v \in Threads PROVE TidyThread(thread'[c][v], deletes)
  <2>1. \/ thread'[c][v] = thread[c][v] \/ thread'[c][v] = me
        \/ thread'[c][v] = [thread[c][v] EXCEPT !.at = "disk"]
    BY Zenon, <1>3 DEF Shaped
  <2>2. TidyThread(thread[c][v], deletes) /\ DOMAIN thread[c][v] = ThreadFields
    BY Zenon, TidyNow
  <2>3. ASSUME thread'[c][v] = [thread[c][v] EXCEPT !.at = "disk"]
        PROVE  TidyThread(thread'[c][v], deletes)
    <3>1. /\ thread'[c][v].pc = thread[c][v].pc /\ thread'[c][v].job = thread[c][v].job
          /\ thread'[c][v].list = thread[c][v].list /\ thread'[c][v].topic = thread[c][v].topic
          /\ thread'[c][v].part = thread[c][v].part
          /\ thread'[c][v].adopted = thread[c][v].adopted
      BY Zenon, <2>2, <2>3 DEF ThreadFields
    <3> QED
      BY Zenon, <2>2, <3>1 DEF TidyThread
  <2> QED
    BY Zenon, <1>5, <2>1, <2>2, <2>3
<1>7. PICK file : disk' = [disk EXCEPT ![b] = file] /\ file \in {disk[b], Torn, topics[b]}
  BY Zenon, RenamedFile
<1>8. DOMAIN file \subseteq Topics
  BY Zenon, <1>7 DEF Torn, Tidy, TidyTables
<1>9. TidyTables(disk')
  BY Zenon, <1>7, <1>8, TablesTidy
<1>10. /\ DOMAIN open' = Brokers /\ TidyTables(topics') /\ TidyQueues(inbox', deletes)
       /\ TidyThreads(thread', deletes)
  BY Zenon, <1>0, <1>6 DEF Tidy, TidyThreads
<1> QED
  BY Zenon, <1>0, <1>9, <1>10, TidyFrame

\* A call adds a request to a queue.
LEMMA CallTidy ==
  ASSUME Shaped, NEW gone, deletes \subseteq gone, TidyQueues(inbox, deletes), NEW b \in Brokers,
         NEW caller, NEW req, DOMAIN req = RequestFields, TidyRequest(req, gone),
         Call(caller, b, req)
  PROVE  TidyQueues(inbox', gone)
<1>1. PICK sent : sent = [req EXCEPT !.from = caller]
  BY Zenon
<1>2. sent.kind = req.kind /\ sent.topic = req.topic
  BY Zenon, <1>1 DEF RequestFields
<1>3. TidyRequest(sent, gone)
  BY Zenon, <1>2 DEF TidyRequest
<1>4. PICK v : v = WorkerForRequest(req)
  BY Zenon
<1>5. inbox' = [inbox EXCEPT ![b][v] = Append(inbox[b][v], sent)]
  BY <1>1, <1>4, Zenon DEF Call
<1>6. ASSUME NEW c \in Brokers, NEW w \in Workers PROVE TidyQueue(inbox'[c][w], gone)
  <2>0. PICK queue : queue = inbox[c][w]
    BY Zenon
  <2>1. inbox'[c][w] = queue \/ inbox'[c][w] = Append(queue, sent)
    BY Zenon, <1>5, <2>0 DEF Shaped
  <2>2. TidyQueue(queue, gone)
    BY Zenon, <2>0 DEF TidyQueues, TidyQueue, TidyRequest
  <2>3. QueueShape(queue)
    BY Zenon, <2>0 DEF Shaped
  <2>4. PICK more : more = Append(queue, sent)
    BY Zenon
  <2>5. \A i \in DOMAIN more : (i \in DOMAIN queue /\ more[i] = queue[i]) \/ more[i] = sent
    <3>1. Len(queue) \in Nat /\ DOMAIN queue = 1..Len(queue)
      BY Zenon, <2>3 DEF QueueShape
    <3> QED
      BY <2>4, <3>1
  <2>6. TidyQueue(more, gone)
    BY ZenonT(30), <1>3, <2>2, <2>5 DEF TidyQueue
  <2> QED
    BY Zenon, <2>1, <2>2, <2>4, <2>6
<1> QED
  BY Zenon, <1>6 DEF TidyQueues

\* A request to create a topic.
LEMMA CreateRequestTidy ==
  ASSUME NEW gone, NEW topic \in Topics, NEW count, NEW rf, NEW pushed, NEW req,
         req = CreateRequest(topic, count, rf, pushed)
  PROVE  DOMAIN req = RequestFields /\ TidyRequest(req, gone)
<1>1. DOMAIN req = RequestFields /\ req.kind = "create" /\ req.topic = topic
  BY Zenon DEF CreateRequest, NoRequest, RequestFields
<1> QED
  BY Zenon, <1>1 DEF TidyRequest

\* BroadcastTopic.
LEMMA PushTidy ==
  ASSUME Shaped, Tidy, up \subseteq Brokers, NEW b \in Brokers, NEW w \in Threads,
         Push(b, w) \/ Pushed(b, w)
  PROVE  Tidy'
<1> DEFINE th == thread[b][w]
<1>0. UNCHANGED <<topics, open, disk, deletes>>
  BY Zenon DEF Push, Pushed, disks, history
<1>1. DOMAIN th = ThreadFields /\ TidyThread(th, deletes) /\ th.topic \in Topics
  <2>1. th.pc \in {"push", "pushed"}
    BY Zenon DEF Push, Pushed
  <2> QED
    BY Zenon, <2>1, TidyNow DEF TidyThread
<1>2. PICK next, peers :
        /\ thread' = [thread EXCEPT ![b][w] = next]
        /\ \/ next = [th EXCEPT !.pc = "pushed", !.peers = peers]
           \/ next = [th EXCEPT !.peers = peers] /\ th.pc = "push"
           \/ next = [th EXCEPT !.pc = "done"] \/ next = [th EXCEPT !.pc = "push"]
  BY Zenon DEF Push, Pushed, Goto
<1>3. /\ next.pc \in {"push", "pushed", "done"} /\ next.job = th.job /\ next.list = th.list
      /\ next.topic = th.topic
  BY Zenon, <1>1, <1>2 DEF ThreadFields
<1>4. TidyThread(next, deletes)
  <2>1. CASE next.pc = "done"
    <3>1. next.pc \in Late /\ DOMAIN next.list \subseteq Topics
      BY Zenon, <1>3, <2>1, TidyNow DEF Late
    <3> QED
      BY Zenon, <1>1, <1>3, <3>1, LaterTidy
  <2>2. CASE next.pc # "done"
    BY Zenon, <1>1, <1>3, <2>2, SaverTidy
  <2> QED
    BY Zenon, <2>1, <2>2
<1>5. TidyThreads(thread', deletes)
  BY Zenon, <1>2, <1>4, TidyMoves
<1>6. TidyQueues(inbox', deletes)
  <2>0. TidyQueues(inbox, deletes)
    BY Zenon DEF Tidy
  <2>1. CASE inbox' = inbox
    BY Zenon, <2>0, <2>1
  <2>2. ASSUME NEW peer \in up, NEW caller, NEW req, Call(caller, peer, req),
               req = CreateRequest(th.topic, PartitionCount(th.desc), ReplicationFactor(th.desc), TRUE)
        PROVE  TidyQueues(inbox', deletes)
    <3>1. PICK topic : topic = th.topic
      BY Zenon
    <3>2. PICK count : count = PartitionCount(th.desc)
      BY Zenon
    <3>3. PICK rf : rf = ReplicationFactor(th.desc)
      BY Zenon
    <3>4. req = CreateRequest(topic, count, rf, TRUE) /\ topic \in Topics /\ peer \in Brokers
      BY Zenon, <1>1, <2>2, <3>1, <3>2, <3>3
    <3>5. DOMAIN req = RequestFields /\ TidyRequest(req, deletes)
      BY Zenon, <3>4, CreateRequestTidy
    <3> QED
      BY Zenon, <2>0, <2>2, <3>4, <3>5, CallTidy
  <2> QED
    BY <2>1, <2>2, Zenon DEF Push, Pushed, calls
<1>7. DOMAIN open' = Brokers /\ TidyTables(topics') /\ TidyTables(disk')
  BY Zenon, <1>0 DEF Tidy
<1> QED
  BY Zenon, <1>0, <1>5, <1>6, <1>7, TidyFrame

\* The call to the controller.
LEMMA ForwardTidy ==
  ASSUME Shaped, Tidy, up \subseteq Brokers, NEW b \in Brokers, NEW w \in Threads,
         Forward(b, w) \/ Forwarded(b, w)
  PROVE  Tidy'
<1> DEFINE th == thread[b][w]
<1>0. UNCHANGED <<topics, open, disk, deletes>>
  BY Zenon DEF Forward, Forwarded, disks, history
<1>1. /\ DOMAIN th = ThreadFields /\ TidyThread(th, deletes) /\ th.pc \in {"forward", "forwarded"}
      /\ DOMAIN th.list \subseteq Topics
  BY Zenon, TidyNow DEF Forward, Forwarded
<1>2. PICK next : /\ thread' = [thread EXCEPT ![b][w] = next]
                  /\ \/ next = [th EXCEPT !.pc = "forwarded"]
                     \/ next = [th EXCEPT !.pc = "reconcile"] \/ next = IdleThread
  BY Zenon DEF Forward, Forwarded, Goto, Respond
<1>3. TidyThread(next, deletes)
  <2>1. CASE next = IdleThread
    BY Zenon, <2>1, IdleTidy
  <2>2. CASE next # IdleThread
    <3>1. /\ next.pc \in {"forwarded", "reconcile"} /\ next.job = th.job /\ next.list = th.list
          /\ next.part = th.part
      BY Zenon, <1>1, <1>2, <2>2 DEF ThreadFields
    <3>2. next.pc \in Early /\ next.pc \notin {"create", "forward", "upsert"} /\ th.pc \in Early
      BY Zenon, <1>1, <3>1 DEF Early
    <3> QED
      BY Zenon, <1>1, <3>1, <3>2, EarlyTidy
  <2> QED
    BY Zenon, <2>1, <2>2
<1>4. TidyThreads(thread', deletes)
  BY Zenon, <1>2, <1>3, TidyMoves
<1>5. TidyQueues(inbox', deletes)
  <2>0. TidyQueues(inbox, deletes)
    BY Zenon DEF Tidy
  <2>1. CASE inbox' = inbox
    BY Zenon, <2>0, <2>1
  <2>2. ASSUME ControllerId \in up, NEW caller, NEW req, Call(caller, ControllerId, req),
               req = CreateRequest(th.job.topic, th.job.count, th.job.rf, FALSE), th.pc = "forward"
        PROVE  TidyQueues(inbox', deletes)
    <3>1. PICK job : job = th.job
      BY Zenon
    <3>2. job.topic \in Topics
      BY Zenon, <1>1, <2>2, <3>1 DEF TidyThread, TidyRequest
    <3>3. req = CreateRequest(job.topic, job.count, job.rf, FALSE)
      BY Zenon, <2>2, <3>1
    <3>4. DOMAIN req = RequestFields /\ TidyRequest(req, deletes)
      BY Zenon, <3>2, <3>3, CreateRequestTidy
    <3>5. PICK c : c = ControllerId
      BY Zenon
    <3>6. c \in Brokers /\ Call(caller, c, req)
      BY Zenon, <2>2, <3>5
    <3> QED
      BY Zenon, <2>0, <3>4, <3>6, CallTidy
  <2> QED
    BY <2>1, <2>2, Zenon DEF Forward, Forwarded
<1>6. DOMAIN open' = Brokers /\ TidyTables(topics') /\ TidyTables(disk')
  BY Zenon, <1>0 DEF Tidy
<1> QED
  BY Zenon, <1>0, <1>4, <1>5, <1>6, TidyFrame

\* The controller's answer, and the next of its topics.
LEMMA AdoptTidy ==
  ASSUME Shaped, Tidy, up \subseteq Brokers, NEW b \in Brokers, NEW w \in Threads,
         Reconcile(b, w) \/ Adopt(b, w)
  PROVE  Tidy'
<1> DEFINE th == thread[b][w]
<1>0. UNCHANGED <<topics, open, disk, inbox, deletes>> /\ DOMAIN open' = Brokers
  BY Zenon DEF Reconcile, Adopt, disks, calls, history, Tidy
<1>1. /\ DOMAIN th = ThreadFields /\ TidyThread(th, deletes) /\ DOMAIN th.list \subseteq Topics
      /\ th.pc \in Early
  BY Zenon, TidyNow DEF Reconcile, Adopt, Early
<1>2. ASSUME NEW next, NEW list, DOMAIN list \subseteq Topics,
             next = [th EXCEPT !.pc = "adopt", !.list = list]
      PROVE  TidyThread(next, deletes)
  <2>1. next.pc = "adopt" /\ next.job = th.job /\ next.list = list /\ next.part = th.part
    BY Zenon, <1>1, <1>2 DEF ThreadFields
  <2>2. /\ next.pc \in Early /\ next.pc \notin {"create", "forward"}
        /\ next.pc = "upsert" => next.topic \in Topics
        /\ DOMAIN next.list \subseteq Topics
    BY Zenon, <1>2, <2>1 DEF Early
  <2> QED
    BY Zenon, <1>1, <2>1, <2>2, EarlyTidy
<1>3. ASSUME NEW next, NEW t \in DOMAIN th.list, NEW desc,
             next = [th EXCEPT !.pc = "upsert", !.topic = t, !.desc = desc]
      PROVE  TidyThread(next, deletes)
  <2>1. /\ next.pc = "upsert" /\ next.job = th.job /\ next.list = th.list /\ next.part = th.part
        /\ next.topic = t
    BY Zenon, <1>1, <1>3 DEF ThreadFields
  <2>2. next.topic \in Topics /\ next.pc \in Early /\ next.pc \notin {"create", "forward"}
    BY Zenon, <1>1, <1>3, <2>1 DEF Early
  <2> QED
    BY Zenon, <1>1, <2>1, <2>2, EarlyTidy
<1>4. ASSUME NEW next, next = [th EXCEPT !.pc = "save", !.list = <<>>], th.adopted
      PROVE  TidyThread(next, deletes)
  <2>1. next.pc = "save" /\ next.job = th.job /\ next.list = <<>> /\ next.adopted = th.adopted
    BY Zenon, <1>1, <1>4 DEF ThreadFields
  <2> QED
    BY Zenon, <1>1, <1>4, <2>1, SaverTidy
<1>5. ASSUME NEW next, next = [th EXCEPT !.pc = "get", !.list = <<>>]
      PROVE  TidyThread(next, deletes)
  <2>1. next.pc \in Late /\ next.job = th.job /\ next.list = <<>>
    BY Zenon, <1>1, <1>5 DEF ThreadFields, Late
  <2>2. DOMAIN next.list \subseteq Topics
    BY Zenon, <2>1, EmptyTable
  <2> QED
    BY Zenon, <1>1, <2>1, <2>2, LaterTidy
<1>6. TidyThread(IdleThread, deletes)
  BY Zenon, IdleTidy
<1>7. PICK list : list = BuildMetadataResponse(topics[ControllerId], Topics)
  BY Zenon
<1>8. DOMAIN list \subseteq Topics
  BY Zenon, <1>7 DEF BuildMetadataResponse
<1>9. \E next : thread' = [thread EXCEPT ![b][w] = next] /\ TidyThread(next, deletes)
  <2>1. CASE Reconcile(b, w)
    <3>1. \/ thread' = [thread EXCEPT ![b][w] = [th EXCEPT !.pc = "adopt", !.list = list]]
          \/ thread' = [thread EXCEPT ![b][w] = IdleThread]
      BY <1>7, <2>1, Zenon DEF Reconcile, Goto, Respond
    <3> QED
      BY ZenonT(30), <1>2, <1>6, <1>8, <3>1
  <2>2. CASE Adopt(b, w)
    <3>1. \/ \E t \in DOMAIN th.list :
               thread' = [thread EXCEPT ![b][w] =
                            [th EXCEPT !.pc = "upsert", !.topic = t, !.desc = th.list[t]]]
          \/ thread' = [thread EXCEPT ![b][w] = [th EXCEPT !.pc = "save", !.list = <<>>]] /\ th.adopted
          \/ thread' = [thread EXCEPT ![b][w] = IdleThread]
          \/ thread' = [thread EXCEPT ![b][w] = [th EXCEPT !.pc = "get", !.list = <<>>]]
      BY <2>2, Zenon DEF Adopt, Goto
    <3> QED
      BY Zenon, <1>3, <1>4, <1>5, <1>6, <3>1
  <2> QED
    BY Zenon, <2>1, <2>2
<1> QED
  BY Zenon, <1>0, <1>9, TidyStep

\* A topic enters a table.
LEMMA EntersTidy ==
  ASSUME Shaped, Tidy, NEW b \in Brokers, NEW w \in Threads,
         UNCHANGED <<disk, inbox, deletes, open>>, NEW topic \in Topics, NEW desc,
         topics' = topics \/ topics' = [topics EXCEPT ![b] = UpsertTopic(topics[b], topic, desc)],
         NEW next, TidyThread(next, deletes), thread' = [thread EXCEPT ![b][w] = next]
  PROVE  Tidy'
<1>1. TidyThreads(thread', deletes)
  BY Zenon, TidyMoves
<1>2. PICK table : table = UpsertTopic(topics[b], topic, desc)
  BY Zenon
<1>3. DOMAIN table \subseteq Topics
  BY Zenon, <1>2 DEF Tidy, TidyTables, UpsertTopic
<1>4. topics' = topics \/ topics' = [topics EXCEPT ![b] = table]
  BY Zenon, <1>2
<1>5. TidyTables(topics')
  BY Zenon, <1>3, <1>4, TablesTidy
<1>6. DOMAIN open' = Brokers /\ TidyTables(disk') /\ TidyQueues(inbox', deletes)
  BY Zenon DEF Tidy
<1> QED
  BY Zenon, <1>1, <1>5, <1>6, TidyFrame

\* So it is with Upsert,
LEMMA UpsertTidy ==
  ASSUME Shaped, Tidy, NEW b \in Brokers, NEW w \in Threads, Upsert(b, w)
  PROVE  Tidy'
<1> DEFINE th == thread[b][w]
<1>0. UNCHANGED <<disk, inbox, deletes, open>> /\ th.pc = "upsert"
  BY Zenon DEF Upsert, disks, calls, history
<1>1. /\ DOMAIN th = ThreadFields /\ TidyRequest(th.job, deletes) /\ DOMAIN th.list \subseteq Topics
      /\ th.topic \in Topics /\ th.part = -1
  BY Zenon, <1>0, TidyNow DEF TidyThread, Early
<1>2. PICK list : list = DeleteTopic(th.list, th.topic)
  BY Zenon
<1>3. PICK cut : cut = [th EXCEPT !.adopted = TRUE, !.list = list]
  BY Zenon
<1>4. PICK next : next = Opening(b, cut, open[b])
  BY Zenon
<1>5. /\ topics' = [topics EXCEPT ![b] = UpsertTopic(topics[b], th.topic, th.desc)]
      /\ thread' = [thread EXCEPT ![b][w] = next]
  BY <1>2, <1>3, <1>4, Zenon DEF Upsert, Goto
<1>6. /\ DOMAIN cut = ThreadFields /\ cut.job = th.job /\ cut.list = list /\ cut.topic = th.topic
      /\ cut.part = th.part
  BY Zenon, <1>1, <1>3 DEF ThreadFields
<1>7. DOMAIN cut.list \subseteq Topics
  BY Zenon, <1>1, <1>2, <1>6 DEF DeleteTopic
<1>8. cut.part \in Int
  BY <1>1, <1>6
<1>9. TidyThread(next, deletes)
  BY Zenon, <1>1, <1>4, <1>6, <1>7, <1>8, OpeningTidy
<1>10. PICK topic, desc : topic = th.topic /\ desc = th.desc
  BY Zenon
<1>11. topic \in Topics /\ topics' = [topics EXCEPT ![b] = UpsertTopic(topics[b], topic, desc)]
  BY Zenon, <1>1, <1>5, <1>10
<1> QED
  BY Zenon, <1>0, <1>5, <1>9, <1>11, EntersTidy

\* and with Create.
LEMMA CreateTidy ==
  ASSUME Shaped, Tidy, NEW b \in Brokers, NEW w \in Threads, Create(b, w)
  PROVE  Tidy'
<1>0. UNCHANGED <<disk, inbox, deletes, open>> /\ thread[b][w].pc = "create"
  BY Zenon DEF Create, disks
<1>1. /\ DOMAIN thread[b][w] = ThreadFields /\ TidyRequest(thread[b][w].job, deletes)
      /\ DOMAIN thread[b][w].list \subseteq Topics /\ thread[b][w].job.topic \in Topics
      /\ thread[b][w].part = -1
  BY Zenon, <1>0, TidyNow DEF TidyThread, TidyRequest, Early
<1>2. PICK topic : topic = thread[b][w].job.topic
  BY Zenon
<1>3. PICK desc, made, th, next, code : CreateMove(b, w, topic, desc, made, th, next, code)
  BY Zenon, <1>2, CreateMoves
<1>4. CASE Respond(b, w, code) /\ UNCHANGED topics
  BY Zenon, <1>0, <1>4, EndsTidy
<1>5. CASE /\ thread' = [thread EXCEPT ![b][w] = next]
           /\ topics' = topics \/ topics' = [topics EXCEPT ![b] = UpsertTopic(topics[b], topic, desc)]
  <2>1. /\ DOMAIN th = ThreadFields /\ th.job = thread[b][w].job /\ th.list = thread[b][w].list
        /\ th.topic = topic /\ th.part = thread[b][w].part
    BY Zenon, <1>1, <1>3 DEF CreateMove, ThreadFields
  <2>2. th.part \in Int
    BY <1>1, <2>1
  <2>3. TidyRequest(th.job, deletes) /\ DOMAIN th.list \subseteq Topics /\ th.topic \in Topics
        /\ topic \in Topics
    BY Zenon, <1>1, <1>2, <2>1
  <2>4. next = Opening(b, th, open[b])
    BY Zenon, <1>3 DEF CreateMove
  <2>5. TidyThread(next, deletes)
    BY Zenon, <2>4, <2>1, <2>2, <2>3, OpeningTidy
  <2> QED
    BY Zenon, <1>0, <1>5, <2>3, <2>5, EntersTidy
<1> QED
  BY Zenon, <1>3, <1>4, <1>5 DEF CreateMove

\* A deletion.
LEMMA ForgetTidy ==
  ASSUME Shaped, Tidy, NEW b \in Brokers, NEW w \in Threads, RemoveData(b, w) \/ Forget(b, w)
  PROVE  Tidy'
<1> DEFINE th == thread[b][w]
<1>0. UNCHANGED <<disk, inbox, deletes, open>> /\ th.pc \in {"remove", "forget"}
  BY Zenon DEF RemoveData, Forget, disks, calls, history
<1>1. /\ DOMAIN th = ThreadFields /\ TidyThread(th, deletes) /\ th.job.kind = "delete"
  BY Zenon, <1>0, TidyNow DEF TidyThread
<1>2. PICK next : /\ thread' = [thread EXCEPT ![b][w] = next]
                  /\ \/ next = [th EXCEPT !.pc = "forget", !.desc = <<>>]
                     \/ next = [th EXCEPT !.pc = "save"]
  BY Zenon DEF RemoveData, Forget, Goto
<1>3. next.pc \in {"forget", "save"} /\ next.job = th.job /\ next.list = th.list
  BY Zenon, <1>1, <1>2 DEF ThreadFields
<1>4. TidyThread(next, deletes)
  BY Zenon, <1>1, <1>3 DEF TidyThread, Early
<1>5. TidyThreads(thread', deletes)
  BY Zenon, <1>2, <1>4, TidyMoves
<1>6. PICK table : table = DeleteTopic(topics[b], th.job.topic)
  BY Zenon
<1>7. topics' = topics \/ topics' = [topics EXCEPT ![b] = table]
  BY <1>6, Zenon DEF RemoveData, Forget
<1>8. DOMAIN table \subseteq Topics
  BY Zenon, <1>6 DEF Tidy, TidyTables, DeleteTopic
<1>9. TidyTables(topics')
  BY Zenon, <1>7, <1>8, TablesTidy
<1>10. DOMAIN open' = Brokers /\ TidyTables(disk') /\ TidyQueues(inbox', deletes)
  BY Zenon, <1>0 DEF Tidy
<1> QED
  BY Zenon, <1>0, <1>5, <1>9, <1>10, TidyFrame

\* How EnsureTopic begins.
LEMMA EnsureTidy ==
  ASSUME NEW gone, NEW b, NEW req, TidyRequest(req, gone), req.kind # "none", NEW next,
         next = EnsureFrom(b, req)
  PROVE  TidyThread(next, gone)
<1>1. PICK pc : pc = IF b = ControllerId \/ req.pushed THEN "create" ELSE "forward"
  BY Zenon
<1>2. next = [IdleThread EXCEPT !.job = req, !.pc = pc] /\ pc \in {"create", "forward"}
  BY Zenon, <1>1 DEF EnsureFrom
<1> QED
  BY Zenon, <1>2, BeginsTidy

\* A worker takes a request.
LEMMA TakeTidy ==
  ASSUME Shaped, Tidy, NEW b \in Brokers, NEW w \in Threads, Take(b, w)
  PROVE  Tidy'
<1>0. /\ UNCHANGED <<topics, disk, deletes>> /\ w \in Workers /\ inbox[b][w] # <<>>
      /\ inbox' = [inbox EXCEPT ![b][w] = Tail(inbox[b][w])]
  BY Zenon DEF Take, disks, history
<1>1. PICK queue : queue = inbox[b][w]
  BY Zenon
<1>2. PICK req : req = Head(queue)
  BY Zenon
<1>3. PICK rest : rest = Tail(queue)
  BY Zenon
<1>4. QueueShape(queue) /\ TidyQueue(queue, deletes)
  BY Zenon, <1>0, <1>1 DEF Shaped, Tidy, TidyQueues
<1>5. /\ 1 \in DOMAIN queue /\ req = queue[1]
      /\ \A i \in DOMAIN rest : i + 1 \in DOMAIN queue /\ rest[i] = queue[i + 1]
  <2>1. Len(queue) \in Nat /\ DOMAIN queue = 1..Len(queue) /\ queue # <<>>
    BY Zenon, <1>0, <1>1, <1>4 DEF QueueShape
  <2> QED
    BY <1>2, <1>3, <2>1
<1>6. TidyRequest(req, deletes) /\ TidyQueue(rest, deletes)
  BY Zenon, <1>4, <1>5 DEF TidyQueue
<1>7. TidyQueues(inbox', deletes)
  <2>1. \A c \in Brokers, v \in Workers : inbox'[c][v] = inbox[c][v] \/ inbox'[c][v] = rest
    BY Zenon, <1>0, <1>1, <1>3 DEF Shaped
  <2> QED
    BY Zenon, <1>6, <2>1 DEF Tidy, TidyQueues
<1>8. ASSUME NEW next, NEW desc,
             \/ next = EnsureFrom(b, req) /\ req.kind # "none"
             \/ next = [IdleThread EXCEPT !.pc = "remove", !.job = req, !.desc = desc] /\ req.kind = "delete"
             \/ next = [IdleThread EXCEPT !.pc = "resolve", !.job = req] /\ req.kind = "produce"
      PROVE  TidyThread(next, deletes)
  <2>1. req.kind # "none"
    BY Zenon, <1>8
  <2>2. CASE next = EnsureFrom(b, req)
    BY Zenon, <1>6, <2>1, <2>2, EnsureTidy
  <2>3. ASSUME NEW pc, pc = "remove", next = [IdleThread EXCEPT !.pc = pc, !.job = req, !.desc = desc],
               req.kind = "delete"
        PROVE  TidyThread(next, deletes)
    BY Zenon, <1>6, <2>1, <2>3, BeginsTidy
  <2>4. ASSUME NEW pc, pc = "resolve", next = [IdleThread EXCEPT !.pc = pc, !.job = req]
        PROVE  TidyThread(next, deletes)
    BY Zenon, <1>6, <2>1, <2>4, BeginsTidy
  <2> QED
    BY Zenon, <1>8, <2>2, <2>3, <2>4
<1>9. \/ thread' = thread
      \/ \E next, desc :
           /\ thread' = [thread EXCEPT ![b][w] = next]
           /\ \/ next = EnsureFrom(b, req) /\ req.kind # "none"
              \/ next = [IdleThread EXCEPT !.pc = "remove", !.job = req, !.desc = desc] /\ req.kind = "delete"
              \/ next = [IdleThread EXCEPT !.pc = "resolve", !.job = req] /\ req.kind = "produce"
  BY <1>1, <1>2, Zenon DEF Take, Goto
<1>10. TidyThreads(thread', deletes)
  <2>1. CASE thread' = thread
    BY Zenon, <2>1 DEF Tidy
  <2>2. ASSUME NEW next, TidyThread(next, deletes), thread' = [thread EXCEPT ![b][w] = next]
        PROVE  TidyThreads(thread', deletes)
    BY Zenon, <2>2, TidyMoves
  <2> QED
    BY Zenon, <1>8, <1>9, <2>1, <2>2
<1>11. DOMAIN open' = Brokers
  BY Zenon DEF Take, Tidy
<1>12. TidyTables(topics') /\ TidyTables(disk')
  BY Zenon, <1>0 DEF Tidy
<1> QED
  BY Zenon, <1>0, <1>7, <1>10, <1>11, <1>12, TidyFrame

\* A produce request.
LEMMA ResolveTidy ==
  ASSUME Shaped, Tidy, NEW b \in Brokers, NEW w \in Threads, Resolve(b, w)
  PROVE  Tidy'
<1> DEFINE th == thread[b][w]
<1>0. UNCHANGED <<topics, disk, inbox, deletes, open>> /\ th.pc \in {"resolve", "again"}
  BY Zenon DEF Resolve, history
<1>1. PICK req : req = th.job
  BY Zenon
<1>2. TidyRequest(req, deletes) /\ req.kind = "produce" /\ RequestShape(req)
  BY Zenon, <1>0, <1>1, TidyNow, ThreadRecord DEF ThreadShape
<1>3. ASSUME NEW code, Respond(b, w, code) PROVE Tidy'
  BY Zenon, <1>0, <1>3, EndsTidy
<1>4. ASSUME NEW count, NEW asked, asked = [req EXCEPT !.count = count, !.rf = DefaultFactor],
             thread' = [thread EXCEPT ![b][w] = EnsureFrom(b, asked)]
      PROVE  Tidy'
  <2>1. asked.kind = req.kind /\ asked.topic = req.topic
    BY Zenon, <1>2, <1>4 DEF RequestShape, RequestFields
  <2>2. TidyRequest(asked, deletes) /\ asked.kind # "none"
    BY Zenon, <1>2, <2>1 DEF TidyRequest
  <2>3. PICK next : next = EnsureFrom(b, asked)
    BY Zenon
  <2>4. TidyThread(next, deletes)
    BY Zenon, <2>2, <2>3, EnsureTidy
  <2>5. thread' = [thread EXCEPT ![b][w] = next] /\ DOMAIN open' = Brokers
    BY Zenon, <1>0, <1>4, <2>3 DEF Tidy
  <2> QED
    BY Zenon, <1>0, <2>4, <2>5, TidyStep
<1> QED
  BY <1>1, <1>3, <1>4, Zenon DEF Resolve, Goto

\* A request whose caller has given up.
LEMMA DisownedTidy ==
  ASSUME NEW gone, NEW req, DOMAIN req = RequestFields, TidyRequest(req, gone), NEW callers, NEW left,
         left = Disowned(req, callers)
  PROVE  TidyRequest(left, gone) /\ left.kind = req.kind
<1>1. CASE left = req
  BY Zenon, <1>1
<1>2. CASE left = [req EXCEPT !.from = Nobody]
  <2>1. left.kind = req.kind /\ left.topic = req.topic
    BY Zenon, <1>2 DEF RequestFields
  <2> QED
    BY Zenon, <2>1 DEF TidyRequest
<1> QED
  BY <1>1, <1>2, Zenon DEF Disowned

\* The threads and the queues that hold such requests.
LEMMA DisownedAllTidy ==
  ASSUME Shaped, Tidy, NEW b \in Brokers, NEW callers
  PROVE  /\ \A w \in Threads : \A next :
              next = [thread[b][w] EXCEPT !.job = Disowned(thread[b][w].job, callers)] =>
                TidyThread(next, deletes)
         /\ \A w \in Workers : \A rest :
              rest = [i \in DOMAIN inbox[b][w] |-> Disowned(inbox[b][w][i], callers)] =>
                TidyQueue(rest, deletes)
<1>1. ASSUME NEW w \in Threads, NEW next,
             next = [thread[b][w] EXCEPT !.job = Disowned(thread[b][w].job, callers)]
      PROVE  TidyThread(next, deletes)
  <2>1. PICK job : job = thread[b][w].job
    BY Zenon
  <2>2. PICK left : left = Disowned(job, callers)
    BY Zenon
  <2>3. RequestShape(job) /\ TidyRequest(job, deletes)
    BY Zenon, <2>1, ThreadKnown, TidyNow
  <2>4. TidyRequest(left, deletes) /\ left.kind = job.kind
    BY Zenon, <2>2, <2>3, DisownedTidy DEF RequestShape
  <2>5. TidyThread(thread[b][w], deletes) /\ DOMAIN thread[b][w] = ThreadFields
    BY Zenon, TidyNow
  <2>6. next = [thread[b][w] EXCEPT !.job = left]
    BY Zenon, <1>1, <2>1, <2>2
  <2>7. /\ next.pc = thread[b][w].pc /\ next.job = left /\ next.list = thread[b][w].list
        /\ next.topic = thread[b][w].topic /\ next.part = thread[b][w].part
        /\ next.adopted = thread[b][w].adopted
    BY Zenon, <2>5, <2>6 DEF ThreadFields
  <2> QED
    BY Zenon, <2>1, <2>4, <2>5, <2>7 DEF TidyThread
<1>2. ASSUME NEW w \in Workers, NEW rest,
             rest = [i \in DOMAIN inbox[b][w] |-> Disowned(inbox[b][w][i], callers)]
      PROVE  TidyQueue(rest, deletes)
  <2>1. ASSUME NEW i \in DOMAIN rest PROVE TidyRequest(rest[i], deletes)
    <3>1. i \in DOMAIN inbox[b][w] /\ rest[i] = Disowned(inbox[b][w][i], callers)
      BY Zenon, <1>2, <2>1
    <3>2. PICK req : req = inbox[b][w][i]
      BY Zenon
    <3>3. DOMAIN req = RequestFields /\ TidyRequest(req, deletes)
      BY ZenonT(30), <3>1, <3>2 DEF Shaped, QueueShape, RequestShape, Tidy, TidyQueues, TidyQueue
    <3>4. PICK left : left = Disowned(req, callers)
      BY Zenon
    <3>5. TidyRequest(left, deletes)
      BY Zenon, <3>3, <3>4, DisownedTidy
    <3> QED
      BY Zenon, <3>1, <3>2, <3>4, <3>5
  <2> QED
    BY Zenon, <2>1 DEF TidyQueue
<1> QED
  BY Zenon, <1>1, <1>2

\* A timeout.
LEMMA TimeoutTidy ==
  ASSUME Shaped, Tidy, up \subseteq Brokers, NEW c \in Callers, Timeout(c)
  PROVE  Tidy'
<1>1. UNCHANGED <<topics, disk, open, deletes>>
  BY Zenon DEF Timeout, disks, history
<1>2. PICK b \in up, w \in Workers :
        /\ thread' = [thread EXCEPT ![b][w].job = Disowned(@, {c})]
        /\ inbox' = [inbox EXCEPT ![b][w] = [i \in DOMAIN @ |-> Disowned(@[i], {c})]]
  BY Zenon DEF Timeout
<1>3. b \in Brokers /\ w \in Threads
  BY Zenon, <1>2 DEF Threads
<1>4. PICK callers : callers = {c}
  BY Zenon
<1>5. PICK next : next = [thread[b][w] EXCEPT !.job = Disowned(thread[b][w].job, callers)]
  BY Zenon
<1>6. PICK rest : rest = [i \in DOMAIN inbox[b][w] |-> Disowned(inbox[b][w][i], callers)]
  BY Zenon
<1>7. thread' = [thread EXCEPT ![b][w] = next] /\ inbox' = [inbox EXCEPT ![b][w] = rest]
  BY Zenon, <1>2, <1>4, <1>5, <1>6
<1>8. TidyThread(next, deletes) /\ TidyQueue(rest, deletes)
  BY Zenon, <1>2, <1>3, <1>5, <1>6, DisownedAllTidy
<1>9. TidyThreads(thread', deletes)
  BY Zenon, <1>3, <1>7, <1>8, TidyMoves
<1>10. TidyQueues(inbox', deletes)
  <2>1. \A d \in Brokers, v \in Workers : inbox'[d][v] = inbox[d][v] \/ inbox'[d][v] = rest
    BY Zenon, <1>3, <1>7 DEF Shaped
  <2> QED
    BY Zenon, <1>8, <2>1 DEF Tidy, TidyQueues
<1>11. DOMAIN open' = Brokers /\ TidyTables(topics') /\ TidyTables(disk')
  BY Zenon, <1>1 DEF Tidy
<1> QED
  BY Zenon, <1>1, <1>9, <1>10, <1>11, TidyFrame

\* A kill.
LEMMA KillTidy ==
  ASSUME Shaped, Tidy, NEW b \in Brokers, Kill(b)
  PROVE  Tidy'
<1>1. /\ UNCHANGED <<disk, deletes>> /\ topics' = [topics EXCEPT ![b] = <<>>]
      /\ open' = [open EXCEPT ![b] = {}]
  BY Zenon DEF Kill, disks, history
<1>2. PICK own : own = {b} \X Threads
  BY Zenon
<1>3. /\ inbox' = [d \in Brokers |-> [w \in Workers |->
                     IF d = b THEN <<>>
                     ELSE [i \in DOMAIN inbox[d][w] |-> Disowned(inbox[d][w][i], own)]]]
      /\ thread' = [d \in Brokers |-> [w \in Threads |->
                      IF d = b THEN IdleThread
                      ELSE [thread[d][w] EXCEPT !.job = Disowned(@, own)]]]
  BY <1>2, Zenon DEF Kill
<1>4. TidyThreads(thread', deletes)
  <2>1. ASSUME NEW d \in Brokers, NEW w \in Threads PROVE TidyThread(thread'[d][w], deletes)
    <3>1. CASE d = b
      <4>1. thread'[d][w] = IdleThread
        BY Zenon, <1>3, <3>1
      <4> QED
        BY Zenon, <4>1, IdleTidy
    <3>2. CASE d # b
      <4>1. thread'[d][w] = [thread[d][w] EXCEPT !.job = Disowned(thread[d][w].job, own)]
        BY Zenon, <1>3, <3>2
      <4> QED
        BY Zenon, <4>1, DisownedAllTidy
    <3> QED
      BY Zenon, <3>1, <3>2
  <2> QED
    BY Zenon, <2>1 DEF TidyThreads
<1>5. TidyQueues(inbox', deletes)
  <2>1. ASSUME NEW d \in Brokers, NEW w \in Workers PROVE TidyQueue(inbox'[d][w], deletes)
    <3>1. CASE d = b
      <4>1. inbox'[d][w] = <<>>
        BY Zenon, <1>3, <3>1
      <4> QED
        BY Zenon, <4>1, EmptyTable DEF TidyQueue
    <3>2. CASE d # b
      <4>1. inbox'[d][w] = [i \in DOMAIN inbox[d][w] |-> Disowned(inbox[d][w][i], own)]
        BY Zenon, <1>3, <3>2
      <4> QED
        BY Zenon, <4>1, DisownedAllTidy
    <3> QED
      BY Zenon, <3>1, <3>2
  <2> QED
    BY Zenon, <2>1 DEF TidyQueues
<1>6. PICK table : table = <<>>
  BY Zenon
<1>7. DOMAIN table \subseteq Topics /\ topics' = [topics EXCEPT ![b] = table]
  BY Zenon, <1>1, <1>6, EmptyTable
<1>8. TidyTables(topics') /\ TidyTables(disk') /\ DOMAIN open' = Brokers
  BY Zenon, <1>1, <1>7, TablesTidy DEF Tidy
<1> QED
  BY Zenon, <1>1, <1>4, <1>5, <1>8, TidyFrame

\* A restart.
LEMMA RestartTidy ==
  ASSUME Shaped, Tidy, NEW b \in Brokers, Restart(b)
  PROVE  Tidy'
<1>1. /\ UNCHANGED <<disk, inbox, thread, deletes>> /\ topics' = [topics EXCEPT ![b] = disk[b]]
      /\ open' = [open EXCEPT ![b] = PartitionsHostedBy(disk[b], b)]
  BY Zenon DEF Restart, calls, history
<1>2. PICK table : table = disk[b]
  BY Zenon
<1>3. DOMAIN table \subseteq Topics /\ topics' = [topics EXCEPT ![b] = table]
  BY Zenon, <1>1, <1>2 DEF Tidy, TidyTables
<1>4. TidyTables(topics') /\ DOMAIN open' = Brokers
  BY Zenon, <1>1, <1>3, TablesTidy DEF Tidy
<1>5. TidyTables(disk') /\ TidyThreads(thread', deletes) /\ TidyQueues(inbox', deletes)
  BY Zenon, <1>1 DEF Tidy
<1> QED
  BY Zenon, <1>1, <1>4, <1>5, TidyFrame

\* Another deletion that is asked for.
LEMMA TidyMore ==
  ASSUME NEW gone, NEW more, gone \subseteq more, NEW th, TidyThread(th, gone)
  PROVE  TidyThread(th, more)
<1>1. TidyRequest(th.job, more)
  BY Zenon DEF TidyThread, TidyRequest
<1> QED
  BY Zenon, <1>1 DEF TidyThread

\* The clients.
LEMMA ClientTidy ==
  ASSUME Shaped, Tidy, up \subseteq Brokers, ClientStep
  PROVE  Tidy'
<1>1. UNCHANGED <<topics, disk, open, thread>>
  BY Zenon DEF ClientStep, Send, Flush, Attempt, Answered, AdminCall, AdminAnswered, clusterVars,
     disks
<1>2. CASE Attempt
  <2>1. UNCHANGED deletes
    BY <1>2, Zenon DEF Attempt, history
  <2>2. CASE inbox' = inbox
    BY Zenon, <1>1, <2>1, <2>2 DEF Tidy
  <2>3. ASSUME NEW b \in up, NEW caller, Call(caller, b, ProduceRequest(prod)) PROVE Tidy'
    <3>1. PICK req : req = ProduceRequest(prod)
      BY Zenon
    <3>2. DOMAIN req = RequestFields /\ req.kind = "produce" /\ req.topic = Topic
      BY Zenon, <3>1 DEF ProduceRequest, NoRequest, RequestFields
    <3>3. TidyRequest(req, deletes) /\ Call(caller, b, req) /\ b \in Brokers
      BY Zenon, <2>3, <3>1, <3>2, RecordsAssumption DEF TidyRequest
    <3>4. TidyQueues(inbox, deletes) /\ deletes \subseteq deletes
      BY Zenon DEF Tidy
    <3>5. TidyQueues(inbox', deletes)
      BY Zenon, <3>2, <3>3, <3>4, CallTidy
    <3> QED
      BY Zenon, <1>1, <2>1, <3>5 DEF Tidy
  <2> QED
    BY <1>2, <2>2, <2>3, Zenon DEF Attempt
<1>3. CASE AdminCall
  <2>1. PICK b \in up, req \in AdminCalls :
          /\ Call(AdminClient, b, req)
          /\ deletes' = IF req.kind = "delete" THEN deletes \cup {req.topic} ELSE deletes
    BY <1>3, Zenon DEF AdminCall, AnyBroker
  <2>2. PICK gone : gone = deletes'
    BY Zenon
  <2>3. deletes \subseteq gone /\ TidyRequest(req, gone)
    BY Zenon, <2>1, <2>2, AdminAssumption DEF TidyRequest
  <2>4. DOMAIN req = RequestFields
    <3>1. DOMAIN NoRequest = RequestFields
      BY Zenon DEF NoRequest, RequestFields
    <3> QED
      BY Zenon, <2>1, <3>1, AdminAssumption
  <2>5. PICK caller : caller = AdminClient
    BY Zenon
  <2>6. Call(caller, b, req) /\ b \in Brokers /\ TidyQueues(inbox, deletes)
    BY Zenon, <2>1, <2>5 DEF Tidy
  <2>7. TidyQueues(inbox', gone)
    BY Zenon, <2>3, <2>4, <2>6, CallTidy
  <2>8. TidyThreads(thread, gone)
    BY Zenon, <2>3, TidyMore DEF Tidy, TidyThreads
  <2> QED
    BY Zenon, <1>1, <2>2, <2>7, <2>8 DEF Tidy
<1>4. CASE Send \/ Flush \/ Answered \/ AdminAnswered
  <2>1. UNCHANGED <<inbox, deletes>>
    BY <1>4, Zenon DEF Send, Flush, Answered, AdminAnswered, clusterVars, calls, history
  <2> QED
    BY Zenon, <1>1, <2>1 DEF Tidy
<1> QED
  BY Zenon, <1>2, <1>3, <1>4 DEF ClientStep

-----------------------------------------------------------------------------
(***************************************************************************)
(* A partition that a table assigns to its broker is open, or a thread has *)
(* it still to open.  IsOpening does not say which partitions a thread     *)
(* will come to, so that it is not inductive; Due does.                    *)
(***************************************************************************)
HostedAt(table, b, t, p) ==
  t \in DOMAIN table /\ p \in 0..(Len(table[t]) - 1) /\ HasReplica(table[t], p, b)

Due(b, th, t, p, opened) ==
  /\ th.pc \in {"open", "emplace"} /\ th.topic = t
  /\ p \in ToOpen(b, th, opened) \/ (th.pc = "emplace" /\ p = th.part)

Awaited(b, t, p) ==
  <<t, p>> \in open[b] \/ \E w \in Threads : Due(b, thread[b][w], t, p, open[b])

Hosted ==
  \A b \in up, t \in Topics \ deletes : \A p : HostedAt(topics[b], b, t, p) => Awaited(b, t, p)

\* A step that drops no task: what a thread had to open it has still to open, or
\* it is open.
NothingDropped ==
  \A b \in Brokers, w \in Threads, t \in Topics : \A p :
    Due(b, thread[b][w], t, p, open[b]) =>
      Due(b, thread'[b][w], t, p, open'[b]) \/ <<t, p>> \in open'[b]

\* If no task is dropped, no replica closed and none assigned, all is as it was.
LEMMA HostedStays ==
  ASSUME Hosted, NothingDropped, up \subseteq Brokers, up' \subseteq up, deletes \subseteq deletes',
         \A b \in up, t \in Topics \ deletes : \A p : <<t, p>> \in open[b] => <<t, p>> \in open'[b],
         \A b \in up', t \in Topics : \A p :
           HostedAt(topics'[b], b, t, p) => HostedAt(topics[b], b, t, p)
  PROVE  Hosted'
<1>1. ASSUME NEW b \in up', NEW t \in Topics \ deletes', NEW p, HostedAt(topics'[b], b, t, p)
      PROVE  <<t, p>> \in open'[b] \/ \E w \in Threads : Due(b, thread'[b][w], t, p, open'[b])
  <2>1. b \in up /\ b \in Brokers /\ t \in Topics \ deletes /\ t \in Topics
    BY Zenon
  <2>2. HostedAt(topics[b], b, t, p)
    BY Zenon, <1>1, <2>1
  <2>3. Awaited(b, t, p)
    BY Zenon, <2>1, <2>2 DEF Hosted
  <2>4. CASE <<t, p>> \in open[b]
    BY Zenon, <2>1, <2>4
  <2>5. ASSUME NEW w \in Threads, Due(b, thread[b][w], t, p, open[b])
        PROVE  <<t, p>> \in open'[b] \/ \E v \in Threads : Due(b, thread'[b][v], t, p, open'[b])
    BY Zenon, <2>1, <2>5 DEF NothingDropped
  <2> QED
    BY Zenon, <2>3, <2>4, <2>5 DEF Awaited
<1> QED
  BY Zenon, <1>1 DEF Hosted, Awaited

\* A thread that is at the same partition has the same to open.
LEMMA DueStays ==
  ASSUME NEW b, NEW t, NEW p, NEW th, NEW next, NEW opened, NEW more, Due(b, th, t, p, opened),
         next.pc = th.pc, next.topic = th.topic, next.desc = th.desc, next.part = th.part
  PROVE  Due(b, next, t, p, more) \/ <<t, p>> \in more
BY Zenon DEF Due, ToOpen

\* A thread moves that has nothing to open.
LEMMA OthersStay ==
  ASSUME Shaped, NEW b \in Brokers, NEW w \in Threads, NEW next,
         thread' = [thread EXCEPT ![b][w] = next], thread[b][w].pc \notin {"open", "emplace"}
  PROVE  NothingDropped
<1>1. ASSUME NEW c \in Brokers, NEW v \in Threads, NEW t \in Topics, NEW p,
             Due(c, thread[c][v], t, p, open[c])
      PROVE  Due(c, thread'[c][v], t, p, open'[c]) \/ <<t, p>> \in open'[c]
  <2>1. ~(c = b /\ v = w)
    BY Zenon, <1>1 DEF Due
  <2>2. thread'[c][v] = thread[c][v]
    BY Zenon, <2>1 DEF Shaped
  <2> QED
    BY Zenon, <1>1, <2>2, DueStays
<1> QED
  BY Zenon, <1>1 DEF NothingDropped

\* The steps in which no partition is opened or assigned.
LEMMA OtherStepsHosted ==
  ASSUME Shaped, Tidy, Hosted, up \subseteq Brokers, NEW b \in Brokers, NEW w \in Threads,
         \/ Done(b, w) \/ SaveOpen(b, w) \/ SaveWrite(b, w) \/ Push(b, w) \/ Pushed(b, w)
         \/ Forward(b, w) \/ Forwarded(b, w) \/ Reconcile(b, w) \/ Adopt(b, w) \/ GetTopic(b, w)
         \/ Resolve(b, w) \/ RemoveData(b, w) \/ Forget(b, w) \/ Deleted(b, w)
  PROVE  Hosted'
<1>1. UNCHANGED <<up, open, deletes>>
  BY Zenon DEF Done, SaveOpen, SaveWrite, Push, Pushed, Forward, Forwarded, Reconcile, Adopt,
     GetTopic, Resolve, RemoveData, Forget, Deleted, history
<1>2. thread[b][w].pc \notin {"open", "emplace"}
  BY Zenon DEF Done, SaveOpen, SaveWrite, Push, Pushed, Forward, Forwarded, Reconcile, Adopt,
     GetTopic, Resolve, RemoveData, Forget, Deleted
<1>3. PICK next : thread' = [thread EXCEPT ![b][w] = next]
  BY Zenon DEF Done, SaveOpen, SaveWrite, Push, Pushed, Forward, Forwarded, Reconcile, Adopt,
     GetTopic, Resolve, RemoveData, Forget, Deleted, Goto, Respond, Ensured
<1>4. NothingDropped
  BY Zenon, <1>2, <1>3, OthersStay
<1>5. topics' = topics \/ topics' = [topics EXCEPT ![b] = DeleteTopic(topics[b], thread[b][w].job.topic)]
  BY Zenon DEF Done, SaveOpen, SaveWrite, Push, Pushed, Forward, Forwarded, Reconcile, Adopt,
     GetTopic, Resolve, RemoveData, Forget, Deleted
<1>6. ASSUME NEW c \in up', NEW t \in Topics, NEW p, HostedAt(topics'[c], c, t, p)
      PROVE  HostedAt(topics[c], c, t, p)
  <2>1. topics'[c] = topics[c] \/ topics'[c] = DeleteTopic(topics[c], thread[b][w].job.topic)
    BY Zenon, <1>1, <1>5 DEF Shaped
  <2>2. PICK topic : topic = thread[b][w].job.topic
    BY Zenon
  <2>3. CASE topics'[c] = DeleteTopic(topics[c], topic)
    <3>1. t \in DOMAIN topics[c] /\ topics'[c][t] = topics[c][t]
      BY Zenon, <1>6, <2>3 DEF HostedAt, DeleteTopic
    <3> QED
      BY Zenon, <1>6, <3>1 DEF HostedAt
  <2> QED
    BY ZenonT(30), <1>6, <2>1, <2>2, <2>3
<1> QED
  BY Zenon, <1>1, <1>4, <1>6, HostedStays

\* The steps that leave all tables, replicas and deletions alone.
LEMMA StillHosted ==
  ASSUME Hosted, NothingDropped, up \subseteq Brokers, UNCHANGED <<up, topics, open, deletes>>
  PROVE  Hosted'
<1>1. \A b \in up', t \in Topics : \A p :
        HostedAt(topics'[b], b, t, p) => HostedAt(topics[b], b, t, p)
  BY Zenon
<1>2. \A b \in up, t \in Topics \ deletes : \A p : <<t, p>> \in open[b] => <<t, p>> \in open'[b]
  BY Zenon
<1> QED
  BY Zenon, <1>1, <1>2, HostedStays

\* A rename redirects the other savers.
LEMMA RenameHosted ==
  ASSUME Shaped, Hosted, up \subseteq Brokers, NEW b \in Brokers, NEW w \in Threads,
         SaveRename(b, w)
  PROVE  Hosted'
<1>1. UNCHANGED <<up, topics, open, deletes>> /\ thread[b][w].pc = "rename"
  BY Zenon DEF SaveRename, history
<1>2. PICK me : thread' = [thread EXCEPT ![b] =
        [v \in Threads |-> IF v = w THEN me
                           ELSE IF @[v].at = "temp" THEN [@[v] EXCEPT !.at = "disk"] ELSE @[v]]]
  BY Zenon DEF SaveRename
<1>3. ASSUME NEW c \in Brokers, NEW v \in Threads, NEW t \in Topics, NEW p,
             Due(c, thread[c][v], t, p, open[c])
      PROVE  Due(c, thread'[c][v], t, p, open'[c]) \/ <<t, p>> \in open'[c]
  <2>1. ~(c = b /\ v = w)
    BY Zenon, <1>1, <1>3 DEF Due
  <2>2. PICK next : next = thread'[c][v]
    BY Zenon
  <2>3. next = thread[c][v] \/ next = [thread[c][v] EXCEPT !.at = "disk"]
    BY Zenon, <1>2, <2>1, <2>2 DEF Shaped
  <2>4. DOMAIN thread[c][v] = ThreadFields
    BY Zenon, ThreadRecord
  <2>5. /\ next.pc = thread[c][v].pc /\ next.topic = thread[c][v].topic
        /\ next.desc = thread[c][v].desc /\ next.part = thread[c][v].part
    BY Zenon, <2>3, <2>4 DEF ThreadFields
  <2> QED
    BY Zenon, <1>3, <2>2, <2>5, DueStays
<1>4. NothingDropped
  BY Zenon, <1>3 DEF NothingDropped
<1> QED
  BY Zenon, <1>1, <1>4, StillHosted

\* DeleteTopic closes replicas of a topic whose deletion was asked for.
LEMMA TakeHosted ==
  ASSUME Shaped, Tidy, Hosted, up \subseteq Brokers, NEW b \in Brokers, NEW w \in Threads,
         Take(b, w)
  PROVE  Hosted'
<1>1. /\ UNCHANGED <<up, topics, deletes>> /\ thread[b][w].pc = "idle" /\ w \in Workers
      /\ inbox[b][w] # <<>>
  BY Zenon DEF Take, history
<1>2. NothingDropped
  <2>1. CASE thread' = thread
    BY Zenon, <2>1, DueStays DEF NothingDropped
  <2>2. ASSUME NEW next, thread' = [thread EXCEPT ![b][w] = next] PROVE NothingDropped
    BY Zenon, <1>1, <2>2, OthersStay
  <2> QED
    BY <2>1, <2>2, Zenon DEF Take, Goto
<1>3. PICK req : req = Head(inbox[b][w])
  BY Zenon
<1>4. TidyRequest(req, deletes)
  <2>1. PICK queue : queue = inbox[b][w]
    BY Zenon
  <2>2. QueueShape(queue) /\ TidyQueue(queue, deletes) /\ queue # <<>> /\ req = Head(queue)
    BY Zenon, <1>1, <1>3, <2>1 DEF Shaped, Tidy, TidyQueues
  <2>3. 1 \in DOMAIN queue /\ req = queue[1]
    <3>1. Len(queue) \in Nat /\ DOMAIN queue = 1..Len(queue)
      BY Zenon, <2>2 DEF QueueShape
    <3> QED
      BY <2>2, <3>1
  <2> QED
    BY Zenon, <2>2, <2>3 DEF TidyQueue
<1>5. \/ open' = open
      \/ \E s : open' = [open EXCEPT ![b] = open[b] \ ({req.topic} \X s)] /\ req.kind = "delete"
  BY <1>3, Zenon DEF Take
<1>6. ASSUME NEW c \in up, NEW t \in Topics \ deletes, NEW p, <<t, p>> \in open[c]
      PROVE  <<t, p>> \in open'[c]
  <2>1. CASE open' = open
    BY Zenon, <1>6, <2>1
  <2>2. ASSUME NEW s, open' = [open EXCEPT ![b] = open[b] \ ({req.topic} \X s)], req.kind = "delete"
        PROVE  <<t, p>> \in open'[c]
    <3>1. t # req.topic
      BY Zenon, <1>4, <2>2 DEF TidyRequest
    <3>2. <<t, p>> \notin {req.topic} \X s
      BY Zenon, <3>1
    <3>3. open'[c] = open[c] \/ open'[c] = open[c] \ ({req.topic} \X s)
      BY Zenon, <2>2 DEF Tidy
    <3> QED
      BY Zenon, <1>6, <3>2, <3>3
  <2> QED
    BY Zenon, <1>5, <2>1, <2>2
<1>7. \A c \in up', t \in Topics : \A p :
        HostedAt(topics'[c], c, t, p) => HostedAt(topics[c], c, t, p)
  BY Zenon, <1>1
<1> QED
  BY Zenon, <1>1, <1>2, <1>6, <1>7, HostedStays

\* OpenLog: the partition that is opened next is the lowest of those to come.
LEMMA OpenLogHosted ==
  ASSUME Shaped, Agreed, Tidy, Hosted, up \subseteq Brokers, NEW b \in Brokers, NEW w \in Threads,
         OpenLog(b, w)
  PROVE  Hosted'
<1> DEFINE th == thread[b][w]
<1>0. UNCHANGED <<up, topics, open, deletes>> /\ th.pc = "open"
  BY Zenon DEF OpenLog, history
<1>1. th.topic \in Topics /\ th.part \in Int /\ DOMAIN th = ThreadFields
  BY Zenon, <1>0, TidyNow DEF TidyThread
<1>2. PICK due : due = ToOpen(b, th, open[b])
  BY Zenon
<1>3. PICK low, next, fresh : OpenLogMove(b, w, due, low, next, fresh)
  BY Zenon, <1>2, OpenLogMoves
<1>4. due \in SUBSET Nat
  <2>1. Len(th.desc) \in Nat
    BY Zenon, <1>1, DescCounts
  <2>2. due \subseteq 0..(Len(th.desc) - 1)
    BY Zenon, <1>2 DEF ToOpen
  <2> QED
    BY <2>1, <2>2
<1>5. due # {} => low \in due /\ \A r \in due : low <= r
  BY Zenon, <1>3 DEF OpenLogMove
<1>7. ASSUME NEW c \in Brokers, NEW v \in Threads, NEW t \in Topics, NEW p,
             Due(c, thread[c][v], t, p, open[c])
      PROVE  Due(c, thread'[c][v], t, p, open'[c]) \/ <<t, p>> \in open'[c]
  <2>1. CASE ~(c = b /\ v = w)
    <3>1. thread'[c][v] = thread[c][v]
      BY Zenon, <1>3, <2>1 DEF OpenLogMove, Shaped
    <3> QED
      BY Zenon, <1>7, <3>1, DueStays
  <2>2. CASE c = b /\ v = w
    <3>1. p \in due /\ th.topic = t
      BY Zenon, <1>0, <1>2, <1>7, <2>2 DEF Due
    <3>3. next = [th EXCEPT !.pc = "emplace", !.part = low, !.fresh = fresh]
      BY Zenon, <1>3, <3>1 DEF OpenLogMove
    <3>4. next.pc = "emplace" /\ next.part = low /\ next.topic = t /\ next.desc = th.desc
      BY Zenon, <1>1, <3>1, <3>3 DEF ThreadFields
    <3>5. thread'[b][w] = next
      BY Zenon, <1>3 DEF OpenLogMove, Shaped
    <3>6. p = low \/ p > low
      <4>1. p \in Nat /\ low \in Nat /\ low <= p
        BY Zenon, <1>4, <1>5, <3>1
      <4> QED
        BY <4>1
    <3>7. p > low => p \in ToOpen(b, next, open[b])
      BY Zenon, <1>2, <3>1, <3>4 DEF ToOpen
    <3>8. Due(b, next, t, p, open[b])
      BY Zenon, <3>4, <3>6, <3>7 DEF Due
    <3> QED
      BY Zenon, <1>0, <2>2, <3>5, <3>8
  <2> QED
    BY Zenon, <2>1, <2>2
<1>8. NothingDropped
  BY Zenon, <1>7 DEF NothingDropped
<1> QED
  BY Zenon, <1>0, <1>8, StillHosted

\* Emplace: the partition is open now, and the others are still to come.
LEMMA EmplaceHosted ==
  ASSUME Shaped, Tidy, Hosted, up \subseteq Brokers, NEW b \in Brokers, NEW w \in Threads,
         Emplace(b, w)
  PROVE  Hosted'
<1> DEFINE th == thread[b][w]
<1>0. UNCHANGED <<up, topics, deletes>> /\ th.pc = "emplace"
  BY Zenon DEF Emplace
<1>1. DOMAIN th = ThreadFields
  BY Zenon, TidyNow
<1>2. PICK tp : tp = <<th.topic, th.part>>
  BY Zenon
<1>3. (tp \in open[b] /\ open' = open) \/ open' = [open EXCEPT ![b] = open[b] \cup {tp}]
  BY <1>2, Zenon DEF Emplace
<1>4. tp \in open'[b] /\ \A c \in Brokers : open[c] \subseteq open'[c]
  BY Zenon, <1>3 DEF Tidy
<1>5. PICK clean : clean = [th EXCEPT !.fresh = FALSE]
  BY Zenon
<1>6. PICK next : next = Opening(b, clean, open'[b])
  BY Zenon
<1>7. thread' = [thread EXCEPT ![b][w] = next]
  BY <1>5, <1>6, Zenon DEF Emplace, Goto
<1>8. /\ DOMAIN clean = ThreadFields /\ clean.topic = th.topic /\ clean.desc = th.desc
      /\ clean.part = th.part
  BY Zenon, <1>1, <1>5 DEF ThreadFields
<1>9. ASSUME NEW c \in Brokers, NEW v \in Threads, NEW t \in Topics, NEW p,
             Due(c, thread[c][v], t, p, open[c])
      PROVE  Due(c, thread'[c][v], t, p, open'[c]) \/ <<t, p>> \in open'[c]
  <2>1. CASE ~(c = b /\ v = w)
    <3>1. thread'[c][v] = thread[c][v]
      BY Zenon, <1>7, <2>1 DEF Shaped
    <3> QED
      BY Zenon, <1>9, <3>1, DueStays
  <2>2. CASE c = b /\ v = w
    <3>1. th.topic = t /\ (p \in ToOpen(b, th, open[b]) \/ p = th.part)
      BY Zenon, <1>9, <2>2 DEF Due
    <3>2. CASE p = th.part
      BY Zenon, <1>2, <1>4, <2>2, <3>1, <3>2
    <3>3. CASE p \in ToOpen(b, th, open[b]) /\ <<t, p>> \notin open'[b]
      <4>1. p \in ToOpen(b, clean, open'[b])
        BY Zenon, <1>8, <3>1, <3>3 DEF ToOpen
      <4>2. next = [clean EXCEPT !.pc = "open"]
        BY Zenon, <1>6, <4>1 DEF Opening
      <4>3. /\ next.pc = "open" /\ next.topic = t /\ next.desc = clean.desc
            /\ next.part = clean.part
        BY Zenon, <1>8, <3>1, <4>2 DEF ThreadFields
      <4>4. p \in ToOpen(b, next, open'[b])
        BY Zenon, <1>8, <3>1, <4>1, <4>3 DEF ToOpen
      <4>5. Due(b, next, t, p, open'[b])
        BY Zenon, <4>3, <4>4 DEF Due
      <4>6. thread'[b][w] = next
        BY Zenon, <1>7 DEF Shaped
      <4> QED
        BY Zenon, <2>2, <4>5, <4>6
    <3> QED
      BY Zenon, <2>2, <3>1, <3>2, <3>3
  <2> QED
    BY Zenon, <2>1, <2>2
<1>10. NothingDropped
  BY Zenon, <1>9 DEF NothingDropped
<1>11. \A c \in up, t \in Topics \ deletes : \A p : <<t, p>> \in open[c] => <<t, p>> \in open'[c]
  BY Zenon, <1>4
<1>12. \A c \in up', t \in Topics : \A p :
         HostedAt(topics'[c], c, t, p) => HostedAt(topics[c], c, t, p)
  BY Zenon, <1>0
<1> QED
  BY Zenon, <1>0, <1>10, <1>11, <1>12, HostedStays

\* A partition's number is one.
LEMMA PlacedNumber ==
  ASSUME NEW t, NEW desc, Placed(t, desc), NEW p \in 0..(Len(desc) - 1)
  PROVE  p \in Nat
<1>1. Len(desc) \in Nat
  BY Zenon, PlacedTells
<1> QED
  BY <1>1

\* So is that of a partition a table assigns.
LEMMA HostedNumber ==
  ASSUME Agreed, NEW b \in Brokers, NEW t \in Topics, NEW p, HostedAt(topics[b], b, t, p)
  PROVE  p \in Nat
<1>1. PICK desc : desc = topics[b][t]
  BY Zenon
<1>2. TableSays(topics[b], t, desc)
  BY Zenon, <1>1 DEF HostedAt, TableSays
<1>3. Says(t, desc)
  BY Zenon, <1>2 DEF Says
<1>4. Placed(t, desc)
  BY Zenon, <1>3 DEF Agreed
<1>5. p \in 0..(Len(desc) - 1)
  BY Zenon, <1>1 DEF HostedAt
<1> QED
  BY Zenon, <1>4, <1>5, PlacedNumber

\* The thread that puts a topic in the table begins to open it from the first
\* partition on.
LEMMA EntersHosted ==
  ASSUME Shaped, Tidy, Hosted, up \subseteq Brokers, NEW b \in Brokers, NEW w \in Threads,
         Agreed', UNCHANGED <<up, open, deletes>>, NEW topic, NEW desc,
         topics' = topics \/ topics' = [topics EXCEPT ![b] = UpsertTopic(topics[b], topic, desc)],
         NEW th, DOMAIN th = ThreadFields, th.topic = topic, th.desc = desc, th.part = -1,
         NEW next, next = Opening(b, th, open[b]), thread' = [thread EXCEPT ![b][w] = next],
         thread[b][w].pc \notin {"open", "emplace"}
  PROVE  Hosted'
<1>1. NothingDropped
  BY Zenon, OthersStay
<1>2. CASE topics' = topics
  BY Zenon, <1>1, <1>2, StillHosted
<1>3. CASE topics' = [topics EXCEPT ![b] = UpsertTopic(topics[b], topic, desc)]
  <2>1. ASSUME NEW c \in up, NEW t \in Topics \ deletes, NEW p, HostedAt(topics'[c], c, t, p)
        PROVE  <<t, p>> \in open'[c] \/ \E v \in Threads : Due(c, thread'[c][v], t, p, open'[c])
    <3>1. c \in Brokers /\ t \in Topics
      BY Zenon
    <3>2. CASE HostedAt(topics[c], c, t, p)
      <4>1. Awaited(c, t, p)
        BY Zenon, <3>2 DEF Hosted
      <4>2. CASE <<t, p>> \in open[c]
        BY Zenon, <4>2
      <4>3. ASSUME NEW v \in Threads, Due(c, thread[c][v], t, p, open[c])
            PROVE  <<t, p>> \in open'[c] \/ \E u \in Threads : Due(c, thread'[c][u], t, p, open'[c])
        BY Zenon, <1>1, <3>1, <4>3 DEF NothingDropped
      <4> QED
        BY Zenon, <4>1, <4>2, <4>3 DEF Awaited
    <3>3. CASE ~HostedAt(topics[c], c, t, p)
      <4>1. topics'[c] = topics[c] \/ (c = b /\ topics'[c] = UpsertTopic(topics[b], topic, desc))
        BY Zenon, <1>3, <3>1 DEF Shaped
      <4>2. c = b /\ topics'[c] = UpsertTopic(topics[b], topic, desc)
        BY Zenon, <2>1, <3>3, <4>1
      <4>3. t = topic
        BY Zenon, <2>1, <3>3, <4>2 DEF HostedAt, UpsertTopic
      <4>4. topics'[c][t] = desc
        BY Zenon, <4>2, <4>3 DEF UpsertTopic
      <4>5. p \in 0..(Len(desc) - 1) /\ HasReplica(desc, p, b)
        BY Zenon, <2>1, <4>2, <4>4 DEF HostedAt
      <4>6. p > th.part
        <5>1. p \in Nat
          <6>1. TableSays(topics'[c], t, desc)
            BY Zenon, <2>1, <4>4 DEF HostedAt, TableSays
          <6>2. Says(t, desc)'
            BY Zenon, <3>1, <6>1 DEF Says
          <6>3. Placed(t, desc)
            BY Zenon, <3>1, <6>2 DEF Agreed
          <6> QED
            BY Zenon, <4>5, <6>3, PlacedNumber
        <5> QED
          BY <5>1
      <4>7. CASE <<t, p>> \notin open[b]
        <5>1. p \in ToOpen(b, th, open[b])
          BY Zenon, <4>3, <4>5, <4>6, <4>7 DEF ToOpen
        <5>2. next = [th EXCEPT !.pc = "open"]
          BY Zenon, <5>1 DEF Opening
        <5>3. /\ next.pc = "open" /\ next.topic = t /\ next.desc = th.desc
              /\ next.part = th.part
          BY Zenon, <4>3, <5>2 DEF ThreadFields
        <5>4. p \in ToOpen(b, next, open[b])
          BY Zenon, <4>3, <5>1, <5>3 DEF ToOpen
        <5>5. Due(b, next, t, p, open[b])
          BY Zenon, <5>3, <5>4 DEF Due
        <5>6. thread'[b][w] = next
          BY Zenon DEF Shaped
        <5> QED
          BY ZenonT(30), <4>2, <5>5, <5>6
      <4> QED
        BY Zenon, <4>2, <4>7
    <3> QED
      BY Zenon, <3>2, <3>3
  <2> QED
    BY Zenon, <2>1 DEF Hosted, Awaited
<1> QED
  BY Zenon, <1>2, <1>3

\* PartitionsHostedBy, by partition.
LEMMA HostedPair ==
  ASSUME NEW table, NEW b, NEW t, NEW p
  PROVE  HostedAt(table, b, t, p) <=> <<t, p>> \in PartitionsHostedBy(table, b)
<1> DEFINE all == UNION {{s} \X (0..PartitionCount(table[s]) - 1) : s \in DOMAIN table}
<1>1. <<t, p>> \in all <=> t \in DOMAIN table /\ p \in 0..(Len(table[t]) - 1)
  BY DEF PartitionCount
<1>2. <<t, p>> \in PartitionsHostedBy(table, b) <=>
        <<t, p>> \in all /\ HasReplica(table[<<t, p>>[1]], <<t, p>>[2], b)
  BY Zenon DEF PartitionsHostedBy
<1>3. <<t, p>>[1] = t /\ <<t, p>>[2] = p
  OBVIOUS
<1> QED
  BY Zenon, <1>1, <1>2, <1>3 DEF HostedAt

\* Upsert,
LEMMA UpsertHosted ==
  ASSUME Shaped, Tidy, Hosted, up \subseteq Brokers, Agreed', NEW b \in Brokers, NEW w \in Threads,
         Upsert(b, w)
  PROVE  Hosted'
<1> DEFINE th == thread[b][w]
<1>0. UNCHANGED <<up, deletes, open>> /\ th.pc = "upsert"
  BY Zenon DEF Upsert, history
<1>1. DOMAIN th = ThreadFields /\ th.part = -1
  BY Zenon, <1>0, TidyNow DEF TidyThread, Early
<1>2. PICK list : list = DeleteTopic(th.list, th.topic)
  BY Zenon
<1>3. PICK cut : cut = [th EXCEPT !.adopted = TRUE, !.list = list]
  BY Zenon
<1>4. PICK next : next = Opening(b, cut, open[b])
  BY Zenon
<1>5. PICK topic, desc : topic = th.topic /\ desc = th.desc
  BY Zenon
<1>6. /\ topics' = [topics EXCEPT ![b] = UpsertTopic(topics[b], topic, desc)]
      /\ thread' = [thread EXCEPT ![b][w] = next]
  BY <1>2, <1>3, <1>4, <1>5, Zenon DEF Upsert, Goto
<1>7. DOMAIN cut = ThreadFields /\ cut.topic = topic /\ cut.desc = desc /\ cut.part = -1
  BY Zenon, <1>1, <1>3, <1>5 DEF ThreadFields
<1>8. thread[b][w].pc \notin {"open", "emplace"}
  BY Zenon, <1>0
<1> QED
  BY Zenon, <1>0, <1>4, <1>6, <1>7, <1>8, EntersHosted

\* and Create.
LEMMA CreateHosted ==
  ASSUME Shaped, Tidy, Hosted, up \subseteq Brokers, Agreed', NEW b \in Brokers, NEW w \in Threads,
         Create(b, w)
  PROVE  Hosted'
<1>0. UNCHANGED <<up, deletes, open>> /\ thread[b][w].pc = "create"
  BY Zenon DEF Create
<1>1. DOMAIN thread[b][w] = ThreadFields /\ thread[b][w].part = -1
  BY Zenon, <1>0, TidyNow DEF TidyThread, Early
<1>2. thread[b][w].pc \notin {"open", "emplace"}
  BY Zenon, <1>0
<1>3. PICK topic : topic = thread[b][w].job.topic
  BY Zenon
<1>4. PICK desc, made, th, next, code : CreateMove(b, w, topic, desc, made, th, next, code)
  BY Zenon, <1>3, CreateMoves
<1>5. CASE Respond(b, w, code) /\ UNCHANGED topics
  <2>1. thread' = [thread EXCEPT ![b][w] = IdleThread]
    BY Zenon, <1>5 DEF Respond
  <2>2. NothingDropped
    BY Zenon, <1>2, <2>1, OthersStay
  <2> QED
    BY Zenon, <1>0, <1>5, <2>2, StillHosted
<1>6. CASE /\ thread' = [thread EXCEPT ![b][w] = next]
           /\ topics' = topics \/ topics' = [topics EXCEPT ![b] = UpsertTopic(topics[b], topic, desc)]
  <2>1. DOMAIN th = ThreadFields /\ th.topic = topic /\ th.desc = desc /\ th.part = -1
    BY Zenon, <1>1, <1>4 DEF CreateMove, ThreadFields
  <2>2. next = Opening(b, th, open[b])
    BY Zenon, <1>4 DEF CreateMove
  <2> QED
    BY Zenon, <1>0, <1>2, <1>6, <2>1, <2>2, EntersHosted
<1> QED
  BY Zenon, <1>4, <1>5, <1>6 DEF CreateMove

\* A timeout and a kill take a caller away from a request, and nothing else from
\* the thread that executes it.
LEMMA TimeoutHosted ==
  ASSUME Shaped, Hosted, up \subseteq Brokers, NEW c \in Callers, Timeout(c)
  PROVE  Hosted'
<1>1. UNCHANGED <<up, topics, open, deletes>>
  BY Zenon DEF Timeout, history
<1>2. PICK b \in up, w \in Workers : thread' = [thread EXCEPT ![b][w].job = Disowned(@, {c})]
  BY Zenon DEF Timeout
<1>3. ASSUME NEW d \in Brokers, NEW v \in Threads, NEW t \in Topics, NEW p,
             Due(d, thread[d][v], t, p, open[d])
      PROVE  Due(d, thread'[d][v], t, p, open'[d]) \/ <<t, p>> \in open'[d]
  <2>1. PICK next : next = thread'[d][v]
    BY Zenon
  <2>2. next = thread[d][v] \/ next = [thread[d][v] EXCEPT !.job = Disowned(thread[d][v].job, {c})]
    BY Zenon, <1>2, <2>1 DEF Shaped
  <2>3. DOMAIN thread[d][v] = ThreadFields
    BY Zenon, ThreadRecord
  <2>4. /\ next.pc = thread[d][v].pc /\ next.topic = thread[d][v].topic
        /\ next.desc = thread[d][v].desc /\ next.part = thread[d][v].part
    BY Zenon, <2>2, <2>3 DEF ThreadFields
  <2> QED
    BY Zenon, <1>3, <2>1, <2>4, DueStays
<1>4. NothingDropped
  BY Zenon, <1>3 DEF NothingDropped
<1> QED
  BY Zenon, <1>1, <1>4, StillHosted

\* The killed broker's own tasks are gone with its table.
LEMMA KillHosted ==
  ASSUME Shaped, Tidy, Hosted, up \subseteq Brokers, NEW b \in Brokers, Kill(b)
  PROVE  Hosted'
<1>1. /\ UNCHANGED deletes /\ up' = up \ {b} /\ topics' = [topics EXCEPT ![b] = <<>>]
      /\ open' = [open EXCEPT ![b] = {}]
  BY Zenon DEF Kill, history
<1>2. PICK own : thread' = [d \in Brokers |-> [w \in Threads |->
                              IF d = b THEN IdleThread
                              ELSE [thread[d][w] EXCEPT !.job = Disowned(@, own)]]]
  BY Zenon DEF Kill
<1>3. ASSUME NEW d \in up', NEW t \in Topics \ deletes', NEW p, HostedAt(topics'[d], d, t, p)
      PROVE  <<t, p>> \in open'[d] \/ \E w \in Threads : Due(d, thread'[d][w], t, p, open'[d])
  <2>1. d \in up /\ d \in Brokers /\ d # b /\ t \in Topics \ deletes
    BY Zenon, <1>1
  <2>2. topics'[d] = topics[d] /\ open'[d] = open[d]
    BY Zenon, <1>1, <2>1 DEF Shaped, Tidy
  <2>3. HostedAt(topics[d], d, t, p)
    BY Zenon, <1>3, <2>2
  <2>4. Awaited(d, t, p)
    BY Zenon, <2>1, <2>3 DEF Hosted
  <2>5. ASSUME NEW w \in Threads, Due(d, thread[d][w], t, p, open[d])
        PROVE  <<t, p>> \in open'[d] \/ Due(d, thread'[d][w], t, p, open'[d])
    <3>1. PICK next : next = thread'[d][w]
      BY Zenon
    <3>2. next = [thread[d][w] EXCEPT !.job = Disowned(thread[d][w].job, own)]
      BY Zenon, <1>2, <2>1, <3>1
    <3>3. DOMAIN thread[d][w] = ThreadFields
      BY Zenon, <2>1, ThreadRecord
    <3>4. /\ next.pc = thread[d][w].pc /\ next.topic = thread[d][w].topic
          /\ next.desc = thread[d][w].desc /\ next.part = thread[d][w].part
      BY Zenon, <3>2, <3>3 DEF ThreadFields
    <3> QED
      BY Zenon, <2>5, <3>1, <3>4, DueStays
  <2> QED
    BY Zenon, <2>2, <2>4, <2>5 DEF Awaited
<1> QED
  BY Zenon, <1>3 DEF Hosted, Awaited

\* OpenHostedPartitions opens at a start all that the file assigns.
LEMMA RestartHosted ==
  ASSUME Shaped, Tidy, Hosted, up \subseteq Brokers, NEW b \in Brokers, Restart(b)
  PROVE  Hosted'
<1>1. /\ UNCHANGED <<deletes, thread>> /\ up' = up \cup {b} /\ topics' = [topics EXCEPT ![b] = disk[b]]
      /\ open' = [open EXCEPT ![b] = PartitionsHostedBy(disk[b], b)]
  BY Zenon DEF Restart, history
<1>2. ASSUME NEW d \in up', NEW t \in Topics \ deletes', NEW p, HostedAt(topics'[d], d, t, p)
      PROVE  <<t, p>> \in open'[d] \/ \E w \in Threads : Due(d, thread'[d][w], t, p, open'[d])
  <2>1. CASE d = b
    <3>1. topics'[d] = disk[d] /\ open'[d] = PartitionsHostedBy(disk[d], d)
      BY Zenon, <1>1, <2>1 DEF Shaped, Tidy
    <3>2. HostedAt(disk[d], d, t, p)
      BY Zenon, <1>2, <3>1
    <3>3. <<t, p>> \in PartitionsHostedBy(disk[d], d)
      BY Zenon, <3>2, HostedPair
    <3> QED
      BY Zenon, <3>1, <3>3
  <2>2. CASE d # b
    <3>1. d \in up /\ d \in Brokers /\ t \in Topics \ deletes
      BY Zenon, <1>1, <2>2
    <3>2. topics'[d] = topics[d] /\ open'[d] = open[d] /\ thread' = thread
      BY Zenon, <1>1, <2>2, <3>1 DEF Shaped, Tidy
    <3>3. HostedAt(topics[d], d, t, p)
      BY Zenon, <1>2, <3>2
    <3> QED
      BY Zenon, <3>1, <3>2, <3>3 DEF Hosted, Awaited
  <2> QED
    BY Zenon, <2>1, <2>2
<1> QED
  BY Zenon, <1>2 DEF Hosted, Awaited

\* The clients change nothing of it.
LEMMA ClientHosted ==
  ASSUME Hosted, up \subseteq Brokers, ClientStep
  PROVE  Hosted'
<1>1. UNCHANGED <<up, topics, open, thread>>
  BY Zenon DEF ClientStep, Send, Flush, Attempt, Answered, AdminCall, AdminAnswered, clusterVars
<1>2. deletes \subseteq deletes'
  BY Zenon DEF ClientStep, Send, Flush, Attempt, Answered, AdminCall, AdminAnswered, clusterVars,
     history
<1> QED
  BY Zenon, <1>1, <1>2 DEF Hosted, Awaited

-----------------------------------------------------------------------------
\* The threads.
LEMMA ThreadsHosted ==
  ASSUME Running, PlacementInv, PlacementInv', Tidy, Hosted, NEW b \in Brokers, NEW w \in Threads,
         ThreadStep(b, w)
  PROVE  Tidy' /\ Hosted'
<1>1. Shaped /\ Agreed /\ Agreed' /\ up \subseteq Brokers /\ TempShaped
  BY Zenon DEF PlacementInv, Running
<1>2. CASE Create(b, w)
  BY Zenon, <1>1, <1>2, CreateTidy, CreateHosted
<1>3. CASE OpenLog(b, w)
  BY Zenon, <1>1, <1>3, OpeningKeepsTidy, OpenLogHosted
<1>4. CASE Emplace(b, w)
  BY Zenon, <1>1, <1>4, OpeningKeepsTidy, EmplaceHosted
<1>5. CASE SaveRename(b, w)
  BY Zenon, <1>1, <1>5, RenameTidy, RenameHosted
<1>6. CASE Upsert(b, w)
  BY Zenon, <1>1, <1>6, UpsertTidy, UpsertHosted
<1>7. CASE Take(b, w)
  BY Zenon, <1>1, <1>7, TakeTidy, TakeHosted
<1>8. CASE Done(b, w) \/ GetTopic(b, w) \/ Deleted(b, w)
  <2>1. UNCHANGED <<topics, disk, inbox, deletes, open>>
    BY <1>8, Zenon DEF Done, GetTopic, Deleted, disks, history
  <2>2. \E code : Respond(b, w, code) \/ Ensured(b, w)
    BY <1>8, Zenon DEF Done, GetTopic, Deleted
  <2>3. Tidy'
    BY Zenon, <1>1, <2>1, <2>2, EndsTidy
  <2> QED
    BY Zenon, <1>1, <1>8, <2>3, OtherStepsHosted
<1>9. CASE SaveOpen(b, w) \/ SaveWrite(b, w)
  BY Zenon, <1>1, <1>9, SavingTidy, OtherStepsHosted
<1>10. CASE Push(b, w) \/ Pushed(b, w)
  BY Zenon, <1>1, <1>10, PushTidy, OtherStepsHosted
<1>11. CASE Forward(b, w) \/ Forwarded(b, w)
  BY Zenon, <1>1, <1>11, ForwardTidy, OtherStepsHosted
<1>12. CASE Reconcile(b, w) \/ Adopt(b, w)
  BY Zenon, <1>1, <1>12, AdoptTidy, OtherStepsHosted
<1>13. CASE Resolve(b, w)
  BY Zenon, <1>1, <1>13, ResolveTidy, OtherStepsHosted
<1>14. CASE RemoveData(b, w) \/ Forget(b, w)
  BY Zenon, <1>1, <1>14, ForgetTidy, OtherStepsHosted
<1> QED
  BY Zenon, <1>2, <1>3, <1>4, <1>5, <1>6, <1>7, <1>8, <1>9, <1>10, <1>11, <1>12, <1>13, <1>14
     DEF ThreadStep

\* Every step.
LEMMA ReplicasStep ==
  ASSUME Running, PlacementInv, PlacementInv', Tidy, Hosted, [Next]_vars
  PROVE  Tidy' /\ Hosted'
<1>1. Shaped /\ up \subseteq Brokers
  BY Zenon DEF PlacementInv, Running
<1>2. CASE UNCHANGED vars
  <2>1. UNCHANGED <<up, topics, disk, open, thread, inbox, deletes>>
    BY <1>2, Zenon DEF vars, clusterVars, disks, calls, history
  <2> QED
    BY Zenon, <2>1 DEF Tidy, Hosted, Awaited
<1>3. ASSUME NEW b \in Brokers, NEW w \in Threads, ThreadStep(b, w) PROVE Tidy' /\ Hosted'
  BY Zenon, <1>3, ThreadsHosted
<1>4. ASSUME NEW c \in Callers, Timeout(c) PROVE Tidy' /\ Hosted'
  BY Zenon, <1>1, <1>4, TimeoutTidy, TimeoutHosted
<1>5. ASSUME NEW b \in Brokers, Kill(b) PROVE Tidy' /\ Hosted'
  BY Zenon, <1>1, <1>5, KillTidy, KillHosted
<1>6. ASSUME NEW b \in Brokers, Restart(b) PROVE Tidy' /\ Hosted'
  BY Zenon, <1>1, <1>6, RestartTidy, RestartHosted
<1>7. CASE ClientStep
  BY Zenon, <1>1, <1>7, ClientTidy, ClientHosted
<1> QED
  BY <1>2, <1>3, <1>4, <1>5, <1>6, <1>7, Zenon DEF Next, BrokerStep

\* At the start no table assigns anything.
LEMMA ReplicasStart ==
  ASSUME Init
  PROVE  Tidy /\ Hosted
<1>1. /\ topics = [b \in Brokers |-> <<>>] /\ disk = [b \in Brokers |-> <<>>] /\ up = Brokers
      /\ open = [b \in Brokers |-> {}] /\ deletes = {}
      /\ inbox = [b \in Brokers |-> [w \in Workers |-> <<>>]]
      /\ thread = [b \in Brokers |-> [w \in Threads |-> IdleThread]]
  BY Zenon DEF Init, ClusterInit
<1>2. DOMAIN open = Brokers /\ TidyTables(topics) /\ TidyTables(disk)
  BY Zenon, <1>1, EmptyTable DEF TidyTables
<1>3. TidyThreads(thread, deletes)
  BY Zenon, <1>1, IdleTidy DEF TidyThreads
<1>4. TidyQueues(inbox, deletes)
  BY Zenon, <1>1, EmptyTable DEF TidyQueues, TidyQueue
<1>5. Hosted
  BY Zenon, <1>1, EmptyTable DEF Hosted, HostedAt
<1> QED
  BY Zenon, <1>2, <1>3, <1>4, <1>5 DEF Tidy

\* A partition that is due is one its thread has not passed.
LEMMA DueIsOpening ==
  ASSUME Shaped, Tidy, NEW b \in Brokers, NEW t, NEW p \in Nat, NEW w \in Threads,
         Due(b, thread[b][w], t, p, open[b])
  PROVE  IsOpening(b, <<t, p>>)
<1>1. thread[b][w].part \in Int
  BY Zenon, TidyNow DEF TidyThread, Due
<1>2. p > thread[b][w].part \/ p = thread[b][w].part
  BY Zenon DEF Due, ToOpen
<1>3. thread[b][w].part <= p
  BY <1>1, <1>2
<1>4. <<t, p>>[1] = t /\ <<t, p>>[2] = p
  OBVIOUS
<1> QED
  BY Zenon, <1>3, <1>4 DEF IsOpening, Due

\* What is due is being opened.
LEMMA HostedIsOpen ==
  ASSUME Running, PlacementInv, Tidy, Hosted
  PROVE  HostedOpen
<1>1. Shaped /\ Agreed /\ up \subseteq Brokers
  BY Zenon DEF PlacementInv, Running
<1>2. ASSUME NEW b \in up, NEW tp \in PartitionsHostedBy(topics[b], b), tp[1] \notin deletes
      PROVE  tp \in open[b] \/ IsOpening(b, tp)
  <2>1. PICK t, p : tp = <<t, p>>
    BY DEF PartitionsHostedBy
  <2>2. tp[1] = t
    BY <2>1
  <2>3. HostedAt(topics[b], b, t, p)
    BY Zenon, <2>1, HostedPair
  <2>4. b \in Brokers /\ t \in Topics \ deletes /\ t \in Topics
    BY Zenon, <1>1, <1>2, <2>2, <2>3 DEF HostedAt, Tidy, TidyTables
  <2>5. p \in Nat
    BY Zenon, <1>1, <2>3, <2>4, HostedNumber
  <2>6. Awaited(b, t, p)
    BY Zenon, <2>3, <2>4 DEF Hosted
  <2> QED
    BY Zenon, <1>1, <2>1, <2>4, <2>5, <2>6, DueIsOpening DEF Awaited
<1> QED
  BY Zenon, <1>2 DEF HostedOpen

\* A running broker has open, or is about to open, every partition its table assigns
\* to it, unless the topic is being deleted: after CreateTopic, after UpsertTopic
\* and after a start alike, with any number of threads opening partitions at the
\* same time, and whatever is killed or times out.
THEOREM HostedPartitionsOpen == Spec => []HostedOpen
<1>1. Init => Running /\ PlacementInv /\ Tidy /\ Hosted
  BY Zenon, PlacementStarts, ReplicasStart
<1>2. Running /\ [Next]_vars => Running'
  BY Zenon, RunningKept
<1>3. Running /\ PlacementInv /\ [Next]_vars => PlacementInv'
  BY Zenon, PlacementKept
<1>4. Running /\ PlacementInv /\ PlacementInv' /\ Tidy /\ Hosted /\ [Next]_vars => Tidy' /\ Hosted'
  BY Zenon, ReplicasStep
<1>5. Running /\ PlacementInv /\ Tidy /\ Hosted => HostedOpen
  BY Zenon, HostedIsOpen
<1> QED
  BY <1>1, <1>2, <1>3, <1>4, <1>5, PTL DEF Spec
=============================================================================
