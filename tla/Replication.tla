---------------------------- MODULE Replication ----------------------------
(***************************************************************************)
(* Replication of one partition: the leader's produce path (worker         *)
(* thread), flusher, maintenance thread and one replication sender per     *)
(* follower, the followers' REPLICATE handler and flushers, and the        *)
(* failures they meet: lost connections, requests that are executed after  *)
(* their sender gave up, broker crashes and power loss.                    *)
(*                                                                         *)
(* A log is the sequence of its records since offset 0; retention moves    *)
(* the leader's log start and leaves the sequence as it is.  The first     *)
(* disk[b] records of log[b] are on stable media, whatever flushed[b], the *)
(* offset the broker reports, says.                                        *)
(***************************************************************************)
EXTENDS PartitionReplica, Sequences

CONSTANTS Modes,         \* acknowledgement modes the producers use
          MayCrash,      \* brokers whose process may be killed
          MayLosePower,  \* brokers whose machine may lose power
          Retention,     \* whether the leader's retention deletes records
          MaxRecords,    \* bound: records ever produced
          MaxBatch,      \* bound: records in one produce or REPLICATE request
          MaxFaults      \* bound: crashes, stops and network faults

ASSUME ConstantsAssumption ==
  /\ Modes \subseteq AckMode
  /\ MayCrash \subseteq Replicas /\ MayLosePower \subseteq Replicas
  /\ Retention \in BOOLEAN
  /\ MaxRecords \in Nat /\ MaxBatch \in Nat /\ MaxFaults \in Nat

VARIABLES
  log,        \* log[b]: the records broker b holds, in the order of offsets
  logStart,   \* the leader's log start offset
  disk,       \* disk[b]: how many records of log[b] are on stable media
  flushed,    \* flushed[b]: PartitionLog::flushed_offset_
  flusher,    \* flusher[b]: where the flusher thread of b is
  up,         \* up[b]: whether the process of b runs
  fol,        \* PartitionReplica::followers_ of the leader
  hwm,        \* PartitionReplica::high_water_mark_ of the leader
  waiters,    \* PartitionReplica::waiters_ of the leader
  worker,     \* where the worker thread of the leader is in ExecuteProduce
  sender,     \* sender[f]: the replication sender of the leader for f
  late,       \* late[f]: requests still on their way that no sender awaits
  produced,   \* records produced so far; the next record is produced + 1
  acked,      \* history: the produce requests answered with success
  faults      \* faults so far

storage == <<log, logStart, disk, flushed, flusher>>
replica == <<fol, hwm, waiters, acked>>
vars == <<storage, replica, up, worker, sender, late, produced, faults>>

LogEnd(b) == Len(log[b])

Record == 1..MaxRecords
Request == [base : Nat, recs : Seq(Record)]
NoRequest == [base |-> 0, recs |-> <<>>]
NoResponse == [leo |-> 0, flushed |-> 0]

IdleSender == [pc |-> "idle", connected |-> FALSE, req |-> NoRequest, resp |-> NoResponse]
IdleWorker == [pc |-> "idle", size |-> 0, mode |-> "none", last |-> 0]
IdleFlusher == [pc |-> "idle", target |-> 0]

Init ==
  /\ log = [b \in Replicas |-> <<>>]
  /\ logStart = 0
  /\ disk = [b \in Replicas |-> 0]
  /\ flushed = [b \in Replicas |-> 0]
  /\ flusher = [b \in Replicas |-> IdleFlusher]
  /\ up = [b \in Replicas |-> TRUE]
  /\ fol = [f \in Followers |-> NewFollower]
  /\ hwm = 0
  /\ waiters = {}
  /\ worker = IdleWorker
  /\ sender = [f \in Followers |-> IdleSender]
  /\ late = [f \in Followers |-> {}]
  /\ produced = 0
  /\ acked = {}
  /\ faults = 0

-----------------------------------------------------------------------------
(***************************************************************************)
(* PartitionReplica, one critical section: the high-water mark is          *)
(* recomputed and every waiter whose condition holds is completed.         *)
(***************************************************************************)
Acknowledged(ws) ==
  {[offset |-> w.offset, mode |-> w.mode, rec |-> log[Leader][w.offset + 1]] : w \in ws}

CompleteWith(ws, newFol) ==
  LET done == SatisfiedWaiters(ws, LogEnd(Leader), flushed[Leader], newFol)
  IN  /\ fol' = newFol
      /\ waiters' = ws \ done
      /\ acked' = acked \cup Acknowledged(done)

Recomputed(newFol) == RecomputeHighWaterMark(hwm, LogEnd(Leader), newFol)

OnLeaderAppend == hwm' = Recomputed(fol) /\ CompleteWith(waiters, fol)

CompleteSatisfiedWaiters == hwm' = Recomputed(fol) /\ CompleteWith(waiters, fol)

AddWaiter(w) == CompleteWith(waiters \cup {w}, fol) /\ UNCHANGED hwm

OnFollowerProgress(f, end, flush) ==
  LET newFol == WithProgress(fol, f, end, flush)
  IN  hwm' = Recomputed(newFol) /\ CompleteWith(waiters, newFol)

MarkFollowerOutOfSync(f) ==
  IF fol[f].inSync
  THEN LET newFol == WithoutSync(fol, f)
       IN  hwm' = Recomputed(newFol) /\ CompleteWith(waiters, newFol)
  ELSE UNCHANGED replica
-----------------------------------------------------------------------------
(***************************************************************************)
(* Broker::ExecuteProduce on the leader's worker thread.  The in-sync      *)
(* check, the append, OnLeaderAppend and AddWaiter are separate steps:     *)
(* flusher, senders and maintenance run in between.                        *)
(***************************************************************************)
ProduceCheck(n, mode) ==
  /\ up[Leader] /\ worker.pc = "idle"
  /\ produced + n <= MaxRecords
  /\ mode = "quorum" => InSyncReplicas(fol) >= QuorumSize
  /\ worker' = [IdleWorker EXCEPT !.pc = "append", !.size = n, !.mode = mode]
  /\ UNCHANGED <<storage, replica, up, sender, late, produced, faults>>

NextRecords(n) == [i \in 1..n |-> produced + i]

\* log().AppendAssigningOffsets
ProduceAppend ==
  /\ up[Leader] /\ worker.pc = "append"
  /\ log' = [log EXCEPT ![Leader] = @ \o NextRecords(worker.size)]
  /\ produced' = produced + worker.size
  /\ worker' = [worker EXCEPT !.pc = "appended", !.last = LogEnd(Leader) + worker.size - 1]
  /\ UNCHANGED <<logStart, disk, flushed, flusher, replica, up, sender, late, faults>>

ProduceNotify ==
  /\ up[Leader] /\ worker.pc = "appended"
  /\ OnLeaderAppend
  /\ worker' = [worker EXCEPT !.pc = "wait"]
  /\ UNCHANGED <<storage, up, sender, late, produced, faults>>

ProduceWait ==
  /\ up[Leader] /\ worker.pc = "wait"
  /\ AddWaiter([offset |-> worker.last, mode |-> worker.mode])
  /\ worker' = IdleWorker
  /\ UNCHANGED <<storage, up, sender, late, produced, faults>>

(***************************************************************************)
(* ExpireWaiters on the maintenance thread.  Deadlines are the producers'  *)
(* choice, so any of the waiters may be due.                               *)
(***************************************************************************)
ExpireWaiters ==
  /\ up[Leader]
  /\ \E due \in SUBSET waiters : due # {} /\ waiters' = waiters \ due
  /\ UNCHANGED <<storage, fol, hwm, acked, up, worker, sender, late, produced, faults>>
-----------------------------------------------------------------------------
(***************************************************************************)
(* PartitionManager::FlushDuePartitions on the flusher thread of broker b. *)
(* Flush captures its target before the fsync and publishes it after.      *)
(***************************************************************************)
NeedsFlush(b) == LogEnd(b) > flushed[b]

FlushStart(b) ==
  /\ up[b] /\ flusher[b].pc = "idle" /\ NeedsFlush(b)
  /\ flusher' = [flusher EXCEPT ![b] = [pc |-> "sync", target |-> LogEnd(b)]]
  /\ UNCHANGED <<log, logStart, disk, flushed, replica, up, worker, sender, late, produced, faults>>

FlushSync(b) ==
  /\ up[b] /\ flusher[b].pc = "sync"
  /\ disk' = [disk EXCEPT ![b] = LargerOf(@, flusher[b].target)]
  /\ flushed' = [flushed EXCEPT ![b] = flusher[b].target]
  /\ flusher' = [flusher EXCEPT ![b] = IF b = Leader THEN [@ EXCEPT !.pc = "complete"]
                                                     ELSE IdleFlusher]
  /\ UNCHANGED <<log, logStart, replica, up, worker, sender, late, produced, faults>>

\* The flusher leaves the waiters to the followers' reports.
Bug_FlushComplete ==
  /\ up[Leader] /\ flusher[Leader].pc = "complete"
  /\ flusher' = [flusher EXCEPT ![Leader] = IdleFlusher]
  /\ UNCHANGED <<log, logStart, disk, flushed, replica, up, worker, sender, late, produced, faults>>

\* After a flush, and on a sweep that finds nothing to flush but a waiter.
FlushComplete ==
  /\ up[Leader]
  /\ \/ flusher[Leader].pc = "complete"
     \/ flusher[Leader].pc = "idle" /\ ~NeedsFlush(Leader) /\ waiters # {}
  /\ CompleteSatisfiedWaiters
  /\ flusher' = [flusher EXCEPT ![Leader] = IdleFlusher]
  /\ UNCHANGED <<log, logStart, disk, flushed, up, worker, sender, late, produced, faults>>

\* EnforceRetention deletes sealed segments, which a roll has synced.
EnforceRetention ==
  /\ Retention /\ up[Leader]
  /\ \E s \in (logStart + 1)..disk[Leader] : s < LogEnd(Leader) /\ logStart' = s
  /\ UNCHANGED <<log, disk, flushed, flusher, replica, up, worker, sender, late, produced, faults>>
-----------------------------------------------------------------------------
(***************************************************************************)
(* Replicator::Sender::Run and SendPending, for the follower f.            *)
(***************************************************************************)
SetSender(f, s) == sender' = [sender EXCEPT ![f] = s]

\* A follower that cannot be reached stays in the in-sync set.
Bug_EnsureConnected(f) ==
  /\ up[Leader] /\ sender[f].pc = "idle" /\ ~sender[f].connected
  /\ up[f] /\ SetSender(f, [IdleSender EXCEPT !.connected = TRUE])
  /\ UNCHANGED <<storage, replica, up, worker, late, produced, faults>>

\* EnsureConnected succeeds exactly when the follower's process listens.
EnsureConnected(f) ==
  /\ up[Leader] /\ sender[f].pc = "idle" /\ ~sender[f].connected
  /\ \/ up[f] /\ SetSender(f, [IdleSender EXCEPT !.connected = TRUE]) /\ UNCHANGED replica
     \/ ~up[f] /\ MarkFollowerOutOfSync(f) /\ UNCHANGED sender
  /\ UNCHANGED <<storage, up, worker, late, produced, faults>>

\* Where SendPending reads from: a follower behind retention is moved up.
SendFrom(f) == LargerOf(fol[f].leo, logStart)

\* The last record is taken for already replicated.
Bug_CaughtUp(f) == SendFrom(f) + 1 >= LogEnd(Leader)

CaughtUp(f) == SendFrom(f) >= LogEnd(Leader)
FollowerDurable(f) == fol[f].flushed >= LogEnd(Leader)

\* The REPLICATE request for n records; a probe when the follower is caught up.
ReplicateRequest(f, n) ==
  [base |-> SendFrom(f), recs |-> SubSeq(log[Leader], SendFrom(f) + 1, SendFrom(f) + n)]

BatchSizes(f) ==
  IF CaughtUp(f) THEN {0} ELSE {n \in 1..MaxBatch : SendFrom(f) + n <= LogEnd(Leader)}

SendPending(f) ==
  /\ up[Leader] /\ sender[f].pc = "idle" /\ sender[f].connected
  /\ ~(CaughtUp(f) /\ FollowerDurable(f))
  /\ \E n \in BatchSizes(f) :
       SetSender(f, [sender[f] EXCEPT !.pc = "sent", !.req = ReplicateRequest(f, n)])
  /\ UNCHANGED <<storage, replica, up, worker, late, produced, faults>>

\* Success and OUT_OF_RANGE are treated alike: both report the position.
ReceiveResponse(f) ==
  /\ up[Leader] /\ sender[f].pc = "answered"
  /\ OnFollowerProgress(f, sender[f].resp.leo, sender[f].resp.flushed)
  /\ SetSender(f, [IdleSender EXCEPT !.connected = TRUE])
  /\ UNCHANGED <<storage, up, worker, late, produced, faults>>

\* A Call, or the HEALTH probe of an idle sender, finds the connection dead.
ConnectionLost(f) ==
  /\ up[Leader] /\ sender[f].pc = "lost"
  /\ SetSender(f, IdleSender)
  /\ UNCHANGED <<storage, replica, up, worker, late, produced, faults>>
-----------------------------------------------------------------------------
(***************************************************************************)
(* Broker::ExecuteReplicate on the follower's worker thread: the records   *)
(* are appended only where the follower's log ends; a probe, a gap and a   *)
(* duplicate append nothing.  The high-water mark in the request changes   *)
(* nothing on a follower and is left out.                                  *)
(***************************************************************************)
Accepts(f, req) == req.base = LogEnd(f)

\* The records are appended at the log end whatever offset they were sent for.
Bug_AppendReplicated(f, req) == log' = [log EXCEPT ![f] = @ \o req.recs]

AppendReplicated(f, req) ==
  log' = [log EXCEPT ![f] = IF Accepts(f, req) THEN @ \o req.recs ELSE @]

\* The response reports the whole log as flushed.
Bug_ExecuteReplicate(f) ==
  /\ up[f] /\ sender[f].pc = "sent"
  /\ AppendReplicated(f, sender[f].req)
  /\ SetSender(f, [sender[f] EXCEPT !.pc = "answered", !.req = NoRequest,
                                    !.resp = [leo |-> Len(log'[f]), flushed |-> Len(log'[f])]])
  /\ UNCHANGED <<logStart, disk, flushed, flusher, replica, up, worker, late, produced, faults>>

ExecuteReplicate(f) ==
  /\ up[f] /\ sender[f].pc = "sent"
  /\ AppendReplicated(f, sender[f].req)
  /\ SetSender(f, [sender[f] EXCEPT !.pc = "answered", !.req = NoRequest,
                                    !.resp = [leo |-> Len(log'[f]), flushed |-> flushed[f]]])
  /\ UNCHANGED <<logStart, disk, flushed, flusher, replica, up, worker, late, produced, faults>>

\* The same for a request whose caller has given up; the response goes nowhere.
ExecuteLate(f) ==
  /\ up[f]
  /\ \E req \in late[f] :
       AppendReplicated(f, req) /\ late' = [late EXCEPT ![f] = @ \ {req}]
  /\ UNCHANGED <<logStart, disk, flushed, flusher, replica, up, worker, sender, produced, faults>>
-----------------------------------------------------------------------------
(***************************************************************************)
(* Failures.                                                               *)
(***************************************************************************)
Fault == faults < MaxFaults /\ faults' = faults + 1

StillOnTheWay(f) == IF sender[f].pc = "sent" THEN {sender[f].req} ELSE {}

\* A call times out or its connection breaks although both brokers run.
CallFails(f) ==
  /\ Fault
  /\ up[Leader] /\ up[f] /\ sender[f].connected /\ sender[f].pc # "lost"
  /\ SetSender(f, IdleSender)
  /\ late' = [late EXCEPT ![f] = @ \cup StillOnTheWay(f)]
  /\ UNCHANGED <<storage, replica, up, worker, produced>>

\* The leader cannot connect although the follower runs.
ConnectFails(f) ==
  /\ Fault
  /\ up[Leader] /\ up[f] /\ sender[f].pc = "idle" /\ ~sender[f].connected
  /\ MarkFollowerOutOfSync(f)
  /\ UNCHANGED <<storage, up, worker, sender, late, produced>>

\* An append is refused: no space, an I/O error, a malformed batch.
ProduceFails ==
  /\ Fault
  /\ up[Leader] /\ worker.pc = "append"
  /\ worker' = IdleWorker
  /\ UNCHANGED <<storage, replica, up, sender, late, produced>>

\* The follower answers a REPLICATE with such an error; the leader logs it.
ReplicateFails(f) ==
  /\ Fault
  /\ up[Leader] /\ up[f] /\ sender[f].pc = "sent"
  /\ SetSender(f, [IdleSender EXCEPT !.connected = TRUE])
  /\ UNCHANGED <<storage, replica, up, worker, late, produced>>

(***************************************************************************)
(* The batch a killed process was writing: any number of its first records *)
(* may have reached the file; recovery keeps the whole ones.               *)
(***************************************************************************)
Writing(b) ==
  IF b = Leader
  THEN IF worker.pc = "append" THEN {NextRecords(worker.size)} ELSE {}
  ELSE {req.recs : req \in {r \in late[b] \cup StillOnTheWay(b) : Accepts(b, r)}}

TornTails(b) == {<<>>} \cup UNION {{SubSeq(w, 1, n) : n \in 1..Len(w)} : w \in Writing(b)}

\* Everything broker b kept in memory, and its connections, are gone.
LoseMemory(b) ==
  /\ up' = [up EXCEPT ![b] = FALSE]
  /\ flusher' = [flusher EXCEPT ![b] = IdleFlusher]
  /\ IF b = Leader
     THEN /\ fol' = [f \in Followers |-> NewFollower]
          /\ hwm' = 0 /\ waiters' = {} /\ worker' = IdleWorker
          /\ sender' = [f \in Followers |-> IdleSender]
          /\ late' = [f \in Followers |-> late[f] \cup StillOnTheWay(f)]
     ELSE /\ SetSender(b, IF sender[b].connected
                          THEN [IdleSender EXCEPT !.pc = "lost", !.connected = TRUE]
                          ELSE sender[b])
          /\ late' = [late EXCEPT ![b] = {}]
          /\ UNCHANGED <<fol, hwm, waiters, worker>>

\* The process is killed: what it wrote survives in the page cache.
Crash(b) ==
  /\ Fault /\ b \in MayCrash /\ up[b]
  /\ \E torn \in TornTails(b) :
       /\ log' = [log EXCEPT ![b] = @ \o torn]
       /\ produced' = IF b = Leader THEN produced + Len(torn) ELSE produced
  /\ LoseMemory(b)
  /\ UNCHANGED <<logStart, disk, flushed, acked>>

\* The machine stops: of what was never synced, any prefix may survive.
PowerLoss(b) ==
  /\ Fault /\ b \in MayLosePower /\ up[b]
  /\ \E n \in disk[b]..LogEnd(b) :
       /\ log' = [log EXCEPT ![b] = SubSeq(@, 1, n)]
       /\ disk' = [disk EXCEPT ![b] = n]
       /\ flushed' = [flushed EXCEPT ![b] = n]
  /\ LoseMemory(b)
  /\ UNCHANGED <<logStart, produced, acked>>

\* Broker::Stop: the worker drains, everything is flushed, waiters fail.
Stop(b) ==
  /\ Fault /\ up[b] /\ flusher[b].pc = "idle"
  /\ b = Leader => worker.pc = "idle"
  /\ disk' = [disk EXCEPT ![b] = LogEnd(b)]
  /\ flushed' = [flushed EXCEPT ![b] = LogEnd(b)]
  /\ LoseMemory(b)
  /\ UNCHANGED <<log, logStart, produced, acked>>

\* Recovery keeps only what was known to be flushed.
Bug_Restart(b) ==
  /\ ~up[b]
  /\ up' = [up EXCEPT ![b] = TRUE]
  /\ log' = [log EXCEPT ![b] = SubSeq(@, 1, flushed[b])]
  /\ hwm' = IF b = Leader THEN InitialHighWaterMark(flushed[b]) ELSE hwm
  /\ UNCHANGED <<logStart, disk, flushed, flusher, fol, waiters, acked,
                 worker, sender, late, produced, faults>>

\* PartitionLog::LoadSegments and the constructor of PartitionReplica.
Restart(b) ==
  /\ ~up[b]
  /\ up' = [up EXCEPT ![b] = TRUE]
  /\ flushed' = [flushed EXCEPT ![b] = LogEnd(b)]
  /\ hwm' = IF b = Leader THEN InitialHighWaterMark(LogEnd(b)) ELSE hwm
  /\ UNCHANGED <<log, logStart, disk, flusher, fol, waiters, acked,
                 worker, sender, late, produced, faults>>
-----------------------------------------------------------------------------
Produce == \/ \E n \in 1..MaxBatch, mode \in Modes : ProduceCheck(n, mode)
           \/ ProduceAppend \/ ProduceNotify \/ ProduceWait

Sender(f) == EnsureConnected(f) \/ SendPending(f) \/ ReceiveResponse(f) \/ ConnectionLost(f)

Flusher(b) == FlushStart(b) \/ FlushSync(b) \/ (b = Leader /\ FlushComplete)

Failure == \/ \E f \in Followers : CallFails(f) \/ ConnectFails(f) \/ ReplicateFails(f)
           \/ ProduceFails
           \/ \E b \in Replicas : Crash(b) \/ PowerLoss(b) \/ Stop(b)

Next == \/ Produce \/ ExpireWaiters \/ EnforceRetention
        \/ \E b \in Replicas : Flusher(b) \/ Restart(b)
        \/ \E f \in Followers : Sender(f) \/ ExecuteReplicate(f) \/ ExecuteLate(f)
        \/ Failure

Spec == Init /\ [][Next]_vars

(***************************************************************************)
(* Every thread of a running broker keeps running: flusher and sender wake *)
(* up at an interval at the latest, a worker drains its queue, and a       *)
(* request on a live connection is executed.  Failures and the expiry of   *)
(* deadlines need not happen.                                              *)
(***************************************************************************)
ThreadsRun ==
  /\ WF_vars(ProduceAppend \/ ProduceNotify \/ ProduceWait)
  /\ \A b \in Replicas : WF_vars(Flusher(b))
  /\ \A f \in Followers : WF_vars(Sender(f)) /\ WF_vars(ExecuteReplicate(f))

\* A broker that went down is started again.
BrokersRestart == \A b \in Replicas : WF_vars(Restart(b))

FairSpec == Spec /\ ThreadsRun
LiveSpec == FairSpec /\ BrokersRestart
-----------------------------------------------------------------------------
(***************************************************************************)
(* Properties.                                                             *)
(***************************************************************************)
\* Every variable stays in its domain.
TypeOK ==
  /\ log \in [Replicas -> Seq(Record)]
  /\ logStart \in Nat
  /\ disk \in [Replicas -> Nat] /\ flushed \in [Replicas -> Nat]
  /\ flusher \in [Replicas -> [pc : {"idle", "sync", "complete"}, target : Nat]]
  /\ up \in [Replicas -> BOOLEAN]
  /\ fol \in [Followers -> FollowerState]
  /\ hwm \in Nat
  /\ waiters \subseteq Waiter
  /\ worker \in [pc : {"idle", "append", "appended", "wait"},
                 size : Nat, mode : AckMode, last : Nat]
  /\ sender \in [Followers -> [pc : {"idle", "sent", "answered", "lost"}, connected : BOOLEAN,
                               req : Request, resp : [leo : Nat, flushed : Nat]]]
  /\ late \in [Followers -> SUBSET Request]
  /\ produced \in 0..MaxRecords
  /\ acked \subseteq [offset : Nat, mode : AckMode, rec : Record]
  /\ faults \in Nat

HoldsPrefixOf(s, t) == Len(s) <= Len(t) /\ \A i \in 1..Len(s) : s[i] = t[i]

\* A follower's log is a prefix of the leader's, record for record, whatever
\* duplicates, gaps and late requests ExecuteReplicate has been given.
ReplicasAgree == \A f \in Followers : HoldsPrefixOf(log[f], log[Leader])

\* The leader never credits a follower with more than the follower has: the
\* positions OnFollowerProgress recorded are covered by the follower's log
\* and by what it has flushed.
CreditIsEarned ==
  \A f \in Followers : fol[f].leo <= LogEnd(f) /\ fol[f].flushed <= flushed[f]

Holds(b, a) == a.offset < LogEnd(b) /\ log[b][a.offset + 1] = a.rec

\* A record acknowledged with acks=quorum is, from then on, on the stable
\* media of a majority of the replica set, at the offset the producer was told.
QuorumAckDurable ==
  \A a \in acked : a.mode = "quorum" =>
    Cardinality({b \in Replicas : Holds(b, a) /\ a.offset < disk[b]}) >= QuorumSize

\* The refinement mapping: what is on the media, and what was acknowledged.
StableLogs == [b \in Replicas |-> SubSeq(log[b], 1, disk[b])]
QuorumAcks ==
  {[offset |-> a.offset, rec |-> a.rec] : a \in {x \in acked : x.mode = "quorum"}}

Majorities == {Q \in SUBSET Replicas : 2 * Cardinality(Q) > Cardinality(Replicas)}

Promise == INSTANCE QuorumLog
  WITH Quorums <- Majorities, stable <- StableLogs, promised <- QuorumAcks

\* The durable logs and the quorum acknowledgements behave as QuorumLog says:
\* every step of brokers, network and failures is one of its steps or none.
KeepsPromise == Promise!Spec

\* An acknowledged record stays where it is in the leader's log.
AckedNotLost == \A a \in acked : Holds(Leader, a)

\* The high-water mark stays within the leader's log, and when it moves every
\* follower the leader counts as in sync holds what lies below it.
HwmAdvanceReplicated ==
  [][hwm' > hwm => /\ hwm' <= LogEnd(Leader)
                   /\ \A f \in InSync(fol') : hwm' <= LogEnd(f)]_vars

WaitingAt(o) == \E w \in waiters : w.offset = o

\* No produce request is left to its deadline: without the expiry of any
\* deadline, flusher and senders bring every waiter to completion.
WaitersAnswered == \A o \in 0..(MaxRecords - 1) : []<>~WaitingAt(o)

\* While leader and follower run, the follower ends up with the leader's whole
\* log, whatever calls, kills and restarts came before.
Converges == <>[](up[Leader] => \A f \in Followers : up[f] => log[f] = log[Leader])

\* A follower that is down for good leaves the in-sync set of a leader that runs.
DeadFollowerEvicted ==
  \A f \in Followers : []<>~(up[Leader] /\ ~up[f] /\ fol[f].inSync)

\* "Resumed follower rejoins and catches up": once faults are over, every
\* follower is in the in-sync set for good.
EveryoneRejoins == <>[](\A f \in Followers : fol[f].inSync)
=============================================================================
