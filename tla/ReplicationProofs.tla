-------------------------- MODULE ReplicationProofs -------------------------
(***************************************************************************)
(* Proofs about Replication, for any number of followers and any bounds:   *)
(* types, and what replication guarantees about data.                      *)
(***************************************************************************)
EXTENDS Replication, FiniteSetTheorems, TLAPS

-----------------------------------------------------------------------------
\* The empty sequence.
LEMMA SeqEmpty ==
  ASSUME NEW S
  PROVE  << >> \in Seq(S) /\ Len(<< >>) = 0
OBVIOUS

\* A sequence is a function on the numbers up to its length.
LEMMA SeqLen ==
  ASSUME NEW S, NEW seq \in Seq(S)
  PROVE  Len(seq) \in Nat /\ seq \in [1 .. Len(seq) -> S] /\ DOMAIN seq = 1 .. Len(seq)
OBVIOUS

\* A function on the numbers up to n is a sequence.
LEMMA SeqOf ==
  ASSUME NEW S, NEW n \in Nat, NEW f \in [1 .. n -> S]
  PROVE  f \in Seq(S) /\ Len(f) = n
OBVIOUS

\* Sequences of one length with the same items are the same.
LEMMA SeqSame ==
  ASSUME NEW S, NEW s \in Seq(S), NEW t \in Seq(S),
         Len(s) = Len(t), \A i \in 1 .. Len(s) : s[i] = t[i]
  PROVE  s = t
OBVIOUS

\* What a concatenation holds.
LEMMA SeqConcat ==
  ASSUME NEW S, NEW s \in Seq(S), NEW t \in Seq(S)
  PROVE  /\ s \o t \in Seq(S) /\ Len(s \o t) = Len(s) + Len(t)
         /\ \A i \in 1 .. Len(s) + Len(t) :
              (s \o t)[i] = IF i <= Len(s) THEN s[i] ELSE t[i - Len(s)]
OBVIOUS

\* Nothing is added by the empty sequence.
LEMMA SeqConcatEmpty ==
  ASSUME NEW S, NEW seq \in Seq(S)
  PROVE  seq \o << >> = seq /\ << >> \o seq = seq
OBVIOUS

\* What a part of a sequence holds.
LEMMA SeqPart ==
  ASSUME NEW S, NEW s, NEW m \in Int, NEW n \in Int, \A i \in m .. n : s[i] \in S
  PROVE  /\ SubSeq(s, m, n) \in Seq(S)
         /\ Len(SubSeq(s, m, n)) = IF m <= n THEN n - m + 1 ELSE 0
         /\ \A i \in 1 .. n - m + 1 : SubSeq(s, m, n)[i] = s[m + i - 1]
OBVIOUS

\* A part that ends before it begins.
LEMMA SeqPartEmpty ==
  ASSUME NEW s, NEW m \in Int, NEW n \in Int, n < m
  PROVE  SubSeq(s, m, n) = << >>
OBVIOUS

-----------------------------------------------------------------------------
(***************************************************************************)
(* The operators of PartitionReplica.                                      *)
(***************************************************************************)
\* LargerOf is the maximum of two offsets.
LEMMA LargerOfBounds ==
  ASSUME NEW m \in Nat, NEW n \in Nat
  PROVE  LargerOf(m, n) \in Nat /\ LargerOf(m, n) >= m /\ LargerOf(m, n) >= n
BY DEF LargerOf

\* SmallestOf is the minimum of a non-empty set of offsets.
LEMMA SmallestOfBounds ==
  ASSUME NEW S \in SUBSET Nat, S # {}
  PROVE  SmallestOf(S) \in S /\ \A y \in S : SmallestOf(S) <= y
<1> DEFINE R == OpToRel(<, Nat)
<1>1. IsWellFoundedOn(R, Nat)
  BY Zenon, NatLessThanWellFounded
<1>2. PICK x \in S : \A y \in S : ~(<<y, x>> \in R)
  <2> HIDE DEF R
  <2> QED BY Zenon, <1>1, WFMin
<1>3. \A y \in S : x <= y
  <2>1. \A y \in S : y < x => <<y, x>> \in R
    BY Zenon DEF OpToRel
  <2> HIDE DEF R
  <2>2. \A y \in S : ~(y < x)
    BY Zenon, <1>2, <2>1
  <2>3. QED
    BY <2>2
<1>4. QED
  BY Zenon, <1>3 DEF SmallestOf

\* The recomputed high-water mark is an offset, never below the stored one.
LEMMA RecomputeType ==
  ASSUME NEW h \in Nat, NEW e \in Nat, NEW g \in [Followers -> FollowerState]
  PROVE  RecomputeHighWaterMark(h, e, g) \in Nat
<1> DEFINE S == {e} \cup {g[f].leo : f \in InSync(g)}
<1>1. S \in SUBSET Nat /\ S # {}
  BY Zenon DEF InSync, FollowerState
<1>2. SmallestOf(S) \in Nat
  BY Zenon, <1>1, SmallestOfBounds
<1>3. QED
  BY Zenon, <1>2, LargerOfBounds DEF RecomputeHighWaterMark

\* A report leaves a follower's entry well formed.
LEMMA WithProgressType ==
  ASSUME NEW g \in [Followers -> FollowerState], NEW f \in Followers,
         NEW e \in Nat, NEW d \in Nat
  PROVE  WithProgress(g, f, e, d) \in [Followers -> FollowerState]
<1>1. g[f].leo \in Nat /\ g[f].flushed \in Nat
  BY Zenon DEF FollowerState
<1>2. LargerOf(g[f].leo, e) \in Nat /\ LargerOf(g[f].flushed, d) \in Nat
  BY Zenon, <1>1, LargerOfBounds
<1>3. QED
  BY Zenon, <1>2 DEF WithProgress, FollowerState

\* Dropping a follower from the in-sync set leaves its entry well formed.
LEMMA WithoutSyncType ==
  ASSUME NEW g \in [Followers -> FollowerState], NEW f \in Followers
  PROVE  WithoutSync(g, f) \in [Followers -> FollowerState]
BY Zenon DEF WithoutSync, FollowerState
-----------------------------------------------------------------------------
(***************************************************************************)
(* Type correctness.  TypeOK alone is not inductive: the record of an      *)
(* acknowledgement is read from the leader's log, so a waiter's offset     *)
(* must lie in it, and the batch the worker is about to append must fit    *)
(* the bound on records.                                                   *)
(***************************************************************************)
ProduceInv ==
  /\ worker.pc = "append" => worker.size >= 1 /\ produced + worker.size <= MaxRecords
  /\ worker.pc \in {"appended", "wait"} => worker.last < LogEnd(Leader)
  /\ \A w \in waiters : w.offset < LogEnd(Leader)

TypeInv == TypeOK /\ ProduceInv

Ack == [offset : Nat, mode : AckMode, rec : Record]

\* One critical section of PartitionReplica keeps its variables well formed.
LEMMA CompleteWithType ==
  ASSUME TypeOK, NEW ws \in SUBSET Waiter, NEW g \in [Followers -> FollowerState],
         \A w \in ws : w.offset < LogEnd(Leader),
         CompleteWith(ws, g)
  PROVE  /\ fol' \in [Followers -> FollowerState]
         /\ waiters' \subseteq ws
         /\ acked' \subseteq Ack
<1>1. \A w \in ws : w.offset \in Nat /\ w.mode \in AckMode
  BY Zenon DEF Waiter
<1>2. \A w \in ws : log[Leader][w.offset + 1] \in Record
  <2>1. log[Leader] \in Seq(Record)
    BY Zenon DEF TypeOK, Replicas
  <2>2. \A w \in ws : w.offset + 1 \in 1..Len(log[Leader])
    BY <1>1, <2>1 DEF LogEnd
  <2>3. QED
    BY <2>1, <2>2
<1>3. \A S \in SUBSET ws : Acknowledged(S) \subseteq Ack
  BY <1>1, <1>2 DEF Acknowledged, Ack
<1>4. QED
  BY Zenon, <1>3 DEF CompleteWith, SatisfiedWaiters, TypeOK, Ack

\* The same for the mark recomputed from the leader's state.
LEMMA RecomputedType ==
  ASSUME TypeOK, NEW g \in [Followers -> FollowerState]
  PROVE  Recomputed(g) \in Nat
<1>1. LogEnd(Leader) \in Nat
  BY DEF TypeOK, Replicas, LogEnd
<1>2. QED
  BY Zenon, <1>1, RecomputeType DEF Recomputed, TypeOK

\* The state a marked follower leaves behind.
LEMMA MarkType ==
  ASSUME TypeInv, NEW f \in Followers, MarkFollowerOutOfSync(f)
  PROVE  /\ fol' \in [Followers -> FollowerState] /\ hwm' \in Nat
         /\ waiters' \subseteq waiters /\ acked' \subseteq Ack
<1>1. WithoutSync(fol, f) \in [Followers -> FollowerState]
  BY Zenon, WithoutSyncType DEF TypeInv, TypeOK
<1>2. CASE fol[f].inSync
  <2>1. hwm' = Recomputed(WithoutSync(fol, f)) /\ CompleteWith(waiters, WithoutSync(fol, f))
    BY Zenon, <1>2 DEF MarkFollowerOutOfSync
  <2>2. TypeOK /\ waiters \in SUBSET Waiter /\ \A w \in waiters : w.offset < LogEnd(Leader)
    BY Zenon DEF TypeInv, TypeOK, ProduceInv
  <2>3. QED
    BY Zenon, <1>1, <2>1, <2>2, CompleteWithType, RecomputedType
<1>3. CASE ~fol[f].inSync
  BY Zenon, <1>3 DEF MarkFollowerOutOfSync, replica, TypeInv, TypeOK, Ack
<1>4. QED
  BY Zenon, <1>2, <1>3

\* The batches the leader appends are sequences of records.
LEMMA NextRecordsType ==
  ASSUME TypeOK, NEW n \in Nat, produced + n <= MaxRecords
  PROVE  NextRecords(n) \in Seq(Record) /\ Len(NextRecords(n)) = n
<1>1. \A i \in 1..n : produced + i \in Record
  BY ConstantsAssumption DEF TypeOK, Record
<1>2. NextRecords(n) \in [1..n -> Record]
  BY Zenon, <1>1 DEF NextRecords
<1>3. QED
  BY Zenon, <1>2, SeqOf

\* The follower accepts at most the records of the request.
LEMMA AppendReplicatedType ==
  ASSUME TypeOK, NEW f \in Followers, NEW req \in Request, AppendReplicated(f, req)
  PROVE  /\ log' \in [Replicas -> Seq(Record)]
         /\ log'[Leader] = log[Leader]
         /\ Len(log'[f]) \in Nat
<1>1. log[f] \in Seq(Record) /\ req.recs \in Seq(Record) /\ f \in Replicas /\ f # Leader
  BY Zenon, ReplicaSetAssumption DEF TypeOK, Replicas, Request
<1>2. log[f] \o req.recs \in Seq(Record)
  BY Zenon, <1>1, SeqConcat
<1>3. log' \in [Replicas -> Seq(Record)] /\ log'[Leader] = log[Leader]
  BY Zenon, <1>1, <1>2 DEF AppendReplicated, TypeOK, Replicas
<1>4. QED
  BY Zenon, <1>1, <1>3, SeqLen

\* What a killed process had already written of its batch.
LEMMA TornTailsType ==
  ASSUME TypeInv, NEW b \in Replicas, NEW torn \in TornTails(b)
  PROVE  /\ torn \in Seq(Record) /\ Len(torn) \in Nat
         /\ b = Leader => produced + Len(torn) <= MaxRecords
<1>1. ASSUME NEW w \in Writing(b)
      PROVE  w \in Seq(Record) /\ (b = Leader => produced + Len(w) <= MaxRecords)
  <2>1. CASE b = Leader
    <3>1. w = NextRecords(worker.size) /\ worker.pc = "append"
      BY Zenon, <1>1, <2>1 DEF Writing
    <3>2. worker.size \in Nat /\ produced + worker.size <= MaxRecords
      BY Zenon, <3>1 DEF TypeInv, TypeOK, ProduceInv
    <3>3. QED
      BY Zenon, <3>1, <3>2, NextRecordsType DEF TypeInv
  <2>2. CASE b # Leader
    <3>1. PICK req \in late[b] \cup StillOnTheWay(b) : w = req.recs
      BY Zenon, <1>1, <2>2 DEF Writing
    <3>2. req \in Request
      BY SMTT(30), <2>2, <3>1 DEF Replicas, TypeInv, TypeOK, StillOnTheWay
    <3>3. QED
      BY Zenon, <2>2, <3>1, <3>2 DEF Request
  <2>3. QED
    BY Zenon, <2>1, <2>2
<1>2. CASE torn = <<>>
  BY <1>2 DEF TypeInv, TypeOK
<1>3. CASE \E w \in Writing(b) : \E n \in 1..Len(w) : torn = SubSeq(w, 1, n)
  <2>0. PICK w \in Writing(b) : \E n \in 1..Len(w) : torn = SubSeq(w, 1, n)
    BY Zenon, <1>3
  <2>1. PICK n \in 1..Len(w) : torn = SubSeq(w, 1, n)
    BY Zenon, <2>0
  <2>2. w \in Seq(Record) /\ Len(w) \in Nat /\ n \in Int
    BY SMTT(30), <1>1, <2>1, SeqLen
  <2>3. \A i \in 1..n : w[i] \in Record
    BY <2>2, SeqLen
  <2>4. torn \in Seq(Record) /\ Len(torn) = n
    BY SMTT(30), <2>1, <2>2, <2>3, SeqPart
  <2>5. QED
    BY SMTT(30), <1>1, <2>2, <2>4, ConstantsAssumption DEF TypeInv, TypeOK
<1>4. QED
  BY Zenon, <1>2, <1>3 DEF TornTails

\* Losing the memory of a broker leaves the rest well formed.
LEMMA LoseMemoryType ==
  ASSUME TypeInv, NEW b \in Replicas, LoseMemory(b)
  PROVE  /\ up' \in [Replicas -> BOOLEAN]
         /\ flusher' \in [Replicas -> [pc : {"idle", "sync", "complete"}, target : Nat]]
         /\ fol' \in [Followers -> FollowerState] /\ hwm' \in Nat
         /\ waiters' \subseteq waiters
         /\ worker' \in [pc : {"idle", "append", "appended", "wait"},
                         size : Nat, mode : AckMode, last : Nat]
         /\ sender' \in [Followers -> [pc : {"idle", "sent", "answered", "lost"},
                                       connected : BOOLEAN, req : Request,
                                       resp : [leo : Nat, flushed : Nat]]]
         /\ late' \in [Followers -> SUBSET Request]
         /\ b = Leader => waiters' = {} /\ worker' = IdleWorker
         /\ b # Leader => waiters' = waiters /\ worker' = worker
<1>1. NoRequest \in Request
  BY Zenon, SeqEmpty DEF NoRequest, Request
<1>2. \A f \in Followers : StillOnTheWay(f) \subseteq Request
  BY DEF StillOnTheWay, TypeInv, TypeOK
<1>3. /\ up' \in [Replicas -> BOOLEAN]
      /\ flusher' \in [Replicas -> [pc : {"idle", "sync", "complete"}, target : Nat]]
  BY Zenon DEF LoseMemory, IdleFlusher, TypeInv, TypeOK
<1>4. CASE b = Leader
  <2>1. /\ fol' = [f \in Followers |-> NewFollower]
        /\ hwm' = 0 /\ waiters' = {} /\ worker' = IdleWorker
        /\ sender' = [f \in Followers |-> IdleSender]
        /\ late' = [f \in Followers |-> late[f] \cup StillOnTheWay(f)]
    BY Zenon, <1>4 DEF LoseMemory
  <2>2. late' \in [Followers -> SUBSET Request]
    BY Zenon, <2>1, <1>2 DEF TypeInv, TypeOK
  <2>3. QED
    BY Zenon, <1>1, <1>3, <1>4, <2>1, <2>2
       DEF NewFollower, FollowerState, IdleWorker, IdleSender, NoResponse, AckMode
<1>5. CASE b # Leader
  <2>1. b \in Followers
    BY Zenon, <1>5 DEF Replicas
  <2>2. /\ UNCHANGED <<fol, hwm, waiters, worker>>
        /\ late' = [late EXCEPT ![b] = {}]
    BY Zenon, <1>5 DEF LoseMemory
  <2>3. \E s \in [pc : {"idle", "sent", "answered", "lost"}, connected : BOOLEAN,
                  req : Request, resp : [leo : Nat, flushed : Nat]] :
          sender' = [sender EXCEPT ![b] = s]
    <3>1. [IdleSender EXCEPT !.pc = "lost", !.connected = TRUE]
            \in [pc : {"idle", "sent", "answered", "lost"}, connected : BOOLEAN,
                 req : Request, resp : [leo : Nat, flushed : Nat]]
      BY Zenon, <1>1 DEF IdleSender, NoResponse
    <3>2. QED
      BY Zenon, <1>5, <2>1, <3>1 DEF LoseMemory, SetSender, TypeInv, TypeOK
  <2>4. QED
    BY SMTT(30), <1>3, <1>5, <2>1, <2>2, <2>3 DEF TypeInv, TypeOK
<1>6. QED
  BY Zenon, <1>4, <1>5

StorageTypeOK ==
  /\ log \in [Replicas -> Seq(Record)] /\ logStart \in Nat
  /\ disk \in [Replicas -> Nat] /\ flushed \in [Replicas -> Nat]
  /\ produced \in 0..MaxRecords /\ acked \subseteq Ack /\ faults \in Nat

\* A failure that leaves the stored state well formed leaves all of it so.
LEMMA LoseMemoryTypeOK ==
  ASSUME TypeInv, NEW b \in Replicas, LoseMemory(b), StorageTypeOK'
  PROVE  TypeOK'
<1>1. waiters' \subseteq Waiter
  BY Zenon, LoseMemoryType DEF TypeInv, TypeOK
<1>2. QED
  BY Zenon, <1>1, LoseMemoryType DEF StorageTypeOK, TypeOK, Ack

\* Every step preserves the strengthened type invariant.
LEMMA TypeStep == TypeInv /\ [Next]_vars => TypeInv'
<1> SUFFICES ASSUME TypeInv, [Next]_vars PROVE TypeInv'
  BY Zenon
<1> USE DEF TypeInv
<1>a. TypeOK /\ ProduceInv
  BY Zenon
<1>b. LogEnd(Leader) \in Nat /\ Leader \in Replicas /\ log[Leader] \in Seq(Record)
  BY Zenon, SeqLen DEF TypeOK, Replicas, LogEnd
<1>c. NoRequest \in Request
  BY Zenon, SeqEmpty DEF NoRequest, Request
<1>1. ASSUME NEW n \in 1..MaxBatch, NEW mode \in Modes, ProduceCheck(n, mode) PROVE TypeInv'
  <2>1. /\ worker' = [pc |-> "append", size |-> n, mode |-> mode, last |-> 0]
        /\ produced + n <= MaxRecords
    BY Zenon, <1>1 DEF ProduceCheck, IdleWorker
  <2>2. n \in Nat /\ n >= 1 /\ mode \in AckMode
    BY ConstantsAssumption
  <2>3. UNCHANGED <<storage, replica, up, sender, late, produced, faults>>
    BY Zenon, <1>1 DEF ProduceCheck
  <2>4. TypeOK'
    BY Zenon, <2>1, <2>2, <2>3 DEF TypeOK, storage, replica
  <2>5. ProduceInv'
    BY Zenon, <2>1, <2>2, <2>3 DEF ProduceInv, storage, replica, LogEnd
  <2>6. QED
    BY Zenon, <2>4, <2>5
<1>2. CASE ProduceAppend
  <2>1. worker.size \in Nat /\ worker.size >= 1 /\ produced + worker.size <= MaxRecords
    BY Zenon, <1>2 DEF ProduceAppend, TypeOK, ProduceInv
  <2>2. NextRecords(worker.size) \in Seq(Record) /\ Len(NextRecords(worker.size)) = worker.size
    BY Zenon, <2>1, <1>a, NextRecordsType
  <2>3. /\ log[Leader] \o NextRecords(worker.size) \in Seq(Record)
        /\ Len(log[Leader] \o NextRecords(worker.size)) = LogEnd(Leader) + worker.size
    <3> DEFINE new == NextRecords(worker.size)
    <3>1. new \in Seq(Record) /\ Len(new) = worker.size
      BY Zenon, <2>2
    <3> HIDE DEF new
    <3>2. log[Leader] \o new \in Seq(Record) /\ Len(log[Leader] \o new) = Len(log[Leader]) + Len(new)
      BY Zenon, <1>b, <3>1, SeqConcat
    <3>3. QED
      BY Zenon, <3>1, <3>2 DEF new, LogEnd
  <2>4. log' \in [Replicas -> Seq(Record)] /\ LogEnd(Leader)' = LogEnd(Leader) + worker.size
    BY Zenon, <1>2, <1>b, <2>3 DEF ProduceAppend, TypeOK, LogEnd
  <2>5. worker' = [worker EXCEPT !.pc = "appended", !.last = LogEnd(Leader) + worker.size - 1]
    BY Zenon, <1>2 DEF ProduceAppend
  <2>6. TypeOK'
    <3>1. worker' \in [pc : {"idle", "append", "appended", "wait"},
                      size : Nat, mode : AckMode, last : Nat]
      <4>1. LogEnd(Leader) + worker.size - 1 \in Nat
        BY SMTT(30), <1>b, <2>1
      <4>2. QED
        BY Zenon, <2>5, <4>1 DEF TypeOK
    <3>2. produced' \in 0..MaxRecords
      BY SMTT(30), <1>2, <2>1, ConstantsAssumption DEF ProduceAppend, TypeOK
    <3>3. UNCHANGED <<logStart, disk, flushed, flusher, fol, hwm, waiters, acked, up, sender, late, faults>>
      BY Zenon, <1>2 DEF ProduceAppend, replica
    <3>4. QED
      BY Zenon, <2>4, <3>1, <3>2, <3>3 DEF TypeOK
  <2>7. ProduceInv'
    <3>1. worker'.pc = "appended" /\ worker'.last = LogEnd(Leader) + worker.size - 1
      BY Zenon, <2>5 DEF TypeOK
    <3>2. waiters' = waiters /\ \A w \in waiters : w.offset \in Nat /\ w.offset < LogEnd(Leader)
      BY Zenon, <1>2 DEF ProduceAppend, replica, TypeOK, ProduceInv, Waiter
    <3>3. QED
      BY SMTT(30), <1>b, <2>1, <2>4, <3>1, <3>2 DEF ProduceInv
  <2>8. QED
    BY Zenon, <2>6, <2>7
<1>3. CASE ProduceNotify
  <2>1. CompleteWith(waiters, fol) /\ hwm' = Recomputed(fol)
    BY Zenon, <1>3 DEF ProduceNotify, OnLeaderAppend
  <2>2. fol' \in [Followers -> FollowerState] /\ waiters' \subseteq waiters /\ acked' \subseteq Ack
    BY Zenon, <1>a, <2>1, CompleteWithType DEF TypeOK, ProduceInv
  <2>3. hwm' \in Nat
    BY Zenon, <1>a, <2>1, RecomputedType DEF TypeOK
  <2>4. QED
    BY Zenon, <1>3, <2>2, <2>3 DEF ProduceNotify, TypeOK, ProduceInv, storage, LogEnd, Ack
<1>4. CASE ProduceWait
  <2> DEFINE w == [offset |-> worker.last, mode |-> worker.mode]
  <2>1. CompleteWith(waiters \cup {w}, fol) /\ UNCHANGED hwm
    BY Zenon, <1>4 DEF ProduceWait, AddWaiter
  <2>2. w \in Waiter /\ w.offset < LogEnd(Leader)
    BY Zenon, <1>4 DEF ProduceWait, TypeOK, ProduceInv, Waiter
  <2>3. /\ waiters \cup {w} \in SUBSET Waiter
        /\ \A x \in waiters \cup {w} : x.offset < LogEnd(Leader)
    BY Zenon, <2>2 DEF TypeOK, ProduceInv
  <2>4. fol' \in [Followers -> FollowerState] /\ waiters' \subseteq waiters \cup {w} /\ acked' \subseteq Ack
    <3> HIDE DEF w
    <3> QED BY Zenon, <1>a, <2>1, <2>3, CompleteWithType DEF TypeOK
  <2>5. QED
    <3> HIDE DEF w
    <3> QED
      BY Zenon, <1>4, <2>1, <2>3, <2>4
         DEF ProduceWait, TypeOK, ProduceInv, storage, LogEnd, Ack, IdleWorker, AckMode
<1>5. CASE ExpireWaiters
  BY Zenon, <1>5 DEF ExpireWaiters, TypeOK, ProduceInv, storage, LogEnd
<1>6. CASE EnforceRetention
  BY SMTT(30), <1>6 DEF EnforceRetention, TypeOK, ProduceInv, replica, LogEnd
<1>7. ASSUME NEW b \in Replicas, FlushStart(b) PROVE TypeInv'
  <2>1. LogEnd(b) \in Nat
    BY Zenon, SeqLen DEF TypeOK, LogEnd
  <2>2. QED
    BY Zenon, <1>7, <2>1 DEF FlushStart, TypeOK, ProduceInv, replica, LogEnd
<1>8. ASSUME NEW b \in Replicas, FlushSync(b) PROVE TypeInv'
  <2>1. LargerOf(disk[b], flusher[b].target) \in Nat /\ flusher[b].target \in Nat
    BY Zenon, LargerOfBounds DEF TypeOK
  <2>2. QED
    BY SMTT(30), <1>8, <2>1 DEF FlushSync, TypeOK, ProduceInv, replica, LogEnd, IdleFlusher
<1>9. CASE FlushComplete
  <2>1. CompleteWith(waiters, fol) /\ hwm' = Recomputed(fol)
    BY Zenon, <1>9 DEF FlushComplete, CompleteSatisfiedWaiters
  <2>2. fol' \in [Followers -> FollowerState] /\ waiters' \subseteq waiters /\ acked' \subseteq Ack
    BY Zenon, <1>a, <2>1, CompleteWithType DEF TypeOK, ProduceInv
  <2>3. hwm' \in Nat
    BY Zenon, <1>a, <2>1, RecomputedType DEF TypeOK
  <2>4. QED
    BY Zenon, <1>9, <1>b, <2>2, <2>3 DEF FlushComplete, TypeOK, ProduceInv, LogEnd, Ack, IdleFlusher
<1>10. ASSUME NEW b \in Replicas, Restart(b) PROVE TypeInv'
  <2>1. LogEnd(b) \in Nat
    BY Zenon, SeqLen DEF TypeOK, LogEnd
  <2>2. QED
    BY Zenon, <1>10, <2>1 DEF Restart, InitialHighWaterMark, TypeOK, ProduceInv, LogEnd
<1>11. ASSUME NEW f \in Followers, EnsureConnected(f) PROVE TypeInv'
  <2>1. CASE up[f]
    <3>1. /\ sender' = [sender EXCEPT ![f] = [IdleSender EXCEPT !.connected = TRUE]]
          /\ UNCHANGED <<storage, replica, up, worker, late, produced, faults>>
      BY Zenon, <1>11, <2>1 DEF EnsureConnected, SetSender
    <3>2. QED
      BY Zenon, <1>c, <3>1 DEF IdleSender, NoResponse, TypeOK, ProduceInv, storage, replica, LogEnd
  <2>2. CASE ~up[f]
    <3>1. MarkFollowerOutOfSync(f) /\ UNCHANGED <<storage, up, worker, sender, late, produced, faults>>
      BY Zenon, <1>11, <2>2 DEF EnsureConnected
    <3>2. QED
      BY Zenon, <3>1, MarkType DEF TypeOK, ProduceInv, storage, LogEnd, Ack
  <2>3. QED
    BY Zenon, <2>1, <2>2
<1>12. ASSUME NEW f \in Followers, SendPending(f) PROVE TypeInv'
  <2>1. PICK n \in BatchSizes(f) :
          sender' = [sender EXCEPT ![f] = [sender[f] EXCEPT !.pc = "sent", !.req = ReplicateRequest(f, n)]]
    BY Zenon, <1>12 DEF SendPending, SetSender
  <2>2. SendFrom(f) \in Nat
    BY Zenon, LargerOfBounds DEF SendFrom, TypeOK, FollowerState
  <2>3. n \in Nat /\ \A i \in (SendFrom(f) + 1)..(SendFrom(f) + n) : i \in 1..Len(log[Leader])
    BY SMTT(30), <1>b, <2>1, <2>2, ConstantsAssumption DEF BatchSizes, LogEnd
  <2>4. \A i \in (SendFrom(f) + 1)..(SendFrom(f) + n) : log[Leader][i] \in Record
    BY Zenon, <1>b, <2>3, SeqLen
  <2>5. SubSeq(log[Leader], SendFrom(f) + 1, SendFrom(f) + n) \in Seq(Record)
    BY SMTT(30), <2>2, <2>3, <2>4, SeqPart
  <2>6. ReplicateRequest(f, n) \in Request
    BY Zenon, <2>2, <2>5 DEF ReplicateRequest, Request
  <2>7. sender' \in [Followers -> [pc : {"idle", "sent", "answered", "lost"}, connected : BOOLEAN,
                                   req : Request, resp : [leo : Nat, flushed : Nat]]]
    <3>1. sender \in [Followers -> [pc : {"idle", "sent", "answered", "lost"}, connected : BOOLEAN,
                                   req : Request, resp : [leo : Nat, flushed : Nat]]]
      BY Zenon DEF TypeOK
    <3> HIDE DEF TypeInv
    <3>2. [sender[f] EXCEPT !.pc = "sent", !.req = ReplicateRequest(f, n)]
            \in [pc : {"idle", "sent", "answered", "lost"}, connected : BOOLEAN,
                 req : Request, resp : [leo : Nat, flushed : Nat]]
      BY Zenon, <2>6, <3>1
    <3>3. QED
      BY Zenon, <2>1, <3>1, <3>2
  <2>8. UNCHANGED <<storage, replica, up, worker, late, produced, faults>>
    BY Zenon, <1>12 DEF SendPending
  <2>9. QED
    BY Zenon, <2>7, <2>8 DEF TypeOK, ProduceInv, storage, replica, LogEnd
<1>13. ASSUME NEW f \in Followers, ReceiveResponse(f) PROVE TypeInv'
  <2> DEFINE g == WithProgress(fol, f, sender[f].resp.leo, sender[f].resp.flushed)
  <2>1. /\ hwm' = Recomputed(g) /\ CompleteWith(waiters, g)
        /\ sender' = [sender EXCEPT ![f] = [IdleSender EXCEPT !.connected = TRUE]]
        /\ UNCHANGED <<storage, up, worker, late, produced, faults>>
    BY Zenon, <1>13 DEF ReceiveResponse, OnFollowerProgress, SetSender
  <2>2. g \in [Followers -> FollowerState]
    BY Zenon, WithProgressType DEF TypeOK
  <2> HIDE DEF g
  <2>3. fol' \in [Followers -> FollowerState] /\ waiters' \subseteq waiters /\ acked' \subseteq Ack
    BY Zenon, <1>a, <2>1, <2>2, CompleteWithType DEF TypeOK, ProduceInv
  <2>4. hwm' \in Nat
    BY Zenon, <1>a, <2>1, <2>2, RecomputedType
  <2>5. QED
    BY Zenon, <1>c, <2>1, <2>3, <2>4
       DEF IdleSender, NoResponse, TypeOK, ProduceInv, storage, LogEnd, Ack
<1>14. ASSUME NEW f \in Followers, ConnectionLost(f) PROVE TypeInv'
  BY Zenon, <1>c, <1>14 DEF ConnectionLost, SetSender, IdleSender, NoResponse, TypeOK, ProduceInv,
                     storage, replica, LogEnd
<1>15. ASSUME NEW f \in Followers, ExecuteReplicate(f) PROVE TypeInv'
  <2>1. AppendReplicated(f, sender[f].req) /\ sender[f].req \in Request
    BY Zenon, <1>15 DEF ExecuteReplicate, TypeOK
  <2>2. /\ log' \in [Replicas -> Seq(Record)] /\ log'[Leader] = log[Leader]
        /\ Len(log'[f]) \in Nat
    BY Zenon, <1>a, <2>1, AppendReplicatedType
  <2>3. flushed[f] \in Nat
    BY Zenon DEF TypeOK, Replicas
  <2>4. sender' = [sender EXCEPT ![f] = [sender[f] EXCEPT !.pc = "answered", !.req = NoRequest,
                                   !.resp = [leo |-> Len(log'[f]), flushed |-> flushed[f]]]]
    BY Zenon, <1>15 DEF ExecuteReplicate, SetSender
  <2>5. sender' \in [Followers -> [pc : {"idle", "sent", "answered", "lost"}, connected : BOOLEAN,
                                   req : Request, resp : [leo : Nat, flushed : Nat]]]
    <3>1. [leo |-> Len(log'[f]), flushed |-> flushed[f]] \in [leo : Nat, flushed : Nat]
      BY Zenon, <2>2, <2>3
    <3> DEFINE resp == [leo |-> Len(log'[f]), flushed |-> flushed[f]]
    <3>2. sender' = [sender EXCEPT ![f] = [sender[f] EXCEPT !.pc = "answered", !.req = NoRequest,
                                                      !.resp = resp]]
      BY Zenon, <2>4
    <3>3. resp \in [leo : Nat, flushed : Nat]
      BY Zenon, <3>1
    <3> HIDE DEF resp
    <3>4. QED
      <4>1. sender \in [Followers -> [pc : {"idle", "sent", "answered", "lost"}, connected : BOOLEAN,
                                     req : Request, resp : [leo : Nat, flushed : Nat]]]
        BY Zenon DEF TypeOK
      <4> HIDE DEF TypeInv
      <4>2. [sender[f] EXCEPT !.pc = "answered", !.req = NoRequest, !.resp = resp]
              \in [pc : {"idle", "sent", "answered", "lost"}, connected : BOOLEAN,
                   req : Request, resp : [leo : Nat, flushed : Nat]]
        BY Zenon, <1>c, <3>3, <4>1
      <4>3. QED
        BY Zenon, <3>2, <4>1, <4>2
  <2>6. UNCHANGED <<logStart, disk, flushed, flusher, replica, up, worker, late, produced, faults>>
    BY Zenon, <1>15 DEF ExecuteReplicate
  <2>7. QED
    BY Zenon, <2>2, <2>5, <2>6 DEF TypeOK, ProduceInv, replica, LogEnd
<1>16. ASSUME NEW f \in Followers, ExecuteLate(f) PROVE TypeInv'
  <2>1. PICK req \in late[f] : AppendReplicated(f, req) /\ late' = [late EXCEPT ![f] = @ \ {req}]
    BY Zenon, <1>16 DEF ExecuteLate
  <2>2. req \in Request
    BY Zenon, <2>1 DEF TypeOK
  <2>3. log' \in [Replicas -> Seq(Record)] /\ log'[Leader] = log[Leader]
    BY Zenon, <1>a, <2>1, <2>2, AppendReplicatedType
  <2>4. QED
    BY Zenon, <1>16, <2>1, <2>3 DEF ExecuteLate, TypeOK, ProduceInv, replica, LogEnd
<1>17. ASSUME NEW f \in Followers, CallFails(f) PROVE TypeInv'
  <2>1. /\ sender' = [sender EXCEPT ![f] = IdleSender] /\ faults' = faults + 1
        /\ late' = [late EXCEPT ![f] = @ \cup StillOnTheWay(f)]
        /\ UNCHANGED <<storage, replica, up, worker, produced>>
    BY Zenon, <1>17 DEF CallFails, Fault, SetSender
  <2>2. sender' \in [Followers -> [pc : {"idle", "sent", "answered", "lost"}, connected : BOOLEAN,
                                   req : Request, resp : [leo : Nat, flushed : Nat]]]
    BY Zenon, <1>c, <2>1 DEF IdleSender, NoResponse, TypeOK
  <2>3. StillOnTheWay(f) \subseteq Request
    BY ZenonT(30) DEF StillOnTheWay, TypeOK
  <2>4. late' \in [Followers -> SUBSET Request]
    BY Zenon, <2>1, <2>3 DEF TypeOK
  <2>5. QED
    BY SMTT(30), <2>1, <2>2, <2>4 DEF TypeOK, ProduceInv, storage, replica, LogEnd
<1>18. ASSUME NEW f \in Followers, ConnectFails(f) PROVE TypeInv'
  <2>1. /\ MarkFollowerOutOfSync(f) /\ faults' = faults + 1
        /\ UNCHANGED <<storage, up, worker, sender, late, produced>>
    BY Zenon, <1>18 DEF ConnectFails, Fault
  <2>2. QED
    BY SMTT(30), <2>1, MarkType DEF TypeOK, ProduceInv, storage, LogEnd, Ack
<1>19. ASSUME NEW f \in Followers, ReplicateFails(f) PROVE TypeInv'
  <2>1. /\ sender' = [sender EXCEPT ![f] = [IdleSender EXCEPT !.connected = TRUE]]
        /\ faults' = faults + 1
        /\ UNCHANGED <<storage, replica, up, worker, late, produced>>
    BY Zenon, <1>19 DEF ReplicateFails, Fault, SetSender
  <2>2. sender' \in [Followers -> [pc : {"idle", "sent", "answered", "lost"}, connected : BOOLEAN,
                                   req : Request, resp : [leo : Nat, flushed : Nat]]]
    BY Zenon, <1>c, <2>1 DEF IdleSender, NoResponse, TypeOK
  <2>3. QED
    BY SMTT(30), <2>1, <2>2 DEF TypeOK, ProduceInv, storage, replica, LogEnd
<1>20. CASE ProduceFails
  BY SMTT(30), <1>20 DEF ProduceFails, Fault, IdleWorker, AckMode, TypeOK, ProduceInv, storage, replica, LogEnd
<1>21. ASSUME NEW b \in Replicas, Crash(b) PROVE TypeInv'
  <2>1. PICK torn \in TornTails(b) :
          /\ log' = [log EXCEPT ![b] = @ \o torn]
          /\ produced' = IF b = Leader THEN produced + Len(torn) ELSE produced
    BY Zenon, <1>21 DEF Crash
  <2>2. /\ torn \in Seq(Record) /\ Len(torn) \in Nat
        /\ b = Leader => produced + Len(torn) <= MaxRecords
    BY Zenon, <2>1, TornTailsType
  <2>3. log[b] \o torn \in Seq(Record)
    BY Zenon, <2>2, SeqConcat DEF TypeOK
  <2>4. LoseMemory(b) /\ UNCHANGED <<logStart, disk, flushed, acked>> /\ faults' = faults + 1
    BY Zenon, <1>21 DEF Crash, Fault
  <2>5. log' \in [Replicas -> Seq(Record)] /\ produced' \in 0..MaxRecords
    BY SMTT(30), <2>1, <2>2, <2>3, ConstantsAssumption DEF TypeOK
  <2>6. TypeOK'
    <3>1. StorageTypeOK'
      BY <2>4, <2>5 DEF StorageTypeOK, TypeOK, Ack
    <3>2. QED
      BY Zenon, <3>1, <2>4, LoseMemoryTypeOK
  <2>7. ProduceInv'
    <3>1. CASE b = Leader
      BY SMTT(30), <2>4, <3>1, LoseMemoryType DEF ProduceInv, IdleWorker
    <3>2. CASE b # Leader
      <4>1. log'[Leader] = log[Leader] /\ produced' = produced
        BY SMTT(30), <2>1, <3>2 DEF TypeOK
      <4>2. QED
        BY Zenon, <2>4, <3>2, <4>1, LoseMemoryType DEF ProduceInv, LogEnd
    <3>3. QED
      BY Zenon, <3>1, <3>2
  <2>8. QED
    BY Zenon, <2>6, <2>7
<1>22. ASSUME NEW b \in Replicas, PowerLoss(b) PROVE TypeInv'
  <2>1. PICK n \in disk[b]..LogEnd(b) :
          /\ log' = [log EXCEPT ![b] = SubSeq(@, 1, n)]
          /\ disk' = [disk EXCEPT ![b] = n]
          /\ flushed' = [flushed EXCEPT ![b] = n]
    BY Zenon, <1>22 DEF PowerLoss
  <2>2. log[b] \in Seq(Record) /\ LogEnd(b) \in Nat /\ n \in Nat /\ n <= LogEnd(b)
    BY <2>1, SeqLen DEF TypeOK, LogEnd
  <2>3. \A i \in 1..n : log[b][i] \in Record
    BY SMTT(30), <2>2, SeqLen DEF LogEnd
  <2>4. SubSeq(log[b], 1, n) \in Seq(Record)
    BY SMTT(30), <2>2, <2>3, SeqPart
  <2>5. LoseMemory(b) /\ UNCHANGED <<logStart, produced, acked>> /\ faults' = faults + 1
    BY Zenon, <1>22 DEF PowerLoss, Fault
  <2>6. TypeOK'
    <3>1. StorageTypeOK'
      BY SMTT(30), <2>1, <2>2, <2>4, <2>5 DEF StorageTypeOK, TypeOK, Ack
    <3>2. QED
      BY Zenon, <3>1, <2>5, LoseMemoryTypeOK
  <2>7. ProduceInv'
    <3>1. CASE b = Leader
      BY SMTT(30), <2>5, <3>1, LoseMemoryType DEF ProduceInv, IdleWorker
    <3>2. CASE b # Leader
      <4>1. log'[Leader] = log[Leader]
        BY <2>1, <3>2 DEF TypeOK
      <4>2. QED
        BY Zenon, <2>5, <3>2, <4>1, LoseMemoryType DEF ProduceInv, LogEnd
    <3>3. QED
      BY Zenon, <3>1, <3>2
  <2>8. QED
    BY Zenon, <2>6, <2>7
<1>23. ASSUME NEW b \in Replicas, Stop(b) PROVE TypeInv'
  <2>1. LogEnd(b) \in Nat
    BY Zenon, SeqLen DEF TypeOK, LogEnd
  <2>2. /\ LoseMemory(b) /\ UNCHANGED <<log, logStart, produced, acked>> /\ faults' = faults + 1
        /\ disk' = [disk EXCEPT ![b] = LogEnd(b)]
        /\ flushed' = [flushed EXCEPT ![b] = LogEnd(b)]
    BY Zenon, <1>23 DEF Stop, Fault
  <2>3. TypeOK'
    <3>1. StorageTypeOK'
      BY <2>1, <2>2 DEF StorageTypeOK, TypeOK, Ack
    <3>2. QED
      BY Zenon, <3>1, <2>2, LoseMemoryTypeOK
  <2>4. ProduceInv'
    <3>1. CASE b = Leader
      BY SMTT(30), <2>2, <3>1, LoseMemoryType DEF ProduceInv, IdleWorker
    <3>2. CASE b # Leader
      BY Zenon, <2>2, <3>2, LoseMemoryType DEF ProduceInv, LogEnd
    <3>3. QED
      BY Zenon, <3>1, <3>2
  <2>5. QED
    BY Zenon, <2>3, <2>4
<1>24. CASE UNCHANGED vars
  BY Zenon, <1>24 DEF vars, storage, replica, TypeOK, ProduceInv, LogEnd
<1>25. QED
  BY ZenonT(30), <1>1, <1>2, <1>3, <1>4, <1>5, <1>6, <1>7, <1>8, <1>9, <1>10, <1>11, <1>12, <1>13, <1>14,
     <1>15, <1>16, <1>17, <1>18, <1>19, <1>20, <1>21, <1>22, <1>23, <1>24
     DEF Next, Produce, Sender, Flusher, Failure

\* The initial state satisfies the strengthened type invariant.
LEMMA TypeInit == Init => TypeInv
<1> SUFFICES ASSUME Init PROVE TypeInv
  BY Zenon
<1>1. NoRequest \in Request /\ <<>> \in Seq(Record)
  BY Zenon, SeqEmpty DEF NoRequest, Request
<1>2. ProduceInv
  BY Zenon DEF Init, ProduceInv, IdleWorker
<1>3. TypeOK
  BY <1>1, ConstantsAssumption
     DEF Init, TypeOK, IdleFlusher, NewFollower, FollowerState, IdleWorker, IdleSender,
         NoResponse, AckMode
<1>4. QED
  BY Zenon, <1>2, <1>3 DEF TypeInv

\* The strengthened type invariant holds throughout.
LEMMA TypeInvariant == Spec => []TypeInv
<1>1. Init => TypeInv
  BY Zenon, TypeInit
<1>2. TypeInv /\ [Next]_vars => TypeInv'
  BY Zenon, TypeStep
<1>3. QED
  BY <1>1, <1>2, PTL DEF Spec

\* Whatever brokers, network and failures do, every variable stays in its
\* domain; in particular every acknowledgement names an offset that is in the
\* leader's log at that moment.
THEOREM TypeCorrect == Spec => []TypeOK
<1>1. TypeInv => TypeOK
  BY Zenon DEF TypeInv
<1>2. QED
  BY <1>1, TypeInvariant, PTL
-----------------------------------------------------------------------------
(***************************************************************************)
(* What replication guarantees about data, proved for any number of        *)
(* followers and any bounds.  The first part says, one variable at a time, *)
(* what a single step can do; the invariants then follow without looking   *)
(* at the actions again.                                                   *)
(***************************************************************************)
InFlight(f) == late[f] \cup StillOnTheWay(f)

\* Logs change by the leader's append, by an executed REPLICATE request and
\* by failures only.
LEMMA LogSteps ==
  ASSUME [Next]_vars
  PROVE  \/ UNCHANGED log
         \/ ProduceAppend
         \/ \E f \in Followers : ExecuteReplicate(f) \/ ExecuteLate(f)
         \/ \E b \in Replicas : Crash(b) \/ PowerLoss(b)
<1>1. CASE UNCHANGED vars
  BY Zenon, <1>1 DEF vars, storage
<1>2. CASE Produce
  BY Zenon, <1>2 DEF Produce, ProduceCheck, ProduceNotify, ProduceWait, storage
<1>3. CASE ExpireWaiters \/ EnforceRetention
  BY Zenon, <1>3 DEF ExpireWaiters, EnforceRetention, storage
<1>4. CASE \E b \in Replicas : Flusher(b) \/ Restart(b)
  BY Zenon, <1>4 DEF Flusher, FlushStart, FlushSync, FlushComplete, Restart
<1>5. CASE \E f \in Followers : Sender(f)
  BY Zenon, <1>5 DEF Sender, EnsureConnected, SendPending, ReceiveResponse, ConnectionLost, storage
<1>6. CASE \E f \in Followers : ExecuteReplicate(f) \/ ExecuteLate(f)
  BY Zenon, <1>6
<1>7. CASE Failure
  BY Zenon, <1>7 DEF Failure, CallFails, ConnectFails, ReplicateFails, ProduceFails, Stop, storage
<1>8. QED
  BY Zenon, <1>1, <1>2, <1>3, <1>4, <1>5, <1>6, <1>7 DEF Next

\* Appending a sequence leaves what was there and adds its elements.
LEMMA AppendedSeq ==
  ASSUME NEW s \in Seq(Record), NEW t \in Seq(Record)
  PROVE  /\ s \o t \in Seq(Record) /\ Len(s \o t) = Len(s) + Len(t)
         /\ Len(s) \in Nat /\ Len(t) \in Nat
         /\ HoldsPrefixOf(s, s \o t)
         /\ \A i \in 1..Len(s \o t) : i > Len(s) => (s \o t)[i] = t[i - Len(s)]
<1>1. Len(s) \in Nat /\ Len(t) \in Nat
  BY Zenon, SeqLen
<1>2. /\ s \o t \in Seq(Record) /\ Len(s \o t) = Len(s) + Len(t)
      /\ \A i \in 1..(Len(s) + Len(t)) :
           (s \o t)[i] = IF i <= Len(s) THEN s[i] ELSE t[i - Len(s)]
  BY Zenon, SeqConcat
<1>3. QED
  BY <1>1, <1>2 DEF HoldsPrefixOf

\* The first records of a sequence.
LEMMA FirstOfSeq ==
  ASSUME NEW s \in Seq(Record), NEW n \in 0..Len(s)
  PROVE  /\ SubSeq(s, 1, n) \in Seq(Record) /\ Len(SubSeq(s, 1, n)) = n
         /\ \A i \in 1..n : SubSeq(s, 1, n)[i] = s[i]
<1>1. n \in Int /\ Len(s) \in Nat
  BY SeqLen
<1>2. \A i \in 1..n : s[i] \in Record
  BY <1>1, SeqLen
<1>3. QED
  BY <1>1, <1>2, SeqPart

\* A leader that never loses power never loses a record of its log: nothing
\* the code does rewrites or truncates it.
LEMMA LeaderLogGrows ==
  ASSUME TypeInv, Leader \notin MayLosePower, [Next]_vars
  PROVE  HoldsPrefixOf(log[Leader], log'[Leader])
<1>0. Leader \in Replicas /\ log \in [Replicas -> Seq(Record)] /\ log[Leader] \in Seq(Record)
  BY Zenon DEF Replicas, TypeInv, TypeOK
<1>1. CASE log'[Leader] = log[Leader]
  BY SMTT(30), <1>0, <1>1, SeqLen DEF HoldsPrefixOf
<1>2. CASE ProduceAppend
  <2>1. NextRecords(worker.size) \in Seq(Record)
    BY Zenon, <1>2, NextRecordsType DEF ProduceAppend, TypeInv, TypeOK, ProduceInv
  <2>2. log'[Leader] = log[Leader] \o NextRecords(worker.size)
    BY Zenon, <1>0, <1>2 DEF ProduceAppend
  <2>3. QED
    BY Zenon, <1>0, <2>1, <2>2, AppendedSeq
<1>3. ASSUME NEW f \in Followers, ExecuteReplicate(f) \/ ExecuteLate(f)
      PROVE  log'[Leader] = log[Leader]
  BY Zenon, <1>0, <1>3, ReplicaSetAssumption DEF ExecuteReplicate, ExecuteLate, AppendReplicated
<1>4. ASSUME NEW b \in Replicas, Crash(b)
      PROVE  HoldsPrefixOf(log[Leader], log'[Leader])
  <2>1. PICK torn \in TornTails(b) : log' = [log EXCEPT ![b] = @ \o torn]
    BY Zenon, <1>4 DEF Crash
  <2>2. torn \in Seq(Record)
    BY Zenon, <2>1, TornTailsType
  <2>3. CASE b = Leader
    <3>1. log'[Leader] = log[Leader] \o torn
      BY Zenon, <1>0, <2>1, <2>3
    <3>2. QED
      BY Zenon, <1>0, <2>2, <3>1, AppendedSeq
  <2>4. CASE b # Leader
    BY Zenon, <1>0, <1>1, <2>1, <2>4
  <2>5. QED
    BY Zenon, <2>3, <2>4
<1>5. ASSUME NEW b \in Replicas, PowerLoss(b)
      PROVE  log'[Leader] = log[Leader]
  BY Zenon, <1>0, <1>5 DEF PowerLoss
<1>6. CASE UNCHANGED log
  BY Zenon, <1>1, <1>6
<1>7. QED
  BY Zenon, <1>1, <1>2, <1>3, <1>4, <1>5, <1>6, LogSteps

\* A record at some offset of a follower's log was there before the step or
\* comes from a request for exactly that offset.
LEMMA FollowerLogStep ==
  ASSUME TypeInv, [Next]_vars, NEW f \in Followers
  PROVE  \A i \in 1..Len(log'[f]) :
           \/ i <= Len(log[f]) /\ log'[f][i] = log[f][i]
           \/ \E r \in InFlight(f) : i - r.base \in 1..Len(r.recs) /\ log'[f][i] = r.recs[i - r.base]
<1>0. f \in Replicas /\ log \in [Replicas -> Seq(Record)] /\ log[f] \in Seq(Record) /\ f # Leader
  BY Zenon, ReplicaSetAssumption DEF Replicas, TypeInv, TypeOK
<1>1. CASE log'[f] = log[f]
  BY <1>0, <1>1, SeqLen
<1>2. ASSUME NEW r \in InFlight(f), r.base = Len(log[f]), NEW t \in Seq(Record),
             log'[f] = log[f] \o t, Len(t) <= Len(r.recs), \A i \in 1..Len(t) : t[i] = r.recs[i]
      PROVE  \A i \in 1..Len(log'[f]) :
               \/ i <= Len(log[f]) /\ log'[f][i] = log[f][i]
               \/ i - r.base \in 1..Len(r.recs) /\ log'[f][i] = r.recs[i - r.base]
  <2>1. r.recs \in Seq(Record)
    BY DEF InFlight, StillOnTheWay, TypeInv, TypeOK, Request
  <2>2. Len(r.recs) \in Nat
    BY Zenon, <2>1, SeqLen
  <2>3. /\ Len(log'[f]) = Len(log[f]) + Len(t) /\ Len(log[f]) \in Nat /\ Len(t) \in Nat
        /\ \A i \in 1..Len(log[f]) : log[f][i] = log'[f][i]
        /\ \A i \in 1..Len(log'[f]) : i > Len(log[f]) => log'[f][i] = t[i - Len(log[f])]
    <3> DEFINE s == log[f]
               u == log[f] \o t
    <3>1. /\ Len(u) = Len(s) + Len(t) /\ Len(s) \in Nat /\ Len(t) \in Nat
          /\ HoldsPrefixOf(s, u)
          /\ \A i \in 1..Len(u) : i > Len(s) => u[i] = t[i - Len(s)]
      BY Zenon, <1>0, <1>2, AppendedSeq
    <3>2. u = log'[f]
      BY Zenon, <1>2
    <3> HIDE DEF u, s
    <3>3. /\ Len(u) = Len(s) + Len(t) /\ Len(s) \in Nat /\ Len(t) \in Nat
          /\ \A i \in 1..Len(s) : s[i] = u[i]
          /\ \A i \in 1..Len(u) : i > Len(s) => u[i] = t[i - Len(s)]
      BY Zenon, <3>1 DEF HoldsPrefixOf
    <3>4. QED
      BY Zenon, <3>2, <3>3 DEF s
  <2>4. ASSUME NEW i \in 1..Len(log'[f]), ~(i <= Len(log[f]))
        PROVE  i - r.base \in 1..Len(r.recs) /\ log'[f][i] = r.recs[i - r.base]
    <3>1. i > Len(log[f]) /\ i - Len(log[f]) \in 1..Len(t)
      BY <2>3, <2>4
    <3>2. 1..Len(t) \subseteq 1..Len(r.recs)
      BY <1>2, <2>2, <2>3
    <3>3. QED
      BY Zenon, <1>2, <2>3, <2>4, <3>1, <3>2
  <2>5. ASSUME NEW i \in 1..Len(log'[f]), i <= Len(log[f])
        PROVE  log'[f][i] = log[f][i]
    <3>1. i \in 1..Len(log[f])
      BY <2>3, <2>5
    <3>2. QED
      BY Zenon, <2>3, <3>1
  <2>6. QED
    BY Zenon, <2>4, <2>5
<1>3. ASSUME NEW g \in Followers, NEW r \in InFlight(g), AppendReplicated(g, r)
      PROVE  log'[f] = log[f] \/ (g = f /\ r.base = Len(log[f]) /\ log'[f] = log[f] \o r.recs)
  BY Zenon, <1>0, <1>3 DEF AppendReplicated, Accepts, LogEnd
<1>4. ASSUME NEW g \in Followers, ExecuteReplicate(g) \/ ExecuteLate(g)
      PROVE  \E r \in InFlight(g) : AppendReplicated(g, r)
  BY Zenon, <1>4 DEF ExecuteReplicate, ExecuteLate, InFlight, StillOnTheWay
<1>5. ASSUME NEW r \in InFlight(f) PROVE r.recs \in Seq(Record) /\ Len(r.recs) \in Nat
  BY <1>5, SeqLen DEF InFlight, StillOnTheWay, TypeInv, TypeOK, Request
<1>6. CASE \E g \in Followers : ExecuteReplicate(g) \/ ExecuteLate(g)
  <2>1. PICK g \in Followers : \E r \in InFlight(g) : AppendReplicated(g, r)
    BY Zenon, <1>4, <1>6
  <2>2. PICK r \in InFlight(g) : AppendReplicated(g, r)
    BY Zenon, <2>1
  <2>3. CASE g = f /\ r.base = Len(log[f]) /\ log'[f] = log[f] \o r.recs
    <3>1. r \in InFlight(f) /\ r.base = Len(log[f]) /\ log'[f] = log[f] \o r.recs
      BY Zenon, <2>2, <2>3
    <3>2. r.recs \in Seq(Record) /\ Len(r.recs) <= Len(r.recs)
      BY SMTT(30), <1>5, <3>1
    <3>3. QED
      BY Zenon, <1>2, <3>1, <3>2
  <2>4. QED
    BY Zenon, <1>1, <1>3, <2>2, <2>3
<1>7. ASSUME NEW b \in Replicas, Crash(b), b = f
      PROVE \/ log'[f] = log[f]
            \/ \E r \in InFlight(f) : \E n \in 0..Len(r.recs) :
                 r.base = Len(log[f]) /\ log'[f] = log[f] \o SubSeq(r.recs, 1, n)
  <2>1. PICK torn \in TornTails(b) : log' = [log EXCEPT ![b] = @ \o torn]
    BY Zenon, <1>7 DEF Crash
  <2>2. CASE torn = <<>>
    BY Zenon, <1>0, <1>7, <2>1, <2>2, SeqConcatEmpty
  <2>3. CASE \E w \in Writing(b) : \E n \in 1..Len(w) : torn = SubSeq(w, 1, n)
    <3>1. PICK w \in Writing(b) : \E n \in 1..Len(w) : torn = SubSeq(w, 1, n)
      BY Zenon, <2>3
    <3>2. PICK n \in 1..Len(w) : torn = SubSeq(w, 1, n)
      BY Zenon, <3>1
    <3>3. PICK r \in InFlight(f) : r.base = Len(log[f]) /\ w = r.recs
      BY Zenon, <1>0, <1>7, <3>1 DEF Writing, InFlight, Accepts, LogEnd
    <3>4. n \in 0..Len(r.recs)
      BY SMTT(30), <1>5, <3>2, <3>3
    <3>5. log'[f] = log[f] \o SubSeq(r.recs, 1, n)
      BY Zenon, <1>0, <1>7, <2>1, <3>2, <3>3
    <3>6. QED
      BY Zenon, <3>3, <3>4, <3>5
  <2>4. QED
    BY Zenon, <2>1, <2>2, <2>3 DEF TornTails
<1>8. ASSUME NEW b \in Replicas, Crash(b) \/ PowerLoss(b), b # f
      PROVE  log'[f] = log[f]
  BY Zenon, <1>0, <1>8 DEF Crash, PowerLoss
<1>9. CASE \E b \in Replicas : Crash(b)
  <2>1. PICK b \in Replicas : Crash(b)
    BY Zenon, <1>9
  <2>2. CASE \E r \in InFlight(f) : \E n \in 0..Len(r.recs) :
               r.base = Len(log[f]) /\ log'[f] = log[f] \o SubSeq(r.recs, 1, n)
    <3>1. PICK r \in InFlight(f) : \E n \in 0..Len(r.recs) :
               r.base = Len(log[f]) /\ log'[f] = log[f] \o SubSeq(r.recs, 1, n)
      BY Zenon, <2>2
    <3>2. PICK n \in 0..Len(r.recs) :
               r.base = Len(log[f]) /\ log'[f] = log[f] \o SubSeq(r.recs, 1, n)
      BY Zenon, <3>1
    <3> DEFINE t == SubSeq(r.recs, 1, n)
    <3>3. t \in Seq(Record) /\ Len(t) = n /\ \A i \in 1..Len(t) : t[i] = r.recs[i]
      BY Zenon, <1>5, FirstOfSeq
    <3>4. n <= Len(r.recs) /\ r.base = Len(log[f]) /\ log'[f] = log[f] \o t
      BY SMTT(30), <1>5, <3>2
    <3> HIDE DEF t
    <3>5. QED
      BY Zenon, <1>2, <3>3, <3>4
  <2>3. QED
    BY Zenon, <1>1, <1>7, <1>8, <2>1, <2>2
<1>10. ASSUME NEW b \in Replicas, PowerLoss(b), b = f
       PROVE  \A i \in 1..Len(log'[f]) : i <= Len(log[f]) /\ log'[f][i] = log[f][i]
  <2>1. disk[f] \in Nat /\ Len(log[f]) \in Nat
    BY Zenon, <1>0, SeqLen DEF TypeInv, TypeOK
  <2>2. PICK n \in disk[f]..Len(log[f]) : log'[f] = SubSeq(log[f], 1, n)
    BY Zenon, <1>0, <1>10 DEF PowerLoss, LogEnd
  <2>3. n \in 0..Len(log[f])
    BY SMTT(30), <2>1, <2>2
  <2>4. QED
    BY SMTT(30), <1>0, <2>1, <2>2, <2>3, FirstOfSeq
<1>11. CASE UNCHANGED log \/ ProduceAppend
  BY Zenon, <1>0, <1>1, <1>11 DEF ProduceAppend
<1>12. QED
  BY Zenon, <1>1, <1>6, <1>8, <1>9, <1>10, <1>11, LogSteps

\* A request in flight was in flight before the step or has just been read
\* from the leader's log.
LEMMA RequestStep ==
  ASSUME TypeInv, [Next]_vars, NEW f \in Followers, NEW r \in InFlight(f)'
  PROVE  \/ r \in InFlight(f)
         \/ UNCHANGED log /\ \E n \in BatchSizes(f) : r = ReplicateRequest(f, n)
<1>0. /\ sender \in [Followers -> [pc : {"idle", "sent", "answered", "lost"}, connected : BOOLEAN,
                                  req : Request, resp : [leo : Nat, flushed : Nat]]]
      /\ late \in [Followers -> SUBSET Request]
  BY Zenon DEF TypeInv, TypeOK
<1>1. ASSUME UNCHANGED <<sender, late>> PROVE r \in InFlight(f)
  BY Zenon, <1>1 DEF InFlight, StillOnTheWay
<1>2. ASSUME NEW g \in Followers, NEW s,
             sender' = [sender EXCEPT ![g] = s], s.pc # "sent",
             late'[f] \subseteq InFlight(f)
      PROVE  r \in InFlight(f)
  BY Zenon, <1>0, <1>2 DEF InFlight, StillOnTheWay
<1>3. CASE UNCHANGED vars
  BY Zenon, <1>1, <1>3 DEF vars
<1>4. CASE Produce \/ ExpireWaiters \/ EnforceRetention
  BY Zenon, <1>1, <1>4 DEF Produce, ProduceCheck, ProduceAppend, ProduceNotify, ProduceWait,
                    ExpireWaiters, EnforceRetention
<1>5. CASE \E b \in Replicas : Flusher(b) \/ Restart(b)
  BY Zenon, <1>1, <1>5 DEF Flusher, FlushStart, FlushSync, FlushComplete, Restart
<1>6. ASSUME NEW g \in Followers, EnsureConnected(g) \/ ReceiveResponse(g) \/ ConnectionLost(g)
      PROVE  r \in InFlight(f)
  <2>1. late'[f] \subseteq InFlight(f)
    BY Zenon, <1>6 DEF EnsureConnected, ReceiveResponse, ConnectionLost, InFlight
  <2>2. IdleSender.pc # "sent" /\ [IdleSender EXCEPT !.connected = TRUE].pc # "sent"
    BY Zenon DEF IdleSender
  <2>3. \/ UNCHANGED <<sender, late>>
        \/ sender' = [sender EXCEPT ![g] = IdleSender]
        \/ sender' = [sender EXCEPT ![g] = [IdleSender EXCEPT !.connected = TRUE]]
    BY Zenon, <1>6 DEF EnsureConnected, ReceiveResponse, ConnectionLost, SetSender
  <2>4. QED
    BY Zenon, <1>1, <1>2, <2>1, <2>2, <2>3
<1>7. ASSUME NEW g \in Followers, SendPending(g)
      PROVE  r \in InFlight(f) \/ (UNCHANGED log /\ \E n \in BatchSizes(f) : r = ReplicateRequest(f, n))
  <2>1. UNCHANGED <<log, late>>
    BY Zenon, <1>7 DEF SendPending, storage
  <2>2. PICK n \in BatchSizes(g) :
          sender' = [sender EXCEPT ![g] = [sender[g] EXCEPT !.pc = "sent",
                                                            !.req = ReplicateRequest(g, n)]]
    BY Zenon, <1>7 DEF SendPending, SetSender
  <2>3. QED
    BY SMTT(30), <1>0, <2>1, <2>2 DEF InFlight, StillOnTheWay
<1>8. ASSUME NEW g \in Followers, ExecuteReplicate(g)
      PROVE  r \in InFlight(f)
  <2> DEFINE s == [sender[g] EXCEPT !.pc = "answered", !.req = NoRequest,
                                    !.resp = [leo |-> Len(log'[g]), flushed |-> flushed[g]]]
  <2>1. sender' = [sender EXCEPT ![g] = s] /\ s.pc = "answered"
    BY Zenon, <1>0, <1>8 DEF ExecuteReplicate, SetSender
  <2> HIDE DEF s
  <2>2. late'[f] \subseteq InFlight(f)
    BY Zenon, <1>8 DEF ExecuteReplicate, InFlight
  <2>3. QED
    BY Zenon, <1>2, <2>1, <2>2
<1>9. ASSUME NEW g \in Followers, ExecuteLate(g)
      PROVE  r \in InFlight(f)
  BY ZenonT(30), <1>0, <1>9 DEF ExecuteLate, InFlight, StillOnTheWay
<1>10. ASSUME NEW g \in Followers, CallFails(g) \/ ConnectFails(g) \/ ReplicateFails(g)
       PROVE  r \in InFlight(f)
  <2>1. late'[f] \subseteq InFlight(f)
    BY ZenonT(30), <1>0, <1>10 DEF CallFails, ConnectFails, ReplicateFails, InFlight
  <2>2. IdleSender.pc # "sent" /\ [IdleSender EXCEPT !.connected = TRUE].pc # "sent"
    BY Zenon DEF IdleSender
  <2>3. \/ UNCHANGED <<sender, late>>
        \/ sender' = [sender EXCEPT ![g] = IdleSender]
        \/ sender' = [sender EXCEPT ![g] = [IdleSender EXCEPT !.connected = TRUE]]
    BY Zenon, <1>10 DEF CallFails, ConnectFails, ReplicateFails, SetSender
  <2>4. QED
    BY Zenon, <1>1, <1>2, <2>1, <2>2, <2>3
<1>11. ASSUME NEW b \in Replicas, LoseMemory(b)
       PROVE  r \in InFlight(f)
  <2>1. IdleSender.pc # "sent" /\ [IdleSender EXCEPT !.pc = "lost", !.connected = TRUE].pc # "sent"
    BY Zenon DEF IdleSender
  <2>2. CASE b = Leader
    <3>1. sender'[f] = IdleSender /\ late'[f] = InFlight(f)
      BY Zenon, <1>0, <1>11, <2>2 DEF LoseMemory, InFlight
    <3>2. QED
      BY Zenon, <2>1, <3>1 DEF InFlight, StillOnTheWay
  <2>3. CASE b # Leader
    <3>1. /\ b \in Followers /\ late' = [late EXCEPT ![b] = {}]
          /\ \/ sender' = [sender EXCEPT ![b] = [IdleSender EXCEPT !.pc = "lost", !.connected = TRUE]]
             \/ sender' = [sender EXCEPT ![b] = sender[b]]
      BY Zenon, <1>11, <2>3 DEF LoseMemory, SetSender, Replicas
    <3>2. late'[f] \subseteq InFlight(f)
      BY Zenon, <1>0, <3>1 DEF InFlight
    <3>3. CASE sender' = [sender EXCEPT ![b] = sender[b]]
      BY Zenon, <1>0, <3>2, <3>3 DEF InFlight, StillOnTheWay
    <3>4. QED
      BY Zenon, <1>2, <2>1, <3>1, <3>2, <3>3
  <2>4. QED
    BY Zenon, <2>2, <2>3
<1>12. CASE Failure
  BY ZenonT(30), <1>1, <1>10, <1>11, <1>12 DEF Failure, ProduceFails, Crash, PowerLoss, Stop
<1>13. QED
  BY ZenonT(30), <1>3, <1>4, <1>5, <1>6, <1>7, <1>8, <1>9, <1>12 DEF Next, Sender

\* What an acknowledgement rests on when it is given: the record is in the
\* leader's log and, for acks=quorum, the leader believes a majority has
\* flushed it.
Justified(a, g) ==
  /\ a.offset \in Nat /\ a.offset < LogEnd(Leader)
  /\ a.rec = log[Leader][a.offset + 1]
  /\ a.mode = "quorum" => Cardinality(Persisted(a.offset, flushed[Leader], g)) >= QuorumSize

\* A critical section of PartitionReplica acknowledges justified requests only.
LEMMA CompleteWithJustified ==
  ASSUME NEW ws \in SUBSET Waiter, NEW g, \A w \in ws : w.offset < LogEnd(Leader),
         CompleteWith(ws, g), NEW a \in acked' \ acked
  PROVE  fol' = g /\ Justified(a, g)
<1>1. fol' = g /\ a \in Acknowledged(SatisfiedWaiters(ws, LogEnd(Leader), flushed[Leader], g))
  BY Zenon DEF CompleteWith
<1>2. PICK w \in ws : /\ Satisfied(w, LogEnd(Leader), flushed[Leader], g)
                      /\ a = [offset |-> w.offset, mode |-> w.mode, rec |-> log[Leader][w.offset + 1]]
  BY Zenon, <1>1 DEF Acknowledged, SatisfiedWaiters
<1>3. w.offset \in Nat /\ w.offset < LogEnd(Leader)
  BY Zenon, <1>2 DEF Waiter
<1>4. w.mode = "quorum" => Cardinality(Persisted(w.offset, flushed[Leader], g)) >= QuorumSize
  BY Zenon, <1>2 DEF Satisfied
<1>5. QED
  BY Zenon, <1>1, <1>2, <1>3, <1>4 DEF Justified

\* Every new acknowledgement is justified, and no step that acknowledges
\* touches a log.
LEMMA AckStep ==
  ASSUME TypeInv, [Next]_vars, NEW a \in acked' \ acked
  PROVE  UNCHANGED <<log, logStart, disk, flushed>> /\ Justified(a, fol')
<1>0. waiters \in SUBSET Waiter /\ \A w \in waiters : w.offset < LogEnd(Leader)
  BY Zenon DEF TypeInv, TypeOK, ProduceInv
<1>1. ASSUME NEW g, CompleteWith(waiters, g) PROVE Justified(a, fol')
  <2>1. fol' = g /\ Justified(a, g)
    BY Zenon, <1>0, <1>1, CompleteWithJustified
  <2>2. QED
    BY Zenon, <2>1
<1>2. ASSUME NEW f \in Followers, MarkFollowerOutOfSync(f) PROVE Justified(a, fol')
  BY Zenon, <1>1, <1>2 DEF MarkFollowerOutOfSync, replica
<1>3. CASE ProduceNotify
  <2>1. CompleteWith(waiters, fol)
    BY Zenon, <1>3 DEF ProduceNotify, OnLeaderAppend
  <2>2. QED
    BY Zenon, <1>1, <1>3, <2>1 DEF ProduceNotify, storage
<1>4. CASE ProduceWait
  <2> DEFINE w == [offset |-> worker.last, mode |-> worker.mode]
  <2>1. w \in Waiter /\ w.offset < LogEnd(Leader)
    BY Zenon, <1>4 DEF ProduceWait, TypeInv, TypeOK, ProduceInv, Waiter
  <2>2. CompleteWith(waiters \cup {w}, fol)
    BY Zenon, <1>4 DEF ProduceWait, AddWaiter
  <2> HIDE DEF w
  <2>3. waiters \cup {w} \in SUBSET Waiter /\ \A v \in waiters \cup {w} : v.offset < LogEnd(Leader)
    BY Zenon, <1>0, <2>1
  <2>4. fol' = fol /\ Justified(a, fol)
    BY Zenon, <2>2, <2>3, CompleteWithJustified
  <2>5. QED
    BY Zenon, <1>4, <2>4 DEF ProduceWait, storage
<1>5. CASE FlushComplete
  <2>1. CompleteWith(waiters, fol)
    BY Zenon, <1>5 DEF FlushComplete, CompleteSatisfiedWaiters
  <2>2. QED
    BY Zenon, <1>1, <1>5, <2>1 DEF FlushComplete
<1>6. ASSUME NEW f \in Followers, EnsureConnected(f) \/ ConnectFails(f)
      PROVE  UNCHANGED storage /\ Justified(a, fol')
  BY Zenon, <1>2, <1>6 DEF EnsureConnected, ConnectFails, replica
<1>7. ASSUME NEW f \in Followers, ReceiveResponse(f)
      PROVE  UNCHANGED storage /\ Justified(a, fol')
  <2>1. CompleteWith(waiters, WithProgress(fol, f, sender[f].resp.leo, sender[f].resp.flushed))
    BY Zenon, <1>7 DEF ReceiveResponse, OnFollowerProgress
  <2>2. QED
    BY Zenon, <1>1, <1>7, <2>1 DEF ReceiveResponse
<1>8. CASE UNCHANGED vars
  BY Zenon, <1>8 DEF vars, replica
<1>9. CASE ExpireWaiters \/ EnforceRetention
  BY Zenon, <1>9 DEF ExpireWaiters, EnforceRetention, replica
<1>10. ASSUME NEW b \in Replicas, FlushStart(b) \/ FlushSync(b) \/ Restart(b) PROVE FALSE
  BY Zenon, <1>10 DEF FlushStart, FlushSync, Restart, replica
<1>11. ASSUME NEW f \in Followers,
              \/ SendPending(f) \/ ConnectionLost(f) \/ ExecuteReplicate(f) \/ ExecuteLate(f)
              \/ CallFails(f) \/ ReplicateFails(f)
       PROVE FALSE
  BY Zenon, <1>11 DEF SendPending, ConnectionLost, ExecuteReplicate, ExecuteLate, CallFails,
               ReplicateFails, replica
<1>12. ASSUME NEW b \in Replicas, Crash(b) \/ PowerLoss(b) \/ Stop(b) PROVE FALSE
  BY Zenon, <1>12 DEF Crash, PowerLoss, Stop
<1>13. ASSUME \/ ProduceFails \/ ProduceAppend
              \/ \E n \in 1..MaxBatch, mode \in Modes : ProduceCheck(n, mode)
       PROVE FALSE
  BY Zenon, <1>13 DEF ProduceFails, ProduceAppend, ProduceCheck, replica
<1>14. QED
  BY ZenonT(30), <1>3, <1>4, <1>5, <1>6, <1>7, <1>8, <1>9, <1>10, <1>11, <1>12, <1>13
     DEF Next, Produce, Sender, Flusher, Failure, storage
-----------------------------------------------------------------------------
(***************************************************************************)
(* Agreement.  ReplicasAgree is not inductive: a request that was read     *)
(* from the leader's log may be executed long after its sender gave up, so *)
(* every request still in flight must agree with the leader's log too.     *)
(***************************************************************************)
FromLeader(r) ==
  \A i \in 1..Len(r.recs) : r.base + i <= LogEnd(Leader) /\ r.recs[i] = log[Leader][r.base + i]

AgreeInv ==
  /\ ReplicasAgree
  /\ \A f \in Followers : \A r \in InFlight(f) : FromLeader(r)
  /\ AckedNotLost

\* What SendPending reads is what the leader's log holds there.
LEMMA ReplicateRequestFromLeader ==
  ASSUME TypeInv, NEW f \in Followers, NEW n \in BatchSizes(f)
  PROVE  FromLeader(ReplicateRequest(f, n))
<1>1. LogEnd(Leader) \in Nat /\ log[Leader] \in Seq(Record)
  BY Zenon, SeqLen DEF TypeInv, TypeOK, Replicas, LogEnd
<1>2. SendFrom(f) \in Nat
  BY Zenon, LargerOfBounds DEF SendFrom, TypeInv, TypeOK, FollowerState
<1>3. n \in Nat /\ (n = 0 \/ SendFrom(f) + n <= LogEnd(Leader))
  BY <1>1, <1>2, ConstantsAssumption DEF BatchSizes
<1> DEFINE a == SendFrom(f) + 1
           b == SendFrom(f) + n
           t == SubSeq(log[Leader], a, b)
<1>4. a \in Int /\ b \in Int /\ \A i \in a..b : i \in 1..Len(log[Leader])
  BY SMTT(30), <1>1, <1>2, <1>3 DEF LogEnd
<1>5. \A i \in a..b : log[Leader][i] \in Record
  BY Zenon, <1>1, <1>4, SeqLen
<1>6. Len(t) = n /\ \A i \in 1..n : t[i] = log[Leader][SendFrom(f) + i]
  <2>1. (IF a <= b THEN b - a + 1 ELSE 0) = n /\ \A i \in 1..n : a + i - 1 = SendFrom(f) + i
    BY <1>2, <1>3
  <2> HIDE DEF a, b
  <2>2. Len(t) = (IF a <= b THEN b - a + 1 ELSE 0) /\ \A i \in 1..Len(t) : t[i] = log[Leader][a + i - 1]
    BY SMTT(30), <1>1, <1>4, <1>5, SeqPart
  <2>3. QED
    BY Zenon, <2>1, <2>2
<1>7. ReplicateRequest(f, n).base = SendFrom(f) /\ ReplicateRequest(f, n).recs = t
  BY Zenon DEF ReplicateRequest
<1> HIDE DEF a, b, t
<1>8. QED
  BY SMTT(30), <1>1, <1>2, <1>3, <1>6, <1>7 DEF FromLeader

\* Every step preserves agreement as long as the leader keeps power.
LEMMA AgreeStep ==
  ASSUME TypeInv, TypeInv', AgreeInv, Leader \notin MayLosePower, [Next]_vars
  PROVE  AgreeInv'
<1>0. /\ Len(log[Leader]) \in Nat /\ Len(log'[Leader]) \in Nat
      /\ \A f \in Followers : Len(log[f]) \in Nat /\ Len(log'[f]) \in Nat
  BY Zenon, SeqLen DEF TypeInv, TypeOK, Replicas
<1>1. /\ Len(log[Leader]) <= Len(log'[Leader])
      /\ \A i \in 1..Len(log[Leader]) : log[Leader][i] = log'[Leader][i]
  BY Zenon, LeaderLogGrows DEF HoldsPrefixOf
<1>2. \A f \in Followers : \A r \in InFlight(f) :
        /\ r.base \in Nat /\ Len(r.recs) \in Nat
        /\ \A i \in 1..Len(r.recs) : /\ r.base + i <= Len(log[Leader])
                                     /\ r.recs[i] = log[Leader][r.base + i]
  <2>1. \A f \in Followers : \A r \in InFlight(f) : r \in Request
    BY SMTT(30) DEF InFlight, StillOnTheWay, TypeInv, TypeOK
  <2>2. QED
    BY Zenon, <2>1, SeqLen DEF Request, AgreeInv, FromLeader, LogEnd
<1>3. ASSUME NEW f \in Followers PROVE HoldsPrefixOf(log'[f], log'[Leader])
  <2>1. HoldsPrefixOf(log[f], log[Leader])
    BY Zenon DEF AgreeInv, ReplicasAgree
  <2>2. ASSUME NEW i \in 1..Len(log'[f])
        PROVE  i <= Len(log[Leader]) /\ log'[f][i] = log[Leader][i]
    <3>1. CASE i <= Len(log[f]) /\ log'[f][i] = log[f][i]
      BY SMTT(30), <1>0, <2>1, <3>1 DEF HoldsPrefixOf
    <3>2. CASE \E r \in InFlight(f) : i - r.base \in 1..Len(r.recs) /\ log'[f][i] = r.recs[i - r.base]
      <4>1. PICK r \in InFlight(f) : i - r.base \in 1..Len(r.recs) /\ log'[f][i] = r.recs[i - r.base]
        BY Zenon, <3>2
      <4>2. r.base \in Nat /\ r.base + (i - r.base) = i
        BY <1>0, <1>2
      <4>3. QED
        BY Zenon, <1>2, <4>1, <4>2
    <3>3. QED
      BY Zenon, <3>1, <3>2, FollowerLogStep
  <2>3. Len(log'[f]) <= Len(log[Leader])
    <3>1. CASE Len(log'[f]) = 0
      BY <1>0, <3>1
    <3>2. CASE Len(log'[f]) # 0
      BY SMTT(30), <1>0, <2>2, <3>2
    <3>3. QED
      BY Zenon, <3>1, <3>2
  <2>4. QED
    BY SMTT(30), <1>0, <1>1, <2>2, <2>3 DEF HoldsPrefixOf
<1>4. ASSUME NEW f \in Followers, NEW r \in InFlight(f)' PROVE FromLeader(r)'
  <2>1. CASE r \in InFlight(f)
    BY SMTT(30), <1>0, <1>1, <1>2, <2>1 DEF FromLeader, LogEnd
  <2>2. CASE UNCHANGED log /\ \E n \in BatchSizes(f) : r = ReplicateRequest(f, n)
    <3>1. FromLeader(r)
      BY Zenon, <2>2, ReplicateRequestFromLeader
    <3>2. QED
      BY Zenon, <2>2, <3>1 DEF FromLeader, LogEnd
  <2>3. QED
    BY Zenon, <2>1, <2>2, RequestStep
<1>5. ASSUME NEW a \in acked' PROVE Holds(Leader, a)'
  <2>1. CASE a \in acked
    <3>1. a.offset \in Nat /\ a.offset < Len(log[Leader]) /\ log[Leader][a.offset + 1] = a.rec
      BY Zenon, <2>1 DEF AgreeInv, AckedNotLost, Holds, LogEnd, TypeInv, TypeOK
    <3>2. QED
      BY SMTT(30), <1>0, <1>1, <3>1 DEF Holds, LogEnd
  <2>2. CASE a \notin acked
    BY Zenon, <2>2, AckStep DEF Justified, Holds, LogEnd
  <2>3. QED
    BY Zenon, <2>1, <2>2
<1>6. QED
  BY Zenon, <1>3, <1>4, <1>5 DEF AgreeInv, ReplicasAgree, AckedNotLost

\* Nothing is in flight at first.
LEMMA AgreeInit == Init => AgreeInv
<1> SUFFICES ASSUME Init PROVE AgreeInv
  BY Zenon
<1>1. ReplicasAgree
  BY DEF Init, ReplicasAgree, HoldsPrefixOf, Replicas
<1>2. \A f \in Followers : InFlight(f) = {}
  BY Zenon DEF Init, InFlight, StillOnTheWay, IdleSender
<1>3. QED
  BY Zenon, <1>1, <1>2 DEF Init, AgreeInv, AckedNotLost

\* The inductive invariant holds throughout.
LEMMA AgreeInvariant ==
  ASSUME Leader \notin MayLosePower
  PROVE  Spec => []AgreeInv
<1>1. Init => AgreeInv
  BY Zenon, AgreeInit
<1>2. TypeInv /\ TypeInv' /\ AgreeInv /\ [Next]_vars => AgreeInv'
  BY Zenon, AgreeStep
<1>3. QED
  BY <1>1, <1>2, TypeInvariant, PTL DEF Spec

\* Followers never diverge: while the leader keeps power, the log of every
\* follower is a prefix of the leader's, whatever connections break, whatever
\* requests arrive twice, late or out of order, and whichever processes crash.
THEOREM Agreement ==
  ASSUME Leader \notin MayLosePower
  PROVE  Spec => []ReplicasAgree
<1>1. AgreeInv => ReplicasAgree
  BY ZenonT(30) DEF AgreeInv
<1>2. QED
  BY <1>1, AgreeInvariant, PTL

\* An acknowledged record stays at its offset in the leader's log as long as
\* the leader keeps power; a crash of its process loses nothing.
THEOREM NothingAckedIsLost ==
  ASSUME Leader \notin MayLosePower
  PROVE  Spec => []AckedNotLost
<1>1. AgreeInv => AckedNotLost
  BY Zenon DEF AgreeInv
<1>2. QED
  BY <1>1, AgreeInvariant, PTL
-----------------------------------------------------------------------------
(***************************************************************************)
(* What an acks=quorum acknowledgement means for stable media, and that    *)
(* Replication implements QuorumLog, proved for any number of followers    *)
(* and any bounds.                                                         *)
(***************************************************************************)
\* A step that leaves the storage of b alone, or only appends to its log.
Grows(b) ==
  /\ Len(log'[b]) >= Len(log[b])
  /\ disk'[b] = disk[b] /\ flushed'[b] = flushed[b] /\ flusher'[b] = flusher[b] /\ up'[b] = up[b]
  /\ ~up[b] => Len(log'[b]) = Len(log[b])

\* The storage of a broker changes by appends, its flusher, failures of its
\* own and its restart.
LEMMA StoreStep ==
  ASSUME TypeInv, [Next]_vars, NEW b \in Replicas
  PROVE  \/ Grows(b) \/ FlushStart(b) \/ FlushSync(b) \/ (b = Leader /\ FlushComplete)
         \/ Crash(b) \/ PowerLoss(b) \/ Stop(b) \/ Restart(b)
<1>0. /\ log \in [Replicas -> Seq(Record)] /\ Len(log[b]) \in Nat
      /\ disk \in [Replicas -> Nat] /\ flushed \in [Replicas -> Nat]
      /\ flusher \in [Replicas -> [pc : {"idle", "sync", "complete"}, target : Nat]]
      /\ up \in [Replicas -> BOOLEAN]
  BY Zenon, SeqLen DEF TypeInv, TypeOK
<1>1. ASSUME UNCHANGED <<log, disk, flushed, flusher, up>> PROVE Grows(b)
  BY <1>0, <1>1 DEF Grows
<1>a. ASSUME NEW s \in Seq(Record), NEW t \in Seq(Record) PROVE Len(s \o t) >= Len(s)
  BY AppendedSeq
<1>2. CASE UNCHANGED vars
  BY Zenon, <1>1, <1>2 DEF vars, storage
<1>3. CASE ProduceAppend
  <2>1. NextRecords(worker.size) \in Seq(Record) /\ log[b] \in Seq(Record)
    BY Zenon, <1>0, <1>3, NextRecordsType DEF ProduceAppend, TypeInv, TypeOK, ProduceInv
  <2>2. up[Leader] /\ log' = [log EXCEPT ![Leader] = @ \o NextRecords(worker.size)]
                   /\ UNCHANGED <<disk, flushed, flusher, up>>
    BY Zenon, <1>3 DEF ProduceAppend
  <2>3. log'[b] = log[b] \/ (b = Leader /\ log'[b] = log[b] \o NextRecords(worker.size))
    BY Zenon, <1>0, <2>2
  <2>4. Len(log'[b]) >= Len(log[b])
    <3>1. CASE log'[b] = log[b]
      BY <1>0, <3>1
    <3>2. CASE log'[b] = log[b] \o NextRecords(worker.size)
      BY Zenon, <1>a, <2>1, <3>2
    <3>3. QED
      BY Zenon, <2>3, <3>1, <3>2
  <2>5. QED
    BY Zenon, <2>2, <2>3, <2>4 DEF Grows
<1>4. CASE Produce /\ ~ProduceAppend
  BY Zenon, <1>1, <1>4 DEF Produce, ProduceCheck, ProduceNotify, ProduceWait, storage
<1>5. CASE ExpireWaiters \/ EnforceRetention
  BY Zenon, <1>1, <1>5 DEF ExpireWaiters, EnforceRetention, storage
<1>6. ASSUME NEW c \in Replicas, c # b, FlushStart(c) \/ FlushSync(c) \/ (c = Leader /\ FlushComplete)
      PROVE  Grows(b)
  BY SMTT(30), <1>0, <1>6 DEF FlushStart, FlushSync, FlushComplete, Grows
<1>7. ASSUME NEW c \in Replicas, c # b, Restart(c) PROVE Grows(b)
  <2>1. UNCHANGED <<log, disk, flusher>> /\ flushed'[b] = flushed[b]
    BY Zenon, <1>0, <1>7 DEF Restart
  <2>2. up'[b] = up[b]
    BY <1>0, <1>7, Zenon DEF Restart
  <2>3. QED
    BY SMTT(30), <1>0, <2>1, <2>2 DEF Grows
<1>8. ASSUME NEW f \in Followers, Sender(f) PROVE Grows(b)
  BY Zenon, <1>1, <1>8 DEF Sender, EnsureConnected, SendPending, ReceiveResponse, ConnectionLost, storage
<1>9. ASSUME NEW f \in Followers, ExecuteReplicate(f) \/ ExecuteLate(f) PROVE Grows(b)
  <2>1. PICK r \in InFlight(f) : AppendReplicated(f, r)
    BY Zenon, <1>9 DEF ExecuteReplicate, ExecuteLate, InFlight, StillOnTheWay
  <2>2. r.recs \in Seq(Record) /\ log[b] \in Seq(Record)
    BY SMTT(30), <1>0 DEF InFlight, StillOnTheWay, TypeInv, TypeOK, Request
  <2>3. up[f] /\ UNCHANGED <<disk, flushed, flusher, up>>
    BY Zenon, <1>9 DEF ExecuteReplicate, ExecuteLate
  <2>4. log'[b] = log[b] \/ (b = f /\ log'[b] = log[b] \o r.recs)
    BY Zenon, <1>0, <2>1 DEF AppendReplicated
  <2>5. QED
    BY SMTT(30), <1>0, <1>a, <2>2, <2>3, <2>4 DEF Grows
<1>10. ASSUME \/ ProduceFails
              \/ \E f \in Followers : CallFails(f) \/ ConnectFails(f) \/ ReplicateFails(f)
       PROVE  Grows(b)
  BY Zenon, <1>1, <1>10 DEF ProduceFails, CallFails, ConnectFails, ReplicateFails, storage
<1>11. ASSUME NEW c \in Replicas, c # b, Crash(c) \/ PowerLoss(c) \/ Stop(c) PROVE Grows(b)
  BY SMTT(30), <1>0, <1>11 DEF Crash, PowerLoss, Stop, LoseMemory, Grows
<1>12. QED
  BY ZenonT(30), <1>2, <1>3, <1>4, <1>5, <1>6, <1>7, <1>8, <1>9, <1>10, <1>11 DEF Next, Flusher, Failure

\* What PowerLoss leaves of a log.
LEMMA PowerLossKeeps ==
  ASSUME TypeInv, NEW b \in Replicas, PowerLoss(b)
  PROVE  /\ disk[b] <= disk'[b] /\ disk'[b] \in Nat
         /\ Len(log'[b]) = disk'[b] /\ flushed'[b] = disk'[b]
<1>1. log \in [Replicas -> Seq(Record)] /\ log[b] \in Seq(Record) /\ disk \in [Replicas -> Nat]
      /\ flushed \in [Replicas -> Nat] /\ Len(log[b]) \in Nat
  BY Zenon, SeqLen DEF TypeInv, TypeOK
<1>2. PICK n \in disk[b]..Len(log[b]) : log'[b] = SubSeq(log[b], 1, n) /\ disk'[b] = n /\ flushed'[b] = n
  BY Zenon, <1>1 DEF PowerLoss, LogEnd
<1>3. n \in 0..Len(log[b])
  BY <1>1, <1>2
<1>4. QED
  BY SMTT(30), <1>1, <1>2, <1>3, FirstOfSeq

\* A crash keeps what was written.
LEMMA CrashKeeps ==
  ASSUME TypeInv, NEW b \in Replicas, Crash(b)
  PROVE  Len(log'[b]) >= Len(log[b]) /\ disk'[b] = disk[b] /\ flushed'[b] = flushed[b]
<1>1. log \in [Replicas -> Seq(Record)] /\ log[b] \in Seq(Record)
  BY Zenon DEF TypeInv, TypeOK
<1>2. PICK torn \in TornTails(b) : log' = [log EXCEPT ![b] = @ \o torn]
  BY Zenon DEF Crash
<1>3. torn \in Seq(Record)
  BY Zenon, <1>2, TornTailsType
<1>4. Len(log[b] \o torn) >= Len(log[b])
  BY SMTT(30), <1>1, <1>3, AppendedSeq
<1>5. QED
  BY Zenon, <1>1, <1>2, <1>4 DEF Crash
-----------------------------------------------------------------------------
(***************************************************************************)
(* The flusher publishes a target it captured earlier.  The offset it      *)
(* publishes is neither below the one published before nor past the log.   *)
(***************************************************************************)
FlushInv ==
  \A b \in Replicas :
    /\ flushed[b] <= Len(log[b])
    /\ flusher[b].pc = "sync" => flushed[b] <= flusher[b].target /\ flusher[b].target <= Len(log[b])
    /\ ~up[b] => flusher[b].pc = "idle"

\* No step lets a flusher get ahead of its log, or move flushed backwards
\* on a broker that keeps power.
LEMMA FlushStep ==
  ASSUME TypeInv, TypeInv', FlushInv, [Next]_vars
  PROVE  /\ FlushInv'
         /\ \A b \in Replicas : b \notin MayLosePower =>
              flushed[b] <= flushed'[b] /\ Len(log[b]) <= Len(log'[b])
<1> SUFFICES ASSUME NEW b \in Replicas
             PROVE  /\ flushed'[b] <= Len(log'[b])
                    /\ flusher'[b].pc = "sync" => /\ flushed'[b] <= flusher'[b].target
                                                  /\ flusher'[b].target <= Len(log'[b])
                    /\ ~up'[b] => flusher'[b].pc = "idle"
                    /\ b \notin MayLosePower => flushed[b] <= flushed'[b] /\ Len(log[b]) <= Len(log'[b])
  BY Zenon DEF FlushInv
<1>0. /\ Len(log[b]) \in Nat /\ Len(log'[b]) \in Nat
      /\ flushed \in [Replicas -> Nat] /\ flushed[b] \in Nat /\ flushed'[b] \in Nat
      /\ flusher \in [Replicas -> [pc : {"idle", "sync", "complete"}, target : Nat]]
      /\ flusher[b].target \in Nat /\ flusher'[b].target \in Nat
  BY Zenon, SeqLen DEF TypeInv, TypeOK
<1>00. /\ flushed[b] <= Len(log[b])
       /\ flusher[b].pc = "sync" => flushed[b] <= flusher[b].target /\ flusher[b].target <= Len(log[b])
       /\ ~up[b] => flusher[b].pc = "idle"
  BY Zenon DEF FlushInv
<1>1. CASE Grows(b)
  BY SMTT(30), <1>0, <1>00, <1>1 DEF Grows
<1>2. CASE FlushStart(b)
  <2>1. /\ flusher'[b] = [pc |-> "sync", target |-> Len(log[b])]
        /\ UNCHANGED <<log, flushed, up>> /\ up[b]
    BY Zenon, <1>0, <1>2 DEF FlushStart, LogEnd
  <2>2. QED
    BY SMTT(30), <1>0, <1>00, <2>1
<1>3. CASE FlushSync(b)
  <2>1. /\ flushed'[b] = flusher[b].target /\ flusher[b].pc = "sync" /\ UNCHANGED log
        /\ flusher'[b].pc # "sync" /\ UNCHANGED up /\ up[b]
    BY Zenon, <1>0, <1>3 DEF FlushSync, IdleFlusher
  <2>2. QED
    BY SMTT(30), <1>0, <1>00, <2>1
<1>4. CASE b = Leader /\ FlushComplete
  <2>1. flusher'[b].pc = "idle" /\ UNCHANGED <<log, flushed>>
    BY Zenon, <1>0, <1>4 DEF FlushComplete, IdleFlusher
  <2>2. QED
    BY SMTT(30), <1>0, <1>00, <2>1
<1>5. ASSUME LoseMemory(b) PROVE flusher'[b].pc = "idle"
  BY Zenon, <1>0, <1>5 DEF LoseMemory, IdleFlusher
<1>6. CASE Crash(b)
  <2>1. flusher'[b].pc = "idle"
    BY Zenon, <1>5, <1>6 DEF Crash
  <2>2. QED
    BY SMTT(30), <1>0, <1>00, <1>6, <2>1, CrashKeeps
<1>7. CASE PowerLoss(b)
  <2>1. flusher'[b].pc = "idle" /\ b \in MayLosePower
    BY Zenon, <1>5, <1>7 DEF PowerLoss
  <2>2. QED
    BY SMTT(30), <1>0, <1>00, <1>7, <2>1, PowerLossKeeps
<1>8. CASE Stop(b)
  <2>1. flusher'[b].pc = "idle" /\ UNCHANGED log /\ flushed'[b] = Len(log[b])
    BY Zenon, <1>0, <1>5, <1>8 DEF Stop, LogEnd
  <2>2. QED
    BY SMTT(30), <1>0, <1>00, <2>1
<1>9. CASE Restart(b)
  <2>1. UNCHANGED <<log, flusher>> /\ flushed'[b] = Len(log[b]) /\ ~up[b]
    BY Zenon, <1>0, <1>9 DEF Restart, LogEnd
  <2>2. QED
    BY SMTT(30), <1>0, <1>00, <2>1
<1>10. QED
  BY ZenonT(30), <1>1, <1>2, <1>3, <1>4, <1>6, <1>7, <1>8, <1>9, StoreStep

\* What the leader believes about a follower after a step was believed
\* before, was reported by the follower, or is nothing at all; what a
\* follower reports is what it has at that moment.
LEMMA ReportStep ==
  ASSUME TypeInv, [Next]_vars, NEW f \in Followers
  PROVE  /\ fol'[f].leo \in {0, fol[f].leo, sender[f].resp.leo}
         /\ fol'[f].flushed \in {0, fol[f].flushed, sender[f].resp.flushed}
         /\ sender'[f].resp.leo \in {0, sender[f].resp.leo, Len(log'[f])}
         /\ sender'[f].resp.flushed \in {0, sender[f].resp.flushed, flushed[f]}
<1> DEFINE Fol == /\ fol'[f].leo \in {0, fol[f].leo, sender[f].resp.leo}
                  /\ fol'[f].flushed \in {0, fol[f].flushed, sender[f].resp.flushed}
           Resp == /\ sender'[f].resp.leo \in {0, sender[f].resp.leo, Len(log'[f])}
                   /\ sender'[f].resp.flushed \in {0, sender[f].resp.flushed, flushed[f]}
<1>0. /\ fol \in [Followers -> FollowerState]
      /\ sender \in [Followers -> [pc : {"idle", "sent", "answered", "lost"}, connected : BOOLEAN,
                                  req : Request, resp : [leo : Nat, flushed : Nat]]]
  BY Zenon DEF TypeInv, TypeOK
<1>1. ASSUME UNCHANGED fol PROVE Fol
  BY Zenon, <1>1
<1>2. ASSUME UNCHANGED sender PROVE Resp
  BY Zenon, <1>2
<1>3. ASSUME NEW g \in Followers, NEW s, sender' = [sender EXCEPT ![g] = s], s.resp = NoResponse
      PROVE  Resp
  BY <1>0, <1>3 DEF NoResponse
<1>4. /\ IdleSender.resp = NoResponse
      /\ [IdleSender EXCEPT !.connected = TRUE].resp = NoResponse
      /\ [IdleSender EXCEPT !.pc = "lost", !.connected = TRUE].resp = NoResponse
  BY Zenon DEF IdleSender
<1>5. ASSUME NEW g \in Followers, MarkFollowerOutOfSync(g) PROVE Fol
  <2>1. fol' = fol \/ fol' = WithoutSync(fol, g)
    BY Zenon, <1>5 DEF MarkFollowerOutOfSync, CompleteWith, replica
  <2>2. QED
    BY SMTT(30), <1>0, <1>1, <2>1 DEF WithoutSync, FollowerState
<1> HIDE DEF Fol, Resp
<1>6. ASSUME UNCHANGED vars PROVE Fol /\ Resp
  BY Zenon, <1>1, <1>2, <1>6 DEF vars, replica
<1>7. ASSUME Produce \/ ExpireWaiters \/ EnforceRetention PROVE Fol /\ Resp
  <2>1. UNCHANGED <<fol, sender>>
    BY Zenon, <1>7 DEF Produce, ProduceCheck, ProduceAppend, ProduceNotify, ProduceWait, ExpireWaiters,
                EnforceRetention, replica, OnLeaderAppend, AddWaiter, CompleteWith
  <2>2. QED
    BY Zenon, <1>1, <1>2, <2>1
<1>8. ASSUME NEW b \in Replicas, Flusher(b) \/ Restart(b) PROVE Fol /\ Resp
  <2>1. UNCHANGED <<fol, sender>>
    BY Zenon, <1>8 DEF Flusher, FlushStart, FlushSync, FlushComplete, Restart, replica,
                CompleteSatisfiedWaiters, CompleteWith
  <2>2. QED
    BY Zenon, <1>1, <1>2, <2>1
<1>9. ASSUME NEW g \in Followers, EnsureConnected(g) \/ ConnectFails(g) PROVE Fol /\ Resp
  <2>1. Fol
    BY Zenon, <1>1, <1>5, <1>9 DEF EnsureConnected, ConnectFails, replica
  <2>2. UNCHANGED sender \/ sender' = [sender EXCEPT ![g] = [IdleSender EXCEPT !.connected = TRUE]]
    BY Zenon, <1>9 DEF EnsureConnected, ConnectFails, SetSender
  <2>3. QED
    BY Zenon, <1>2, <1>3, <1>4, <2>1, <2>2
<1>10. ASSUME NEW g \in Followers, ConnectionLost(g) \/ CallFails(g) \/ ReplicateFails(g)
       PROVE  Fol /\ Resp
  <2>1. /\ UNCHANGED fol
        /\ \/ sender' = [sender EXCEPT ![g] = IdleSender]
           \/ sender' = [sender EXCEPT ![g] = [IdleSender EXCEPT !.connected = TRUE]]
    BY Zenon, <1>10 DEF ConnectionLost, CallFails, ReplicateFails, SetSender, replica
  <2>2. QED
    BY Zenon, <1>1, <1>3, <1>4, <2>1
<1>11. ASSUME NEW g \in Followers, SendPending(g) PROVE Fol /\ Resp
  <2>1. UNCHANGED fol
    BY Zenon, <1>11 DEF SendPending, replica
  <2>2. PICK r : sender' = [sender EXCEPT ![g] = [sender[g] EXCEPT !.pc = "sent", !.req = r]]
    BY Zenon, <1>11 DEF SendPending, SetSender
  <2>3. sender'[f].resp = sender[f].resp
    BY Zenon, <1>0, <2>2
  <2>4. QED
    BY Zenon, <1>1, <2>1, <2>3 DEF Resp
<1>12. ASSUME NEW g \in Followers, ReceiveResponse(g) PROVE Fol /\ Resp
  <2>1. fol' = WithProgress(fol, g, sender[g].resp.leo, sender[g].resp.flushed)
    BY Zenon, <1>12 DEF ReceiveResponse, OnFollowerProgress, CompleteWith
  <2>2. Fol
    BY Zenon, <1>0, <2>1 DEF WithProgress, LargerOf, FollowerState, Fol
  <2>3. sender' = [sender EXCEPT ![g] = [IdleSender EXCEPT !.connected = TRUE]]
    BY Zenon, <1>12 DEF ReceiveResponse, SetSender
  <2>4. QED
    BY Zenon, <1>3, <1>4, <2>2, <2>3
<1>13. ASSUME NEW g \in Followers, ExecuteReplicate(g) PROVE Fol /\ Resp
  <2>1. UNCHANGED fol
    BY Zenon, <1>13 DEF ExecuteReplicate, replica
  <2>2. sender' = [sender EXCEPT ![g] = [sender[g] EXCEPT !.pc = "answered", !.req = NoRequest,
                                    !.resp = [leo |-> Len(log'[g]), flushed |-> flushed[g]]]]
    BY Zenon, <1>13 DEF ExecuteReplicate, SetSender
  <2>3. sender'[f].resp \in {sender[f].resp, [leo |-> Len(log'[f]), flushed |-> flushed[f]]}
    BY Zenon, <1>0, <2>2
  <2>4. QED
    BY SMTT(30), <1>1, <2>1, <2>3 DEF Resp
<1>14. ASSUME NEW g \in Followers, ExecuteLate(g) PROVE Fol /\ Resp
  BY Zenon, <1>1, <1>2, <1>14 DEF ExecuteLate, replica
<1>15. ASSUME ProduceFails PROVE Fol /\ Resp
  BY Zenon, <1>1, <1>2, <1>15 DEF ProduceFails, replica
<1>16. ASSUME NEW b \in Replicas, LoseMemory(b) PROVE Fol /\ Resp
  <2>1. CASE b = Leader
    <3>1. fol'[f] = NewFollower /\ sender'[f] = IdleSender
      BY Zenon, <1>16, <2>1 DEF LoseMemory
    <3>2. QED
      BY SMTT(30), <1>4, <3>1 DEF NewFollower, NoResponse, Fol, Resp
  <2>2. CASE b # Leader
    <3>1. /\ b \in Followers /\ UNCHANGED fol
          /\ \/ sender' = [sender EXCEPT ![b] = [IdleSender EXCEPT !.pc = "lost", !.connected = TRUE]]
             \/ sender' = [sender EXCEPT ![b] = sender[b]]
      BY Zenon, <1>16, <2>2 DEF LoseMemory, SetSender, Replicas
    <3>2. CASE sender' = [sender EXCEPT ![b] = sender[b]]
      BY Zenon, <1>0, <1>1, <3>1, <3>2 DEF Resp
    <3>3. QED
      BY Zenon, <1>1, <1>3, <1>4, <3>1, <3>2
  <2>3. QED
    BY Zenon, <2>1, <2>2
<1>17. ASSUME NEW b \in Replicas, Crash(b) \/ PowerLoss(b) \/ Stop(b) PROVE Fol /\ Resp
  BY Zenon, <1>16, <1>17 DEF Crash, PowerLoss, Stop
<1>18. Fol /\ Resp
  BY ZenonT(30), <1>6, <1>7, <1>8, <1>9, <1>10, <1>11, <1>12, <1>13, <1>14, <1>15, <1>17
     DEF Next, Sender, Failure
<1>19. QED
  BY Zenon, <1>18 DEF Fol, Resp
-----------------------------------------------------------------------------
(***************************************************************************)
(* Credit.  CreditIsEarned speaks of what the leader has recorded; a       *)
(* report that is still on its way must be covered as well.                *)
(***************************************************************************)
CreditInv ==
  \A f \in Followers :
    /\ fol[f].leo <= Len(log[f]) /\ fol[f].flushed <= flushed[f]
    /\ sender[f].resp.leo <= Len(log[f]) /\ sender[f].resp.flushed <= flushed[f]

\* Followers that keep power never fall behind what they have reported.
LEMMA CreditStep ==
  ASSUME TypeInv, TypeInv', FlushInv, CreditInv, MayLosePower \subseteq {Leader}, [Next]_vars
  PROVE  CreditInv'
<1> SUFFICES ASSUME NEW f \in Followers
             PROVE  /\ fol'[f].leo <= Len(log'[f]) /\ fol'[f].flushed <= flushed'[f]
                    /\ sender'[f].resp.leo <= Len(log'[f])
                    /\ sender'[f].resp.flushed <= flushed'[f]
  BY Zenon DEF CreditInv
<1>1. f \in Replicas /\ f \notin MayLosePower
  BY Zenon, ReplicaSetAssumption DEF Replicas
<1>2. /\ Len(log[f]) \in Nat /\ Len(log'[f]) \in Nat /\ flushed[f] \in Nat /\ flushed'[f] \in Nat
      /\ fol[f].leo \in Nat /\ fol[f].flushed \in Nat
      /\ sender[f].resp.leo \in Nat /\ sender[f].resp.flushed \in Nat
  BY ZenonT(30), <1>1, SeqLen DEF TypeInv, TypeOK, FollowerState
<1>3. flushed[f] <= flushed'[f] /\ Len(log[f]) <= Len(log'[f])
  BY Zenon, <1>1, FlushStep
<1>4. /\ fol[f].leo <= Len(log[f]) /\ fol[f].flushed <= flushed[f]
      /\ sender[f].resp.leo <= Len(log[f]) /\ sender[f].resp.flushed <= flushed[f]
  BY Zenon DEF CreditInv
<1>5. /\ fol'[f].leo \in {0, fol[f].leo, sender[f].resp.leo}
      /\ fol'[f].flushed \in {0, fol[f].flushed, sender[f].resp.flushed}
      /\ sender'[f].resp.leo \in {0, sender[f].resp.leo, Len(log'[f])}
      /\ sender'[f].resp.flushed \in {0, sender[f].resp.flushed, flushed[f]}
  BY ZenonT(30), ReportStep
<1>6. fol'[f].leo <= Len(log'[f])
  BY SMTT(30), <1>2, <1>3, <1>4, <1>5
<1>7. fol'[f].flushed <= flushed'[f]
  BY SMTT(30), <1>2, <1>3, <1>4, <1>5
<1>8. sender'[f].resp.leo <= Len(log'[f])
  BY SMTT(30), <1>2, <1>3, <1>4, <1>5
<1>9. sender'[f].resp.flushed <= flushed'[f]
  BY SMTT(30), <1>2, <1>3, <1>4, <1>5
<1>10. QED
  BY Zenon, <1>6, <1>7, <1>8, <1>9

\* Logs are empty and nothing is reported at first.
LEMMA CreditInit == Init => FlushInv /\ CreditInv
BY DEF Init, FlushInv, CreditInv, IdleFlusher, NewFollower, IdleSender, NoResponse, Replicas

\* The flusher invariant holds throughout, whatever fails.
LEMMA FlushInvariant == Spec => []FlushInv
<1>1. Init => FlushInv
  BY Zenon, CreditInit
<1>2. TypeInv /\ TypeInv' /\ FlushInv /\ [Next]_vars => FlushInv'
  BY Zenon, FlushStep
<1>3. QED
  BY <1>1, <1>2, TypeInvariant, PTL DEF Spec

\* The credit invariant holds throughout.
LEMMA CreditInvariant ==
  ASSUME MayLosePower \subseteq {Leader}
  PROVE  Spec => []CreditInv
<1>1. Init => CreditInv
  BY Zenon, CreditInit
<1>2. TypeInv /\ TypeInv' /\ FlushInv /\ CreditInv /\ [Next]_vars => CreditInv'
  BY Zenon, CreditStep
<1>3. QED
  BY <1>1, <1>2, TypeInvariant, FlushInvariant, PTL DEF Spec

\* The leader never overestimates a follower that keeps power: positions
\* recorded by OnFollowerProgress stay covered by the follower's log and by
\* what it has flushed, across crashes of either broker, lost and late calls.
THEOREM CreditEarned ==
  ASSUME MayLosePower \subseteq {Leader}
  PROVE  Spec => []CreditIsEarned
<1>1. CreditInv => CreditIsEarned
  BY Zenon DEF CreditInv, CreditIsEarned, LogEnd
<1>2. QED
  BY <1>1, CreditInvariant, PTL
-----------------------------------------------------------------------------
(***************************************************************************)
(* Durability.  Recovery reports the whole recovered log as flushed, which *)
(* is true of what a clean stop or a power loss left on the media and not  *)
(* of what a killed process left in the page cache: hence MayCrash = {}.   *)
(***************************************************************************)
DiskInv ==
  \A b \in Replicas :
    /\ flushed[b] <= disk[b] /\ disk[b] <= Len(log[b])
    /\ ~up[b] => disk[b] = Len(log[b])

\* Without crashes, what is reported as flushed is on the media, and nothing
\* on the media is lost.
LEMMA DiskStep ==
  ASSUME TypeInv, TypeInv', FlushInv, DiskInv, MayCrash = {}, [Next]_vars
  PROVE  DiskInv' /\ \A b \in Replicas : disk[b] <= disk'[b]
<1> SUFFICES ASSUME NEW b \in Replicas
             PROVE  /\ flushed'[b] <= disk'[b] /\ disk'[b] <= Len(log'[b])
                    /\ ~up'[b] => disk'[b] = Len(log'[b])
                    /\ disk[b] <= disk'[b]
  BY Zenon DEF DiskInv
<1>0. /\ Len(log[b]) \in Nat /\ Len(log'[b]) \in Nat /\ up \in [Replicas -> BOOLEAN]
      /\ flushed \in [Replicas -> Nat] /\ flushed[b] \in Nat /\ flushed'[b] \in Nat
      /\ disk \in [Replicas -> Nat] /\ disk[b] \in Nat /\ disk'[b] \in Nat
      /\ flusher[b].target \in Nat
  BY ZenonT(30), SeqLen DEF TypeInv, TypeOK
<1>00. /\ flushed[b] <= disk[b] /\ disk[b] <= Len(log[b])
       /\ ~up[b] => disk[b] = Len(log[b])
       /\ flusher[b].pc = "sync" => flusher[b].target <= Len(log[b])
  BY Zenon DEF DiskInv, FlushInv
<1>1. CASE Grows(b)
  BY SMTT(30), <1>0, <1>00, <1>1 DEF Grows
<1>2. CASE FlushStart(b)
  BY SMTT(30), <1>0, <1>00, <1>2 DEF FlushStart
<1>3. CASE FlushSync(b)
  <2>1. /\ disk'[b] = LargerOf(disk[b], flusher[b].target) /\ flushed'[b] = flusher[b].target
        /\ flusher[b].pc = "sync" /\ UNCHANGED <<log, up>> /\ up[b]
    BY ZenonT(30), <1>0, <1>3 DEF FlushSync
  <2>2. QED
    BY SMTT(30), <1>0, <1>00, <2>1 DEF LargerOf
<1>4. CASE b = Leader /\ FlushComplete
  BY SMTT(30), <1>0, <1>00, <1>4 DEF FlushComplete
<1>5. CASE Crash(b)
  BY Zenon, <1>5 DEF Crash
<1>6. CASE PowerLoss(b)
  BY SMTT(30), <1>0, <1>00, <1>6, PowerLossKeeps
<1>7. CASE Stop(b)
  <2>1. disk'[b] = Len(log[b]) /\ flushed'[b] = Len(log[b]) /\ UNCHANGED log
    BY Zenon, <1>0, <1>7 DEF Stop, LogEnd
  <2>2. QED
    BY SMTT(30), <1>0, <1>00, <2>1
<1>8. CASE Restart(b)
  <2>1. UNCHANGED <<log, disk>> /\ flushed'[b] = Len(log[b]) /\ ~up[b]
    BY Zenon, <1>0, <1>8 DEF Restart, LogEnd
  <2>2. QED
    BY Zenon, <1>0, <1>00, <2>1
<1>9. QED
  BY ZenonT(30), <1>1, <1>2, <1>3, <1>4, <1>5, <1>6, <1>7, <1>8, StoreStep

OnMedia(o) == {b \in Replicas : o < disk[b]}

DurableInv ==
  /\ DiskInv
  /\ \A f \in Followers : fol[f].flushed <= disk[f] /\ sender[f].resp.flushed <= disk[f]
  /\ \A a \in acked : a.mode = "quorum" => Cardinality(OnMedia(a.offset)) >= QuorumSize

\* A replica set is finite, and so is each of its subsets.
LEMMA LargerSet ==
  ASSUME NEW S, NEW T, S \subseteq T, T \subseteq Replicas, Cardinality(S) >= QuorumSize
  PROVE  Cardinality(T) >= QuorumSize
<1>1. IsFiniteSet(Replicas)
  BY SMTT(30), ReplicaSetAssumption, FS_AddElement DEF Replicas
<1>2. IsFiniteSet(T)
  BY Zenon, <1>1, FS_Subset
<1>3. Cardinality(S) <= Cardinality(T) /\ IsFiniteSet(S)
  BY Zenon, <1>2, FS_Subset
<1>4. Cardinality(S) \in Nat /\ Cardinality(T) \in Nat /\ Cardinality(Replicas) \in Nat
  BY Zenon, <1>1, <1>2, <1>3, FS_CardinalityType
<1>5. QED
  BY SMTT(30), <1>3, <1>4 DEF QuorumSize

\* Every step keeps acknowledged records on the media of a majority.
LEMMA DurableStep ==
  ASSUME TypeInv, TypeInv', FlushInv, DurableInv, MayCrash = {}, [Next]_vars
  PROVE  DurableInv'
<1>1. DiskInv' /\ \A b \in Replicas : disk[b] <= disk'[b]
  BY Zenon, DiskStep DEF DurableInv
<1>2. /\ \A b \in Replicas : disk[b] \in Nat /\ disk'[b] \in Nat /\ flushed[b] \in Nat
      /\ \A f \in Followers : f \in Replicas /\ fol[f].flushed \in Nat /\ fol'[f].flushed \in Nat
                             /\ sender[f].resp.flushed \in Nat
  BY Zenon DEF TypeInv, TypeOK, FollowerState, Replicas
<1>3. ASSUME NEW f \in Followers
      PROVE  fol'[f].flushed <= disk'[f] /\ sender'[f].resp.flushed <= disk'[f]
  <2>1. fol[f].flushed <= disk[f] /\ sender[f].resp.flushed <= disk[f] /\ flushed[f] <= disk[f]
    BY Zenon, <1>2 DEF DurableInv, DiskInv
  <2>2. disk[f] <= disk'[f]
    BY Zenon, <1>1, <1>2
  <2>3. /\ fol'[f].flushed \in {0, fol[f].flushed, sender[f].resp.flushed}
        /\ sender'[f].resp.flushed \in {0, sender[f].resp.flushed, flushed[f]}
    BY Zenon, ReportStep
  <2>4. fol'[f].flushed <= disk'[f]
    BY SMTT(30), <1>2, <2>1, <2>2, <2>3
  <2>5. sender'[f].resp.flushed <= disk'[f]
    BY SMTT(30), <1>2, <2>1, <2>2, <2>3
  <2>6. QED
    BY Zenon, <2>4, <2>5
<1>4. ASSUME NEW a \in acked', a.mode = "quorum"
      PROVE  Cardinality(OnMedia(a.offset)') >= QuorumSize
  <2>1. OnMedia(a.offset)' \subseteq Replicas
    BY Zenon DEF OnMedia
  <2>2. a.offset \in Nat
    BY ZenonT(30) DEF TypeInv, TypeOK
  <2>3. CASE a \in acked
    <3>1. Cardinality(OnMedia(a.offset)) >= QuorumSize
      BY Zenon, <1>4, <2>3 DEF DurableInv
    <3>2. OnMedia(a.offset) \subseteq OnMedia(a.offset)'
      BY SMTT(30), <1>1, <1>2, <2>2 DEF OnMedia
    <3>3. QED
      BY Zenon, <2>1, <3>1, <3>2, LargerSet
  <2>4. CASE a \notin acked
    <3>1. UNCHANGED <<disk, flushed>> /\ Cardinality(Persisted(a.offset, flushed[Leader], fol')) >= QuorumSize
      BY ZenonT(30), <1>4, <2>4, AckStep DEF Justified
    <3>2. Persisted(a.offset, flushed[Leader], fol') \subseteq OnMedia(a.offset)'
      <4>1. ASSUME NEW b \in Persisted(a.offset, flushed[Leader], fol')
            PROVE  b \in Replicas /\ a.offset < disk'[b]
        <5>1. CASE b = Leader /\ flushed[Leader] > a.offset
          <6>1. b \in Replicas /\ flushed[b] <= disk[b]
            BY Zenon, <5>1 DEF DurableInv, DiskInv, Replicas
          <6>2. QED
            BY SMTT(30), <1>2, <2>2, <3>1, <5>1, <6>1
        <5>2. CASE b \in Followers /\ fol'[b].flushed > a.offset
          BY SMTT(30), <1>2, <1>3, <2>2, <5>2
        <5>3. QED
          BY ZenonT(30), <4>1, <5>1, <5>2 DEF Persisted, InSync
      <4>2. QED
        BY Zenon, <4>1 DEF OnMedia
    <3>3. QED
      BY Zenon, <2>1, <3>1, <3>2, LargerSet
  <2>5. QED
    BY Zenon, <2>3, <2>4
<1>5. QED
  BY Zenon, <1>1, <1>3, <1>4 DEF DurableInv

\* Nothing is stored and nothing acknowledged at first.
LEMMA DurableInit == Init => DurableInv
BY DEF Init, DurableInv, DiskInv, NewFollower, IdleSender, NoResponse, Replicas

\* The durability invariant holds throughout.
LEMMA DurableInvariant ==
  ASSUME MayCrash = {}
  PROVE  Spec => []DurableInv
<1>1. Init => DurableInv
  BY Zenon, DurableInit
<1>2. TypeInv /\ TypeInv' /\ FlushInv /\ DurableInv /\ [Next]_vars => DurableInv'
  BY Zenon, DurableStep
<1>3. QED
  BY <1>1, <1>2, TypeInvariant, FlushInvariant, PTL DEF Spec

\* The durability guarantee of acks=quorum: followers may lose power, every
\* broker may be stopped and restarted and the network may fail in any way,
\* and still a majority of the replica set has the record on stable media.
THEOREM QuorumDurability ==
  ASSUME MayCrash = {}, Leader \notin MayLosePower
  PROVE  Spec => []QuorumAckDurable
<1>1. TypeInv /\ AgreeInv /\ DurableInv => QuorumAckDurable
  <2> SUFFICES ASSUME TypeInv, AgreeInv, DurableInv, NEW a \in acked, a.mode = "quorum"
               PROVE  Cardinality({b \in Replicas : Holds(b, a) /\ a.offset < disk[b]}) >= QuorumSize
    BY Zenon DEF QuorumAckDurable
  <2>1. a.offset \in Nat /\ \A b \in Replicas : disk[b] \in Nat /\ Len(log[b]) \in Nat
    BY Zenon, SeqLen DEF TypeInv, TypeOK
  <2>2. ASSUME NEW b \in OnMedia(a.offset) PROVE Holds(b, a)
    <3>1. b \in Replicas /\ a.offset < disk[b] /\ disk[b] <= Len(log[b])
      BY Zenon DEF OnMedia, DurableInv, DiskInv
    <3>2. a.offset < Len(log[b])
      BY SMTT(30), <2>1, <3>1
    <3>3. Holds(Leader, a)
      BY Zenon DEF AgreeInv, AckedNotLost
    <3>4. CASE b \in Followers
      <4>1. log[b][a.offset + 1] = log[Leader][a.offset + 1]
        BY SMTT(30), <2>1, <3>1, <3>2, <3>4 DEF AgreeInv, ReplicasAgree, HoldsPrefixOf
      <4>2. QED
        BY ZenonT(30), <3>2, <3>3, <4>1 DEF Holds, LogEnd
    <3>5. QED
      BY Zenon, <3>1, <3>3, <3>4 DEF Replicas
  <2>3. OnMedia(a.offset) \subseteq {b \in Replicas : Holds(b, a) /\ a.offset < disk[b]}
    BY Zenon, <2>2 DEF OnMedia
  <2>4. Cardinality(OnMedia(a.offset)) >= QuorumSize
    BY Zenon DEF DurableInv
  <2>5. QED
    BY Zenon, <2>3, <2>4, LargerSet
<1>2. QED
  BY <1>1, TypeInvariant, AgreeInvariant, DurableInvariant, PTL
-----------------------------------------------------------------------------
(***************************************************************************)
(* Replication implements QuorumLog, and what the high-water mark means    *)
(* when it moves; proved for any number of followers and any bounds.       *)
(***************************************************************************)
\* An acknowledgement is never taken back.
LEMMA AckedGrows ==
  ASSUME [Next]_vars
  PROVE  acked \subseteq acked'
<1>1. CASE UNCHANGED vars
  BY Zenon, <1>1 DEF vars, replica
<1>2. CASE Produce \/ ExpireWaiters \/ EnforceRetention
  BY Zenon, <1>2 DEF Produce, ProduceCheck, ProduceAppend, ProduceNotify, ProduceWait, ExpireWaiters,
              EnforceRetention, replica, OnLeaderAppend, AddWaiter, CompleteWith
<1>3. ASSUME NEW b \in Replicas, Flusher(b) \/ Restart(b) PROVE acked \subseteq acked'
  BY Zenon, <1>3 DEF Flusher, FlushStart, FlushSync, FlushComplete, Restart, replica,
              CompleteSatisfiedWaiters, CompleteWith
<1>4. ASSUME NEW f \in Followers, MarkFollowerOutOfSync(f) PROVE acked \subseteq acked'
  BY Zenon, <1>4 DEF MarkFollowerOutOfSync, CompleteWith, replica
<1>5. ASSUME NEW f \in Followers, Sender(f) PROVE acked \subseteq acked'
  BY Zenon, <1>4, <1>5 DEF Sender, EnsureConnected, SendPending, ReceiveResponse, ConnectionLost,
                    OnFollowerProgress, CompleteWith, replica
<1>6. ASSUME NEW f \in Followers, ExecuteReplicate(f) \/ ExecuteLate(f) PROVE acked \subseteq acked'
  BY Zenon, <1>6 DEF ExecuteReplicate, ExecuteLate, replica
<1>7. CASE Failure
  BY Zenon, <1>4, <1>7 DEF Failure, CallFails, ConnectFails, ReplicateFails, ProduceFails, Crash,
                    PowerLoss, Stop, replica
<1>8. QED
  BY ZenonT(30), <1>1, <1>2, <1>3, <1>5, <1>6, <1>7 DEF Next

\* One step makes records durable on one broker at most.
LEMMA OneDiskStep ==
  ASSUME TypeInv, [Next]_vars
  PROVE  \E b \in Replicas : \A c \in Replicas : c # b => disk'[c] = disk[c]
<1>0. disk \in [Replicas -> Nat] /\ Leader \in Replicas
  BY Zenon DEF TypeInv, TypeOK, Replicas
<1>1. CASE UNCHANGED disk
  BY Zenon, <1>0, <1>1
<1>2. ASSUME NEW b \in Replicas, FlushSync(b) \/ PowerLoss(b) \/ Stop(b)
      PROVE  \A c \in Replicas : c # b => disk'[c] = disk[c]
  BY Zenon, <1>0, <1>2 DEF FlushSync, PowerLoss, Stop
<1>3. CASE UNCHANGED vars
  BY Zenon, <1>1, <1>3 DEF vars, storage
<1>4. CASE Produce \/ ExpireWaiters \/ EnforceRetention
  BY Zenon, <1>1, <1>4 DEF Produce, ProduceCheck, ProduceAppend, ProduceNotify, ProduceWait,
                    ExpireWaiters, EnforceRetention, storage
<1>5. ASSUME NEW b \in Replicas, FlushStart(b) \/ FlushComplete \/ Restart(b) \/ Crash(b)
      PROVE  UNCHANGED disk
  BY Zenon, <1>5 DEF FlushStart, FlushComplete, Restart, Crash
<1>6. ASSUME NEW f \in Followers,
             \/ Sender(f) \/ ExecuteReplicate(f) \/ ExecuteLate(f)
             \/ CallFails(f) \/ ConnectFails(f) \/ ReplicateFails(f)
      PROVE  UNCHANGED disk
  BY Zenon, <1>6 DEF Sender, EnsureConnected, SendPending, ReceiveResponse, ConnectionLost,
              ExecuteReplicate, ExecuteLate, CallFails, ConnectFails, ReplicateFails, storage
<1>7. ASSUME ProduceFails PROVE UNCHANGED disk
  BY Zenon, <1>7 DEF ProduceFails, storage
<1>8. QED
  BY ZenonT(30), <1>1, <1>2, <1>3, <1>4, <1>5, <1>6, <1>7 DEF Next, Flusher, Failure

\* StableLogs is made of the first disk[b] records of each log.
StableIsPrefix ==
  \A b \in Replicas :
    /\ Len(StableLogs[b]) = disk[b] /\ disk[b] \in Nat /\ disk[b] <= Len(log[b])
    /\ \A i \in 1..disk[b] : StableLogs[b][i] = log[b][i]

\* What is on the media of a broker.
LEMMA StableLog == TypeInv /\ DiskInv => StableIsPrefix
<1> SUFFICES ASSUME TypeInv, DiskInv, NEW b \in Replicas
             PROVE  /\ Len(StableLogs[b]) = disk[b] /\ disk[b] \in Nat /\ disk[b] <= Len(log[b])
                    /\ \A i \in 1..disk[b] : StableLogs[b][i] = log[b][i]
  BY Zenon DEF StableIsPrefix
<1>1. log[b] \in Seq(Record) /\ disk[b] \in Nat /\ Len(log[b]) \in Nat
  BY Zenon, SeqLen DEF TypeInv, TypeOK
<1>2. disk[b] \in 0..Len(log[b])
  BY <1>1 DEF DiskInv
<1>3. StableLogs[b] = SubSeq(log[b], 1, disk[b])
  BY Zenon DEF StableLogs
<1>4. QED
  BY SMTT(30), <1>1, <1>2, <1>3, FirstOfSeq

\* No two brokers' media disagree at an offset both have.
StableAgrees ==
  \A c, d \in Replicas : Promise!Agree(StableLogs[c], StableLogs[d])

\* Agreement of the logs is agreement of what is on the media.
LEMMA StableLogsAgree == TypeInv /\ DiskInv /\ ReplicasAgree => StableAgrees
<1> SUFFICES ASSUME TypeInv, DiskInv, ReplicasAgree, NEW c \in Replicas, NEW d \in Replicas,
                    NEW i \in 1..Len(StableLogs[c]), i <= Len(StableLogs[d])
             PROVE  StableLogs[c][i] = StableLogs[d][i]
  BY Zenon DEF StableAgrees, Promise!Agree
<1>1. /\ \A b \in Replicas : Len(log[b]) \in Nat
      /\ StableIsPrefix
  BY Zenon, StableLog, SeqLen DEF TypeInv, TypeOK
<1>2. ASSUME NEW b \in Replicas, i <= Len(StableLogs[b]) PROVE StableLogs[b][i] = log[Leader][i]
  <2>1. i \in Nat \ {0} /\ disk[b] \in Nat /\ i <= disk[b] /\ disk[b] <= Len(log[b])
    BY SMTT(30), <1>1, <1>2 DEF StableIsPrefix
  <2>2. i \in 1..disk[b] /\ i \in 1..Len(log[b])
    BY SMTT(30), <1>1, <2>1
  <2>3. StableLogs[b][i] = log[b][i]
    BY Zenon, <1>1, <2>2 DEF StableIsPrefix
  <2>4. log[b][i] = log[Leader][i]
    BY Zenon, <2>2 DEF ReplicasAgree, HoldsPrefixOf, Replicas
  <2>5. QED
    BY Zenon, <2>3, <2>4
<1>3. QED
  BY SMTT(30), <1>1, <1>2 DEF StableIsPrefix

RefInv == TypeInv /\ FlushInv /\ AgreeInv /\ DurableInv /\ QuorumAckDurable

\* What is on the media stays there.
LEMMA StableGrows ==
  ASSUME RefInv, RefInv', MayCrash = {}, Leader \notin MayLosePower, [Next]_vars, NEW b \in Replicas
  PROVE  /\ Promise!Extends(StableLogs'[b], StableLogs[b])
         /\ disk'[b] = disk[b] => StableLogs'[b] = StableLogs[b]
<1>0. TypeInv /\ FlushInv /\ AgreeInv /\ DiskInv /\ ReplicasAgree
  BY Zenon DEF RefInv, DurableInv, AgreeInv
<1>1. TypeInv' /\ DiskInv' /\ ReplicasAgree'
  BY Zenon DEF RefInv, DurableInv, AgreeInv
<1>2. disk[b] <= disk'[b]
  BY Zenon, <1>0, <1>1, DiskStep
<1>3. StableIsPrefix
  BY Zenon, <1>0, StableLog
<1>4. StableIsPrefix'
  BY <1>1, StableLog, PTL
<1>5. Len(log[Leader]) \in Nat /\ Len(log[b]) \in Nat /\ Len(log'[b]) \in Nat
  BY Zenon, <1>0, <1>1, SeqLen DEF TypeInv, TypeOK, Replicas
<1>6. ASSUME NEW i \in 1..disk[b] PROVE StableLogs'[b][i] = StableLogs[b][i]
  <2>1. i \in 1..disk'[b] /\ i \in 1..Len(log[b]) /\ i \in 1..Len(log'[b])
    BY SMTT(30), <1>2, <1>3, <1>4, <1>5 DEF StableIsPrefix
  <2>2. StableLogs[b][i] = log[b][i] /\ StableLogs'[b][i] = log'[b][i]
    BY Zenon, <1>3, <1>4, <2>1 DEF StableIsPrefix
  <2>3. log[b][i] = log[Leader][i] /\ i \in 1..Len(log[Leader])
    BY SMTT(30), <1>0, <1>5, <2>1 DEF ReplicasAgree, HoldsPrefixOf, Replicas
  <2>4. log'[b][i] = log'[Leader][i]
    BY Zenon, <1>1, <2>1 DEF ReplicasAgree, HoldsPrefixOf, Replicas
  <2>5. log[Leader][i] = log'[Leader][i]
    BY Zenon, <1>0, <2>3, LeaderLogGrows DEF HoldsPrefixOf
  <2>6. QED
    BY Zenon, <2>2, <2>3, <2>4, <2>5
<1>7. /\ Len(StableLogs[b]) = disk[b] /\ Len(StableLogs'[b]) = disk'[b]
      /\ disk[b] \in Nat /\ disk'[b] \in Nat
  BY Zenon, <1>3, <1>4 DEF StableIsPrefix
<1>8. Promise!Extends(StableLogs'[b], StableLogs[b])
  BY Zenon, <1>2, <1>6, <1>7 DEF Promise!Extends, Promise!Agree
<1>9. ASSUME disk'[b] = disk[b] PROVE StableLogs'[b] = StableLogs[b]
  <2>1. StableLogs[b] \in Seq(Record) /\ StableLogs'[b] \in Seq(Record)
    <3>1. /\ log[b] \in Seq(Record) /\ disk[b] \in 0..Len(log[b])
          /\ log'[b] \in Seq(Record) /\ disk'[b] \in 0..Len(log'[b])
      BY SMTT(30), <1>0, <1>1, <1>3, <1>4, <1>5 DEF TypeInv, TypeOK, StableIsPrefix
    <3>2. StableLogs[b] = SubSeq(log[b], 1, disk[b]) /\ StableLogs'[b] = SubSeq(log'[b], 1, disk'[b])
      BY Zenon DEF StableLogs
    <3>3. QED
      BY ZenonT(30), <3>1, <3>2, FirstOfSeq
  <2>2. QED
    BY ZenonT(30), <1>6, <1>7, <1>9, <2>1, SeqSame
<1>10. QED
  BY Zenon, <1>8, <1>9

\* Every step of the system is a step of QuorumLog or changes nothing there.
LEMMA PromiseStep ==
  ASSUME RefInv, RefInv', MayCrash = {}, Leader \notin MayLosePower, [Next]_vars
  PROVE  [Promise!Next]_<<StableLogs, QuorumAcks>>
<1>1. CASE acked' = acked
  <2>1. PICK b \in Replicas : \A c \in Replicas : c # b => disk'[c] = disk[c]
    BY Zenon, OneDiskStep DEF RefInv
  <2>2. \A c \in Replicas : IF c = b THEN Promise!Extends(StableLogs'[c], StableLogs[c])
                                     ELSE StableLogs'[c] = StableLogs[c]
    BY Zenon, <2>1, StableGrows
  <2>3. StableAgrees'
    <3>1. TypeInv' /\ DiskInv' /\ ReplicasAgree'
      BY Zenon DEF RefInv, DurableInv, AgreeInv
    <3>2. QED
      BY <3>1, StableLogsAgree, PTL
  <2>4. QuorumAcks' = QuorumAcks
    BY Zenon, <1>1 DEF QuorumAcks
  <2>5. Promise!Persist(b)
    BY Zenon, <2>2, <2>3, <2>4 DEF Promise!Persist, StableAgrees, Promise!Agree
  <2>6. QED
    BY Zenon, <2>5 DEF Promise!Next
<1>2. CASE acked' # acked
  <2>1. PICK a \in acked' : a \notin acked
    BY Zenon, <1>2, AckedGrows
  <2>2. UNCHANGED <<log, disk>>
    BY Zenon, <2>1, AckStep DEF RefInv
  <2>3. StableLogs' = StableLogs
    BY Zenon, <2>2 DEF StableLogs
  <2>4. QuorumAcks \subseteq QuorumAcks'
    BY Zenon, AckedGrows DEF QuorumAcks
  <2>5. ASSUME NEW p \in QuorumAcks' PROVE \E Q \in Majorities : Q \subseteq Promise!HeldBy(p)
    <3>1. PICK x \in acked' : x.mode = "quorum" /\ p = [offset |-> x.offset, rec |-> x.rec]
      BY Zenon DEF QuorumAcks
    <3> DEFINE H == {b \in Replicas : Holds(b, x) /\ x.offset < disk[b]}
    <3>2. Cardinality(H) >= QuorumSize
      <4>1. Cardinality({b \in Replicas : Holds(b, x)' /\ x.offset < disk'[b]}) >= QuorumSize
        BY Zenon, <3>1 DEF RefInv, QuorumAckDurable
      <4>2. H = {b \in Replicas : Holds(b, x)' /\ x.offset < disk'[b]}
        BY Zenon, <2>2 DEF Holds, LogEnd
      <4>3. QED
        BY Zenon, <4>1, <4>2
    <3>3. StableIsPrefix /\ x.offset \in Nat
      BY Zenon, <3>1, StableLog DEF RefInv, DurableInv, TypeInv, TypeOK
    <3>4. H \subseteq Promise!HeldBy(p)
      <4>1. ASSUME NEW b \in H
            PROVE  b \in Replicas /\ p.offset < Len(StableLogs[b]) /\ StableLogs[b][p.offset + 1] = p.rec
        <5>1. /\ b \in Replicas /\ log[b][x.offset + 1] = x.rec /\ x.offset < disk[b]
          BY Zenon DEF Holds
        <5>2. disk[b] \in Nat /\ Len(StableLogs[b]) = disk[b] /\ x.offset + 1 \in 1..disk[b]
          BY SMTT(30), <3>3, <5>1 DEF StableIsPrefix
        <5>3. StableLogs[b][x.offset + 1] = log[b][x.offset + 1]
          BY Zenon, <3>3, <5>1, <5>2 DEF StableIsPrefix
        <5>4. QED
          BY Zenon, <3>1, <5>1, <5>2, <5>3
      <4>2. QED
        BY Zenon, <4>1 DEF Promise!HeldBy
    <3>5. Promise!HeldBy(p) \subseteq Replicas
      BY Zenon DEF Promise!HeldBy
    <3> HIDE DEF H
    <3>6. Cardinality(Promise!HeldBy(p)) >= QuorumSize
      BY Zenon, <3>2, <3>4, <3>5, LargerSet
    <3>7. Cardinality(Promise!HeldBy(p)) \in Nat /\ Cardinality(Replicas) \in Nat
      <4>1. IsFiniteSet(Replicas)
        BY SMTT(30), ReplicaSetAssumption, FS_AddElement DEF Replicas
      <4>2. IsFiniteSet(Promise!HeldBy(p))
        BY Zenon, <4>1, <3>5, FS_Subset
      <4>3. QED
        BY Zenon, <4>1, <4>2, FS_CardinalityType
    <3>8. 2 * Cardinality(Promise!HeldBy(p)) > Cardinality(Replicas)
      BY SMTT(30), <3>6, <3>7 DEF QuorumSize
    <3>9. QED
      BY Zenon, <3>5, <3>8 DEF Majorities
  <2>6. Promise!Acknowledge
    BY Zenon, <2>3, <2>4, <2>5 DEF Promise!Acknowledge
  <2>7. QED
    BY Zenon, <2>6 DEF Promise!Next
<1>3. QED
  BY Zenon, <1>1, <1>2

\* Replication implements QuorumLog: with no process crash, which recovery
\* mistakes for a flush, and a leader that keeps power, every behaviour of
\* threads, connections, late requests, stops, restarts and power losses of
\* followers is one of durable logs that only grow, never disagree, and hold
\* each acks=quorum record on a majority.
THEOREM Refinement ==
  ASSUME MayCrash = {}, Leader \notin MayLosePower
  PROVE  Spec => KeepsPromise
<1>1. Init => Promise!Init
  <2> SUFFICES ASSUME Init PROVE Promise!Init
    BY Zenon
  <2>1. \A b \in Replicas : SubSeq(log[b], 1, disk[b]) = <<>>
    BY SeqPartEmpty DEF Init
  <2>2. StableLogs = [b \in Replicas |-> <<>>]
    BY Zenon, <2>1 DEF StableLogs
  <2>3. QuorumAcks = {}
    BY Zenon DEF Init, QuorumAcks
  <2>4. QED
    BY Zenon, <2>2, <2>3 DEF Promise!Init
<1>2. RefInv /\ RefInv' /\ [Next]_vars => [Promise!Next]_<<StableLogs, QuorumAcks>>
  BY Zenon, PromiseStep
<1>3. Spec => []RefInv
  <2>1. TypeInv /\ FlushInv /\ AgreeInv /\ DurableInv /\ QuorumAckDurable => RefInv
    BY Zenon DEF RefInv
  <2>2. QED
    BY <2>1, TypeInvariant, FlushInvariant, AgreeInvariant, DurableInvariant, QuorumDurability, PTL
<1>4. QED
  BY <1>1, <1>2, <1>3, PTL DEF Spec, KeepsPromise, Promise!Spec
-----------------------------------------------------------------------------
\* Where a new high-water mark comes from.
LEMMA HwmStep ==
  ASSUME TypeInv, TypeInv', [Next]_vars, hwm' > hwm
  PROVE  \/ hwm' = Recomputed(fol') /\ UNCHANGED log
         \/ hwm' = LogEnd(Leader) /\ Followers = {}
<1>0. hwm \in Nat
  BY Zenon DEF TypeInv, TypeOK
<1>a. hwm' # hwm /\ hwm' # 0
  BY SMTT(30), <1>0
<1>1. ASSUME NEW f \in Followers, MarkFollowerOutOfSync(f) PROVE hwm' = Recomputed(fol')
  BY Zenon, <1>1, <1>a DEF MarkFollowerOutOfSync, CompleteWith, replica
<1>2. CASE UNCHANGED vars
  BY Zenon, <1>2, <1>a DEF vars, replica
<1>3. CASE Produce
  BY Zenon, <1>3, <1>a DEF Produce, ProduceCheck, ProduceAppend, ProduceNotify, ProduceWait, replica,
                    storage, OnLeaderAppend, AddWaiter, CompleteWith
<1>4. CASE ExpireWaiters \/ EnforceRetention
  BY Zenon, <1>4, <1>a DEF ExpireWaiters, EnforceRetention, replica
<1>5. CASE \E b \in Replicas : Flusher(b)
  BY Zenon, <1>5, <1>a DEF Flusher, FlushStart, FlushSync, FlushComplete, replica,
                    CompleteSatisfiedWaiters, CompleteWith
<1>6. ASSUME NEW b \in Replicas, Restart(b) PROVE hwm' = LogEnd(Leader) /\ Followers = {}
  BY Zenon, <1>6, <1>a DEF Restart, InitialHighWaterMark
<1>7. ASSUME NEW f \in Followers, Sender(f) PROVE hwm' = Recomputed(fol') /\ UNCHANGED log
  BY Zenon, <1>1, <1>7, <1>a DEF Sender, EnsureConnected, SendPending, ReceiveResponse, ConnectionLost,
                    OnFollowerProgress, CompleteWith, replica, storage
<1>8. ASSUME NEW f \in Followers, ExecuteReplicate(f) \/ ExecuteLate(f) PROVE FALSE
  BY Zenon, <1>8, <1>a DEF ExecuteReplicate, ExecuteLate, replica
<1>9. ASSUME NEW f \in Followers, CallFails(f) \/ ReplicateFails(f) PROVE FALSE
  BY Zenon, <1>9, <1>a DEF CallFails, ReplicateFails, replica
<1>10. ASSUME NEW f \in Followers, ConnectFails(f) PROVE hwm' = Recomputed(fol') /\ UNCHANGED log
  BY Zenon, <1>1, <1>10 DEF ConnectFails, storage
<1>11. ASSUME ProduceFails PROVE FALSE
  BY Zenon, <1>11, <1>a DEF ProduceFails, replica
<1>12. ASSUME NEW b \in Replicas, Crash(b) \/ PowerLoss(b) \/ Stop(b) PROVE FALSE
  BY Zenon, <1>12, <1>a DEF Crash, PowerLoss, Stop, LoseMemory
<1>13. QED
  BY ZenonT(30), <1>2, <1>3, <1>4, <1>5, <1>6, <1>7, <1>8, <1>9, <1>10, <1>11, <1>12 DEF Next, Failure

\* A mark that was raised lies at or below every position it was taken from.
LEMMA RaisedMark ==
  ASSUME NEW h \in Nat, NEW e \in Nat, NEW g \in [Followers -> FollowerState],
         RecomputeHighWaterMark(h, e, g) > h
  PROVE  /\ RecomputeHighWaterMark(h, e, g) <= e
         /\ \A f \in InSync(g) : RecomputeHighWaterMark(h, e, g) <= g[f].leo
<1> DEFINE S == {e} \cup {g[f].leo : f \in InSync(g)}
<1>1. S \in SUBSET Nat /\ S # {}
  BY Zenon DEF InSync, FollowerState
<1>2. SmallestOf(S) \in S /\ \A y \in S : SmallestOf(S) <= y
  BY Zenon, <1>1, SmallestOfBounds
<1>3. RecomputeHighWaterMark(h, e, g) = LargerOf(h, SmallestOf(S))
  BY Zenon DEF RecomputeHighWaterMark
<1>4. RecomputeHighWaterMark(h, e, g) = SmallestOf(S)
  <2> HIDE DEF S
  <2> QED BY SMTT(30), <1>1, <1>2, <1>3 DEF LargerOf
<1>5. QED
  BY Zenon, <1>2, <1>4

\* The high-water mark only moves to where every follower in sync already is,
\* for followers that keep power.
THEOREM HwmIsReplicated ==
  ASSUME MayLosePower \subseteq {Leader}
  PROVE  Spec => HwmAdvanceReplicated
<1>1. TypeInv /\ TypeInv' /\ CreditInv' /\ [Next]_vars =>
        [hwm' > hwm => /\ hwm' <= LogEnd(Leader)
                       /\ \A f \in InSync(fol') : hwm' <= LogEnd(f)]_vars
  <2> SUFFICES ASSUME TypeInv, TypeInv', CreditInv', [Next]_vars, hwm' > hwm
               PROVE  hwm' <= LogEnd(Leader) /\ \A f \in InSync(fol') : hwm' <= LogEnd(f)
    BY Zenon
  <2>0. /\ LogEnd(Leader) \in Nat /\ hwm \in Nat /\ fol' \in [Followers -> FollowerState]
        /\ \A f \in Followers : LogEnd(f) \in Nat /\ fol'[f].leo \in Nat
    BY Zenon, SeqLen DEF TypeInv, TypeOK, Replicas, LogEnd, FollowerState
  <2>1. CASE hwm' = Recomputed(fol') /\ UNCHANGED log
    <3>1. hwm' = RecomputeHighWaterMark(hwm, LogEnd(Leader), fol')
      BY Zenon, <2>1 DEF Recomputed
    <3>2. hwm' <= LogEnd(Leader) /\ \A f \in InSync(fol') : hwm' <= fol'[f].leo
      BY Zenon, <2>0, <3>1, RaisedMark
    <3>3. \A f \in InSync(fol') : f \in Followers /\ fol'[f].leo <= LogEnd(f)
      BY Zenon, <2>1 DEF CreditInv, InSync, LogEnd
    <3>4. hwm' \in Nat
      BY Zenon DEF TypeInv, TypeOK
    <3>5. QED
      BY SMTT(30), <2>0, <3>2, <3>3, <3>4
  <2>2. CASE hwm' = LogEnd(Leader) /\ Followers = {}
    BY SMTT(30), <2>0, <2>2 DEF InSync
  <2>3. QED
    BY Zenon, <2>1, <2>2, HwmStep
<1>2. QED
  BY <1>1, TypeInvariant, CreditInvariant, PTL DEF Spec, HwmAdvanceReplicated
=============================================================================
