------------------------- MODULE ConsumerGroupProofs ------------------------
(***************************************************************************)
(* Proofs about ConsumerGroup, for any number of clients, partitions,      *)
(* records and faults: what the coordinator and the members keep, and      *)
(* exclusive ownership within a generation.                                *)
(***************************************************************************)
EXTENDS ConsumerGroup, FiniteSetTheorems, TLAPS

-----------------------------------------------------------------------------
\* The empty sequence.
LEMMA SeqEmpty ==
  ASSUME NEW S
  PROVE  << >> \in Seq(S) /\ Len(<< >>) = 0
OBVIOUS

\* A sequence is a function on the numbers up to its length.
LEMMA SeqLen ==
  ASSUME NEW S, NEW seq \in Seq(S)
  PROVE  Len(seq) \in Nat /\ seq \in [1 .. Len(seq) -> S] /\ DOMAIN seq = 1 .. Len(seq)
OBVIOUS

\* What a part of a sequence holds.
LEMMA SeqPart ==
  ASSUME NEW S, NEW s, NEW m \in Int, NEW n \in Int, \A i \in m .. n : s[i] \in S
  PROVE  /\ SubSeq(s, m, n) \in Seq(S)
         /\ Len(SubSeq(s, m, n)) = IF m <= n THEN n - m + 1 ELSE 0
         /\ \A i \in 1 .. n - m + 1 : SubSeq(s, m, n)[i] = s[m + i - 1]
OBVIOUS

\* The whole of a sequence.
LEMMA SeqWhole ==
  ASSUME NEW S, NEW seq \in Seq(S)
  PROVE  SubSeq(seq, 1, Len(seq)) = seq
OBVIOUS

-----------------------------------------------------------------------------
(***************************************************************************)
(* Type correctness.  TypeOK alone is not inductive: what a commit request *)
(* names must be a partition and an offset before it may be journalled.    *)
(***************************************************************************)
CommitsOK ==
  /\ \A c \in Clients : client[c].last # NoPartition => client[c].next >= 0
  /\ \A x \in committing : x.request.part \in Partitions /\ x.request.offset >= 0
  /\ \A r \in late : r.kind = "commit" => r.part \in Partitions /\ r.offset >= 0

TypeInv == TypeOK /\ CommitsOK

\* The placeholder for "no partition" is none.
LEMMA NoPartitionIsNone == NoPartition \notin Partitions
BY Zenon, PartitionsAssumption DEF NoPartition

\* Assign gives every member a set of the partitions.
LEMMA AssignType ==
  ASSUME NEW ids, NEW P \in SUBSET Partitions
  PROVE  Assign(Strategy, ids, P) \in [ids -> SUBSET Partitions]
BY Zenon DEF Assign, AssignRoundRobin, AssignRange

\* What every critical section of the coordinator keeps.
GroupOK ==
  /\ exists \in BOOLEAN /\ generation \in Nat /\ counter \in Nat
  /\ DOMAIN members \subseteq 1..counter
  /\ members \in [DOMAIN members -> SUBSET Partitions]

\* RebalanceLocked leaves the members it was given.
LEMMA RebalanceType ==
  ASSUME GroupOK, NEW ids, Rebalance(ids)
  PROVE  /\ generation' = generation + 1 /\ generation' \in Nat
         /\ DOMAIN members' = ids
         /\ members' \in [ids -> SUBSET Partitions]
<1>1. PartitionLookup \in SUBSET Partitions
  BY Zenon DEF PartitionLookup
<1>2. members' \in [ids -> SUBSET Partitions]
  BY Zenon, <1>1, AssignType DEF Rebalance
<1>3. QED
  BY <1>2 DEF Rebalance, GroupOK

\* Join keeps the group well formed, and its answer names a member.
LEMMA JoinGroupType ==
  ASSUME GroupOK, NEW m \in Nat, JoinGroup(m)
  PROVE  /\ GroupOK'
         /\ AllocateMemberId(m) \in DOMAIN members'
         /\ AllocateMemberId(m) \in Nat
         /\ members'[AllocateMemberId(m)] \in SUBSET Partitions
<1>1. CASE m \in DOMAIN members
  BY Zenon, <1>1 DEF JoinGroup, GroupOK, AllocateMemberId
<1>2. CASE m \notin DOMAIN members
  <2>1. counter' = counter + 1 /\ exists' = TRUE /\ Rebalance(DOMAIN members \cup {counter + 1})
    BY Zenon, <1>2 DEF JoinGroup
  <2>2. /\ generation' \in Nat
        /\ DOMAIN members' = DOMAIN members \cup {counter + 1}
        /\ members' \in [DOMAIN members \cup {counter + 1} -> SUBSET Partitions]
    BY Zenon, <2>1, RebalanceType
  <2>3. DOMAIN members' \subseteq 1..counter'
    BY <2>1, <2>2 DEF GroupOK
  <2>4. AllocateMemberId(m) = counter + 1
    BY Zenon, <1>2 DEF AllocateMemberId
  <2>5. QED
    BY <2>1, <2>2, <2>3, <2>4 DEF GroupOK
<1>3. QED
  BY Zenon, <1>1, <1>2

\* Leave keeps the group well formed.
LEMMA LeaveGroupType ==
  ASSUME GroupOK, NEW m, LeaveGroup(m)
  PROVE  GroupOK'
<1>1. CASE m \in DOMAIN members
  <2>1. Rebalance(DOMAIN members \ {m}) /\ UNCHANGED <<exists, counter>>
    BY Zenon, <1>1 DEF LeaveGroup
  <2>2. /\ generation' \in Nat /\ DOMAIN members' = DOMAIN members \ {m}
        /\ members' \in [DOMAIN members \ {m} -> SUBSET Partitions]
    BY Zenon, <2>1, RebalanceType
  <2>3. QED
    BY Zenon, <2>1, <2>2 DEF GroupOK
<1>2. CASE m \notin DOMAIN members
  BY Zenon, <1>2 DEF LeaveGroup, GroupOK, group
<1>3. QED
  BY Zenon, <1>1, <1>2

\* A step of one client leaves the others alone.
LEMMA SetClientType ==
  ASSUME client \in [Clients -> ConsumerState], NEW c \in Clients, NEW s \in ConsumerState,
         SetClient(c, s)
  PROVE  /\ client' \in [Clients -> ConsumerState]
         /\ client'[c] = s
         /\ \A d \in Clients : d # c => client'[d] = client[d]
BY Zenon DEF SetClient

\* The end of Join only moves the client's control point.
LEMMA ResolvingType ==
  ASSUME NEW s \in ConsumerState
  PROVE  /\ Resolving(s) \in ConsumerState
         /\ Resolving(s).member = s.member /\ Resolving(s).generation = s.generation
         /\ Resolving(s).assignment = s.assignment /\ Resolving(s).positions = s.positions
         /\ Resolving(s).last = s.last /\ Resolving(s).next = s.next
BY Zenon DEF Resolving, ConsumerState

\* A new Consumer is well formed.
LEMMA NewConsumerType == NewConsumer \in ConsumerState
<1>1. None \in None..Records /\ NoMember \in Nat /\ -1 \in Nat \cup {-1}
  BY SMTT(30), BoundsAssumption DEF None, NoMember
<1>2. QED
  BY Zenon, <1>1 DEF NewConsumer, ConsumerState, NoPartition

\* The state a client has after an answer to Join.
Joined(s, id, g, assignment) ==
  [s EXCEPT !.member = id, !.generation = g, !.assignment = assignment,
            !.positions = [p \in Partitions |-> IF p \in assignment THEN @[p] ELSE None]]

\* It is well formed, and keeps or forgets each position.
LEMMA JoinedType ==
  ASSUME NEW s \in ConsumerState, NEW id \in Nat, NEW g \in Nat, NEW a \in SUBSET Partitions
  PROVE  /\ Joined(s, id, g, a) \in ConsumerState
         /\ Joined(s, id, g, a).member = id /\ Joined(s, id, g, a).generation = g
         /\ Joined(s, id, g, a).assignment = a
         /\ Joined(s, id, g, a).last = s.last /\ Joined(s, id, g, a).next = s.next
         /\ \A p \in Partitions : Joined(s, id, g, a).positions[p] \in {s.positions[p], None}
<1>1. None \in None..Records
  BY BoundsAssumption DEF None
<1>2. QED
  BY Zenon, <1>1 DEF Joined, ConsumerState

\* A position that is an offset keeps the state of a client well formed.
LEMMA PositionType ==
  ASSUME NEW s \in ConsumerState, NEW p \in Partitions, NEW o \in None..Records
  PROVE  /\ [s EXCEPT !.positions[p] = o] \in ConsumerState
         /\ [s EXCEPT !.positions[p] = o].positions = [s.positions EXCEPT ![p] = o]
         /\ [s EXCEPT !.positions[p] = o].last = s.last
         /\ [s EXCEPT !.positions[p] = o].next = s.next
BY Zenon DEF ConsumerState

\* So does a control point.
LEMMA PcType ==
  ASSUME NEW s \in ConsumerState, NEW pc \in {"idle", "join", "resolve", "commit"}
  PROVE  /\ [s EXCEPT !.pc = pc] \in ConsumerState
         /\ [s EXCEPT !.pc = pc].positions = s.positions
         /\ [s EXCEPT !.pc = pc].last = s.last /\ [s EXCEPT !.pc = pc].next = s.next
BY Zenon DEF ConsumerState

\* Join of a client, in terms of the above.
LEMMA JoinAnswer ==
  ASSUME TypeOK, NEW c \in Clients, Join(c)
  PROVE  /\ GroupOK'
         /\ \E id \in DOMAIN members' :
              /\ id \in Nat /\ id = AllocateMemberId(client[c].member)
              /\ members'[id] \in SUBSET Partitions
              /\ Joined(client[c], id, generation', members'[id]) \in ConsumerState
              /\ SetClient(c, Resolving(Joined(client[c], id, generation', members'[id])))
<1>1. client[c] \in ConsumerState /\ client[c].member \in Nat
  BY Zenon DEF TypeOK, ConsumerState
<1>2. GroupOK /\ JoinGroup(client[c].member)
  BY Zenon DEF Join, TypeOK, GroupOK
<1> DEFINE id == AllocateMemberId(client[c].member)
<1>3. GroupOK' /\ id \in DOMAIN members' /\ id \in Nat /\ members'[id] \in SUBSET Partitions
  BY Zenon, <1>1, <1>2, JoinGroupType
<1>4. generation' \in Nat
  BY Zenon, <1>3 DEF GroupOK
<1>5. Joined(client[c], id, generation', members'[id]) \in ConsumerState
  BY Zenon, <1>1, <1>3, <1>4, JoinedType
<1>6. SetClient(c, Resolving(Joined(client[c], id, generation', members'[id])))
  BY Zenon DEF Join, Joined
<1>7. QED
  BY Zenon, <1>3, <1>5, <1>6

\* A call that is answered or given up gives the client its control back.
LEMMA AnsweredType ==
  ASSUME client \in [Clients -> ConsumerState], NEW x, client' = Answered(x)
  PROVE  /\ client' \in [Clients -> ConsumerState]
         /\ \A c \in Clients : /\ client'[c].positions = client[c].positions
                               /\ client'[c].last = client[c].last
                               /\ client'[c].next = client[c].next
                               /\ client'[c].member = client[c].member
                               /\ client'[c].generation = client[c].generation
                               /\ client'[c].assignment = client[c].assignment
<1>1. CASE x.caller \in Clients
  <2>1. client' = [client EXCEPT ![x.caller].pc = "idle"]
    BY Zenon, <1>1 DEF Answered
  <2>2. client[x.caller] \in ConsumerState
    BY Zenon, <1>1
  <2>3. client' = [client EXCEPT ![x.caller] = [client[x.caller] EXCEPT !.pc = "idle"]]
    BY Zenon, <2>1, <1>1
  <2>4. [client[x.caller] EXCEPT !.pc = "idle"] \in ConsumerState
    BY Zenon, <2>2, PcType
  <2>5. client' \in [Clients -> ConsumerState]
    BY Zenon, <2>3, <2>4
  <2>6. \A c \in Clients : client'[c] = IF c = x.caller THEN [client[c] EXCEPT !.pc = "idle"]
                                                        ELSE client[c]
    BY Zenon, <2>3
  <2>7. QED
    BY <2>5, <2>6 DEF ConsumerState
<1>2. CASE x.caller \notin Clients
  BY Zenon, <1>2 DEF Answered
<1>3. QED
  BY Zenon, <1>1, <1>2

\* The steps of a client.
LEMMA ConsumerType ==
  ASSUME TypeInv, NEW c \in Clients, Consumer(c)
  PROVE  TypeInv'
<1>0. TypeOK /\ CommitsOK /\ client[c] \in ConsumerState /\ GroupOK
  BY Zenon DEF TypeInv, TypeOK, GroupOK
<1>1. CASE Join(c)
  <2>1. GroupOK' /\ UNCHANGED <<up, store, committing, late, logs, delivered, confirmed, faults>>
    BY Zenon, <1>0, <1>1, JoinAnswer DEF Join
  <2>2. PICK id \in DOMAIN members' :
          /\ id \in Nat /\ members'[id] \in SUBSET Partitions
          /\ Joined(client[c], id, generation', members'[id]) \in ConsumerState
          /\ SetClient(c, Resolving(Joined(client[c], id, generation', members'[id])))
    BY Zenon, <1>0, <1>1, JoinAnswer
  <2> DEFINE s == Joined(client[c], id, generation', members'[id])
  <2>3. Resolving(s) \in ConsumerState /\ Resolving(s).last = client[c].last
        /\ Resolving(s).next = client[c].next
    BY SMTT(30), <1>0, <2>1, <2>2, ResolvingType, JoinedType DEF GroupOK
  <2>4. client' \in [Clients -> ConsumerState] /\ client'[c] = Resolving(s)
        /\ \A d \in Clients : d # c => client'[d] = client[d]
    <3> HIDE DEF s
    <3> QED BY Zenon, <1>0, <2>2, <2>3, SetClientType DEF TypeOK, s
  <2>5. TypeOK'
    BY Zenon, <1>0, <2>1, <2>4 DEF TypeOK, GroupOK, store, logs
  <2>6. CommitsOK'
    BY Zenon, <1>0, <2>1, <2>3, <2>4 DEF CommitsOK
  <2>7. QED
    BY Zenon, <2>5, <2>6 DEF TypeInv
<1>2. ASSUME NEW pc \in {"idle", "join", "resolve", "commit"}, SetClient(c, [client[c] EXCEPT !.pc = pc])
      PROVE  /\ client' \in [Clients -> ConsumerState]
             /\ \A d \in Clients : client'[d].last = client[d].last /\ client'[d].next = client[d].next
  <2>1. [client[c] EXCEPT !.pc = pc] \in ConsumerState
        /\ [client[c] EXCEPT !.pc = pc].last = client[c].last
        /\ [client[c] EXCEPT !.pc = pc].next = client[c].next
    BY Zenon, <1>0, PcType
  <2>2. QED
    BY Zenon, <1>0, <1>2, <2>1, SetClientType DEF TypeOK
<1>3. CASE JoinUnavailable(c) \/ Heartbeat(c)
  <2>1. UNCHANGED <<up, group, store, committing, late, logs, delivered, confirmed, faults>>
    BY Zenon, <1>3 DEF JoinUnavailable, Heartbeat
  <2>2. \E pc \in {"idle", "join"} : SetClient(c, [client[c] EXCEPT !.pc = pc])
    BY Zenon, <1>3 DEF JoinUnavailable, Heartbeat
  <2>3. /\ client' \in [Clients -> ConsumerState]
        /\ \A d \in Clients : client'[d].last = client[d].last /\ client'[d].next = client[d].next
    BY Zenon, <1>2, <2>2
  <2>4. QED
    BY Zenon, <1>0, <2>1, <2>3 DEF TypeInv, TypeOK, CommitsOK, group, store, logs
<1>4. ASSUME NEW p \in Partitions, ResolvePosition(c, p) \/ ResolveFails(c, p)
      PROVE  TypeInv'
  <2>1. UNCHANGED <<up, group, store, committing, late, logs, delivered, confirmed>> /\ faults' \in Nat
    BY SMTT(30), <1>0, <1>4 DEF ResolvePosition, ResolveFails, Fault, TypeOK
  <2>2. StartOffset(p) \in None..Records /\ committed[p] \in None..Records /\ 0 \in None..Records
    BY SMTT(30), <1>0, BoundsAssumption DEF StartOffset, TypeOK, None
  <2>3. PICK o \in None..Records : SetClient(c, Resolving([client[c] EXCEPT !.positions[p] = o]))
    BY Zenon, <1>4, <2>2 DEF ResolvePosition, ResolveFails
  <2>4. /\ Resolving([client[c] EXCEPT !.positions[p] = o]) \in ConsumerState
        /\ Resolving([client[c] EXCEPT !.positions[p] = o]).last = client[c].last
        /\ Resolving([client[c] EXCEPT !.positions[p] = o]).next = client[c].next
    <3> DEFINE s == [client[c] EXCEPT !.positions[p] = o]
    <3>1. s \in ConsumerState /\ s.last = client[c].last /\ s.next = client[c].next
      BY SMTT(30), <1>0, PositionType
    <3>2. QED
      <4> HIDE DEF s
      <4> QED BY Zenon, <3>1, ResolvingType DEF s
  <2>5. /\ client' \in [Clients -> ConsumerState]
        /\ \A d \in Clients : client'[d].last = client[d].last /\ client'[d].next = client[d].next
    BY Zenon, <1>0, <2>3, <2>4, SetClientType DEF TypeOK
  <2>6. QED
    BY Zenon, <1>0, <2>1, <2>5 DEF TypeInv, TypeOK, CommitsOK, group, store, logs
<1>5. ASSUME NEW p \in Partitions, Poll(c, p)
      PROVE  TypeInv'
  <2>1. UNCHANGED <<up, group, store, committing, late, logs, confirmed, faults>>
    BY Zenon, <1>5 DEF Poll
  <2>2. client[c].positions[p] \in None..Records /\ logStart[p] \in 0..Records /\ logEnd[p] \in 0..Records
    BY Zenon, <1>0 DEF TypeOK, ConsumerState
  <2>3. CASE client[c].positions[p] < logStart[p]
    <3>1. SetClient(c, [client[c] EXCEPT !.positions[p] = logStart[p]]) /\ UNCHANGED delivered
      BY Zenon, <1>5, <2>3 DEF Poll
    <3>2. logStart[p] \in None..Records
      BY SMTT(30), <2>2, BoundsAssumption DEF None
    <3>3. /\ [client[c] EXCEPT !.positions[p] = logStart[p]] \in ConsumerState
          /\ [client[c] EXCEPT !.positions[p] = logStart[p]].last = client[c].last
          /\ [client[c] EXCEPT !.positions[p] = logStart[p]].next = client[c].next
      BY SMTT(30), <1>0, <3>2, PositionType
    <3>4. /\ client' \in [Clients -> ConsumerState]
          /\ \A d \in Clients : client'[d].last = client[d].last /\ client'[d].next = client[d].next
      BY Zenon, <1>0, <3>1, <3>3, SetClientType DEF TypeOK
    <3>5. QED
      BY Zenon, <1>0, <2>1, <3>1, <3>4 DEF TypeInv, TypeOK, CommitsOK, group, store, logs
  <2>4. CASE ~(client[c].positions[p] < logStart[p])
    <3>1. PICK next \in client[c].positions[p]..logEnd[p] :
            /\ delivered' = [delivered EXCEPT ![p] = @ \cup client[c].positions[p]..(next - 1)]
            /\ SetClient(c, [client[c] EXCEPT !.positions[p] = next, !.last = p, !.next = next])
      BY Zenon, <1>5, <2>4 DEF Poll
    <3>2. next \in 0..Records /\ next \in None..Records
      BY SMTT(30), <2>2, <2>4, BoundsAssumption DEF None
    <3>3. [client[c] EXCEPT !.positions[p] = next, !.last = p, !.next = next] \in ConsumerState
          /\ [client[c] EXCEPT !.positions[p] = next, !.last = p, !.next = next].next = next
      BY Zenon, <1>0, <3>2 DEF ConsumerState
    <3>4. /\ client' \in [Clients -> ConsumerState] /\ client'[c].next = next
          /\ \A d \in Clients : d # c => client'[d] = client[d]
      BY Zenon, <1>0, <3>1, <3>3, SetClientType DEF TypeOK
    <3>5. client[c].positions[p]..(next - 1) \subseteq 0..Records
      BY SMTT(30), <2>2, <2>4, <3>2, BoundsAssumption DEF None
    <3>6. delivered' \in [Partitions -> SUBSET (0..Records)]
      BY Zenon, <1>0, <3>1, <3>5 DEF TypeOK
    <3>7. TypeOK'
      BY Zenon, <1>0, <2>1, <3>4, <3>6 DEF TypeOK, group, store, logs
    <3>8. CommitsOK'
      BY SMTT(30), <1>0, <2>1, <3>2, <3>4 DEF CommitsOK
    <3>9. QED
      BY Zenon, <3>7, <3>8 DEF TypeInv
  <2>5. QED
    BY Zenon, <2>3, <2>4
<1>6. MayCommit(c) => /\ CommitRequest(c) \in Request /\ CommitRequest(c).kind = "commit"
                      /\ CommitRequest(c).part \in Partitions /\ CommitRequest(c).offset >= 0
  <2>1. MayCommit(c) => client[c].last \in Partitions /\ client[c].next >= 0
    BY Zenon, <1>0 DEF MayCommit, CommitsOK, ConsumerState
  <2>2. QED
    BY Zenon, <1>0, <2>1 DEF CommitRequest, Request, ConsumerState
<1>7. CASE Commit(c)
  <2>1. UNCHANGED <<up, group, store, late, logs, delivered, confirmed, faults>>
        /\ MayCommit(c) /\ SetClient(c, [client[c] EXCEPT !.pc = "commit"])
        /\ committing' = committing \cup {[request |-> CommitRequest(c), caller |-> c]}
    BY Zenon, <1>7 DEF Commit
  <2>2. /\ client' \in [Clients -> ConsumerState]
        /\ \A d \in Clients : client'[d].last = client[d].last /\ client'[d].next = client[d].next
    BY Zenon, <1>2, <2>1
  <2>3. TypeOK'
    BY SMTT(30), <1>0, <1>6, <2>1, <2>2 DEF TypeOK, group, store, logs
  <2>4. CommitsOK'
    BY <1>0, <1>6, <2>1, <2>2 DEF CommitsOK
  <2>5. QED
    BY Zenon, <2>3, <2>4 DEF TypeInv
<1>8. CASE Leave(c)
  <2> DEFINE s == [client[c] EXCEPT !.member = NoMember, !.generation = -1, !.assignment = {}]
  <2>1. UNCHANGED <<up, store, committing, late, logs, delivered, confirmed>>
        /\ LeaveGroup(client[c].member) /\ SetClient(c, s) /\ faults' \in Nat
    BY SMTT(30), <1>0, <1>8 DEF Leave, Fault, TypeOK
  <2>2. GroupOK'
    BY Zenon, <1>0, <2>1, LeaveGroupType
  <2>3. s \in ConsumerState /\ s.last = client[c].last /\ s.next = client[c].next
    BY Zenon, <1>0 DEF ConsumerState, NoMember
  <2>4. /\ client' \in [Clients -> ConsumerState]
        /\ \A d \in Clients : client'[d].last = client[d].last /\ client'[d].next = client[d].next
    <3> HIDE DEF s
    <3> QED BY Zenon, <1>0, <2>1, <2>3, SetClientType DEF TypeOK
  <2>5. QED
    BY Zenon, <1>0, <2>1, <2>2, <2>4 DEF TypeInv, TypeOK, CommitsOK, GroupOK, store, logs
<1>9. CASE CallLost(c)
  <2>1. UNCHANGED <<up, group, store, committing, logs, delivered, confirmed>>
        /\ SetClient(c, [client[c] EXCEPT !.pc = "idle"]) /\ faults' \in Nat
    BY SMTT(30), <1>0, <1>9 DEF CallLost, Fault, TypeOK
  <2>2. PICK r \in LosableCalls(c) : late' \subseteq late \cup {r}
    BY Zenon, <1>9 DEF CallLost
  <2>3. r \in Request /\ (r.kind = "commit" => r.part \in Partitions /\ r.offset >= 0)
    <3>1. None \in None..Records
      BY BoundsAssumption DEF None
    <3>2. \A kind \in {"join", "leave"} : Call(c, kind) \in Request /\ Call(c, kind).kind # "commit"
      BY Zenon, <1>0, <3>1 DEF Call, Request, ConsumerState
    <3>3. r \in {Call(c, "join"), Call(c, "leave")} \/ (MayCommit(c) /\ r = CommitRequest(c))
      BY Zenon, <2>2 DEF LosableCalls
    <3>4. QED
      BY Zenon, <1>6, <3>2, <3>3
  <2>4. /\ client' \in [Clients -> ConsumerState]
        /\ \A d \in Clients : client'[d].last = client[d].last /\ client'[d].next = client[d].next
    BY Zenon, <1>2, <2>1
  <2>5. late' \subseteq Request
    BY Zenon, <1>0, <2>2, <2>3 DEF TypeOK
  <2>6. \A q \in late' : q.kind = "commit" => q.part \in Partitions /\ q.offset >= 0
    BY Zenon, <1>0, <2>2, <2>3 DEF CommitsOK
  <2>7. QED
    BY Zenon, <1>0, <2>1, <2>4, <2>5, <2>6 DEF TypeInv, TypeOK, CommitsOK, group, store, logs
<1>10. CASE ClientCrash(c)
  <2>1. UNCHANGED <<up, group, store, late, logs, delivered, confirmed>>
        /\ SetClient(c, NewConsumer) /\ faults' \in Nat
    BY <1>0, <1>10 DEF ClientCrash, Fault, TypeOK
  <2>2. /\ client' \in [Clients -> ConsumerState] /\ client'[c].last = NoPartition
        /\ \A d \in Clients : d # c => client'[d] = client[d]
    <3>1. NewConsumer.last = NoPartition
      BY Zenon DEF NewConsumer
    <3>2. QED
      BY Zenon, <1>0, <2>1, <3>1, NewConsumerType, SetClientType DEF TypeOK
  <2>3. \A y \in committing' : \E x \in committing : /\ y.request = x.request
                                                     /\ y \in [request : Request, caller : Clients \cup {NoClient}]
    <3>1. \A x \in committing : x \in [request : Request, caller : Clients \cup {NoClient}]
      BY Zenon, <1>0 DEF TypeOK
    <3>2. \A x \in committing : /\ [x EXCEPT !.caller = NoClient].request = x.request
                                /\ [x EXCEPT !.caller = NoClient] \in [request : Request, caller : Clients \cup {NoClient}]
      BY Zenon, <3>1
    <3>3. QED
      BY Zenon, <1>10, <3>1, <3>2 DEF ClientCrash
  <2>4. TypeOK'
    BY Zenon, <1>0, <2>1, <2>2, <2>3 DEF TypeOK, group, store, logs
  <2>5. CommitsOK'
    BY Zenon, <1>0, <2>1, <2>2, <2>3 DEF CommitsOK
  <2>6. QED
    BY Zenon, <2>4, <2>5 DEF TypeInv
<1>11. QED
  BY Zenon, <1>1, <1>3, <1>4, <1>5, <1>7, <1>8, <1>9, <1>10 DEF Consumer

\* A non-empty bounded set of naturals has a largest element.
LEMMA LargestOfBounded ==
  ASSUME NEW n \in Nat, NEW S \in SUBSET (1..n), S # {}
  PROVE  \E i \in S : \A k \in S : i >= k
<1> DEFINE T == {n - k : k \in S}
           R == OpToRel(<, Nat)
<1>0. \A k \in S : k \in Int /\ 1 <= k /\ k <= n
  OBVIOUS
<1>1. T \in SUBSET Nat /\ T # {}
  <2>1. \A k \in S : n - k \in Nat
    BY <1>0
  <2>2. QED
    BY Zenon, <2>1
<1>2. PICK t \in T : \A u \in T : ~(<<u, t>> \in R)
  <2>1. IsWellFoundedOn(R, Nat)
    BY Zenon, NatLessThanWellFounded
  <2> HIDE DEF R, T
  <2>2. QED
    BY Zenon, <1>1, <2>1, WFMin
<1>3. \A u \in T : t <= u
  <2>1. \A u \in T : u < t => <<u, t>> \in R
    BY Zenon, <1>1 DEF OpToRel
  <2> HIDE DEF R
  <2>2. t \in Nat /\ \A u \in T : u \in Nat /\ ~(u < t)
    BY Zenon, <1>1, <1>2, <2>1
  <2>3. QED
    BY <2>2
<1>4. PICK i \in S : t = n - i
  BY Zenon
<1>5. \A k \in S : n - i <= n - k
  BY Zenon, <1>3, <1>4
<1>6. QED
  BY <1>5

\* Replay gives None or an offset that some entry of the journal has.
LEMMA ReplayEntry ==
  ASSUME NEW j \in Seq(Entry), NEW p \in Partitions
  PROVE  \/ Replay(j)[p] = None
         \/ \E i \in 1..Len(j) : /\ j[i].part = p /\ Replay(j)[p] = j[i].offset
                                 /\ \A k \in 1..Len(j) : j[k].part = p => k <= i
<1> DEFINE writes == {i \in 1..Len(j) : j[i].part = p}
           last == CHOOSE i \in writes : \A k \in writes : i >= k
<1>1. Replay(j)[p] = IF writes = {} THEN None ELSE j[last].offset
  BY Zenon DEF Replay
<1>2. ASSUME writes # {} PROVE last \in writes /\ \A k \in writes : last >= k
  <2>1. writes \in SUBSET (1..Len(j)) /\ Len(j) \in Nat
    OBVIOUS
  <2>2. \E i \in writes : \A k \in writes : i >= k
    BY Zenon, <1>2, <2>1, LargestOfBounded
  <2>3. QED
    BY Zenon, <2>2
<1>3. QED
  BY Zenon, <1>1, <1>2

\* Replay gives every partition None or an offset.
LEMMA ReplayType ==
  ASSUME NEW j \in Seq(Entry)
  PROVE  Replay(j) \in [Partitions -> None..Records]
<1>1. Replay(j) = [p \in Partitions |-> Replay(j)[p]]
  BY DEF Replay
<1>2. \A p \in Partitions : Replay(j)[p] \in None..Records
  <2>1. None \in None..Records /\ 0..Records \subseteq None..Records
    BY BoundsAssumption DEF None
  <2>2. \A i \in 1..Len(j) : j[i].offset \in 0..Records
    <3>1. \A i \in 1..Len(j) : j[i] \in Entry
      BY Zenon, SeqLen
    <3>2. QED
      BY Zenon, <3>1 DEF Entry
  <2>3. QED
    BY <2>1, <2>2, ReplayEntry
<1>3. QED
  BY Zenon, <1>1, <1>2

\* The steps of the coordinator.
LEMMA CoordinatorType ==
  ASSUME TypeInv, Coordinator
  PROVE  TypeInv'
<1>0. TypeOK /\ CommitsOK /\ GroupOK
  BY Zenon DEF TypeInv, TypeOK, GroupOK
<1>1. CASE ExpireAbandoned \/ ExpireRunning
  <2>1. PICK expired : ExpireSessions(expired)
    BY Zenon, <1>1 DEF ExpireAbandoned, ExpireRunning
  <2>2. faults' \in Nat
    BY <1>0, <1>1 DEF ExpireAbandoned, ExpireRunning, Fault, TypeOK
  <2>3. UNCHANGED <<up, exists, counter, store, committing, late, client, logs, delivered, confirmed>>
        /\ Rebalance(DOMAIN members \ expired)
    BY Zenon, <2>1 DEF ExpireSessions
  <2>4. /\ generation' \in Nat /\ DOMAIN members' = DOMAIN members \ expired
        /\ members' \in [DOMAIN members \ expired -> SUBSET Partitions]
    BY Zenon, <1>0, <2>3, RebalanceType
  <2>5. QED
    BY Zenon, <1>0, <2>2, <2>3, <2>4 DEF TypeInv, TypeOK, CommitsOK, store, logs
<1>2. ASSUME NEW x \in committing, AppendCommit(x) \/ AppendCommitFails(x) \/ CommitGivenUp(x)
      PROVE  TypeInv'
  <2>1. /\ client' \in [Clients -> ConsumerState]
        /\ \A c \in Clients : client'[c].last = client[c].last /\ client'[c].next = client[c].next
    <3>1. client' = Answered(x)
      BY Zenon, <1>2 DEF AppendCommit, AppendCommitFails, CommitGivenUp
    <3>2. QED
      BY Zenon, <1>0, <3>1, AnsweredType DEF TypeOK
  <2>2. UNCHANGED <<up, group, late, logs, delivered>> /\ faults' \in Nat
    BY <1>0, <1>2 DEF AppendCommit, AppendCommitFails, CommitGivenUp, Fault, TypeOK
  <2>3. x \in [request : Request, caller : Clients \cup {NoClient}]
        /\ x.request.part \in Partitions /\ x.request.offset \in 0..Records
    BY SMTT(30), <1>0, BoundsAssumption DEF TypeOK, CommitsOK, Request, None
  <2>4. \A y \in committing' : /\ y \in [request : Request, caller : Clients \cup {NoClient}]
                               /\ y.request.part \in Partitions /\ y.request.offset >= 0
    <3>1. [x EXCEPT !.caller = NoClient] \in [request : Request, caller : Clients \cup {NoClient}]
          /\ [x EXCEPT !.caller = NoClient].request = x.request
      BY Zenon, <2>3
    <3>2. committing' \subseteq committing \cup {[x EXCEPT !.caller = NoClient]}
      BY Zenon, <1>2 DEF AppendCommit, AppendCommitFails, CommitGivenUp
    <3>3. x.request.part \in Partitions /\ x.request.offset >= 0
      BY Zenon, <1>0 DEF CommitsOK
    <3>4. ASSUME NEW y \in committing PROVE y \in [request : Request, caller : Clients \cup {NoClient}]
                               /\ y.request.part \in Partitions /\ y.request.offset >= 0
      BY Zenon, <1>0 DEF TypeOK, CommitsOK
    <3>5. QED
      BY Zenon, <3>1, <3>2, <3>3, <3>4
  <2>5. journal' \in Seq(Entry) /\ synced' \in Nat /\ confirmed' \in Nat
        /\ committed' \in [Partitions -> None..Records]
    <3>1. CASE AppendCommit(x)
      <4>1. [part |-> x.request.part, offset |-> x.request.offset] \in Entry
        BY Zenon, <2>3 DEF Entry
      <4>2. journal \in Seq(Entry) /\ Len(journal) \in Nat
        BY <1>0 DEF TypeOK
      <4>3. journal' \in Seq(Entry)
        BY SMTT(30), <3>1, <4>1, <4>2 DEF AppendCommit, OffsetStoreCommit
      <4>4. synced' \in Nat /\ confirmed' \in Nat
        BY <1>0, <3>1, <4>2 DEF AppendCommit, OffsetStoreCommit, TypeOK
      <4>5. x.request.offset \in None..Records
        BY <2>3 DEF None
      <4>6. committed' \in [Partitions -> None..Records]
        BY Zenon, <1>0, <3>1, <2>3, <4>5 DEF AppendCommit, OffsetStoreCommit, TypeOK
      <4>7. QED
        BY Zenon, <4>3, <4>4, <4>6
    <3>2. CASE AppendCommitFails(x) \/ CommitGivenUp(x)
      BY Zenon, <1>0, <3>2 DEF AppendCommitFails, CommitGivenUp, store, TypeOK
    <3>3. QED
      BY Zenon, <1>2, <3>1, <3>2
  <2>6. TypeOK'
    BY Zenon, <1>0, <2>1, <2>2, <2>4, <2>5 DEF TypeOK, group, logs
  <2>7. CommitsOK'
    BY Zenon, <1>0, <2>1, <2>2, <2>4 DEF CommitsOK
  <2>8. QED
    BY Zenon, <2>6, <2>7 DEF TypeInv
<1>3. ASSUME NEW r \in late, ExecuteLate(r)
      PROVE  TypeInv'
  <2>1. UNCHANGED <<up, store, client, logs, delivered, confirmed, faults>> /\ late' = late \ {r}
    BY Zenon, <1>3 DEF ExecuteLate
  <2>2. r \in Request /\ r.member \in Nat
    BY Zenon, <1>0 DEF TypeOK, Request
  <2>3. GroupOK'
    <3>1. CASE JoinGroup(r.member)
      BY Zenon, <1>0, <2>2, <3>1, JoinGroupType
    <3>2. CASE LeaveGroup(r.member)
      BY Zenon, <1>0, <3>2, LeaveGroupType
    <3>3. CASE UNCHANGED group
      BY Zenon, <1>0, <3>3 DEF GroupOK, group
    <3>4. QED
      BY Zenon, <1>3, <3>1, <3>2, <3>3 DEF ExecuteLate
  <2>4. \A y \in committing' : /\ y \in [request : Request, caller : Clients \cup {NoClient}]
                               /\ y.request.part \in Partitions /\ y.request.offset >= 0
    <3>1. committing' \subseteq committing \cup {[request |-> r, caller |-> NoClient]}
          /\ (r.kind = "commit" \/ committing' = committing)
      BY Zenon, <1>3 DEF ExecuteLate
    <3>2. r.kind = "commit" => r.part \in Partitions /\ r.offset >= 0
      BY Zenon, <1>0 DEF CommitsOK
    <3>3. ASSUME NEW y \in committing PROVE y \in [request : Request, caller : Clients \cup {NoClient}]
                               /\ y.request.part \in Partitions /\ y.request.offset >= 0
      BY Zenon, <1>0 DEF TypeOK, CommitsOK
    <3>4. QED
      BY SMTT(30), <2>2, <3>1, <3>2, <3>3
  <2>5. TypeOK'
    BY Zenon, <1>0, <2>1, <2>3, <2>4 DEF TypeOK, GroupOK, store, logs
  <2>6. CommitsOK'
    BY Zenon, <1>0, <2>1, <2>4 DEF CommitsOK
  <2>7. QED
    BY Zenon, <2>5, <2>6 DEF TypeInv
<1>4. CASE CoordinatorCrash \/ CoordinatorStop \/ CoordinatorPowerLoss
  <2>1. GroupsLost
    BY Zenon, <1>4 DEF CoordinatorCrash, CoordinatorStop, CoordinatorPowerLoss
  <2>2. /\ up' = FALSE /\ GroupOK' /\ faults' \in Nat /\ committing' = {} /\ late' = {}
        /\ UNCHANGED <<committed, logs, delivered, confirmed>>
    <3>1. members' \in [{} -> SUBSET Partitions] /\ DOMAIN members' = {}
      BY Zenon, <2>1 DEF GroupsLost, NoMembers
    <3>2. generation' = 0 /\ counter' = 0 /\ exists' = FALSE
      BY Zenon, <2>1 DEF GroupsLost
    <3>3. GroupOK'
      BY Zenon, <3>1, <3>2 DEF GroupOK
    <3>4. QED
      BY <1>0, <2>1, <3>3 DEF GroupsLost, Fault, TypeOK
  <2>3. /\ client' \in [Clients -> ConsumerState]
        /\ \A c \in Clients : client'[c].last = client[c].last /\ client'[c].next = client[c].next
    <3>1. \A c \in Clients : client'[c] = IF client[c].pc = "commit" THEN [client[c] EXCEPT !.pc = "idle"]
                                                                    ELSE client[c]
      BY Zenon, <2>1 DEF GroupsLost
    <3>2. \A c \in Clients : /\ client'[c] \in ConsumerState
                             /\ client'[c].last = client[c].last /\ client'[c].next = client[c].next
      <4>1. \A c \in Clients : client[c] \in ConsumerState
        BY Zenon, <1>0 DEF TypeOK
      <4>2. \A c \in Clients : LET s == [client[c] EXCEPT !.pc = "idle"]
                               IN  s \in ConsumerState /\ s.last = client[c].last /\ s.next = client[c].next
        BY Zenon, <4>1, PcType
      <4>3. QED
        BY Zenon, <3>1, <4>1, <4>2
    <3>3. client' = [c \in Clients |-> client'[c]]
      BY Zenon, <2>1 DEF GroupsLost
    <3>4. QED
      BY Zenon, <3>2, <3>3
  <2>4. journal' \in Seq(Entry) /\ synced' \in Nat
    <3>1. journal \in Seq(Entry) /\ Len(journal) \in Nat
      BY <1>0 DEF TypeOK
    <3>2. CASE CoordinatorCrash \/ CoordinatorStop
      BY Zenon, <1>0, <3>1, <3>2 DEF CoordinatorCrash, CoordinatorStop, TypeOK
    <3>3. CASE CoordinatorPowerLoss
      <4>1. PICK n \in synced..Len(journal) : journal' = SubSeq(journal, 1, n) /\ synced' = n
        BY Zenon, <3>3 DEF CoordinatorPowerLoss
      <4>2. n \in Nat /\ \A i \in 1..n : journal[i] \in Entry
        BY <1>0, <3>1, <4>1 DEF TypeOK
      <4>3. SubSeq(journal, 1, n) \in Seq(Entry)
        BY SMTT(30), <4>2, SeqPart
      <4>4. QED
        BY Zenon, <4>1, <4>2, <4>3
    <3>4. QED
      BY Zenon, <1>4, <3>2, <3>3
  <2>5. QED
    BY Zenon, <1>0, <2>2, <2>3, <2>4 DEF TypeInv, TypeOK, CommitsOK, GroupOK, logs
<1>5. CASE CoordinatorStart
  <2>1. UNCHANGED <<group, journal, synced, committing, late, client, logs, delivered, confirmed, faults>>
        /\ up' \in BOOLEAN /\ committed' = Replay(journal)
    BY Zenon, <1>5 DEF CoordinatorStart
  <2>2. Replay(journal) \in [Partitions -> None..Records]
    BY Zenon, <1>0, ReplayType DEF TypeOK
  <2>3. QED
    BY Zenon, <1>0, <2>1, <2>2 DEF TypeInv, TypeOK, CommitsOK, group, logs
<1>6. QED
  BY Zenon, <1>1, <1>2, <1>3, <1>4, <1>5 DEF Coordinator

\* The steps of the world around.
LEMMA WorldType ==
  ASSUME TypeInv, World
  PROVE  TypeInv'
<1>0. TypeOK /\ CommitsOK
  BY Zenon DEF TypeInv
<1>1. ASSUME NEW t \in Topics, CreateTopic(t) PROVE TypeInv'
  BY Zenon, <1>0, <1>1 DEF CreateTopic, TypeInv, TypeOK, CommitsOK, group, store
<1>2. ASSUME NEW p \in Partitions, Produce(p) PROVE TypeInv'
  <2>1. logEnd' \in [Partitions -> 0..Records]
    <3>1. logEnd \in [Partitions -> 0..Records] /\ logEnd' = [logEnd EXCEPT ![p] = @ + 1]
          /\ logEnd[p] < Records
      BY Zenon, <1>0, <1>2 DEF Produce, TypeOK
    <3>2. logEnd[p] + 1 \in 0..Records
      BY SMTT(30), <3>1, BoundsAssumption
    <3>3. QED
      BY Zenon, <3>1, <3>2
  <2>2. QED
    BY Zenon, <1>0, <1>2, <2>1 DEF Produce, TypeInv, TypeOK, CommitsOK, group, store
<1>3. ASSUME NEW p \in Partitions, EnforceRetention(p) PROVE TypeInv'
  <2>1. logStart' \in [Partitions -> 0..Records] /\ faults' \in Nat
    BY SMTT(30), <1>0, <1>3, BoundsAssumption DEF EnforceRetention, TypeOK, Fault
  <2>2. QED
    BY Zenon, <1>0, <1>3, <2>1 DEF EnforceRetention, TypeInv, TypeOK, CommitsOK, group, store
<1>4. QED
  BY Zenon, <1>1, <1>2, <1>3 DEF World

\* Every step keeps the strengthened type invariant.
LEMMA TypeStep ==
  ASSUME TypeInv, [Next]_vars
  PROVE  TypeInv'
<1>1. CASE UNCHANGED vars
  BY Zenon, <1>1 DEF TypeInv, TypeOK, CommitsOK, vars, group, store, logs
<1>2. CASE Next
  BY Zenon, <1>2, ConsumerType, CoordinatorType, WorldType DEF Next
<1>3. QED
  BY Zenon, <1>1, <1>2

\* The strengthened type invariant is inductive.
LEMMA TypeInvariant == Spec => []TypeInv
<1>1. Init => TypeInv
  <2> SUFFICES ASSUME Init PROVE TypeInv
    BY Zenon
  <2>1. None \in None..Records /\ 0 \in 0..Records /\ EndAtStart \in 0..Records
    BY SMTT(30), BoundsAssumption DEF None
  <2>2. client \in [Clients -> ConsumerState] /\ \A c \in Clients : client[c].last = NoPartition
    BY Zenon, NewConsumerType DEF Init, NewConsumer
  <2>3. journal \in Seq(Entry)
    BY Zenon, SeqEmpty DEF Init
  <2>4. members \in [{} -> SUBSET Partitions] /\ DOMAIN members = {}
    BY Zenon DEF Init, NoMembers
  <2>5. TypeOK
    BY Zenon, <2>1, <2>2, <2>3, <2>4 DEF Init, TypeOK
  <2>6. CommitsOK
    BY Zenon, <2>2 DEF Init, CommitsOK
  <2>7. QED
    BY Zenon, <2>5, <2>6 DEF TypeInv
<1>2. TypeInv /\ [Next]_vars => TypeInv'
  BY Zenon, TypeStep
<1>3. QED
  BY <1>1, <1>2, PTL DEF Spec

\* Whatever clients, coordinator, network and failures do, every variable stays
\* in its domain; in particular no client ever reads from, and no commit ever
\* names, an offset beyond the log.
THEOREM GroupTypeCorrect == Spec => []TypeOK
<1>1. TypeInv => TypeOK
  BY Zenon DEF TypeInv
<1>2. QED
  BY <1>1, TypeInvariant, PTL
-----------------------------------------------------------------------------
(***************************************************************************)
(* At-least-once delivery.  The property speaks about the step that moves  *)
(* the committed offset; what makes it true is that every offset that can  *)
(* end up there, wherever it is on its way (a client's position, a request *)
(* between fence and journal or without a caller, the journal), has only   *)
(* records below it that were delivered or deleted.                        *)
(***************************************************************************)
Covered(p, o) == \A k \in 0..(o - 1) : k \in delivered[p] \/ k < logStart[p]

ClientsCovered ==
  \A c \in Clients :
    /\ \A p \in Partitions : Covered(p, client[c].positions[p])
    /\ client[c].last # NoPartition => Covered(client[c].last, client[c].next)

RequestsCovered ==
  /\ \A x \in committing : Covered(x.request.part, x.request.offset)
  /\ \A r \in late : r.kind = "commit" => Covered(r.part, r.offset)

StoreCovered ==
  /\ \A i \in 1..Len(journal) : Covered(journal[i].part, journal[i].offset)
  /\ \A p \in Partitions : Covered(p, committed[p])

CoveredInv == ClientsCovered /\ RequestsCovered /\ StoreCovered

\* Nothing is ever taken back: not a delivery, not the start of a log.
LEMMA HistoryGrows ==
  ASSUME TypeInv, [Next]_vars
  PROVE  \A p \in Partitions : delivered[p] \subseteq delivered'[p] /\ logStart[p] <= logStart'[p]
<1>0. /\ \A p \in Partitions : logStart[p] \in 0..Records
      /\ delivered \in [Partitions -> SUBSET (0..Records)] /\ logStart \in [Partitions -> 0..Records]
  BY Zenon DEF TypeInv, TypeOK
<1>1. ASSUME UNCHANGED <<delivered, logStart>>
      PROVE  \A p \in Partitions : delivered[p] \subseteq delivered'[p] /\ logStart[p] <= logStart'[p]
  BY <1>0, <1>1
<1>2. ASSUME NEW c \in Clients, NEW p \in Partitions, Poll(c, p)
      PROVE  \A q \in Partitions : delivered[q] \subseteq delivered'[q] /\ logStart[q] <= logStart'[q]
  <2>1. UNCHANGED logStart
    BY Zenon, <1>2 DEF Poll, logs
  <2>2. \/ UNCHANGED delivered
        \/ \E S : delivered' = [delivered EXCEPT ![p] = @ \cup S]
    BY Zenon, <1>2 DEF Poll
  <2>3. QED
    BY SMTT(30), <1>0, <2>1, <2>2
<1>3. ASSUME NEW p \in Partitions, EnforceRetention(p)
      PROVE  \A q \in Partitions : delivered[q] \subseteq delivered'[q] /\ logStart[q] <= logStart'[q]
  <2>1. UNCHANGED delivered /\ logStart' = [logStart EXCEPT ![p] = @ + 1]
    BY Zenon, <1>3 DEF EnforceRetention
  <2>2. QED
    BY <1>0, <2>1
<1>4. CASE UNCHANGED vars
  BY Zenon, <1>1, <1>4 DEF vars, logs
<1>5. ASSUME NEW c \in Clients, Consumer(c)
      PROVE  \A q \in Partitions : delivered[q] \subseteq delivered'[q] /\ logStart[q] <= logStart'[q]
  <2>1. UNCHANGED <<delivered, logStart>> \/ \E p \in Partitions : Poll(c, p)
    BY Zenon, <1>5 DEF Consumer, Join, JoinUnavailable, Heartbeat, ResolvePosition, ResolveFails, Commit,
                Leave, CallLost, ClientCrash, logs
  <2>2. QED
    BY Zenon, <1>1, <1>2, <2>1
<1>6. ASSUME Coordinator PROVE UNCHANGED <<delivered, logStart>>
  BY Zenon, <1>6 DEF Coordinator, ExpireAbandoned, ExpireRunning, ExpireSessions, AppendCommit,
              AppendCommitFails, CommitGivenUp, ExecuteLate, CoordinatorCrash, CoordinatorStop,
              CoordinatorPowerLoss, GroupsLost, CoordinatorStart, logs
<1>7. ASSUME World
      PROVE  \A q \in Partitions : delivered[q] \subseteq delivered'[q] /\ logStart[q] <= logStart'[q]
  <2>1. UNCHANGED <<delivered, logStart>> \/ \E p \in Partitions : EnforceRetention(p)
    BY Zenon, <1>7 DEF World, CreateTopic, Produce
  <2>2. QED
    BY Zenon, <1>1, <1>3, <2>1
<1>8. QED
  BY Zenon, <1>1, <1>4, <1>5, <1>6, <1>7 DEF Next

\* Hence an offset that is covered stays covered.
LEMMA CoveredStays ==
  ASSUME TypeInv, [Next]_vars, NEW p \in Partitions, NEW o \in None..Records, Covered(p, o)
  PROVE  Covered(p, o)'
<1>1. delivered[p] \subseteq delivered'[p] /\ logStart[p] <= logStart'[p]
  BY Zenon, HistoryGrows
<1>2. logStart[p] \in 0..Records /\ logStart'[p] \in Int
  <2>1. TypeInv'
    BY Zenon, TypeStep
  <2>2. QED
    BY <2>1, BoundsAssumption DEF TypeInv, TypeOK
<1>3. QED
  BY SMTT(30), <1>1, <1>2 DEF Covered, None

\* What the journal and the table of committed offsets get was covered before.
LEMMA StoreStep ==
  ASSUME TypeInv, CoveredInv, Next
  PROVE  /\ \A i \in 1..Len(journal') : Covered(journal'[i].part, journal'[i].offset)
         /\ \A p \in Partitions : Covered(p, committed'[p])
<1>0. TypeOK /\ StoreCovered /\ RequestsCovered /\ journal \in Seq(Entry) /\ Len(journal) \in Nat
  BY DEF TypeInv, TypeOK, CoveredInv
<1> DEFINE Goal == /\ \A i \in 1..Len(journal') : Covered(journal'[i].part, journal'[i].offset)
                   /\ \A p \in Partitions : Covered(p, committed'[p])
<1>1. ASSUME UNCHANGED <<journal, committed>> PROVE Goal
  BY Zenon, <1>0, <1>1 DEF StoreCovered
<1>2. ASSUME NEW x \in committing, AppendCommit(x) PROVE Goal
  <2>1. /\ journal' = Append(journal, [part |-> x.request.part, offset |-> x.request.offset])
        /\ committed' = [committed EXCEPT ![x.request.part] = x.request.offset]
    BY Zenon, <1>2 DEF AppendCommit, OffsetStoreCommit
  <2>2. Covered(x.request.part, x.request.offset)
    BY Zenon, <1>0 DEF RequestsCovered
  <2>3. x.request.part \in Partitions /\ x.request.offset \in 0..Records
    BY SMTT(30), BoundsAssumption DEF TypeInv, TypeOK, CommitsOK, Request, None
  <2>4. [part |-> x.request.part, offset |-> x.request.offset] \in Entry
    BY Zenon, <2>3 DEF Entry
  <2>5. \A i \in 1..Len(journal') : \/ i \in 1..Len(journal) /\ journal'[i] = journal[i]
                                    \/ journal'[i] = [part |-> x.request.part, offset |-> x.request.offset]
    BY SMTT(30), <1>0, <2>1, <2>4
  <2>6. \A i \in 1..Len(journal') : Covered(journal'[i].part, journal'[i].offset)
    <3>1. \A i \in 1..Len(journal) : Covered(journal[i].part, journal[i].offset)
      BY Zenon, <1>0 DEF StoreCovered
    <3>2. [part |-> x.request.part, offset |-> x.request.offset].part = x.request.part
          /\ [part |-> x.request.part, offset |-> x.request.offset].offset = x.request.offset
      BY Zenon
    <3>3. QED
      BY Zenon, <2>2, <2>5, <3>1, <3>2
  <2>7. \A p \in Partitions : committed'[p] = IF p = x.request.part THEN x.request.offset ELSE committed[p]
    BY Zenon, <1>0, <2>1 DEF TypeOK
  <2>8. \A p \in Partitions : Covered(p, committed'[p])
    BY Zenon, <1>0, <2>2, <2>7 DEF StoreCovered
  <2>9. QED
    BY Zenon, <2>6, <2>8
<1>3. CASE CoordinatorPowerLoss
  <2>1. PICK n \in synced..Len(journal) : journal' = SubSeq(journal, 1, n)
    BY Zenon, <1>3 DEF CoordinatorPowerLoss
  <2>2. UNCHANGED committed
    BY Zenon, <1>3 DEF CoordinatorPowerLoss, GroupsLost
  <2>3. n \in Nat /\ n <= Len(journal) /\ \A i \in 1..n : journal[i] \in Entry
    BY SMTT(30), <1>0, <2>1 DEF TypeOK
  <2>4. Len(journal') = n /\ \A i \in 1..n : journal'[i] = journal[i]
    BY <2>1, <2>3, SeqPart
  <2>5. \A i \in 1..n : i \in 1..Len(journal)
    BY SMTT(30), <1>0, <2>3
  <2>6. QED
    BY Zenon, <1>0, <2>2, <2>4, <2>5 DEF StoreCovered
<1>4. CASE CoordinatorStart
  <2>1. UNCHANGED journal /\ committed' = Replay(journal)
    BY Zenon, <1>4 DEF CoordinatorStart
  <2>2. \A p \in Partitions : Covered(p, Replay(journal)[p])
    <3>1. \A p \in Partitions : Covered(p, None)
      BY SMTT(30) DEF Covered, None
    <3>2. QED
      BY <1>0, <3>1, ReplayEntry DEF StoreCovered
  <2>3. QED
    BY Zenon, <1>0, <2>1, <2>2 DEF StoreCovered
<1>5. ASSUME NEW c \in Clients, Consumer(c) PROVE UNCHANGED <<journal, committed>>
  BY Zenon, <1>5 DEF Consumer, Join, JoinUnavailable, Heartbeat, ResolvePosition, ResolveFails, Poll, Commit,
              Leave, CallLost, ClientCrash, store
<1>6. ASSUME World PROVE UNCHANGED <<journal, committed>>
  BY Zenon, <1>6 DEF World, CreateTopic, Produce, EnforceRetention, store
<1>7. ASSUME Coordinator
      PROVE  \/ UNCHANGED <<journal, committed>> \/ CoordinatorPowerLoss \/ CoordinatorStart
             \/ \E x \in committing : AppendCommit(x)
  BY Zenon, <1>7 DEF Coordinator, ExpireAbandoned, ExpireRunning, ExpireSessions, AppendCommitFails,
              CommitGivenUp, ExecuteLate, CoordinatorCrash, CoordinatorStop, GroupsLost, store
<1>8. QED
  BY Zenon, <1>1, <1>2, <1>3, <1>4, <1>5, <1>6, <1>7 DEF Next

\* A request on its way names an offset that was covered before.
LEMMA RequestsStep ==
  ASSUME TypeInv, CoveredInv, Next
  PROVE  /\ \A x \in committing' : Covered(x.request.part, x.request.offset)
         /\ \A r \in late' : r.kind = "commit" => Covered(r.part, r.offset)
<1>0. TypeOK /\ RequestsCovered /\ ClientsCovered
  BY Zenon DEF TypeInv, CoveredInv
<1> DEFINE Goal == /\ \A x \in committing' : Covered(x.request.part, x.request.offset)
                   /\ \A r \in late' : r.kind = "commit" => Covered(r.part, r.offset)
<1>1. ASSUME \A y \in committing' : \E x \in committing : y.request = x.request,
             late' \subseteq late
      PROVE  Goal
  BY Zenon, <1>0, <1>1 DEF RequestsCovered
<1>2. ASSUME NEW c \in Clients, MayCommit(c)
      PROVE  Covered(CommitRequest(c).part, CommitRequest(c).offset)
  BY Zenon, <1>0, <1>2 DEF MayCommit, CommitRequest, ClientsCovered
<1>3. ASSUME NEW c \in Clients, Commit(c) PROVE Goal
  <2>1. committing' = committing \cup {[request |-> CommitRequest(c), caller |-> c]} /\ UNCHANGED late
        /\ MayCommit(c)
    BY Zenon, <1>3 DEF Commit
  <2>2. Covered(CommitRequest(c).part, CommitRequest(c).offset)
    BY Zenon, <1>2, <2>1
  <2>3. QED
    BY <1>0, <2>1, <2>2 DEF RequestsCovered
<1>4. ASSUME NEW c \in Clients, CallLost(c) PROVE Goal
  <2>1. PICK r \in LosableCalls(c) : late' \subseteq late \cup {r}
    BY Zenon, <1>4 DEF CallLost
  <2>2. UNCHANGED committing
    BY Zenon, <1>4 DEF CallLost
  <2>3. r.kind = "commit" => Covered(r.part, r.offset)
    <3>1. r \in {Call(c, "join"), Call(c, "leave")} \/ (MayCommit(c) /\ r = CommitRequest(c))
      BY Zenon, <2>1 DEF LosableCalls
    <3>2. Call(c, "join").kind # "commit" /\ Call(c, "leave").kind # "commit"
      BY Zenon DEF Call
    <3>3. QED
      BY Zenon, <1>2, <3>1, <3>2
  <2>4. QED
    BY Zenon, <1>0, <2>1, <2>2, <2>3 DEF RequestsCovered
<1>5. ASSUME NEW c \in Clients, ClientCrash(c) PROVE Goal
  <2>1. \A x \in committing : [x EXCEPT !.caller = NoClient].request = x.request
    BY Zenon, <1>0 DEF TypeOK
  <2>2. \A y \in committing' : \E x \in committing : y.request = x.request
    BY Zenon, <1>5, <2>1 DEF ClientCrash
  <2>3. QED
    BY Zenon, <1>1, <1>5, <2>2 DEF ClientCrash
<1>6. ASSUME NEW x \in committing, AppendCommit(x) \/ AppendCommitFails(x) \/ CommitGivenUp(x)
      PROVE  Goal
  <2>1. [x EXCEPT !.caller = NoClient].request = x.request
    BY Zenon, <1>0 DEF TypeOK
  <2>2. committing' \subseteq committing \cup {[x EXCEPT !.caller = NoClient]}
    BY Zenon, <1>6 DEF AppendCommit, AppendCommitFails, CommitGivenUp
  <2>3. UNCHANGED late
    BY Zenon, <1>6 DEF AppendCommit, AppendCommitFails, CommitGivenUp
  <2>4. QED
    BY Zenon, <1>1, <2>1, <2>2, <2>3
<1>7. ASSUME NEW r \in late, ExecuteLate(r) PROVE Goal
  <2>1. late' \subseteq late
    BY Zenon, <1>7 DEF ExecuteLate
  <2>2. \/ UNCHANGED committing
        \/ r.kind = "commit" /\ committing' = committing \cup {[request |-> r, caller |-> NoClient]}
    BY Zenon, <1>7 DEF ExecuteLate
  <2>3. QED
    BY SMTT(30), <1>0, <2>1, <2>2 DEF RequestsCovered
<1>8. ASSUME NEW c \in Clients, Consumer(c)
      PROVE  UNCHANGED <<committing, late>> \/ Commit(c) \/ CallLost(c) \/ ClientCrash(c)
  BY Zenon, <1>8 DEF Consumer, Join, JoinUnavailable, Heartbeat, ResolvePosition, ResolveFails, Poll, Leave
<1>9. ASSUME World PROVE UNCHANGED <<committing, late>>
  BY Zenon, <1>9 DEF World, CreateTopic, Produce, EnforceRetention
<1>10. ASSUME Coordinator
       PROVE  \/ UNCHANGED <<committing, late>> \/ (committing' = {} /\ late' = {})
              \/ \E x \in committing : AppendCommit(x) \/ AppendCommitFails(x) \/ CommitGivenUp(x)
              \/ \E r \in late : ExecuteLate(r)
  BY Zenon, <1>10 DEF Coordinator, ExpireAbandoned, ExpireRunning, ExpireSessions, CoordinatorCrash,
               CoordinatorStop, CoordinatorPowerLoss, GroupsLost, CoordinatorStart
<1>11. UNCHANGED <<committing, late>> \/ (committing' = {} /\ late' = {}) => Goal
  BY Zenon, <1>1
<1>12. QED
  BY Zenon, <1>3, <1>4, <1>5, <1>6, <1>7, <1>8, <1>9, <1>10, <1>11 DEF Next

\* A client's positions, and what its next commit would say, stay covered.
LEMMA ClientsStep ==
  ASSUME StartFromEarliest = TRUE, TypeInv, CoveredInv, Next
  PROVE  ClientsCovered'
<1>0. /\ TypeOK /\ ClientsCovered /\ StoreCovered /\ TypeInv'
      /\ client \in [Clients -> ConsumerState] /\ client' \in [Clients -> ConsumerState]
  <2>1. TypeInv'
    BY Zenon, TypeStep
  <2>2. QED
    BY Zenon, <2>1 DEF TypeInv, TypeOK, CoveredInv
<1>1. ASSUME \A c \in Clients :
               /\ \A p \in Partitions : Covered(p, client'[c].positions[p])
               /\ client'[c].last = client[c].last /\ client'[c].next = client[c].next
      PROVE  ClientsCovered'
  <2> SUFFICES ASSUME NEW c \in Clients
               PROVE  /\ \A p \in Partitions : Covered(p, client[c].positions[p])'
                      /\ client'[c].last # NoPartition => Covered(client[c].last, client[c].next)'
    BY Zenon DEF ClientsCovered
  <2>1. client'[c] \in ConsumerState /\ client[c] \in ConsumerState
    BY Zenon, <1>0
  <2>2. ASSUME NEW p \in Partitions PROVE Covered(p, client[c].positions[p])'
    <3> DEFINE o == client'[c].positions[p]
    <3>1. o \in None..Records /\ Covered(p, o)
      BY Zenon, <1>1, <2>1 DEF ConsumerState
    <3>2. \A k \in 0..(o - 1) : k \in delivered'[p] \/ k < logStart'[p]
      <4> HIDE DEF o
      <4> QED BY Zenon, <3>1, CoveredStays DEF Covered
    <3>3. QED
      BY Zenon, <3>2 DEF Covered
  <2>3. ASSUME client'[c].last # NoPartition PROVE Covered(client[c].last, client[c].next)'
    <3> DEFINE p == client[c].last
               o == client[c].next
    <3>1. p \in Partitions /\ o \in None..Records /\ Covered(p, o)
      BY Zenon, <1>0, <1>1, <2>1, <2>3 DEF ConsumerState, ClientsCovered
    <3>2. \A k \in 0..(o - 1) : k \in delivered'[p] \/ k < logStart'[p]
      <4> HIDE DEF o, p
      <4> QED BY Zenon, <3>1, CoveredStays DEF Covered
    <3>3. client'[c].last = p /\ client'[c].next = o
      BY Zenon, <1>1
    <3>4. QED
      BY Zenon, <3>2, <3>3 DEF Covered
  <2>4. QED
    BY Zenon, <2>2, <2>3
<1>2. ASSUME \A c \in Clients : /\ client'[c].positions = client[c].positions
                                /\ client'[c].last = client[c].last /\ client'[c].next = client[c].next
      PROVE  ClientsCovered'
  BY Zenon, <1>0, <1>1, <1>2 DEF ClientsCovered
<1>3. \A p \in Partitions : Covered(p, None) /\ Covered(p, 0) /\ Covered(p, logStart[p])
  BY SMTT(30), <1>0 DEF Covered, None, TypeOK
<1>4. ASSUME NEW c \in Clients, NEW s \in ConsumerState, SetClient(c, s),
             \A p \in Partitions : Covered(p, s.positions[p]),
             s.last = client[c].last, s.next = client[c].next
      PROVE  ClientsCovered'
  <2>1. client'[c] = s /\ \A d \in Clients : d # c => client'[d] = client[d]
    BY Zenon, <1>0, <1>4, SetClientType
  <2>2. QED
    BY Zenon, <1>0, <1>1, <1>4, <2>1 DEF ClientsCovered
<1>5. ASSUME NEW c \in Clients, Join(c) PROVE ClientsCovered'
  <2>1. PICK id \in DOMAIN members' :
          /\ id \in Nat /\ members'[id] \in SUBSET Partitions
          /\ Joined(client[c], id, generation', members'[id]) \in ConsumerState
          /\ SetClient(c, Resolving(Joined(client[c], id, generation', members'[id])))
    BY Zenon, <1>0, <1>5, JoinAnswer
  <2> DEFINE s == Joined(client[c], id, generation', members'[id])
  <2>2. generation' \in Nat /\ client[c] \in ConsumerState
    BY Zenon, <1>0 DEF TypeInv, TypeOK
  <2>3. /\ s \in ConsumerState /\ s.last = client[c].last /\ s.next = client[c].next
        /\ \A p \in Partitions : s.positions[p] \in {client[c].positions[p], None}
    BY SMTT(30), <2>1, <2>2, JoinedType
  <2>4. \A p \in Partitions : Covered(p, s.positions[p])
    <3> HIDE DEF s
    <3> QED BY Zenon, <1>0, <1>3, <2>3 DEF ClientsCovered
  <2>5. SetClient(c, Resolving(s))
    BY Zenon, <2>1
  <2>6. QED
    <3> HIDE DEF s
    <3>1. /\ Resolving(s) \in ConsumerState /\ Resolving(s).positions = s.positions
          /\ Resolving(s).last = s.last /\ Resolving(s).next = s.next
      BY Zenon, <2>3, ResolvingType
    <3>2. QED
      BY Zenon, <1>4, <2>3, <2>4, <2>5, <3>1
<1>6. ASSUME NEW c \in Clients, NEW p \in Partitions, ResolvePosition(c, p) \/ ResolveFails(c, p)
      PROVE  ClientsCovered'
  <2>1. StartOffset(p) = logStart[p]
    BY Zenon DEF StartOffset
  <2>2. PICK o \in {committed[p], logStart[p], 0} :
               SetClient(c, Resolving([client[c] EXCEPT !.positions[p] = o]))
    BY Zenon, <1>6, <2>1 DEF ResolvePosition, ResolveFails
  <2>3. o \in None..Records /\ Covered(p, o)
    <3>1. committed[p] \in None..Records /\ logStart[p] \in None..Records /\ 0 \in None..Records
      BY SMTT(30), <1>0, BoundsAssumption DEF TypeOK, None
    <3>2. QED
      BY Zenon, <1>0, <1>3, <3>1 DEF StoreCovered
  <2> DEFINE s == [client[c] EXCEPT !.positions[p] = o]
  <2>4. client[c] \in ConsumerState
    BY Zenon, <1>0
  <2>5. /\ s \in ConsumerState /\ s.positions = [client[c].positions EXCEPT ![p] = o]
        /\ s.last = client[c].last /\ s.next = client[c].next
    BY SMTT(30), <2>3, <2>4, PositionType
  <2>6. \A q \in Partitions : Covered(q, s.positions[q])
    <3> HIDE DEF s
    <3>1. client[c].positions \in [Partitions -> None..Records]
      BY Zenon, <2>4 DEF ConsumerState
    <3>2. \A q \in Partitions : s.positions[q] = IF q = p THEN o ELSE client[c].positions[q]
      BY Zenon, <2>5, <3>1
    <3>3. QED
      BY Zenon, <1>0, <2>3, <3>2 DEF ClientsCovered
  <2>7. SetClient(c, Resolving(s))
    BY Zenon, <2>2
  <2>8. QED
    <3> HIDE DEF s
    <3>1. /\ Resolving(s) \in ConsumerState /\ Resolving(s).positions = s.positions
          /\ Resolving(s).last = s.last /\ Resolving(s).next = s.next
      BY Zenon, <2>5, ResolvingType
    <3>2. QED
      BY Zenon, <1>4, <2>5, <2>6, <2>7, <3>1
<1>7. ASSUME NEW c \in Clients, NEW p \in Partitions, Poll(c, p)
      PROVE  ClientsCovered'
  <2>1. /\ client[c] \in ConsumerState /\ client[c].positions \in [Partitions -> None..Records]
        /\ logStart[p] \in 0..Records /\ logEnd[p] \in 0..Records /\ delivered[p] \subseteq 0..Records
    BY Zenon, <1>0 DEF ConsumerState, TypeOK
  <2>2. CASE client[c].positions[p] < logStart[p]
    <3> DEFINE s == [client[c] EXCEPT !.positions[p] = logStart[p]]
    <3>1. SetClient(c, s)
      BY Zenon, <1>7, <2>2 DEF Poll
    <3>2. logStart[p] \in None..Records
      BY <2>1, BoundsAssumption DEF None
    <3>3. /\ s \in ConsumerState /\ s.positions = [client[c].positions EXCEPT ![p] = logStart[p]]
          /\ s.last = client[c].last /\ s.next = client[c].next
      BY SMTT(30), <2>1, <3>2, PositionType
    <3>4. \A q \in Partitions : Covered(q, s.positions[q])
      <4> HIDE DEF s
      <4>1. \A q \in Partitions : s.positions[q] = IF q = p THEN logStart[p] ELSE client[c].positions[q]
        BY Zenon, <2>1, <3>3
      <4>2. QED
        BY Zenon, <1>0, <1>3, <4>1 DEF ClientsCovered
    <3>5. QED
      <4> HIDE DEF s
      <4> QED BY Zenon, <1>4, <3>1, <3>3, <3>4
  <2>3. CASE ~(client[c].positions[p] < logStart[p])
    <3> DEFINE position == client[c].positions[p]
    <3>1. PICK next \in position..logEnd[p] :
            /\ delivered' = [delivered EXCEPT ![p] = @ \cup position..(next - 1)]
            /\ SetClient(c, [client[c] EXCEPT !.positions[p] = next, !.last = p, !.next = next])
      BY Zenon, <1>7, <2>3 DEF Poll
    <3> DEFINE s == [client[c] EXCEPT !.positions[p] = next, !.last = p, !.next = next]
    <3>2. position \in 0..Records /\ next \in 0..Records /\ position <= next /\ next \in None..Records
      BY SMTT(30), <2>1, <2>3, <3>1, BoundsAssumption DEF None
    <3>3. /\ s \in ConsumerState /\ s.positions = [client[c].positions EXCEPT ![p] = next]
          /\ s.last = p /\ s.next = next
      BY Zenon, <2>1, <3>2 DEF ConsumerState
    <3>4. client'[c] = s /\ \A d \in Clients : d # c => client'[d] = client[d]
      <4> HIDE DEF s
      <4> QED BY Zenon, <1>0, <3>1, <3>3, SetClientType DEF s
    <3>5. Covered(p, position)
      BY Zenon, <1>0 DEF ClientsCovered
    <3>6. \A k \in 0..(next - 1) : k \in delivered'[p] \/ k < logStart'[p]
      <4>1. delivered'[p] = delivered[p] \cup position..(next - 1) /\ logStart' = logStart
        BY Zenon, <1>0, <1>7, <3>1 DEF Poll, logs, TypeOK
      <4>2. \A k \in 0..(next - 1) : k \in 0..(position - 1) \/ k \in position..(next - 1)
        BY SMTT(30), <3>2
      <4>3. QED
        BY Zenon, <3>5, <4>1, <4>2 DEF Covered
    <3>7. ASSUME NEW q \in Partitions, NEW o \in None..Records, Covered(q, o)
          PROVE  \A k \in 0..(o - 1) : k \in delivered'[q] \/ k < logStart'[q]
      BY Zenon, <3>7, CoveredStays DEF Covered
    <3>8. ASSUME NEW d \in Clients, NEW q \in Partitions
          PROVE  \A k \in 0..(client'[d].positions[q] - 1) : k \in delivered'[q] \/ k < logStart'[q]
      <4>1. CASE d = c /\ q = p
        <5>1. client'[d].positions[q] = next
          BY ZenonT(30), <2>1, <3>3, <3>4, <4>1
        <5>2. QED
          BY Zenon, <3>6, <4>1, <5>1
      <4>2. CASE ~(d = c /\ q = p)
        <5>1. client'[d].positions[q] = client[d].positions[q]
          <6> HIDE DEF s
          <6>1. s.positions[q] = IF q = p THEN next ELSE client[c].positions[q]
            BY Zenon, <2>1, <3>3
          <6>2. QED
            BY Zenon, <3>4, <4>2, <6>1
        <5>2. client[d].positions[q] \in None..Records /\ Covered(q, client[d].positions[q])
          BY Zenon, <1>0 DEF ConsumerState, ClientsCovered
        <5>3. QED
          BY Zenon, <3>7, <5>1, <5>2
      <4>3. QED
        BY Zenon, <4>1, <4>2
    <3>9. ASSUME NEW d \in Clients, client'[d].last # NoPartition
          PROVE  \A k \in 0..(client'[d].next - 1) : \/ k \in delivered'[client'[d].last]
                                                     \/ k < logStart'[client'[d].last]
      <4>1. CASE d = c
        BY Zenon, <3>3, <3>4, <3>6, <4>1
      <4>2. CASE d # c
        <5>1. client'[d] = client[d]
          BY Zenon, <3>4, <4>2
        <5>2. client[d].last \in Partitions /\ client[d].next \in None..Records
              /\ Covered(client[d].last, client[d].next)
          BY Zenon, <1>0, <3>9, <5>1 DEF ConsumerState, ClientsCovered
        <5>3. QED
          BY Zenon, <3>7, <5>1, <5>2
      <4>3. QED
        BY Zenon, <4>1, <4>2
    <3>10. QED
      BY Zenon, <3>8, <3>9 DEF ClientsCovered, Covered
  <2>4. QED
    BY Zenon, <2>2, <2>3
<1>8. ASSUME NEW c \in Clients, NEW pc \in {"idle", "join", "commit"},
             SetClient(c, [client[c] EXCEPT !.pc = pc])
      PROVE  ClientsCovered'
  <2> DEFINE s == [client[c] EXCEPT !.pc = pc]
  <2>1. /\ s \in ConsumerState /\ s.positions = client[c].positions
        /\ s.last = client[c].last /\ s.next = client[c].next
    BY ZenonT(30), <1>0, PcType
  <2>2. \A p \in Partitions : Covered(p, s.positions[p])
    <3> HIDE DEF s
    <3> QED BY Zenon, <1>0, <2>1 DEF ClientsCovered
  <2>3. SetClient(c, s)
    BY Zenon, <1>8
  <2>4. QED
    <3> HIDE DEF s
    <3> QED BY Zenon, <1>4, <2>1, <2>2, <2>3
<1>9. ASSUME NEW c \in Clients, Leave(c) PROVE ClientsCovered'
  <2> DEFINE s == [client[c] EXCEPT !.member = NoMember, !.generation = -1, !.assignment = {}]
  <2>1. client[c] \in ConsumerState
    BY Zenon, <1>0
  <2>2. /\ s \in ConsumerState /\ s.positions = client[c].positions
        /\ s.last = client[c].last /\ s.next = client[c].next
    BY Zenon, <2>1 DEF ConsumerState, NoMember
  <2>3. \A p \in Partitions : Covered(p, s.positions[p])
    <3> HIDE DEF s
    <3> QED BY Zenon, <1>0, <2>2 DEF ClientsCovered
  <2>4. SetClient(c, s)
    BY Zenon, <1>9 DEF Leave
  <2>5. QED
    <3> HIDE DEF s
    <3> QED BY Zenon, <1>4, <2>2, <2>3, <2>4
<1>10. ASSUME NEW c \in Clients, ClientCrash(c) PROVE ClientsCovered'
  <2>1. SetClient(c, NewConsumer) /\ UNCHANGED <<delivered, logs>>
    BY Zenon, <1>10 DEF ClientCrash
  <2>2. client'[c] = NewConsumer /\ \A d \in Clients : d # c => client'[d] = client[d]
    BY Zenon, <1>0, <2>1, NewConsumerType, SetClientType
  <2>3. NewConsumer.last = NoPartition /\ \A p \in Partitions : NewConsumer.positions[p] = None
    BY Zenon DEF NewConsumer
  <2>4. QED
    BY Zenon, <1>0, <1>3, <2>1, <2>2, <2>3 DEF ClientsCovered, Covered, logs
<1>11. ASSUME NEW c \in Clients, Consumer(c) PROVE ClientsCovered'
  <2>1. \/ Join(c) \/ Leave(c) \/ ClientCrash(c)
        \/ \E p \in Partitions : ResolvePosition(c, p) \/ ResolveFails(c, p) \/ Poll(c, p)
        \/ \E pc \in {"idle", "join", "commit"} : SetClient(c, [client[c] EXCEPT !.pc = pc])
    BY Zenon, <1>11 DEF Consumer, JoinUnavailable, Heartbeat, Commit, CallLost
  <2>2. QED
    BY ZenonT(30), <1>5, <1>6, <1>7, <1>8, <1>9, <1>10, <2>1
<1>12. ASSUME Coordinator PROVE ClientsCovered'
  <2>1. ASSUME NEW x \in committing, client' = Answered(x) PROVE ClientsCovered'
    BY Zenon, <1>0, <1>2, <2>1, AnsweredType
  <2>2. CASE GroupsLost
    <3>1. \A c \in Clients : client'[c] = IF client[c].pc = "commit" THEN [client[c] EXCEPT !.pc = "idle"]
                                                                    ELSE client[c]
      BY Zenon, <2>2 DEF GroupsLost
    <3>2. \A c \in Clients : client[c] \in ConsumerState
      BY Zenon, <1>0
    <3>3. \A c \in Clients : /\ client'[c].positions = client[c].positions
                             /\ client'[c].last = client[c].last /\ client'[c].next = client[c].next
      BY Zenon, <3>1, <3>2 DEF ConsumerState
    <3>4. QED
      BY Zenon, <1>2, <3>3
  <2>3. \/ UNCHANGED client \/ GroupsLost \/ \E x \in committing : client' = Answered(x)
    BY Zenon, <1>12 DEF Coordinator, ExpireAbandoned, ExpireRunning, ExpireSessions, AppendCommit,
                 AppendCommitFails, CommitGivenUp, ExecuteLate, CoordinatorCrash, CoordinatorStop,
                 CoordinatorPowerLoss, CoordinatorStart
  <2>4. QED
    BY Zenon, <1>2, <2>1, <2>2, <2>3
<1>13. ASSUME World PROVE ClientsCovered'
  <2>1. UNCHANGED client
    BY Zenon, <1>13 DEF World, CreateTopic, Produce, EnforceRetention
  <2>2. QED
    BY Zenon, <1>2, <2>1
<1>14. QED
  BY Zenon, <1>11, <1>12, <1>13 DEF Next

\* Every step keeps what the delivery argument rests on.
LEMMA CoveredStep ==
  ASSUME StartFromEarliest = TRUE, TypeInv, CoveredInv, [Next]_vars
  PROVE  CoveredInv'
<1>0. TypeInv'
  BY Zenon, TypeStep
<1>1. CASE UNCHANGED vars
  BY Zenon, <1>1 DEF vars, group, store, logs, CoveredInv, ClientsCovered, RequestsCovered, StoreCovered, Covered
<1>2. CASE Next
  <2>1. ClientsCovered'
    BY Zenon, <1>2, ClientsStep
  <2>2. ASSUME NEW p \in Partitions, NEW o \in None..Records, Covered(p, o)
        PROVE  \A k \in 0..(o - 1) : k \in delivered'[p] \/ k < logStart'[p]
    BY Zenon, <2>2, CoveredStays DEF Covered
  <2>3. RequestsCovered'
    <3>1. \A x \in committing' : x.request.part \in Partitions /\ x.request.offset \in None..Records
      BY Zenon, <1>0 DEF TypeInv, TypeOK, CommitsOK, Request
    <3>2. \A r \in late' : r.kind = "commit" => r.part \in Partitions /\ r.offset \in None..Records
      BY Zenon, <1>0 DEF TypeInv, TypeOK, CommitsOK, Request
    <3>3. QED
      BY Zenon, <1>2, <2>2, <3>1, <3>2, RequestsStep DEF RequestsCovered, Covered
  <2>4. StoreCovered'
    <3>1. \A i \in 1..Len(journal') : journal'[i].part \in Partitions /\ journal'[i].offset \in None..Records
      <4>1. journal' \in Seq(Entry)
        BY Zenon, <1>0 DEF TypeInv, TypeOK
      <4>2. \A i \in 1..Len(journal') : journal'[i] \in Entry
        BY Zenon, <4>1, SeqLen
      <4>3. QED
        BY SMTT(30), <4>2, BoundsAssumption DEF Entry, None
    <3>2. \A p \in Partitions : committed'[p] \in None..Records
      BY Zenon, <1>0 DEF TypeInv, TypeOK
    <3>3. QED
      BY Zenon, <1>2, <2>2, <3>1, <3>2, StoreStep DEF StoreCovered, Covered
  <2>5. QED
    BY Zenon, <2>1, <2>3, <2>4 DEF CoveredInv
<1>3. QED
  BY Zenon, <1>1, <1>2

\* A group that starts from the earliest offset never commits past a record it
\* was not given: whatever crashes, evictions, late and lost calls, failed
\* look-ups and power losses come between, OffsetStore::Commit and Replay only
\* ever move the position over records some Poll returned or retention deleted.
THEOREM NothingSkipped ==
  ASSUME StartFromEarliest = TRUE
  PROVE  Spec => AtLeastOnce
<1>1. Init => CoveredInv
  <2> SUFFICES ASSUME Init PROVE CoveredInv
    BY Zenon
  <2>1. \A p : Covered(p, None)
    BY SMTT(30) DEF Covered, None
  <2>2. \A c \in Clients : client[c].last = NoPartition /\ \A p \in Partitions : client[c].positions[p] = None
    BY Zenon DEF Init, NewConsumer
  <2>3. Len(journal) = 0 /\ committing = {} /\ late = {} /\ \A p \in Partitions : committed[p] = None
    BY Zenon DEF Init
  <2>4. QED
    BY SMTT(30), <2>1, <2>2, <2>3 DEF CoveredInv, ClientsCovered, RequestsCovered, StoreCovered
<1>2. TypeInv /\ CoveredInv /\ [Next]_vars => CoveredInv'
  BY Zenon, CoveredStep
<1> DEFINE Step == \A p \in Partitions :
                     /\ committed'[p] > committed[p]
                     /\ committed[p] # None \/ StartFromEarliest
                     => \A o \in (IF committed[p] = None THEN 0 ELSE committed[p])..(committed'[p] - 1) :
                          o \in delivered[p] \/ o < logStart[p]
<1>3. TypeInv /\ CoveredInv /\ [Next]_vars => [Step]_vars
  <2> SUFFICES ASSUME TypeInv, CoveredInv, Next PROVE Step
    BY Zenon
  <2>1. \A p \in Partitions : Covered(p, committed'[p]) /\ committed[p] \in None..Records
    BY Zenon, StoreStep DEF TypeInv, TypeOK
  <2>2. \A p \in Partitions : committed'[p] \in Int
    <3>1. TypeInv'
      BY Zenon, TypeStep
    <3>2. QED
      BY <3>1, BoundsAssumption DEF TypeInv, TypeOK, None
  <2>3. QED
    BY SMTT(30), <2>1, <2>2 DEF Covered, None
<1>4. Spec => [][Step]_vars
  <2> HIDE DEF Step
  <2> QED BY <1>1, <1>2, <1>3, TypeInvariant, PTL DEF Spec
<1>5. QED
  BY Zenon, <1>4 DEF AtLeastOnce
-----------------------------------------------------------------------------
(***************************************************************************)
(* Durable commits.                                                        *)
(***************************************************************************)
DurableInv ==
  /\ DurableCommits
  /\ synced <= Len(journal)
  /\ SyncOnCommit => synced = Len(journal)

\* Appending an entry to the journal is what Commit does to the table.
LEMMA ReplayAppend ==
  ASSUME NEW j \in Seq(Entry), NEW e \in Entry
  PROVE  Replay(Append(j, e)) = [Replay(j) EXCEPT ![e.part] = e.offset]
<1> DEFINE k == Append(j, e)
<1>1. /\ k \in Seq(Entry) /\ Len(k) = Len(j) + 1 /\ k[Len(j) + 1] = e /\ Len(j) \in Nat
      /\ \A i \in 1..Len(j) : k[i] = j[i]
  OBVIOUS
<1>2. ASSUME NEW p \in Partitions
      PROVE  Replay(k)[p] = IF p = e.part THEN e.offset ELSE Replay(j)[p]
  <2> HIDE DEF k
  <2> DEFINE writes(s) == {i \in 1..Len(s) : s[i].part = p}
             last(s) == CHOOSE i \in writes(s) : \A n \in writes(s) : i >= n
  <2>1. /\ Replay(k)[p] = IF writes(k) = {} THEN None ELSE k[last(k)].offset
        /\ Replay(j)[p] = IF writes(j) = {} THEN None ELSE j[last(j)].offset
    BY Zenon DEF Replay
  <2>2. CASE p = e.part
    <3>1. Len(j) + 1 \in writes(k) /\ \A n \in writes(k) : n \in Nat /\ Len(j) + 1 >= n
      BY SMTT(30), <1>1, <2>2
    <3>2. \A i \in writes(k) : (\A n \in writes(k) : i >= n) => i = Len(j) + 1
      BY SMTT(30), <3>1, <1>1
    <3>3. last(k) = Len(j) + 1
      BY Zenon, <3>1, <3>2
    <3>4. QED
      BY Zenon, <1>1, <2>1, <2>2, <3>1, <3>3
  <2>3. CASE p # e.part
    <3>1. writes(k) = writes(j)
      BY SMTT(30), <1>1, <2>3
    <3>2. last(k) = last(j)
      BY Zenon, <3>1
    <3>3. writes(j) # {} => last(j) \in writes(j)
      <4>1. writes(j) \in SUBSET (1..Len(j))
        BY Zenon
      <4>2. writes(j) # {} => \E i \in writes(j) : \A n \in writes(j) : i >= n
        BY Zenon, <1>1, <4>1, LargestOfBounded
      <4>3. QED
        BY Zenon, <4>2
    <3>4. writes(j) # {} => k[last(j)] = j[last(j)]
      BY Zenon, <1>1, <3>3
    <3>5. QED
      BY Zenon, <2>1, <2>3, <3>1, <3>2, <3>4
  <2>4. QED
    BY Zenon, <2>2, <2>3
<1>3. Replay(k) = [p \in Partitions |-> Replay(k)[p]] /\ Replay(j) = [p \in Partitions |-> Replay(j)[p]]
  <2> HIDE DEF k
  <2>1. Replay(k) = [p \in Partitions |-> Replay(k)[p]]
    BY DEF Replay
  <2>2. Replay(j) = [p \in Partitions |-> Replay(j)[p]]
    BY DEF Replay
  <2>3. QED
    BY Zenon, <2>1, <2>2
<1>4. e.part \in Partitions
  BY Zenon DEF Entry
<1>5. QED
  <2> HIDE DEF k
  <2>1. Replay(k) = [p \in Partitions |-> IF p = e.part THEN e.offset ELSE Replay(j)[p]]
    BY Zenon, <1>2, <1>3
  <2>2. [Replay(j) EXCEPT ![e.part] = e.offset] = [p \in Partitions |-> IF p = e.part THEN e.offset ELSE Replay(j)[p]]
    BY Zenon, <1>3, <1>4
  <2>3. QED
    BY Zenon, <2>1, <2>2 DEF k

\* Every step keeps the durability invariant, when a commit is synced before it
\* is confirmed or the machine keeps its power.
LEMMA DurableStep ==
  ASSUME SyncOnCommit \/ ~MayLosePower, TypeInv, DurableInv, [Next]_vars
  PROVE  DurableInv'
<1>0. /\ journal \in Seq(Entry) /\ Len(journal) \in Nat /\ synced \in Nat /\ confirmed \in Nat
      /\ confirmed <= Len(journal) /\ synced <= Len(journal)
  BY DEF TypeInv, TypeOK, DurableInv, DurableCommits
<1>1. CASE UNCHANGED <<store, confirmed, up>>
  BY Zenon, <1>1 DEF store, DurableInv, DurableCommits
<1>2. ASSUME NEW x \in committing, AppendCommit(x) PROVE DurableInv'
  <2> DEFINE e == [part |-> x.request.part, offset |-> x.request.offset]
  <2>1. /\ up /\ UNCHANGED up /\ journal' = Append(journal, e)
        /\ synced' = IF SyncOnCommit THEN Len(journal) + 1 ELSE synced
        /\ committed' = [committed EXCEPT ![x.request.part] = x.request.offset]
        /\ confirmed' \in {Len(journal) + 1, confirmed}
    BY Zenon, <1>2 DEF AppendCommit, OffsetStoreCommit
  <2>2. e \in Entry /\ e.part = x.request.part /\ e.offset = x.request.offset
    BY SMTT(30), BoundsAssumption DEF TypeInv, TypeOK, CommitsOK, Request, None, Entry
  <2> HIDE DEF e
  <2>3. Len(journal') = Len(journal) + 1
    BY SMTT(30), <1>0, <2>1, <2>2
  <2>4. committed' = Replay(journal')
    <3>1. committed = Replay(journal)
      BY Zenon, <2>1 DEF DurableInv, DurableCommits
    <3>2. QED
      BY SMTT(30), <1>0, <2>1, <2>2, <3>1, ReplayAppend
  <2>5. QED
    BY SMTT(30), <1>0, <2>1, <2>3, <2>4 DEF DurableInv, DurableCommits
<1>3. CASE CoordinatorCrash \/ CoordinatorStop
  <2>1. up' = FALSE /\ UNCHANGED <<journal, confirmed>> /\ synced' \in {synced, Len(journal)}
    BY Zenon, <1>3 DEF CoordinatorCrash, CoordinatorStop, GroupsLost
  <2>2. QED
    BY SMTT(30), <1>0, <2>1 DEF DurableInv, DurableCommits
<1>4. CASE CoordinatorPowerLoss
  <2>1. SyncOnCommit /\ synced = Len(journal)
    BY Zenon, <1>4, BoundsAssumption DEF CoordinatorPowerLoss, DurableInv
  <2>2. PICK n \in synced..Len(journal) : journal' = SubSeq(journal, 1, n) /\ synced' = n
    BY Zenon, <1>4 DEF CoordinatorPowerLoss
  <2>3. n = Len(journal)
    BY SMTT(30), <1>0, <2>1, <2>2
  <2>4. journal' = journal
    BY Zenon, <1>0, <2>2, <2>3, SeqWhole
  <2>5. up' = FALSE /\ UNCHANGED confirmed
    BY Zenon, <1>4 DEF CoordinatorPowerLoss, GroupsLost
  <2>6. QED
    BY SMTT(30), <1>0, <2>2, <2>3, <2>4, <2>5 DEF DurableInv, DurableCommits
<1>5. CASE CoordinatorStart
  BY Zenon, <1>0, <1>5 DEF CoordinatorStart, DurableInv, DurableCommits
<1>6. ASSUME NEW c \in Clients, Consumer(c) PROVE UNCHANGED <<store, confirmed, up>>
  BY Zenon, <1>6 DEF Consumer, Join, JoinUnavailable, Heartbeat, ResolvePosition, ResolveFails, Poll, Commit,
              Leave, CallLost, ClientCrash
<1>7. ASSUME World PROVE UNCHANGED <<store, confirmed, up>>
  BY Zenon, <1>7 DEF World, CreateTopic, Produce, EnforceRetention
<1>8. ASSUME Coordinator
      PROVE  \/ UNCHANGED <<store, confirmed, up>> \/ \E x \in committing : AppendCommit(x)
             \/ CoordinatorCrash \/ CoordinatorStop \/ CoordinatorPowerLoss \/ CoordinatorStart
  BY Zenon, <1>8 DEF Coordinator, ExpireAbandoned, ExpireRunning, ExpireSessions, AppendCommitFails,
              CommitGivenUp, ExecuteLate
<1>9. CASE UNCHANGED vars
  BY Zenon, <1>1, <1>9 DEF vars
<1>10. QED
  BY ZenonT(30), <1>1, <1>2, <1>3, <1>4, <1>5, <1>6, <1>7, <1>8, <1>9 DEF Next

\* A commit that was confirmed stays in the journal and Replay brings it back,
\* through crashes of the coordinator, and through power losses as well when
\* sync_on_commit is set.
THEOREM CommitsSurvive ==
  ASSUME SyncOnCommit \/ ~MayLosePower
  PROVE  Spec => []DurableCommits
<1>1. Init => DurableInv
  <2> SUFFICES ASSUME Init PROVE DurableInv
    BY Zenon
  <2>1. Len(journal) = 0 /\ synced = 0 /\ confirmed = 0
    BY Zenon DEF Init
  <2>2. committed = Replay(journal)
    <3>1. committed = [p \in Partitions |-> None] /\ journal = <<>>
      BY Zenon DEF Init
    <3>2. \A p \in Partitions : {i \in 1..Len(journal) : journal[i].part = p} = {}
      BY <2>1
    <3>3. QED
      BY Zenon, <3>1, <3>2 DEF Replay
  <2>3. QED
    BY <2>1, <2>2 DEF DurableInv, DurableCommits
<1>2. TypeInv /\ DurableInv /\ [Next]_vars => DurableInv'
  BY Zenon, DurableStep
<1>3. DurableInv => DurableCommits
  BY Zenon DEF DurableInv
<1>4. QED
  BY <1>1, <1>2, <1>3, TypeInvariant, PTL DEF Spec
-----------------------------------------------------------------------------
(***************************************************************************)
(* Exclusive ownership within a generation: the assignors never give a     *)
(* partition to two members, and the generation keeps apart what clients   *)
(* were told at different times.                                           *)
(***************************************************************************)
(***************************************************************************)
(* The assignors.                                                          *)
(***************************************************************************)
\* A member's place in the sorted vector is below the place of a later one.
LEMMA PlacesDiffer ==
  ASSUME NEW M, M \subseteq Nat, IsFiniteSet(M), NEW m \in M, NEW n \in M, m < n
  PROVE  /\ SortedMembers(M, m) \in Nat /\ SortedMembers(M, n) \in Nat
         /\ SortedMembers(M, m) + 1 <= SortedMembers(M, n)
<1> DEFINE A == {k \in M : k < m}
           B == {k \in M : k < n}
<1>1. IsFiniteSet(A) /\ IsFiniteSet(B)
  BY Zenon, FS_Subset
<1>2. Cardinality(A) \in Nat /\ Cardinality(B) \in Nat
  BY Zenon, <1>1, FS_CardinalityType
<1>3. m \notin A /\ A \cup {m} \in SUBSET B
  <2>1. m \in Nat /\ n \in Nat /\ \A k \in M : k \in Nat
    BY Zenon
  <2>2. \A k \in M : k < m => k < n /\ k # m
    BY <2>1
  <2>3. QED
    BY Zenon, <2>2
<1>4. Cardinality(A \cup {m}) = Cardinality(A) + 1
  <2> HIDE DEF A, B
  <2> QED BY Zenon, <1>1, <1>3, FS_AddElement
<1>5. Cardinality(A \cup {m}) <= Cardinality(B)
  <2> HIDE DEF A, B
  <2> QED BY Zenon, <1>1, <1>3, FS_Subset
<1>6. QED
  BY Zenon, <1>2, <1>4, <1>5 DEF SortedMembers

\* AssignRoundRobin gives a partition to the member with one place only.
LEMMA RoundRobinDisjoint ==
  ASSUME NEW M, M \subseteq Nat, IsFiniteSet(M), NEW P, NEW m \in M, NEW n \in M, m < n
  PROVE  AssignRoundRobin(M, P)[m] \cap AssignRoundRobin(M, P)[n] = {}
<1>1. SortedMembers(M, m) # SortedMembers(M, n)
  <2>1. /\ SortedMembers(M, m) \in Nat /\ SortedMembers(M, n) \in Nat
        /\ SortedMembers(M, m) + 1 <= SortedMembers(M, n)
    BY Zenon, PlacesDiffer
  <2>2. QED
    BY <2>1
<1>2. QED
  BY Zenon, <1>1 DEF AssignRoundRobin

\* The blocks AssignRange cuts follow each other.
LEMMA CursorGrows ==
  ASSUME NEW i \in Nat, NEW k \in Nat, i <= k, NEW count \in Nat, NEW size \in Nat \ {0}
  PROVE  Cursor(i, count, size) <= Cursor(k, count, size)
<1> DEFINE q == count \div size
           r == count % size
<1>1. q \in Nat /\ r \in Nat
  OBVIOUS
<1> HIDE DEF q, r
<1>2. i * q \in Nat /\ k * q \in Nat /\ i * q <= k * q
  <2>1. PICK d \in Nat : k = i + d
    <3>1. k - i \in Nat /\ k = i + (k - i)
      OBVIOUS
    <3>2. QED
      BY Zenon, <3>1
  <2>2. k * q = i * q + d * q /\ d * q \in Nat /\ i * q \in Nat
    BY <1>1, <2>1
  <2>3. QED
    BY <2>2
<1>3. (IF i < r THEN i ELSE r) <= (IF k < r THEN k ELSE r)
  BY <1>1
<1>4. QED
  BY <1>1, <1>2, <1>3 DEF Cursor, q, r

\* AssignRange gives a partition to one block only.
LEMMA RangeDisjoint ==
  ASSUME NEW M, M \subseteq Nat, IsFiniteSet(M), NEW P, IsFiniteSet(P),
         NEW m \in M, NEW n \in M, m < n
  PROVE  AssignRange(M, P)[m] \cap AssignRange(M, P)[n] = {}
<1> SUFFICES ASSUME NEW p \in P, p \in AssignRange(M, P)[m], p \in AssignRange(M, P)[n]
             PROVE  FALSE
  BY Zenon DEF AssignRange
<1> DEFINE topicPartitions == {q \in P : q[1] = p[1]}
           place == SortedPartitions(topicPartitions, p)
           count == Cardinality(topicPartitions)
           size == Cardinality(M)
           i == SortedMembers(M, m)
           k == SortedMembers(M, n)
<1>1. place < Cursor(i + 1, count, size) /\ Cursor(k, count, size) <= place
  BY Zenon DEF AssignRange
<1>2. i \in Nat /\ k \in Nat /\ i + 1 <= k
  BY Zenon, PlacesDiffer
<1>3. IsFiniteSet(topicPartitions)
  BY Zenon, FS_Subset
<1>4. count \in Nat
  BY Zenon, <1>3, FS_CardinalityType
<1>5. place \in Nat
  <2>1. {q \in topicPartitions : Before(q, p)} \in SUBSET topicPartitions
    BY Zenon
  <2>2. IsFiniteSet({q \in topicPartitions : Before(q, p)})
    <3> HIDE DEF topicPartitions
    <3> QED BY Zenon, <1>3, <2>1, FS_Subset
  <2>3. QED
    BY Zenon, <2>2, FS_CardinalityType DEF SortedPartitions
<1>6. size \in Nat \ {0}
  BY Zenon, FS_CardinalityType, FS_EmptySet
<1> HIDE DEF topicPartitions, place, count, size, i, k
<1>7. Cursor(i + 1, count, size) <= Cursor(k, count, size)
  BY SMTT(30), <1>2, <1>4, <1>6, CursorGrows
<1>8. Cursor(i + 1, count, size) \in Int /\ Cursor(k, count, size) \in Int
  <2>1. count \div size \in Int /\ count % size \in Int
    BY SMTT(30), <1>4, <1>6
  <2>2. (i + 1) * (count \div size) \in Int /\ k * (count \div size) \in Int
    BY <1>2, <2>1
  <2>3. QED
    BY SMTT(30), <1>2, <2>1, <2>2 DEF Cursor
<1>9. QED
  BY SMTT(30), <1>1, <1>5, <1>7, <1>8

\* No two members share a partition, whichever strategy is configured.
LEMMA AssignDisjoint ==
  ASSUME NEW M, M \subseteq Nat, IsFiniteSet(M), NEW P, IsFiniteSet(P),
         NEW m \in M, NEW n \in M, m # n
  PROVE  Assign(Strategy, M, P)[m] \cap Assign(Strategy, M, P)[n] = {}
<1>1. ASSUME NEW i \in M, NEW k \in M, i < k
      PROVE  Assign(Strategy, M, P)[i] \cap Assign(Strategy, M, P)[k] = {}
  BY Zenon, <1>1, RoundRobinDisjoint, RangeDisjoint DEF Assign
<1>2. m < n \/ n < m
  OBVIOUS
<1>3. QED
  BY Zenon, <1>1, <1>2
-----------------------------------------------------------------------------
(***************************************************************************)
(* The group.  Exclusive ownership is not inductive: it needs that member  *)
(* identities are never shared, that a client with the present generation  *)
(* holds what the coordinator has on record for it, and that no client is  *)
(* ahead of the coordinator.  The last fails when the coordinator restarts *)
(* and counts from zero again, hence the hypothesis of the theorem.        *)
(***************************************************************************)
MembersDisjoint ==
  \A m, n \in DOMAIN members : m # n => members[m] \cap members[n] = {}

ClientOK(c) ==
  /\ client[c].generation <= generation
  /\ client[c].member <= counter
  /\ client[c].generation = -1 <=> client[c].member = NoMember
  /\ client[c].member = NoMember => client[c].assignment = {}
  /\ client[c].generation = generation =>
       /\ client[c].member \in DOMAIN members
       /\ client[c].assignment = members[client[c].member]

OwnInv ==
  /\ MembersDisjoint
  /\ \A c \in Clients : ClientOK(c)
  /\ \A c, d \in Clients : c # d /\ client[c].member # NoMember => client[c].member # client[d].member
  /\ ExclusiveOwnership

\* A step of a member set that RebalanceLocked divides.
LEMMA RebalanceDisjoint ==
  ASSUME GroupOK, NEW ids \in SUBSET Nat, IsFiniteSet(ids), Rebalance(ids)
  PROVE  MembersDisjoint'
<1>1. DOMAIN members' = ids
  BY Zenon, RebalanceType
<1>2. IsFiniteSet(PartitionLookup)
  BY Zenon, PartitionsAssumption, FS_Subset DEF PartitionLookup
<1>3. members' = Assign(Strategy, ids, PartitionLookup)
  BY Zenon DEF Rebalance
<1>4. QED
  BY Zenon, <1>1, <1>2, <1>3, AssignDisjoint DEF MembersDisjoint

\* What a critical section of the coordinator does to the group: nothing, or a
\* new generation whose members are disjoint; identities only grow.
GroupStep ==
  /\ counter' >= counter
  /\ \/ UNCHANGED <<generation, members>>
     \/ generation' = generation + 1 /\ MembersDisjoint'

\* Join changes the group like that, with a new identity for a new member.
LEMMA JoinGroupStep ==
  ASSUME GroupOK, NEW m \in Nat, JoinGroup(m)
  PROVE  GroupStep /\ (m \notin DOMAIN members => generation' = generation + 1 /\ counter' = counter + 1)
<1>1. CASE m \in DOMAIN members
  BY <1>1 DEF JoinGroup, GroupStep, GroupOK
<1>2. CASE m \notin DOMAIN members
  <2>1. counter' = counter + 1 /\ Rebalance(DOMAIN members \cup {counter + 1})
    BY Zenon, <1>2 DEF JoinGroup
  <2>2. IsFiniteSet(DOMAIN members) /\ DOMAIN members \subseteq Nat
    <3>0. counter \in Int /\ 1 \in Int /\ DOMAIN members \subseteq 1..counter
      BY DEF GroupOK
    <3>1. IsFiniteSet(1..counter) /\ DOMAIN members \in SUBSET (1..counter)
      BY Zenon, <3>0, FS_Interval
    <3>2. QED
      BY SMTT(30), <3>1, FS_Subset DEF GroupOK
  <2>3. IsFiniteSet(DOMAIN members \cup {counter + 1}) /\ DOMAIN members \cup {counter + 1} \in SUBSET Nat
    BY SMTT(30), <2>2, FS_AddElement DEF GroupOK
  <2>4. MembersDisjoint' /\ generation' = generation + 1
    BY Zenon, <2>1, <2>3, RebalanceDisjoint, RebalanceType
  <2>5. QED
    BY SMTT(30), <2>1, <2>4 DEF GroupStep, GroupOK
<1>3. QED
  BY Zenon, <1>1, <1>2

\* The same for the members that remain after a departure or an eviction.
LEMMA DepartureStep ==
  ASSUME GroupOK, NEW gone, Rebalance(DOMAIN members \ gone), UNCHANGED counter
  PROVE  GroupStep
<1>1. IsFiniteSet(DOMAIN members \ gone) /\ DOMAIN members \ gone \in SUBSET Nat
  <2>1. IsFiniteSet(1..counter) /\ DOMAIN members \ gone \in SUBSET (1..counter)
    <3>1. counter \in Int /\ 1 \in Int /\ DOMAIN members \subseteq 1..counter
      BY DEF GroupOK
    <3>2. IsFiniteSet(1..counter)
      BY Zenon, <3>1, FS_Interval
    <3>3. QED
      BY Zenon, <3>1, <3>2
  <2>2. QED
    BY SMTT(30), <2>1, FS_Subset DEF GroupOK
<1>2. QED
  BY SMTT(30), <1>1, RebalanceDisjoint, RebalanceType DEF GroupStep, GroupOK

\* So does Leave.
LEMMA LeaveGroupStep ==
  ASSUME GroupOK, NEW m, LeaveGroup(m)
  PROVE  GroupStep /\ (m \in DOMAIN members => generation' = generation + 1)
<1>1. CASE m \in DOMAIN members
  BY Zenon, <1>1, DepartureStep, RebalanceType DEF LeaveGroup
<1>2. CASE m \notin DOMAIN members
  BY <1>2 DEF LeaveGroup, GroupStep, group, GroupOK
<1>3. QED
  BY Zenon, <1>1, <1>2

\* A step of the group alone keeps the invariant: clients that were up to date
\* become stale, or nothing changes for them.
LEMMA GroupStepKeeps ==
  ASSUME TypeOK, OwnInv, GroupStep, TypeOK',
         \A c \in Clients : /\ client'[c].member = client[c].member
                            /\ client'[c].generation = client[c].generation
                            /\ client'[c].assignment = client[c].assignment
  PROVE  OwnInv'
<1>1. generation \in Nat /\ counter \in Nat /\ generation' \in Nat /\ counter' \in Nat
      /\ \A c \in Clients : client[c].generation \in Nat \cup {-1} /\ client[c].member \in Nat
  BY Zenon DEF TypeOK, ConsumerState
<1>2. MembersDisjoint'
  BY Zenon DEF GroupStep, OwnInv, MembersDisjoint
<1>3. ASSUME NEW c \in Clients PROVE ClientOK(c)'
  <2>1. ClientOK(c)
    BY Zenon DEF OwnInv
  <2>2. CASE UNCHANGED <<generation, members>>
    BY SMTT(30), <1>1, <2>1, <2>2 DEF ClientOK, GroupStep
  <2>3. CASE generation' = generation + 1
    BY SMTT(30), <1>1, <2>1, <2>3 DEF ClientOK, GroupStep
  <2>4. QED
    BY Zenon, <2>2, <2>3 DEF GroupStep
<1>4. QED
  BY <1>2, <1>3 DEF OwnInv, ExclusiveOwnership

\* The answer to Join: a client that was unknown gets an identity nobody has and
\* a generation nobody has; a known one gets what is on record for it.
LEMMA JoinKeeps ==
  ASSUME TypeOK, OwnInv, NEW c \in Clients, Join(c), TypeOK'
  PROVE  OwnInv'
<1>1. PICK id \in DOMAIN members' :
        /\ id \in Nat /\ id = AllocateMemberId(client[c].member)
        /\ members'[id] \in SUBSET Partitions
        /\ Joined(client[c], id, generation', members'[id]) \in ConsumerState
        /\ SetClient(c, Resolving(Joined(client[c], id, generation', members'[id])))
  BY Zenon, JoinAnswer
<1> DEFINE s == Resolving(Joined(client[c], id, generation', members'[id]))
<1>2. generation \in Nat /\ counter \in Nat /\ generation' \in Nat /\ counter' \in Nat
      /\ DOMAIN members \subseteq 1..counter /\ DOMAIN members' \subseteq 1..counter'
      /\ \A d \in Clients : /\ client[d] \in ConsumerState /\ client[d].generation \in Nat \cup {-1}
                            /\ client[d].member \in Nat
  BY Zenon DEF TypeOK, ConsumerState
<1>3. s \in ConsumerState /\ s.member = id /\ s.generation = generation' /\ s.assignment = members'[id]
  <2> DEFINE j == Joined(client[c], id, generation', members'[id])
  <2>1. j \in ConsumerState /\ j.member = id /\ j.generation = generation' /\ j.assignment = members'[id]
    BY <1>1, <1>2, JoinedType
  <2>2. QED
    <3> HIDE DEF j
    <3> QED BY ZenonT(30), <2>1, ResolvingType DEF j
<1>4. client'[c] = s /\ \A d \in Clients : d # c => client'[d] = client[d]
  <2>1. SetClient(c, s)
    BY Zenon, <1>1
  <2> HIDE DEF s
  <2>2. QED
    BY Zenon, <1>3, <2>1, SetClientType DEF TypeOK
<1> HIDE DEF s
<1>5. GroupOK /\ JoinGroup(client[c].member)
  BY Zenon DEF TypeOK, GroupOK, Join
<1>6. /\ GroupStep
      /\ client[c].member \notin DOMAIN members => generation' = generation + 1 /\ counter' = counter + 1
  BY Zenon, <1>2, <1>5, JoinGroupStep
<1>7. client[c].member \in DOMAIN members => UNCHANGED <<generation, members, counter>>
  BY Zenon, <1>5 DEF JoinGroup
<1>8. MembersDisjoint'
  BY Zenon, <1>6 DEF GroupStep, OwnInv, MembersDisjoint
<1>9. id \in 1..counter' /\ id # NoMember
  BY SMTT(30), <1>1, <1>2 DEF NoMember
<1>10. ASSUME NEW d \in Clients PROVE ClientOK(d)'
  <2>1. CASE d = c
    <3>1. client'[d].member = id /\ client'[d].generation = generation' /\ client'[d].assignment = members'[id]
      BY Zenon, <1>3, <1>4, <2>1
    <3>2. QED
      BY SMTT(30), <1>1, <1>2, <1>9, <3>1 DEF ClientOK
  <2>2. CASE d # c
    <3>1. ClientOK(d) /\ client'[d] = client[d]
      BY Zenon, <1>4, <2>2 DEF OwnInv
    <3>2. CASE client[c].member \in DOMAIN members
      BY ZenonT(30), <1>7, <3>1, <3>2 DEF ClientOK
    <3>3. CASE client[c].member \notin DOMAIN members
      BY SMTT(30), <1>2, <1>6, <3>1, <3>3 DEF ClientOK
    <3>4. QED
      BY Zenon, <3>2, <3>3
  <2>3. QED
    BY ZenonT(30), <2>1, <2>2
<1>11. ASSUME NEW d \in Clients, d # c PROVE client[d].member # id
  <2>1. CASE client[c].member \in DOMAIN members
    <3>1. id = client[c].member /\ client[c].member # NoMember
      BY SMTT(30), <1>1, <1>2, <2>1 DEF AllocateMemberId, NoMember
    <3>2. QED
      BY Zenon, <1>11, <3>1 DEF OwnInv
  <2>2. CASE client[c].member \notin DOMAIN members
    <3>1. id = counter + 1
      BY Zenon, <1>1, <2>2 DEF AllocateMemberId
    <3>2. client[d].member <= counter
      BY Zenon DEF OwnInv, ClientOK
    <3>3. QED
      BY SMTT(30), <1>2, <3>1, <3>2
  <2>3. QED
    BY Zenon, <2>1, <2>2
<1>12. \A d, e \in Clients : d # e /\ client'[d].member # NoMember => client'[d].member # client'[e].member
  <2>1. client'[c].member = id
    BY Zenon, <1>3, <1>4
  <2>2. QED
    BY SMTT(30), <1>4, <1>11, <2>1 DEF OwnInv
<1>13. ASSUME NEW d \in Clients, d # c, client'[d].generation = client'[c].generation
       PROVE  client'[d].assignment \cap client'[c].assignment = {}
  <2>1. client'[d].generation = generation' /\ client'[c].member = id
        /\ client'[c].assignment = members'[id]
    BY Zenon, <1>3, <1>4, <1>13
  <2>2. client'[d].member \in DOMAIN members' /\ client'[d].assignment = members'[client'[d].member]
    BY Zenon, <1>10, <2>1 DEF ClientOK
  <2>3. client'[d].member # id
    BY Zenon, <1>4, <1>11, <1>13
  <2>4. QED
    BY Zenon, <1>1, <1>8, <2>1, <2>2, <2>3 DEF MembersDisjoint
<1>14. ExclusiveOwnership'
  <2>1. ASSUME NEW d \in Clients, NEW e \in Clients, d # e,
               client'[d].generation = client'[e].generation
        PROVE  client'[d].assignment \cap client'[e].assignment = {}
    <3>1. CASE d = c \/ e = c
      BY Zenon, <1>13, <2>1, <3>1
    <3>2. CASE d # c /\ e # c
      BY Zenon, <1>4, <2>1, <3>2 DEF OwnInv, ExclusiveOwnership
    <3>3. QED
      BY Zenon, <3>1, <3>2
  <2>2. QED
    BY Zenon, <2>1 DEF ExclusiveOwnership
<1>15. QED
  BY Zenon, <1>8, <1>10, <1>12, <1>14 DEF OwnInv

\* A client that leaves, or whose process dies, gives up identity, generation
\* and assignment at once.
LEMMA DropKeeps ==
  ASSUME TypeOK, OwnInv, TypeOK', GroupStep, NEW c \in Clients,
         client'[c].member = NoMember, client'[c].generation = -1, client'[c].assignment = {},
         \A d \in Clients : d # c => client'[d] = client[d]
  PROVE  OwnInv'
<1>1. generation \in Nat /\ counter \in Nat /\ generation' \in Nat /\ counter' \in Nat
      /\ \A d \in Clients : client[d].generation \in Nat \cup {-1} /\ client[d].member \in Nat
  BY Zenon DEF TypeOK, ConsumerState
<1>2. MembersDisjoint'
  BY Zenon DEF GroupStep, OwnInv, MembersDisjoint
<1>3. ASSUME NEW d \in Clients PROVE ClientOK(d)'
  <2>1. CASE d = c
    BY SMTT(30), <1>1, <2>1 DEF ClientOK, NoMember
  <2>2. CASE d # c /\ UNCHANGED <<generation, members>>
    <3>1. ClientOK(d) /\ client'[d] = client[d]
      BY Zenon, <2>2 DEF OwnInv
    <3>2. QED
      BY SMTT(30), <1>1, <2>2, <3>1 DEF ClientOK, GroupStep
  <2>3. CASE d # c /\ generation' = generation + 1
    <3>1. ClientOK(d) /\ client'[d] = client[d]
      BY Zenon, <2>3 DEF OwnInv
    <3>2. QED
      BY SMTT(30), <1>1, <2>3, <3>1 DEF ClientOK, GroupStep
  <2>4. QED
    BY Zenon, <2>1, <2>2, <2>3 DEF GroupStep
<1>4. \A d, e \in Clients : d # e /\ client'[d].member # NoMember => client'[d].member # client'[e].member
  BY Zenon DEF OwnInv
<1>5. ExclusiveOwnership'
  <2>1. ASSUME NEW d \in Clients, NEW e \in Clients, d # e,
               client'[d].generation = client'[e].generation
        PROVE  client'[d].assignment \cap client'[e].assignment = {}
    BY ZenonT(30), <2>1 DEF OwnInv, ExclusiveOwnership
  <2>2. QED
    BY Zenon, <2>1 DEF ExclusiveOwnership
<1>6. QED
  BY Zenon, <1>2, <1>3, <1>4, <1>5 DEF OwnInv

\* While the coordinator is not restarted, every step keeps the invariant.
LEMMA OwnStep ==
  ASSUME MayRestart = FALSE, TypeInv, OwnInv, [Next]_vars
  PROVE  OwnInv'
<1>0. TypeOK /\ TypeOK' /\ GroupOK /\ client \in [Clients -> ConsumerState] /\ counter \in Nat
  <2>1. TypeInv'
    BY Zenon, TypeStep
  <2>2. QED
    BY Zenon, <2>1 DEF TypeInv, TypeOK, GroupOK
<1>1. ASSUME GroupStep,
             \A c \in Clients : /\ client'[c].member = client[c].member
                                /\ client'[c].generation = client[c].generation
                                /\ client'[c].assignment = client[c].assignment
      PROVE  OwnInv'
  BY Zenon, <1>0, <1>1, GroupStepKeeps
<1>2. UNCHANGED group => GroupStep
  BY SMTT(30), <1>0 DEF group, GroupStep
<1>3. ASSUME NEW c \in Clients, NEW s \in ConsumerState, SetClient(c, s), UNCHANGED group,
             s.member = client[c].member, s.generation = client[c].generation,
             s.assignment = client[c].assignment
      PROVE  OwnInv'
  <2>1. client'[c] = s /\ \A d \in Clients : d # c => client'[d] = client[d]
    BY Zenon, <1>0, <1>3, SetClientType
  <2>2. QED
    BY Zenon, <1>1, <1>2, <1>3, <2>1
<1>4. ASSUME NEW c \in Clients, NEW s \in ConsumerState, SetClient(c, s), GroupStep,
             s.member = NoMember, s.generation = -1, s.assignment = {}
      PROVE  OwnInv'
  <2>1. client'[c] = s /\ \A d \in Clients : d # c => client'[d] = client[d]
    BY Zenon, <1>0, <1>4, SetClientType
  <2>2. QED
    BY Zenon, <1>0, <1>4, <2>1, DropKeeps
<1>5. ASSUME NEW c \in Clients, Leave(c) PROVE OwnInv'
  <2> DEFINE s == [client[c] EXCEPT !.member = NoMember, !.generation = -1, !.assignment = {}]
  <2>1. SetClient(c, s) /\ LeaveGroup(client[c].member)
    BY Zenon, <1>5 DEF Leave
  <2>2. GroupStep
    BY Zenon, <1>0, <2>1, LeaveGroupStep
  <2>3. s \in ConsumerState /\ s.member = NoMember /\ s.generation = -1 /\ s.assignment = {}
    <3>1. client[c] \in ConsumerState
      BY Zenon, <1>0
    <3>2. QED
      BY Zenon, <3>1 DEF ConsumerState, NoMember
  <2>4. QED
    <3> HIDE DEF s
    <3> QED BY Zenon, <1>4, <2>1, <2>2, <2>3
<1>6. ASSUME NEW c \in Clients, ClientCrash(c) PROVE OwnInv'
  <2>1. SetClient(c, NewConsumer) /\ UNCHANGED group
    BY Zenon, <1>6 DEF ClientCrash
  <2>2. NewConsumer.member = NoMember /\ NewConsumer.generation = -1 /\ NewConsumer.assignment = {}
    BY Zenon DEF NewConsumer
  <2>3. QED
    BY Zenon, <1>2, <1>4, <2>1, <2>2, NewConsumerType
<1>7. ASSUME NEW c \in Clients, NEW p \in Partitions,
             ResolvePosition(c, p) \/ ResolveFails(c, p) \/ Poll(c, p)
      PROVE  OwnInv'
  <2>1. UNCHANGED group /\ client[c] \in ConsumerState
    BY Zenon, <1>0, <1>7 DEF ResolvePosition, ResolveFails, Poll
  <2> DEFINE Same(s) == /\ s.member = client[c].member /\ s.generation = client[c].generation
                         /\ s.assignment = client[c].assignment
             At(o) == [client[c] EXCEPT !.positions[p] = o]
             Read(o) == [client[c] EXCEPT !.positions[p] = o, !.last = p, !.next = o]
  <2>2. \A o : Same(Resolving(At(o))) /\ Same(At(o)) /\ Same(Read(o))
    BY Zenon, <2>1 DEF Resolving, ConsumerState
  <2>3. PICK s : SetClient(c, s) /\ Same(s)
    <3>1. \E o : SetClient(c, Resolving(At(o))) \/ SetClient(c, At(o)) \/ SetClient(c, Read(o))
      <4>1. CASE ResolvePosition(c, p)
        BY Zenon, <4>1 DEF ResolvePosition
      <4>2. CASE ResolveFails(c, p)
        BY Zenon, <4>2 DEF ResolveFails
      <4>3. CASE Poll(c, p)
        BY Zenon, <4>3 DEF Poll
      <4>4. QED
        BY Zenon, <1>7, <4>1, <4>2, <4>3
    <3>2. QED
      <4> HIDE DEF Same, At, Read
      <4> QED BY Zenon, <2>2, <3>1
  <2>4. client'[c] = s /\ \A d \in Clients : d # c => client'[d] = client[d]
    BY Zenon, <1>0, <2>3 DEF SetClient
  <2>5. QED
    BY Zenon, <1>1, <1>2, <2>1, <2>3, <2>4
<1>8. ASSUME NEW c \in Clients, NEW pc \in {"idle", "join", "commit"},
             SetClient(c, [client[c] EXCEPT !.pc = pc]), UNCHANGED group
      PROVE  OwnInv'
  <2> DEFINE s == [client[c] EXCEPT !.pc = pc]
  <2>1. s \in ConsumerState /\ s.member = client[c].member /\ s.generation = client[c].generation
        /\ s.assignment = client[c].assignment
    <3>1. client[c] \in ConsumerState
      BY Zenon, <1>0
    <3>2. QED
      BY Zenon, <3>1 DEF ConsumerState
  <2>2. SetClient(c, s)
    BY Zenon, <1>8
  <2>3. QED
    <3> HIDE DEF s
    <3> QED BY Zenon, <1>3, <1>8, <2>1, <2>2
<1>9. ASSUME NEW c \in Clients, Consumer(c) PROVE OwnInv'
  <2>1. \/ Join(c) \/ Leave(c) \/ ClientCrash(c)
        \/ \E p \in Partitions : ResolvePosition(c, p) \/ ResolveFails(c, p) \/ Poll(c, p)
        \/ /\ \E pc \in {"idle", "join", "commit"} : SetClient(c, [client[c] EXCEPT !.pc = pc])
           /\ UNCHANGED group
    BY Zenon, <1>9 DEF Consumer, JoinUnavailable, Heartbeat, Commit, CallLost
  <2>2. QED
    BY ZenonT(30), <1>0, <1>5, <1>6, <1>7, <1>8, <2>1, JoinKeeps
<1>10. ASSUME Coordinator PROVE OwnInv'
  <2>1. ASSUME NEW expired, ExpireSessions(expired) PROVE OwnInv'
    <3>1. Rebalance(DOMAIN members \ expired) /\ UNCHANGED <<counter, client>>
      BY Zenon, <2>1 DEF ExpireSessions
    <3>2. QED
      BY Zenon, <1>0, <1>1, <3>1, DepartureStep
  <2>2. ASSUME NEW x \in committing, client' = Answered(x), UNCHANGED group PROVE OwnInv'
    BY Zenon, <1>0, <1>1, <1>2, <2>2, AnsweredType
  <2>3. ASSUME NEW r \in late, ExecuteLate(r) PROVE OwnInv'
    <3>1. UNCHANGED client /\ r.member \in Nat
      BY Zenon, <1>0, <2>3 DEF ExecuteLate, TypeOK, Request
    <3>2. GroupStep
      BY Zenon, <1>0, <1>2, <2>3, <3>1, JoinGroupStep, LeaveGroupStep DEF ExecuteLate
    <3>3. QED
      BY Zenon, <1>1, <3>1, <3>2
  <2>4. ~GroupsLost
    BY Zenon DEF GroupsLost
  <2>5. CASE UNCHANGED <<group, client>>
    BY Zenon, <1>1, <1>2, <2>5
  <2>6. QED
    BY ZenonT(30), <1>10, <2>1, <2>2, <2>3, <2>4, <2>5
       DEF Coordinator, ExpireAbandoned, ExpireRunning, AppendCommit, AppendCommitFails, CommitGivenUp,
           CoordinatorCrash, CoordinatorStop, CoordinatorPowerLoss, CoordinatorStart
<1>11. ASSUME World PROVE OwnInv'
  <2>1. UNCHANGED <<group, client>>
    BY Zenon, <1>11 DEF World, CreateTopic, Produce, EnforceRetention
  <2>2. QED
    BY Zenon, <1>1, <1>2, <2>1
<1>12. CASE UNCHANGED vars
  BY Zenon, <1>1, <1>2, <1>12 DEF vars
<1>13. QED
  BY Zenon, <1>9, <1>10, <1>11, <1>12 DEF Next

\* While the coordinator is not restarted, no partition is ever worked on by two
\* clients under one generation, for any number of clients and partitions and
\* both assignment strategies: whatever joins, departures, evictions, client
\* crashes, topics that appear and requests executed late come in whatever order.
THEOREM OneOwnerPerGeneration ==
  ASSUME MayRestart = FALSE
  PROVE  Spec => []ExclusiveOwnership
<1>1. Init => OwnInv
  <2> SUFFICES ASSUME Init PROVE OwnInv
    BY Zenon
  <2>1. \A c \in Clients : client[c].member = NoMember /\ client[c].generation = -1
                           /\ client[c].assignment = {}
    BY Zenon DEF Init, NewConsumer
  <2>2. generation = 0 /\ counter = 0 /\ DOMAIN members = {}
    BY Zenon DEF Init, NoMembers
  <2>3. QED
    BY SMTT(30), <2>1, <2>2 DEF OwnInv, MembersDisjoint, ClientOK, ExclusiveOwnership, NoMember
<1>2. TypeInv /\ OwnInv /\ [Next]_vars => OwnInv'
  BY Zenon, OwnStep
<1>3. OwnInv => ExclusiveOwnership
  BY Zenon DEF OwnInv
<1>4. QED
  BY <1>1, <1>2, <1>3, TypeInvariant, PTL DEF Spec
=============================================================================
