--------------------------- MODULE ConsumerGroup ---------------------------
(***************************************************************************)
(* One consumer group: the coordinator (GroupCoordinator, called on the    *)
(* broker's io threads and by its maintenance thread), the journal of      *)
(* committed offsets (OffsetStore), and the clients (Consumer) that join,  *)
(* heartbeat, poll, commit and leave through synchronous calls.  A call    *)
(* may be given up by the client and executed later all the same.          *)
(*                                                                         *)
(* All clients subscribe to the same topics.  Time is left out: a session  *)
(* may expire at any moment, a heartbeat may be due at any moment.         *)
(***************************************************************************)
EXTENDS Assignor, Sequences

CONSTANTS Clients,
          Partitions,         \* pairs <<topic, index>>
          TopicsAtStart,      \* the topics that exist from the beginning
          Strategy,           \* "range" or "round-robin"
          StartFromEarliest,  \* ConsumerConfig::start_from_earliest
          SyncOnCommit,       \* OffsetStore::sync_on_commit_
          MayLose,            \* kinds of calls that may be lost or time out
          MayRestart,         \* whether the coordinator's broker may go down
          MayLosePower,       \* whether its machine may lose power
          EndAtStart,         \* records in every partition at the beginning
          Records,            \* bound: records ever in a partition
          MaxCommits,         \* bound: commits ever requested
          MaxFaults           \* bound: departures, lost calls, crashes, deletions

ASSUME PartitionsAssumption == Partitions \subseteq (Nat \ {0}) \X Nat /\ IsFiniteSet(Partitions)
ASSUME BoundsAssumption ==
  /\ Strategy \in {"range", "round-robin"}
  /\ StartFromEarliest \in BOOLEAN /\ SyncOnCommit \in BOOLEAN
  /\ MayRestart \in BOOLEAN /\ MayLosePower \in BOOLEAN
  /\ MayLose \subseteq {"join", "leave", "commit", "fetch-offset"}
  /\ EndAtStart \in 0..Records
  /\ Records \in Nat /\ MaxCommits \in Nat /\ MaxFaults \in Nat

VARIABLES
  up,         \* whether the coordinator's broker runs
  exists,     \* whether groups_ has the group
  generation, \* Group::generation
  members,    \* Group::members: the assignment of each member
  counter,    \* member_counter_
  journal,    \* the internal log of commits, oldest first
  synced,     \* how many entries of the journal are on stable media
  committed,  \* OffsetStore::offsets_
  committing, \* commits that passed the fence and are not yet in the journal
  late,       \* requests on their way whose caller has given up
  client,     \* client[c]: the Consumer object of c
  topics,     \* the topics that exist
  logStart,   \* logStart[p]: the first offset retention has left
  logEnd,     \* logEnd[p]: the offset after the last one a fetch returns
  delivered,  \* history: the offsets of each partition some Poll returned
  confirmed,  \* history: length of the journal at the last confirmed commit
  faults      \* faults so far

group == <<exists, generation, members, counter>>
store == <<journal, synced, committed>>
logs == <<topics, logStart, logEnd>>
vars == <<up, group, store, committing, late, client, logs, delivered, confirmed, faults>>

None == -1
NoPartition == <<0, 0>>
NoClient == "none"
NoMember == 0

NoMembers == [m \in {} |-> {}]

\* A Consumer that has just been constructed.
NewConsumer ==
  [pc |-> "idle", member |-> NoMember, generation |-> -1, assignment |-> {},
   positions |-> [p \in Partitions |-> None], last |-> NoPartition, next |-> None]

Init ==
  /\ up = TRUE
  /\ exists = FALSE /\ generation = 0 /\ members = NoMembers /\ counter = 0
  /\ journal = <<>> /\ synced = 0 /\ committed = [p \in Partitions |-> None]
  /\ committing = {} /\ late = {}
  /\ client = [c \in Clients |-> NewConsumer]
  /\ topics = TopicsAtStart
  /\ logStart = [p \in Partitions |-> 0]
  /\ logEnd = [p \in Partitions |-> EndAtStart]
  /\ delivered = [p \in Partitions |-> {}]
  /\ confirmed = 0
  /\ faults = 0

SetClient(c, s) == client' = [client EXCEPT ![c] = s]

Fault == faults < MaxFaults /\ faults' = faults + 1
-----------------------------------------------------------------------------
(***************************************************************************)
(* GroupCoordinator, each operation one critical section.                  *)
(***************************************************************************)
\* The lookup_ the broker supplies: the partitions of the topics that exist.
PartitionLookup == {p \in Partitions : p[1] \in topics}

Rebalance(ids) ==
  /\ generation' = generation + 1
  /\ members' = Assign(Strategy, ids, PartitionLookup)

\* The identity a JOIN_GROUP that names member m is answered with.
AllocateMemberId(m) == IF m \in DOMAIN members THEN m ELSE counter + 1

\* Known members of a stable group keep their assignment.
JoinGroup(m) ==
  /\ exists' = TRUE
  /\ IF m \in DOMAIN members
     THEN UNCHANGED <<generation, members, counter>>
     ELSE /\ counter' = counter + 1
          /\ Rebalance(DOMAIN members \cup {counter + 1})

LeaveGroup(m) ==
  IF m \in DOMAIN members
  THEN Rebalance(DOMAIN members \ {m}) /\ UNCHANGED <<exists, counter>>
  ELSE UNCHANGED group

\* What Heartbeat asks of the caller.  A group it does not know is an error
\* that does not ask for anything.
Bug_RejoinRequired(m, g) == exists /\ m \in DOMAIN members /\ g # generation

RejoinRequired(m, g) == exists /\ (m \notin DOMAIN members \/ g # generation)

\* The fence of Commit; a commit without a member identity is not fenced.
Permitted(r) ==
  \/ r.member = NoMember
  \/ /\ r.member \in DOMAIN members
     /\ r.generation = generation
     /\ r.part \in members[r.member]

\* Sessions expire without a new generation.
Bug_ExpireSessions(expired) ==
  /\ up /\ expired # {}
  /\ members' = Assign(Strategy, DOMAIN members \ expired, PartitionLookup)
  /\ UNCHANGED <<up, exists, generation, counter, store, committing, late, client, logs, delivered,
                 confirmed>>

\* The maintenance thread evicts the members that were silent for too long.
ExpireSessions(expired) ==
  /\ up /\ expired # {}
  /\ Rebalance(DOMAIN members \ expired)
  /\ UNCHANGED <<up, exists, counter, store, committing, late, client, logs, delivered, confirmed>>

\* Members that no client is; they came from a lost answer or a dead process.
Abandoned == DOMAIN members \ {client[c].member : c \in Clients}

ExpireAbandoned ==
  /\ \E expired \in SUBSET Abandoned : ExpireSessions(expired)
  /\ UNCHANGED faults

\* A client that still runs was silent for too long.
ExpireRunning ==
  /\ \E expired \in SUBSET DOMAIN members : ~(expired \subseteq Abandoned) /\ ExpireSessions(expired)
  /\ Fault
-----------------------------------------------------------------------------
(***************************************************************************)
(* OffsetStore.                                                            *)
(***************************************************************************)
\* The first write wins.
Bug_Replay(j) ==
  [p \in Partitions |->
    LET writes == {i \in 1..Len(j) : j[i].part = p}
    IN  IF writes = {} THEN None
        ELSE j[CHOOSE i \in writes : \A k \in writes : i <= k].offset]

\* Replay at start-up: the last write wins.
Replay(j) ==
  [p \in Partitions |->
    LET writes == {i \in 1..Len(j) : j[i].part = p}
    IN  IF writes = {} THEN None
        ELSE j[CHOOSE i \in writes : \A k \in writes : i >= k].offset]

OffsetStoreCommit(part, offset) ==
  /\ journal' = Append(journal, [part |-> part, offset |-> offset])
  /\ synced' = IF SyncOnCommit THEN Len(journal) + 1 ELSE synced
  /\ committed' = [committed EXCEPT ![part] = offset]
-----------------------------------------------------------------------------
(***************************************************************************)
(* Consumer.                                                               *)
(***************************************************************************)
\* Join, called by Poll without a member identity and by Heartbeat.
Joining(c) == client[c].pc = "join" \/ (client[c].pc = "idle" /\ client[c].member = NoMember)

Unresolved(s) == {p \in s.assignment : s.positions[p] = None}

\* Positions of partitions that stay assigned are kept; the others are looked
\* up one by one before Join returns.
Resolving(s) == [s EXCEPT !.pc = IF Unresolved(s) = {} THEN "idle" ELSE "resolve"]

Join(c) ==
  /\ up /\ Joining(c)
  /\ JoinGroup(client[c].member)
  /\ LET id == AllocateMemberId(client[c].member)
         assignment == members'[id]
     IN  SetClient(c, Resolving([client[c] EXCEPT
           !.member = id, !.generation = generation', !.assignment = assignment,
           !.positions = [p \in Partitions |-> IF p \in assignment THEN @[p] ELSE None]]))
  /\ UNCHANGED <<up, store, committing, late, logs, delivered, confirmed, faults>>

\* ListOffset, for the configured end of the log.
StartOffset(p) == IF StartFromEarliest THEN logStart[p] ELSE logEnd[p]

ResolvePosition(c, p) ==
  /\ up /\ client[c].pc = "resolve" /\ p \in Unresolved(client[c])
  /\ SetClient(c, Resolving([client[c] EXCEPT
       !.positions[p] = IF committed[p] # None THEN committed[p] ELSE StartOffset(p)]))
  /\ UNCHANGED <<up, group, store, committing, late, logs, delivered, confirmed,
                 faults>>

\* The committed offset cannot be read: the group is taken to have none.
ResolveFails(c, p) ==
  /\ client[c].pc = "resolve" /\ p \in Unresolved(client[c])
  /\ IF up THEN "fetch-offset" \in MayLose /\ Fault ELSE UNCHANGED faults
  /\ \E start \in {StartOffset(p), 0} :
       SetClient(c, Resolving([client[c] EXCEPT !.positions[p] = start]))
  /\ UNCHANGED <<up, group, store, committing, late, logs, delivered, confirmed>>

\* Heartbeat; one that does not ask to re-join changes nothing.
Heartbeat(c) ==
  /\ up /\ client[c].pc = "idle" /\ client[c].member # NoMember
  /\ RejoinRequired(client[c].member, client[c].generation)
  /\ SetClient(c, [client[c] EXCEPT !.pc = "join"])
  /\ UNCHANGED <<up, group, store, committing, late, logs, delivered, confirmed,
                 faults>>

\* What a commit covers is taken from the end of the log.
Bug_Poll(c, p) ==
  /\ client[c].pc = "idle" /\ client[c].member # NoMember /\ p \in client[c].assignment
  /\ LET position == client[c].positions[p]
     IN  IF position < logStart[p]
         THEN SetClient(c, [client[c] EXCEPT !.positions[p] = logStart[p]]) /\ UNCHANGED delivered
         ELSE \E next \in position..logEnd[p] :
                /\ next > position \/ position = logEnd[p]
                /\ delivered' = [delivered EXCEPT ![p] = @ \cup position..(next - 1)]
                /\ SetClient(c, [client[c] EXCEPT !.positions[p] = next, !.last = p, !.next = logEnd[p]])
  /\ UNCHANGED <<up, group, store, committing, late, logs, confirmed, faults>>

\* FetchInto for an assigned partition; a fetch behind the log start moves the
\* position to it.
Poll(c, p) ==
  /\ client[c].pc = "idle" /\ client[c].member # NoMember /\ p \in client[c].assignment
  /\ LET position == client[c].positions[p]
     IN  IF position < logStart[p]
         THEN SetClient(c, [client[c] EXCEPT !.positions[p] = logStart[p]]) /\ UNCHANGED delivered
         ELSE \E next \in position..logEnd[p] :
                /\ next > position \/ position = logEnd[p]
                /\ delivered' = [delivered EXCEPT ![p] = @ \cup position..(next - 1)]
                /\ SetClient(c, [client[c] EXCEPT !.positions[p] = next, !.last = p, !.next = next])
  /\ UNCHANGED <<up, group, store, committing, late, logs, confirmed, faults>>
-----------------------------------------------------------------------------
(***************************************************************************)
(* Commit of what the last Poll returned, under the member identity and    *)
(* the generation the client has now.  The fence and the journal are two   *)
(* critical sections.                                                      *)
(***************************************************************************)
CommitRequest(c) ==
  [kind |-> "commit", member |-> client[c].member, generation |-> client[c].generation,
   part |-> client[c].last, offset |-> client[c].next]

\* The commits that may still reach the journal, and a bound on them.
Requested == Len(journal) + Cardinality(committing) + Cardinality({r \in late : r.kind = "commit"})
MayCommit(c) == client[c].pc = "idle" /\ client[c].last # NoPartition /\ Requested < MaxCommits

Commit(c) ==
  /\ up /\ MayCommit(c) /\ Permitted(CommitRequest(c))
  /\ committing' = committing \cup {[request |-> CommitRequest(c), caller |-> c]}
  /\ SetClient(c, [client[c] EXCEPT !.pc = "commit"])
  /\ UNCHANGED <<up, group, store, late, logs, delivered, confirmed, faults>>

Answered(x) == IF x.caller \in Clients THEN [client EXCEPT ![x.caller].pc = "idle"] ELSE client

AppendCommit(x) ==
  /\ up
  /\ OffsetStoreCommit(x.request.part, x.request.offset)
  /\ committing' = committing \ {x}
  /\ client' = Answered(x)
  /\ confirmed' = IF x.caller \in Clients THEN Len(journal) + 1 ELSE confirmed
  /\ UNCHANGED <<up, group, late, logs, delivered, faults>>

\* The journal refuses the record: no space, an I/O error.
AppendCommitFails(x) ==
  /\ up /\ Fault
  /\ committing' = committing \ {x}
  /\ client' = Answered(x)
  /\ UNCHANGED <<up, group, store, late, logs, delivered, confirmed>>

\* The call times out while the coordinator is between fence and journal.
CommitGivenUp(x) ==
  /\ Fault /\ "commit" \in MayLose /\ x.caller \in Clients
  /\ committing' = (committing \ {x}) \cup {[x EXCEPT !.caller = NoClient]}
  /\ client' = Answered(x)
  /\ UNCHANGED <<up, group, store, late, logs, delivered, confirmed>>
-----------------------------------------------------------------------------
(***************************************************************************)
(* Leave; positions and the last fetch are kept.                           *)
(***************************************************************************)
Leave(c) ==
  /\ up /\ Fault /\ client[c].pc = "idle" /\ client[c].member # NoMember
  /\ LeaveGroup(client[c].member)
  /\ SetClient(c, [client[c] EXCEPT !.member = NoMember, !.generation = -1, !.assignment = {}])
  /\ UNCHANGED <<up, store, committing, late, logs, delivered, confirmed>>

(***************************************************************************)
(* A call is lost or times out before the coordinator has looked at it.    *)
(* The client gets an error and keeps what it has; the request may still   *)
(* be executed.                                                            *)
(***************************************************************************)
Call(c, kind) ==
  [kind |-> kind, member |-> client[c].member, generation |-> client[c].generation,
   part |-> NoPartition, offset |-> None]

LosableCalls(c) ==
  (IF Joining(c) THEN {Call(c, "join")} ELSE {})
  \cup (IF client[c].pc = "idle" /\ client[c].member # NoMember THEN {Call(c, "leave")} ELSE {})
  \cup (IF MayCommit(c) THEN {CommitRequest(c)} ELSE {})

CallLost(c) ==
  /\ Fault
  /\ \E r \in LosableCalls(c), arrives \in BOOLEAN :
       r.kind \in MayLose /\ late' = IF up /\ arrives THEN late \cup {r} ELSE late
  /\ SetClient(c, [client[c] EXCEPT !.pc = "idle"])
  /\ UNCHANGED <<up, group, store, committing, logs, delivered, confirmed>>

\* Nothing listens at the coordinator's address.
JoinUnavailable(c) ==
  /\ ~up /\ client[c].pc = "join"
  /\ SetClient(c, [client[c] EXCEPT !.pc = "idle"])
  /\ UNCHANGED <<up, group, store, committing, late, logs, delivered, confirmed, faults>>

\* A request whose caller has given up is executed like any other.
ExecuteLate(r) ==
  /\ up
  /\ late' = late \ {r}
  /\ \/ r.kind = "join" /\ JoinGroup(r.member) /\ UNCHANGED committing
     \/ r.kind = "leave" /\ LeaveGroup(r.member) /\ UNCHANGED committing
     \/ /\ r.kind = "commit"
        /\ committing' = IF Permitted(r)
                         THEN committing \cup {[request |-> r, caller |-> NoClient]}
                         ELSE committing
        /\ UNCHANGED group
  /\ UNCHANGED <<up, store, client, logs, delivered, confirmed, faults>>
-----------------------------------------------------------------------------
(***************************************************************************)
(* The world around: topics, logs, crashes.                                *)
(***************************************************************************)
CreateTopic(t) ==
  /\ t \notin topics /\ topics' = topics \cup {t}
  /\ UNCHANGED <<up, group, store, committing, late, client, logStart, logEnd, delivered,
                 confirmed, faults>>

Produce(p) ==
  /\ logEnd[p] < Records /\ logEnd' = [logEnd EXCEPT ![p] = @ + 1]
  /\ UNCHANGED <<up, group, store, committing, late, client, topics, logStart, delivered,
                 confirmed, faults>>

EnforceRetention(p) ==
  /\ Fault
  /\ logStart[p] < logEnd[p] /\ logStart' = [logStart EXCEPT ![p] = @ + 1]
  /\ UNCHANGED <<up, group, store, committing, late, client, topics, logEnd, delivered, confirmed>>

\* A client process dies; another one takes its place.
ClientCrash(c) ==
  /\ Fault
  /\ SetClient(c, NewConsumer)
  /\ committing' = {IF x.caller = c THEN [x EXCEPT !.caller = NoClient] ELSE x : x \in committing}
  /\ UNCHANGED <<up, group, store, late, logs, delivered, confirmed>>

\* The coordinator's broker goes down and with it all group state; callers in
\* the middle of a call get an error.
GroupsLost ==
  /\ up /\ MayRestart /\ Fault
  /\ up' = FALSE
  /\ exists' = FALSE /\ generation' = 0 /\ members' = NoMembers /\ counter' = 0
  /\ committing' = {} /\ late' = {}
  /\ client' = [c \in Clients |-> IF client[c].pc = "commit" THEN [client[c] EXCEPT !.pc = "idle"]
                                                             ELSE client[c]]
  /\ UNCHANGED <<committed, logs, delivered, confirmed>>

\* The process is killed: the page cache keeps the journal.
CoordinatorCrash == GroupsLost /\ UNCHANGED <<journal, synced>>

\* Broker::Stop: the journal is flushed and closed.
CoordinatorStop == GroupsLost /\ committing = {} /\ synced' = Len(journal) /\ UNCHANGED journal

\* Of what was never synced, any prefix may survive.
CoordinatorPowerLoss ==
  /\ MayLosePower /\ GroupsLost
  /\ \E n \in synced..Len(journal) : journal' = SubSeq(journal, 1, n) /\ synced' = n

\* OffsetStore::Open, with an empty GroupCoordinator on top.
CoordinatorStart ==
  /\ ~up /\ up' = TRUE
  /\ committed' = Replay(journal)
  /\ UNCHANGED <<group, journal, synced, committing, late, client, logs, delivered, confirmed,
                 faults>>
-----------------------------------------------------------------------------
Consumer(c) == \/ Join(c) \/ JoinUnavailable(c) \/ Heartbeat(c)
               \/ \E p \in Partitions : ResolvePosition(c, p) \/ ResolveFails(c, p) \/ Poll(c, p)
               \/ Commit(c) \/ Leave(c) \/ CallLost(c) \/ ClientCrash(c)

Coordinator == \/ ExpireAbandoned \/ ExpireRunning
               \/ \E x \in committing : AppendCommit(x) \/ AppendCommitFails(x) \/ CommitGivenUp(x)
               \/ \E r \in late : ExecuteLate(r)
               \/ CoordinatorCrash \/ CoordinatorStop \/ CoordinatorPowerLoss \/ CoordinatorStart

Topics == {p[1] : p \in Partitions}

World == \/ \E t \in Topics : CreateTopic(t)
         \/ \E p \in Partitions : Produce(p) \/ EnforceRetention(p)

Next == Coordinator \/ World \/ \E c \in Clients : Consumer(c)

Spec == Init /\ [][Next]_vars

(***************************************************************************)
(* Clients keep polling, which joins and heartbeats, the maintenance       *)
(* thread expires the sessions no client renews, the io threads finish     *)
(* what they have begun, and a broker that went down is started again.     *)
(***************************************************************************)
Fairness ==
  /\ \A c \in Clients :
       /\ WF_vars(Join(c)) /\ WF_vars(JoinUnavailable(c)) /\ WF_vars(Heartbeat(c))
       /\ \A p \in Partitions : WF_vars(ResolvePosition(c, p))
  /\ WF_vars(ExpireAbandoned)
  /\ WF_vars(\E x \in committing : AppendCommit(x))
  /\ WF_vars(CoordinatorStart)
  /\ \A t \in Topics : WF_vars(CreateTopic(t))

FairSpec == Spec /\ Fairness
-----------------------------------------------------------------------------
(***************************************************************************)
(* Properties.                                                             *)
(***************************************************************************)
Request ==
  [kind : {"join", "leave", "commit"}, member : Nat, generation : Nat \cup {-1},
   part : Partitions \cup {NoPartition}, offset : None..Records]

ConsumerState ==
  [pc : {"idle", "join", "resolve", "commit"}, member : Nat, generation : Nat \cup {-1},
   assignment : SUBSET Partitions, positions : [Partitions -> None..Records],
   last : Partitions \cup {NoPartition}, next : None..Records]

Entry == [part : Partitions, offset : 0..Records]

\* Every variable stays in its domain.
TypeOK ==
  /\ up \in BOOLEAN /\ exists \in BOOLEAN
  /\ generation \in Nat /\ counter \in Nat
  /\ DOMAIN members \subseteq 1..counter
  /\ members \in [DOMAIN members -> SUBSET Partitions]
  /\ journal \in Seq(Entry)
  /\ synced \in Nat /\ confirmed \in Nat /\ faults \in Nat
  /\ committed \in [Partitions -> None..Records]
  /\ committing \subseteq [request : Request, caller : Clients \cup {NoClient}]
  /\ late \subseteq Request
  /\ client \in [Clients -> ConsumerState]
  /\ topics \subseteq Topics \cup TopicsAtStart
  /\ logStart \in [Partitions -> 0..Records] /\ logEnd \in [Partitions -> 0..Records]
  /\ delivered \in [Partitions -> SUBSET (0..Records)]

\* "Within one generation the coordinator assigns each partition to exactly one
\* member": two clients that were answered with the same generation never both
\* work on a partition, whatever joins, evictions and late requests came between.
ExclusiveOwnership ==
  \A c, d \in Clients :
    c # d /\ client[c].generation = client[d].generation
      => client[c].assignment \cap client[d].assignment = {}

\* At-least-once: the group's committed offset never moves over a record that no
\* Poll has returned, unless retention has deleted it.
AtLeastOnce ==
  [][\A p \in Partitions :
       /\ committed'[p] > committed[p]
       /\ committed[p] # None \/ StartFromEarliest
       => \A o \in (IF committed[p] = None THEN 0 ELSE committed[p])..(committed'[p] - 1) :
            o \in delivered[p] \/ o < logStart[p]]_vars

\* "Offsets are durable": a commit that was confirmed to a client is in the
\* journal from then on, and what FetchOffset answers is what the journal says.
DurableCommits == confirmed <= Len(journal) /\ (up => committed = Replay(journal))

\* A member the coordinator counts and a client that knows its assignment.
Owns(c, p) ==
  /\ client[c].member \in DOMAIN members
  /\ client[c].generation = generation
  /\ p \in client[c].assignment

\* Once faults are over, every partition of the subscribed topics is worked on:
\* evicted clients come back, sessions nobody renews give their share up.
GroupSettles == <>[](\A p \in Partitions : \E c \in Clients : Owns(c, p))
=============================================================================
