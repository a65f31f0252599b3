---------------------------- MODULE BlockingQueue ----------------------------
(***************************************************************************)
(* BoundedBlockingQueue: a deque under one mutex with two condition        *)
(* variables.  What a call does while it holds the mutex is one step; the  *)
(* notification comes after the unlock and is a step of its own.  A waiter *)
(* may wake for no reason, a timed one when its time is up, and each looks *)
(* at its condition again before it goes on.                               *)
(***************************************************************************)
EXTENDS Naturals, Sequences, FiniteSets

CONSTANTS
  BqProducers, BqConsumers,
  BqCapacity,       \* capacity_
  BqBatch,          \* the max_items of PopBatch
  BqPushes          \* bound on the items accepted

VARIABLES
  bqItems,          \* items_, numbered in the order of their acceptance
  bqClosed,         \* closed_
  bqAccepted,       \* how many items have been accepted
  bqCall,           \* the call each thread is in
  bqAt              \* "idle", "asleep", "awake", "expired" or the
                    \* notification the thread still has to send

bqVars == <<bqItems, bqClosed, bqAccepted, bqCall, bqAt>>

BqThreads == BqProducers \cup BqConsumers
Closer == "closer"
BqActors == BqThreads \cup {Closer}

(* A queue without room, or a batch of nothing, would serve nobody.        *)
ASSUME BqSizesAssumption == BqCapacity \in Nat \ {0} /\ BqBatch \in Nat \ {0}
ASSUME BqThreadsAssumption ==
  IsFiniteSet(BqThreads) /\ BqProducers \cap BqConsumers = {} /\ Closer \notin BqThreads

Timed == {"PushFor", "PopFor", "PopBatch"}
Notices == {"one_consumer", "one_producer", "all_producers", "everyone"}

BqInit ==
  /\ bqItems = <<>> /\ bqClosed = FALSE /\ bqAccepted = 0
  /\ bqCall = [t \in BqThreads |-> "none"]
  /\ bqAt = [t \in BqActors |-> "idle"]

BqMove(t, call, at) ==
  /\ bqCall' = [bqCall EXCEPT ![t] = call]
  /\ bqAt' = [bqAt EXCEPT ![t] = at]

Return(t) == BqMove(t, "none", "idle")

Full == Len(bqItems) >= BqCapacity

(* What each of the waiting calls waits for.                               *)
Holds(call) ==
  bqClosed \/ IF call = "PushFor" THEN ~Full ELSE bqItems # <<>>

WaitOn(t, call) ==
  /\ ~Holds(call) /\ bqAt[t] # "expired"
  /\ BqMove(t, call, "asleep")
  /\ UNCHANGED <<bqItems, bqClosed, bqAccepted>>

Accept(t, call) ==
  /\ bqAccepted' = bqAccepted + 1
  /\ bqItems' = Append(bqItems, bqAccepted + 1)
  /\ BqMove(t, call, "one_consumer")
  /\ UNCHANGED bqClosed

TryPush(t) ==
  \/ /\ bqClosed \/ Full
     /\ Return(t) /\ UNCHANGED <<bqItems, bqClosed, bqAccepted>>
  \/ ~bqClosed /\ ~Full /\ Accept(t, "TryPush")

PushFor(t) ==
  \/ WaitOn(t, "PushFor")
  \/ bqClosed /\ Return(t) /\ UNCHANGED <<bqItems, bqClosed, bqAccepted>>
  \/ ~bqClosed /\ ~Full /\ Accept(t, "PushFor")

(* Pop and PopFor.                                                         *)
PopOne(t, call) ==
  \/ WaitOn(t, call)
  \/ /\ bqClosed /\ bqItems = <<>>
     /\ Return(t) /\ UNCHANGED <<bqItems, bqClosed, bqAccepted>>
  \/ /\ bqItems # <<>>
     /\ bqItems' = Tail(bqItems)
     /\ BqMove(t, call, "one_producer")
     /\ UNCHANGED <<bqClosed, bqAccepted>>

BatchSize == IF Len(bqItems) < BqBatch THEN Len(bqItems) ELSE BqBatch

\* One producer is woken, however many places the batch made free.
Bug_PopBatch(t) ==
  \/ WaitOn(t, "PopBatch")
  \/ /\ bqClosed /\ bqItems = <<>>
     /\ Return(t) /\ UNCHANGED <<bqItems, bqClosed, bqAccepted>>
  \/ /\ bqItems # <<>>
     /\ bqItems' = SubSeq(bqItems, BatchSize + 1, Len(bqItems))
     /\ BqMove(t, "PopBatch", "one_producer")
     /\ UNCHANGED <<bqClosed, bqAccepted>>

PopBatch(t) ==
  \/ WaitOn(t, "PopBatch")
  \/ /\ bqClosed /\ bqItems = <<>>
     /\ Return(t) /\ UNCHANGED <<bqItems, bqClosed, bqAccepted>>
  \/ /\ bqItems # <<>>
     /\ bqItems' = SubSeq(bqItems, BatchSize + 1, Len(bqItems))
     /\ BqMove(t, "PopBatch", "all_producers")
     /\ UNCHANGED <<bqClosed, bqAccepted>>

BqEnter(t) ==
  /\ bqAt[t] = "idle"
  /\ \/ t \in BqProducers /\ bqAccepted < BqPushes /\ (TryPush(t) \/ PushFor(t))
     \/ t \in BqConsumers /\ (PopOne(t, "Pop") \/ PopOne(t, "PopFor") \/ PopBatch(t))

BqResume(t) ==
  /\ bqAt[t] \in {"awake", "expired"}
  /\ \/ bqCall[t] = "PushFor" /\ PushFor(t)
     \/ bqCall[t] \in {"Pop", "PopFor"} /\ PopOne(t, bqCall[t])
     \/ bqCall[t] = "PopBatch" /\ PopBatch(t)

(* The time is up and the condition still does not hold.                   *)
BqGiveUp(t) ==
  /\ bqAt[t] = "expired" /\ ~Holds(bqCall[t])
  /\ Return(t)
  /\ UNCHANGED <<bqItems, bqClosed, bqAccepted>>

(* Timeouts and spurious wake-ups.                                         *)
BqStir(t) ==
  /\ bqAt[t] = "asleep"
  /\ \E at \in {"awake"} \cup {"expired" : c \in Timed \cap {bqCall[t]}} :
       bqAt' = [bqAt EXCEPT ![t] = at]
  /\ UNCHANGED <<bqItems, bqClosed, bqAccepted, bqCall>>

Close ==
  /\ ~bqClosed
  /\ bqClosed' = TRUE
  /\ bqAt' = [bqAt EXCEPT ![Closer] = "everyone"]
  /\ UNCHANGED <<bqItems, bqAccepted, bqCall>>

(* The threads that wait on the condition variables a notice is sent to.   *)
Waiting(notice) ==
  {t \in BqThreads :
    /\ bqAt[t] = "asleep"
    /\ notice \in {"one_producer", "all_producers"} => t \in BqProducers
    /\ notice = "one_consumer" => t \in BqConsumers}

(* The sets of threads a notice may wake.                                  *)
Woken(notice) ==
  IF notice \in {"one_consumer", "one_producer"} /\ Waiting(notice) # {}
  THEN {{t} : t \in Waiting(notice)}
  ELSE {Waiting(notice)}

BqNotify(t) ==
  /\ bqAt[t] \in Notices
  /\ \E woken \in Woken(bqAt[t]) :
       bqAt' = [u \in BqActors |-> IF u = t THEN "idle"
                                   ELSE IF u \in woken THEN "awake" ELSE bqAt[u]]
  /\ bqCall' = [u \in BqThreads |-> IF u = t THEN "none" ELSE bqCall[u]]
  /\ UNCHANGED <<bqItems, bqClosed, bqAccepted>>

BqNext ==
  \/ \E t \in BqThreads : BqEnter(t) \/ BqResume(t) \/ BqGiveUp(t) \/ BqStir(t)
  \/ \E t \in BqActors : BqNotify(t)
  \/ Close

BqSpec == BqInit /\ [][BqNext]_bqVars
-----------------------------------------------------------------------------
Count(T, ats) == Cardinality({t \in T : bqAt[t] \in ats})

Asleep(T) == Count(T, {"asleep"}) > 0
Stirring(T) == Count(T, {"awake", "expired"})
Due(notice) == Count(BqActors, {notice})

(* No wake-up is lost: while a consumer sleeps, every item has a consumer  *)
(* that is up or a notification on its way to one; while a producer        *)
(* sleeps, so has every free place; and nobody sleeps through Close().     *)
WakeupsReach ==
  \/ Due("everyone") > 0
  \/ /\ Asleep(BqConsumers) =>
          ~bqClosed /\ Len(bqItems) <= Due("one_consumer") + Stirring(BqConsumers)
     /\ Asleep(BqProducers) =>
          /\ ~bqClosed
          /\ \/ Due("all_producers") > 0
             \/ BqCapacity - Len(bqItems) <= Due("one_producer") + Stirring(BqProducers)
=============================================================================
