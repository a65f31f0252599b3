------------------------------ MODULE SpscRing ------------------------------
(***************************************************************************)
(* SpscRing, the wait-free ring between one producer and one consumer, one *)
(* shared access a step.  Each side keeps a private copy of the other's    *)
(* index and refreshes it only when the ring looks full or empty, so most  *)
(* decisions are taken on a stale copy; the refreshing load itself may     *)
(* return any index the other side has published since the copy was made.  *)
(* The items are numbered in the order they are pushed.                    *)
(***************************************************************************)
EXTENDS Integers, Sequences

CONSTANTS
  RingCapacity,     \* the constructor's argument
  RingPushes        \* bound on the items pushed

ASSUME RingCapacityAssumption == RingCapacity \in Nat \ {0} /\ RingPushes \in Nat

VARIABLES
  ringSlots,        \* the item each slot holds, 0 for raw storage
  writeIndex,       \* write_index_
  readIndex,        \* read_index_
  cachedRead,       \* cached_read_index_
  cachedWrite,      \* cached_write_index_
  ringAt,           \* where each side is in its call
  taken,            \* the item the consumer has moved out, 0 for none
  stored            \* how often each index has been stored, and the oldest
                    \* of those stores the other side may still see

ringVars == <<ringSlots, writeIndex, readIndex, cachedRead, cachedWrite,
              ringAt, taken, stored>>

RoundUpPow2(v) == CHOOSE p \in {2^k : k \in 0 .. v} : p >= v /\ p < 2 * v

RingSize == RoundUpPow2(RingCapacity + 1)
RingMask == RingSize - 1

(* Every number has a power of two above it: the provers know no powers.   *)
ASSUME RingSizeAssumption == RingSize \in Nat /\ RingSize > RingCapacity

RingInit ==
  /\ ringSlots = [i \in 0 .. RingMask |-> 0]
  /\ writeIndex = 0 /\ readIndex = 0
  /\ cachedRead = 0 /\ cachedWrite = 0
  /\ ringAt = [producer |-> "idle", consumer |-> "idle"]
  /\ taken = 0
  /\ stored = [write |-> 0, read |-> 0, writeSeen |-> 0, readSeen |-> 0]

RingNextOf(index) == (index + 1) % RingSize

(* Whether the producer goes on, given the copy of the consumer's index.   *)
HasRoom(copy) == RingNextOf(writeIndex) # copy

\* The refreshed copy is not compared again.
Bug_RingPushLook ==
  /\ ringAt.producer = "idle" /\ stored.write < RingPushes
  /\ cachedRead' = IF HasRoom(cachedRead) THEN cachedRead ELSE readIndex
  /\ ringAt' = [ringAt EXCEPT !.producer = "construct"]
  /\ UNCHANGED <<ringSlots, writeIndex, readIndex, cachedWrite, taken, stored>>

RingPushLook ==
  /\ ringAt.producer = "idle" /\ stored.write < RingPushes
  /\ \/ HasRoom(cachedRead) /\ UNCHANGED <<cachedRead, stored>>
     \/ /\ ~HasRoom(cachedRead)
        /\ \E seen \in stored.readSeen .. stored.read :
             /\ cachedRead' = seen % RingSize
             /\ stored' = [stored EXCEPT !.readSeen = seen]
  /\ ringAt' = [ringAt EXCEPT !.producer = IF HasRoom(cachedRead') THEN "construct" ELSE "idle"]
  /\ UNCHANGED <<ringSlots, writeIndex, readIndex, cachedWrite, taken>>

RingConstruct ==
  /\ ringAt.producer = "construct"
  /\ ringSlots' = [ringSlots EXCEPT ![writeIndex] = stored.write + 1]
  /\ ringAt' = [ringAt EXCEPT !.producer = "publish"]
  /\ UNCHANGED <<writeIndex, readIndex, cachedRead, cachedWrite, taken, stored>>

RingPublish ==
  /\ ringAt.producer = "publish"
  /\ writeIndex' = RingNextOf(writeIndex)
  /\ stored' = [stored EXCEPT !.write = @ + 1]
  /\ ringAt' = [ringAt EXCEPT !.producer = "idle"]
  /\ UNCHANGED <<ringSlots, readIndex, cachedRead, cachedWrite, taken>>

RingPopLook ==
  /\ ringAt.consumer = "idle"
  /\ \/ readIndex # cachedWrite /\ UNCHANGED <<cachedWrite, stored>>
     \/ /\ readIndex = cachedWrite
        /\ \E seen \in stored.writeSeen .. stored.write :
             /\ cachedWrite' = seen % RingSize
             /\ stored' = [stored EXCEPT !.writeSeen = seen]
  /\ ringAt' = [ringAt EXCEPT !.consumer = IF readIndex = cachedWrite' THEN "idle" ELSE "get"]
  /\ UNCHANGED <<ringSlots, writeIndex, readIndex, cachedRead, taken>>

(* The move out of the slot and the destructor of what is left there.      *)
RingGet ==
  /\ ringAt.consumer = "get"
  /\ taken' = ringSlots[readIndex]
  /\ ringSlots' = [ringSlots EXCEPT ![readIndex] = 0]
  /\ ringAt' = [ringAt EXCEPT !.consumer = "release"]
  /\ UNCHANGED <<writeIndex, readIndex, cachedRead, cachedWrite, stored>>

RingRelease ==
  /\ ringAt.consumer = "release"
  /\ readIndex' = RingNextOf(readIndex)
  /\ stored' = [stored EXCEPT !.read = @ + 1]
  /\ taken' = 0
  /\ ringAt' = [ringAt EXCEPT !.consumer = "idle"]
  /\ UNCHANGED <<ringSlots, writeIndex, cachedRead, cachedWrite>>

RingNext ==
  \/ RingPushLook \/ RingConstruct \/ RingPublish
  \/ RingPopLook \/ RingGet \/ RingRelease

RingSpec == RingInit /\ [][RingNext]_ringVars
-----------------------------------------------------------------------------
Pushing == ringAt.producer # "idle"
Popping == ringAt.consumer # "idle"

(* The items in the ring, the one being pushed included and the one being  *)
(* popped not.                                                             *)
RingFirst == stored.read + (IF Popping THEN 2 ELSE 1)
RingLast == stored.write + (IF Pushing THEN 1 ELSE 0)

RingItems ==
  [i \in 1 .. RingLast - RingFirst + 1 |->
    [value |-> RingFirst + i - 1,
     by |-> IF RingFirst + i - 1 > stored.write THEN 1 ELSE 0]]

(* What the consumer has taken, in its slot or moved out of it.            *)
RingGot ==
  [c \in {2} |-> CASE ringAt.consumer = "get" -> ringSlots[readIndex]
                  [] ringAt.consumer = "release" -> taken
                  [] OTHER -> 0]

Ring == INSTANCE TicketQueue WITH
  Producers <- {1}, Consumers <- {2}, Values <- 1 .. RingPushes,
  Capacity <- RingMask, None <- 0, items <- RingItems, got <- RingGot

(* TryPush and TryPop implement a bounded queue: every item is popped once *)
(* and in the order of the pushes, and the ring never holds more than the  *)
(* mask_ items that Capacity() reports.                                    *)
RingInOrder == Ring!Spec
=============================================================================
