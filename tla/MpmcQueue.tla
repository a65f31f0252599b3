----------------------------- MODULE MpmcQueue -----------------------------
(***************************************************************************)
(* BoundedMpmcQueue, the lock-free queue that carries requests to a        *)
(* partition worker and tasks to an event loop, one atomic access a step.  *)
(*                                                                         *)
(* A relaxed load of a position may return a value the counter had before, *)
(* though never one older than the thread has seen; an acquire load of a   *)
(* cell's sequence may return any value the cell has held; the weak        *)
(* compare-and-swap may fail for no reason.                                *)
(***************************************************************************)
EXTENDS Integers, FiniteSets, Sequences

CONSTANTS
  Producers,     \* threads that call TryPush
  Consumers,     \* threads that call TryPop
  Values,        \* what is pushed
  None,          \* raw storage that holds no object
  Capacity,      \* mask_ + 1
  MaxTickets     \* bound on the tickets the model hands out

(* The configuration rejects a worker queue of fewer than 8 requests, and  *)
(* the loops use 8192: two cells is as few as the tickets of a cell can be *)
(* told apart with.                                                        *)
ASSUME CapacityAssumption == Capacity \in Nat /\ Capacity >= 2
ASSUME ThreadsAssumption == Producers \cap Consumers = {}
ASSUME NoneAssumption == None \notin Values /\ None \notin Producers

Threads == Producers \cup Consumers
Cells == 0 .. Capacity - 1

VARIABLES
  enqueue,       \* enqueue_pos_
  dequeue,       \* dequeue_pos_
  sequence,      \* the ticket number of each cell
  storage,       \* the object in each cell, or None
  pc,            \* where each thread is in TryPush or TryPop
  pos,           \* its local pos, kept between calls as what it last saw
  val            \* the value it pushes, or has moved out

vars == <<enqueue, dequeue, sequence, storage, pc, pos, val>>

TypeOK ==
  /\ enqueue \in Nat /\ dequeue \in Nat
  /\ sequence \in [Cells -> Nat]
  /\ storage \in [Cells -> Values \cup {None}]
  /\ pc \in [Threads -> {"idle", "push", "pushcas", "construct", "publish",
                         "pop", "popcas", "get", "release"}]
  /\ pos \in [Threads -> Nat]
  /\ val \in [Threads -> Values \cup {None}]

Cell(ticket) == ticket % Capacity

(* The sequence numbers cell c has held so far, one of which a load sees.  *)
Seen(c) == {s \in c .. sequence[c] : (s - c) % Capacity \in {0, 1}}

Init ==
  /\ enqueue = 0 /\ dequeue = 0
  /\ sequence = [c \in Cells |-> c]
  /\ storage = [c \in Cells |-> None]
  /\ pc = [t \in Threads |-> "idle"]
  /\ pos = [t \in Threads |-> 0]
  /\ val = [t \in Threads |-> None]

At(t, here) == pc[t] = here
Goto(t, there) == pc' = [pc EXCEPT ![t] = there]

(* A load of a position: no older than what the thread saw before.         *)
Load(t, counter) == \E p \in pos[t] .. counter : pos' = [pos EXCEPT ![t] = p]

PushStart(t, v) ==
  /\ At(t, "idle") /\ enqueue < MaxTickets
  /\ Load(t, enqueue)
  /\ val' = [val EXCEPT ![t] = v]
  /\ Goto(t, "push")
  /\ UNCHANGED <<enqueue, dequeue, sequence, storage>>

PushLook(t) ==
  /\ At(t, "push")
  /\ \E seq \in Seen(Cell(pos[t])) :
       \/ seq = pos[t] /\ Goto(t, "pushcas") /\ UNCHANGED <<pos, val>>
       \/ /\ seq < pos[t]                                  \* full
          /\ Goto(t, "idle")
          /\ val' = [val EXCEPT ![t] = None]
          /\ UNCHANGED pos
       \/ seq > pos[t] /\ Load(t, enqueue) /\ UNCHANGED <<pc, val>>
  /\ UNCHANGED <<enqueue, dequeue, sequence, storage>>

\* The ticket is taken without comparing.
Bug_PushClaim(t) ==
  /\ At(t, "pushcas")
  /\ enqueue' = pos[t] + 1
  /\ Goto(t, "construct")
  /\ UNCHANGED <<dequeue, sequence, storage, pos, val>>

PushClaim(t) ==
  /\ At(t, "pushcas") /\ enqueue = pos[t]
  /\ enqueue' = enqueue + 1
  /\ Goto(t, "construct")
  /\ UNCHANGED <<dequeue, sequence, storage, pos, val>>

PushRetry(t) ==
  /\ At(t, "pushcas")
  /\ Load(t, enqueue)
  /\ Goto(t, "push")
  /\ UNCHANGED <<enqueue, dequeue, sequence, storage, val>>

Construct(t) ==
  /\ At(t, "construct")
  /\ storage' = [storage EXCEPT ![Cell(pos[t])] = val[t]]
  /\ Goto(t, "publish")
  /\ UNCHANGED <<enqueue, dequeue, sequence, pos, val>>

Publish(t) ==
  /\ At(t, "publish")
  /\ sequence' = [sequence EXCEPT ![Cell(pos[t])] = pos[t] + 1]
  /\ pos' = [pos EXCEPT ![t] = @ + 1]
  /\ val' = [val EXCEPT ![t] = None]
  /\ Goto(t, "idle")
  /\ UNCHANGED <<enqueue, dequeue, storage>>

PopStart(t) ==
  /\ At(t, "idle")
  /\ Load(t, dequeue)
  /\ Goto(t, "pop")
  /\ UNCHANGED <<enqueue, dequeue, sequence, storage, val>>

PopLook(t) ==
  /\ At(t, "pop")
  /\ \E seq \in Seen(Cell(pos[t])) :
       \/ seq = pos[t] + 1 /\ Goto(t, "popcas") /\ UNCHANGED pos
       \/ seq < pos[t] + 1 /\ Goto(t, "idle") /\ UNCHANGED pos    \* empty
       \/ seq > pos[t] + 1 /\ Load(t, dequeue) /\ UNCHANGED pc
  /\ UNCHANGED <<enqueue, dequeue, sequence, storage, val>>

PopClaim(t) ==
  /\ At(t, "popcas") /\ dequeue = pos[t]
  /\ dequeue' = dequeue + 1
  /\ Goto(t, "get")
  /\ UNCHANGED <<enqueue, sequence, storage, pos, val>>

PopRetry(t) ==
  /\ At(t, "popcas")
  /\ Load(t, dequeue)
  /\ Goto(t, "pop")
  /\ UNCHANGED <<enqueue, dequeue, sequence, storage, val>>

\* What is left in the cell is not destroyed.
Bug_Get(t) ==
  /\ At(t, "get")
  /\ val' = [val EXCEPT ![t] = storage[Cell(pos[t])]]
  /\ Goto(t, "release")
  /\ UNCHANGED <<enqueue, dequeue, sequence, storage, pos>>

\* The shared position is read again instead of the claimed one.
Bug_GetNext(t) ==
  /\ At(t, "get")
  /\ val' = [val EXCEPT ![t] = storage[Cell(dequeue)]]
  /\ storage' = [storage EXCEPT ![Cell(pos[t])] = None]
  /\ Goto(t, "release")
  /\ UNCHANGED <<enqueue, dequeue, sequence, pos>>

(* The move out of the cell and the destructor of what is left there.      *)
Get(t) ==
  /\ At(t, "get")
  /\ val' = [val EXCEPT ![t] = storage[Cell(pos[t])]]
  /\ storage' = [storage EXCEPT ![Cell(pos[t])] = None]
  /\ Goto(t, "release")
  /\ UNCHANGED <<enqueue, dequeue, sequence, pos>>

Release(t) ==
  /\ At(t, "release")
  /\ sequence' = [sequence EXCEPT ![Cell(pos[t])] = pos[t] + Capacity]
  /\ pos' = [pos EXCEPT ![t] = @ + 1]
  /\ val' = [val EXCEPT ![t] = None]
  /\ Goto(t, "idle")
  /\ UNCHANGED <<enqueue, dequeue, storage>>

Push(t) ==
  \/ \E v \in Values : PushStart(t, v)
  \/ PushLook(t) \/ PushClaim(t) \/ PushRetry(t) \/ Construct(t) \/ Publish(t)

Pop(t) ==
  \/ PopStart(t) \/ PopLook(t) \/ PopClaim(t) \/ PopRetry(t)
  \/ Get(t) \/ Release(t)

Next == (\E t \in Producers : Push(t)) \/ (\E t \in Consumers : Pop(t))

Spec == Init /\ [][Next]_vars
-----------------------------------------------------------------------------
InCell(t) == pc[t] \in {"construct", "publish", "get", "release"}

(* No two threads are inside the same cell: the constructor, the move and  *)
(* the destructor of TryPush and TryPop never race on the raw storage.     *)
ExclusiveCell ==
  \A s, t \in Threads : s # t /\ InCell(s) /\ InCell(t)
                          => Cell(pos[s]) # Cell(pos[t])

(* An object is constructed only in empty storage and moved out only of    *)
(* storage that holds one: nothing is leaked, overwritten or read raw.     *)
ObjectLifetimes ==
  \A t \in Threads :
    /\ At(t, "construct") => storage[Cell(pos[t])] = None
    /\ At(t, "get") => storage[Cell(pos[t])] # None

(* The place a ticket has in the abstract queue.                           *)
Filler(k) == CHOOSE t \in Producers :
               pc[t] \in {"construct", "publish"} /\ pos[t] = k

Place(k) ==
  IF sequence[Cell(k)] = k + 1
  THEN [value |-> storage[Cell(k)], by |-> None]
  ELSE [value |-> val[Filler(k)], by |-> Filler(k)]

Queue == INSTANCE TicketQueue WITH
  items <- [i \in 1 .. enqueue - dequeue |-> Place(dequeue + i - 1)],
  got <- [t \in Consumers |-> IF At(t, "get") THEN storage[Cell(pos[t])]
                              ELSE val[t]]

(* TryPush and TryPop implement the bounded queue in ticket order: what is *)
(* pushed is popped once, in the order of the tickets, and never more than *)
(* Capacity places are taken.                                              *)
QueueInOrder == Queue!Spec
=============================================================================
