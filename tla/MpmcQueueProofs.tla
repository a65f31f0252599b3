--------------------------- MODULE MpmcQueueProofs --------------------------
(***************************************************************************)
(* BoundedMpmcQueue for every number of threads, cells and tickets: no two *)
(* threads are ever in the same cell, every cell is constructed in and     *)
(* moved out of in turn, and the queue implements TicketQueue.             *)
(***************************************************************************)
EXTENDS MpmcQueue, FiniteSetTheorems, TLAPS

(* A product with a positive factor is at least the other factor.          *)
LEMMA Multiple ==
  ASSUME NEW d \in Int, d >= 1
  PROVE  Capacity * d >= Capacity
BY CapacityAssumption, SMT

(* A lap's worth of the difference of two laps.                            *)
LEMMA Distributed ==
  ASSUME NEW x \in Int, NEW y \in Int
  PROVE  Capacity * (x - y - 1) = Capacity * x - Capacity * y - Capacity
BY CapacityAssumption, SMT

(* A ticket is its lap times the capacity, plus its cell.                  *)
LEMMA Division ==
  ASSUME NEW a \in Nat
  PROVE  /\ a \div Capacity \in Nat
         /\ Cell(a) \in 0 .. Capacity - 1
         /\ a = Capacity * (a \div Capacity) + Cell(a)
BY CapacityAssumption, SMT DEF Cell

(* The mask gives every ticket one of the cells.                           *)
LEMMA CellType ==
  ASSUME NEW a \in Nat
  PROVE  Cell(a) \in Cells
BY Zenon, Division DEF Cells

(* Two tickets of one cell are at least a lap apart.                       *)
LEMMA SameCell ==
  ASSUME NEW a \in Nat, NEW b \in Nat, Cell(a) = Cell(b), a < b
  PROVE  a + Capacity <= b
<1> DEFINE d == (b \div Capacity) - (a \div Capacity)
<1>1. /\ a \div Capacity \in Nat /\ b \div Capacity \in Nat
      /\ a = Capacity * (a \div Capacity) + Cell(a)
      /\ b = Capacity * (b \div Capacity) + Cell(b)
      /\ Cell(a) \in Int
  BY Division
<1>2. b - a = Capacity * d
  BY <1>1, CapacityAssumption, SMT
<1>3. d \in Int
  BY <1>1
<1>4. d >= 1
  <2>1. SUFFICES ASSUME d <= 0 PROVE FALSE
    BY <1>3
  <2>2. Capacity * d <= 0
    BY <2>1, <1>3, CapacityAssumption, SMT
  <2> QED
    BY <2>2, <1>2
<1>5. Capacity * d >= Capacity
  BY Zenon, <1>3, <1>4, Multiple
<1> QED
  BY <1>2, <1>5, <1>3, CapacityAssumption

(* Consecutive tickets are of different cells.                             *)
LEMMA NextCell ==
  ASSUME NEW a \in Nat
  PROVE  Cell(a + 1) # Cell(a)
<1>1. SUFFICES ASSUME Cell(a) = Cell(a + 1) PROVE FALSE
  BY Zenon
<1>2. a + 1 \in Nat /\ a < a + 1
  OBVIOUS
<1>3. a + Capacity <= a + 1
  BY Zenon, <1>1, <1>2, SameCell
<1> QED
  BY <1>3, CapacityAssumption

(* A lap later a ticket is of the same cell again.                         *)
LEMMA NextLap ==
  ASSUME NEW a \in Nat
  PROVE  Cell(a + Capacity) = Cell(a)
<1> DEFINE b == a + Capacity
<1> DEFINE d == (b \div Capacity) - (a \div Capacity) - 1
<1>1. b \in Nat /\ b = a + Capacity
  BY CapacityAssumption
<1> HIDE DEF b
<1>2. /\ a \div Capacity \in Nat /\ b \div Capacity \in Nat
      /\ a = Capacity * (a \div Capacity) + Cell(a)
      /\ b = Capacity * (b \div Capacity) + Cell(b)
      /\ Cell(a) \in 0 .. Capacity - 1 /\ Cell(b) \in 0 .. Capacity - 1
  BY Zenon, <1>1, Division
<1>3. d \in Int
  BY <1>2
<1>4. Cell(a) - Cell(b) = Capacity * d
  <2>1. Capacity * d = Capacity * (b \div Capacity)
                         - Capacity * (a \div Capacity) - Capacity
    BY <1>2, Distributed
  <2>2. /\ Capacity * (b \div Capacity) = b - Cell(b)
        /\ Capacity * (a \div Capacity) = a - Cell(a)
    BY <1>2, CapacityAssumption
  <2> HIDE DEF d
  <2>3. Capacity * d = (b - Cell(b)) - (a - Cell(a)) - Capacity
    BY Zenon, <2>1, <2>2
  <2> QED
    BY <2>3, <1>1, <1>2, CapacityAssumption
<1> HIDE DEF d
<1>5. ~(d >= 1)
  <2>1. SUFFICES ASSUME d >= 1 PROVE FALSE
    BY Zenon
  <2>2. Capacity * d >= Capacity
    BY Zenon, <2>1, <1>3, Multiple
  <2> QED
    BY <2>2, <1>4, <1>2, CapacityAssumption
<1>6. ~(-d >= 1)
  <2>1. SUFFICES ASSUME -d >= 1 PROVE FALSE
    BY Zenon
  <2>2. -d \in Int
    BY <1>3
  <2>3. Capacity * (-d) >= Capacity
    BY Zenon, <2>1, <2>2, Multiple
  <2>4. Capacity * (-d) = Cell(b) - Cell(a)
    BY <1>4, <1>3, <1>2, CapacityAssumption, SMT
  <2> QED
    BY <2>3, <2>4, <1>2, CapacityAssumption
<1>7. d = 0
  BY <1>3, <1>5, <1>6
<1> QED
  <2>1. Capacity * d = 0
    BY <1>7, CapacityAssumption
  <2>2. Cell(a) = Cell(b)
    BY <2>1, <1>4, <1>2, CapacityAssumption
  <2> QED
    BY Zenon, <2>2, <1>1
-----------------------------------------------------------------------------
Writing(t) == pc[t] \in {"construct", "publish"}
Reading(t) == pc[t] \in {"get", "release"}

(* The numbers a cell can have: that of the push it waits for (or that is  *)
(* under way), or one more than that of the push it has had.               *)
AwaitsPush(c) == Cell(sequence[c]) = c
HasPush(c) == sequence[c] >= 1 /\ Cell(sequence[c] - 1) = c

Roles ==
  /\ \A t \in Producers :
       pc[t] \in {"idle", "push", "pushcas", "construct", "publish"}
  /\ \A t \in Consumers : pc[t] \in {"idle", "pop", "popcas", "get", "release"}

Counters == dequeue <= enqueue /\ enqueue <= dequeue + Capacity

CellNumbers ==
  \A c \in Cells : \/ AwaitsPush(c) /\ sequence[c] < dequeue + Capacity
                   \/ HasPush(c) /\ sequence[c] - 1 < enqueue

(* What a thread has seen before its compare-and-swap, stale or not, the   *)
(* cell has reached.                                                       *)
Looked ==
  /\ \A t \in Producers :
       At(t, "pushcas") => sequence[Cell(pos[t])] >= pos[t]
  /\ \A t \in Consumers :
       At(t, "popcas") => sequence[Cell(pos[t])] >= pos[t] + 1

(* The number of a cell does not move while a thread is inside.            *)
Writers ==
  \A t \in Producers :
    Writing(t) => sequence[Cell(pos[t])] = pos[t] /\ pos[t] < enqueue

Readers ==
  \A t \in Consumers :
    Reading(t) => sequence[Cell(pos[t])] = pos[t] + 1 /\ pos[t] < dequeue

(* A ticket is handed out once on each side.                               *)
Tickets ==
  /\ \A s, t \in Producers : s # t /\ Writing(s) /\ Writing(t)
                               => pos[s] # pos[t]
  /\ \A s, t \in Consumers : s # t /\ Reading(s) /\ Reading(t)
                               => pos[s] # pos[t]

(* Where a thread inside a cell has got to with the object.                *)
Objects ==
  /\ \A t \in Producers :
       /\ pc[t] # "idle" => val[t] \in Values
       /\ At(t, "construct") => storage[Cell(pos[t])] = None
       /\ At(t, "publish") => storage[Cell(pos[t])] # None
  /\ \A t \in Consumers :
       /\ At(t, "get") => storage[Cell(pos[t])] # None
       /\ At(t, "release") => storage[Cell(pos[t])] = None

(* A cell nobody has claimed for a push is empty, and one whose push no    *)
(* pop has claimed holds an object.                                        *)
CellStorage ==
  \A c \in Cells :
    /\ AwaitsPush(c) /\ sequence[c] >= enqueue => storage[c] = None
    /\ HasPush(c) /\ sequence[c] - 1 >= dequeue => storage[c] # None

IInv ==
  /\ TypeOK /\ Roles /\ Counters /\ CellNumbers /\ Looked
  /\ Writers /\ Readers /\ Tickets /\ Objects /\ CellStorage
-----------------------------------------------------------------------------
(* The tickets of two threads that are inside the same cell would be those *)
(* of one push, one pop, or a push and the pop that waits for it.          *)
LEMMA Apart ==
  ASSUME TypeOK, Roles, Writers, Readers, Tickets
  PROVE  ExclusiveCell
<1>1. SUFFICES ASSUME NEW s \in Threads, NEW t \in Threads, s # t,
                      InCell(s), InCell(t), Cell(pos[s]) = Cell(pos[t])
               PROVE  FALSE
  BY Zenon DEF ExclusiveCell
<1>2. /\ (s \in Producers /\ Writing(s)) \/ (s \in Consumers /\ Reading(s))
      /\ (t \in Producers /\ Writing(t)) \/ (t \in Consumers /\ Reading(t))
  BY Zenon, <1>1 DEF Roles, InCell, Writing, Reading, Threads
<1>3. pos[s] \in Nat /\ pos[t] \in Nat
  BY Zenon, <1>1 DEF TypeOK
<1>4. CASE s \in Producers /\ Writing(s) /\ t \in Producers /\ Writing(t)
  BY Zenon, <1>1, <1>4 DEF Writers, Tickets
<1>5. CASE s \in Consumers /\ Reading(s) /\ t \in Consumers /\ Reading(t)
  BY <1>1, <1>3, <1>5 DEF Readers, Tickets
<1>6. CASE s \in Producers /\ Writing(s) /\ t \in Consumers /\ Reading(t)
  <2>1. pos[s] = pos[t] + 1
    BY Zenon, <1>1, <1>6 DEF Writers, Readers
  <2> QED
    BY Zenon, <2>1, <1>1, <1>3, NextCell
<1>7. CASE s \in Consumers /\ Reading(s) /\ t \in Producers /\ Writing(t)
  <2>1. pos[t] = pos[s] + 1
    BY Zenon, <1>1, <1>7 DEF Writers, Readers
  <2> QED
    BY Zenon, <2>1, <1>1, <1>3, NextCell
<1> QED
  BY Zenon, <1>2, <1>4, <1>5, <1>6, <1>7

(* A load leaves the thread a ticket, and touches no other thread's.       *)
LEMMA Loads ==
  ASSUME TypeOK, NEW t \in Threads, NEW counter \in Nat, Load(t, counter)
  PROVE  /\ pos' \in [Threads -> Nat]
         /\ \A s \in Threads : s # t => pos'[s] = pos[s]
<1>1. PICK p \in pos[t] .. counter : pos' = [pos EXCEPT ![t] = p]
  BY Zenon DEF Load
<1>2. p \in Nat
  BY <1>1 DEF TypeOK
<1> QED
  BY Zenon, <1>1, <1>2 DEF TypeOK

(* Every step keeps the types.                                             *)
LEMMA TypeStep ==
  ASSUME TypeOK, Next
  PROVE  TypeOK'
<1> USE DEF TypeOK, At, Goto
<1>1. ASSUME NEW t \in Producers, NEW v \in Values, PushStart(t, v)
      PROVE  TypeOK'
  BY Zenon, <1>1, Loads DEF PushStart, Threads
<1>2. ASSUME NEW t \in Producers, PushLook(t)
      PROVE  TypeOK'
  BY Zenon, <1>2, Loads DEF PushLook, Threads
<1>3. ASSUME NEW t \in Producers, PushClaim(t)
      PROVE  TypeOK'
  BY <1>3 DEF PushClaim, Threads
<1>4. ASSUME NEW t \in Producers, PushRetry(t)
      PROVE  TypeOK'
  BY Zenon, <1>4, Loads DEF PushRetry, Threads
<1>5. ASSUME NEW t \in Producers, Construct(t)
      PROVE  TypeOK'
  BY Zenon, <1>5 DEF Construct, Threads
<1>6. ASSUME NEW t \in Producers, Publish(t)
      PROVE  TypeOK'
  <2>1. pos[t] + 1 \in Nat /\ t \in Threads
    BY <1>6 DEF Threads
  <2>2. sequence' \in [Cells -> Nat] /\ pos' \in [Threads -> Nat]
    BY Zenon, <1>6, <2>1 DEF Publish
  <2> QED
    BY Zenon, <1>6, <2>1, <2>2 DEF Publish
<1>7. ASSUME NEW t \in Consumers, PopStart(t)
      PROVE  TypeOK'
  BY Zenon, <1>7, Loads DEF PopStart, Threads
<1>8. ASSUME NEW t \in Consumers, PopLook(t)
      PROVE  TypeOK'
  BY Zenon, <1>8, Loads DEF PopLook, Threads
<1>9. ASSUME NEW t \in Consumers, PopClaim(t)
      PROVE  TypeOK'
  BY <1>9 DEF PopClaim, Threads
<1>10. ASSUME NEW t \in Consumers, PopRetry(t)
       PROVE  TypeOK'
  BY Zenon, <1>10, Loads DEF PopRetry, Threads
<1>11. ASSUME NEW t \in Consumers, Get(t)
       PROVE  TypeOK'
  <2>1. pos[t] \in Nat /\ Cell(pos[t]) \in Cells
    BY Zenon, <1>11, CellType DEF Threads
  <2> QED
    BY Zenon, <1>11, <2>1 DEF Get, Threads
<1>12. ASSUME NEW t \in Consumers, Release(t)
       PROVE  TypeOK'
  <2>1. pos[t] + 1 \in Nat /\ pos[t] + Capacity \in Nat /\ t \in Threads
    BY <1>12, CapacityAssumption DEF Threads
  <2>2. sequence' \in [Cells -> Nat] /\ pos' \in [Threads -> Nat]
    BY Zenon, <1>12, <2>1 DEF Release
  <2> QED
    BY Zenon, <1>12, <2>1, <2>2 DEF Release
<1> QED
  BY ZenonT(30), <1>1, <1>2, <1>3, <1>4, <1>5, <1>6, <1>7, <1>8, <1>9, <1>10, <1>11, <1>12
     DEF Next, Push, Pop

(* Producers and consumers are different threads.                          *)
LEMMA Sides ==
  /\ \A t \in Producers : t \in Threads /\ t \notin Consumers
  /\ \A t \in Consumers : t \in Threads /\ t \notin Producers
BY Zenon, ThreadsAssumption DEF Threads

(* What the looks, the loads and the failed claims have in common: thread  *)
(* t is outside the cells and stays there, and nothing shared changes.     *)
Outside(t) ==
  /\ UNCHANGED <<enqueue, dequeue, sequence, storage>>
  /\ \A s \in Threads :
       s # t => pc'[s] = pc[s] /\ pos'[s] = pos[s] /\ val'[s] = val[s]

(* Such a step of a producer that has seen what it should keeps the        *)
(* invariant.                                                              *)
LEMMA PushOutside ==
  ASSUME IInv, TypeOK', NEW t \in Producers, Outside(t),
         pc'[t] \in {"idle", "push", "pushcas"},
         pc'[t] # "idle" => val'[t] \in Values,
         pc'[t] = "pushcas" => sequence[Cell(pos'[t])] >= pos'[t]
  PROVE  IInv'
<1> USE Sides DEF Outside
<1>1. Roles'
  BY Zenon DEF IInv, Roles
<1>2. Counters'
  BY Zenon DEF IInv, Counters
<1>3. CellNumbers'
  BY Zenon DEF IInv, CellNumbers, AwaitsPush, HasPush
<1>4. Looked'
  BY Zenon DEF IInv, Looked, At
<1>5. Writers'
  BY Zenon DEF IInv, Writers, Writing
<1>6. Readers'
  BY Zenon DEF IInv, Readers, Reading
<1>7. Tickets'
  BY DEF IInv, Tickets, Writing, Reading
<1>8. Objects'
  BY DEF IInv, Objects, At
<1>9. CellStorage'
  BY Zenon DEF IInv, CellStorage, AwaitsPush, HasPush
<1> QED
  BY Zenon, <1>1, <1>2, <1>3, <1>4, <1>5, <1>6, <1>7, <1>8, <1>9 DEF IInv

(* And so does such a step of a consumer.                                  *)
LEMMA PopOutside ==
  ASSUME IInv, TypeOK', NEW t \in Consumers, Outside(t),
         pc'[t] \in {"idle", "pop", "popcas"},
         pc'[t] = "popcas" => sequence[Cell(pos'[t])] >= pos'[t] + 1
  PROVE  IInv'
<1> USE Sides DEF Outside
<1>1. Roles'
  BY Zenon DEF IInv, Roles
<1>2. Counters'
  BY Zenon DEF IInv, Counters
<1>3. CellNumbers'
  BY Zenon DEF IInv, CellNumbers, AwaitsPush, HasPush
<1>4. Looked'
  BY Zenon DEF IInv, Looked, At
<1>5. Writers'
  BY Zenon DEF IInv, Writers, Writing
<1>6. Readers'
  BY Zenon DEF IInv, Readers, Reading
<1>7. Tickets'
  BY DEF IInv, Tickets, Writing, Reading
<1>8. Objects'
  BY DEF IInv, Objects, At
<1>9. CellStorage'
  BY Zenon DEF IInv, CellStorage, AwaitsPush, HasPush
<1> QED
  BY Zenon, <1>1, <1>2, <1>3, <1>4, <1>5, <1>6, <1>7, <1>8, <1>9 DEF IInv

(* The steps of TryPush outside the cell.                                  *)
LEMMA PushOutsideSteps ==
  ASSUME IInv, TypeOK', NEW t \in Producers,
         (\E v \in Values : PushStart(t, v)) \/ PushLook(t) \/ PushRetry(t)
  PROVE  IInv'
<1>1. t \in Threads /\ pos[t] \in Nat /\ enqueue \in Nat /\ TypeOK
  BY Zenon, Sides DEF IInv, TypeOK
<1>2. ASSUME NEW v \in Values, PushStart(t, v)
      PROVE  IInv'
  <2>1. Outside(t)
    BY <1>1, <1>2, Loads DEF PushStart, Outside, Goto, TypeOK
  <2>2. pc'[t] = "push" /\ val'[t] \in Values
    BY Zenon, <1>1, <1>2 DEF PushStart, Goto, TypeOK
  <2> QED
    BY Zenon, <2>1, <2>2, PushOutside
<1>3. ASSUME PushLook(t)
      PROVE  IInv'
  <2>1. Cell(pos[t]) \in Cells /\ sequence[Cell(pos[t])] \in Nat
    BY Zenon, <1>1, CellType DEF TypeOK
  <2>2. At(t, "push") /\ val[t] \in Values
    BY Zenon, <1>1, <1>3 DEF PushLook, IInv, Objects, At
  <2>3. PICK seq \in Seen(Cell(pos[t])) :
          \/ seq = pos[t] /\ Goto(t, "pushcas") /\ UNCHANGED <<pos, val>>
          \/ /\ seq < pos[t]
             /\ Goto(t, "idle")
             /\ val' = [val EXCEPT ![t] = None]
             /\ UNCHANGED pos
          \/ seq > pos[t] /\ Load(t, enqueue) /\ UNCHANGED <<pc, val>>
    BY Zenon, <1>3 DEF PushLook
  <2>4. seq <= sequence[Cell(pos[t])]
    BY <2>1, <2>3 DEF Seen, Cells
  <2>5. Outside(t)
    BY Zenon, <1>1, <1>3, <2>3, Loads DEF PushLook, Outside, Goto, TypeOK
  <2>6. CASE seq = pos[t] /\ Goto(t, "pushcas") /\ UNCHANGED <<pos, val>>
    <3>1. pc'[t] = "pushcas" /\ val'[t] \in Values
      BY Zenon, <1>1, <2>2, <2>6 DEF Goto, TypeOK
    <3>2. sequence[Cell(pos'[t])] >= pos'[t]
      BY Zenon, <1>1, <2>1, <2>4, <2>6
    <3> QED
      BY Zenon, <2>5, <3>1, <3>2, PushOutside
  <2>7. CASE Goto(t, "idle")
    <3>1. pc'[t] = "idle"
      BY Zenon, <1>1, <2>7 DEF Goto, TypeOK
    <3> QED
      BY Zenon, <2>5, <3>1, PushOutside
  <2>8. CASE UNCHANGED <<pc, val>>
    <3>1. pc'[t] = "push" /\ val'[t] \in Values
      BY Zenon, <2>2, <2>8 DEF At
    <3> QED
      BY Zenon, <2>5, <3>1, PushOutside
  <2> QED
    BY Zenon, <2>3, <2>6, <2>7, <2>8
<1>4. ASSUME PushRetry(t)
      PROVE  IInv'
  <2>1. Outside(t)
    BY Zenon, <1>1, <1>4, Loads DEF PushRetry, Outside, Goto, TypeOK
  <2>2. pc'[t] = "push" /\ val'[t] \in Values
    BY Zenon, <1>1, <1>4 DEF PushRetry, Goto, TypeOK, IInv, Objects, At
  <2> QED
    BY Zenon, <2>1, <2>2, PushOutside
<1> QED
  BY Zenon, <1>2, <1>3, <1>4

(* The steps of TryPop outside the cell.                                   *)
LEMMA PopOutsideSteps ==
  ASSUME IInv, TypeOK', NEW t \in Consumers,
         PopStart(t) \/ PopLook(t) \/ PopRetry(t)
  PROVE  IInv'
<1>1. t \in Threads /\ pos[t] \in Nat /\ dequeue \in Nat /\ TypeOK
  BY Zenon, Sides DEF IInv, TypeOK
<1>2. ASSUME PopStart(t) \/ PopRetry(t)
      PROVE  IInv'
  <2>1. Outside(t)
    BY Zenon, <1>1, <1>2, Loads DEF PopStart, PopRetry, Outside, Goto, TypeOK
  <2>2. pc'[t] = "pop"
    BY Zenon, <1>1, <1>2 DEF PopStart, PopRetry, Goto, TypeOK
  <2> QED
    BY Zenon, <2>1, <2>2, PopOutside
<1>3. ASSUME PopLook(t)
      PROVE  IInv'
  <2>1. Cell(pos[t]) \in Cells /\ sequence[Cell(pos[t])] \in Nat
    BY Zenon, <1>1, CellType DEF TypeOK
  <2>2. PICK seq \in Seen(Cell(pos[t])) :
          \/ seq = pos[t] + 1 /\ Goto(t, "popcas") /\ UNCHANGED pos
          \/ seq < pos[t] + 1 /\ Goto(t, "idle") /\ UNCHANGED pos
          \/ seq > pos[t] + 1 /\ Load(t, dequeue) /\ UNCHANGED pc
    BY Zenon, <1>3 DEF PopLook
  <2>3. seq <= sequence[Cell(pos[t])]
    BY <2>1, <2>2 DEF Seen, Cells
  <2>4. Outside(t)
    BY Zenon, <1>1, <1>3, <2>2, Loads DEF PopLook, Outside, Goto, TypeOK
  <2>5. CASE seq = pos[t] + 1 /\ Goto(t, "popcas") /\ UNCHANGED pos
    <3>1. pc'[t] = "popcas"
      BY Zenon, <1>1, <2>5 DEF Goto, TypeOK
    <3>2. sequence[Cell(pos'[t])] >= pos'[t] + 1
      BY ZenonT(30), <1>1, <2>1, <2>3, <2>5
    <3> QED
      BY Zenon, <2>4, <3>1, <3>2, PopOutside
  <2>6. CASE Goto(t, "idle")
    <3>1. pc'[t] = "idle"
      BY Zenon, <1>1, <2>6 DEF Goto, TypeOK
    <3> QED
      BY Zenon, <2>4, <3>1, PopOutside
  <2>7. CASE UNCHANGED pc
    <3>1. pc'[t] = "pop"
      BY Zenon, <1>3, <2>7 DEF PopLook, At
    <3> QED
      BY Zenon, <2>4, <3>1, PopOutside
  <2> QED
    BY Zenon, <2>2, <2>5, <2>6, <2>7
<1> QED
  BY Zenon, <1>2, <1>3

(* A producer whose compare-and-swap succeeds finds its cell waiting for   *)
(* this very ticket, and the queue not full.                               *)
LEMMA PushClaimFinds ==
  ASSUME IInv, NEW t \in Producers, At(t, "pushcas"), enqueue = pos[t]
  PROVE  /\ sequence[Cell(enqueue)] = enqueue
         /\ enqueue < dequeue + Capacity
<1> DEFINE c == Cell(enqueue)
<1>1. /\ enqueue \in Nat /\ dequeue \in Nat /\ dequeue <= enqueue
      /\ c \in Cells /\ sequence[c] \in Nat /\ sequence[c] >= enqueue
  BY ZenonT(30), CellType DEF IInv, TypeOK, Counters, Looked
<1>2. CASE AwaitsPush(c) /\ sequence[c] < dequeue + Capacity
  <2>1. ~(enqueue < sequence[c])
    BY <1>1, <1>2, SameCell, CapacityAssumption DEF AwaitsPush
  <2> QED
    BY <1>1, <1>2, <2>1, CapacityAssumption
<1>3. CASE HasPush(c) /\ sequence[c] - 1 < enqueue
  <2>1. sequence[c] - 1 \in Nat /\ (sequence[c] - 1) + 1 = enqueue
    BY <1>1, <1>3 DEF HasPush
  <2>2. Cell(sequence[c] - 1) # Cell((sequence[c] - 1) + 1)
    BY Zenon, <2>1, NextCell
  <2> QED
    BY Zenon, <1>3, <2>1, <2>2 DEF HasPush
<1> QED
  BY Zenon, <1>1, <1>2, <1>3 DEF IInv, CellNumbers

(* A consumer whose compare-and-swap succeeds finds the push of this very  *)
(* ticket published.                                                       *)
LEMMA PopClaimFinds ==
  ASSUME IInv, NEW t \in Consumers, At(t, "popcas"), dequeue = pos[t]
  PROVE  /\ sequence[Cell(dequeue)] = dequeue + 1
         /\ dequeue < enqueue
<1> DEFINE c == Cell(dequeue)
<1>1. /\ enqueue \in Nat /\ dequeue \in Nat /\ enqueue <= dequeue + Capacity
      /\ c \in Cells /\ sequence[c] \in Nat /\ sequence[c] >= dequeue + 1
  BY Zenon, CellType DEF IInv, TypeOK, Counters, Looked
<1>2. ~(AwaitsPush(c) /\ sequence[c] < dequeue + Capacity)
  BY <1>1, SameCell, CapacityAssumption DEF AwaitsPush
<1>3. HasPush(c) /\ sequence[c] - 1 < enqueue
  BY Zenon, <1>1, <1>2 DEF IInv, CellNumbers
<1>4. sequence[c] - 1 \in Nat
  BY <1>1, <1>3 DEF HasPush
<1>5. ~(dequeue < sequence[c] - 1)
  BY <1>1, <1>3, <1>4, SameCell, CapacityAssumption DEF HasPush
<1> QED
  BY <1>1, <1>3, <1>4, <1>5

(* A successful claim of a push.                                           *)
LEMMA PushClaimStep ==
  ASSUME IInv, TypeOK', NEW t \in Producers, PushClaim(t)
  PROVE  IInv'
<1> USE Sides DEF PushClaim, Goto
<1>1. TypeOK /\ t \in Threads /\ At(t, "pushcas") /\ enqueue = pos[t]
  BY Zenon DEF IInv
<1>2. /\ sequence[Cell(enqueue)] = enqueue
      /\ enqueue < dequeue + Capacity
  BY Zenon, <1>1, PushClaimFinds
<1>3. /\ enqueue \in Nat /\ dequeue \in Nat /\ enqueue' = enqueue + 1
      /\ Cell(enqueue) \in Cells /\ sequence \in [Cells -> Nat]
      /\ pc'[t] = "construct" /\ \A s \in Threads : s # t => pc'[s] = pc[s]
  BY Zenon, <1>1, CellType DEF TypeOK
<1>4. storage[Cell(enqueue)] = None
  BY <1>2, <1>3 DEF IInv, CellStorage, AwaitsPush
<1>5. Roles'
  BY Zenon, <1>1, <1>3 DEF IInv, Roles
<1>6. Counters'
  BY <1>2, <1>3, CapacityAssumption DEF IInv, Counters
<1>7. CellNumbers'
  BY <1>3 DEF IInv, CellNumbers, AwaitsPush, HasPush
<1>8. Looked'
  BY Zenon, <1>1, <1>3 DEF IInv, Looked, At
<1>9. Writers'
  BY <1>1, <1>2, <1>3 DEF IInv, Writers, Writing, TypeOK
<1>10. Readers'
  BY ZenonT(30), <1>1, <1>3 DEF IInv, Readers, Reading
<1>11. Tickets'
  BY SMTT(30), <1>1, <1>3 DEF IInv, Tickets, Writers, Writing, Reading, TypeOK
<1>12. Objects'
  BY <1>1, <1>3, <1>4 DEF IInv, Objects, At
<1>13. CellStorage'
  BY <1>3 DEF IInv, CellStorage, AwaitsPush, HasPush
<1> QED
  BY Zenon, <1>5, <1>6, <1>7, <1>8, <1>9, <1>10, <1>11, <1>12, <1>13 DEF IInv

(* A successful claim of a pop.                                            *)
LEMMA PopClaimStep ==
  ASSUME IInv, TypeOK', NEW t \in Consumers, PopClaim(t)
  PROVE  IInv'
<1> USE Sides DEF PopClaim, Goto
<1>1. TypeOK /\ t \in Threads /\ At(t, "popcas") /\ dequeue = pos[t]
  BY Zenon DEF IInv
<1>2. /\ sequence[Cell(dequeue)] = dequeue + 1
      /\ dequeue < enqueue
  BY Zenon, <1>1, PopClaimFinds
<1>3. /\ enqueue \in Nat /\ dequeue \in Nat /\ dequeue' = dequeue + 1
      /\ Cell(dequeue) \in Cells /\ sequence \in [Cells -> Nat]
      /\ pc'[t] = "get" /\ \A s \in Threads : s # t => pc'[s] = pc[s]
  BY ZenonT(30), <1>1, CellType DEF TypeOK
<1>4. storage[Cell(dequeue)] # None
  BY <1>2, <1>3 DEF IInv, CellStorage, HasPush
<1>5. Roles'
  BY Zenon, <1>1, <1>3 DEF IInv, Roles
<1>6. Counters'
  BY <1>2, <1>3, CapacityAssumption DEF IInv, Counters
<1>7. CellNumbers'
  BY <1>3, CapacityAssumption DEF IInv, CellNumbers, AwaitsPush, HasPush
<1>8. Looked'
  BY Zenon, <1>1, <1>3 DEF IInv, Looked, At
<1>9. Writers'
  BY Zenon, <1>1, <1>3 DEF IInv, Writers, Writing
<1>10. Readers'
  BY <1>1, <1>2, <1>3 DEF IInv, Readers, Reading, TypeOK
<1>11. Tickets'
  BY SMTT(30), <1>1, <1>3 DEF IInv, Tickets, Readers, Writing, Reading, TypeOK
<1>12. Objects'
  BY <1>1, <1>3, <1>4 DEF IInv, Objects, At
<1>13. CellStorage'
  BY <1>3 DEF IInv, CellStorage, AwaitsPush, HasPush
<1> QED
  BY ZenonT(30), <1>5, <1>6, <1>7, <1>8, <1>9, <1>10, <1>11, <1>12, <1>13 DEF IInv

(* The constructor in the claimed cell.                                    *)
LEMMA ConstructStep ==
  ASSUME IInv, TypeOK', NEW t \in Producers, Construct(t)
  PROVE  IInv'
<1> DEFINE c == Cell(pos[t])
<1> USE Sides DEF Construct, Goto
<1>1. /\ TypeOK /\ t \in Threads /\ At(t, "construct") /\ InCell(t)
      /\ pos[t] \in Nat /\ c \in Cells
      /\ pc'[t] = "publish" /\ \A s \in Threads : s # t => pc'[s] = pc[s]
  BY Zenon, CellType DEF IInv, TypeOK, At, InCell
<1>2. sequence[c] = pos[t] /\ pos[t] < enqueue /\ val[t] \in Values
  BY Zenon, <1>1 DEF IInv, Writers, Writing, Objects, At
<1>3. /\ storage'[c] = val[t] /\ val[t] # None
      /\ \A d \in Cells : d # c => storage'[d] = storage[d]
  BY Zenon, <1>1, <1>2, NoneAssumption DEF TypeOK
<1>4. \A s \in Threads : s # t /\ InCell(s) => Cell(pos[s]) # c
  BY Zenon, <1>1, Apart DEF IInv, ExclusiveCell
<1>5. Roles'
  BY Zenon, <1>1 DEF IInv, Roles
<1>6. Counters' /\ CellNumbers'
  BY Zenon DEF IInv, Counters, CellNumbers, AwaitsPush, HasPush
<1>7. Looked'
  BY Zenon, <1>1 DEF IInv, Looked, At
<1>8. Writers' /\ Readers' /\ Tickets'
  BY SMTT(30), <1>1 DEF IInv, Writers, Readers, Tickets, Writing, Reading, At
<1>9. Objects'
  <2>1. \A s \in Threads : s # t /\ InCell(s)
                             => storage'[Cell(pos[s])] = storage[Cell(pos[s])]
    BY Zenon, <1>1, <1>3, <1>4, CellType DEF TypeOK
  <2> QED
    BY <1>1, <1>2, <1>3, <2>1 DEF IInv, Objects, At, InCell
<1>10. CellStorage'
  <2>1. enqueue \in Nat
    BY Zenon, <1>1 DEF TypeOK
  <2> QED
    BY <1>1, <1>2, <1>3, <2>1 DEF IInv, CellStorage, AwaitsPush, HasPush
<1> QED
  BY Zenon, <1>5, <1>6, <1>7, <1>8, <1>9, <1>10 DEF IInv

(* The move out of the claimed cell.                                       *)
LEMMA GetStep ==
  ASSUME IInv, TypeOK', NEW t \in Consumers, Get(t)
  PROVE  IInv'
<1> DEFINE c == Cell(pos[t])
<1> USE Sides DEF Get, Goto
<1>1. /\ TypeOK /\ t \in Threads /\ At(t, "get") /\ InCell(t)
      /\ pos[t] \in Nat /\ c \in Cells
      /\ pc'[t] = "release" /\ \A s \in Threads : s # t => pc'[s] = pc[s]
      /\ \A s \in Threads : s # t => val'[s] = val[s]
  BY Zenon, CellType DEF IInv, TypeOK, At, InCell
<1>2. sequence[c] = pos[t] + 1 /\ pos[t] < dequeue
  BY Zenon, <1>1 DEF IInv, Readers, Reading, At
<1>3. /\ storage'[c] = None
      /\ \A d \in Cells : d # c => storage'[d] = storage[d]
  BY Zenon, <1>1 DEF TypeOK
<1>4. \A s \in Threads : s # t /\ InCell(s) => Cell(pos[s]) # c
  BY Zenon, <1>1, Apart DEF IInv, ExclusiveCell
<1>5. Roles'
  BY Zenon, <1>1 DEF IInv, Roles
<1>6. Counters' /\ CellNumbers'
  BY Zenon DEF IInv, Counters, CellNumbers, AwaitsPush, HasPush
<1>7. Looked'
  BY Zenon, <1>1 DEF IInv, Looked, At
<1>8. Writers' /\ Readers' /\ Tickets'
  BY SMTT(30), <1>1 DEF IInv, Writers, Readers, Tickets, Writing, Reading, At
<1>9. Objects'
  <2>1. \A s \in Threads : s # t /\ InCell(s)
                             => storage'[Cell(pos[s])] = storage[Cell(pos[s])]
    BY ZenonT(30), <1>1, <1>3, <1>4, CellType DEF TypeOK
  <2> QED
    BY <1>1, <1>3, <2>1 DEF IInv, Objects, At, InCell
<1>10. CellStorage'
  <2>1. dequeue \in Nat
    BY Zenon, <1>1 DEF TypeOK
  <2> QED
    BY <1>1, <1>2, <1>3, <2>1 DEF IInv, CellStorage, AwaitsPush, HasPush
<1> QED
  BY Zenon, <1>5, <1>6, <1>7, <1>8, <1>9, <1>10 DEF IInv

(* The store that publishes a push.                                        *)
LEMMA PublishStep ==
  ASSUME IInv, TypeOK', NEW t \in Producers, Publish(t)
  PROVE  IInv'
<1> DEFINE c == Cell(pos[t])
<1> USE Sides DEF Publish, Goto
<1>1. /\ TypeOK /\ t \in Threads /\ At(t, "publish") /\ InCell(t)
      /\ pos[t] \in Nat /\ c \in Cells /\ sequence \in [Cells -> Nat]
      /\ pc'[t] = "idle" /\ \A s \in Threads : s # t => pc'[s] = pc[s]
      /\ \A s \in Threads : s # t => pos'[s] = pos[s] /\ val'[s] = val[s]
  BY SMTT(30), CellType DEF IInv, TypeOK, At, InCell
<1>2. /\ sequence[c] = pos[t] /\ pos[t] < enqueue /\ storage[c] # None
      /\ enqueue \in Nat /\ dequeue \in Nat
  BY Zenon, <1>1 DEF IInv, Writers, Writing, Objects, At, TypeOK
<1>3. /\ sequence'[c] = pos[t] + 1
      /\ \A d \in Cells : d # c => sequence'[d] = sequence[d]
  BY Zenon, <1>1
<1>4. \A s \in Threads : s # t /\ InCell(s) => Cell(pos[s]) # c
  BY Zenon, <1>1, Apart DEF IInv, ExclusiveCell
<1>5. Roles'
  BY Zenon, <1>1 DEF IInv, Roles
<1>6. Counters'
  BY Zenon DEF IInv, Counters
<1>7. CellNumbers'
  <2>1. \A d \in Cells : d = c => HasPush(d)' /\ sequence'[d] - 1 < enqueue
    BY <1>1, <1>2, <1>3 DEF HasPush
  <2>2. \A d \in Cells : d # c => /\ AwaitsPush(d)' <=> AwaitsPush(d)
                                  /\ HasPush(d)' <=> HasPush(d)
    BY Zenon, <1>3 DEF AwaitsPush, HasPush
  <2> QED
    BY Zenon, <1>3, <2>1, <2>2 DEF IInv, CellNumbers
<1>8. Looked'
  <2>1. \A d \in Cells : sequence'[d] >= sequence[d] /\ sequence'[d] \in Nat
    BY <1>1, <1>2, <1>3
  <2>2. \A s \in Threads : Cell(pos[s]) \in Cells /\ pos[s] \in Nat
    BY Zenon, <1>1, CellType DEF TypeOK
  <2> QED
    BY SMTT(30), <1>1, <2>1, <2>2 DEF IInv, Looked, At
<1>9. \A s \in Threads : s # t /\ InCell(s)
                           => sequence'[Cell(pos[s])] = sequence[Cell(pos[s])]
  BY <1>1, <1>3, <1>4, CellType DEF TypeOK
<1>10. Writers' /\ Readers'
  BY <1>1, <1>9 DEF IInv, Writers, Readers, Writing, Reading, InCell
<1>11. Tickets'
  BY SMTT(30), <1>1 DEF IInv, Tickets, Writing, Reading
<1>12. Objects'
  BY SMTT(30), <1>1 DEF IInv, Objects, At
<1>13. CellStorage'
  <2>1. \A d \in Cells : d = c => ~AwaitsPush(d)'
    BY Zenon, <1>1, <1>3, NextCell DEF AwaitsPush
  <2> QED
    BY Zenon, <1>2, <1>3, <2>1 DEF IInv, CellStorage, AwaitsPush, HasPush
<1> QED
  BY ZenonT(30), <1>5, <1>6, <1>7, <1>8, <1>10, <1>11, <1>12, <1>13 DEF IInv

(* The store that hands the cell to the push of the next lap.              *)
LEMMA ReleaseStep ==
  ASSUME IInv, TypeOK', NEW t \in Consumers, Release(t)
  PROVE  IInv'
<1> DEFINE c == Cell(pos[t])
<1> USE Sides DEF Release, Goto
<1>1. /\ TypeOK /\ t \in Threads /\ At(t, "release") /\ InCell(t)
      /\ pos[t] \in Nat /\ c \in Cells /\ sequence \in [Cells -> Nat]
      /\ pc'[t] = "idle" /\ \A s \in Threads : s # t => pc'[s] = pc[s]
      /\ \A s \in Threads : s # t => pos'[s] = pos[s] /\ val'[s] = val[s]
  BY SMTT(30), CellType DEF IInv, TypeOK, At, InCell
<1>2. /\ sequence[c] = pos[t] + 1 /\ pos[t] < dequeue /\ storage[c] = None
      /\ enqueue \in Nat /\ dequeue \in Nat
  BY Zenon, <1>1 DEF IInv, Readers, Reading, Objects, At, TypeOK
<1>3. /\ sequence'[c] = pos[t] + Capacity
      /\ \A d \in Cells : d # c => sequence'[d] = sequence[d]
  BY Zenon, <1>1
<1>4. \A s \in Threads : s # t /\ InCell(s) => Cell(pos[s]) # c
  BY Zenon, <1>1, Apart DEF IInv, ExclusiveCell
<1>5. Roles'
  BY Zenon, <1>1 DEF IInv, Roles
<1>6. Counters'
  BY Zenon DEF IInv, Counters
<1>7. CellNumbers'
  <2>1. \A d \in Cells :
          d = c => AwaitsPush(d)' /\ sequence'[d] < dequeue + Capacity
    BY <1>1, <1>2, <1>3, NextLap, CapacityAssumption DEF AwaitsPush
  <2>2. \A d \in Cells : d # c => /\ AwaitsPush(d)' <=> AwaitsPush(d)
                                  /\ HasPush(d)' <=> HasPush(d)
    BY Zenon, <1>3 DEF AwaitsPush, HasPush
  <2> QED
    BY Zenon, <1>3, <2>1, <2>2 DEF IInv, CellNumbers
<1>8. Looked'
  <2>1. \A d \in Cells : sequence'[d] >= sequence[d] /\ sequence'[d] \in Nat
    BY <1>1, <1>2, <1>3, CapacityAssumption
  <2>2. \A s \in Threads : Cell(pos[s]) \in Cells /\ pos[s] \in Nat
    BY ZenonT(30), <1>1, CellType DEF TypeOK
  <2> QED
    BY SMTT(30), <1>1, <2>1, <2>2 DEF IInv, Looked, At
<1>9. \A s \in Threads : s # t /\ InCell(s)
                           => sequence'[Cell(pos[s])] = sequence[Cell(pos[s])]
  BY SMTT(30), <1>1, <1>3, <1>4, CellType DEF TypeOK
<1>10. Writers' /\ Readers'
  BY <1>1, <1>9 DEF IInv, Writers, Readers, Writing, Reading, InCell
<1>11. Tickets'
  BY <1>1 DEF IInv, Tickets, Writing, Reading
<1>12. Objects'
  BY SMTT(30), <1>1 DEF IInv, Objects, At
<1>13. CellStorage'
  <2>1. \A d \in Cells : d = c => ~HasPush(d)'
    <3>1. /\ (pos[t] + Capacity) - 1 \in Nat
          /\ ((pos[t] + Capacity) - 1) + 1 = pos[t] + Capacity
      BY <1>1, CapacityAssumption
    <3>2. Cell((pos[t] + Capacity) - 1) # Cell(pos[t] + Capacity)
      BY Zenon, <3>1, NextCell
    <3>3. Cell(pos[t] + Capacity) = c
      BY Zenon, <1>1, NextLap
    <3>4. \A d \in Cells : d = c => sequence'[d] - 1 = (pos[t] + Capacity) - 1
      BY Zenon, <1>3
    <3> QED
      BY Zenon, <3>2, <3>3, <3>4 DEF HasPush
  <2> QED
    BY Zenon, <1>2, <1>3, <2>1 DEF IInv, CellStorage, AwaitsPush, HasPush
<1> QED
  BY ZenonT(30), <1>5, <1>6, <1>7, <1>8, <1>10, <1>11, <1>12, <1>13 DEF IInv
-----------------------------------------------------------------------------
(* An empty queue: the cells wait for the pushes of the first lap.         *)
LEMMA Initially ==
  ASSUME Init
  PROVE  IInv
<1>1. /\ TypeOK /\ Capacity \in Nat /\ Capacity >= 2
      /\ \A t \in Threads : pc[t] = "idle"
  BY CapacityAssumption DEF Init, TypeOK, Cells
<1>2. \A c \in Cells : c \in Nat /\ sequence[c] = c /\ c < Capacity
  BY <1>1 DEF Init, Cells
<1>3. \A c \in Cells : AwaitsPush(c) /\ ~HasPush(c)
  <2>1. TAKE c \in Cells
  <2>2. Cell(c) = c
    <3>1. CASE c \in Nat /\ c < Capacity
      BY <1>1, <3>1, SMT DEF Cell
    <3> QED
      BY Zenon, <1>2, <3>1
  <2>3. c >= 1 => Cell(c - 1) # Cell(c)
    <3>1. ASSUME c >= 1 PROVE c - 1 \in Nat /\ (c - 1) + 1 = c
      BY <1>2, <3>1
    <3> QED
      BY Zenon, <3>1, NextCell
  <2> QED
    BY Zenon, <1>2, <2>2, <2>3 DEF AwaitsPush, HasPush
<1>4. Roles /\ Looked /\ Writers /\ Readers /\ Tickets
  BY Zenon, <1>1, Sides DEF Roles, Looked, Writers, Readers, Tickets, Writing,
                     Reading, At
<1>5. Counters
  BY <1>1 DEF Init, Counters
<1>6. CellNumbers
  BY <1>1, <1>2, <1>3 DEF Init, CellNumbers
<1>7. Objects /\ CellStorage
  BY Zenon, <1>1, <1>3, Sides DEF Init, Objects, CellStorage, At
<1> QED
  BY Zenon, <1>1, <1>4, <1>5, <1>6, <1>7 DEF IInv

(* Every step keeps the invariant.                                         *)
LEMMA Inductive ==
  ASSUME IInv, [Next]_vars
  PROVE  IInv'
<1>1. CASE Next
  <2>1. TypeOK'
    BY Zenon, <1>1, TypeStep DEF IInv
  <2>2. ASSUME NEW t \in Producers, Push(t)
        PROVE  IInv'
    BY Zenon, <2>1, <2>2, PushOutsideSteps, PushClaimStep, ConstructStep, PublishStep
       DEF Push
  <2>3. ASSUME NEW t \in Consumers, Pop(t)
        PROVE  IInv'
    BY ZenonT(30), <2>1, <2>3, PopOutsideSteps, PopClaimStep, GetStep, ReleaseStep DEF Pop
  <2> QED
    BY Zenon, <1>1, <2>2, <2>3 DEF Next
<1>2. CASE UNCHANGED vars
  BY <1>2 DEF vars, IInv, TypeOK, Roles, Counters, CellNumbers, Looked,
              Writers, Readers, Tickets, Objects, CellStorage, AwaitsPush,
              HasPush, Writing, Reading, At
<1> QED
  BY Zenon, <1>1, <1>2

(* The invariant holds throughout.                                         *)
LEMMA Invariance == Spec => []IInv
<1>1. Init => IInv
  BY Zenon, Initially
<1>2. IInv /\ [Next]_vars => IInv'
  BY Zenon, Inductive
<1> QED
  BY <1>1, <1>2, PTL DEF Spec

(* Every variable of the queue keeps its type: in particular no sequence   *)
(* number and no ticket goes below zero.                                   *)
THEOREM QueueTypeCorrect == Spec => []TypeOK
<1>1. IInv => TypeOK
  BY Zenon DEF IInv
<1> QED
  BY <1>1, Invariance, PTL

(* TryPush and TryPop are never in the same cell at the same time, for any *)
(* number of threads and any capacity from two cells on, however stale the *)
(* positions and the sequence numbers are on which they decide.            *)
THEOREM CellsAreExclusive == Spec => []ExclusiveCell
<1>1. IInv => ExclusiveCell
  BY Zenon, Apart DEF IInv
<1> QED
  BY <1>1, Invariance, PTL

(* TryPush constructs only in raw storage and TryPop moves only out of     *)
(* storage that holds an object, under the same conditions.                *)
THEOREM LifetimesAlternate == Spec => []ObjectLifetimes
<1>1. IInv => ObjectLifetimes
  BY Zenon, Sides DEF IInv, ObjectLifetimes, Objects, Roles, At, Threads
<1> QED
  BY <1>1, Invariance, PTL
-----------------------------------------------------------------------------
(* The tickets that have been handed to a push and not to a pop.           *)
Window == dequeue .. enqueue - 1

(* Each of them is published, or its producer is still at work.            *)
Pending ==
  \A k \in Window : \/ sequence[Cell(k)] = k + 1
                    \/ \E t \in Producers : Writing(t) /\ pos[t] = k

(* No pop overtakes the push whose place it takes.                         *)
Unclaimed == \A t \in Producers : Writing(t) => pos[t] >= dequeue

(* What the threads have in hand.                                          *)
Hands ==
  /\ \A t \in Producers : At(t, "publish") => storage[Cell(pos[t])] = val[t]
  /\ \A t \in Consumers : At(t, "release") <=> val[t] # None

Served == Pending /\ Unclaimed /\ Hands

(* The tickets of the window are of different cells.                       *)
LEMMA WindowCells ==
  ASSUME IInv, NEW j \in Window, NEW k \in Window, Cell(j) = Cell(k)
  PROVE  j = k
<1>1. /\ enqueue \in Nat /\ dequeue \in Nat /\ enqueue <= dequeue + Capacity
      /\ j \in Nat /\ k \in Nat /\ j >= dequeue /\ k >= dequeue /\ j < enqueue /\ k < enqueue
  BY DEF IInv, TypeOK, Counters, Window
<1>2. ~(j < k) /\ ~(k < j)
  BY <1>1, SameCell, CapacityAssumption
<1> QED
  BY <1>1, <1>2

(* No reader is in the cell of a ticket of the window.                     *)
LEMMA ReadersElsewhere ==
  ASSUME IInv, Served, NEW t \in Consumers, Reading(t), NEW k \in Window
  PROVE  Cell(pos[t]) # Cell(k)
<1> SUFFICES ASSUME Cell(pos[t]) = Cell(k) PROVE FALSE
  BY Zenon
<1>1. /\ sequence[Cell(k)] = pos[t] + 1 /\ pos[t] < dequeue /\ pos[t] \in Nat /\ dequeue \in Nat
      /\ k >= dequeue /\ k \in Int /\ enqueue \in Nat
  BY Sides DEF IInv, Readers, TypeOK, Window
<1>2. CASE sequence[Cell(k)] = k + 1
  BY <1>1, <1>2
<1>3. ASSUME NEW s \in Producers, Writing(s), pos[s] = k PROVE FALSE
  <2>1. s \in Threads /\ t \in Threads /\ s # t
    BY Zenon, Sides
  <2>2. InCell(s) /\ InCell(t)
    BY Zenon, <1>3 DEF InCell, Writing, Reading
  <2> QED
    BY Zenon, <1>3, <2>1, <2>2, Apart DEF IInv, ExclusiveCell
<1> QED
  BY Zenon, <1>2, <1>3 DEF Served, Pending

(* The steps of TryPush and TryPop outside the cells.                      *)
LEMMA StepsOutside ==
  ASSUME TypeOK, NEW t \in Threads,
         \/ \E v \in Values : PushStart(t, v)
         \/ PushLook(t) \/ PushRetry(t)
         \/ PopStart(t) \/ PopLook(t) \/ PopRetry(t)
  PROVE  /\ Outside(t) /\ ~InCell(t) /\ pc'[t] \notin {"construct", "publish", "get", "release"}
         /\ (PopStart(t) \/ PopLook(t) \/ PopRetry(t)) => UNCHANGED val
<1>0. enqueue \in Nat /\ dequeue \in Nat /\ pc \in [Threads -> {"idle", "push", "pushcas", "construct", "publish",
                         "pop", "popcas", "get", "release"}]
  BY Zenon DEF TypeOK
<1>1. ASSUME NEW v \in Values, PushStart(t, v)
      PROVE  /\ Outside(t) /\ ~InCell(t) /\ pc'[t] \notin {"construct", "publish", "get", "release"}
             /\ ~(PopStart(t) \/ PopLook(t) \/ PopRetry(t))
  BY Zenon, <1>0, <1>1, Loads DEF PushStart, PopStart, PopLook, PopRetry, Outside, Goto, At, InCell, TypeOK
<1>2. ASSUME PushLook(t)
      PROVE  /\ Outside(t) /\ ~InCell(t) /\ pc'[t] \notin {"construct", "publish", "get", "release"}
             /\ ~(PopStart(t) \/ PopLook(t) \/ PopRetry(t))
  BY Zenon, <1>0, <1>2, Loads DEF PushLook, PopStart, PopLook, PopRetry, Outside, Goto, At, InCell, TypeOK
<1>3. ASSUME PushRetry(t)
      PROVE  /\ Outside(t) /\ ~InCell(t) /\ pc'[t] \notin {"construct", "publish", "get", "release"}
             /\ ~(PopStart(t) \/ PopLook(t) \/ PopRetry(t))
  BY Zenon, <1>0, <1>3, Loads DEF PushRetry, PopStart, PopLook, PopRetry, Outside, Goto, At, InCell, TypeOK
<1>4. ASSUME PopStart(t) \/ PopRetry(t)
      PROVE  /\ Outside(t) /\ ~InCell(t) /\ pc'[t] \notin {"construct", "publish", "get", "release"}
             /\ UNCHANGED val
  BY Zenon, <1>0, <1>4, Loads DEF PopStart, PopRetry, Outside, Goto, At, InCell, TypeOK
<1>5. ASSUME PopLook(t)
      PROVE  /\ Outside(t) /\ ~InCell(t) /\ pc'[t] \notin {"construct", "publish", "get", "release"}
             /\ UNCHANGED val
  BY Zenon, <1>0, <1>5, Loads DEF PopLook, Outside, Goto, At, InCell, TypeOK
<1> QED
  BY Zenon, <1>1, <1>2, <1>3, <1>4, <1>5

(* Outside the cells nothing that is served changes.                       *)
LEMMA ServedOutside ==
  ASSUME IInv, Served, NEW t \in Threads, Outside(t), ~InCell(t),
         pc'[t] \notin {"construct", "publish", "get", "release"},
         t \in Consumers => UNCHANGED val
  PROVE  Served'
<1> USE Sides DEF Outside
<1>1. \A s \in Producers : Writing(s)' <=> Writing(s)
  BY Zenon DEF Writing, InCell
<1>2. Pending'
  <2>1. \A s \in Producers : Writing(s) => s # t /\ pos'[s] = pos[s]
    BY Zenon DEF Writing, InCell
  <2> QED
    BY <1>1, <2>1 DEF Served, Pending, Window
<1>3. Unclaimed'
  BY Zenon, <1>1 DEF Served, Unclaimed, Writing, InCell
<1>4. Hands'
  BY DEF Served, Hands, At, InCell
<1> QED
  BY Zenon, <1>2, <1>3, <1>4 DEF Served

(* A claimed push is pending until it is published.                        *)
LEMMA ServedPush ==
  ASSUME IInv, Served, NEW t \in Producers, PushClaim(t) \/ Construct(t)
  PROVE  Served'
<1> USE Sides DEF Goto
<1>0. TypeOK /\ t \in Threads /\ enqueue \in Nat /\ dequeue \in Nat /\ dequeue <= enqueue
  BY Zenon DEF IInv, TypeOK, Counters
<1>1. CASE PushClaim(t)
  <2>1. /\ enqueue = pos[t] /\ enqueue' = enqueue + 1 /\ pc[t] = "pushcas" /\ pc'[t] = "construct"
        /\ \A s \in Threads : s # t => pc'[s] = pc[s]
        /\ UNCHANGED <<dequeue, sequence, storage, pos, val>>
    BY Zenon, <1>0, <1>1 DEF PushClaim, At, TypeOK
  <2>2. \A s \in Producers : Writing(s)' <=> Writing(s) \/ s = t
    BY Zenon, <2>1 DEF Writing
  <2>3. \A k \in Window' : k \in Window \/ k = pos[t]
    BY <1>0, <2>1 DEF Window
  <2>4. Pending'
    BY Zenon, <2>1, <2>2, <2>3 DEF Served, Pending
  <2>5. Unclaimed'
    BY Zenon, <1>0, <2>1, <2>2 DEF Served, Unclaimed
  <2>6. Hands'
    BY Zenon, <2>1 DEF Served, Hands, At
  <2> QED
    BY Zenon, <2>4, <2>5, <2>6 DEF Served
<1>2. CASE Construct(t)
  <2>1. /\ pc[t] = "construct" /\ pc'[t] = "publish"
        /\ \A s \in Threads : s # t => pc'[s] = pc[s]
        /\ UNCHANGED <<enqueue, dequeue, sequence, pos, val>>
    BY Zenon, <1>0, <1>2 DEF Construct, At, TypeOK
  <2>2. /\ Cell(pos[t]) \in Cells /\ storage'[Cell(pos[t])] = val[t]
        /\ \A d \in Cells : d # Cell(pos[t]) => storage'[d] = storage[d]
    BY Zenon, <1>0, <1>2, CellType DEF Construct, TypeOK
  <2>3. \A s \in Producers : Writing(s)' <=> Writing(s)
    BY Zenon, <2>1 DEF Writing
  <2>4. Pending' /\ Unclaimed'
    BY Zenon, <2>1, <2>3 DEF Served, Pending, Unclaimed, Window
  <2>5. ASSUME NEW s \in Producers, s # t, pc[s] = "publish"
        PROVE  storage'[Cell(pos[s])] = storage[Cell(pos[s])]
    <3>1. InCell(s) /\ InCell(t) /\ s \in Threads
      BY Zenon, <2>1, <2>5 DEF InCell
    <3>2. Cell(pos[s]) # Cell(pos[t])
      BY ZenonT(30), <1>0, <2>5, <3>1, Apart DEF IInv, ExclusiveCell
    <3> QED
      BY Zenon, <1>0, <2>2, <3>1, <3>2, CellType DEF TypeOK
  <2>6. Hands'
    BY <2>1, <2>2, <2>5 DEF Served, Hands, At
  <2> QED
    BY Zenon, <2>4, <2>6 DEF Served
<1> QED
  BY Zenon, <1>1, <1>2

(* A published push is ready in its cell.                                  *)
LEMMA ServedPublish ==
  ASSUME IInv, Served, NEW t \in Producers, Publish(t)
  PROVE  Served'
<1> USE Sides DEF Goto
<1>0. TypeOK /\ t \in Threads /\ enqueue \in Nat /\ dequeue \in Nat
  BY Zenon DEF IInv, TypeOK
<1>1. /\ pc[t] = "publish" /\ pc'[t] = "idle" /\ Writing(t)
      /\ \A s \in Threads : s # t => pc'[s] = pc[s] /\ pos'[s] = pos[s] /\ val'[s] = val[s]
      /\ UNCHANGED <<enqueue, dequeue, storage>>
  BY Zenon, <1>0 DEF Publish, At, TypeOK, Writing
<1>2. /\ Cell(pos[t]) \in Cells /\ sequence'[Cell(pos[t])] = pos[t] + 1
      /\ \A d \in Cells : d # Cell(pos[t]) => sequence'[d] = sequence[d]
  BY ZenonT(30), <1>0, CellType DEF Publish, TypeOK
<1>3. pos[t] \in Window
  BY <1>0, <1>1 DEF Window, IInv, Writers, Served, Unclaimed, TypeOK
<1>4. \A s \in Producers : Writing(s)' => Writing(s) /\ s # t
  BY Zenon, <1>1 DEF Writing
<1>5. ASSUME NEW k \in Window, k # pos[t]
      PROVE  sequence'[Cell(k)] = k + 1 \/ \E s \in Producers : Writing(s)' /\ pos'[s] = k
  <2>1. Cell(k) # Cell(pos[t]) /\ Cell(k) \in Cells
    BY <1>0, <1>3, <1>5, WindowCells, CellType DEF Window
  <2>2. sequence'[Cell(k)] = sequence[Cell(k)]
    BY Zenon, <1>2, <2>1
  <2>3. ASSUME NEW s \in Producers, Writing(s), pos[s] = k
        PROVE  Writing(s)' /\ pos'[s] = k
    BY Zenon, <1>1, <1>5, <2>3 DEF Writing
  <2> QED
    BY Zenon, <2>2, <2>3 DEF Served, Pending
<1>6. Pending'
  BY Zenon, <1>1, <1>2, <1>5 DEF Pending, Window
<1>7. Unclaimed'
  BY Zenon, <1>1, <1>4 DEF Served, Unclaimed
<1>8. Hands'
  BY ZenonT(30), <1>1 DEF Served, Hands, At
<1> QED
  BY Zenon, <1>6, <1>7, <1>8 DEF Served

(* A pop takes a ticket that is published, and hands out what it moved.    *)
LEMMA ServedPop ==
  ASSUME IInv, Served, NEW t \in Consumers, PopClaim(t) \/ Get(t)
  PROVE  Served'
<1> USE Sides DEF Goto
<1>0. TypeOK /\ t \in Threads /\ enqueue \in Nat /\ dequeue \in Nat
  BY Zenon DEF IInv, TypeOK
<1>1. CASE PopClaim(t)
  <2>1. /\ dequeue = pos[t] /\ dequeue' = dequeue + 1 /\ pc[t] = "popcas" /\ pc'[t] = "get"
        /\ \A s \in Threads : s # t => pc'[s] = pc[s]
        /\ UNCHANGED <<enqueue, sequence, storage, pos, val>>
    BY Zenon, <1>0, <1>1 DEF PopClaim, At, TypeOK
  <2>2. \A s \in Producers : Writing(s)' <=> Writing(s)
    BY Zenon, <2>1 DEF Writing
  <2>3. \A k \in Window' : k \in Window
    BY <1>0, <2>1 DEF Window
  <2>4. Pending'
    BY Zenon, <2>1, <2>2, <2>3 DEF Served, Pending
  <2>5. ASSUME NEW s \in Producers, Writing(s) PROVE pos[s] >= dequeue + 1
    <3>1. sequence[Cell(dequeue)] = dequeue + 1
      BY Zenon, <2>1, PopClaimFinds DEF At
    <3>2. sequence[Cell(pos[s])] = pos[s] /\ pos[s] >= dequeue /\ pos[s] \in Nat
      BY Zenon, <1>0, <2>5 DEF IInv, Writers, Served, Unclaimed, TypeOK
    <3> QED
      BY <1>0, <3>1, <3>2
  <2>6. Unclaimed'
    BY Zenon, <2>1, <2>2, <2>5 DEF Unclaimed
  <2>7. Hands'
    BY Zenon, <2>1 DEF Served, Hands, At
  <2> QED
    BY Zenon, <2>4, <2>6, <2>7 DEF Served
<1>2. CASE Get(t)
  <2>1. /\ pc[t] = "get" /\ pc'[t] = "release" /\ val'[t] = storage[Cell(pos[t])]
        /\ \A s \in Threads : s # t => pc'[s] = pc[s] /\ val'[s] = val[s]
        /\ UNCHANGED <<enqueue, dequeue, sequence, pos>>
    BY Zenon, <1>0, <1>2 DEF Get, At, TypeOK
  <2>2. /\ Cell(pos[t]) \in Cells /\ storage[Cell(pos[t])] # None
        /\ \A d \in Cells : d # Cell(pos[t]) => storage'[d] = storage[d]
    BY Zenon, <1>0, <1>2, CellType DEF Get, TypeOK, IInv, Objects
  <2>3. \A s \in Producers : Writing(s)' <=> Writing(s)
    BY Zenon, <2>1 DEF Writing
  <2>4. Pending' /\ Unclaimed'
    BY Zenon, <2>1, <2>3 DEF Served, Pending, Unclaimed, Window
  <2>5. ASSUME NEW s \in Producers, pc[s] = "publish"
        PROVE  storage'[Cell(pos[s])] = storage[Cell(pos[s])]
    <3>1. InCell(s) /\ InCell(t) /\ s \in Threads /\ s # t
      BY Zenon, <2>1, <2>5 DEF InCell
    <3>2. Cell(pos[s]) # Cell(pos[t])
      BY Zenon, <1>0, <3>1, Apart DEF IInv, ExclusiveCell
    <3> QED
      BY ZenonT(30), <1>0, <2>2, <3>1, <3>2, CellType DEF TypeOK
  <2>6. Hands'
    BY <2>1, <2>2, <2>5 DEF Served, Hands, At
  <2> QED
    BY Zenon, <2>4, <2>6 DEF Served
<1> QED
  BY Zenon, <1>1, <1>2

(* A released cell is not that of a ticket of the window.                  *)
LEMMA ServedRelease ==
  ASSUME IInv, Served, NEW t \in Consumers, Release(t)
  PROVE  Served'
<1> USE Sides DEF Goto
<1>0. TypeOK /\ t \in Threads /\ enqueue \in Nat /\ dequeue \in Nat
  BY Zenon DEF IInv, TypeOK
<1>1. /\ pc[t] = "release" /\ pc'[t] = "idle" /\ Reading(t) /\ val'[t] = None
      /\ \A s \in Threads : s # t => pc'[s] = pc[s] /\ pos'[s] = pos[s] /\ val'[s] = val[s]
      /\ UNCHANGED <<enqueue, dequeue, storage>>
  BY Zenon, <1>0 DEF Release, At, TypeOK, Reading
<1>2. \A d \in Cells : d # Cell(pos[t]) => sequence'[d] = sequence[d]
  BY Zenon, <1>0, CellType DEF Release, TypeOK
<1>3. \A k \in Window : sequence'[Cell(k)] = sequence[Cell(k)]
  BY <1>0, <1>1, <1>2, ReadersElsewhere, CellType DEF Window
<1>4. \A s \in Producers : pos'[s] = pos[s] /\ (Writing(s)' <=> Writing(s))
  BY Zenon, <1>1 DEF Writing
<1>5. Pending'
  BY <1>1, <1>3, <1>4 DEF Served, Pending, Window
<1>6. Unclaimed'
  BY Zenon, <1>1, <1>4 DEF Served, Unclaimed
<1>7. Hands'
  BY <1>1 DEF Served, Hands, At
<1> QED
  BY Zenon, <1>5, <1>6, <1>7 DEF Served

(* The queue is served in every behaviour.                                 *)
LEMMA ServedInvariance == Spec => [](IInv /\ Served)
<1>1. Init => Served
  <2> SUFFICES ASSUME Init PROVE Served
    BY Zenon
  <2>1. \A t \in Threads : pc[t] = "idle" /\ val[t] = None
    BY Zenon DEF Init
  <2>2. Window = {}
    BY DEF Init, Window
  <2> QED
    BY Zenon, <2>1, <2>2, Sides DEF Served, Pending, Unclaimed, Hands, Writing, At
<1>2. IInv /\ Served /\ [Next]_vars => Served'
  <2> SUFFICES ASSUME IInv, Served, [Next]_vars PROVE Served'
    BY Zenon
  <2>1. ASSUME NEW t \in Producers, Push(t) PROVE Served'
    <3>1. CASE (\E v \in Values : PushStart(t, v)) \/ PushLook(t) \/ PushRetry(t)
      BY Zenon, <3>1, StepsOutside, ServedOutside, Sides DEF IInv
    <3> QED
      BY Zenon, <2>1, <3>1, ServedPush, ServedPublish DEF Push
  <2>2. ASSUME NEW t \in Consumers, Pop(t) PROVE Served'
    <3>1. CASE PopStart(t) \/ PopLook(t) \/ PopRetry(t)
      BY Zenon, <3>1, StepsOutside, ServedOutside, Sides DEF IInv
    <3> QED
      BY Zenon, <2>2, <3>1, ServedPop, ServedRelease DEF Pop
  <2>3. CASE UNCHANGED vars
    BY <2>3 DEF vars, Served, Pending, Unclaimed, Hands, Window, Writing, At
  <2> QED
    BY Zenon, <2>1, <2>2, <2>3 DEF Next
<1>3. IInv /\ [Next]_vars => IInv'
  BY Zenon, Inductive
<1>4. Init => IInv
  BY Zenon, Initially
<1> QED
  BY <1>1, <1>2, <1>3, <1>4, PTL DEF Spec
-----------------------------------------------------------------------------
(* The places of the abstract queue, and what its consumers hold.          *)
Items == [i \in 1 .. enqueue - dequeue |-> Place(dequeue + i - 1)]
Got == [t \in Consumers |-> IF At(t, "get") THEN storage[Cell(pos[t])] ELSE val[t]]

(* The place of a ticket: the object in its cell, or the producer's value. *)
Shown ==
  \A k \in Window :
    /\ sequence[Cell(k)] = k + 1 => Place(k) = [value |-> storage[Cell(k)], by |-> None]
    /\ \A t \in Producers : Writing(t) /\ pos[t] = k => Place(k) = [value |-> val[t], by |-> t]

(* A ticket has one producer, so its place is determined.                  *)
LEMMA PlacesShown == IInv => Shown
<1> SUFFICES ASSUME IInv PROVE Shown
  BY Zenon
<1>1. \A k \in Window : sequence[Cell(k)] = k + 1 => Place(k) = [value |-> storage[Cell(k)], by |-> None]
  BY Zenon DEF Place
<1>2. ASSUME NEW t \in Producers, Writing(t)
      PROVE  Place(pos[t]) = [value |-> val[t], by |-> t]
  <2>1. sequence[Cell(pos[t])] = pos[t] /\ pos[t] \in Nat
    BY Zenon, <1>2, Sides DEF IInv, Writers, TypeOK
  <2>2. \A s \in Producers : Writing(s) /\ pos[s] = pos[t] => s = t
    BY Zenon, <1>2 DEF IInv, Tickets
  <2>3. Filler(pos[t]) = t
    BY <1>2, <2>2, Zenon DEF Filler, Writing
  <2>4. sequence[Cell(pos[t])] # pos[t] + 1
    BY <2>1
  <2> QED
    BY <2>3, <2>4, Zenon DEF Place
<1> QED
  BY <1>1, <1>2, Zenon DEF Shown

(* A step that changes nothing of a ticket leaves its place as it is.      *)
LEMMA SamePlace ==
  ASSUME IInv, Served, IInv', NEW k \in Window, k \in Window',
         sequence'[Cell(k)] = sequence[Cell(k)],
         sequence[Cell(k)] = k + 1 => storage'[Cell(k)] = storage[Cell(k)],
         \A t \in Producers : Writing(t) /\ pos[t] = k
                                => Writing(t)' /\ pos'[t] = k /\ val'[t] = val[t]
  PROVE  Place(k)' = Place(k)
<1>1. Shown
  BY Zenon, PlacesShown
<1>2. Shown'
  BY PlacesShown, PTL
<1>3. CASE sequence[Cell(k)] = k + 1
  BY <1>1, <1>2, <1>3, ZenonT(30) DEF Shown
<1>4. ASSUME NEW t \in Producers, Writing(t), pos[t] = k PROVE Place(k)' = Place(k)
  <2>1. Writing(t)' /\ pos'[t] = k /\ val'[t] = val[t]
    BY Zenon, <1>4
  <2>2. Place(k) = [value |-> val[t], by |-> t]
    BY Zenon, <1>1, <1>4 DEF Shown
  <2>3. Place(k)' = [value |-> val'[t], by |-> t]
    BY Zenon, <1>2, <2>1 DEF Shown
  <2> QED
    BY Zenon, <2>1, <2>2, <2>3
<1> QED
  BY Zenon, <1>3, <1>4 DEF Served, Pending

(* The number of places, and the ticket of each.                           *)
LEMMA ItemsShape ==
  ASSUME IInv
  PROVE  /\ enqueue - dequeue \in Nat
         /\ \A i \in 1 .. enqueue - dequeue : dequeue + i - 1 \in Window
BY DEF IInv, TypeOK, Counters, Window

(* Such a step leaves the abstract queue as it is.                         *)
LEMMA SameItems ==
  ASSUME IInv, Served, IInv', UNCHANGED <<enqueue, dequeue>>,
         \A k \in Window : Place(k)' = Place(k)
  PROVE  Items' = Items
<1>1. \A i \in 1 .. enqueue - dequeue : dequeue + i - 1 \in Window
  BY Zenon, ItemsShape
<1>2. \A i \in 1 .. enqueue - dequeue : Place(dequeue + i - 1)' = Place(dequeue + i - 1)
  BY Zenon, <1>1
<1> QED
  BY Zenon, <1>2 DEF Items

(* Outside the cells, in a constructor and in a move, the abstract queue   *)
(* does not change.                                                        *)
LEMMA OutsideStutters ==
  ASSUME IInv, Served, IInv', NEW t \in Threads, Outside(t), ~InCell(t),
         pc'[t] \notin {"construct", "publish", "get", "release"},
         t \in Consumers => UNCHANGED val
  PROVE  Items' = Items /\ Got' = Got
<1> USE Sides DEF Outside
<1>1. \A s \in Producers : Writing(s) => Writing(s)' /\ pos'[s] = pos[s] /\ val'[s] = val[s]
  BY Zenon DEF Writing, InCell
<1>2. \A k \in Window : Place(k)' = Place(k)
  <2> TAKE k \in Window
  <2>1. k \in Window'
    BY Zenon DEF Window
  <2> QED
    BY Zenon, <1>1, <2>1, SamePlace
<1>3. Items' = Items
  BY Zenon, <1>2, SameItems
<1>4. \A s \in Consumers : (IF At(s, "get") THEN storage[Cell(pos[s])] ELSE val[s])'
                             = IF At(s, "get") THEN storage[Cell(pos[s])] ELSE val[s]
  BY Zenon DEF At, InCell
<1> QED
  BY Zenon, <1>3, <1>4 DEF Got

\* The constructor works on a place that shows the producer's value.
LEMMA ConstructStutters ==
  ASSUME IInv, Served, IInv', NEW t \in Producers, Construct(t)
  PROVE  Items' = Items /\ Got' = Got
<1> USE Sides DEF Goto
<1>1. /\ TypeOK /\ t \in Threads /\ Writing(t) /\ InCell(t) /\ pc'[t] = "publish"
      /\ \A s \in Threads : s # t => pc'[s] = pc[s]
      /\ UNCHANGED <<enqueue, dequeue, sequence, pos, val>>
      /\ \A d \in Cells : d # Cell(pos[t]) => storage'[d] = storage[d]
  BY Zenon DEF IInv, Construct, At, TypeOK, Writing, InCell
<1>2. \A k \in Window : Place(k)' = Place(k)
  <2> TAKE k \in Window
  <2>1. k \in Window' /\ k \in Nat
    BY <1>1 DEF Window, TypeOK
  <2>2. ASSUME sequence[Cell(k)] = k + 1 PROVE storage'[Cell(k)] = storage[Cell(k)]
    <3>1. ASSUME Cell(k) = Cell(pos[t]) PROVE FALSE
      <4>1. sequence[Cell(pos[t])] = pos[t]
        BY Zenon, <1>1 DEF IInv, Writers
      <4>2. Cell(k + 1) = Cell(k)
        BY Zenon, <2>2, <3>1, <4>1
      <4> QED
        BY Zenon, <2>1, <4>2, NextCell
    <3> QED
      BY Zenon, <1>1, <2>1, <3>1, CellType
  <2>3. \A s \in Producers : Writing(s) => Writing(s)' /\ pos'[s] = pos[s] /\ val'[s] = val[s]
    BY Zenon, <1>1 DEF Writing
  <2> QED
    BY Zenon, <1>1, <2>1, <2>2, <2>3, SamePlace
<1>3. Items' = Items
  BY Zenon, <1>1, <1>2, SameItems
<1>4. ASSUME NEW s \in Consumers
      PROVE  (IF At(s, "get") THEN storage[Cell(pos[s])] ELSE val[s])'
                = IF At(s, "get") THEN storage[Cell(pos[s])] ELSE val[s]
  <2>1. pc'[s] = pc[s] /\ s \in Threads /\ s # t
    BY Zenon, <1>1
  <2>2. CASE pc[s] = "get"
    <3>1. Cell(pos[s]) # Cell(pos[t])
      BY ZenonT(30), <1>1, <2>1, <2>2, Apart DEF IInv, ExclusiveCell, InCell
    <3>2. Cell(pos[s]) \in Cells
      BY Zenon, <1>1, <2>1, CellType DEF TypeOK
    <3> QED
      BY ZenonT(30), <1>1, <2>1, <2>2, <3>1, <3>2 DEF At
  <2> QED
    BY Zenon, <1>1, <2>1, <2>2 DEF At
<1> QED
  BY Zenon, <1>3, <1>4 DEF Got

\* What the consumer moves out it already had in the abstract queue.
LEMMA GetStutters ==
  ASSUME IInv, Served, IInv', NEW t \in Consumers, Get(t)
  PROVE  Items' = Items /\ Got' = Got
<1> USE Sides DEF Goto
<1>1. /\ TypeOK /\ t \in Threads /\ Reading(t) /\ InCell(t) /\ pc[t] = "get" /\ pc'[t] = "release"
      /\ val'[t] = storage[Cell(pos[t])]
      /\ \A s \in Threads : s # t => pc'[s] = pc[s] /\ val'[s] = val[s]
      /\ UNCHANGED <<enqueue, dequeue, sequence, pos>>
      /\ \A d \in Cells : d # Cell(pos[t]) => storage'[d] = storage[d]
  BY Zenon DEF IInv, Get, At, TypeOK, Reading, InCell
<1>2. \A k \in Window : Place(k)' = Place(k)
  <2> TAKE k \in Window
  <2>1. k \in Window' /\ k \in Nat
    BY <1>1 DEF Window, TypeOK
  <2>2. storage'[Cell(k)] = storage[Cell(k)]
    BY Zenon, <1>1, <2>1, CellType, ReadersElsewhere
  <2>3. \A s \in Producers : Writing(s) => Writing(s)' /\ pos'[s] = pos[s] /\ val'[s] = val[s]
    BY Zenon, <1>1 DEF Writing
  <2> QED
    BY ZenonT(30), <1>1, <2>1, <2>2, <2>3, SamePlace
<1>3. Items' = Items
  BY Zenon, <1>1, <1>2, SameItems
<1>4. ASSUME NEW s \in Consumers
      PROVE  (IF At(s, "get") THEN storage[Cell(pos[s])] ELSE val[s])'
                = IF At(s, "get") THEN storage[Cell(pos[s])] ELSE val[s]
  <2>1. CASE s = t
    BY Zenon, <1>1, <2>1 DEF At
  <2>2. CASE s # t /\ pc[s] = "get"
    <3>1. Cell(pos[s]) # Cell(pos[t])
      BY Zenon, <1>1, <2>2, Apart DEF IInv, ExclusiveCell, InCell
    <3>2. Cell(pos[s]) \in Cells
      BY Zenon, <1>1, <2>2, CellType DEF TypeOK
    <3> QED
      BY Zenon, <1>1, <2>2, <3>1, <3>2 DEF At
  <2> QED
    BY Zenon, <1>1, <2>1, <2>2 DEF At
<1> QED
  BY Zenon, <1>3, <1>4 DEF Got

(* Sequences of one length with the same items are the same.               *)
LEMMA SameSequence ==
  ASSUME NEW S, NEW p \in Seq(S), NEW q \in Seq(S), NEW n \in Nat,
         Len(p) = n, Len(q) = n, \A i \in 1 .. n : p[i] = q[i]
  PROVE  p = q
<1>1. p \in [1 .. n -> S] /\ q \in [1 .. n -> S]
  OBVIOUS
<1>2. p = [i \in 1 .. n |-> p[i]] /\ q = [i \in 1 .. n |-> q[i]]
  BY <1>1, Zenon
<1> QED
  BY <1>2, Zenon

(* How a sequence given by its items is extended.                          *)
LEMMA Appended ==
  ASSUME NEW n \in Nat, NEW q, NEW e, NEW u,
         q = [i \in 1 .. n |-> q[i]], u = [i \in 1 .. n + 1 |-> u[i]],
         \A i \in 1 .. n : u[i] = q[i], u[n + 1] = e
  PROVE  u = Append(q, e) /\ Len(q) = n
<1> DEFINE S == {q[i] : i \in 1 .. n} \cup {e}
<1>1. (\A i \in 1 .. n : q[i] \in S) /\ e \in S
  BY Zenon
<1>2. \A i \in 1 .. n + 1 : u[i] \in S
  BY SMTT(30), <1>1
<1>3. q \in [1 .. n -> S] /\ u \in [1 .. n + 1 -> S]
  BY <1>1, <1>2, Zenon
<1> HIDE DEF S
<1>4. q \in Seq(S) /\ Len(q) = n /\ u \in Seq(S) /\ Len(u) = n + 1
  BY <1>3
<1>5. Append(q, e) \in Seq(S) /\ Len(Append(q, e)) = n + 1
  BY <1>1, <1>4
<1>6. \A i \in 1 .. n + 1 : u[i] = Append(q, e)[i]
  BY SMTT(30), <1>1, <1>4
<1>7. n + 1 \in Nat
  OBVIOUS
<1>8. u = Append(q, e)
  BY <1>4, <1>5, <1>6, <1>7, SameSequence
<1> QED
  BY Zenon, <1>4, <1>8

(* The store that publishes a push makes its place ready.                  *)
LEMMA PublishFills ==
  ASSUME IInv, Served, IInv', NEW t \in Producers, Publish(t)
  PROVE  Queue!Fill(t)
<1> USE Sides DEF Goto
<1>1. /\ TypeOK /\ t \in Threads /\ pc[t] = "publish" /\ Writing(t) /\ InCell(t) /\ pc'[t] = "idle"
      /\ \A s \in Threads : s # t => pc'[s] = pc[s] /\ pos'[s] = pos[s] /\ val'[s] = val[s]
      /\ UNCHANGED <<enqueue, dequeue, storage>>
      /\ enqueue \in Nat /\ dequeue \in Nat /\ pos[t] \in Nat
  BY DEF IInv, Publish, At, TypeOK, Writing, InCell
<1>2. /\ Cell(pos[t]) \in Cells /\ sequence'[Cell(pos[t])] = pos[t] + 1
      /\ \A d \in Cells : d # Cell(pos[t]) => sequence'[d] = sequence[d]
  BY ZenonT(30), <1>1, CellType DEF Publish, TypeOK
<1>3. pos[t] \in Window
  BY <1>1 DEF Window, IInv, Writers, Served, Unclaimed
<1>4. ASSUME NEW k \in Window, k # pos[t] PROVE Place(k)' = Place(k)
  <2>1. k \in Window' /\ k \in Nat
    BY <1>1 DEF Window
  <2>2. sequence'[Cell(k)] = sequence[Cell(k)]
    BY Zenon, <1>2, <1>3, <1>4, <2>1, WindowCells, CellType
  <2>3. \A s \in Producers : Writing(s) /\ pos[s] = k
                               => Writing(s)' /\ pos'[s] = k /\ val'[s] = val[s]
    BY Zenon, <1>1, <1>4 DEF Writing
  <2> QED
    BY ZenonT(30), <1>1, <2>1, <2>2, <2>3, SamePlace
<1>5. ASSUME NEW k, k = pos[t]
      PROVE  /\ Place(k) = [value |-> val[t], by |-> t]
             /\ Place(k)' = [value |-> val[t], by |-> None]
  <2>1. Shown
    BY Zenon, PlacesShown
  <2>2. Shown'
    BY PlacesShown, PTL
  <2>3. k \in Window' /\ k \in Window
    BY Zenon, <1>1, <1>3, <1>5 DEF Window
  <2>4. storage'[Cell(k)] = val[t] /\ sequence'[Cell(k)] = k + 1
    BY Zenon, <1>1, <1>2, <1>5 DEF Served, Hands, At
  <2>5. Place(k) = [value |-> val[t], by |-> t]
    BY Zenon, <1>1, <1>5, <2>1, <2>3 DEF Shown
  <2>6. Place(k)' = [value |-> storage'[Cell(k)], by |-> None]
    BY <2>2, <2>3, <2>4, Zenon DEF Shown
  <2> QED
    BY Zenon, <2>4, <2>5, <2>6
<1> DEFINE p == pos[t] - dequeue + 1
<1>6. p \in 1 .. enqueue - dequeue
  BY <1>1, <1>3 DEF Window
<1>7. ASSUME NEW i \in 1 .. enqueue - dequeue
      PROVE  Items'[i] = IF i = p THEN [value |-> val[t], by |-> None] ELSE Items[i]
  <2>1. PICK k : k = dequeue + i - 1
    BY Zenon
  <2>2. Items'[i] = Place(k)' /\ Items[i] = Place(k)
    BY Zenon, <1>1, <2>1 DEF Items
  <2>3. k \in Window
    BY Zenon, <2>1, ItemsShape
  <2>4. i = p <=> k = pos[t]
    BY <1>1, <2>1
  <2> QED
    BY ZenonT(30), <1>4, <1>5, <2>2, <2>3, <2>4
<1>8. Items[p] = [value |-> val[t], by |-> t]
  <2>1. PICK k : k = pos[t]
    BY Zenon
  <2>2. k = dequeue + p - 1
    BY <1>1, <2>1
  <2> QED
    BY Zenon, <1>5, <1>6, <2>1, <2>2 DEF Items
<1>9. /\ Items = [i \in 1 .. enqueue - dequeue |-> Items[i]]
      /\ Items' = [i \in 1 .. enqueue - dequeue |-> Items'[i]]
  BY Zenon, <1>1 DEF Items
<1> HIDE DEF p
<1>10. Items' = [Items EXCEPT ![p].by = None]
  BY <1>6, <1>7, <1>8, <1>9
<1>11. p \in {i \in DOMAIN Items : Items[i].by = t}
  BY <1>6, <1>8, <1>9
<1>12. Got' = Got
  <2>1. \A s \in Consumers : (IF At(s, "get") THEN storage[Cell(pos[s])] ELSE val[s])'
                               = IF At(s, "get") THEN storage[Cell(pos[s])] ELSE val[s]
    BY Zenon, <1>1 DEF At
  <2> QED
    BY Zenon, <2>1 DEF Got
<1> QED
  BY <1>10, <1>11, <1>12, ZenonT(30) DEF Queue!Fill, Queue!Filling, Items, Got

(* How the first item of a sequence is taken.                              *)
LEMMA Removed ==
  ASSUME NEW n \in Nat, NEW q, NEW u,
         q = [i \in 1 .. n + 1 |-> q[i]], u = [i \in 1 .. n |-> u[i]],
         \A i \in 1 .. n : u[i] = q[i + 1]
  PROVE  u = Tail(q) /\ Head(q) = q[1] /\ q # <<>>
<1> DEFINE S == {q[i] : i \in 1 .. n + 1}
<1>1. \A i \in 1 .. n + 1 : q[i] \in S
  BY Zenon
<1> HIDE DEF S
<1>2. \A i \in 1 .. n : u[i] \in S
  <2>1. \A i \in 1 .. n : i + 1 \in 1 .. n + 1
    OBVIOUS
  <2> QED
    BY Zenon, <1>1, <2>1
<1>3. q \in [1 .. n + 1 -> S] /\ u \in [1 .. n -> S]
  BY <1>1, <1>2, Zenon
<1>4. q \in Seq(S) /\ Len(q) = n + 1 /\ u \in Seq(S) /\ Len(u) = n
  BY <1>3
<1>5. q # <<>> /\ Head(q) = q[1]
  BY <1>4
<1>6. Tail(q) \in Seq(S) /\ Len(Tail(q)) = n
  BY <1>4, <1>5
<1>7. \A i \in 1 .. n : u[i] = Tail(q)[i]
  <2>1. \A i \in 1 .. n : Tail(q)[i] = q[i + 1]
    BY <1>4, <1>5
  <2> QED
    BY <2>1, Zenon
<1>8. u = Tail(q)
  BY <1>4, <1>6, <1>7, SameSequence, ZenonT(30)
<1> QED
  BY Zenon, <1>5, <1>8

(* A successful compare-and-swap of a pop takes the place at the head,     *)
(* which is ready.                                                         *)
LEMMA PopTakes ==
  ASSUME IInv, Served, IInv', NEW t \in Consumers, PopClaim(t)
  PROVE  Queue!Take(t)
<1> USE Sides DEF Goto
<1>1. /\ TypeOK /\ t \in Threads /\ pc[t] = "popcas" /\ pc'[t] = "get"
      /\ \A s \in Threads : s # t => pc'[s] = pc[s]
      /\ dequeue = pos[t] /\ dequeue' = dequeue + 1
      /\ UNCHANGED <<enqueue, sequence, storage, pos, val>>
      /\ enqueue \in Nat /\ dequeue \in Nat
  BY Zenon DEF IInv, PopClaim, At, TypeOK
<1>2. sequence[Cell(dequeue)] = dequeue + 1 /\ dequeue < enqueue
  BY Zenon, <1>1, PopClaimFinds DEF At
<1> DEFINE n == enqueue - dequeue - 1
<1>3. n \in Nat /\ enqueue - dequeue = n + 1 /\ enqueue' - dequeue' = n
  BY <1>1, <1>2
<1>4. ASSUME NEW i \in 1 .. n PROVE Items'[i] = Items[i + 1]
  <2>1. PICK k : k = dequeue + i
    BY Zenon
  <2>2. k \in Window /\ k \in Window'
    BY <1>1, <1>3, <2>1 DEF Window
  <2>3. Items'[i] = Place(k)' /\ Items[i + 1] = Place(k)
    <3>1. /\ k = dequeue' + i - 1 /\ i \in 1 .. enqueue' - dequeue'
          /\ k = dequeue + (i + 1) - 1 /\ i + 1 \in 1 .. enqueue - dequeue
      BY <1>1, <1>3, <2>1
    <3> QED
      BY Zenon, <3>1 DEF Items
  <2>4. \A s \in Producers : Writing(s) => Writing(s)' /\ pos'[s] = pos[s] /\ val'[s] = val[s]
    BY Zenon, <1>1 DEF Writing
  <2>5. Place(k)' = Place(k)
    BY Zenon, <1>1, <2>2, <2>4, SamePlace
  <2> QED
    BY Zenon, <2>3, <2>5
<1>5. Items = [i \in 1 .. n + 1 |-> Items[i]] /\ Items' = [i \in 1 .. n |-> Items'[i]]
  BY Zenon, <1>3 DEF Items
<1>6. Items[1] = [value |-> storage[Cell(dequeue)], by |-> None]
  <2>1. PICK k : k = dequeue
    BY Zenon
  <2>2. k \in Window /\ k = dequeue + 1 - 1 /\ 1 \in 1 .. enqueue - dequeue
    BY <1>1, <1>2, <2>1 DEF Window
  <2>3. Items[1] = Place(k)
    BY Zenon, <2>2 DEF Items
  <2>4. Place(k) = [value |-> storage[Cell(k)], by |-> None]
    BY Zenon, <1>2, <2>1, <2>2, PlacesShown DEF Shown
  <2> QED
    BY Zenon, <2>1, <2>3, <2>4
<1> HIDE DEF n
<1>7. Items' = Tail(Items) /\ Head(Items) = Items[1] /\ Items # <<>>
  <2>1. n \in Nat /\ \A i \in 1 .. n : Items'[i] = Items[i + 1]
    BY Zenon, <1>3, <1>4
  <2>2. PICK q, u : q = Items /\ u = Items'
    BY Zenon
  <2>3. q = [i \in 1 .. n + 1 |-> q[i]] /\ u = [i \in 1 .. n |-> u[i]]
    BY <1>5, <2>2, Zenon
  <2>4. \A i \in 1 .. n : u[i] = q[i + 1]
    BY Zenon, <2>1, <2>2
  <2>5. u = Tail(q) /\ Head(q) = q[1] /\ q # <<>>
    <3>1. n \in Nat
      BY Zenon, <2>1
    <3>2. u = Tail(q)
      BY ZenonT(30), <2>3, <2>4, <3>1, Removed
    <3>3. Head(q) = q[1]
      BY <2>3, <2>4, <3>1, Removed
    <3>4. q # <<>>
      <4>1. DOMAIN q = 1 .. n + 1
        BY <2>3, Zenon
      <4>2. 1 \in DOMAIN q
        BY <3>1, <4>1
      <4> QED
        BY <4>2
    <3> QED
      BY Zenon, <3>2, <3>3, <3>4
  <2> QED
    BY Zenon, <2>2, <2>5
<1>8. Got[t] = None
  BY Zenon, <1>1 DEF Got, At, Served, Hands
<1>9. Got' = [Got EXCEPT ![t] = storage[Cell(dequeue)]]
  <2>1. \A s \in Consumers : (IF At(s, "get") THEN storage[Cell(pos[s])] ELSE val[s])'
          = IF s = t THEN storage[Cell(dequeue)]
            ELSE IF At(s, "get") THEN storage[Cell(pos[s])] ELSE val[s]
    BY Zenon, <1>1 DEF At
  <2> QED
    BY Zenon, <2>1 DEF Got
<1>10. Head(Items).by = None /\ Head(Items).value = storage[Cell(dequeue)]
  BY <1>6, <1>7
<1> QED
  BY <1>7, <1>8, <1>9, <1>10, Zenon DEF Queue!Take, Queue!Ready, Items, Got

(* The store that hands back the cell ends the hold on its slot.           *)
LEMMA ReleaseReleases ==
  ASSUME IInv, Served, IInv', NEW t \in Consumers, Release(t)
  PROVE  Queue!Release(t)
<1> USE Sides DEF Goto
<1>1. /\ TypeOK /\ t \in Threads /\ pc[t] = "release" /\ Reading(t) /\ pc'[t] = "idle" /\ val'[t] = None
      /\ \A s \in Threads : s # t => pc'[s] = pc[s] /\ pos'[s] = pos[s] /\ val'[s] = val[s]
      /\ UNCHANGED <<enqueue, dequeue, storage>>
      /\ enqueue \in Nat /\ dequeue \in Nat
  BY DEF IInv, Release, At, TypeOK, Reading
<1>2. \A d \in Cells : d # Cell(pos[t]) => sequence'[d] = sequence[d]
  BY Zenon, <1>1, CellType DEF Release, TypeOK
<1>3. \A k \in Window : Place(k)' = Place(k)
  <2> TAKE k \in Window
  <2>1. k \in Window' /\ k \in Nat
    BY <1>1 DEF Window
  <2>2. sequence'[Cell(k)] = sequence[Cell(k)]
    BY Zenon, <1>1, <1>2, <2>1, ReadersElsewhere, CellType
  <2>3. \A s \in Producers : Writing(s) => Writing(s)' /\ pos'[s] = pos[s] /\ val'[s] = val[s]
    BY Zenon, <1>1 DEF Writing
  <2> QED
    BY ZenonT(30), <1>1, <2>1, <2>2, <2>3, SamePlace
<1>4. Items' = Items
  BY Zenon, <1>1, <1>3, SameItems
<1>5. Got[t] # None
  BY Zenon, <1>1 DEF Got, At, Served, Hands
<1>6. Got' = [Got EXCEPT ![t] = None]
  <2>1. \A s \in Consumers : (IF At(s, "get") THEN storage[Cell(pos[s])] ELSE val[s])'
          = IF s = t THEN None ELSE IF At(s, "get") THEN storage[Cell(pos[s])] ELSE val[s]
    BY Zenon, <1>1 DEF At
  <2> QED
    BY Zenon, <2>1 DEF Got
<1> QED
  BY <1>4, <1>5, <1>6, Zenon DEF Queue!Release, Items, Got
-----------------------------------------------------------------------------
(***************************************************************************)
(* BoundedMpmcQueue implements TicketQueue, for every number of threads,   *)
(* cells and tickets.  What needs counting is here: a push finds room.     *)
(***************************************************************************)
(* A consumer holds something exactly while it is in a cell.               *)
LEMMA Holders ==
  ASSUME IInv, Served
  PROVE  {t \in Consumers : Got[t] # None} = {t \in Consumers : Reading(t)}
<1>1. ASSUME NEW t \in Consumers PROVE Got[t] # None <=> Reading(t)
  <2>1. Got[t] = IF At(t, "get") THEN storage[Cell(pos[t])] ELSE val[t]
    BY Zenon DEF Got
  <2>2. At(t, "get") => storage[Cell(pos[t])] # None
    BY Zenon DEF IInv, Objects
  <2>3. At(t, "release") <=> val[t] # None
    BY Zenon DEF Served, Hands
  <2> QED
    BY Zenon, <2>1, <2>2, <2>3 DEF At, Reading
<1> QED
  BY Zenon, <1>1

(* A producer that claims a ticket finds room in the abstract queue, the   *)
(* slots that consumers still hold counted: every ticket of the window,    *)
(* the new one and every consumer have a cell of their own.                *)
LEMMA Room ==
  ASSUME IInv, Served, NEW t \in Producers, PushClaim(t)
  PROVE  (enqueue - dequeue) + Cardinality({r \in Consumers : Reading(r)}) < Capacity
<1> DEFINE R == {r \in Consumers : Reading(r)}
<1> DEFINE T == dequeue .. enqueue
<1> DEFINE f == [k \in T |-> Cell(k)]
<1> DEFINE W == {Cell(k) : k \in T}
<1> DEFINE g == [r \in R |-> Cell(pos[r])]
<1>1. /\ enqueue \in Nat /\ dequeue \in Nat /\ dequeue <= enqueue
      /\ sequence[Cell(enqueue)] = enqueue /\ enqueue < dequeue + Capacity
      /\ Capacity \in Nat
  BY Zenon, PushClaimFinds, CapacityAssumption DEF IInv, TypeOK, Counters, PushClaim
<1>2. \A k \in T : k \in Nat /\ Cell(k) \in Cells
  BY <1>1, CellType
<1>3. \A j, k \in T : Cell(j) = Cell(k) => j = k
  <2> SUFFICES ASSUME NEW j \in T, NEW k \in T, Cell(j) = Cell(k), j < k PROVE FALSE
    BY <1>2
  <2>1. j + Capacity <= k
    BY Zenon, <1>2, SameCell
  <2> QED
    BY <1>1, <2>1
<1>4. f \in Bijection(T, W)
  <2>1. f \in [T -> W]
    BY Zenon
  <2>2. \A a, b \in T : f[a] = f[b] => a = b
    BY Zenon, <1>3
  <2>3. \A c \in W : \E a \in T : f[a] = c
    BY Zenon
  <2> HIDE DEF f, W
  <2> QED
    BY Zenon, <2>1, <2>2, <2>3 DEF Bijection, Injection, Surjection, IsInjective
<1>5. IsFiniteSet(T) /\ Cardinality(T) = (enqueue - dequeue) + 1
  BY <1>1, FS_Interval
<1>6. Cardinality(W) = (enqueue - dequeue) + 1
  BY Zenon, <1>4, <1>5, FS_Bijection DEF ExistsBijection
<1>7. IsFiniteSet(Cells) /\ Cardinality(Cells) = Capacity
  BY <1>1, FS_Interval, CapacityAssumption DEF Cells
<1>8. IsFiniteSet(Cells \ W) /\ Cardinality(Cells \ W) = Capacity - ((enqueue - dequeue) + 1)
  <2>1. Cells \cap W = W
    BY Zenon, <1>2
  <2> HIDE DEF W
  <2>2. IsFiniteSet(Cells \ W) /\ Cardinality(Cells \ W) = Cardinality(Cells) - Cardinality(Cells \cap W)
    BY Zenon, <1>7, FS_Difference
  <2> QED
    BY Zenon, <1>6, <1>7, <2>1, <2>2
<1>9. ASSUME NEW r \in R PROVE Cell(pos[r]) \in Cells \ W
  <2>1. /\ pos[r] \in Nat /\ Cell(pos[r]) \in Cells
        /\ sequence[Cell(pos[r])] = pos[r] + 1
    BY Zenon, CellType, Sides DEF IInv, TypeOK, Readers
  <2>2. Cell(pos[r]) # Cell(enqueue)
    BY Zenon, <1>1, <2>1, NextCell
  <2>3. \A k \in T : k \in Window \/ k = enqueue
    BY <1>1 DEF Window
  <2> QED
    BY Zenon, <2>1, <2>2, <2>3, ReadersElsewhere
<1>10. \A q, r \in R : Cell(pos[q]) = Cell(pos[r]) => q = r
  BY Zenon, Apart, Sides DEF IInv, ExclusiveCell, InCell, Reading
<1>11. g \in Injection(R, Cells \ W)
  <2>1. g \in [R -> Cells \ W]
    BY Zenon, <1>9
  <2>2. \A a, b \in R : g[a] = g[b] => a = b
    BY Zenon, <1>10
  <2> HIDE DEF g, R, W
  <2> QED
    BY Zenon, <2>1, <2>2 DEF Injection, IsInjective
<1>12. IsFiniteSet(R) /\ Cardinality(R) <= Cardinality(Cells \ W)
  BY <1>8, <1>11, FS_Injection
<1>13. Cardinality(R) \in Nat
  BY Zenon, <1>12, FS_CardinalityType
<1> HIDE DEF R, W
<1>14. (enqueue - dequeue) + Cardinality(R) < Capacity
  BY <1>1, <1>8, <1>12, <1>13
<1> QED
  BY Zenon, <1>14 DEF R

(* The abstract queue counts as this module does.                          *)
LEMMA SameCount == \A S : Queue!Cardinality(S) = Cardinality(S)
BY Zenon DEF Queue!Cardinality, Cardinality

(* A successful compare-and-swap of a push appends a place that is not     *)
(* ready.                                                                  *)
LEMMA PushClaims ==
  ASSUME IInv, Served, IInv', NEW t \in Producers, PushClaim(t)
  PROVE  Queue!Claim(t, val[t])
<1> USE Sides DEF Goto
<1>1. /\ TypeOK /\ t \in Threads /\ ~Writing(t) /\ pc'[t] = "construct" /\ Writing(t)'
      /\ \A s \in Threads : s # t => pc'[s] = pc[s]
      /\ enqueue = pos[t] /\ enqueue' = enqueue + 1
      /\ UNCHANGED <<dequeue, sequence, storage, pos, val>>
      /\ enqueue \in Nat /\ dequeue \in Nat /\ enqueue - dequeue \in Nat
  BY DEF IInv, PushClaim, At, TypeOK, Writing, Counters
<1> DEFINE n == enqueue - dequeue
<1>2. \A k \in Window : Place(k)' = Place(k)
  <2> TAKE k \in Window
  <2>1. k \in Window'
    BY <1>1 DEF Window
  <2>3. \A s \in Producers : Writing(s) => Writing(s)' /\ pos'[s] = pos[s] /\ val'[s] = val[s]
    BY Zenon, <1>1 DEF Writing
  <2> QED
    BY ZenonT(30), <1>1, <2>1, <2>3, SamePlace
<1>3. ASSUME NEW k, k = enqueue PROVE Place(k)' = [value |-> val[t], by |-> t]
  <2>1. Shown'
    BY PlacesShown, PTL
  <2>2. k \in Window'
    BY <1>1, <1>3 DEF Window, IInv, Counters
  <2>3. pos'[t] = k /\ val'[t] = val[t] /\ Writing(t)'
    BY Zenon, <1>1, <1>3
  <2> QED
    BY <2>1, <2>2, <2>3, ZenonT(30) DEF Shown
<1>4. Items' = Append(Items, [value |-> val[t], by |-> t])
  <2>1. ASSUME NEW i \in 1 .. n + 1
        PROVE  Items'[i] = IF i = n + 1 THEN [value |-> val[t], by |-> t] ELSE Items[i]
    <3>1. PICK k : k = dequeue + i - 1
      BY Zenon
    <3>2. Items'[i] = Place(k)'
      BY SMTT(30), <1>1, <3>1 DEF Items
    <3>3. CASE i = n + 1
      BY <1>1, <1>3, <3>1, <3>2, <3>3
    <3>4. CASE i # n + 1
      <4>1. i \in 1 .. n /\ k \in Window
        BY <1>1, <3>1, <3>4, ItemsShape
      <4>2. Items[i] = Place(k)
        BY ZenonT(30), <3>1, <4>1 DEF Items
      <4> QED
        BY ZenonT(30), <1>2, <3>2, <3>4, <4>1, <4>2
    <3> QED
      BY Zenon, <3>3, <3>4
  <2>2. DOMAIN Items' = 1 .. n + 1 /\ DOMAIN Items = 1 .. n
    BY <1>1 DEF Items
  <2>3. Items' = [i \in 1 .. n + 1 |-> Items'[i]] /\ Items = [i \in 1 .. n |-> Items[i]]
    BY <1>1 DEF Items
  <2>4. \A i \in 1 .. n : Items'[i] = Items[i]
    BY <1>1, <2>1
  <2>5. Items'[n + 1] = [value |-> val[t], by |-> t] /\ n \in Nat
    BY <1>1, <2>1
  <2> HIDE DEF n
  <2> QED
    BY <2>3, <2>4, <2>5, Appended
<1>5. Got' = Got
  <2>1. \A s \in Consumers : (IF At(s, "get") THEN storage[Cell(pos[s])] ELSE val[s])'
                               = IF At(s, "get") THEN storage[Cell(pos[s])] ELSE val[s]
    BY ZenonT(30), <1>1 DEF At
  <2> QED
    BY Zenon, <2>1 DEF Got
<1>6. \A i \in 1 .. n : Items[i].by # t
  <2> TAKE i \in 1 .. n
  <2>1. dequeue + i - 1 \in Window /\ Items[i] = Place(dequeue + i - 1)
    BY Zenon, ItemsShape DEF Items
  <2>2. Shown
    BY Zenon, PlacesShown
  <2> QED
    BY <1>1, <2>1, <2>2, NoneAssumption DEF Served, Pending, Shown
<1>7. Len(Items) + Cardinality({r \in Consumers : Got[r] # None}) < Capacity
  <2>1. Len(Items) = n
    BY <1>1 DEF Items
  <2> QED
    BY ZenonT(30), <2>1, Room, Holders
<1>8. DOMAIN Items = 1 .. n
  BY Zenon DEF Items
<1>9. {i \in DOMAIN Items : Items[i].by = t} = {}
  BY Zenon, <1>6, <1>8
<1> QED
  BY <1>4, <1>5, <1>7, <1>9, SameCount, ZenonT(30)
     DEF Queue!Claim, Queue!Filling, Queue!Holding, Items, Got

(* BoundedMpmcQueue is the bounded queue the loops and the workers rely    *)
(* on: for any number of producers and consumers and any capacity, however *)
(* stale what TryPush and TryPop see, items leave in the order of their    *)
(* tickets, each once, only after they are published, and a push never     *)
(* finds room in a slot that a slow pop still holds.                       *)
THEOREM QueueIsInOrder == Spec => QueueInOrder
<1>1. Init => Queue!Init
  <2> SUFFICES ASSUME Init PROVE Queue!Init
    BY Zenon
  <2>1. Items = <<>>
    BY DEF Init, Items
  <2>2. Got = [t \in Consumers |-> None]
    BY Zenon, Sides DEF Init, Got, At
  <2> QED
    BY <2>1, <2>2, Zenon DEF Queue!Init, Items, Got
<1>2. IInv /\ Served /\ IInv' /\ [Next]_vars => [Queue!Next]_(Queue!vars)
  <2> SUFFICES ASSUME IInv, Served, IInv', [Next]_vars PROVE [Queue!Next]_(Queue!vars)
    BY Zenon
  <2>1. ASSUME Items' = Items, Got' = Got PROVE UNCHANGED Queue!vars
    BY <2>1, Zenon DEF Queue!vars, Items, Got
  <2>2. ASSUME NEW t \in Producers, Push(t) PROVE Queue!Next \/ (Items' = Items /\ Got' = Got)
    <3>1. CASE (\E v \in Values : PushStart(t, v)) \/ PushLook(t) \/ PushRetry(t)
      BY Zenon, <3>1, StepsOutside, OutsideStutters, Sides DEF IInv
    <3>2. CASE Construct(t)
      BY Zenon, <3>2, ConstructStutters
    <3>3. CASE PushClaim(t)
      <4>1. val[t] \in Values
        BY Zenon, <3>3 DEF IInv, Objects, PushClaim, At
      <4> QED
        BY <3>3, <4>1, PushClaims, Zenon DEF Queue!Next
    <3>4. CASE Publish(t)
      BY <3>4, PublishFills, Zenon DEF Queue!Next
    <3> QED
      BY ZenonT(30), <2>2, <3>1, <3>2, <3>3, <3>4 DEF Push
  <2>3. ASSUME NEW t \in Consumers, Pop(t) PROVE Queue!Next \/ (Items' = Items /\ Got' = Got)
    <3>1. CASE PopStart(t) \/ PopLook(t) \/ PopRetry(t)
      BY ZenonT(30), <3>1, StepsOutside, OutsideStutters, Sides DEF IInv
    <3>2. CASE Get(t)
      BY Zenon, <3>2, GetStutters
    <3>3. CASE PopClaim(t)
      BY <3>3, PopTakes, Zenon DEF Queue!Next
    <3>4. CASE Release(t)
      BY <3>4, ReleaseReleases, Zenon DEF Queue!Next
    <3> QED
      BY ZenonT(30), <2>3, <3>1, <3>2, <3>3, <3>4 DEF Pop
  <2>4. CASE UNCHANGED vars
    <3>1. Items' = Items /\ Got' = Got
      BY Zenon, <2>4 DEF vars, Items, Got, Place, Filler, At
    <3> QED
      BY Zenon, <2>1, <3>1
  <2> QED
    BY Zenon, <2>1, <2>2, <2>3, <2>4 DEF Next
<1> QED
  BY <1>1, <1>2, ServedInvariance, PTL DEF Spec, QueueInOrder, Queue!Spec
=============================================================================
