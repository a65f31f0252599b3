--------------------------- MODULE LibraryProofs ---------------------------
(***************************************************************************)
(* Proofs about the building blocks, for any number of threads and any     *)
(* capacity: SpscRing implements the queue of module TicketQueue, and no   *)
(* wake-up of a BoundedBlockingQueue is lost.                              *)
(***************************************************************************)
EXTENDS BlockingQueue, SpscRing, Integers, FiniteSetTheorems, TLAPS

\* A positive multiple is at least one lap, a multiple that is not positive at
\* most none.
LEMMA Laps ==
  ASSUME NEW n \in Nat, n >= 1, NEW d \in Int
  PROVE  (d >= 1 => n * d >= n) /\ (d <= 0 => n * d <= 0)
BY SMT

\* What division gives.
LEMMA Quotient ==
  ASSUME NEW n \in Nat, n >= 1, NEW a \in Nat
  PROVE  a \div n \in Nat /\ a % n \in 0 .. n - 1 /\ a = n * (a \div n) + (a % n)
BY SMT

\* The remainder is the only one there is.
LEMMA Residue ==
  ASSUME NEW n \in Nat, n >= 1, NEW a \in Nat, NEW q \in Int, NEW r \in 0 .. n - 1,
         a = n * q + r
  PROVE  a % n = r
<1>1. a \div n \in Nat /\ a % n \in 0 .. n - 1 /\ a = n * (a \div n) + (a % n)
  BY Zenon, Quotient
<1> DEFINE p == a \div n
           s == a % n
           d == p - q
<1>2. p \in Int /\ s \in 0 .. n - 1 /\ a = n * p + s
  BY <1>1
<1> HIDE DEF p, s
<1>3. d \in Int
  BY <1>2
<1>4. n * d = n * p - n * q
  BY <1>2, SMT
<1>5. n * p \in Int /\ n * q \in Int
  BY <1>2, SMT
<1>6. n * d = r - s
  BY <1>2, <1>4, <1>5
<1> HIDE DEF d
<1>7. ~(d >= 1)
  BY <1>2, <1>3, <1>6, Laps
<1>8. ~(0 - d >= 1)
  <2>1. SUFFICES ASSUME 0 - d >= 1 PROVE FALSE
    BY Zenon
  <2>2. n * (0 - d) = 0 - (n * d)
    BY <1>3, SMT
  <2>3. n * (0 - d) >= n
    BY <1>3, <2>1, Laps
  <2> QED
    BY <1>2, <1>6, <2>2, <2>3
<1>9. d = 0
  BY <1>3, <1>7, <1>8
<1>10. n * d = 0
  BY <1>9, SMT
<1> QED
  BY <1>2, <1>6, <1>10 DEF s

\* The slot after the slot of an item is the slot of the next item.
LEMMA NextResidue ==
  ASSUME NEW n \in Nat, n >= 1, NEW a \in Nat
  PROVE  ((a % n) + 1) % n = (a + 1) % n
<1>1. PICK q \in Int, r \in 0 .. n - 1 : a % n = r /\ a = n * q + r
  <2>1. a \div n \in Int /\ a % n \in 0 .. n - 1 /\ a = n * (a \div n) + (a % n)
    BY Quotient
  <2> QED
    BY <2>1, Zenon
<1>2. n * q \in Int /\ n * (q + 1) = n * q + n /\ q + 1 \in Int
  BY SMT
<1>3. CASE r + 1 < n
  <2>1. a + 1 = n * q + (r + 1) /\ r + 1 \in 0 .. n - 1 /\ a + 1 \in Nat
    BY <1>1, <1>2, <1>3
  <2>2. (a + 1) % n = r + 1
    BY Zenon, <2>1, Residue
  <2>3. r + 1 = n * 0 + (r + 1) /\ r + 1 \in Nat
    BY SMT
  <2>4. (r + 1) % n = r + 1
    BY <2>1, <2>3, Residue
  <2> QED
    BY Zenon, <1>1, <2>2, <2>4
<1>4. CASE r + 1 = n
  <2>1. a + 1 = n * (q + 1) + 0 /\ 0 \in 0 .. n - 1 /\ a + 1 \in Nat
    BY <1>1, <1>2, <1>4
  <2>2. (a + 1) % n = 0
    BY Zenon, <1>2, <2>1, Residue
  <2>3. n = n * 1 + 0
    BY SMT
  <2>4. n % n = 0
    BY <2>1, <2>3, Residue
  <2> QED
    BY Zenon, <1>1, <1>4, <2>2, <2>4
<1> QED
  BY <1>3, <1>4

\* A lap later the slot is the same.
LEMMA LapResidue ==
  ASSUME NEW n \in Nat, n >= 1, NEW a \in Nat
  PROVE  (a + n) % n = a % n
<1>1. PICK q \in Int, r \in 0 .. n - 1 : a % n = r /\ a = n * q + r
  <2>1. a \div n \in Int /\ a % n \in 0 .. n - 1 /\ a = n * (a \div n) + (a % n)
    BY Quotient
  <2> QED
    BY <2>1, Zenon
<1>2. n * q \in Int /\ n * (q + 1) = n * q + n /\ q + 1 \in Int
  BY SMT
<1>3. a + n = n * (q + 1) + r /\ a + n \in Nat
  BY <1>1, <1>2
<1> QED
  BY <1>1, <1>2, <1>3, Residue

\* Items of one slot that are less than a lap apart are the same.
LEMMA SameResidue ==
  ASSUME NEW n \in Nat, n >= 1, NEW a \in Nat, NEW b \in Nat, a <= b, b - a < n, a % n = b % n
  PROVE  a = b
<1>1. PICK p \in Int, q \in Int, r \in 0 .. n - 1 : a = n * p + r /\ b = n * q + r
  <2>1. a \div n \in Int /\ a % n \in 0 .. n - 1 /\ a = n * (a \div n) + (a % n)
    BY Quotient
  <2>2. b \div n \in Int /\ b = n * (b \div n) + (a % n)
    BY Quotient
  <2> QED
    BY <2>1, <2>2, Zenon
<1>2. n * p \in Int /\ n * q \in Int /\ n * (q - p) = n * q - n * p /\ q - p \in Int
  BY SMT
<1>3. n * (q - p) = b - a
  BY <1>1, <1>2
<1>4. ~(q - p >= 1)
  BY <1>2, <1>3, Laps
<1>5. n * (q - p) <= 0
  BY <1>2, <1>4, Laps
<1> QED
  BY <1>3, <1>5
-----------------------------------------------------------------------------
\* The slot of the k-th item.
Slot(k) == k % RingSize

\* The ring's sizes are numbers.
LEMMA RingSizes == RingSize \in Nat /\ RingSize >= 2 /\ RingMask \in Nat /\ RingMask = RingSize - 1
BY RingSizeAssumption, RingCapacityAssumption DEF RingMask

\* Every item has a slot, the next one the next slot, and a lap of the ring
\* ends where it began.
LEMMA Slots ==
  ASSUME NEW k \in Nat
  PROVE  /\ Slot(k) \in 0 .. RingMask /\ RingNextOf(Slot(k)) = Slot(k + 1)
         /\ Slot(k + RingSize) = Slot(k)
<1>1. RingSize \in Nat /\ RingSize >= 1
  BY RingSizes
<1>2. Slot(k) \in 0 .. RingMask
  BY RingSizes, Quotient DEF Slot
<1>3. RingNextOf(Slot(k)) = Slot(k + 1)
  <2>1. ((k % RingSize) + 1) % RingSize = (k + 1) % RingSize
    BY Zenon, <1>1, NextResidue
  <2> QED
    BY <2>1, Zenon DEF Slot, RingNextOf
<1>4. Slot(k + RingSize) = Slot(k)
  <2>1. (k + RingSize) % RingSize = k % RingSize
    BY Zenon, <1>1, LapResidue
  <2> QED
    BY <2>1, Zenon DEF Slot
<1> QED
  BY Zenon, <1>2, <1>3, <1>4

\* Items that are in the ring together have different slots.
LEMMA OwnSlot ==
  ASSUME NEW a \in Nat, NEW b \in Nat, a <= b, b - a <= RingMask, Slot(a) = Slot(b)
  PROVE  a = b
<1>1. RingSize \in Nat /\ RingSize >= 1 /\ b - a < RingSize
  BY RingSizes
<1> QED
  BY Zenon, <1>1, SameResidue DEF Slot

RingTypes ==
  /\ stored \in [write : Nat, read : Nat, writeSeen : Nat, readSeen : Nat]
  /\ ringAt \in [producer : {"idle", "construct", "publish"},
                 consumer : {"idle", "get", "release"}]
  /\ ringSlots \in [0 .. RingMask -> Nat]

\* Every index is the slot of how often it has been stored.
RingIndices ==
  /\ writeIndex = Slot(stored.write) /\ readIndex = Slot(stored.read)
  /\ cachedRead = Slot(stored.readSeen) /\ cachedWrite = Slot(stored.writeSeen)

\* The stale copies err on the side of a full and of an empty ring.
RingBounds ==
  /\ stored.readSeen <= stored.read /\ stored.read <= stored.writeSeen
  /\ stored.writeSeen <= stored.write
  /\ stored.write - stored.readSeen <= RingMask
  /\ Pushing => stored.write - stored.readSeen < RingMask
  /\ Popping => stored.read < stored.writeSeen

\* The items between the indices are in their slots, the one that is being
\* published too, and the one that is being released is not.
RingContents ==
  /\ \A k \in stored.read .. stored.write - 1 :
       (k = stored.read /\ ringAt.consumer = "release") \/ ringSlots[Slot(k)] = k + 1
  /\ ringAt.producer = "publish" => ringSlots[Slot(stored.write)] = stored.write + 1
  /\ ringAt.consumer = "release" => taken = stored.read + 1

RingInv == RingTypes /\ RingIndices /\ RingBounds /\ RingContents

\* The ring starts empty.
LEMMA RingInitially == RingInit => RingInv
<1> SUFFICES ASSUME RingInit PROVE RingInv
  BY Zenon
<1>1. stored = [write |-> 0, read |-> 0, writeSeen |-> 0, readSeen |-> 0]
      /\ ringAt = [producer |-> "idle", consumer |-> "idle"]
  BY Zenon DEF RingInit
<1>2. RingTypes
  BY <1>1 DEF RingTypes, RingInit
<1>3. Slot(0) = 0
  BY RingSizes DEF Slot
<1>4. RingIndices
  BY <1>1, <1>3 DEF RingIndices, RingInit
<1>5. RingBounds
  BY <1>1, RingSizes DEF RingBounds, Pushing, Popping
<1>6. RingContents
  BY <1>1 DEF RingContents
<1> QED
  BY Zenon, <1>2, <1>4, <1>5, <1>6 DEF RingInv

\* The producer that finds room finds it below the lap.
LEMMA RoomIsThere ==
  ASSUME NEW w \in Nat, NEW r \in Nat, w - r <= RingMask, RingNextOf(Slot(w)) # Slot(r)
  PROVE  w - r < RingMask
<1>1. SUFFICES ASSUME w - r = RingMask PROVE FALSE
  BY RingSizes
<1>2. w + 1 = r + RingSize
  BY <1>1, RingSizes
<1>3. RingNextOf(Slot(w)) = Slot(r + RingSize)
  BY Zenon, <1>2, Slots
<1> QED
  BY Zenon, <1>3, Slots

\* The fields of what has been stored.
LEMMA StoredNumbers ==
  ASSUME RingTypes
  PROVE  /\ stored.write \in Nat /\ stored.read \in Nat
         /\ stored.writeSeen \in Nat /\ stored.readSeen \in Nat
BY Zenon DEF RingTypes

\* TryPush goes on only with a slot for the item.
LEMMA PushLookKeeps ==
  ASSUME RingInv, RingPushLook
  PROVE  RingInv'
<1>1. /\ stored.write \in Nat /\ stored.read \in Nat
      /\ stored.writeSeen \in Nat /\ stored.readSeen \in Nat /\ RingMask \in Nat
  BY Zenon, StoredNumbers, RingSizes DEF RingInv
<1>2. PICK seen \in stored.readSeen .. stored.read :
        cachedRead' = Slot(seen) /\ stored' = [stored EXCEPT !.readSeen = seen]
  <2>1. CASE HasRoom(cachedRead)
    <3>1. UNCHANGED <<cachedRead, stored>>
      BY Zenon, <2>1 DEF RingPushLook
    <3>2. stored = [stored EXCEPT !.readSeen = stored.readSeen]
      BY Zenon DEF RingInv, RingTypes
    <3>3. cachedRead = Slot(stored.readSeen) /\ stored.readSeen \in stored.readSeen .. stored.read
      BY <1>1 DEF RingInv, RingIndices, RingBounds
    <3> QED
      BY Zenon, <3>1, <3>2, <3>3
  <2>2. CASE ~HasRoom(cachedRead)
    BY Zenon, <2>2 DEF RingPushLook, Slot
  <2> QED
    BY Zenon, <2>1, <2>2
<1>3. /\ stored'.write = stored.write /\ stored'.read = stored.read
      /\ stored'.writeSeen = stored.writeSeen /\ stored'.readSeen = seen
      /\ stored' \in [write : Nat, read : Nat, writeSeen : Nat, readSeen : Nat]
  BY <1>1, <1>2 DEF RingInv, RingTypes
<1>4. /\ ringAt' = [ringAt EXCEPT !.producer = IF HasRoom(cachedRead') THEN "construct" ELSE "idle"]
      /\ UNCHANGED <<ringSlots, writeIndex, readIndex, cachedWrite, taken>>
      /\ ringAt.producer = "idle"
  BY Zenon DEF RingPushLook
<1>5. /\ ringAt'.consumer = ringAt.consumer
      /\ ringAt'.producer = IF HasRoom(cachedRead') THEN "construct" ELSE "idle"
      /\ ringAt' \in [producer : {"idle", "construct", "publish"},
                      consumer : {"idle", "get", "release"}]
  BY Zenon, <1>4 DEF RingInv, RingTypes
<1>6. RingTypes'
  BY Zenon, <1>3, <1>4, <1>5 DEF RingInv, RingTypes
<1>7. RingIndices'
  BY Zenon, <1>2, <1>3, <1>4 DEF RingInv, RingIndices
<1>8. stored.write - seen <= RingMask /\ seen \in Nat /\ seen <= stored.read
  BY <1>1 DEF RingInv, RingBounds
<1>9. HasRoom(cachedRead') => stored.write - seen < RingMask
  BY Zenon, <1>1, <1>2, <1>8, RoomIsThere DEF HasRoom, RingInv, RingIndices
<1>10. RingBounds'
  BY Zenon, <1>3, <1>5, <1>8, <1>9 DEF RingInv, RingBounds, Pushing, Popping
<1>11. RingContents'
  BY Zenon, <1>3, <1>4, <1>5 DEF RingInv, RingContents
<1> QED
  BY Zenon, <1>6, <1>7, <1>10, <1>11 DEF RingInv

\* The constructor runs in a slot no item of the ring has.
LEMMA ConstructKeeps ==
  ASSUME RingInv, RingConstruct
  PROVE  RingInv'
<1>1. /\ stored.write \in Nat /\ stored.read \in Nat
      /\ stored.writeSeen \in Nat /\ stored.readSeen \in Nat /\ RingMask \in Nat
  BY Zenon, StoredNumbers, RingSizes DEF RingInv
<1>2. /\ UNCHANGED <<writeIndex, readIndex, cachedRead, cachedWrite, taken, stored>>
      /\ ringAt.producer = "construct" /\ ringAt' = [ringAt EXCEPT !.producer = "publish"]
      /\ ringSlots' = [ringSlots EXCEPT ![Slot(stored.write)] = stored.write + 1]
  BY Zenon DEF RingConstruct, RingInv, RingIndices
<1>3. /\ ringAt'.consumer = ringAt.consumer /\ ringAt'.producer = "publish"
      /\ ringAt' \in [producer : {"idle", "construct", "publish"},
                      consumer : {"idle", "get", "release"}]
  BY Zenon, <1>2 DEF RingInv, RingTypes
<1>4. Slot(stored.write) \in 0 .. RingMask
  BY Zenon, <1>1, Slots
<1>5. /\ ringSlots' \in [0 .. RingMask -> Nat]
      /\ ringSlots'[Slot(stored.write)] = stored.write + 1
      /\ \A i \in 0 .. RingMask : i # Slot(stored.write) => ringSlots'[i] = ringSlots[i]
  <2>1. stored.write + 1 \in Nat /\ ringSlots \in [0 .. RingMask -> Nat]
    BY <1>1 DEF RingInv, RingTypes
  <2> QED
    BY <1>2, <1>4, <2>1, Zenon
<1>6. RingTypes'
  BY Zenon, <1>2, <1>3, <1>5 DEF RingInv, RingTypes
<1>7. RingIndices'
  BY Zenon, <1>2 DEF RingInv, RingIndices
<1>8. RingBounds'
  BY Zenon, <1>2, <1>3 DEF RingInv, RingBounds, Pushing, Popping
<1>9. \A k \in stored.read .. stored.write - 1 :
        Slot(k) \in 0 .. RingMask /\ Slot(k) # Slot(stored.write)
  <2> TAKE k \in stored.read .. stored.write - 1
  <2>1. k \in Nat /\ k <= stored.write /\ k # stored.write /\ stored.write - k <= RingMask
    BY <1>1 DEF RingInv, RingBounds
  <2> QED
    BY Zenon, <1>1, <2>1, Slots, OwnSlot
<1>10. RingContents'
  BY Zenon, <1>2, <1>3, <1>5, <1>9 DEF RingInv, RingContents
<1> QED
  BY Zenon, <1>6, <1>7, <1>8, <1>10 DEF RingInv

\* The release store makes the constructed item the last of the ring.
LEMMA PublishKeeps ==
  ASSUME RingInv, RingPublish
  PROVE  RingInv'
<1>1. /\ stored.write \in Nat /\ stored.read \in Nat
      /\ stored.writeSeen \in Nat /\ stored.readSeen \in Nat /\ RingMask \in Nat
  BY Zenon, StoredNumbers, RingSizes DEF RingInv
<1>2. /\ UNCHANGED <<ringSlots, readIndex, cachedRead, cachedWrite, taken>>
      /\ ringAt.producer = "publish" /\ ringAt' = [ringAt EXCEPT !.producer = "idle"]
      /\ stored' = [stored EXCEPT !.write = @ + 1] /\ writeIndex' = RingNextOf(Slot(stored.write))
  BY Zenon DEF RingPublish, RingInv, RingIndices
<1>3. /\ ringAt'.consumer = ringAt.consumer /\ ringAt'.producer = "idle"
      /\ ringAt' \in [producer : {"idle", "construct", "publish"},
                      consumer : {"idle", "get", "release"}]
  BY Zenon, <1>2 DEF RingInv, RingTypes
<1>4. /\ stored'.write = stored.write + 1 /\ stored'.read = stored.read
      /\ stored'.writeSeen = stored.writeSeen /\ stored'.readSeen = stored.readSeen
      /\ stored' \in [write : Nat, read : Nat, writeSeen : Nat, readSeen : Nat]
  BY SMTT(30), <1>1, <1>2 DEF RingInv, RingTypes
<1>5. RingTypes'
  BY Zenon, <1>2, <1>3, <1>4 DEF RingInv, RingTypes
<1>6. writeIndex' = Slot(stored.write + 1)
  BY Zenon, <1>1, <1>2, Slots
<1>7. RingIndices'
  BY Zenon, <1>2, <1>4, <1>6 DEF RingInv, RingIndices
<1>8. RingBounds'
  BY <1>1, <1>2, <1>3, <1>4 DEF RingInv, RingBounds, Pushing, Popping
<1>9. \A k \in stored.read .. stored.write :
        k \in stored.read .. stored.write - 1 \/ k = stored.write
  BY <1>1
<1>10. \A k \in stored'.read .. stored'.write - 1 : k \in stored.read .. stored.write
  BY <1>1, <1>4
<1>11. RingContents'
  BY Zenon, <1>2, <1>3, <1>4, <1>9, <1>10 DEF RingInv, RingContents
<1> QED
  BY Zenon, <1>5, <1>7, <1>8, <1>11 DEF RingInv

\* TryPop goes on only with an item.
LEMMA PopLookKeeps ==
  ASSUME RingInv, RingPopLook
  PROVE  RingInv'
<1>1. /\ stored.write \in Nat /\ stored.read \in Nat
      /\ stored.writeSeen \in Nat /\ stored.readSeen \in Nat /\ RingMask \in Nat
  BY Zenon, StoredNumbers, RingSizes DEF RingInv
<1>2. PICK seen \in stored.writeSeen .. stored.write :
        cachedWrite' = Slot(seen) /\ stored' = [stored EXCEPT !.writeSeen = seen]
  <2>1. CASE readIndex # cachedWrite
    <3>1. UNCHANGED <<cachedWrite, stored>>
      BY Zenon, <2>1 DEF RingPopLook
    <3>2. stored = [stored EXCEPT !.writeSeen = stored.writeSeen]
      BY Zenon DEF RingInv, RingTypes
    <3>3. cachedWrite = Slot(stored.writeSeen) /\ stored.writeSeen \in stored.writeSeen .. stored.write
      BY <1>1 DEF RingInv, RingIndices, RingBounds
    <3> QED
      BY Zenon, <3>1, <3>2, <3>3
  <2>2. CASE readIndex = cachedWrite
    BY Zenon, <2>2 DEF RingPopLook, Slot
  <2> QED
    BY Zenon, <2>1, <2>2
<1>3. /\ stored'.write = stored.write /\ stored'.read = stored.read
      /\ stored'.writeSeen = seen /\ stored'.readSeen = stored.readSeen
      /\ stored' \in [write : Nat, read : Nat, writeSeen : Nat, readSeen : Nat]
  BY <1>1, <1>2 DEF RingInv, RingTypes
<1>4. /\ ringAt' = [ringAt EXCEPT !.consumer = IF readIndex = cachedWrite' THEN "idle" ELSE "get"]
      /\ UNCHANGED <<ringSlots, writeIndex, readIndex, cachedRead, taken>>
      /\ ringAt.consumer = "idle"
  BY Zenon DEF RingPopLook
<1>5. /\ ringAt'.producer = ringAt.producer
      /\ ringAt'.consumer = IF readIndex = cachedWrite' THEN "idle" ELSE "get"
      /\ ringAt' \in [producer : {"idle", "construct", "publish"},
                      consumer : {"idle", "get", "release"}]
  BY Zenon, <1>4 DEF RingInv, RingTypes
<1>6. RingTypes'
  BY Zenon, <1>3, <1>4, <1>5 DEF RingInv, RingTypes
<1>7. RingIndices'
  BY Zenon, <1>2, <1>3, <1>4 DEF RingInv, RingIndices
<1>8. seen \in Nat /\ stored.read <= seen /\ seen <= stored.write
  BY <1>1 DEF RingInv, RingBounds
<1>9. readIndex # cachedWrite' => stored.read < seen
  BY <1>1, <1>2, <1>8 DEF RingInv, RingIndices
<1>10. RingBounds'
  BY Zenon, <1>3, <1>5, <1>8, <1>9 DEF RingInv, RingBounds, Pushing, Popping
<1>11. RingContents'
  BY ZenonT(30), <1>3, <1>4, <1>5 DEF RingInv, RingContents
<1> QED
  BY Zenon, <1>6, <1>7, <1>10, <1>11 DEF RingInv

\* The item that is moved out is the oldest one.
LEMMA GetKeeps ==
  ASSUME RingInv, RingGet
  PROVE  RingInv'
<1>1. /\ stored.write \in Nat /\ stored.read \in Nat
      /\ stored.writeSeen \in Nat /\ stored.readSeen \in Nat /\ RingMask \in Nat
  BY Zenon, StoredNumbers, RingSizes DEF RingInv
<1>2. /\ UNCHANGED <<writeIndex, readIndex, cachedRead, cachedWrite, stored>>
      /\ ringAt.consumer = "get" /\ ringAt' = [ringAt EXCEPT !.consumer = "release"]
      /\ ringSlots' = [ringSlots EXCEPT ![Slot(stored.read)] = 0]
      /\ taken' = ringSlots[Slot(stored.read)]
  BY Zenon DEF RingGet, RingInv, RingIndices
<1>3. /\ ringAt'.consumer = "release" /\ ringAt'.producer = ringAt.producer
      /\ ringAt' \in [producer : {"idle", "construct", "publish"},
                      consumer : {"idle", "get", "release"}]
  BY Zenon, <1>2 DEF RingInv, RingTypes
<1>4. Slot(stored.read) \in 0 .. RingMask
  BY Zenon, <1>1, Slots
<1>5. /\ ringSlots' \in [0 .. RingMask -> Nat]
      /\ \A i \in 0 .. RingMask : i # Slot(stored.read) => ringSlots'[i] = ringSlots[i]
  <2>1. 0 \in Nat /\ ringSlots \in [0 .. RingMask -> Nat]
    BY Zenon DEF RingInv, RingTypes
  <2> QED
    BY <1>2, <1>4, <2>1, Zenon
<1>6. RingTypes'
  BY Zenon, <1>2, <1>3, <1>5 DEF RingInv, RingTypes
<1>7. RingIndices'
  BY Zenon, <1>2 DEF RingInv, RingIndices
<1>8. RingBounds'
  BY Zenon, <1>2, <1>3 DEF RingInv, RingBounds, Pushing, Popping
<1>9. stored.read \in stored.read .. stored.write - 1 /\ taken' = stored.read + 1
  <2>1. stored.read < stored.write
    BY <1>1, <1>2 DEF RingInv, RingBounds, Popping
  <2>2. stored.read \in stored.read .. stored.write - 1
    BY <1>1, <2>1
  <2> QED
    BY Zenon, <1>2, <2>2 DEF RingInv, RingContents
<1>10. \A k \in stored.read .. stored.write :
         k # stored.read => Slot(k) \in 0 .. RingMask /\ Slot(k) # Slot(stored.read)
  <2> TAKE k \in stored.read .. stored.write
  <2>1. k \in Nat /\ stored.read <= k /\ k - stored.read <= RingMask
    BY <1>1 DEF RingInv, RingBounds
  <2> QED
    BY ZenonT(30), <1>1, <2>1, Slots, OwnSlot
<1>11. RingContents'
  <2>1. ASSUME NEW k \in stored.read .. stored.write - 1, k # stored.read
        PROVE  ringSlots'[Slot(k)] = k + 1
    <3>1. k \in stored.read .. stored.write
      BY <1>1
    <3> QED
      BY Zenon, <1>5, <1>10, <2>1, <3>1 DEF RingInv, RingContents
  <2>2. ringAt.producer = "publish" => ringSlots'[Slot(stored.write)] = stored.write + 1
    <3>1. stored.write \in stored.read .. stored.write /\ stored.write # stored.read
      BY SMTT(30), <1>1, <1>9
    <3> QED
      BY Zenon, <1>5, <1>10, <3>1 DEF RingInv, RingContents
  <2> QED
    BY Zenon, <1>2, <1>3, <1>9, <2>1, <2>2 DEF RingContents
<1> QED
  BY Zenon, <1>6, <1>7, <1>8, <1>11 DEF RingInv

\* The store of the read index gives up the slot of the oldest item.
LEMMA ReleaseKeeps ==
  ASSUME RingInv, RingRelease
  PROVE  RingInv'
<1>1. /\ stored.write \in Nat /\ stored.read \in Nat
      /\ stored.writeSeen \in Nat /\ stored.readSeen \in Nat /\ RingMask \in Nat
  BY Zenon, StoredNumbers, RingSizes DEF RingInv
<1>2. /\ UNCHANGED <<ringSlots, writeIndex, cachedRead, cachedWrite>>
      /\ ringAt.consumer = "release" /\ ringAt' = [ringAt EXCEPT !.consumer = "idle"]
      /\ stored' = [stored EXCEPT !.read = @ + 1] /\ readIndex' = RingNextOf(Slot(stored.read))
  BY Zenon DEF RingRelease, RingInv, RingIndices
<1>3. /\ ringAt'.producer = ringAt.producer /\ ringAt'.consumer = "idle"
      /\ ringAt' \in [producer : {"idle", "construct", "publish"},
                      consumer : {"idle", "get", "release"}]
  BY Zenon, <1>2 DEF RingInv, RingTypes
<1>4. /\ stored'.write = stored.write /\ stored'.read = stored.read + 1
      /\ stored'.writeSeen = stored.writeSeen /\ stored'.readSeen = stored.readSeen
      /\ stored' \in [write : Nat, read : Nat, writeSeen : Nat, readSeen : Nat]
  BY SMTT(30), <1>1, <1>2 DEF RingInv, RingTypes
<1>5. RingTypes'
  BY Zenon, <1>2, <1>3, <1>4 DEF RingInv, RingTypes
<1>6. readIndex' = Slot(stored.read + 1)
  BY Zenon, <1>1, <1>2, Slots
<1>7. RingIndices'
  BY Zenon, <1>2, <1>4, <1>6 DEF RingInv, RingIndices
<1>8. RingBounds'
  BY <1>1, <1>2, <1>3, <1>4 DEF RingInv, RingBounds, Pushing, Popping
<1>9. \A k \in stored'.read .. stored'.write - 1 :
        k \in stored.read .. stored.write - 1 /\ k # stored.read
  BY <1>1, <1>4
<1>10. RingContents'
  BY Zenon, <1>2, <1>3, <1>4, <1>9 DEF RingInv, RingContents
<1> QED
  BY Zenon, <1>5, <1>7, <1>8, <1>10 DEF RingInv

\* Every step of the ring keeps its invariant.
LEMMA RingKeeps == RingInv /\ [RingNext]_ringVars => RingInv'
<1> SUFFICES ASSUME RingInv, [RingNext]_ringVars PROVE RingInv'
  BY Zenon
<1>1. CASE UNCHANGED ringVars
  BY Zenon, <1>1 DEF ringVars, RingInv, RingTypes, RingIndices, RingBounds, RingContents, Pushing, Popping
<1> QED
  BY ZenonT(30), <1>1, PushLookKeeps, ConstructKeeps, PublishKeeps, PopLookKeeps, GetKeeps, ReleaseKeeps
     DEF RingNext
-----------------------------------------------------------------------------
\* What the consumer has taken is the oldest item.
LEMMA GotIs ==
  ASSUME RingInv
  PROVE  RingGot = [c \in {2} |-> IF Popping THEN stored.read + 1 ELSE 0]
<1>1. ringAt.consumer \in {"idle", "get", "release"}
  BY Zenon DEF RingInv, RingTypes
<1>2. ringAt.consumer = "get" => ringSlots[readIndex] = stored.read + 1
  <2>1. SUFFICES ASSUME ringAt.consumer = "get" PROVE ringSlots[readIndex] = stored.read + 1
    BY Zenon
  <2>2. stored.read \in stored.read .. stored.write - 1
    BY <2>1, StoredNumbers DEF RingInv, RingBounds, Popping
  <2> QED
    BY Zenon, <2>1, <2>2 DEF RingInv, RingIndices, RingContents
<1>3. ringAt.consumer = "release" => taken = stored.read + 1
  BY Zenon DEF RingInv, RingContents
<1>4. (CASE ringAt.consumer = "get" -> ringSlots[readIndex]
         [] ringAt.consumer = "release" -> taken
         [] OTHER -> 0) = IF Popping THEN stored.read + 1 ELSE 0
  BY Zenon, <1>1, <1>2, <1>3 DEF Popping
<1> QED
  BY Zenon, <1>4 DEF RingGot

\* The ring's items, by number.
LEMMA ItemsAre ==
  ASSUME RingInv
  PROVE  /\ RingFirst \in Nat /\ RingLast \in Nat /\ RingLast - RingFirst + 1 \in Nat
         /\ RingFirst = stored.read + (IF Popping THEN 2 ELSE 1)
         /\ RingLast = stored.write + (IF Pushing THEN 1 ELSE 0)
         /\ Len(RingItems) = RingLast - RingFirst + 1
         /\ DOMAIN RingItems = 1 .. RingLast - RingFirst + 1
<1>1. RingFirst \in Nat /\ RingLast \in Nat /\ RingLast - RingFirst + 1 \in Nat
  BY StoredNumbers DEF RingInv, RingBounds, RingFirst, RingLast
<1>2. DOMAIN RingItems = 1 .. RingLast - RingFirst + 1
  BY Zenon DEF RingItems
<1>3. Len(RingItems) = RingLast - RingFirst + 1
  BY <1>1 DEF RingItems
<1> QED
  BY Zenon, <1>1, <1>2, <1>3 DEF RingFirst, RingLast

\* A step that moves neither end leaves the items and what is taken.
LEMMA SameEnds ==
  ASSUME RingInv, RingInv', stored'.read = stored.read, stored'.write = stored.write,
         Popping' <=> Popping, Pushing' <=> Pushing
  PROVE  RingItems' = RingItems /\ RingGot' = RingGot
<1>1. RingFirst' = RingFirst /\ RingLast' = RingLast
  BY Zenon DEF RingFirst, RingLast
<1>2. RingItems' = RingItems
  BY Zenon, <1>1 DEF RingItems
<1>3. RingGot' = [c \in {2} |-> IF Popping' THEN stored'.read + 1 ELSE 0]
  <2>1. (RingGot = [c \in {2} |-> IF Popping THEN stored.read + 1 ELSE 0])'
    BY GotIs, PTL
  <2> QED
    BY Zenon, <2>1
<1> QED
  BY Zenon, <1>2, <1>3, GotIs
-----------------------------------------------------------------------------
\* The place of the k-th item, and of the items from f to l, when w have been
\* published.
Spot(k, w) == [value |-> k, by |-> IF k > w THEN 1 ELSE 0]
Places(f, l, w) == [i \in 1 .. l - f + 1 |-> Spot(f + i - 1, w)]

Spots == [value : Int, by : {0, 1}]

\* Sequences of one length with the same items are the same.
LEMMA SameSequence ==
  ASSUME NEW S, NEW p \in Seq(S), NEW q \in Seq(S), NEW n \in Nat,
         Len(p) = n, Len(q) = n, \A i \in 1 .. n : p[i] = q[i]
  PROVE  p = q
<1>1. p \in [1 .. n -> S] /\ q \in [1 .. n -> S]
  OBVIOUS
<1>2. p = [i \in 1 .. n |-> p[i]] /\ q = [i \in 1 .. n |-> q[i]]
  BY <1>1, Zenon
<1> QED
  BY <1>2, Zenon

\* The places are a sequence.
LEMMA PlacesShape ==
  ASSUME NEW f \in Nat, NEW l \in Nat, NEW w \in Nat, NEW n \in Nat, l - f + 1 = n
  PROVE  /\ Places(f, l, w) \in Seq(Spots) /\ Len(Places(f, l, w)) = n
         /\ \A i \in 1 .. n : Places(f, l, w)[i] = Spot(f + i - 1, w)
<1>1. \A k \in Int : Spot(k, w) \in Spots
  BY Zenon DEF Spots, Spot
<1>2. \A i \in 1 .. n : f + i - 1 \in Int
  OBVIOUS
<1>3. Places(f, l, w) = [i \in 1 .. n |-> Spot(f + i - 1, w)]
  BY Zenon DEF Places
<1>4. Places(f, l, w) \in [1 .. n -> Spots]
  BY <1>1, <1>2, <1>3, Zenon
<1>5. Places(f, l, w) \in Seq(Spots) /\ Len(Places(f, l, w)) = n
  BY <1>4
<1>6. \A i \in 1 .. n : Places(f, l, w)[i] = Spot(f + i - 1, w)
  BY <1>3, Zenon
<1> QED
  BY Zenon, <1>5, <1>6

\* A push that claims a slot appends a place.
LEMMA PlacesGrow ==
  ASSUME NEW f \in Nat, NEW w \in Nat, f <= w + 1
  PROVE  Places(f, w + 1, w) = Append(Places(f, w, w), [value |-> w + 1, by |-> 1])
<1> DEFINE p == Places(f, w, w)
           q == Places(f, w + 1, w)
           n == w - f + 1
           e == [value |-> w + 1, by |-> 1]
<1>1. n \in Nat /\ n + 1 \in Nat /\ w + 1 \in Nat /\ (w + 1) - f + 1 = n + 1
  OBVIOUS
<1>2. n = w - f + 1
  BY Zenon
<1>3. Spot(f + (n + 1) - 1, w) = e
  <2>1. f + (n + 1) - 1 = w + 1 /\ w + 1 > w
    OBVIOUS
  <2> QED
    BY <2>1, Zenon DEF Spot
<1>4. e \in Spots
  BY DEF Spots
<1> HIDE DEF n, e
<1>5. /\ p \in Seq(Spots) /\ Len(p) = n
      /\ \A i \in 1 .. n : p[i] = Spot(f + i - 1, w)
  <2>1. n \in Nat /\ w - f + 1 = n
    BY Zenon, <1>1, <1>2
  <2>2. p \in Seq(Spots) /\ Len(p) = n
    BY <2>1, PlacesShape, Zenon
  <2>3. \A i \in 1 .. n : p[i] = Spot(f + i - 1, w)
    BY <2>1, Zenon DEF Places
  <2> QED
    BY ZenonT(30), <2>2, <2>3
<1>6. /\ q \in Seq(Spots) /\ Len(q) = n + 1
      /\ \A i \in 1 .. n + 1 : q[i] = Spot(f + i - 1, w)
  <2>1. PICK l \in Nat : l = w + 1
    BY Zenon, <1>1
  <2>2. PICK m \in Nat : m = n + 1
    BY Zenon, <1>1
  <2>3. l - f + 1 = m
    BY ZenonT(30), <1>1, <2>1, <2>2
  <2>4. Places(f, l, w) \in Seq(Spots) /\ Len(Places(f, l, w)) = m
    BY <2>3, PlacesShape, Zenon
  <2>5. \A i \in 1 .. m : Places(f, l, w)[i] = Spot(f + i - 1, w)
    BY <2>3, Zenon DEF Places
  <2> QED
    BY <2>1, <2>2, <2>4, <2>5, Zenon
<1> HIDE DEF p, q
<1>7. n + 1 \in 1 .. n + 1 /\ \A i \in 1 .. n : i \in 1 .. n + 1
  BY <1>1
<1>8. q[n + 1] = e /\ \A i \in 1 .. n : q[i] = p[i]
  BY <1>3, <1>5, <1>6, <1>7, ZenonT(30)
<1>9. Append(p, e) \in Seq(Spots) /\ Len(Append(p, e)) = n + 1
  BY <1>4, <1>5
<1>10. \A i \in 1 .. n + 1 : q[i] = Append(p, e)[i]
  BY SMTT(30), <1>1, <1>5, <1>8
<1>11. q = Append(p, e)
  BY SMTT(30), <1>1, <1>6, <1>9, <1>10, SameSequence
<1> QED
  BY Zenon, <1>11 DEF p, q, e

\* A push that is published makes its place ready.
LEMMA PlacesFill ==
  ASSUME NEW f \in Nat, NEW w \in Nat, f <= w + 1, NEW n, n = (w + 1) - f + 1
  PROVE  /\ n \in DOMAIN Places(f, w + 1, w) /\ Places(f, w + 1, w)[n].by = 1
         /\ Places(f, w + 1, w + 1) = [Places(f, w + 1, w) EXCEPT ![n].by = 0]
<1> DEFINE p == Places(f, w + 1, w)
           q == Places(f, w + 1, w + 1)
<1>1. w + 1 \in Nat /\ n \in Nat /\ n \in 1 .. n /\ (w + 1) - f + 1 = n
  OBVIOUS
<1>2. /\ p \in Seq(Spots) /\ Len(p) = n
      /\ \A i \in 1 .. n : p[i] = Spot(f + i - 1, w)
  <2>1. PICK l \in Nat : l = w + 1
    BY Zenon, <1>1
  <2>2. l - f + 1 = n
    BY Zenon, <1>1, <2>1
  <2>3. n \in Nat
    BY Zenon, <1>1
  <2>4. Places(f, l, w) \in Seq(Spots) /\ Len(Places(f, l, w)) = n
    BY <2>2, <2>3, PlacesShape, ZenonT(30)
  <2>5. \A i \in 1 .. n : Places(f, l, w)[i] = Spot(f + i - 1, w)
    BY <2>2, Zenon DEF Places
  <2> QED
    BY <2>1, <2>4, <2>5, ZenonT(30)
<1>3. /\ q \in Seq(Spots) /\ Len(q) = n
      /\ \A i \in 1 .. n : q[i] = Spot(f + i - 1, w + 1)
  <2>1. PICK l \in Nat : l = w + 1
    BY Zenon, <1>1
  <2>2. l - f + 1 = n /\ n \in Nat
    BY Zenon, <1>1, <2>1
  <2>3. Places(f, l, l) \in Seq(Spots) /\ Len(Places(f, l, l)) = n
    BY <2>2, PlacesShape, Zenon
  <2>4. \A i \in 1 .. n : Places(f, l, l)[i] = Spot(f + i - 1, l)
    BY <2>2, Zenon DEF Places
  <2> QED
    BY <2>1, <2>3, <2>4, ZenonT(30)
<1>4. /\ f + n - 1 = w + 1 /\ w + 1 > w /\ ~(w + 1 > w + 1)
      /\ \A i \in 1 .. n : i # n => ~(f + i - 1 > w) /\ ~(f + i - 1 > w + 1)
  OBVIOUS
<1> HIDE DEF p, q
<1>5. p[n] = [value |-> w + 1, by |-> 1] /\ q[n] = [value |-> w + 1, by |-> 0]
  BY <1>1, <1>2, <1>3, <1>4, ZenonT(30) DEF Spot
<1>6. \A i \in 1 .. n : i # n => q[i] = p[i]
  BY <1>2, <1>3, <1>4, ZenonT(30) DEF Spot
<1>7. p \in [1 .. n -> Spots] /\ q \in [1 .. n -> Spots]
  BY SMTT(30), <1>1, <1>2, <1>3
<1>8. [p[n] EXCEPT !.by = 0] = [value |-> w + 1, by |-> 0]
  BY <1>5
<1>9. q = [p EXCEPT ![n] = [p[n] EXCEPT !.by = 0]]
  BY ZenonT(30), <1>1, <1>5, <1>6, <1>7, <1>8
<1>10. n \in DOMAIN p /\ p[n].by = 1
  BY <1>1, <1>5, <1>7
<1> QED
  BY Zenon, <1>9, <1>10 DEF p, q

\* A pop takes the first place.
LEMMA PlacesShrink ==
  ASSUME NEW f \in Nat, NEW l \in Nat, NEW w \in Nat, f <= l, f <= w
  PROVE  /\ Places(f, l, w) # <<>> /\ Head(Places(f, l, w)) = [value |-> f, by |-> 0]
         /\ Places(f + 1, l, w) = Tail(Places(f, l, w))
<1> DEFINE p == Places(f, l, w)
           q == Places(f + 1, l, w)
           n == l - f
<1>1. /\ n \in Nat /\ n + 1 \in Nat /\ l - f + 1 = n + 1 /\ 1 \in 1 .. n + 1
      /\ f + 1 \in Nat /\ l - (f + 1) + 1 = n
  OBVIOUS
<1>2. \A i \in 1 .. n : i + 1 \in 1 .. n + 1 /\ f + (i + 1) - 1 = (f + 1) + i - 1
  OBVIOUS
<1>3. Spot(f + 1 - 1, w) = [value |-> f, by |-> 0]
  <2>1. f + 1 - 1 = f /\ ~(f > w)
    OBVIOUS
  <2> QED
    BY <2>1, Zenon DEF Spot
<1> HIDE DEF n
<1>4. /\ p \in Seq(Spots) /\ Len(p) = n + 1
      /\ \A i \in 1 .. n + 1 : p[i] = Spot(f + i - 1, w)
  BY <1>1, PlacesShape
<1>5. /\ q \in Seq(Spots) /\ Len(q) = n
      /\ \A i \in 1 .. n : q[i] = Spot((f + 1) + i - 1, w)
  BY <1>1, PlacesShape
<1> HIDE DEF p, q
<1>6. p[1] = [value |-> f, by |-> 0]
  BY <1>1, <1>3, <1>4, Zenon
<1>7. \A i \in 1 .. n : q[i] = p[i + 1]
  BY <1>2, <1>4, <1>5, Zenon
<1>8. Tail(p) \in Seq(Spots) /\ Len(Tail(p)) = n /\ \A i \in 1 .. n : Tail(p)[i] = p[i + 1]
  BY <1>1, <1>4
<1>9. \A i \in 1 .. n : q[i] = Tail(p)[i]
  BY Zenon, <1>7, <1>8
<1>10. q = Tail(p)
  BY <1>1, <1>5, <1>8, <1>9, SameSequence
<1>11. p # <<>> /\ Head(p) = p[1]
  BY <1>1, <1>4
<1> QED
  BY Zenon, <1>6, <1>10, <1>11 DEF p, q
-----------------------------------------------------------------------------
\* The items of the ring are the places between its ends.
LEMMA ItemsPlaces == RingItems = Places(RingFirst, RingLast, stored.write)
BY Zenon DEF RingItems, Places, Spot

\* The abstract queue counts as this module does.
LEMMA SameCount == \A S : Ring!Cardinality(S) = Cardinality(S)
BY Zenon DEF Ring!Cardinality, Cardinality

\* The slots the consumer holds.
LEMMA RingHolding ==
  ASSUME RingInv
  PROVE  Cardinality({c \in {2} : RingGot[c] # 0}) = IF Popping THEN 1 ELSE 0
<1>1. \A c \in {2} : RingGot[c] = IF Popping THEN stored.read + 1 ELSE 0
  BY Zenon, GotIs
<1>2. stored.read + 1 # 0
  BY StoredNumbers DEF RingInv
<1>3. CASE Popping
  <2>1. {c \in {2} : RingGot[c] # 0} = {2}
    BY Zenon, <1>1, <1>2, <1>3
  <2> QED
    BY Zenon, <1>3, <2>1, FS_Singleton
<1>4. CASE ~Popping
  <2>1. {c \in {2} : RingGot[c] # 0} = {}
    BY Zenon, <1>1, <1>4
  <2> QED
    BY Zenon, <1>4, <2>1, FS_EmptySet
<1> QED
  BY Zenon, <1>3, <1>4

\* TryPush claims the next place when it goes on, and nothing otherwise.
LEMMA PushLookClaims ==
  ASSUME RingInv, RingInv', RingPushLook
  PROVE  Ring!Claim(1, stored.write + 1) \/ (RingItems' = RingItems /\ RingGot' = RingGot)
<1> DEFINE w == stored.write
<1>1. /\ ringAt' = [ringAt EXCEPT !.producer = IF HasRoom(cachedRead') THEN "construct" ELSE "idle"]
      /\ ringAt.producer = "idle" /\ stored'.write = w /\ stored'.read = stored.read
  BY Zenon DEF RingPushLook, RingInv, RingTypes
<1>2. /\ Popping' <=> Popping
      /\ ~Pushing
      /\ Pushing' <=> HasRoom(cachedRead')
  BY Zenon, <1>1 DEF Popping, Pushing, RingInv, RingTypes
<1>3. CASE ~HasRoom(cachedRead')
  BY Zenon, <1>1, <1>2, <1>3, SameEnds
<1>4. CASE HasRoom(cachedRead')
  <2>1. /\ w \in Nat /\ RingFirst \in Nat /\ RingFirst <= w + 1
        /\ RingLast = w /\ RingLast' = w + 1 /\ RingFirst' = RingFirst
        /\ Len(RingItems) = w - RingFirst + 1 /\ DOMAIN RingItems = 1 .. w - RingFirst + 1
    <3>1. /\ RingFirst \in Nat /\ RingLast - RingFirst + 1 \in Nat
          /\ Len(RingItems) = RingLast - RingFirst + 1
          /\ DOMAIN RingItems = 1 .. RingLast - RingFirst + 1
      BY Zenon, ItemsAre
    <3>2. RingLast = w /\ RingLast' = w + 1 /\ RingFirst' = RingFirst /\ w \in Nat
      BY <1>1, <1>2, <1>4, StoredNumbers DEF RingLast, RingFirst, RingInv
    <3> QED
      BY <3>1, <3>2
  <2>2. RingItems' = Append(RingItems, [value |-> w + 1, by |-> 1])
    <3>1. RingItems = Places(RingFirst, w, w)
      BY <2>1, ItemsPlaces, Zenon
    <3>2. (RingItems = Places(RingFirst, RingLast, stored.write))'
      BY ItemsPlaces, PTL
    <3>3. RingItems' = Places(RingFirst, w + 1, w)
      BY <1>1, <2>1, <3>2, Zenon
    <3> QED
      BY Zenon, <2>1, <3>1, <3>3, PlacesGrow
  <2>3. RingGot' = RingGot
    <3>1. (RingGot = [c \in {2} |-> IF Popping THEN stored.read + 1 ELSE 0])'
      BY GotIs, PTL
    <3> QED
      BY Zenon, <1>1, <1>2, <3>1, GotIs
  <2>4. {i \in DOMAIN RingItems : RingItems[i].by = 1} = {}
    <3>1. \A i \in 1 .. w - RingFirst + 1 : RingItems[i] = Spot(RingFirst + i - 1, w)
      BY <2>1, ItemsPlaces, Zenon DEF Places
    <3>2. \A i \in 1 .. w - RingFirst + 1 : ~(RingFirst + i - 1 > w)
      BY <2>1
    <3>3. \A i \in 1 .. w - RingFirst + 1 : RingItems[i].by = 0
      <4>1. ASSUME NEW k, ~(k > w) PROVE Spot(k, w).by = 0
        BY Zenon, <4>1 DEF Spot
      <4> QED
        BY Zenon, <3>1, <3>2, <4>1
    <3> QED
      BY <2>1, <3>3
  <2>5. Len(RingItems) + Cardinality({c \in {2} : RingGot[c] # 0}) < RingMask
    <3>1. w - stored.read < RingMask
      <4>1. w - stored'.readSeen < RingMask /\ stored'.readSeen <= stored.read
        BY Zenon, <1>1, <1>2, <1>4 DEF RingInv, RingBounds
      <4>2. stored'.readSeen \in Nat /\ stored.read \in Nat
        BY Zenon DEF RingInv, RingTypes
      <4> QED
        BY SMTT(30), <2>1, <4>1, <4>2, RingSizes
    <3>2. RingFirst = stored.read + (IF Popping THEN 2 ELSE 1) /\ stored.read \in Nat
      BY Zenon, ItemsAre, StoredNumbers DEF RingInv
    <3> QED
      <4>1. PICK r \in Nat, m \in Nat, h \in {0, 1}, v \in Nat :
              /\ r = stored.read /\ m = RingMask /\ h = (IF Popping THEN 1 ELSE 0) /\ v = w
        BY Zenon, <2>1, <3>2, RingSizes
      <4>2. Cardinality({c \in {2} : RingGot[c] # 0}) = h
        BY Zenon, <4>1, RingHolding
      <4>3. Len(RingItems) = v - RingFirst + 1 /\ RingFirst = r + h + 1 /\ v - r < m
        BY <2>1, <3>1, <3>2, <4>1
      <4>4. (v - (r + h + 1) + 1) + h < m
        BY <4>3
      <4> QED
        BY Zenon, <4>1, <4>2, <4>3, <4>4
  <2>6. Ring!Claim(1, w + 1)
    BY <2>2, <2>3, <2>4, <2>5, SameCount, Zenon DEF Ring!Claim, Ring!Filling, Ring!Holding
  <2> QED
    BY Zenon, <2>6
<1> QED
  BY Zenon, <1>3, <1>4

\* The store of the write index makes the place ready.
LEMMA PublishFills ==
  ASSUME RingInv, RingInv', RingPublish
  PROVE  Ring!Fill(1)
<1> DEFINE w == stored.write
           n == (w + 1) - RingFirst + 1
<1>1. /\ ringAt' = [ringAt EXCEPT !.producer = "idle"] /\ ringAt.producer = "publish"
      /\ stored'.write = w + 1 /\ stored'.read = stored.read /\ w \in Nat
  BY Zenon, StoredNumbers DEF RingPublish, RingInv, RingTypes
<1>2. (Popping' <=> Popping) /\ Pushing /\ ~Pushing'
  BY Zenon, <1>1 DEF Popping, Pushing, RingInv, RingTypes
<1>3. RingLast = w + 1 /\ RingLast' = w + 1 /\ RingFirst' = RingFirst
  BY <1>1, <1>2 DEF RingLast, RingFirst
<1>4. RingFirst \in Nat /\ RingFirst <= w + 1
  <2>1. RingFirst = stored.read + (IF Popping THEN 2 ELSE 1) /\ RingFirst \in Nat
    BY Zenon, ItemsAre
  <2>2. stored.read <= w /\ (Popping => stored.read < w) /\ stored.read \in Nat
    BY <1>1, StoredNumbers DEF RingInv, RingBounds
  <2> QED
    BY <1>1, <2>1, <2>2
<1>5. RingItems = Places(RingFirst, w + 1, w)
  BY <1>3, ItemsPlaces, Zenon
<1>6. RingItems' = Places(RingFirst, w + 1, w + 1)
  <2>1. (RingItems = Places(RingFirst, RingLast, stored.write))'
    BY ItemsPlaces, PTL
  <2> QED
    BY <1>1, <1>3, <2>1, Zenon
<1>7. /\ n \in DOMAIN RingItems /\ RingItems[n].by = 1
      /\ RingItems' = [RingItems EXCEPT ![n].by = 0]
  <2>1. PICK m : m = (w + 1) - RingFirst + 1
    BY Zenon
  <2>2. /\ m \in DOMAIN Places(RingFirst, w + 1, w) /\ Places(RingFirst, w + 1, w)[m].by = 1
        /\ Places(RingFirst, w + 1, w + 1) = [Places(RingFirst, w + 1, w) EXCEPT ![m].by = 0]
    BY SMTT(30), <1>1, <1>4, <2>1, PlacesFill
  <2> QED
    BY <1>5, <1>6, <2>1, <2>2, Zenon
<1>8. RingGot' = RingGot
  <2>1. (RingGot = [c \in {2} |-> IF Popping THEN stored.read + 1 ELSE 0])'
    BY GotIs, PTL
  <2> QED
    BY Zenon, <1>1, <1>2, <2>1, GotIs
<1> QED
  BY <1>7, <1>8, Zenon DEF Ring!Fill, Ring!Filling

\* TryPop takes the oldest item when it goes on, and nothing otherwise.
LEMMA PopLookTakes ==
  ASSUME RingInv, RingInv', RingPopLook
  PROVE  Ring!Take(2) \/ (RingItems' = RingItems /\ RingGot' = RingGot)
<1> DEFINE w == stored.write
           r == stored.read
<1>1. /\ ringAt' = [ringAt EXCEPT !.consumer = IF readIndex = cachedWrite' THEN "idle" ELSE "get"]
      /\ ringAt.consumer = "idle" /\ stored'.write = w /\ stored'.read = r
      /\ w \in Nat /\ r \in Nat
  BY Zenon, StoredNumbers DEF RingPopLook, RingInv, RingTypes
<1>2. /\ Pushing' <=> Pushing
      /\ ~Popping
      /\ Popping' <=> readIndex # cachedWrite'
  BY Zenon, <1>1 DEF Popping, Pushing, RingInv, RingTypes
<1>3. CASE readIndex = cachedWrite'
  BY Zenon, <1>1, <1>2, <1>3, SameEnds
<1>4. CASE readIndex # cachedWrite'
  <2>1. r < w
    <3>1. stored'.read < stored'.writeSeen /\ stored'.writeSeen <= stored'.write
      BY Zenon, <1>2, <1>4 DEF RingInv, RingBounds
    <3>2. stored'.writeSeen \in Nat
      BY Zenon DEF RingInv, RingTypes
    <3> QED
      BY <1>1, <3>1, <3>2
  <2>2. /\ RingFirst = r + 1 /\ RingFirst' = (r + 1) + 1 /\ RingLast' = RingLast
        /\ RingLast \in Nat /\ r + 1 <= RingLast /\ r + 1 <= w /\ r + 1 \in Nat
    <3>1. RingLast = w + (IF Pushing THEN 1 ELSE 0) /\ RingLast \in Nat
      BY Zenon, ItemsAre
    <3>2. RingFirst = r + 1 /\ RingFirst' = r + 2 /\ RingLast' = RingLast
      BY Zenon, <1>1, <1>2, <1>4 DEF RingFirst, RingLast
    <3> QED
      BY <1>1, <2>1, <3>1, <3>2
  <2>3. RingItems = Places(r + 1, RingLast, w)
    BY <2>2, ItemsPlaces, Zenon
  <2>4. RingItems' = Places((r + 1) + 1, RingLast, w)
    <3>1. (RingItems = Places(RingFirst, RingLast, stored.write))'
      BY ItemsPlaces, PTL
    <3> QED
      BY <1>1, <2>2, <3>1, Zenon
  <2>5. /\ RingItems # <<>> /\ Head(RingItems) = [value |-> r + 1, by |-> 0]
        /\ RingItems' = Tail(RingItems)
    <3>1. PICK f \in Nat : f = r + 1
      BY Zenon, <2>2
    <3>2. f <= RingLast /\ f <= w
      BY Zenon, <2>2, <3>1
    <3>3. /\ Places(f, RingLast, w) # <<>> /\ Head(Places(f, RingLast, w)) = [value |-> f, by |-> 0]
          /\ Places(f + 1, RingLast, w) = Tail(Places(f, RingLast, w))
      BY ZenonT(30), <1>1, <2>2, <3>2, PlacesShrink
    <3> QED
      BY <2>3, <2>4, <3>1, <3>3, Zenon
  <2>6. RingGot = [c \in {2} |-> 0] /\ RingGot' = [c \in {2} |-> r + 1]
    <3>1. (RingGot = [c \in {2} |-> IF Popping THEN stored.read + 1 ELSE 0])'
      BY GotIs, PTL
    <3> QED
      BY Zenon, <1>1, <1>2, <1>4, <3>1, GotIs
  <2>7. Head(RingItems).value = r + 1 /\ Head(RingItems).by = 0
    BY <2>5
  <2>8. RingGot[2] = 0 /\ RingGot' = [RingGot EXCEPT ![2] = r + 1]
    BY Zenon, <2>6
  <2>9. RingGot' = [RingGot EXCEPT ![2] = Head(RingItems).value]
    BY <2>7, <2>8, Zenon
  <2>10. Ring!Take(2)
    BY <2>5, <2>7, <2>8, <2>9, Zenon DEF Ring!Take, Ring!Ready
  <2> QED
    BY Zenon, <2>10
<1> QED
  BY Zenon, <1>3, <1>4

\* The store of the read index gives the slot back.
LEMMA ReleaseReleases ==
  ASSUME RingInv, RingInv', RingRelease
  PROVE  Ring!Release(2)
<1>1. /\ ringAt' = [ringAt EXCEPT !.consumer = "idle"] /\ ringAt.consumer = "release"
      /\ stored'.write = stored.write /\ stored'.read = stored.read + 1 /\ stored.read \in Nat
  BY Zenon, StoredNumbers DEF RingRelease, RingInv, RingTypes
<1>2. (Pushing' <=> Pushing) /\ Popping /\ ~Popping'
  BY Zenon, <1>1 DEF Popping, Pushing, RingInv, RingTypes
<1>3. RingLast' = RingLast /\ RingFirst' = RingFirst
  BY <1>1, <1>2 DEF RingLast, RingFirst
<1>4. RingItems' = RingItems
  <2>1. (RingItems = Places(RingFirst, RingLast, stored.write))'
    BY ItemsPlaces, PTL
  <2> QED
    BY <1>1, <1>3, <2>1, ItemsPlaces, Zenon
<1>5. RingGot = [c \in {2} |-> stored.read + 1] /\ RingGot' = [c \in {2} |-> 0]
  <2>1. (RingGot = [c \in {2} |-> IF Popping THEN stored.read + 1 ELSE 0])'
    BY GotIs, PTL
  <2> QED
    BY Zenon, <1>2, <2>1, GotIs
<1>6. RingGot[2] # 0 /\ RingGot' = [RingGot EXCEPT ![2] = 0]
  BY <1>1, <1>5
<1> QED
  BY <1>4, <1>6, Zenon DEF Ring!Release

\* SpscRing is a bounded queue for every capacity: whatever stale index each
\* side decides on, every item is popped once and in the order of the pushes,
\* only after it is published, and a push never runs into a slot that a slow
\* pop still holds.
THEOREM RingIsInOrder == RingSpec => RingInOrder
<1>1. RingInit => Ring!Init
  <2> SUFFICES ASSUME RingInit PROVE Ring!Init
    BY Zenon
  <2>1. RingInv /\ ~Popping /\ ~Pushing /\ stored.read = 0 /\ stored.write = 0
    BY Zenon, RingInitially DEF RingInit, Popping, Pushing
  <2>2. RingGot = [c \in {2} |-> 0]
    BY Zenon, <2>1, GotIs
  <2>3. RingItems = <<>>
    BY <2>1 DEF RingItems, RingFirst, RingLast
  <2> QED
    BY <2>2, <2>3, Zenon DEF Ring!Init
<1>2. RingInv /\ RingInv' /\ [RingNext]_ringVars => [Ring!Next]_(Ring!vars)
  <2> SUFFICES ASSUME RingInv, RingInv', [RingNext]_ringVars PROVE [Ring!Next]_(Ring!vars)
    BY Zenon
  <2>1. ASSUME RingItems' = RingItems, RingGot' = RingGot PROVE UNCHANGED Ring!vars
    BY <2>1, Zenon DEF Ring!vars
  <2>2. CASE RingPushLook
    <3>1. ASSUME Ring!Claim(1, stored.write + 1) PROVE Ring!Next
      <4>1. stored.write + 1 \in 1 .. RingPushes
        BY <2>2, StoredNumbers, RingCapacityAssumption DEF RingPushLook, RingInv
      <4> QED
        BY <3>1, <4>1, Zenon DEF Ring!Next
    <3> QED
      BY Zenon, <2>1, <2>2, <3>1, PushLookClaims
  <2>3. CASE RingConstruct \/ RingGet \/ UNCHANGED ringVars
    <3>1. /\ stored'.read = stored.read /\ stored'.write = stored.write
          /\ Popping' <=> Popping
          /\ Pushing' <=> Pushing
      BY Zenon, <2>3 DEF RingConstruct, RingGet, ringVars, Popping, Pushing, RingInv, RingTypes
    <3> QED
      BY Zenon, <2>1, <3>1, SameEnds
  <2>4. CASE RingPublish
    BY <2>4, PublishFills, Zenon DEF Ring!Next
  <2>5. CASE RingPopLook
    <3>1. ASSUME Ring!Take(2) PROVE Ring!Next
      BY <3>1, Zenon DEF Ring!Next
    <3> QED
      BY Zenon, <2>1, <2>5, <3>1, PopLookTakes
  <2>6. CASE RingRelease
    BY <2>6, ReleaseReleases, Zenon DEF Ring!Next
  <2> QED
    BY Zenon, <2>2, <2>3, <2>4, <2>5, <2>6 DEF RingNext
<1> QED
  BY <1>1, <1>2, RingInitially, RingKeeps, PTL DEF RingSpec, RingInOrder, Ring!Spec
-----------------------------------------------------------------------------
(***************************************************************************)
(* BoundedBlockingQueue.                                                   *)
(***************************************************************************)
BqStates == {"idle", "asleep", "awake", "expired"} \cup Notices

\* A thread that waits, or is about to look again, is in a call of its side.
BqTypes ==
  /\ bqItems \in Seq(Nat) /\ bqClosed \in BOOLEAN /\ bqAccepted \in Nat
  /\ DOMAIN bqCall = BqThreads
  /\ bqAt \in [BqActors -> BqStates]
  /\ \A t \in BqThreads :
       bqAt[t] \in {"asleep", "awake", "expired"} =>
         (bqCall[t] = "PushFor" <=> t \in BqProducers)

BqInv == BqTypes /\ WakeupsReach
-----------------------------------------------------------------------------
\* The threads of either side, and all actors, are finitely many.
LEMMA Actors ==
  /\ IsFiniteSet(BqActors) /\ BqThreads \subseteq BqActors
  /\ BqConsumers \subseteq BqThreads /\ BqProducers \subseteq BqThreads
  /\ IsFiniteSet(BqConsumers) /\ IsFiniteSet(BqProducers)
<1>1. BqConsumers \subseteq BqThreads /\ BqProducers \subseteq BqThreads /\ BqThreads \subseteq BqActors
  BY Zenon DEF BqThreads, BqActors
<1>2. IsFiniteSet(BqThreads)
  BY Zenon, BqThreadsAssumption
<1>3. IsFiniteSet(BqConsumers) /\ IsFiniteSet(BqProducers)
  BY Zenon, <1>1, <1>2, FS_Subset
<1>4. IsFiniteSet(BqActors)
  BY Zenon, <1>2, FS_AddElement DEF BqActors
<1> QED
  BY Zenon, <1>1, <1>3, <1>4

\* Counts are numbers.
LEMMA CountType ==
  ASSUME NEW T, IsFiniteSet(T), NEW ats
  PROVE  Count(T, ats) \in Nat /\ Count(T, ats)' \in Nat
<1>1. ASSUME NEW S, S \subseteq T PROVE Cardinality(S) \in Nat
  BY Zenon, <1>1, FS_Subset, FS_CardinalityType
<1> QED
  BY Zenon, <1>1 DEF Count

\* What a finite set has without an element.
LEMMA CountWithout ==
  ASSUME NEW S, IsFiniteSet(S), NEW t
  PROVE  /\ Cardinality(S) \in Nat /\ Cardinality(S \ {t}) \in Nat
         /\ Cardinality(S) = Cardinality(S \ {t}) + (IF t \in S THEN 1 ELSE 0)
<1>1. Cardinality(S) \in Nat
  BY Zenon, FS_CardinalityType
<1>2. /\ IsFiniteSet(S \ {t})
      /\ Cardinality(S \ {t}) = IF t \in S THEN Cardinality(S) - 1 ELSE Cardinality(S)
  BY Zenon, FS_RemoveElement
<1>3. Cardinality(S \ {t}) \in Nat
  BY Zenon, <1>2, FS_CardinalityType
<1> QED
  BY <1>1, <1>2, <1>3

\* When one actor moves, the counts change by that actor.
LEMMA CountMove ==
  ASSUME NEW T, IsFiniteSet(T), NEW t, NEW ats,
         \A u \in T : u # t => bqAt'[u] = bqAt[u]
  PROVE  Count(T, ats)' = Count(T, ats) - (IF t \in T /\ bqAt[t] \in ats THEN 1 ELSE 0)
                                        + (IF t \in T /\ bqAt'[t] \in ats THEN 1 ELSE 0)
<1> DEFINE S == {u \in T : bqAt[u] \in ats}
           R == {u \in T : bqAt'[u] \in ats}
<1>1. IsFiniteSet(S) /\ IsFiniteSet(R)
  BY Zenon, FS_Subset
<1>2. S \ {t} = R \ {t}
  BY Zenon
<1>3. Count(T, ats) = Cardinality(S) /\ Count(T, ats)' = Cardinality(R)
  BY Zenon DEF Count
<1>4. (t \in S <=> t \in T /\ bqAt[t] \in ats) /\ (t \in R <=> t \in T /\ bqAt'[t] \in ats)
  BY Zenon
<1> HIDE DEF S, R
<1>5. /\ Cardinality(S) = Cardinality(S \ {t}) + (IF t \in S THEN 1 ELSE 0)
      /\ Cardinality(R) = Cardinality(R \ {t}) + (IF t \in R THEN 1 ELSE 0)
      /\ Cardinality(S \ {t}) \in Nat
  BY Zenon, <1>1, CountWithout
<1> QED
  BY <1>2, <1>3, <1>4, <1>5

\* Only t moves.
Alone(t) == \A u \in BqActors : u # t => bqAt'[u] = bqAt[u]

\* What the move of a consumer does to the counts.
LEMMA ConsumerMoves ==
  ASSUME NEW t \in BqConsumers, Alone(t)
  PROVE  /\ Count(BqProducers, {"asleep"})' = Count(BqProducers, {"asleep"})
         /\ Stirring(BqProducers)' = Stirring(BqProducers)
         /\ Count(BqConsumers, {"asleep"})' = Count(BqConsumers, {"asleep"})
              - (IF bqAt[t] = "asleep" THEN 1 ELSE 0) + (IF bqAt'[t] = "asleep" THEN 1 ELSE 0)
         /\ Stirring(BqConsumers)' = Stirring(BqConsumers)
              - (IF bqAt[t] \in {"awake", "expired"} THEN 1 ELSE 0)
              + (IF bqAt'[t] \in {"awake", "expired"} THEN 1 ELSE 0)
<1>1. t \notin BqProducers /\ t \in BqActors
  BY Zenon, BqThreadsAssumption, Actors
<1>2. ASSUME NEW T, T \in {BqProducers, BqConsumers}, NEW ats
      PROVE  Count(T, ats)' = Count(T, ats) - (IF t \in T /\ bqAt[t] \in ats THEN 1 ELSE 0)
                                            + (IF t \in T /\ bqAt'[t] \in ats THEN 1 ELSE 0)
             /\ Count(T, ats) \in Nat
  <2>1. IsFiniteSet(T) /\ \A u \in T : u # t => bqAt'[u] = bqAt[u]
    BY Zenon, <1>2, Actors DEF Alone
  <2> QED
    BY <2>1, CountMove, CountType
<1> QED
  BY <1>1, <1>2 DEF Stirring

\* What the move of a producer does to the counts.
LEMMA ProducerMoves ==
  ASSUME NEW t \in BqProducers, Alone(t)
  PROVE  /\ Count(BqConsumers, {"asleep"})' = Count(BqConsumers, {"asleep"})
         /\ Stirring(BqConsumers)' = Stirring(BqConsumers)
         /\ Count(BqProducers, {"asleep"})' = Count(BqProducers, {"asleep"})
              - (IF bqAt[t] = "asleep" THEN 1 ELSE 0) + (IF bqAt'[t] = "asleep" THEN 1 ELSE 0)
         /\ Stirring(BqProducers)' = Stirring(BqProducers)
              - (IF bqAt[t] \in {"awake", "expired"} THEN 1 ELSE 0)
              + (IF bqAt'[t] \in {"awake", "expired"} THEN 1 ELSE 0)
<1>1. t \notin BqConsumers /\ t \in BqActors
  BY Zenon, BqThreadsAssumption, Actors
<1>2. ASSUME NEW T, T \in {BqProducers, BqConsumers}, NEW ats
      PROVE  Count(T, ats)' = Count(T, ats) - (IF t \in T /\ bqAt[t] \in ats THEN 1 ELSE 0)
                                            + (IF t \in T /\ bqAt'[t] \in ats THEN 1 ELSE 0)
             /\ Count(T, ats) \in Nat
  <2>1. IsFiniteSet(T) /\ \A u \in T : u # t => bqAt'[u] = bqAt[u]
    BY Zenon, <1>2, Actors DEF Alone
  <2> QED
    BY <2>1, CountMove, CountType
<1> QED
  BY <1>1, <1>2 DEF Stirring

\* What a move does to the notices that are due.
LEMMA NoticeMoves ==
  ASSUME NEW t \in BqActors, Alone(t), NEW notice
  PROVE  Due(notice)' = Due(notice) - (IF bqAt[t] = notice THEN 1 ELSE 0)
                                    + (IF bqAt'[t] = notice THEN 1 ELSE 0)
<1>1. IsFiniteSet(BqActors) /\ \A u \in BqActors : u # t => bqAt'[u] = bqAt[u]
  BY Zenon, Actors DEF Alone
<1> QED
  BY <1>1, CountMove, CountType DEF Due

\* The counts of WakeupsReach are numbers.
LEMMA CountsAre ==
  /\ Count(BqProducers, {"asleep"}) \in Nat /\ Count(BqConsumers, {"asleep"}) \in Nat
  /\ Stirring(BqProducers) \in Nat /\ Stirring(BqConsumers) \in Nat
  /\ \A notice : Due(notice) \in Nat
BY Zenon, Actors, CountType DEF Stirring, Due

\* A thread that is up and leaves with an item, or after leaving one, makes up
\* for itself.
LEMMA OneForOne ==
  \A l, m, due, up, up1 \in Nat :
    up1 >= up - 1 => /\ m = l + 1 => due + up1 + m >= due + up + l
                     /\ m <= l - 1 => due + up1 - m >= due + up - l
OBVIOUS

\* So does a notice for an item that comes or a place that is left.
LEMMA NoticeForOne ==
  \A l, m, due, up \in Nat :
    /\ m = l + 1 => (due + 1) + up - m >= due + up - l
    /\ m = l - 1 => (due + 1) + up + m >= due + up + l
OBVIOUS

\* More threads that are up cover no less.
LEMMA MoreUp ==
  \A l, due, up, up1 \in Nat :
    up1 >= up => due + up1 - l >= due + up - l /\ due + up1 + l >= due + up + l
OBVIOUS

\* WakeupsReach is kept by a step that wakes or serves whoever it may concern:
\* nobody more sleeps, no notice for everyone is lost, and the notices and the
\* threads that are up grow with the items, and with the free places.
LEMMA ReachKept ==
  ASSUME WakeupsReach, bqClosed' = bqClosed, Len(bqItems) \in Nat, Len(bqItems') \in Nat,
         Due("everyone") \in Nat, Due("everyone")' \in Nat,
         Due("one_consumer") \in Nat, Due("one_consumer")' \in Nat,
         Due("one_producer") \in Nat, Due("one_producer")' \in Nat,
         Due("all_producers") \in Nat, Due("all_producers")' \in Nat,
         Stirring(BqConsumers) \in Nat, Stirring(BqConsumers)' \in Nat,
         Stirring(BqProducers) \in Nat, Stirring(BqProducers)' \in Nat,
         Asleep(BqConsumers)' => Asleep(BqConsumers), Asleep(BqProducers)' => Asleep(BqProducers),
         Due("everyone")' >= Due("everyone"),
         Due("one_consumer")' + Stirring(BqConsumers)' - Len(bqItems')
           >= Due("one_consumer") + Stirring(BqConsumers) - Len(bqItems),
         \/ Due("all_producers")' > 0
         \/ /\ Due("all_producers")' >= Due("all_producers")
            /\ Due("one_producer")' + Stirring(BqProducers)' + Len(bqItems')
                 >= Due("one_producer") + Stirring(BqProducers) + Len(bqItems)
  PROVE  WakeupsReach'
<1>1. PICK l \in Nat, m \in Nat : l = Len(bqItems) /\ m = Len(bqItems')
  BY Zenon
<1>2. BqCapacity \in Nat
  BY Zenon, BqSizesAssumption
<1>3. CASE Due("everyone") > 0
  <2>1. \A due, due1 \in Nat : due > 0 /\ due1 >= due => due1 > 0
    OBVIOUS
  <2>2. Due("everyone")' > 0
    BY Zenon, <1>3, <2>1
  <2> QED
    BY Zenon, <2>2 DEF WakeupsReach
<1>4. CASE ~(Due("everyone") > 0)
  <2>1. /\ Asleep(BqConsumers) => ~bqClosed /\ l <= Due("one_consumer") + Stirring(BqConsumers)
        /\ Asleep(BqProducers) =>
             /\ ~bqClosed
             /\ \/ Due("all_producers") > 0
                \/ BqCapacity - l <= Due("one_producer") + Stirring(BqProducers)
    BY Zenon, <1>1, <1>4 DEF WakeupsReach
  <2>2. l <= Due("one_consumer") + Stirring(BqConsumers)
          => m <= Due("one_consumer")' + Stirring(BqConsumers)'
    <3>1. PICK due \in Nat, due1 \in Nat, up \in Nat, up1 \in Nat :
            /\ due = Due("one_consumer") /\ due1 = Due("one_consumer")'
            /\ up = Stirring(BqConsumers) /\ up1 = Stirring(BqConsumers)'
      BY Zenon
    <3>2. due1 + up1 - m >= due + up - l
      BY Zenon, <1>1, <3>1
    <3>3. l <= due + up => m <= due1 + up1
      BY <3>2
    <3> QED
      BY Zenon, <3>1, <3>3
  <2>3. Due("all_producers") > 0 \/ BqCapacity - l <= Due("one_producer") + Stirring(BqProducers)
          => \/ Due("all_producers")' > 0
             \/ BqCapacity - m <= Due("one_producer")' + Stirring(BqProducers)'
    <3>1. CASE Due("all_producers")' > 0
      BY Zenon, <3>1
    <3>2. ASSUME Due("all_producers")' >= Due("all_producers"),
                 Due("one_producer")' + Stirring(BqProducers)' + m
                   >= Due("one_producer") + Stirring(BqProducers) + l,
                 BqCapacity - l <= Due("one_producer") + Stirring(BqProducers)
          PROVE  BqCapacity - m <= Due("one_producer")' + Stirring(BqProducers)'
      <4>1. PICK due \in Nat, due1 \in Nat, up \in Nat, up1 \in Nat :
              /\ due = Due("one_producer") /\ due1 = Due("one_producer")'
              /\ up = Stirring(BqProducers) /\ up1 = Stirring(BqProducers)'
        BY Zenon
      <4>2. \A c \in Nat : due1 + up1 + m >= due + up + l /\ c - l <= due + up => c - m <= due1 + up1
        OBVIOUS
      <4> QED
        BY <1>2, <3>2, <4>1, <4>2, Zenon
    <3>3. Due("all_producers") > 0 /\ Due("all_producers")' >= Due("all_producers")
            => Due("all_producers")' > 0
      <4>1. \A due, due1 \in Nat : due > 0 /\ due1 >= due => due1 > 0
        OBVIOUS
      <4> QED
        BY Zenon, <4>1
    <3> QED
      BY Zenon, <1>1, <3>1, <3>2, <3>3
  <2>4. /\ Asleep(BqConsumers)' =>
             ~bqClosed' /\ Len(bqItems') <= Due("one_consumer")' + Stirring(BqConsumers)'
        /\ Asleep(BqProducers)' =>
             /\ ~bqClosed'
             /\ \/ Due("all_producers")' > 0
                \/ BqCapacity - Len(bqItems') <= Due("one_producer")' + Stirring(BqProducers)'
    BY Zenon, <1>1, <2>1, <2>2, <2>3
  <2> QED
    BY Zenon, <2>4 DEF WakeupsReach
<1> QED
  BY Zenon, <1>3, <1>4

\* The counts of WakeupsReach are numbers after a step, too.
LEMMA CountsStay ==
  /\ Count(BqProducers, {"asleep"})' \in Nat /\ Count(BqConsumers, {"asleep"})' \in Nat
  /\ Stirring(BqProducers)' \in Nat /\ Stirring(BqConsumers)' \in Nat
  /\ \A notice : Due(notice)' \in Nat
BY Zenon, Actors, CountType DEF Stirring, Due
-----------------------------------------------------------------------------
\* A move of a thread keeps the types if it does not fall asleep in a call of
\* the other side.
LEMMA MoveTypes ==
  ASSUME BqTypes, NEW t \in BqThreads, NEW call, NEW at \in {"idle", "asleep"} \cup Notices,
         BqMove(t, call, at), at = "asleep" => (call = "PushFor" <=> t \in BqProducers),
         bqItems' \in Seq(Nat), bqClosed' \in BOOLEAN, bqAccepted' \in Nat
  PROVE  BqTypes' /\ bqAt'[t] = at /\ Alone(t)
<1>1. t \in BqActors /\ at \in BqStates
  BY Zenon, Actors DEF BqStates
<1>2. bqAt' \in [BqActors -> BqStates] /\ bqAt'[t] = at /\ Alone(t)
  BY <1>1, Zenon DEF BqTypes, BqMove, Alone
<1>3. DOMAIN bqCall' = BqThreads /\ bqCall'[t] = call
      /\ \A u \in BqThreads : u # t => bqCall'[u] = bqCall[u]
  BY Zenon DEF BqTypes, BqMove
<1>4. at \notin {"awake", "expired"}
  BY Zenon DEF Notices
<1>5. ASSUME NEW u \in BqThreads, bqAt'[u] \in {"asleep", "awake", "expired"}
      PROVE  bqCall'[u] = "PushFor" <=> u \in BqProducers
  <2>1. CASE u = t
    BY ZenonT(30), <1>2, <1>3, <1>4, <1>5, <2>1
  <2>2. CASE u # t
    BY ZenonT(30), <1>2, <1>3, <1>5, <2>2, Actors DEF Alone, BqTypes
  <2> QED
    BY Zenon, <2>1, <2>2
<1> QED
  BY Zenon, <1>2, <1>3, <1>5 DEF BqTypes

\* What a call may do with the mutex held.
LEMMA CallOutcomes ==
  ASSUME BqTypes, NEW t \in BqThreads, BqEnter(t) \/ BqResume(t)
  PROVE  /\ bqAt[t] \in {"idle", "awake", "expired"}
         /\ \/ \E call : (call = "PushFor" <=> t \in BqProducers) /\ WaitOn(t, call)
            \/ /\ bqClosed \/ bqAt[t] = "idle"
               /\ Return(t) /\ UNCHANGED <<bqItems, bqClosed, bqAccepted>>
            \/ t \in BqProducers /\ \E call : Accept(t, call)
            \/ /\ t \in BqConsumers /\ bqItems # <<>> /\ bqItems' = Tail(bqItems)
               /\ \E call : BqMove(t, call, "one_producer")
               /\ UNCHANGED <<bqClosed, bqAccepted>>
            \/ /\ t \in BqConsumers /\ bqItems # <<>>
               /\ bqItems' = SubSeq(bqItems, BatchSize + 1, Len(bqItems))
               /\ \E call : BqMove(t, call, "all_producers")
               /\ UNCHANGED <<bqClosed, bqAccepted>>
<1>1. t \in BqConsumers <=> t \notin BqProducers
  BY Zenon, BqThreadsAssumption DEF BqThreads
<1>2. CASE /\ t \in BqProducers /\ bqAt[t] \in {"idle", "awake", "expired"}
           /\ (TryPush(t) /\ bqAt[t] = "idle") \/ PushFor(t)
  BY Zenon, <1>2 DEF TryPush, PushFor
<1>3. CASE /\ t \in BqConsumers /\ bqAt[t] \in {"idle", "awake", "expired"}
           /\ PopOne(t, "Pop") \/ PopOne(t, "PopFor") \/ PopBatch(t)
  BY Zenon, <1>1, <1>3 DEF PopOne, PopBatch
<1>4. CASE BqEnter(t)
  BY Zenon, <1>2, <1>3, <1>4 DEF BqEnter
<1>5. CASE BqResume(t)
  <2>1. bqAt[t] \in {"awake", "expired"} /\ (bqCall[t] = "PushFor" <=> t \in BqProducers)
    BY Zenon, <1>5 DEF BqResume, BqTypes
  <2> QED
    BY ZenonT(30), <1>1, <1>2, <1>3, <1>5, <2>1 DEF BqResume
<1> QED
  BY Zenon, <1>4, <1>5
-----------------------------------------------------------------------------
\* A thread falls asleep only when there is nothing for it.
LEMMA WaitServes ==
  ASSUME BqInv, NEW t \in BqThreads, NEW call, call = "PushFor" <=> t \in BqProducers,
         bqAt[t] \in {"idle", "awake"}, WaitOn(t, call)
  PROVE  BqInv'
<1>1. /\ BqMove(t, call, "asleep") /\ ~bqClosed
      /\ UNCHANGED <<bqItems, bqClosed, bqAccepted>> /\ ~Holds(call)
  BY Zenon DEF WaitOn, Holds
<1>2. BqTypes' /\ bqAt'[t] = "asleep" /\ Alone(t)
  BY Zenon, <1>1, MoveTypes DEF BqInv, BqTypes
<1>3. t \in BqActors /\ (t \in BqConsumers <=> t \notin BqProducers)
  BY Zenon, BqThreadsAssumption, Actors DEF BqThreads
<1>4. \A notice \in Notices : Due(notice)' = Due(notice) /\ Due(notice) \in Nat
  BY <1>2, <1>3, NoticeMoves, CountsAre DEF Notices
<1>5. CASE t \in BqConsumers
  <2>1. Len(bqItems) = 0
    BY <1>1, <1>3, <1>5 DEF Holds
  <2>2. /\ Count(BqProducers, {"asleep"})' = Count(BqProducers, {"asleep"})
        /\ Stirring(BqProducers)' = Stirring(BqProducers)
        /\ Stirring(BqConsumers)' \in Nat
    BY Zenon, <1>2, <1>5, ConsumerMoves, CountType, Actors DEF Stirring
  <2>3. WakeupsReach'
    BY SMTT(30), <1>1, <1>4, <2>1, <2>2 DEF BqInv, WakeupsReach, Asleep, Notices
  <2> QED
    BY Zenon, <1>2, <2>3 DEF BqInv
<1>6. CASE t \in BqProducers
  <2>1. BqCapacity - Len(bqItems) <= 0
    BY <1>1, <1>6, BqSizesAssumption DEF Holds, Full, BqInv, BqTypes
  <2>2. /\ Count(BqConsumers, {"asleep"})' = Count(BqConsumers, {"asleep"})
        /\ Stirring(BqConsumers)' = Stirring(BqConsumers)
        /\ Stirring(BqProducers)' \in Nat
    BY Zenon, <1>2, <1>6, ProducerMoves, CountType, Actors DEF Stirring
  <2>3. BqCapacity - Len(bqItems) \in Int
    BY BqSizesAssumption DEF BqInv, BqTypes
  <2>4. WakeupsReach'
    BY <1>1, <1>4, <2>1, <2>2, <2>3 DEF BqInv, WakeupsReach, Asleep, Notices
  <2> QED
    BY Zenon, <1>2, <2>4 DEF BqInv
<1> QED
  BY Zenon, <1>3, <1>5, <1>6

\* A call that changes nothing returns at once or because the queue is closed.
LEMMA ReturnServes ==
  ASSUME BqInv, NEW t \in BqThreads, bqAt[t] \in {"idle", "awake", "expired"},
         bqClosed \/ bqAt[t] = "idle", Return(t), UNCHANGED <<bqItems, bqClosed, bqAccepted>>
  PROVE  BqInv'
<1>1. BqTypes' /\ bqAt'[t] = "idle" /\ Alone(t)
  BY Zenon, MoveTypes DEF BqInv, BqTypes, Return
<1>2. t \in BqActors /\ (t \in BqConsumers <=> t \notin BqProducers)
  BY Zenon, BqThreadsAssumption, Actors DEF BqThreads
<1>3. \A notice \in Notices : Due(notice)' = Due(notice) /\ Due(notice) \in Nat
  BY SMTT(30), <1>1, <1>2, NoticeMoves, CountsAre DEF Notices
<1>4. /\ Count(BqConsumers, {"asleep"})' = Count(BqConsumers, {"asleep"})
      /\ Count(BqProducers, {"asleep"})' = Count(BqProducers, {"asleep"})
  BY SMTT(30), <1>1, <1>2, ConsumerMoves, ProducerMoves, CountsAre
<1>5. bqAt[t] = "idle" => /\ Stirring(BqConsumers)' = Stirring(BqConsumers)
                          /\ Stirring(BqProducers)' = Stirring(BqProducers)
  BY <1>1, <1>2, ConsumerMoves, ProducerMoves, CountsAre
<1>6. WakeupsReach'
  BY Zenon, <1>3, <1>4, <1>5 DEF BqInv, WakeupsReach, Asleep, Notices
<1> QED
  BY Zenon, <1>1, <1>6 DEF BqInv

\* An accepted item comes with a notice for a consumer.
LEMMA AcceptServes ==
  ASSUME BqInv, NEW t \in BqProducers, NEW call, bqAt[t] \in {"idle", "awake", "expired"},
         Accept(t, call)
  PROVE  BqInv'
<1>1. /\ BqMove(t, call, "one_consumer") /\ UNCHANGED bqClosed /\ bqAccepted' \in Nat
      /\ bqItems' \in Seq(Nat) /\ Len(bqItems') = Len(bqItems) + 1 /\ Len(bqItems) \in Nat
  BY DEF Accept, BqInv, BqTypes
<1>2. t \in BqThreads /\ t \in BqActors /\ bqClosed' \in BOOLEAN
  BY Zenon, <1>1, Actors DEF BqInv, BqTypes
<1>3. BqTypes' /\ bqAt'[t] = "one_consumer" /\ Alone(t)
  BY ZenonT(30), <1>1, <1>2, MoveTypes DEF BqInv, Notices
<1>4. /\ Due("everyone") \in Nat /\ Due("everyone")' = Due("everyone")
      /\ Due("one_consumer") \in Nat /\ Due("one_consumer")' = Due("one_consumer") + 1
      /\ Due("one_producer") \in Nat /\ Due("one_producer")' = Due("one_producer")
      /\ Due("all_producers") \in Nat /\ Due("all_producers")' = Due("all_producers")
  BY SMTT(30), <1>2, <1>3, NoticeMoves, CountsAre
<1>5. /\ Count(BqConsumers, {"asleep"})' = Count(BqConsumers, {"asleep"})
      /\ Stirring(BqConsumers)' = Stirring(BqConsumers)
      /\ Count(BqProducers, {"asleep"})' = Count(BqProducers, {"asleep"})
      /\ Stirring(BqProducers)' >= Stirring(BqProducers) - 1
      /\ Stirring(BqConsumers) \in Nat /\ Stirring(BqProducers) \in Nat
  BY <1>3, ProducerMoves, CountsAre
<1>6. Len(bqItems') \in Nat
  BY <1>1
<1>7. /\ Due("everyone")' >= Due("everyone")
      /\ Due("one_consumer")' + Stirring(BqConsumers)' - Len(bqItems')
           >= Due("one_consumer") + Stirring(BqConsumers) - Len(bqItems)
      /\ \/ Due("all_producers")' > 0
         \/ /\ Due("all_producers")' >= Due("all_producers")
            /\ Due("one_producer")' + Stirring(BqProducers)' + Len(bqItems')
                 >= Due("one_producer") + Stirring(BqProducers) + Len(bqItems)
  <2>1. Due("everyone")' >= Due("everyone")
    BY <1>4
  <2>2. Due("one_consumer")' + Stirring(BqConsumers)' - Len(bqItems')
          >= Due("one_consumer") + Stirring(BqConsumers) - Len(bqItems)
    <3>1. (Due("one_consumer") + 1) + Stirring(BqConsumers) - Len(bqItems')
            >= Due("one_consumer") + Stirring(BqConsumers) - Len(bqItems)
      BY ZenonT(30), <1>1, <1>4, <1>5, <1>6, NoticeForOne
    <3> QED
      BY Zenon, <1>4, <1>5, <3>1
  <2>3. \/ Due("all_producers")' > 0
        \/ /\ Due("all_producers")' >= Due("all_producers")
           /\ Due("one_producer")' + Stirring(BqProducers)' + Len(bqItems')
                >= Due("one_producer") + Stirring(BqProducers) + Len(bqItems)
    <3>1. Due("all_producers")' >= Due("all_producers")
      BY <1>4
    <3>2. Due("one_producer") + Stirring(BqProducers)' + Len(bqItems')
            >= Due("one_producer") + Stirring(BqProducers) + Len(bqItems)
      BY <1>1, <1>4, <1>5, <1>6, CountsStay, OneForOne, ZenonT(30)
    <3> QED
      BY <1>4, <3>1, <3>2, Zenon
  <2> QED
    BY Zenon, <2>1, <2>2, <2>3
<1>8. (Asleep(BqConsumers)' => Asleep(BqConsumers)) /\ (Asleep(BqProducers)' => Asleep(BqProducers))
  BY Zenon, <1>5 DEF Asleep
<1>9. WakeupsReach'
  BY ZenonT(30), <1>1, <1>6, <1>7, <1>8, CountsAre, CountsStay, ReachKept DEF BqInv
<1> QED
  BY Zenon, <1>3, <1>9 DEF BqInv

\* The place of an item taken comes with a notice for a producer.
LEMMA PopServes ==
  ASSUME BqInv, NEW t \in BqConsumers, NEW call, bqAt[t] \in {"idle", "awake", "expired"},
         bqItems # <<>>, bqItems' = Tail(bqItems), BqMove(t, call, "one_producer"),
         UNCHANGED <<bqClosed, bqAccepted>>
  PROVE  BqInv'
<1>1. bqItems' \in Seq(Nat) /\ Len(bqItems') = Len(bqItems) - 1 /\ Len(bqItems) \in Nat
  BY DEF BqInv, BqTypes
<1>2. t \in BqThreads /\ t \in BqActors /\ bqClosed' \in BOOLEAN /\ bqAccepted' \in Nat
  BY Zenon, Actors DEF BqInv, BqTypes
<1>3. BqTypes' /\ bqAt'[t] = "one_producer" /\ Alone(t)
  BY ZenonT(30), <1>1, <1>2, MoveTypes DEF BqInv, Notices
<1>4. /\ Due("everyone") \in Nat /\ Due("everyone")' = Due("everyone")
      /\ Due("one_consumer") \in Nat /\ Due("one_consumer")' = Due("one_consumer")
      /\ Due("one_producer") \in Nat /\ Due("one_producer")' = Due("one_producer") + 1
      /\ Due("all_producers") \in Nat /\ Due("all_producers")' = Due("all_producers")
  BY SMTT(30), <1>2, <1>3, NoticeMoves, CountsAre
<1>5. /\ Count(BqConsumers, {"asleep"})' = Count(BqConsumers, {"asleep"})
      /\ Stirring(BqProducers)' = Stirring(BqProducers)
      /\ Count(BqProducers, {"asleep"})' = Count(BqProducers, {"asleep"})
      /\ Stirring(BqConsumers)' >= Stirring(BqConsumers) - 1
      /\ Stirring(BqConsumers) \in Nat /\ Stirring(BqProducers) \in Nat
  BY <1>3, ConsumerMoves, CountsAre
<1>6. Len(bqItems') \in Nat
  BY <1>1
<1>7. /\ Due("everyone")' >= Due("everyone")
      /\ Due("one_consumer")' + Stirring(BqConsumers)' - Len(bqItems')
           >= Due("one_consumer") + Stirring(BqConsumers) - Len(bqItems)
      /\ \/ Due("all_producers")' > 0
         \/ /\ Due("all_producers")' >= Due("all_producers")
            /\ Due("one_producer")' + Stirring(BqProducers)' + Len(bqItems')
                 >= Due("one_producer") + Stirring(BqProducers) + Len(bqItems)
  <2>1. Due("everyone")' >= Due("everyone")
    BY <1>4
  <2>2. Due("one_consumer")' + Stirring(BqConsumers)' - Len(bqItems')
          >= Due("one_consumer") + Stirring(BqConsumers) - Len(bqItems)
    <3>1. Len(bqItems') <= Len(bqItems) - 1
      BY <1>1
    <3>2. Due("one_consumer") + Stirring(BqConsumers)' - Len(bqItems')
            >= Due("one_consumer") + Stirring(BqConsumers) - Len(bqItems)
      BY <1>1, <1>4, <1>5, <1>6, <3>1, CountsStay, OneForOne, ZenonT(30)
    <3> QED
      BY <1>4, <3>2, Zenon
  <2>3. \/ Due("all_producers")' > 0
        \/ /\ Due("all_producers")' >= Due("all_producers")
           /\ Due("one_producer")' + Stirring(BqProducers)' + Len(bqItems')
                >= Due("one_producer") + Stirring(BqProducers) + Len(bqItems)
    <3>1. Due("all_producers")' >= Due("all_producers")
      BY <1>4
    <3>2. (Due("one_producer") + 1) + Stirring(BqProducers) + Len(bqItems')
            >= Due("one_producer") + Stirring(BqProducers) + Len(bqItems)
      BY ZenonT(30), <1>1, <1>4, <1>5, <1>6, NoticeForOne
    <3> QED
      BY ZenonT(30), <1>4, <1>5, <3>1, <3>2
  <2> QED
    BY Zenon, <2>1, <2>2, <2>3
<1>8. (Asleep(BqConsumers)' => Asleep(BqConsumers)) /\ (Asleep(BqProducers)' => Asleep(BqProducers))
  BY Zenon, <1>5 DEF Asleep
<1>9. WakeupsReach'
  BY ZenonT(30), <1>1, <1>6, <1>7, <1>8, CountsAre, CountsStay, ReachKept DEF BqInv
<1> QED
  BY Zenon, <1>3, <1>9 DEF BqInv

\* The places of a batch come with a notice for all producers.
LEMMA BatchServes ==
  ASSUME BqInv, NEW t \in BqConsumers, NEW call, bqAt[t] \in {"idle", "awake", "expired"},
         bqItems # <<>>, bqItems' = SubSeq(bqItems, BatchSize + 1, Len(bqItems)),
         BqMove(t, call, "all_producers"), UNCHANGED <<bqClosed, bqAccepted>>
  PROVE  BqInv'
<1>1. bqItems' \in Seq(Nat) /\ Len(bqItems') <= Len(bqItems) - 1 /\ Len(bqItems) \in Nat
  <2>1. bqItems \in Seq(Nat) /\ Len(bqItems) \in Nat /\ Len(bqItems) >= 1
    BY DEF BqInv, BqTypes
  <2>2. BatchSize \in 1 .. Len(bqItems)
    BY <2>1, BqSizesAssumption DEF BatchSize
  <2>3. /\ SubSeq(bqItems, BatchSize + 1, Len(bqItems)) \in Seq(Nat)
        /\ Len(SubSeq(bqItems, BatchSize + 1, Len(bqItems))) = Len(bqItems) - BatchSize
    BY <2>1, <2>2
  <2> QED
    BY <2>1, <2>2, <2>3
<1>2. t \in BqThreads /\ t \in BqActors /\ bqClosed' \in BOOLEAN /\ bqAccepted' \in Nat
  BY Zenon, Actors DEF BqInv, BqTypes
<1>3. BqTypes' /\ bqAt'[t] = "all_producers" /\ Alone(t)
  BY Zenon, <1>1, <1>2, MoveTypes DEF BqInv, Notices
<1>4. /\ Due("everyone") \in Nat /\ Due("everyone")' = Due("everyone")
      /\ Due("one_consumer") \in Nat /\ Due("one_consumer")' = Due("one_consumer")
      /\ Due("one_producer") \in Nat /\ Due("one_producer")' = Due("one_producer")
      /\ Due("all_producers") \in Nat /\ Due("all_producers")' = Due("all_producers") + 1
  BY SMTT(30), <1>2, <1>3, NoticeMoves, CountsAre
<1>5. /\ Count(BqConsumers, {"asleep"})' = Count(BqConsumers, {"asleep"})
      /\ Stirring(BqProducers)' = Stirring(BqProducers)
      /\ Count(BqProducers, {"asleep"})' = Count(BqProducers, {"asleep"})
      /\ Stirring(BqConsumers)' >= Stirring(BqConsumers) - 1
      /\ Stirring(BqConsumers) \in Nat /\ Stirring(BqProducers) \in Nat
  BY <1>3, ConsumerMoves, CountsAre
<1>6. Len(bqItems') \in Nat
  BY <1>1
<1>7. /\ Due("everyone")' >= Due("everyone")
      /\ Due("one_consumer")' + Stirring(BqConsumers)' - Len(bqItems')
           >= Due("one_consumer") + Stirring(BqConsumers) - Len(bqItems)
      /\ \/ Due("all_producers")' > 0
         \/ /\ Due("all_producers")' >= Due("all_producers")
            /\ Due("one_producer")' + Stirring(BqProducers)' + Len(bqItems')
                 >= Due("one_producer") + Stirring(BqProducers) + Len(bqItems)
  <2>1. Due("everyone")' >= Due("everyone")
    BY <1>4
  <2>2. Due("one_consumer")' + Stirring(BqConsumers)' - Len(bqItems')
          >= Due("one_consumer") + Stirring(BqConsumers) - Len(bqItems)
    <3>1. Due("one_consumer") + Stirring(BqConsumers)' - Len(bqItems')
            >= Due("one_consumer") + Stirring(BqConsumers) - Len(bqItems)
      BY <1>1, <1>4, <1>5, <1>6, CountsStay, OneForOne, ZenonT(30)
    <3> QED
      BY <1>4, <3>1, Zenon
  <2>3. \/ Due("all_producers")' > 0
        \/ /\ Due("all_producers")' >= Due("all_producers")
           /\ Due("one_producer")' + Stirring(BqProducers)' + Len(bqItems')
                >= Due("one_producer") + Stirring(BqProducers) + Len(bqItems)
    <3>1. PICK due, next : due = Due("all_producers") /\ next = Due("all_producers")'
      BY Zenon
    <3>2. due \in Nat /\ next = due + 1
      BY Zenon, <1>4, <3>1
    <3>3. next > 0
      BY <3>2
    <3> QED
      BY Zenon, <3>1, <3>3
  <2> QED
    BY Zenon, <2>1, <2>2, <2>3
<1>8. (Asleep(BqConsumers)' => Asleep(BqConsumers)) /\ (Asleep(BqProducers)' => Asleep(BqProducers))
  BY Zenon, <1>5 DEF Asleep
<1>9. WakeupsReach'
  BY ZenonT(30), <1>1, <1>6, <1>7, <1>8, CountsAre, CountsStay, ReachKept DEF BqInv
<1> QED
  BY Zenon, <1>3, <1>9 DEF BqInv

\* A waiter gives up only when there is nothing for it.
LEMMA GiveUpServes ==
  ASSUME BqInv, NEW t \in BqThreads, BqGiveUp(t)
  PROVE  BqInv'
<1>1. /\ BqMove(t, "none", "idle") /\ ~bqClosed /\ bqAt[t] = "expired"
      /\ UNCHANGED <<bqItems, bqClosed, bqAccepted>> /\ ~Holds(bqCall[t])
  BY Zenon DEF BqGiveUp, Return, Holds
<1>2. BqTypes' /\ bqAt'[t] = "idle" /\ Alone(t)
  BY Zenon, <1>1, MoveTypes DEF BqInv, BqTypes
<1>3. /\ t \in BqActors /\ (t \in BqConsumers <=> t \notin BqProducers)
      /\ bqCall[t] = "PushFor" <=> t \in BqProducers
  BY ZenonT(30), <1>1, BqThreadsAssumption, Actors DEF BqThreads, BqInv, BqTypes
<1>4. \A notice \in Notices : Due(notice)' = Due(notice) /\ Due(notice) \in Nat
  BY <1>1, <1>2, <1>3, NoticeMoves, CountsAre DEF Notices
<1>5. CASE t \in BqConsumers
  <2>1. Len(bqItems) = 0
    BY <1>1, <1>3, <1>5 DEF Holds
  <2>2. /\ Count(BqProducers, {"asleep"})' = Count(BqProducers, {"asleep"})
        /\ Stirring(BqProducers)' = Stirring(BqProducers)
        /\ Stirring(BqConsumers)' \in Nat
    BY ZenonT(30), <1>2, <1>5, ConsumerMoves, CountType, Actors DEF Stirring
  <2>3. WakeupsReach'
    BY SMTT(30), <1>1, <1>4, <2>1, <2>2 DEF BqInv, WakeupsReach, Asleep, Notices
  <2> QED
    BY Zenon, <1>2, <2>3 DEF BqInv
<1>6. CASE t \in BqProducers
  <2>1. BqCapacity - Len(bqItems) <= 0
    BY <1>1, <1>3, <1>6, BqSizesAssumption DEF Holds, Full, BqInv, BqTypes
  <2>2. /\ Count(BqConsumers, {"asleep"})' = Count(BqConsumers, {"asleep"})
        /\ Stirring(BqConsumers)' = Stirring(BqConsumers)
        /\ Stirring(BqProducers)' \in Nat
    BY ZenonT(30), <1>2, <1>6, ProducerMoves, CountType, Actors DEF Stirring
  <2>3. BqCapacity - Len(bqItems) \in Int
    BY BqSizesAssumption DEF BqInv, BqTypes
  <2>4. WakeupsReach'
    BY <1>1, <1>4, <2>1, <2>2, <2>3 DEF BqInv, WakeupsReach, Asleep, Notices
  <2> QED
    BY Zenon, <1>2, <2>4 DEF BqInv
<1> QED
  BY Zenon, <1>3, <1>5, <1>6

\* A waiter that is up counts as one that will look.
LEMMA StirServes ==
  ASSUME BqInv, NEW t \in BqThreads, BqStir(t)
  PROVE  BqInv'
<1>1. PICK at \in {"awake", "expired"} : bqAt' = [bqAt EXCEPT ![t] = at]
  BY Zenon DEF BqStir
<1>2. bqAt[t] = "asleep" /\ UNCHANGED <<bqItems, bqClosed, bqAccepted, bqCall>>
  BY Zenon DEF BqStir
<1>3. t \in BqActors /\ (t \in BqConsumers <=> t \notin BqProducers)
  BY Zenon, BqThreadsAssumption, Actors DEF BqThreads
<1>4. at \in BqStates
  BY Zenon DEF BqStates
<1>5. bqAt' \in [BqActors -> BqStates] /\ bqAt'[t] = at /\ Alone(t)
  BY <1>1, <1>3, <1>4, Zenon DEF BqInv, BqTypes, Alone
<1>6. BqTypes'
  <2>1. \A u \in BqThreads : bqAt'[u] \in {"asleep", "awake", "expired"}
          => bqAt[u] \in {"asleep", "awake", "expired"}
    BY Zenon, <1>2, <1>5, Actors DEF Alone
  <2> QED
    BY Zenon, <1>2, <1>5, <2>1 DEF BqInv, BqTypes
<1>7. /\ Due("everyone") \in Nat /\ Due("everyone")' = Due("everyone")
      /\ Due("one_consumer") \in Nat /\ Due("one_consumer")' = Due("one_consumer")
      /\ Due("one_producer") \in Nat /\ Due("one_producer")' = Due("one_producer")
      /\ Due("all_producers") \in Nat /\ Due("all_producers")' = Due("all_producers")
  BY SMTT(30), <1>2, <1>3, <1>5, NoticeMoves, CountsAre
<1>8. /\ Count(BqConsumers, {"asleep"})' <= Count(BqConsumers, {"asleep"})
      /\ Count(BqProducers, {"asleep"})' <= Count(BqProducers, {"asleep"})
  BY SMTT(30), <1>2, <1>3, <1>5, ConsumerMoves, ProducerMoves, CountsAre
<1>9. /\ Stirring(BqConsumers)' >= Stirring(BqConsumers)
      /\ Stirring(BqProducers)' >= Stirring(BqProducers)
  BY SMTT(30), <1>2, <1>3, <1>5, ConsumerMoves, ProducerMoves, CountsAre
<1>10. /\ Stirring(BqConsumers)' \in Nat /\ Stirring(BqProducers)' \in Nat
       /\ Count(BqConsumers, {"asleep"})' \in Nat /\ Count(BqProducers, {"asleep"})' \in Nat
  BY Zenon, CountType, Actors DEF Stirring
<1>11. Len(bqItems) \in Nat /\ Len(bqItems') \in Nat
  BY <1>2 DEF BqInv, BqTypes
<1>12. /\ Due("everyone")' >= Due("everyone")
      /\ Due("one_consumer")' + Stirring(BqConsumers)' - Len(bqItems')
           >= Due("one_consumer") + Stirring(BqConsumers) - Len(bqItems)
      /\ \/ Due("all_producers")' > 0
         \/ /\ Due("all_producers")' >= Due("all_producers")
            /\ Due("one_producer")' + Stirring(BqProducers)' + Len(bqItems')
                 >= Due("one_producer") + Stirring(BqProducers) + Len(bqItems)
  <2>1. Due("everyone")' >= Due("everyone") /\ Due("all_producers")' >= Due("all_producers")
    BY <1>7
  <2>2. Due("one_consumer") + Stirring(BqConsumers)' - Len(bqItems)
          >= Due("one_consumer") + Stirring(BqConsumers) - Len(bqItems)
    BY ZenonT(30), <1>7, <1>9, <1>10, <1>11, CountsAre, MoreUp
  <2>3. Due("one_producer") + Stirring(BqProducers)' + Len(bqItems)
          >= Due("one_producer") + Stirring(BqProducers) + Len(bqItems)
    BY ZenonT(30), <1>7, <1>9, <1>10, <1>11, CountsAre, MoreUp
  <2>4. bqItems' = bqItems
    BY Zenon, <1>2
  <2> QED
    BY ZenonT(30), <1>7, <2>1, <2>2, <2>3, <2>4
<1>13. (Asleep(BqConsumers)' => Asleep(BqConsumers)) /\ (Asleep(BqProducers)' => Asleep(BqProducers))
  BY <1>8, <1>10, CountsAre DEF Asleep
<1>14. WakeupsReach'
  BY ZenonT(30), <1>2, <1>11, <1>12, <1>13, CountsAre, CountsStay, ReachKept DEF BqInv
<1> QED
  BY Zenon, <1>6, <1>14 DEF BqInv

\* Close() leaves a notice for everyone.
LEMMA CloseServes ==
  ASSUME BqInv, Close
  PROVE  BqInv'
<1>1. Closer \in BqActors /\ Closer \notin BqThreads /\ "everyone" \in BqStates
  BY Zenon, BqThreadsAssumption DEF BqActors, BqStates, Notices
<1>2. bqAt' \in [BqActors -> BqStates] /\ bqAt'[Closer] = "everyone" /\ Alone(Closer)
  BY <1>1, Zenon DEF BqInv, BqTypes, Close, Alone
<1>3. UNCHANGED <<bqItems, bqAccepted, bqCall>> /\ bqClosed' \in BOOLEAN
  BY Zenon DEF Close
<1>4. \A u \in BqThreads : bqAt'[u] = bqAt[u]
  BY Zenon, <1>1, <1>2, Actors DEF Alone
<1>5. BqTypes'
  BY Zenon, <1>2, <1>3, <1>4 DEF BqInv, BqTypes
<1>6. Due("everyone")' > 0
  <2> DEFINE S == {u \in BqActors : bqAt'[u] \in {"everyone"}}
  <2>1. IsFiniteSet(S)
    BY Zenon, Actors, FS_Subset
  <2>2. Closer \in S
    BY Zenon, <1>1, <1>2
  <2>3. Due("everyone")' = Cardinality(S)
    BY Zenon DEF Due, Count
  <2> HIDE DEF S
  <2>4. /\ Cardinality(S) = Cardinality(S \ {Closer}) + (IF Closer \in S THEN 1 ELSE 0)
        /\ Cardinality(S \ {Closer}) \in Nat
    BY Zenon, <2>1, CountWithout
  <2> QED
    BY <2>2, <2>3, <2>4
<1>7. WakeupsReach'
  BY Zenon, <1>6 DEF WakeupsReach
<1> QED
  BY Zenon, <1>5, <1>7 DEF BqInv
-----------------------------------------------------------------------------
\* A notice of t wakes the threads of a set.
Wakes(t, woken) ==
  /\ bqAt[t] \in Notices /\ woken \subseteq BqThreads /\ \A u \in woken : bqAt[u] = "asleep"
  /\ bqAt' = [u \in BqActors |-> IF u = t THEN "idle"
                                 ELSE IF u \in woken THEN "awake" ELSE bqAt[u]]

\* What a notification does to each actor.
LEMMA WakesWhom ==
  ASSUME NEW t \in BqActors, NEW woken, Wakes(t, woken)
  PROVE  /\ t \notin woken /\ bqAt'[t] = "idle"
         /\ \A u \in woken : bqAt'[u] = "awake"
         /\ \A u \in BqActors : u # t /\ u \notin woken => bqAt'[u] = bqAt[u]
         /\ bqAt[t] \notin {"asleep", "awake", "expired", "idle"}
<1>1. bqAt[t] \notin {"asleep", "awake", "expired", "idle"}
  BY Zenon DEF Wakes, Notices
<1>2. t \notin woken
  BY Zenon, <1>1 DEF Wakes
<1>3. bqAt'[t] = "idle" /\ \A u \in BqActors : u # t /\ u \notin woken => bqAt'[u] = bqAt[u]
  BY Zenon DEF Wakes
<1>4. \A u \in woken : bqAt'[u] = "awake"
  BY Zenon, <1>2, Actors DEF Wakes
<1> QED
  BY Zenon, <1>1, <1>2, <1>3, <1>4

\* A notification that is sent is no longer due; the others are.
LEMMA WakesDue ==
  ASSUME NEW t \in BqActors, NEW woken, Wakes(t, woken), NEW notice \in Notices
  PROVE  Due(notice)' = Due(notice) - (IF bqAt[t] = notice THEN 1 ELSE 0)
<1> DEFINE S == {u \in BqActors : bqAt[u] \in {notice}}
           R == {u \in BqActors : bqAt'[u] \in {notice}}
<1>1. notice \notin {"asleep", "awake", "idle"}
  BY Zenon DEF Notices
<1>2. R = S \ {t}
  BY <1>1, WakesWhom DEF Wakes
<1>3. t \in S <=> bqAt[t] = notice
  BY Zenon
<1>4. Due(notice) = Cardinality(S) /\ Due(notice)' = Cardinality(R)
  BY Zenon DEF Due, Count
<1>5. IsFiniteSet(S)
  BY Zenon, Actors, FS_Subset
<1> HIDE DEF S, R
<1>6. /\ Cardinality(S) \in Nat /\ Cardinality(S \ {t}) \in Nat
      /\ Cardinality(S) = Cardinality(S \ {t}) + (IF t \in S THEN 1 ELSE 0)
  BY Zenon, <1>5, CountWithout
<1> QED
  BY <1>2, <1>3, <1>4, <1>6

\* Who sleeps after a notification slept before; whoever was woken does not.
LEMMA WakesSleepers ==
  ASSUME NEW t \in BqActors, NEW woken, Wakes(t, woken), NEW T, T \in {BqConsumers, BqProducers}
  PROVE  /\ Asleep(T)' => Asleep(T)
         /\ (\A u \in T : bqAt[u] = "asleep" => u \in woken) => ~Asleep(T)'
<1> DEFINE S == {u \in T : bqAt[u] \in {"asleep"}}
           R == {u \in T : bqAt'[u] \in {"asleep"}}
<1>1. T \subseteq BqActors /\ IsFiniteSet(T)
  BY Zenon, Actors
<1>2. R = S \ woken
  BY <1>1, WakesWhom
<1>3. Count(T, {"asleep"}) = Cardinality(S) /\ Count(T, {"asleep"})' = Cardinality(R)
  BY Zenon DEF Count
<1>4. (\A u \in T : bqAt[u] = "asleep" => u \in woken) => R = {}
  BY Zenon, <1>2
<1>5. IsFiniteSet(S)
  BY Zenon, <1>1, FS_Subset
<1> HIDE DEF S, R
<1>6. Cardinality(R) \in Nat /\ Cardinality(S) \in Nat /\ Cardinality(R) <= Cardinality(S)
  BY Zenon, <1>2, <1>5, FS_Subset, FS_CardinalityType
<1>7. R = {} => Cardinality(R) = 0
  BY Zenon, FS_EmptySet
<1> QED
  BY <1>3, <1>4, <1>6, <1>7 DEF Asleep

\* Whoever is woken is up.
LEMMA WakesStirring ==
  ASSUME NEW t \in BqActors, NEW woken, Wakes(t, woken), NEW T, T \in {BqConsumers, BqProducers}
  PROVE  /\ woken \cap T = {} => Stirring(T)' = Stirring(T)
         /\ \A u \in T : woken = {u} => Stirring(T)' = Stirring(T) + 1
<1> DEFINE S == {u \in T : bqAt[u] \in {"awake", "expired"}}
           R == {u \in T : bqAt'[u] \in {"awake", "expired"}}
<1>1. T \subseteq BqActors /\ IsFiniteSet(T)
  BY Zenon, Actors
<1>2. Stirring(T) = Cardinality(S) /\ Stirring(T)' = Cardinality(R)
  BY Zenon DEF Stirring, Count
<1>3. woken \cap T = {} => R = S
  BY <1>1, WakesWhom
<1>4. ASSUME NEW u \in T, woken = {u}
      PROVE  u \in R /\ R \ {u} = S
  BY <1>1, <1>4, WakesWhom DEF Wakes
<1>5. IsFiniteSet(R)
  BY Zenon, <1>1, FS_Subset
<1> HIDE DEF S, R
<1>6. ASSUME NEW u \in T, woken = {u}
      PROVE  Cardinality(R) = Cardinality(S) + 1
  <2>1. Cardinality(R) = Cardinality(R \ {u}) + (IF u \in R THEN 1 ELSE 0)
    BY Zenon, <1>5, CountWithout
  <2> QED
    BY Zenon, <1>4, <1>6, <2>1
<1> QED
  BY ZenonT(30), <1>2, <1>3, <1>6

\* A notification reaches whom it is for, or nobody waits.
LEMMA NotifyServes ==
  ASSUME BqInv, NEW t \in BqActors, BqNotify(t)
  PROVE  BqInv'
<1>1. PICK woken \in Woken(bqAt[t]) :
        bqAt' = [u \in BqActors |-> IF u = t THEN "idle"
                                   ELSE IF u \in woken THEN "awake" ELSE bqAt[u]]
  BY Zenon DEF BqNotify
<1>2. /\ bqAt[t] \in Notices /\ UNCHANGED <<bqItems, bqClosed, bqAccepted>>
      /\ bqCall' = [u \in BqThreads |-> IF u = t THEN "none" ELSE bqCall[u]]
  BY Zenon DEF BqNotify
<1>3. /\ woken = Waiting(bqAt[t])
         \/ /\ bqAt[t] \in {"one_consumer", "one_producer"}
            /\ \E u \in Waiting(bqAt[t]) : woken = {u}
      /\ woken \subseteq Waiting(bqAt[t])
  BY Zenon DEF Woken
<1>4. Wakes(t, woken)
  BY Zenon, <1>1, <1>2, <1>3 DEF Wakes, Waiting
<1>5. BqTypes'
  <2>1. bqAt' \in [BqActors -> BqStates]
    BY Zenon, <1>1 DEF BqInv, BqTypes, BqStates
  <2>2. ASSUME NEW u \in BqThreads, bqAt'[u] \in {"asleep", "awake", "expired"}
        PROVE  bqCall'[u] = bqCall[u] /\ bqAt[u] \in {"asleep", "awake", "expired"}
    BY ZenonT(30), <1>2, <1>4, <2>2, WakesWhom, Actors DEF Wakes
  <2>3. DOMAIN bqCall' = BqThreads
    BY Zenon, <1>2
  <2> QED
    BY ZenonT(30), <1>2, <2>1, <2>2, <2>3 DEF BqInv, BqTypes
<1>6. \A notice \in Notices :
        Due(notice) \in Nat /\ Due(notice)' = Due(notice) - (IF bqAt[t] = notice THEN 1 ELSE 0)
  BY ZenonT(30), <1>4, WakesDue, CountsAre
<1>7. /\ Asleep(BqConsumers)' => Asleep(BqConsumers)
      /\ Asleep(BqProducers)' => Asleep(BqProducers)
  BY Zenon, <1>4, WakesSleepers
<1>8. \A T \in {BqConsumers, BqProducers} :
        (\A u \in T : bqAt[u] = "asleep" => u \in woken) => ~Asleep(T)'
  BY Zenon, <1>4, WakesSleepers
<1>9. \A T \in {BqConsumers, BqProducers} :
        /\ woken \cap T = {} => Stirring(T)' = Stirring(T)
        /\ \A u \in T : woken = {u} => Stirring(T)' = Stirring(T) + 1
  BY Zenon, <1>4, WakesStirring
<1>10. BqProducers \cap BqConsumers = {}
  BY Zenon, BqThreadsAssumption
<1>11. CASE bqAt[t] = "everyone"
  <2>1. \A u \in BqThreads : bqAt[u] = "asleep" => u \in woken
    BY Zenon, <1>3, <1>11 DEF Waiting
  <2>2. ~Asleep(BqConsumers)' /\ ~Asleep(BqProducers)'
    BY ZenonT(30), <1>8, <2>1, Actors
  <2>3. WakeupsReach'
    BY ZenonT(30), <2>2 DEF WakeupsReach
  <2> QED
    BY Zenon, <1>5, <2>3 DEF BqInv
<1>12. CASE bqAt[t] = "one_consumer"
  <2>1. woken \cap BqProducers = {}
    BY ZenonT(30), <1>3, <1>10, <1>12 DEF Waiting
  <2>2. \/ \A u \in BqConsumers : bqAt[u] = "asleep" => u \in woken
        \/ \E u \in BqConsumers : woken = {u}
    BY Zenon, <1>3, <1>12, Actors DEF Waiting
  <2>3. Stirring(BqProducers)' = Stirring(BqProducers)
    BY Zenon, <1>9, <2>1
  <2>4. ~Asleep(BqConsumers)' \/ Stirring(BqConsumers)' = Stirring(BqConsumers) + 1
    BY ZenonT(30), <1>8, <1>9, <2>2
  <2>5. WakeupsReach'
    BY SMTT(30), <1>2, <1>6, <1>7, <1>12, <2>3, <2>4, CountsAre DEF BqInv, WakeupsReach, Notices
  <2> QED
    BY Zenon, <1>5, <2>5 DEF BqInv
<1>13. CASE bqAt[t] = "one_producer"
  <2>1. woken \cap BqConsumers = {}
    BY ZenonT(30), <1>3, <1>10, <1>13 DEF Waiting
  <2>2. \/ \A u \in BqProducers : bqAt[u] = "asleep" => u \in woken
        \/ \E u \in BqProducers : woken = {u}
    BY ZenonT(30), <1>3, <1>13, Actors DEF Waiting
  <2>3. Stirring(BqConsumers)' = Stirring(BqConsumers)
    BY Zenon, <1>9, <2>1
  <2>4. ~Asleep(BqProducers)' \/ Stirring(BqProducers)' = Stirring(BqProducers) + 1
    BY ZenonT(30), <1>8, <1>9, <2>2
  <2>5. BqCapacity \in Nat /\ Len(bqItems) \in Nat
    BY BqSizesAssumption DEF BqInv, BqTypes
  <2>6. WakeupsReach'
    BY SMTT(30), <1>2, <1>6, <1>7, <1>13, <2>3, <2>4, <2>5, CountsAre DEF BqInv, WakeupsReach, Notices
  <2> QED
    BY Zenon, <1>5, <2>6 DEF BqInv
<1>14. CASE bqAt[t] = "all_producers"
  <2>1. woken \cap BqConsumers = {} /\ \A u \in BqProducers : bqAt[u] = "asleep" => u \in woken
    BY ZenonT(30), <1>3, <1>10, <1>14, Actors DEF Waiting
  <2>2. Stirring(BqConsumers)' = Stirring(BqConsumers) /\ ~Asleep(BqProducers)'
    BY ZenonT(30), <1>8, <1>9, <2>1
  <2>3. WakeupsReach'
    BY SMTT(30), <1>2, <1>6, <1>7, <1>14, <2>2 DEF BqInv, WakeupsReach, Notices
  <2> QED
    BY Zenon, <1>5, <2>3 DEF BqInv
<1> QED
  BY ZenonT(30), <1>2, <1>11, <1>12, <1>13, <1>14 DEF Notices
-----------------------------------------------------------------------------
\* The queue starts empty, with nobody asleep.
LEMMA BqInitially == BqInit => BqInv
<1> SUFFICES ASSUME BqInit PROVE BqInv
  BY Zenon
<1>1. BqTypes
  <2>1. bqItems \in Seq(Nat) /\ bqAccepted \in Nat
    BY DEF BqInit
  <2>2. bqClosed \in BOOLEAN
    BY Zenon DEF BqInit
  <2>3. DOMAIN bqCall = BqThreads /\ \A t \in BqThreads : bqAt[t] = "idle"
    BY Zenon, Actors DEF BqInit
  <2>4. bqAt \in [BqActors -> BqStates]
    BY Zenon DEF BqInit, BqStates
  <2> QED
    BY ZenonT(30), <2>1, <2>2, <2>3, <2>4 DEF BqTypes
<1>2. \A T \in {BqConsumers, BqProducers} : {u \in T : bqAt[u] \in {"asleep"}} = {}
  BY Zenon, Actors DEF BqInit
<1>3. ~Asleep(BqConsumers) /\ ~Asleep(BqProducers)
  BY <1>2, FS_EmptySet DEF Asleep, Count
<1> QED
  BY Zenon, <1>1, <1>3 DEF BqInv, WakeupsReach

\* Every step of every thread serves whoever sleeps.
LEMMA BqServes == BqInv /\ [BqNext]_bqVars => BqInv'
<1> SUFFICES ASSUME BqInv, [BqNext]_bqVars PROVE BqInv'
  BY Zenon
<1>1. ASSUME NEW t \in BqThreads, BqEnter(t) \/ BqResume(t) PROVE BqInv'
  <2>1. /\ bqAt[t] \in {"idle", "awake", "expired"}
        /\ \/ \E call : (call = "PushFor" <=> t \in BqProducers) /\ WaitOn(t, call)
           \/ /\ bqClosed \/ bqAt[t] = "idle"
              /\ Return(t) /\ UNCHANGED <<bqItems, bqClosed, bqAccepted>>
           \/ t \in BqProducers /\ \E call : Accept(t, call)
           \/ /\ t \in BqConsumers /\ bqItems # <<>> /\ bqItems' = Tail(bqItems)
              /\ \E call : BqMove(t, call, "one_producer")
              /\ UNCHANGED <<bqClosed, bqAccepted>>
           \/ /\ t \in BqConsumers /\ bqItems # <<>>
              /\ bqItems' = SubSeq(bqItems, BatchSize + 1, Len(bqItems))
              /\ \E call : BqMove(t, call, "all_producers")
              /\ UNCHANGED <<bqClosed, bqAccepted>>
    BY Zenon, <1>1, CallOutcomes DEF BqInv
  <2>2. CASE \E call : (call = "PushFor" <=> t \in BqProducers) /\ WaitOn(t, call)
    <3>1. bqAt[t] \in {"idle", "awake"}
      BY Zenon, <2>1, <2>2 DEF WaitOn
    <3> QED
      BY ZenonT(30), <2>2, <3>1, WaitServes
  <2> QED
    BY SMTT(30), <2>1, <2>2, ReturnServes, AcceptServes, PopServes, BatchServes
<1>2. CASE UNCHANGED bqVars
  BY Zenon, <1>2 DEF BqInv, BqTypes, WakeupsReach, Asleep, Stirring, Due, Count, bqVars
<1> QED
  BY ZenonT(30), <1>1, <1>2, GiveUpServes, StirServes, NotifyServes, CloseServes DEF BqNext

\* No wake-up of a BoundedBlockingQueue is lost, for any number of threads on
\* either side and any capacity: whoever sleeps while there is something for
\* it is outnumbered by those that are up or about to be notified.
THEOREM WakeupsAreKept == BqSpec => []WakeupsReach
<1>1. BqInv => WakeupsReach
  BY Zenon DEF BqInv
<1> QED
  BY <1>1, BqInitially, BqServes, PTL DEF BqSpec
=============================================================================
