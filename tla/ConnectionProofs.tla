-------------------------- MODULE ConnectionProofs --------------------------
(***************************************************************************)
(* Proofs about Connection, for any sizes, limits and water marks: the     *)
(* output queue, its byte count and its registration belong together.      *)
(***************************************************************************)
EXTENDS Connection, FiniteSetTheorems, TLAPS

\* A buffer of output_.
Chunk == [size : Nat, sent : Nat]

\* The bytes of buffer i from one position to another.
Bytes(i, a, b) == {i} \X (a + 1 .. b)

\* Every queued buffer still has something to send.
Pending(chunks) == \A i \in 1 .. Len(chunks) : chunks[i].sent < chunks[i].size

-----------------------------------------------------------------------------
(***************************************************************************)
(* Counting what the queued buffers have left.                             *)
(***************************************************************************)
\* What a queued buffer is.
LEMMA ChunkFields ==
  ASSUME NEW chunks \in Seq(Chunk), Pending(chunks), NEW i \in 1 .. Len(chunks)
  PROVE  /\ chunks[i] \in Chunk
         /\ chunks[i].sent \in Nat /\ chunks[i].size \in Nat
         /\ chunks[i].sent <= chunks[i].size /\ chunks[i].sent < chunks[i].size
<1>1. chunks[i] \in Chunk
  OBVIOUS
<1>2. PICK c \in Chunk : c = chunks[i]
  BY <1>1
<1>3. c.sent \in Nat /\ c.size \in Nat
  BY DEF Chunk
<1>4. c.sent < c.size
  BY Zenon, <1>2 DEF Pending
<1>5. c.sent <= c.size
  BY <1>3, <1>4
<1>6. QED
  BY Zenon, <1>1, <1>2, <1>3, <1>4, <1>5

\* The bytes from one position of a buffer to another.
LEMMA RowSize ==
  ASSUME NEW i, NEW a \in Nat, NEW b \in Nat, a <= b
  PROVE  IsFiniteSet(Bytes(i, a, b)) /\ Cardinality(Bytes(i, a, b)) = b - a
<1>1. IsFiniteSet({i}) /\ Cardinality({i}) = 1
  BY FS_Singleton
<1>2. IsFiniteSet(a + 1 .. b) /\ Cardinality(a + 1 .. b) = b - a
  <2>1. PICK c \in Int : c = a + 1
    OBVIOUS
  <2>2. b \in Int
    OBVIOUS
  <2>3. IsFiniteSet(c .. b) /\ Cardinality(c .. b) = IF c > b THEN 0 ELSE b - c + 1
    BY Zenon, <2>2, FS_Interval
  <2>4. (IF c > b THEN 0 ELSE b - c + 1) = b - a
    BY <2>1
  <2>5. QED
    BY Zenon, <2>1, <2>3, <2>4
<1>3. IsFiniteSet(Bytes(i, a, b))
      /\ Cardinality(Bytes(i, a, b)) = Cardinality({i}) * Cardinality(a + 1 .. b)
  BY Zenon, <1>1, <1>2, FS_Product DEF Bytes
<1>4. QED
  BY <1>1, <1>2, <1>3

\* A queue has finitely many bytes to send.
LEMMA UnsentFinite ==
  ASSUME NEW chunks \in Seq(Chunk), NEW j \in 0 .. Len(chunks), Pending(chunks)
  PROVE  IsFiniteSet(Unsent(chunks, j)) /\ Ahead(chunks, j) \in Nat
<1> DEFINE Row(i) == Bytes(i, chunks[i].sent, chunks[i].size)
           Rows == {Row(i) : i \in 1 .. j}
           f == [i \in 1 .. j |-> Row(i)]
<1>1. \A i \in 1 .. j : IsFiniteSet(Row(i))
  <2>1. \A i \in 1 .. j : chunks[i].sent \in Nat /\ chunks[i].size \in Nat
                          /\ chunks[i].sent <= chunks[i].size
    BY ChunkFields
  <2>2. QED
    BY Zenon, <2>1, RowSize
<1>2. IsFiniteSet(1 .. j)
  BY FS_Interval
<1> HIDE DEF Row
<1>3. f \in Surjection(1 .. j, Rows)
  BY DEF Surjection
<1>4. IsFiniteSet(Rows)
  <2> HIDE DEF f, Rows
  <2> QED BY Zenon, <1>2, <1>3, FS_Surjection
<1>5. \A R \in Rows : IsFiniteSet(R)
  BY Zenon, <1>1
<1>6. IsFiniteSet(UNION Rows)
  <2> HIDE DEF Rows
  <2> QED BY Zenon, <1>4, <1>5, FS_UNION
<1>7. IsFiniteSet(Unsent(chunks, j))
  BY Zenon, <1>6 DEF Unsent, Row, Bytes
<1>8. QED
  BY Zenon, <1>7, FS_CardinalityType DEF Ahead

\* No buffers, no bytes.
LEMMA NoneAhead ==
  ASSUME NEW chunks
  PROVE  Ahead(chunks, 0) = 0
<1>1. Unsent(chunks, 0) = {}
  BY DEF Unsent
<1>2. QED
  BY Zenon, <1>1, FS_EmptySet DEF Ahead

\* One more buffer adds what it has left.
LEMMA AheadStep ==
  ASSUME NEW chunks \in Seq(Chunk), NEW j \in 0 .. Len(chunks) - 1, Pending(chunks)
  PROVE  Ahead(chunks, j + 1) = Ahead(chunks, j) + (chunks[j + 1].size - chunks[j + 1].sent)
<1> DEFINE A == Unsent(chunks, j)
           R == Bytes(j + 1, chunks[j + 1].sent, chunks[j + 1].size)
<1>1. Unsent(chunks, j + 1) = A \cup R
  BY SMT DEF Unsent, Bytes
<1>2. A \cap R = {}
  BY SMT DEF Unsent, Bytes
<1>3. IsFiniteSet(A) /\ Cardinality(A) \in Nat
  <2>1. j \in 0 .. Len(chunks)
    OBVIOUS
  <2>2. QED
    BY Zenon, <2>1, UnsentFinite DEF Ahead
<1>4. IsFiniteSet(R) /\ Cardinality(R) = chunks[j + 1].size - chunks[j + 1].sent
  <2>1. chunks[j + 1].sent \in Nat /\ chunks[j + 1].size \in Nat
        /\ chunks[j + 1].sent <= chunks[j + 1].size
    BY ChunkFields
  <2>2. QED
    BY Zenon, <2>1, RowSize
<1>5. Cardinality(A \cup R) = Cardinality(A) + Cardinality(R) - Cardinality(A \cap R)
  <2> HIDE DEF A, R
  <2> QED BY Zenon, <1>3, <1>4, FS_Union
<1>6. Cardinality(A \cap R) = 0
  BY Zenon, <1>2, FS_EmptySet
<1>7. Cardinality(R) \in Nat
  BY Zenon, <1>4, FS_CardinalityType
<1>8. QED
  <2> HIDE DEF A, R
  <2>1. PICK a \in Nat : a = Cardinality(A)
    BY <1>3
  <2>2. PICK r \in Nat : r = Cardinality(R)
    BY <1>7
  <2>3. a + r - 0 = a + r
    OBVIOUS
  <2>4. Cardinality(A \cup R) = a + r
    BY Zenon, <1>5, <1>6, <2>1, <2>2, <2>3
  <2>5. QED
    BY Zenon, <1>1, <1>4, <2>1, <2>2, <2>4 DEF Ahead, A

\* A set of numbers that is not empty has a least one.
LEMMA LeastNumber ==
  ASSUME NEW S \in SUBSET Nat, S # {}
  PROVE  \E x \in S : \A y \in S : x <= y
<1> DEFINE R == OpToRel(<, Nat)
<1>1. IsWellFoundedOn(R, Nat)
  BY Zenon, NatLessThanWellFounded
<1>2. \A x, y \in S : y < x => <<y, x>> \in R
  BY DEF OpToRel
<1> HIDE DEF R
<1>3. PICK x \in S : \A y \in S : ~(<<y, x>> \in R)
  BY Zenon, <1>1, WFMin
<1>4. \A y \in S : ~(y < x)
  BY Zenon, <1>2, <1>3
<1>5. QED
  BY <1>4

\* A queue with one more buffer has that buffer's bytes more.
LEMMA AheadAppend ==
  ASSUME NEW chunks \in Seq(Chunk), Pending(chunks), NEW size \in Nat, size # 0
  PROVE  LET c == Append(chunks, [size |-> size, sent |-> 0])
         IN /\ c \in Seq(Chunk) /\ Pending(c) /\ c # << >>
            /\ Ahead(c, Len(c)) = Ahead(chunks, Len(chunks)) + size
<1> DEFINE e == [size |-> size, sent |-> 0]
           c == Append(chunks, e)
           n == Len(chunks)
<1>1. e \in Chunk /\ e.sent = 0 /\ e.size = size
  BY DEF Chunk
<1> HIDE DEF e
<1>2. /\ c \in Seq(Chunk) /\ Len(c) = n + 1 /\ c[n + 1] = e /\ n \in Nat
      /\ \A i \in 1 .. n : c[i] = chunks[i]
  BY <1>1
<1> HIDE DEF c
<1>3. c # << >>
  BY <1>2
<1>4. Pending(c)
  <2>1. ASSUME NEW i \in 1 .. Len(c)
        PROVE  c[i].sent < c[i].size
    <3>1. CASE i \in 1 .. n
      BY Zenon, <1>2, <3>1 DEF Pending, n
    <3>2. CASE i = n + 1
      <4>1. 0 < size
        OBVIOUS
      <4>2. QED
        BY Zenon, <1>1, <1>2, <3>2, <4>1
    <3>3. QED
      BY <1>2, <3>1, <3>2
  <2>2. QED
    BY Zenon, <2>1 DEF Pending
<1>5. Unsent(c, n) = Unsent(chunks, n)
  BY Zenon, <1>2 DEF Unsent
<1>6. Ahead(c, n + 1) = Ahead(c, n) + (c[n + 1].size - c[n + 1].sent)
  <2>1. n \in 0 .. Len(c) - 1
    BY <1>2
  <2>2. QED
    BY Zenon, <1>2, <1>4, <2>1, AheadStep
<1>7. size - 0 = size
  OBVIOUS
<1>8. Ahead(c, n + 1) = Ahead(chunks, n) + size
  BY Zenon, <1>1, <1>2, <1>5, <1>6, <1>7 DEF Ahead
<1>9. QED
  BY Zenon, <1>2, <1>3, <1>4, <1>8 DEF c, e

\* What has been written fills some buffers and ends in the next.
LEMMA WholeBuffers ==
  ASSUME NEW chunks \in Seq(Chunk), Pending(chunks), NEW n \in Nat
  PROVE  \E j \in 0 .. Len(chunks) : /\ Ahead(chunks, j) <= n
                                     /\ j = Len(chunks) \/ n < Ahead(chunks, j + 1)
<1> DEFINE last == Len(chunks)
           S == {j \in 0 .. last : j = last \/ n < Ahead(chunks, j + 1)}
<1>1. last \in Nat
  OBVIOUS
<1>2. \A j \in 0 .. last : Ahead(chunks, j) \in Nat
  BY Zenon, UnsentFinite
<1> HIDE DEF last
<1>3. S \in SUBSET Nat /\ last \in S
  BY <1>1
<1>4. PICK j \in S : \A k \in S : j <= k
  <2> HIDE DEF S
  <2> QED BY Zenon, <1>3, LeastNumber
<1>5. CASE j = 0
  <2>1. Ahead(chunks, j) <= n
    BY <1>5, NoneAhead
  <2>2. QED
    BY Zenon, <2>1 DEF last
<1>6. CASE j # 0
  <2>1. PICK k \in 0 .. last : j = k + 1
    BY <1>1, <1>6
  <2>2. k \notin S
    BY <1>1, <1>4, <2>1
  <2>3. ~(n < Ahead(chunks, j))
    BY Zenon, <2>1, <2>2
  <2>4. Ahead(chunks, j) <= n
    BY <1>2, <2>3
  <2>5. QED
    BY Zenon, <2>4 DEF last
<1>7. QED
  BY Zenon, <1>5, <1>6

\* Taking written bytes off the queue leaves a queue that has that much less.
LEMMA ConsumeKeeps ==
  ASSUME NEW chunks \in Seq(Chunk), Pending(chunks),
         NEW n \in Nat, n <= Ahead(chunks, Len(chunks))
  PROVE  LET c == Consume(chunks, n)
         IN /\ c \in Seq(Chunk) /\ Pending(c)
            /\ Ahead(c, Len(c)) = Ahead(chunks, Len(chunks)) - n
<1> DEFINE last == Len(chunks)
           Whole(j) == /\ Ahead(chunks, j) <= n
                       /\ j = last \/ n < Ahead(chunks, j + 1)
           w == CHOOSE j \in 0 .. last : Whole(j)
           c == Consume(chunks, n)
           m == last - w
<1>1. w \in 0 .. last /\ Whole(w)
  <2>1. \E j \in 0 .. last : Whole(j)
    BY Zenon, WholeBuffers
  <2> HIDE DEF Whole
  <2>2. QED
    BY Zenon, <2>1
<1>2. c = [i \in 1 .. m |->
             IF i > 1 THEN chunks[w + i]
             ELSE [chunks[w + i] EXCEPT !.sent = @ + (n - Ahead(chunks, w))]]
  BY Zenon DEF Consume
<1>3. last \in Nat
  OBVIOUS
<1> HIDE DEF w, c, last
<1>4. m \in Nat /\ w \in Nat
  BY <1>1, <1>3
<1>5. \A j \in 0 .. last : Ahead(chunks, j) \in Nat
  BY Zenon, UnsentFinite DEF last
<1>6. CASE m = 0
  <2>1. w = last
    BY <1>1, <1>3, <1>6
  <2>2. c = << >>
    BY <1>2, <1>6
  <2>3. c \in Seq(Chunk) /\ Len(c) = 0 /\ Pending(c)
    BY <2>2 DEF Pending
  <2>4. Ahead(chunks, last) = n
    BY <1>1, <1>3, <1>5, <2>1 DEF last
  <2>5. n - n = 0
    OBVIOUS
  <2>6. QED
    BY Zenon, <2>3, <2>4, <2>5, NoneAhead DEF c, last
<1>7. CASE m # 0
  <2>1. w + 1 \in 1 .. last /\ w \in 0 .. last - 1 /\ w # last
    BY <1>1, <1>3, <1>4, <1>7
  <2>2. PICK front \in Chunk : /\ front = chunks[w + 1] /\ front.sent \in Nat
                               /\ front.size \in Nat /\ front.sent < front.size
    BY Zenon, <2>1, ChunkFields DEF last
  <2>3. PICK a \in Nat : a = Ahead(chunks, w)
    BY <1>1, <1>5
  <2>4. Ahead(chunks, w + 1) = a + (front.size - front.sent)
    BY Zenon, <2>1, <2>2, <2>3, AheadStep DEF last
  <2>5. a <= n /\ n < a + (front.size - front.sent)
    BY Zenon, <1>1, <2>1, <2>3, <2>4
  <2> DEFINE s == front.sent + (n - a)
  <2>6. s \in Nat /\ s < front.size
    BY SMTT(30), <2>2, <2>5
  <2>7. c[1] = [front EXCEPT !.sent = s] /\ c[1] \in Chunk
        /\ c[1].sent = s /\ c[1].size = front.size
    <3>1. 1 \in 1 .. m /\ ~(1 > 1)
      BY <1>4, <1>7
    <3>2. c[1] = [chunks[w + 1] EXCEPT !.sent = @ + (n - Ahead(chunks, w))]
      BY Zenon, <1>2, <3>1
    <3>3. c[1] = [front EXCEPT !.sent = front.sent + (n - a)]
      BY Zenon, <2>2, <2>3, <3>2
    <3> HIDE DEF s
    <3>4. [front EXCEPT !.sent = s] \in Chunk /\ [front EXCEPT !.sent = s].sent = s
          /\ [front EXCEPT !.sent = s].size = front.size
      BY SMTT(30), <2>2, <2>6 DEF Chunk
    <3>5. QED
      BY Zenon, <3>3, <3>4 DEF s
  <2> HIDE DEF s
  <2>8. \A i \in 2 .. m : c[i] = chunks[w + i] /\ w + i \in 1 .. last
    BY <1>1, <1>2, <1>3, <1>4
  <2>9. c \in Seq(Chunk) /\ Len(c) = m
    <3>1. \A i \in 1 .. m : c[i] \in Chunk
      <4>1. \A i \in 2 .. m : c[i] \in Chunk
        BY Zenon, <2>8, ChunkFields DEF last
      <4>2. QED
        BY <1>4, <2>7, <4>1
    <3>2. DOMAIN c = 1 .. m /\ c = [i \in 1 .. m |-> c[i]]
      BY Zenon, <1>2
    <3> HIDE DEF m
    <3>3. c \in [1 .. m -> Chunk]
      BY Zenon, <3>1, <3>2
    <3>4. QED
      BY <1>4, <3>3
  <2>10. Pending(c)
    <3>1. \A i \in 2 .. m : c[i].sent < c[i].size
      BY Zenon, <2>8 DEF Pending, last
    <3>2. \A i \in 1 .. m : i = 1 \/ i \in 2 .. m
      BY <1>4
    <3>3. QED
      BY Zenon, <2>6, <2>7, <2>9, <3>1, <3>2 DEF Pending
  <2>11. \A j \in 0 .. m : Ahead(c, j) \in Nat
    BY Zenon, <2>9, <2>10, UnsentFinite
  <2> DEFINE Less(j) == Ahead(c, j) = Ahead(chunks, w + j) - n
             S == {j \in 1 .. m : ~Less(j)}
  <2>12. Less(1)
    <3>1. Ahead(c, 1) = Ahead(c, 0) + (front.size - s)
      <4>1. 0 \in 0 .. Len(c) - 1 /\ 0 + 1 = 1
        BY <1>4, <1>7, <2>9
      <4>2. \A j \in 0 .. Len(c) - 1 :
              Ahead(c, j + 1) = Ahead(c, j) + (c[j + 1].size - c[j + 1].sent)
        BY Zenon, <2>9, <2>10, AheadStep
      <4>3. Ahead(c, 1) = Ahead(c, 0) + (c[1].size - c[1].sent)
        BY Zenon, <4>1, <4>2
      <4>4. QED
        BY Zenon, <2>7, <4>3
    <3>2. 0 + (front.size - s) = (a + (front.size - front.sent)) - n
      BY SMTT(30), <2>2, <2>3 DEF s
    <3>3. QED
      BY Zenon, <2>4, <3>1, <3>2, NoneAhead
  <2>13. ASSUME NEW j \in 1 .. m - 1, Less(j)
         PROVE  Less(j + 1)
    <3>1. j + 1 \in 2 .. m /\ j \in 0 .. Len(c) - 1 /\ j \in 0 .. m
          /\ w + j \in 0 .. last - 1 /\ w + j \in 0 .. last /\ w + (j + 1) = (w + j) + 1
      BY <1>1, <1>3, <1>4, <2>9
    <3>2. PICK d \in Chunk : /\ d = c[j + 1] /\ d = chunks[w + (j + 1)]
                             /\ d.size \in Nat /\ d.sent \in Nat
      BY Zenon, <2>8, <3>1, ChunkFields DEF last
    <3>3. PICK x \in Nat : x = Ahead(c, j)
      BY <2>11, <3>1
    <3>4. PICK y \in Nat : y = Ahead(chunks, w + j)
      BY <1>5, <3>1
    <3>5. Ahead(c, j + 1) = x + (d.size - d.sent)
      BY Zenon, <2>9, <2>10, <3>1, <3>2, <3>3, AheadStep
    <3>6. Ahead(chunks, w + (j + 1)) = y + (d.size - d.sent)
      BY Zenon, <3>1, <3>2, <3>4, AheadStep DEF last
    <3>7. x = y - n
      BY Zenon, <2>13, <3>3, <3>4
    <3>8. x + (d.size - d.sent) = (y + (d.size - d.sent)) - n
      BY SMTT(30), <3>2, <3>7
    <3>9. QED
      BY Zenon, <3>5, <3>6, <3>8
  <2> HIDE DEF Less
  <2>14. S = {}
    <3>1. SUFFICES ASSUME S # {}
                   PROVE  FALSE
      OBVIOUS
    <3>2. S \in SUBSET Nat
      BY <1>4
    <3>3. PICK j \in S : \A k \in S : j <= k
      <4> HIDE DEF S
      <4> QED BY Zenon, <3>1, <3>2, LeastNumber
    <3>4. j # 1
      BY Zenon, <2>12
    <3>5. PICK k \in 1 .. m - 1 : j = k + 1 /\ k \in 1 .. m
      BY <1>4, <3>4
    <3>6. ~(j <= k)
      BY <3>5
    <3>7. Less(k)
      BY Zenon, <3>3, <3>5, <3>6
    <3>8. QED
      BY Zenon, <2>13, <3>5, <3>7
  <2>15. Less(m)
    <3>1. m \in 1 .. m
      BY <1>4, <1>7
    <3>2. QED
      BY Zenon, <2>14, <3>1
  <2>16. w + m = last
    BY <1>1, <1>3
  <2>17. QED
    BY Zenon, <2>9, <2>10, <2>15, <2>16 DEF Less, c, last
<1>8. QED
  BY Zenon, <1>6, <1>7

-----------------------------------------------------------------------------
(***************************************************************************)
(* The output side.                                                        *)
(***************************************************************************)
OutputType == [chunks : Seq(Chunk), bytes : Nat, paused : BOOLEAN, want : BOOLEAN,
               drain : BOOLEAN, closing : BOOLEAN, mask : SUBSET {"read", "write"}]

\* output_bytes_ counts what the queued buffers have left, below the ceiling.
Queued(o) ==
  /\ o \in OutputType
  /\ Pending(o.chunks)
  /\ o.bytes = Ahead(o.chunks, Len(o.chunks))
  /\ o.bytes <= OutputMax

\* Until it closes, want_write_ says whether something is queued, the poller
\* knows that and whether reads are paused, and they are only above the low
\* water mark.
Fits(o) ==
  ~o.closing =>
    /\ o.want <=> o.chunks # << >>
    /\ "write" \in o.mask <=> o.want
    /\ "read" \in o.mask <=> ~o.paused
    /\ o.paused => o.bytes > LowWater

\* The fields of the output side.
LEMMA OutputFields ==
  ASSUME NEW o, Queued(o)
  PROVE  /\ o \in OutputType /\ o.chunks \in Seq(Chunk) /\ o.bytes \in Nat
         /\ o.paused \in BOOLEAN /\ o.want \in BOOLEAN /\ o.drain \in BOOLEAN
         /\ o.closing \in BOOLEAN /\ o.mask \in SUBSET {"read", "write"}
         /\ Pending(o.chunks) /\ o.bytes = Ahead(o.chunks, Len(o.chunks))
         /\ o.bytes <= OutputMax
<1>1. o \in OutputType
  BY Zenon DEF Queued
<1>2. /\ o.chunks \in Seq(Chunk) /\ o.bytes \in Nat
      /\ o.paused \in BOOLEAN /\ o.want \in BOOLEAN /\ o.drain \in BOOLEAN
      /\ o.closing \in BOOLEAN /\ o.mask \in SUBSET {"read", "write"}
  BY <1>1 DEF OutputType
<1>3. QED
  BY Zenon, <1>1, <1>2 DEF Queued

\* CloseNow leaves the queue alone.
LEMMA CloseKeeps ==
  ASSUME NEW o, Queued(o)
  PROVE  Queued(CloseNow(o)) /\ Fits(CloseNow(o))
<1>1. o \in OutputType
  BY Zenon DEF Queued
<1>2. /\ CloseNow(o) \in OutputType /\ CloseNow(o).chunks = o.chunks
      /\ CloseNow(o).bytes = o.bytes /\ CloseNow(o).closing
  BY Zenon, <1>1 DEF CloseNow, OutputType
<1>3. QED
  BY Zenon, <1>2 DEF Queued, Fits

\* UpdatePollRegistration makes the registration fit, once want_write_ does.
LEMMA UpdateKeeps ==
  ASSUME NEW o, Queued(o), o.want <=> o.chunks # << >>
  PROVE  Queued(UpdatePollRegistration(o)) /\ Fits(UpdatePollRegistration(o))
<1> DEFINE q == UpdatePollRegistration(o)
           p == IF o.paused THEN o.bytes > LowWater ELSE o.bytes >= HighWater
           events == {e \in {"read", "write"} :
                        \/ e = "read" /\ ~p
                        \/ e = "write" /\ o.want}
<1>1. o \in OutputType /\ o.bytes \in Nat /\ o.want \in BOOLEAN
  BY OutputFields
<1>2. CASE o.closing
  BY Zenon, <1>2 DEF UpdatePollRegistration, Fits
<1>3. CASE ~o.closing
  <2>1. q = [o EXCEPT !.paused = p, !.mask = events]
    BY Zenon, <1>3 DEF UpdatePollRegistration
  <2>2. p \in BOOLEAN /\ (p => o.bytes > LowWater)
    <3>1. PICK b \in Nat : b = o.bytes
      BY <1>1
    <3>2. (b > LowWater) \in BOOLEAN /\ (b >= HighWater) \in BOOLEAN
          /\ (b >= HighWater => b > LowWater)
      BY WatersAssumption
    <3>3. QED
      BY Zenon, <3>1, <3>2
  <2> HIDE DEF p
  <2>3. events \in SUBSET {"read", "write"} /\ ("write" \in events <=> o.want)
        /\ ("read" \in events <=> ~p)
    BY <1>1
  <2> HIDE DEF events, q
  <2>4. /\ q \in OutputType /\ q.chunks = o.chunks /\ q.bytes = o.bytes
        /\ q.want = o.want /\ q.paused = p /\ q.mask = events
    BY Zenon, <1>1, <2>1, <2>2, <2>3 DEF OutputType
  <2>5. Queued(q)
    BY Zenon, <2>4 DEF Queued
  <2>6. Fits(q)
    BY Zenon, <2>2, <2>3, <2>4 DEF Fits
  <2>7. QED
    BY Zenon, <2>5, <2>6 DEF q
<1>4. QED
  BY Zenon, <1>2, <1>3

\* What the kernel takes.
LEMMA WritableBounds ==
  ASSUME NEW o, o.bytes \in Nat, kernel \in 0 .. KernelBytes
  PROVE  /\ Writable(o) \in Nat /\ Writable(o) <= o.bytes
         /\ kernel + Writable(o) \in 0 .. KernelBytes
<1> DEFINE S == {o.bytes, KernelBytes - kernel}
<1>1. S \in SUBSET Nat /\ S # {}
  BY SizesAssumption
<1>2. PICK x \in S : \A y \in S : x <= y
  <2> HIDE DEF S
  <2> QED BY Zenon, <1>1, LeastNumber
<1>3. Writable(o) \in S /\ \A y \in S : Writable(o) <= y
  BY Zenon, <1>2 DEF Writable, Min
<1>4. QED
  BY <1>3, SizesAssumption

\* FlushOutput writes what the kernel takes and registers for the rest.
LEMMA FlushKeeps ==
  ASSUME NEW o, Queued(o), kernel \in 0 .. KernelBytes
  PROVE  Queued(FlushOutput(o)) /\ Fits(FlushOutput(o))
<1> DEFINE n == Writable(o)
           c == Consume(o.chunks, n)
           w == [o EXCEPT !.chunks = c, !.bytes = @ - n]
           x == [w EXCEPT !.want = TRUE]
           y == [w EXCEPT !.want = FALSE]
<1>1. o \in OutputType /\ o.chunks \in Seq(Chunk) /\ o.bytes \in Nat /\ Pending(o.chunks)
      /\ o.bytes = Ahead(o.chunks, Len(o.chunks)) /\ o.bytes <= OutputMax
  BY Zenon, OutputFields
<1>2. n \in Nat /\ n <= o.bytes
  BY Zenon, <1>1, WritableBounds
<1>3. c \in Seq(Chunk) /\ Pending(c) /\ Ahead(c, Len(c)) = o.bytes - n
  <2> HIDE DEF n
  <2> QED BY Zenon, <1>1, <1>2, ConsumeKeeps
<1> HIDE DEF n, c
<1>4. o.bytes - n \in Nat /\ o.bytes - n <= OutputMax
  BY <1>1, <1>2, SizesAssumption
<1>5. /\ x \in OutputType /\ x.chunks = c /\ x.bytes = o.bytes - n /\ x.want = TRUE
      /\ y \in OutputType /\ y.chunks = c /\ y.bytes = o.bytes - n /\ y.want = FALSE
      /\ w.chunks = c
  BY Zenon, <1>1, <1>3, <1>4 DEF OutputType
<1> HIDE DEF w, x, y
<1>6. Queued(x) /\ Queued(y)
  BY Zenon, <1>3, <1>4, <1>5 DEF Queued
<1>7. FlushOutput(o) = IF o.chunks # << >> /\ reset THEN CloseNow(o)
                       ELSE IF w.chunks # << >> THEN UpdatePollRegistration(x)
                       ELSE IF o.drain THEN CloseNow(y)
                       ELSE UpdatePollRegistration(y)
  BY Zenon DEF FlushOutput, x, y, w, c, n
<1>8. CASE o.chunks # << >> /\ reset
  BY Zenon, <1>7, <1>8, CloseKeeps
<1>9. CASE ~(o.chunks # << >> /\ reset) /\ w.chunks # << >>
  <2>1. x.want <=> x.chunks # << >>
    BY Zenon, <1>5, <1>9
  <2>2. QED
    BY Zenon, <1>6, <1>7, <1>9, <2>1, UpdateKeeps
<1>10. CASE ~(o.chunks # << >> /\ reset) /\ w.chunks = << >> /\ o.drain
  BY Zenon, <1>6, <1>7, <1>10, CloseKeeps
<1>11. CASE ~(o.chunks # << >> /\ reset) /\ w.chunks = << >> /\ ~o.drain
  <2>1. y.want <=> y.chunks # << >>
    BY Zenon, <1>5, <1>11
  <2>2. QED
    BY Zenon, <1>6, <1>7, <1>11, <2>1, UpdateKeeps
<1>12. QED
  BY Zenon, <1>8, <1>9, <1>10, <1>11

-----------------------------------------------------------------------------
(***************************************************************************)
(* The connection.                                                         *)
(***************************************************************************)
ConnectionInv ==
  /\ TypeOK /\ wire <= sent
  /\ Queued(out) /\ Fits(out)

\* SendFrame queues a frame and writes what it can, or closes.
LEMMA SendKeeps ==
  ASSUME NEW size \in ResponseSizes, SendFrame(size),
         Queued(out), Fits(out), kernel \in 0 .. KernelBytes
  PROVE  Queued(out') /\ Fits(out') /\ kernel' \in 0 .. KernelBytes
<1> DEFINE e == [size |-> size, sent |-> 0]
           c == Append(out.chunks, e)
           o == [out EXCEPT !.bytes = @ + size, !.chunks = Append(@, e)]
<1>1. out \in OutputType /\ out.chunks \in Seq(Chunk) /\ out.bytes \in Nat
      /\ Pending(out.chunks) /\ out.bytes = Ahead(out.chunks, Len(out.chunks))
  BY Zenon, OutputFields
<1>2. CASE out.closing
  BY Zenon, <1>2 DEF SendFrame
<1>3. CASE ~out.closing /\ out.bytes + size > OutputMax
  BY Zenon, <1>3, CloseKeeps DEF SendFrame
<1>4. CASE ~out.closing /\ ~(out.bytes + size > OutputMax)
  <2>1. size \in Nat /\ size # 0
    BY SizesAssumption
  <2>2. c \in Seq(Chunk) /\ Pending(c) /\ c # << >> /\ Ahead(c, Len(c)) = out.bytes + size
    BY Zenon, <1>1, <2>1, AheadAppend
  <2>3. out.bytes + size \in Nat /\ out.bytes + size <= OutputMax
    BY <1>1, <1>4, <2>1, SizesAssumption
  <2> HIDE DEF e
  <2>4. o = [out EXCEPT !.bytes = out.bytes + size, !.chunks = c]
    BY Zenon
  <2> HIDE DEF c
  <2>5. o \in OutputType /\ o.chunks = c /\ o.bytes = out.bytes + size
    <3> HIDE DEF o
    <3> QED BY Zenon, <1>1, <2>2, <2>3, <2>4 DEF OutputType
  <2>6. out' = FlushOutput(o)
        /\ kernel' = IF o.chunks # << >> /\ reset THEN kernel ELSE kernel + Writable(o)
    BY Zenon, <1>4 DEF SendFrame, Flush, e
  <2> HIDE DEF o
  <2>7. Queued(o)
    BY Zenon, <2>2, <2>3, <2>5 DEF Queued
  <2>8. Queued(out') /\ Fits(out')
    BY Zenon, <2>6, <2>7, FlushKeeps
  <2>9. kernel + Writable(o) \in 0 .. KernelBytes
    BY Zenon, <2>3, <2>5, WritableBounds
  <2>10. QED
    BY Zenon, <2>6, <2>8, <2>9
<1>5. QED
  BY Zenon, <1>2, <1>3, <1>4

\* A callback that leaves the stream and the counters alone keeps the invariant
\* when it keeps the output side.
LEMMA OutputOnly ==
  ASSUME ConnectionInv, Queued(out'), Fits(out'), kernel' \in 0 .. KernelBytes,
         UNCHANGED client, input' \in Nat, pc' \in {"idle", "decode"}, eof' \in BOOLEAN,
         frames' \in 0 .. MaxFrames, inflight' \in Nat, closed' \in BOOLEAN
  PROVE  ConnectionInv'
<1>1. sent' = sent /\ wire' = wire /\ fin' = fin /\ reset' = reset
  BY Zenon DEF client
<1>2. /\ sent \in 0 .. StreamBytes /\ wire \in 0 .. StreamBytes /\ wire <= sent
      /\ fin \in BOOLEAN /\ reset \in BOOLEAN
  BY Zenon DEF ConnectionInv, TypeOK
<1>3. out'.bytes \in Nat /\ out'.mask \in SUBSET {"read", "write"}
  BY Zenon, OutputFields
<1>4. out'.mask \subseteq {"read", "write"}
  BY <1>3
<1>5. TypeOK'
  BY Zenon, <1>1, <1>2, <1>3, <1>4 DEF TypeOK
<1>6. wire' <= sent'
  BY Zenon, <1>1, <1>2
<1>7. QED
  BY Zenon, <1>5, <1>6 DEF ConnectionInv, Queued, Fits, Pending

\* What the invariant says of each variable.
LEMMA ConnectionFacts ==
  ASSUME ConnectionInv
  PROVE  /\ sent \in 0 .. StreamBytes /\ wire \in 0 .. StreamBytes /\ wire <= sent
         /\ kernel \in 0 .. KernelBytes /\ input \in Nat /\ inflight \in Nat
         /\ fin \in BOOLEAN /\ reset \in BOOLEAN /\ eof \in BOOLEAN /\ closed \in BOOLEAN
         /\ pc \in {"idle", "decode"} /\ frames \in 0 .. MaxFrames
         /\ Queued(out) /\ Fits(out) /\ out.bytes \in Nat
         /\ out.mask \subseteq {"read", "write"}
BY Zenon DEF ConnectionInv, TypeOK

\* The client's steps leave the output side alone.
LEMMA ClientKeeps ==
  ASSUME ConnectionInv, ClientSends \/ ClientReads \/ ClientCloses
  PROVE  ConnectionInv'
<1>1. UNCHANGED <<input, pc, eof, frames, inflight, out, closed>>
  BY Zenon DEF ClientSends, ClientReads, ClientCloses
<1>2. /\ sent' \in 0 .. StreamBytes /\ wire' \in 0 .. StreamBytes /\ wire' <= sent'
      /\ kernel' \in 0 .. KernelBytes /\ fin' \in BOOLEAN /\ reset' \in BOOLEAN
  <2>1. CASE ClientSends
    BY <2>1, ConnectionFacts, SizesAssumption DEF ClientSends
  <2>2. CASE ClientReads
    BY <2>2, ConnectionFacts, SizesAssumption DEF ClientReads, client
  <2>3. CASE ClientCloses
    <3>1. /\ wire' = wire \/ wire' = 0
          /\ fin' \in BOOLEAN /\ reset' \in BOOLEAN /\ sent' = sent /\ kernel' = kernel
      BY Zenon, <2>3, ConnectionFacts DEF ClientCloses
    <3>2. wire' \in 0 .. StreamBytes /\ wire' <= sent
      BY <3>1, ConnectionFacts, SizesAssumption
    <3>3. QED
      BY Zenon, <3>1, <3>2, ConnectionFacts
  <2>4. QED
    BY Zenon, <2>1, <2>2, <2>3
<1>3. TypeOK'
  BY Zenon, <1>1, <1>2, ConnectionFacts DEF TypeOK
<1>4. Queued(out') /\ Fits(out')
  BY Zenon, <1>1, ConnectionFacts
<1>5. QED
  BY Zenon, <1>2, <1>3, <1>4 DEF ConnectionInv, Queued, Fits, Pending

\* OnReadable.
LEMMA ReadableKeeps ==
  ASSUME ConnectionInv, OnReadable
  PROVE  ConnectionInv'
<1> DEFINE n == Min({wire, ReadChunk})
<1>1. n \in Nat /\ n <= wire
  <2> DEFINE S == {wire, ReadChunk}
  <2>1. S \in SUBSET Nat /\ S # {}
    BY ConnectionFacts, SizesAssumption
  <2>2. PICK x \in S : \A y \in S : x <= y
    <3> HIDE DEF S
    <3> QED BY Zenon, <2>1, LeastNumber
  <2>3. n \in S /\ \A y \in S : n <= y
    BY Zenon, <2>2 DEF Min
  <2>4. QED
    BY <2>1, <2>3
<1> HIDE DEF n
<1>2. CASE n = 0 /\ input = 0
  <2>1. /\ out' = CloseNow(out) /\ UNCHANGED <<wire, input, pc, eof, frames>>
        /\ UNCHANGED <<sent, fin, reset, kernel, inflight, closed>>
    BY Zenon, <1>2 DEF OnReadable, n
  <2>2. Queued(out') /\ Fits(out')
    BY Zenon, <2>1, ConnectionFacts, CloseKeeps
  <2>3. QED
    BY Zenon, <2>1, <2>2, ConnectionFacts, OutputOnly DEF client
<1>3. CASE ~(n = 0 /\ input = 0)
  <2>1. /\ wire' = wire - n /\ input' = input + n /\ eof' = (n = 0) /\ frames' = 0
        /\ pc' = "decode" /\ UNCHANGED out
        /\ UNCHANGED <<sent, fin, reset, kernel, inflight, closed>>
    BY Zenon, <1>3 DEF OnReadable, n
  <2>2. /\ wire' \in 0 .. StreamBytes /\ wire' <= sent /\ input' \in Nat
        /\ frames' \in 0 .. MaxFrames
    BY <1>1, <2>1, ConnectionFacts, SizesAssumption
  <2>3. Queued(out') /\ Fits(out')
    BY Zenon, <2>1, ConnectionFacts
  <2>4. TypeOK'
    BY Zenon, <2>1, <2>2, ConnectionFacts DEF TypeOK
  <2>5. QED
    BY Zenon, <2>1, <2>2, <2>3, <2>4 DEF ConnectionInv, Queued, Fits, Pending
<1>4. QED
  BY Zenon, <1>2, <1>3

\* The frames of one OnReadable.
LEMMA FrameKeeps ==
  ASSUME ConnectionInv, HandleFrame \/ FramingError \/ FramesDone
  PROVE  ConnectionInv'
<1>1. CASE HandleFrame
  <2>1. Queued(out') /\ Fits(out') /\ kernel' \in 0 .. KernelBytes /\ inflight' \in Nat
    <3>1. CASE (\E size \in ResponseSizes : SendFrame(size)) /\ UNCHANGED inflight
      BY Zenon, <3>1, ConnectionFacts, SendKeeps
    <3>2. CASE inflight' = inflight + 1 /\ UNCHANGED <<out, kernel>>
      <4>1. inflight' \in Nat
        BY <3>2, ConnectionFacts
      <4>2. QED
        BY Zenon, <3>2, <4>1, ConnectionFacts
    <3>3. QED
      BY Zenon, <1>1, <3>1, <3>2 DEF HandleFrame
  <2>2. input' \in Nat /\ frames' \in 0 .. MaxFrames
    <3>1. /\ frames < MaxFrames /\ input >= FrameBytes
          /\ input' = input - FrameBytes /\ frames' = frames + 1
      BY Zenon, <1>1 DEF HandleFrame, Complete
    <3>2. QED
      BY <3>1, ConnectionFacts, SizesAssumption
  <2>3. pc' \in {"idle", "decode"} /\ UNCHANGED <<client, eof, closed>>
    BY Zenon, <1>1 DEF HandleFrame
  <2>4. QED
    BY Zenon, <2>1, <2>2, <2>3, ConnectionFacts, OutputOnly
<1>2. CASE FramingError
  <2>1. /\ out' = CloseNow(out) /\ pc' = "idle"
        /\ UNCHANGED <<client, kernel, input, eof, frames, inflight, closed>>
    BY Zenon, <1>2 DEF FramingError
  <2>2. Queued(out') /\ Fits(out')
    BY Zenon, <2>1, ConnectionFacts, CloseKeeps
  <2>3. QED
    BY Zenon, <2>1, <2>2, ConnectionFacts, OutputOnly
<1>3. CASE FramesDone
  <2>1. /\ out' = IF eof THEN CloseWhenDrained(out) ELSE UpdatePollRegistration(out)
        /\ pc' = "idle"
        /\ UNCHANGED <<client, kernel, input, eof, frames, inflight, closed>>
    BY Zenon, <1>3 DEF FramesDone
  <2>2. Queued(out') /\ Fits(out')
    <3> DEFINE d == [out EXCEPT !.drain = TRUE]
    <3>1. out \in OutputType
      BY Zenon, ConnectionFacts, OutputFields
    <3>2. /\ d \in OutputType /\ d.chunks = out.chunks /\ d.bytes = out.bytes
          /\ d.want = out.want /\ d.paused = out.paused /\ d.mask = out.mask
          /\ d.closing = out.closing
      BY ZenonT(30), <3>1 DEF OutputType
    <3> HIDE DEF d
    <3>3. Queued(d) /\ Fits(d)
      BY Zenon, <3>2, ConnectionFacts DEF Queued, Fits
    <3>4. CASE eof
      BY Zenon, <2>1, <3>3, <3>4, CloseKeeps DEF CloseWhenDrained, d
    <3>5. CASE ~eof /\ out.closing
      BY Zenon, <2>1, <3>5, ConnectionFacts DEF UpdatePollRegistration
    <3>6. CASE ~eof /\ ~out.closing
      <4>1. out.want <=> out.chunks # << >>
        BY Zenon, <3>6, ConnectionFacts DEF Fits
      <4>2. QED
        BY Zenon, <2>1, <3>6, <4>1, ConnectionFacts, UpdateKeeps
    <3>7. QED
      BY Zenon, <3>4, <3>5, <3>6
  <2>3. QED
    BY Zenon, <2>1, <2>2, ConnectionFacts, OutputOnly
<1>4. QED
  BY Zenon, <1>1, <1>2, <1>3

\* An empty queue accounts for nothing.
LEMMA EmptyQueued ==
  ASSUME NEW o \in OutputType, o.chunks = << >>, o.bytes = 0
  PROVE  Queued(o)
<1>1. Len(o.chunks) = 0 /\ Pending(o.chunks)
  BY DEF Pending
<1>2. o.bytes = Ahead(o.chunks, Len(o.chunks))
  BY Zenon, <1>1, NoneAhead
<1>3. o.bytes <= OutputMax
  BY SizesAssumption
<1>4. QED
  BY Zenon, <1>1, <1>2, <1>3 DEF Queued

\* OnWritable, a posted response, and the deferred close.
LEMMA LoopKeeps ==
  ASSUME ConnectionInv, OnWritable \/ Respond \/ OnClosed
  PROVE  ConnectionInv'
<1>1. CASE OnWritable
  <2>1. /\ out' = FlushOutput(out)
        /\ kernel' = (IF out.chunks # << >> /\ reset THEN kernel ELSE kernel + Writable(out))
        /\ UNCHANGED <<client, input, pc, eof, frames, inflight, closed>>
    BY Zenon, <1>1 DEF OnWritable, Flush
  <2>2. Queued(out') /\ Fits(out')
    BY Zenon, <2>1, ConnectionFacts, FlushKeeps
  <2>3. kernel + Writable(out) \in 0 .. KernelBytes
    BY Zenon, ConnectionFacts, WritableBounds
  <2>4. kernel' \in 0 .. KernelBytes
    BY Zenon, <2>1, <2>3, ConnectionFacts
  <2>5. QED
    BY Zenon, <2>1, <2>2, <2>4, ConnectionFacts, OutputOnly
<1>2. CASE Respond
  <2>1. PICK size \in ResponseSizes : SendFrame(size)
    BY Zenon, <1>2 DEF Respond
  <2>2. Queued(out') /\ Fits(out') /\ kernel' \in 0 .. KernelBytes
    BY Zenon, <2>1, ConnectionFacts, SendKeeps
  <2>3. inflight' \in Nat
    BY <1>2, ConnectionFacts DEF Respond
  <2>4. UNCHANGED <<client, input, pc, eof, frames, closed>>
    BY Zenon, <1>2 DEF Respond
  <2>5. QED
    BY Zenon, <2>2, <2>3, <2>4, ConnectionFacts, OutputOnly
<1>3. CASE OnClosed
  <2>1. /\ out' = [out EXCEPT !.chunks = << >>, !.bytes = 0] /\ out.closing
        /\ closed' = TRUE
        /\ UNCHANGED <<client, kernel, input, pc, eof, frames, inflight>>
    BY Zenon, <1>3 DEF OnClosed
  <2>2. out \in OutputType
    BY Zenon, ConnectionFacts, OutputFields
  <2>3. /\ out' \in OutputType /\ out'.chunks = << >> /\ out'.bytes = 0
        /\ out'.closing
    <3> DEFINE x == [out EXCEPT !.chunks = << >>]
    <3>1. << >> \in Seq(Chunk)
      OBVIOUS
    <3>2. /\ x \in OutputType /\ x.chunks = << >> /\ x.closing
      BY Zenon, <2>1, <2>2, <3>1 DEF OutputType
    <3>3. out' = [x EXCEPT !.bytes = 0]
      BY Zenon, <2>1
    <3> HIDE DEF x
    <3>4. QED
      BY <3>2, <3>3 DEF OutputType
  <2>4. Queued(out') /\ Fits(out')
    BY Zenon, <2>3, EmptyQueued DEF Fits
  <2>5. QED
    BY Zenon, <2>1, <2>4, ConnectionFacts, OutputOnly
<1>4. QED
  BY Zenon, <1>1, <1>2, <1>3

\* A connection starts with nothing queued and registered for reading.
LEMMA ConnectionInit == Init => ConnectionInv
<1> SUFFICES ASSUME Init PROVE ConnectionInv
  OBVIOUS
<1>1. /\ out \in OutputType /\ out.chunks = << >> /\ out.bytes = 0
      /\ out.want = FALSE /\ out.paused = FALSE /\ out.mask = {"read"}
  BY DEF Init, OutputType
<1>2. Queued(out)
  BY Zenon, <1>1, EmptyQueued
<1>3. Fits(out)
  BY <1>1 DEF Fits
<1>4. TypeOK
  <2>1. /\ sent \in 0 .. StreamBytes /\ wire \in 0 .. StreamBytes
        /\ kernel \in 0 .. KernelBytes /\ frames \in 0 .. MaxFrames
        /\ input \in Nat /\ inflight \in Nat /\ out.bytes \in Nat
    BY <1>1, SizesAssumption DEF Init
  <2>2. out.mask \subseteq {"read", "write"}
    BY <1>1
  <2>3. QED
    BY ZenonT(30), <2>1, <2>2 DEF Init, TypeOK
<1>5. wire <= sent
  BY DEF Init
<1>6. QED
  BY Zenon, <1>2, <1>3, <1>4, <1>5 DEF ConnectionInv

\* A step that changes nothing.
LEMMA ConnectionStutter ==
  ASSUME ConnectionInv, UNCHANGED vars
  PROVE  ConnectionInv'
<1>1. /\ UNCHANGED client /\ out' = out /\ kernel' = kernel /\ input' = input /\ pc' = pc
      /\ eof' = eof /\ frames' = frames /\ inflight' = inflight /\ closed' = closed
  BY Zenon DEF vars, client
<1>2. Queued(out') /\ Fits(out')
  BY Zenon, <1>1, ConnectionFacts
<1>3. QED
  BY Zenon, <1>1, <1>2, ConnectionFacts, OutputOnly

\* The invariant implies what is checked between callbacks.
LEMMA InvGivesSound == ConnectionInv => OutputSound
<1> SUFFICES ASSUME ConnectionInv PROVE OutputSound
  OBVIOUS
<1>1. out.chunks \in Seq(Chunk) /\ Pending(out.chunks) /\ out.bytes <= OutputMax
      /\ out.bytes = Ahead(out.chunks, Len(out.chunks))
  BY Zenon, ConnectionFacts, OutputFields
<1>2. OutputAccounted
  <2>1. DOMAIN out.chunks = 1 .. Len(out.chunks)
    BY <1>1
  <2>2. QED
    BY Zenon, <1>1, <2>1 DEF OutputAccounted, Pending
<1>3. RegistrationFits
  <2>1. Free => Fits(out) /\ ~out.closing
    BY Zenon, ConnectionFacts DEF Free
  <2>2. Free => /\ ("write" \in out.mask) = (out.chunks # << >>)
                /\ "read" \notin out.mask => out.bytes > LowWater
    BY <2>1 DEF Fits
  <2>3. QED
    BY Zenon, <2>2 DEF RegistrationFits
<1>4. QED
  BY Zenon, <1>2, <1>3 DEF OutputSound, ConnectionInv

(***************************************************************************)
(* Whatever the client sends, reads or breaks, and however large the       *)
(* responses: output_bytes_ is what the queued buffers have left and stays *)
(* below the ceiling, no buffer that was sent is still queued, and between *)
(* callbacks the poller watches for writing exactly while something is     *)
(* queued and has reading suspended only above the low water mark.         *)
(***************************************************************************)
THEOREM OutputIsSound == Spec => []OutputSound
<1>1. ConnectionInv /\ [Next]_vars => ConnectionInv'
  <2> SUFFICES ASSUME ConnectionInv, [Next]_vars PROVE ConnectionInv'
    OBVIOUS
  <2>1. CASE OnReadable
    BY Zenon, <2>1, ReadableKeeps
  <2>2. CASE HandleFrame \/ FramingError \/ FramesDone
    BY Zenon, <2>2, FrameKeeps
  <2>3. CASE OnWritable \/ Respond \/ OnClosed
    BY ZenonT(30), <2>3, LoopKeeps
  <2>4. CASE ClientSends \/ ClientReads \/ ClientCloses
    BY Zenon, <2>4, ClientKeeps
  <2>5. CASE UNCHANGED vars
    BY Zenon, <2>5, ConnectionStutter
  <2>6. QED
    BY ZenonT(30), <2>1, <2>2, <2>3, <2>4, <2>5 DEF Next, Callbacks
<1>2. QED
  BY <1>1, ConnectionInit, InvGivesSound, PTL DEF Spec
=============================================================================
