----------------------------- MODULE ByteBuffer -----------------------------
(***************************************************************************)
(* ByteBuffer, the byte array with a read and a write cursor that the      *)
(* connections and the requests keep their bytes in, and the BufferPool    *)
(* that lends it out.  The initial state says whose buffer it is: the      *)
(* input buffer of a connection, a local one that a payload is built in,   *)
(* or one that is acquired for a message and released after it.            *)
(***************************************************************************)
LOCAL INSTANCE Naturals
LOCAL INSTANCE Sequences
LOCAL INSTANCE FiniteSetsExt

CONSTANTS
  FirstSize,            \* what an empty buffer grows to at least (1024)
  ReadChunk,            \* read_chunk_bytes
  DefaultCapacity, MaxRetained, MaxPooled,      \* BufferPoolOptions
  LargestWrite,         \* bound on one write
  MostBytes             \* bound on the bytes held, and on the kinds of byte

VARIABLES
  bufferOwner,          \* "connection", "local" or "pool"
  buffer,               \* [cells, read, write], or NoBuffer while released
  freeList,             \* free_list_
  written,              \* the bytes written and not consumed, in order
  nextByte              \* the next byte to be written

bufferVars == <<bufferOwner, buffer, freeList, written, nextByte>>

NoBuffer == [cells |-> <<>>, read |-> 0, write |-> 0, lent |-> FALSE]
NewBuffer(capacity) == [cells |-> [i \in 1 .. capacity |-> 0], read |-> 0,
                        write |-> 0, lent |-> TRUE]

BufferInit ==
  /\ bufferOwner \in {"connection", "local", "pool"}
  /\ buffer = CASE bufferOwner = "connection" -> NewBuffer(ReadChunk)
                [] bufferOwner = "local" -> NewBuffer(0)
                [] bufferOwner = "pool" -> NoBuffer
  /\ freeList = <<>>
  /\ written = <<>>
  /\ nextByte = 1
-----------------------------------------------------------------------------
ReadableBytes(b) == b.write - b.read
Readable(b) == SubSeq(b.cells, b.read + 1, b.write)
WritableBytes(b) == Len(b.cells) - b.write

Resize(b, size) ==
  [b EXCEPT !.cells = [i \in 1 .. size |-> IF i <= Len(@) THEN @[i] ELSE 0]]

(* What lies outside the readable region is never right to read: it is 0,  *)
(* which nobody writes.                                                    *)
Spent(b) ==
  [b EXCEPT !.cells = [i \in DOMAIN @ |-> IF i \in b.read + 1 .. b.write THEN @[i] ELSE 0]]

Cleared(b) == Spent([b EXCEPT !.read = 0, !.write = 0])

Compact(b) ==
  LET n == ReadableBytes(b)
  IN  IF b.read = 0 THEN b
      ELSE [b EXCEPT !.cells = [i \in DOMAIN @ |-> IF i <= n THEN @[i + b.read] ELSE 0],
                     !.read = 0, !.write = n]

(* The size EnsureWritable grows to: doubled until it is enough.           *)
Grown(size, required) == Min({m \in {size * 2^k : k \in 0 .. required} : m >= required})

\* What the readable bytes take up is forgotten when room is looked for.
Bug_EnsureWritable(b, n) ==
  IF WritableBytes(b) >= n THEN b
  ELSE IF b.read > 0 /\ Len(b.cells) >= n THEN Compact(b)
  ELSE Resize(Compact(b), Grown(IF b.cells = <<>> THEN FirstSize ELSE Len(b.cells),
                                ReadableBytes(b) + n))

EnsureWritable(b, n) ==
  IF WritableBytes(b) >= n THEN b
  ELSE IF b.read > 0 /\ Len(b.cells) - ReadableBytes(b) >= n THEN Compact(b)
  ELSE Resize(Compact(b), Grown(IF b.cells = <<>> THEN FirstSize ELSE Len(b.cells),
                                ReadableBytes(b) + n))

Shrink(b, target) ==
  LET c == Compact(b) IN IF Len(c.cells) > target THEN Resize(c, target) ELSE c

ByteAt(i) == ((nextByte + i - 2) % (MostBytes + 1)) + 1

(* n bytes copied to WritePtr() and committed.                             *)
Put(b, n) ==
  [b EXCEPT !.cells = [i \in DOMAIN @ |-> IF i \in b.write + 1 .. b.write + n
                                          THEN ByteAt(i - b.write) ELSE @[i]],
            !.write = @ + n]

Wrote(n) ==
  /\ written' = written \o [i \in 1 .. n |-> ByteAt(i)]
  /\ nextByte' = ByteAt(n + 1)
  /\ UNCHANGED <<bufferOwner, freeList>>

(* Append and AppendByte.                                                  *)
BufferAppend(n) ==
  /\ bufferOwner # "connection" /\ buffer.lent /\ Len(written) + n <= MostBytes
  /\ buffer' = Put(EnsureWritable(buffer, n), n)
  /\ Wrote(n)

Consume(b, n) ==
  IF b.read + n = b.write THEN Cleared(b) ELSE Spent([b EXCEPT !.read = @ + n])

BufferConsume(n) ==
  /\ bufferOwner # "connection" /\ buffer.lent /\ n <= ReadableBytes(buffer)
  /\ buffer' = Consume(buffer, n)
  /\ written' = SubSeq(written, n + 1, Len(written))
  /\ UNCHANGED <<bufferOwner, freeList, nextByte>>

(* What OnReadable does at its end with a buffer that a large frame has    *)
(* inflated.                                                               *)
Reclaimed(b) ==
  IF ReadableBytes(b) = 0 /\ Len(b.cells) > ReadChunk * 4 THEN Shrink(b, ReadChunk) ELSE b

(* OnReadable: room for a chunk is made, n bytes arrive, and the frames    *)
(* that are whole, m bytes together, are consumed.                         *)
ConnectionReads(n, m) ==
  /\ bufferOwner = "connection" /\ n <= ReadChunk /\ Len(written) + n <= MostBytes
  /\ m <= Len(written) + n
  /\ buffer' = Reclaimed(Consume(Put(EnsureWritable(buffer, ReadChunk), n), m))
  /\ written' = SubSeq(written \o [i \in 1 .. n |-> ByteAt(i)], m + 1, Len(written) + n)
  /\ nextByte' = ByteAt(n + 1)
  /\ UNCHANGED <<bufferOwner, freeList>>

Acquire(least) ==
  LET capacity == Max({least, DefaultCapacity})
  IN  /\ bufferOwner = "pool" /\ ~buffer.lent
      /\ \/ /\ freeList # <<>>
            /\ LET b == Cleared(freeList[Len(freeList)])
               IN  buffer' = [Resize(b, Max({capacity, Len(b.cells)})) EXCEPT !.lent = TRUE]
            /\ freeList' = SubSeq(freeList, 1, Len(freeList) - 1)
         \/ freeList = <<>> /\ buffer' = NewBuffer(capacity) /\ UNCHANGED freeList
      /\ UNCHANGED <<bufferOwner, written, nextByte>>

(* The free list once b has been given to Release.                         *)
Returned(b) ==
  LET c == [Cleared(b) EXCEPT !.lent = FALSE]
  IN  IF Len(freeList) >= MaxPooled THEN freeList
      ELSE Append(freeList, IF Len(c.cells) > MaxRetained
                            THEN Shrink(c, DefaultCapacity) ELSE c)

Release ==
  /\ bufferOwner = "pool" /\ buffer.lent
  /\ freeList' = Returned(buffer)
  /\ buffer' = NoBuffer
  /\ written' = <<>>
  /\ UNCHANGED <<bufferOwner, nextByte>>

(* Another thread releases a buffer it has acquired from the same pool.    *)
OtherReleases(capacity) ==
  /\ bufferOwner = "pool" /\ capacity >= DefaultCapacity
  /\ freeList' = Returned([cells |-> [i \in 1 .. capacity |-> 0], read |-> 0,
                           write |-> capacity, lent |-> TRUE])
  /\ UNCHANGED <<bufferOwner, buffer, written, nextByte>>

BufferNext ==
  \/ \E n \in 1 .. LargestWrite : BufferAppend(n) \/ BufferConsume(n)
  \/ \E n \in 0 .. ReadChunk, m \in 0 .. MostBytes : ConnectionReads(n, m)
  \/ \E n \in 0 .. MostBytes : Acquire(n) \/ OtherReleases(n)
  \/ Release
-----------------------------------------------------------------------------
(* Through every compaction, growth, shrinking and reuse, the readable     *)
(* region is exactly the bytes that were written and not consumed, in      *)
(* order, and the cursors stay inside the storage.                         *)
BufferKeepsBytes ==
  /\ buffer.read <= buffer.write /\ buffer.write <= Len(buffer.cells)
  /\ Readable(buffer) = written
=============================================================================
