------------------------------ MODULE Segment ------------------------------
(***************************************************************************)
(* One segment of a partition log (src/storage/segment.cc and              *)
(* src/storage/offset_index.cc): the bytes of its file, the records parsed *)
(* from them, its two sparse indexes, the recovery scan and the read path. *)
(*                                                                         *)
(* A file is a sequence of cells.  A record with identity id takes         *)
(* SizeOf[id] cells, each holding <<id, offset, part>>: part 1 is the      *)
(* header, which carries the length and the offset, and a record whose     *)
(* cells do not all belong together fails its checksum.                    *)
(***************************************************************************)
EXTENDS Integers, Sequences, FiniteSets

CONSTANTS
  SizeOf,         \* cells taken by each record identity
  TimeOf,         \* timestamp of each record identity
  SegmentBytes,   \* SegmentOptions::max_bytes
  Preallocate,    \* SegmentOptions::preallocate
  IndexInterval,  \* SegmentOptions::index_interval_bytes
  RecoveryChunk   \* kRecoveryChunkBytes

Larger(a, b) == IF a > b THEN a ELSE b

Smaller(a, b) == IF a < b THEN a ELSE b

\* What an unwritten byte of a preallocated file reads as.
Zero == <<0, 0, 0>>

AppendRecord(id, offset) == [k \in 1..SizeOf[id] |-> <<id, offset, k>>]

\* A batch of records with consecutive offsets, encoded one after the other.
EncodeBatch(ids, base) ==
  LET Cells[n \in 0..Len(ids)] ==
        IF n = 0 THEN <<>> ELSE Cells[n - 1] \o AppendRecord(ids[n], base + n - 1)
  IN Cells[Len(ids)]

\* pwrite of data at pos; a gap before pos reads as zeros.
WriteAllAt(log, pos, data) ==
  [i \in 1..Larger(Len(log), pos + Len(data)) |->
     IF i > pos /\ i <= pos + Len(data) THEN data[i - pos]
     ELSE IF i <= Len(log) THEN log[i] ELSE Zero]

\* The record that starts at pos, of which the caller holds the bytes below
\* avail: its cells, "short" if they end beyond avail, "corrupt" otherwise.
ParseRecord(log, pos, avail) ==
  LET head == log[pos + 1]
      size == SizeOf[head[1]]
  IN IF head[3] # 1 THEN [status |-> "corrupt"]
     ELSE IF pos + size > avail THEN [status |-> "short"]
     ELSE IF \E k \in 1..size : log[pos + k] # <<head[1], head[2], k>>
          THEN [status |-> "corrupt"]
     ELSE [status |-> "ok", id |-> head[1], offset |-> head[2], next |-> pos + size]

(***************************************************************************)
(* The sparse indexes.                                                     *)
(***************************************************************************)
LastIndexedPosition(index) == IF index = <<>> THEN 0 ELSE index[Len(index)].pos

\* The last entry at or below the offset, and the start of the segment before
\* the first entry.
LookupFloor(index, base, offset) ==
  LET below == {i \in DOMAIN index : index[i].off <= offset}
  IN IF below = {} THEN [off |-> base, pos |-> 0] ELSE index[Cardinality(below)]

\* Entries must strictly increase; one that does not is refused.
IndexAppend(index, offset, pos) ==
  IF index # <<>> /\ offset <= index[Len(index)].off
  THEN index ELSE Append(index, [off |-> offset, pos |-> pos])

TruncateIndex(index, offset) == SelectSeq(index, LAMBDA e : e.off < offset)

\* A timestamp below the last indexed one is not indexed.
TimeIndexAppend(tindex, ts, offset) ==
  IF tindex # <<>> /\ ts < tindex[Len(tindex)].ts
  THEN tindex ELSE Append(tindex, [ts |-> ts, off |-> offset])

TruncateTimeIndex(tindex, offset) == SelectSeq(tindex, LAMBDA e : e.off < offset)

MaxIndexedTime(tindex) == IF tindex = <<>> THEN -1 ELSE tindex[Len(tindex)].ts

(***************************************************************************)
(* Opening and recovering.                                                 *)
(***************************************************************************)
\* The three files of a segment that did not exist, what of them is on stable
\* media, and whether their directory entries are.
NewFile ==
  LET log == IF Preallocate THEN [i \in 1..SegmentBytes |-> Zero] ELSE <<>>
  IN [log |-> log, index |-> <<>>, tindex |-> <<>>,
      disk |-> [log |-> <<>>, index |-> <<>>, tindex |-> <<>>], linked |-> FALSE]

\* A segment object over its files, before its contents are scanned.
OpenSegment(base, f) ==
  [base |-> base, end |-> 0, next |-> base, synced |-> 0, maxTs |-> -1,
   indexed |-> LastIndexedPosition(f.index)]

\* Where Recover starts: the last index entry, or the first byte.
RecoverFrom(base, f) ==
  IF f.index = <<>> THEN [pos |-> 0, off |-> base, maxTs |-> -1, done |-> FALSE]
  ELSE [pos |-> LastIndexedPosition(f.index), off |-> f.index[Len(f.index)].off,
        maxTs |-> -1, done |-> FALSE]

\* Takes a record that straddles the end of the chunk for a torn one.
Bug_ScanChunk(log, scan) ==
  LET size  == Len(log)
      avail == scan.pos + Smaller(RecoveryChunk, size - scan.pos)
      Walk[p \in scan.pos..avail, o \in scan.off..scan.off + avail - scan.pos] ==
        IF p = avail THEN [scan EXCEPT !.pos = p, !.off = o]
        ELSE LET r == ParseRecord(log, p, avail)
             IN IF r.status # "ok" \/ r.offset # o
                THEN [scan EXCEPT !.pos = p, !.off = o, !.done = TRUE]
                ELSE Walk[r.next, o + 1]
  IN Walk[scan.pos, scan.off]

\* Reads the whole chunk again when a record straddles its end.
Bug_ScanChunkAgain(log, scan) ==
  LET size  == Len(log)
      avail == scan.pos + Smaller(RecoveryChunk, size - scan.pos)
      Walk[p \in scan.pos..avail, o \in scan.off..scan.off + avail - scan.pos] ==
        IF p = avail THEN [scan EXCEPT !.pos = p, !.off = o]
        ELSE LET r == ParseRecord(log, p, avail)
             IN IF r.status = "short" /\ avail < size THEN scan
                ELSE IF r.status # "ok" \/ r.offset # o
                THEN [scan EXCEPT !.pos = p, !.off = o, !.done = TRUE]
                ELSE Walk[r.next, o + 1]
  IN Walk[scan.pos, scan.off]

\* One turn of the scan loop: the records of one chunk.  A record that
\* straddles the end of the chunk is read again from its first byte.
ScanChunk(log, scan) ==
  LET size  == Len(log)
      avail == scan.pos + Smaller(RecoveryChunk, size - scan.pos)
      Walk[p \in scan.pos..avail, o \in scan.off..scan.off + avail - scan.pos] ==
        IF p = avail THEN [pos |-> p, off |-> o, maxTs |-> -1, done |-> FALSE]
        ELSE LET r == ParseRecord(log, p, avail)
             IN IF r.status = "short" /\ avail < size
                THEN [pos |-> p, off |-> o, maxTs |-> -1, done |-> FALSE]
                ELSE IF r.status # "ok"
                THEN [pos |-> p, off |-> o, maxTs |-> -1, done |-> TRUE]
                ELSE IF r.offset # o
                THEN [pos |-> p, off |-> o, maxTs |-> -1, done |-> TRUE]
                ELSE LET rest == Walk[r.next, o + 1]
                     IN [rest EXCEPT !.maxTs = Larger(@, TimeOf[r.id])]
      seen == Walk[scan.pos, scan.off]
  IN [seen EXCEPT !.maxTs = Larger(@, scan.maxTs)]

\* The scan has stopped: what lies behind it is cut off the three files.
TrimmedFile(f, scan) ==
  IF scan.pos >= Len(f.log) THEN f
  ELSE [f EXCEPT !.log = SubSeq(f.log, 1, scan.pos),
                 !.index = TruncateIndex(f.index, scan.off),
                 !.tindex = TruncateTimeIndex(f.tindex, scan.off)]

\* All that was found counts as synced.
RecoveredSegment(base, f, scan) ==
  [base |-> base, end |-> scan.pos, next |-> scan.off, synced |-> scan.pos,
   maxTs |-> Larger(scan.maxTs, MaxIndexedTime(f.tindex)),
   indexed |-> LastIndexedPosition(f.index)]

(***************************************************************************)
(* Appending and syncing.                                                  *)
(***************************************************************************)
MaxTime(ids) == CHOOSE t \in {TimeOf[ids[k]] : k \in DOMAIN ids} :
                  \A k \in DOMAIN ids : TimeOf[ids[k]] <= t

BatchBytes(ids) == Len(EncodeBatch(ids, 0))

\* FinishAppend writes an index entry when the last one is far enough back.
WantsIndexEntry(s, f) == s.end - s.indexed >= IndexInterval \/ f.index = <<>>

\* fsync of the three files, which commits the entry of a new file with it.
SyncFile(f) ==
  [f EXCEPT !.disk = [log |-> f.log, index |-> f.index, tindex |-> f.tindex],
            !.linked = TRUE]

(***************************************************************************)
(* Reading.                                                                *)
(***************************************************************************)
\* The position of an offset: the index entry below it, then a walk over
\* record lengths that must stay below limit; -1 stands for corruption.
PositionFor(base, f, offset, limit) ==
  LET from == LookupFloor(f.index, base, offset)
      Walk[p \in 0..limit, o \in base..offset] ==
        IF o = offset THEN p
        ELSE IF p >= Smaller(limit, Len(f.log)) \/ f.log[p + 1][3] # 1 THEN -1
        ELSE LET next == p + SizeOf[f.log[p + 1][1]]
             IN IF next > limit THEN -1 ELSE Walk[next, o + 1]
  IN Walk[from.pos, from.off]

Unreadable == [id |-> 0, off |-> -1]

\* The records of the segment from an offset on, as many as fit max bytes but
\* at least one, below the end offset and the end position read before.
ReadSegment(base, f, offset, end, limit, max) ==
  LET Take[p \in 0..limit, n \in 0..(end - offset), left \in 0..max] ==
        IF p = limit \/ offset + n = end \/ left = 0 THEN <<>>
        ELSE IF p >= Len(f.log) THEN <<Unreadable>>
        ELSE LET head == f.log[p + 1]
                 size == SizeOf[head[1]]
             IN IF head[3] # 1 \/ p + size > limit THEN <<Unreadable>>
                ELSE IF p + size > Len(f.log) THEN <<>>
                ELSE IF size > left /\ n > 0 THEN <<>>
                ELSE <<[id |-> head[1], off |-> head[2]]>>
                     \o Take[p + size, n + 1, Larger(0, left - size)]
      pos == PositionFor(base, f, offset, limit)
  IN IF offset < base \/ pos = -1 THEN <<Unreadable>>
     ELSE Take[pos, 0, max]
=============================================================================
