---------------------------- MODULE PartitionLog ----------------------------
(***************************************************************************)
(* A partition's log on disk (src/storage/partition_log.cc over            *)
(* src/storage/segment.cc) and the threads that use it: the worker that    *)
(* appends and rolls, the flusher, the retention sweep, and one fetch of   *)
(* ExecuteFetch or ExecuteReplicaFetch (src/broker/request_handler.cc).    *)
(* The process may be killed at any step, which leaves the page cache, or  *)
(* the machine may lose power, which leaves what was synced and any part   *)
(* of the rest.  Atomic variables of the code are read and written in      *)
(* single steps, in the code's order; segments_mutex_ is held in shared    *)
(* mode by a flush or a fetch whose pc is in one of the locked sections.   *)
(***************************************************************************)
EXTENDS Segment

CONSTANTS
  MaxIds,       \* bound: records that producers submit
  MaxBatch,     \* bound: records of one append
  MaxFaults,    \* bound: kills, power losses and failed calls together
  FetchFaults,  \* bound: faults after which no new fetch arrives
  MayFail,      \* calls that may fail: "write", "index", "sync", "disk"
  MayKill, MayLosePower,
  MayAge,       \* whether a segment can be rolled for its age
  RetentionBytes, RetentionMs,
  Clock,        \* values the wall clock may show to a retention sweep
  Fetches       \* <<kind, offset, max_bytes>>: "replicated", "log" or "follower" fetches
                \* from an offset, -2 standing for the earliest and -1 for the latest

VARIABLES
  file,       \* base offset |-> the segment's files, as the page cache has them
  dark,       \* bases of files that a power loss has left undetermined
  segs,       \* segments_; the last one is active_
  run,        \* "down", "loading" or "open"
  scan,       \* the recovery scan of the segment being loaded
  logStart, logEnd, flushed, unflushed,
  writer,     \* the worker's append
  flusher,    \* the flusher's Flush
  fetch,      \* the fetch being served
  ids,        \* records submitted so far
  acked,      \* offset |-> record, for the records the log has promised to keep
  opened,     \* log end when the log was opened
  claimed,    \* offsets a Flush of the process that appended them has covered
  stray,      \* whether a restart has met the file of a failed roll
  faults

memory == <<segs, run, scan, logStart, logEnd, flushed, unflushed>>
history == <<ids, acked, opened, claimed, stray>>
vars == <<file, dark, memory, writer, flusher, fetch, history, faults>>

IdleWriter == [pc |-> "idle", batch |-> <<>>]
IdleFlusher == [pc |-> "idle", bytes |-> 0, target |-> 0, i |-> 0, pos |-> 0]
IdleFetch == [pc |-> "idle", kind |-> "", from |-> 0, max |-> 0, hwm |-> 0, end |-> 0,
              readEnd |-> 0, base |-> 0, segEnd |-> 0, got |-> <<>>, err |-> ""]
NoScan == [pos |-> 0, off |-> 0, maxTs |-> -1, done |-> FALSE]

Init ==
  /\ file = <<>> /\ dark = {}
  /\ segs = <<>> /\ run = "down" /\ scan = NoScan
  /\ logStart = 0 /\ logEnd = 0 /\ flushed = 0 /\ unflushed = 0
  /\ writer = IdleWriter /\ flusher = IdleFlusher
  /\ fetch = IdleFetch
  /\ ids = 0 /\ acked = <<>> /\ opened = 0 /\ claimed = {} /\ stray = FALSE
  /\ faults = 0

Active == segs[Len(segs)]

\* Threads inside the shared sections of segments_mutex_.
SharedLockHeld == flusher.pc \in {"sync", "fsync"} \/ fetch.pc \in {"segment", "copy"}

Fault(kind) == kind \in MayFail /\ faults < MaxFaults

(***************************************************************************)
(* Opening: LoadSegments.                                                  *)
(***************************************************************************)
SmallestBase(B) == CHOOSE b \in B : \A c \in B : b <= c

\* The segment files are opened in the order of their base offsets.
Unloaded == {b \in DOMAIN file : \A k \in DOMAIN segs : segs[k].base < b}

Published(s) ==
  /\ logStart' = s[1].base
  /\ logEnd' = s[Len(s)].next
  /\ flushed' = s[Len(s)].next
  /\ unflushed' = 0
  /\ opened' = s[Len(s)].next
  /\ run' = "open"

\* An empty directory gets a segment based at 0; otherwise every file found is
\* scanned from its last index entry.
StartLoad ==
  /\ run = "down" /\ dark = {}
  /\ IF DOMAIN file = {}
     THEN /\ file' = [b \in {0} |-> NewFile]
          /\ segs' = <<OpenSegment(0, NewFile)>>
          /\ Published(segs')
          /\ UNCHANGED scan
     ELSE /\ run' = "loading"
          /\ scan' = RecoverFrom(SmallestBase(DOMAIN file), file[SmallestBase(DOMAIN file)])
          /\ segs' = <<>>
          /\ UNCHANGED <<file, logStart, logEnd, flushed, unflushed, opened>>
  /\ UNCHANGED <<dark, writer, flusher, fetch, ids, acked, claimed, stray, faults>>

\* One chunk of Segment::Recover.
RecoverChunk ==
  /\ run = "loading"
  /\ LET b == SmallestBase(Unloaded)
     IN /\ ~scan.done /\ scan.pos < Len(file[b].log)
        /\ scan' = ScanChunk(file[b].log, scan)
  /\ UNCHANGED <<file, dark, segs, run, logStart, logEnd, flushed, unflushed, writer,
                 flusher, fetch, history, faults>>

\* The end of Segment::Recover, then the next file or the publication of the
\* offsets.
RecoverSegment ==
  /\ run = "loading"
  /\ LET b == SmallestBase(Unloaded)
         f == TrimmedFile(file[b], scan)
     IN /\ scan.done \/ scan.pos >= Len(file[b].log)
        /\ file' = [file EXCEPT ![b] = f]
        /\ segs' = Append(segs, RecoveredSegment(b, f, scan))
        /\ IF Unloaded = {b}
           THEN Published(segs') /\ scan' = NoScan
           ELSE LET c == SmallestBase(Unloaded \ {b})
                IN /\ scan' = RecoverFrom(c, file[c])
                   /\ UNCHANGED <<run, logStart, logEnd, flushed, unflushed, opened>>
  /\ UNCHANGED <<dark, writer, flusher, fetch, ids, acked, claimed, stray, faults>>

(***************************************************************************)
(* The worker: AppendAssigningOffsets or AppendWithOffsets.                *)
(***************************************************************************)
\* MaybeRoll: an empty segment is never rolled.
MustRoll(bytes) == Active.end > 0 /\ Active.end + bytes > SegmentBytes

MayRoll(bytes) == MustRoll(bytes) \/ (MayAge /\ Active.end > 0)

\* A batch arrives; records are numbered as they are accepted.  A disk below
\* its free-space floor refuses the batch, which leaves the log as it is.
BeginAppend ==
  /\ run = "open" /\ writer.pc = "idle"
  /\ \E n \in 1..Smaller(MaxBatch, MaxIds - ids) :
       LET batch == [k \in 1..n |-> ids + k]
       IN \/ /\ MayRoll(BatchBytes(batch))
             /\ writer' = [pc |-> "roll", batch |-> batch]
             /\ ids' = ids + n
          \/ /\ ~MustRoll(BatchBytes(batch))
             /\ writer' = [pc |-> "write", batch |-> batch]
             /\ ids' = ids + n
          \/ /\ "disk" \in MayFail
             /\ UNCHANGED <<writer, ids>>
  /\ UNCHANGED <<file, dark, memory, flusher, fetch, acked, opened, claimed, stray, faults>>

\* RollSegment opens the file of the next segment, which a failed roll may
\* have left behind,
RollOpen ==
  /\ writer.pc = "roll"
  /\ file' = [b \in DOMAIN file \cup {Active.next} |->
                IF b \in DOMAIN file THEN file[b] ELSE NewFile]
  /\ writer' = [writer EXCEPT !.pc = "seal"]
  /\ UNCHANGED <<dark, memory, flusher, fetch, history, faults>>

\* syncs the segment that is left and then the directory,
RollSeal ==
  /\ writer.pc = "seal"
  /\ \/ /\ writer' = [writer EXCEPT !.pc = "publish"]
        /\ file' = [b \in DOMAIN file |->
                      IF b = Active.base /\ Active.end # Active.synced THEN SyncFile(file[b])
                      ELSE [file[b] EXCEPT !.linked = TRUE]]
        /\ segs' = [segs EXCEPT ![Len(segs)].synced = Active.end]
        /\ UNCHANGED faults
     \/ /\ Fault("sync") /\ Active.end # Active.synced
        /\ writer' = IdleWriter
        /\ faults' = faults + 1
        /\ UNCHANGED <<file, segs>>
  /\ UNCHANGED <<dark, run, scan, logStart, logEnd, flushed, unflushed, flusher,
                 fetch, history>>

\* and publishes the new one under the exclusive lock.
RollPublish ==
  /\ writer.pc = "publish" /\ ~SharedLockHeld
  /\ segs' = Append(segs, OpenSegment(Active.next, file[Active.next]))
  /\ writer' = [writer EXCEPT !.pc = "write"]
  /\ UNCHANGED <<file, dark, run, scan, logStart, logEnd, flushed, unflushed, flusher,
                 fetch, history, faults>>

\* AppendEncoded writes the batch at the end of the segment.  A failed write
\* leaves some of its first bytes behind.
WriteRecords ==
  /\ writer.pc = "write"
  /\ LET data == EncodeBatch(writer.batch, Active.next)
         Written(n) == [file EXCEPT ![Active.base].log =
                          WriteAllAt(@, Active.end, SubSeq(data, 1, n))]
     IN \/ /\ file' = Written(Len(data))
           /\ writer' = [writer EXCEPT !.pc = "finish"]
           /\ UNCHANGED faults
        \/ /\ Fault("write")
           /\ \E n \in 0..(Len(data) - 1) : file' = Written(n)
           /\ writer' = IdleWriter
           /\ faults' = faults + 1
  /\ UNCHANGED <<dark, memory, flusher, fetch, history>>

\* FinishAppend: a sparse index entry, whose failure is not an error, and
\* then the end position,
FinishAppend ==
  /\ writer.pc = "finish"
  /\ LET f == file[Active.base]
         index == IndexAppend(f.index, Active.next, Active.end)
         bytes == BatchBytes(writer.batch)
     IN \/ /\ WantsIndexEntry(Active, f) /\ index # f.index
           /\ file' = [file EXCEPT ![Active.base] =
                         [@ EXCEPT !.index = index,
                                   !.tindex = TimeIndexAppend(@, MaxTime(writer.batch),
                                                              Active.next)]]
           /\ segs' = [segs EXCEPT ![Len(segs)] =
                         [@ EXCEPT !.indexed = Active.end, !.end = @ + bytes]]
           /\ UNCHANGED faults
        \/ /\ ~WantsIndexEntry(Active, f) \/ index = f.index \/ Fault("index")
           /\ faults' = IF WantsIndexEntry(Active, f) /\ index # f.index
                        THEN faults + 1 ELSE faults
           /\ segs' = [segs EXCEPT ![Len(segs)].end = @ + bytes]
           /\ UNCHANGED file
  /\ writer' = [writer EXCEPT !.pc = "next"]
  /\ UNCHANGED <<dark, run, scan, logStart, logEnd, flushed, unflushed, flusher,
                 fetch, history>>

\* the segment's next offset,
PublishNext ==
  /\ writer.pc = "next"
  /\ segs' = [segs EXCEPT ![Len(segs)] =
                [@ EXCEPT !.next = @ + Len(writer.batch),
                          !.maxTs = Larger(@, MaxTime(writer.batch))]]
  /\ writer' = [writer EXCEPT !.pc = "end"]
  /\ UNCHANGED <<file, dark, run, scan, logStart, logEnd, flushed, unflushed, flusher,
                 fetch, history, faults>>

\* and in FinalizeAppend the log's end, from where on the records count as
\* appended,
PublishEnd ==
  /\ writer.pc = "end"
  /\ LET base == Active.next - Len(writer.batch)
     IN /\ logEnd' = Active.next
        /\ acked' = [o \in DOMAIN acked \cup base..(Active.next - 1) |->
                       IF o >= base /\ o < Active.next
                       THEN writer.batch[o - base + 1] ELSE acked[o]]
        /\ claimed' = claimed \ (base..(Active.next - 1))
  /\ writer' = [writer EXCEPT !.pc = "count"]
  /\ UNCHANGED <<file, dark, segs, run, scan, logStart, flushed, unflushed, flusher,
                 fetch, ids, opened, stray, faults>>

\* and the bytes that await a flush.
CountUnflushed ==
  /\ writer.pc = "count"
  /\ unflushed' = unflushed + BatchBytes(writer.batch)
  /\ writer' = IdleWriter
  /\ UNCHANGED <<file, dark, segs, run, scan, logStart, logEnd, flushed, flusher,
                 fetch, history, faults>>

AppendStep ==
  \/ BeginAppend \/ RollOpen \/ RollSeal \/ RollPublish \/ WriteRecords
  \/ FinishAppend \/ PublishNext \/ PublishEnd \/ CountUnflushed

(***************************************************************************)
(* The flusher: NeedsFlush and Flush.                                      *)
(***************************************************************************)
\* The counters are read before the log end, and subtracted at the end.
FlushBegin ==
  /\ run = "open" /\ flusher.pc = "idle" /\ unflushed # 0
  /\ flusher' = [IdleFlusher EXCEPT !.pc = "target", !.bytes = unflushed]
  /\ UNCHANGED <<file, dark, memory, writer, fetch, history, faults>>

FlushTarget ==
  /\ flusher.pc = "target"
  /\ flusher' = IF logEnd = flushed THEN IdleFlusher
                ELSE [flusher EXCEPT !.pc = "lock", !.target = logEnd]
  /\ UNCHANGED <<file, dark, memory, writer, fetch, history, faults>>

FlushLock ==
  /\ flusher.pc = "lock"
  /\ flusher' = [flusher EXCEPT !.pc = "sync", !.i = 1]
  /\ UNCHANGED <<file, dark, memory, writer, fetch, history, faults>>

\* The next segment with unsynced bytes; its end is captured before the sync.
FlushSegment ==
  /\ flusher.pc = "sync"
  /\ LET due == {i \in flusher.i..Len(segs) : segs[i].synced < segs[i].end}
         i == SmallestBase(due)
     IN flusher' = IF due = {} THEN [flusher EXCEPT !.pc = "publish", !.i = 0]
                   ELSE [flusher EXCEPT !.pc = "fsync", !.i = i, !.pos = segs[i].end]
  /\ UNCHANGED <<file, dark, memory, writer, fetch, history, faults>>

FlushFsync ==
  /\ flusher.pc = "fsync"
  /\ \/ /\ file' = [file EXCEPT ![segs[flusher.i].base] = SyncFile(@)]
        /\ segs' = [segs EXCEPT ![flusher.i].synced = flusher.pos]
        /\ flusher' = [flusher EXCEPT !.pc = "sync", !.i = @ + 1, !.pos = 0]
        /\ UNCHANGED faults
     \/ /\ Fault("sync")
        /\ flusher' = IdleFlusher
        /\ faults' = faults + 1
        /\ UNCHANGED <<file, segs>>
  /\ UNCHANGED <<dark, run, scan, logStart, logEnd, flushed, unflushed, writer,
                 fetch, history>>

\* Claims the log end of the moment instead of the one read before the syncs.
Bug_FlushPublish ==
  /\ flusher.pc = "publish"
  /\ flushed' = logEnd
  /\ claimed' = claimed \cup opened..(logEnd - 1)
  /\ flusher' = [flusher EXCEPT !.pc = "count"]
  /\ UNCHANGED <<file, dark, segs, run, scan, logStart, logEnd, unflushed, writer,
                 fetch, ids, acked, opened, stray, faults>>

FlushPublish ==
  /\ flusher.pc = "publish"
  /\ flushed' = flusher.target
  /\ claimed' = claimed \cup opened..(flusher.target - 1)
  /\ flusher' = [flusher EXCEPT !.pc = "count"]
  /\ UNCHANGED <<file, dark, segs, run, scan, logStart, logEnd, unflushed, writer,
                 fetch, ids, acked, opened, stray, faults>>

FlushCount ==
  /\ flusher.pc = "count"
  /\ unflushed' = unflushed - flusher.bytes
  /\ flusher' = IdleFlusher
  /\ UNCHANGED <<file, dark, segs, run, scan, logStart, logEnd, flushed, writer,
                 fetch, history, faults>>

FlushStep ==
  \/ FlushBegin \/ FlushTarget \/ FlushLock \/ FlushSegment \/ FlushFsync
  \/ FlushPublish \/ FlushCount

(***************************************************************************)
(* The maintenance thread: EnforceRetention, under the exclusive lock.     *)
(***************************************************************************)
TotalBytes(from) ==
  LET Sum[i \in from..Len(segs) + 1] == IF i > Len(segs) THEN 0 ELSE segs[i].end + Sum[i + 1]
  IN Sum[from]

TooOld(i, now) == RetentionMs > 0 /\ segs[i].maxTs > 0 /\ now - segs[i].maxTs > RetentionMs

TooBig(i) == RetentionBytes > 0 /\ TotalBytes(i) > RetentionBytes

\* The oldest segments are closed and deleted while they are too old or the
\* log is too big, but never the active one.  Directory operations reach the
\* media in order: a deletion commits the entries made before it.
EnforceRetention ==
  /\ run = "open" /\ ~SharedLockHeld
  /\ \E now \in Clock, n \in 1..(Len(segs) - 1) :
       /\ \A i \in 1..n : TooOld(i, now) \/ TooBig(i)
       /\ n = Len(segs) - 1 \/ ~(TooOld(n + 1, now) \/ TooBig(n + 1))
       /\ file' = [b \in DOMAIN file \ {segs[i].base : i \in 1..n} |->
                     [file[b] EXCEPT !.linked = TRUE]]
       /\ segs' = SubSeq(segs, n + 1, Len(segs))
       /\ logStart' = segs[n + 1].base
  /\ UNCHANGED <<dark, run, scan, logEnd, flushed, unflushed, writer, flusher, fetch,
                 history, faults>>

(***************************************************************************)
(* A fetch: ExecuteFetch and ExecuteReplicaFetch, with PartitionLog::Read. *)
(***************************************************************************)
Earliest == -2
Latest == -1

\* The handler loads the high-water mark, which Replication.tla keeps at or
\* below the log end, and the log end: the mark, loaded first, may be any
\* offset up to it,
FetchEnd ==
  /\ run = "open" /\ fetch.pc = "idle" /\ faults <= FetchFaults
  /\ \E f \in Fetches, hwm \in 0..logEnd :
       /\ f[1] # "replicated" => hwm = 0
       /\ fetch' = [IdleFetch EXCEPT !.pc = "start", !.kind = f[1], !.from = f[2],
                                     !.max = f[3], !.hwm = hwm, !.end = logEnd]
  /\ UNCHANGED <<file, dark, memory, writer, flusher, history, faults>>

VisibleEnd(r) == IF r.kind = "replicated" THEN r.hwm ELSE r.end

\* The position a consumer asks for is resolved and must lie in the log.
FetchFrom(r) ==
  LET from == CASE r.from = Earliest -> logStart
                [] r.from = Latest -> VisibleEnd(r)
                [] OTHER -> r.from
      q == [r EXCEPT !.from = from]
  IN IF from > r.end \/ from < logStart THEN [q EXCEPT !.pc = "done", !.err = "range"]
     ELSE IF from < VisibleEnd(r) THEN [q EXCEPT !.pc = "read"]
     ELSE [q EXCEPT !.pc = "done"]

\* A follower's is only compared with the log end.
ReplicaFetchFrom(r) == [r EXCEPT !.pc = IF r.from < r.end THEN "read" ELSE "done"]

\* then the start.
FetchStart ==
  /\ fetch.pc = "start"
  /\ fetch' = IF fetch.kind = "follower" THEN ReplicaFetchFrom(fetch) ELSE FetchFrom(fetch)
  /\ UNCHANGED <<file, dark, memory, writer, flusher, history, faults>>

\* PartitionLog::Read checks the offset against its own loads of the bounds,
ReadBounds ==
  /\ fetch.pc = "read"
  /\ fetch' = IF fetch.from < logStart \/ fetch.from > logEnd
              THEN [fetch EXCEPT !.pc = "done", !.err = "range"]
              ELSE IF fetch.from = logEnd THEN [fetch EXCEPT !.pc = "done"]
              ELSE [fetch EXCEPT !.pc = "lock", !.readEnd = logEnd]
  /\ UNCHANGED <<file, dark, memory, writer, flusher, history, faults>>

\* The last segment based at or below the offset.
SegmentForOffset(offset) == {i \in DOMAIN segs :
  /\ segs[i].base <= offset
  /\ \A j \in DOMAIN segs : segs[j].base <= offset => segs[j].base <= segs[i].base}

\* takes the lock in shared mode and finds the segment,
ReadLock ==
  /\ fetch.pc = "lock"
  /\ fetch' = IF SegmentForOffset(fetch.from) = {}
              THEN [fetch EXCEPT !.pc = "done", !.err = "range"]
              ELSE [fetch EXCEPT !.pc = "segment",
                                 !.base = segs[SmallestBase(SegmentForOffset(fetch.from))].base]
  /\ UNCHANGED <<file, dark, memory, writer, flusher, history, faults>>

SegmentBased(base) == CHOOSE i \in DOMAIN segs : segs[i].base = base

\* loads the end offset of the segment,
ReadSegmentEnd ==
  /\ fetch.pc = "segment"
  /\ fetch' = [fetch EXCEPT !.pc = "copy", !.segEnd = segs[SegmentBased(fetch.base)].next]
  /\ UNCHANGED <<file, dark, memory, writer, flusher, history, faults>>

BytesOf(got) ==
  LET Sum[n \in 0..Len(got)] == IF n = 0 THEN 0 ELSE SizeOf[got[n].id] + Sum[n - 1]
  IN Sum[Len(got)]

\* Returns all that was read.
Bug_Trimmed(r) == r.got

\* What the handler returns of what was read: nothing beyond the visible end.
Trimmed(r) ==
  IF r.kind # "follower" /\ r.from + Len(r.got) > VisibleEnd(r)
  THEN SubSeq(r.got, 1, VisibleEnd(r) - r.from) ELSE r.got

\* then its end position and the bytes below it, and goes on to the next
\* segment while the budget lasts.
ReadCopy ==
  /\ fetch.pc = "copy"
  /\ LET i == SegmentBased(fetch.base)
         cursor == fetch.from + Len(fetch.got)
         chunk == IF cursor >= fetch.segEnd THEN <<>>
                  ELSE ReadSegment(fetch.base, file[fetch.base], cursor, fetch.segEnd,
                                   segs[i].end, fetch.max - BytesOf(fetch.got))
         r == [fetch EXCEPT !.got = @ \o chunk]
         atEnd == cursor + Len(chunk) >= IF chunk = <<>> THEN fetch.segEnd ELSE segs[i].next
         more == /\ chunk = <<>> \/ cursor + Len(chunk) < fetch.readEnd
                 /\ chunk = <<>> => atEnd
                 /\ atEnd => i < Len(segs)
     IN fetch' = IF \E k \in DOMAIN chunk : chunk[k] = Unreadable
                 THEN [fetch EXCEPT !.pc = "done", !.err = "corrupt", !.got = <<>>]
                 ELSE IF more /\ BytesOf(r.got) < fetch.max
                 THEN [r EXCEPT !.pc = "segment", !.segEnd = 0,
                                !.base = IF atEnd THEN segs[i + 1].base ELSE @]
                 ELSE [r EXCEPT !.pc = "done", !.got = Trimmed(r)]
  /\ UNCHANGED <<file, dark, memory, writer, flusher, history, faults>>

Respond ==
  /\ fetch.pc = "done"
  /\ fetch' = IdleFetch
  /\ UNCHANGED <<file, dark, memory, writer, flusher, history, faults>>

FetchStep ==
  \/ FetchEnd \/ FetchStart \/ ReadBounds \/ ReadLock \/ ReadSegmentEnd
  \/ ReadCopy \/ Respond

(***************************************************************************)
(* Stops.                                                                  *)
(***************************************************************************)
\* What the process keeps in memory is gone.
MemoryLost ==
  /\ segs' = <<>> /\ run' = "down" /\ scan' = NoScan
  /\ logStart' = 0 /\ logEnd' = 0 /\ flushed' = 0 /\ unflushed' = 0
  /\ writer' = IdleWriter /\ flusher' = IdleFlusher
  /\ fetch' = IdleFetch
  /\ opened' = 0
  /\ stray' = \/ stray
              \/ \E b \in DOMAIN file : b < logEnd /\ \A i \in DOMAIN segs : segs[i].base # b

\* PartitionLog::Close, when the threads have been joined: every segment is
\* synced and its preallocated tail is cut off.
Close ==
  /\ run = "open"
  /\ writer.pc = "idle" /\ flusher.pc = "idle" /\ fetch.pc = "idle"
  /\ file' = [b \in DOMAIN file |->
                IF b \notin {segs[i].base : i \in DOMAIN segs} THEN file[b]
                ELSE LET s == segs[SegmentBased(b)]
                         f == IF s.end = s.synced THEN file[b] ELSE SyncFile(file[b])
                     IN [f EXCEPT !.log = SubSeq(@, 1, Smaller(Len(@), s.end))]]
  /\ claimed' = claimed \cup opened..(logEnd - 1)
  /\ MemoryLost
  /\ UNCHANGED <<dark, ids, acked, faults>>

\* The files as the write in progress leaves them.
PartlyWritten(n) ==
  [file EXCEPT ![Active.base].log =
     WriteAllAt(@, Active.end, SubSeq(EncodeBatch(writer.batch, Active.next), 1, n))]

\* The process is killed: the page cache stays.
Kill ==
  /\ MayKill /\ run # "down" /\ faults < MaxFaults
  /\ IF writer.pc = "write"
     THEN \E n \in 0..BatchBytes(writer.batch) : file' = PartlyWritten(n)
     ELSE UNCHANGED file
  /\ MemoryLost
  /\ faults' = faults + 1
  /\ UNCHANGED <<dark, ids, acked, claimed>>

\* The machine loses power: only claimed records are still promised.
PowerLoss ==
  /\ MayLosePower /\ run # "down" /\ faults < MaxFaults
  /\ file' = IF writer.pc = "write" THEN PartlyWritten(BatchBytes(writer.batch)) ELSE file
  /\ dark' = DOMAIN file
  /\ acked' = [o \in DOMAIN acked \cap claimed |-> acked[o]]
  /\ MemoryLost
  /\ faults' = faults + 1
  /\ UNCHANGED <<ids, claimed>>

\* Cells of a file that were not yet written back reach the media one by one.
Survivor(cache, media, kept) ==
  [i \in 1..Larger(Len(media),
                   IF kept = {} THEN 0 ELSE CHOOSE k \in kept : \A j \in kept : j <= k) |->
     IF i \in kept THEN cache[i] ELSE IF i <= Len(media) THEN media[i] ELSE Zero]

Unwritten(cache, media) ==
  {i \in DOMAIN cache : i > Len(media) \/ (i <= Len(media) /\ cache[i] # media[i])}

IndexSurvivors(cache, media) ==
  {media} \cup {SubSeq(cache, 1, n) : n \in Smaller(Len(media), Len(cache))..Len(cache)}

\* What the media turn out to hold of the first undetermined file; a file whose
\* directory entry was never synced may be gone.
Surface ==
  /\ dark # {}
  /\ LET b == SmallestBase(dark)
         f == file[b]
     IN /\ \/ \E kept \in SUBSET Unwritten(f.log, f.disk.log),
                 index \in IndexSurvivors(f.index, f.disk.index),
                 tindex \in IndexSurvivors(f.tindex, f.disk.tindex) :
                LET log == Survivor(f.log, f.disk.log, kept)
                    media == [log |-> log, index |-> index, tindex |-> tindex]
                IN file' = [file EXCEPT ![b] = [log |-> log, index |-> index, tindex |-> tindex,
                                                disk |-> media, linked |-> TRUE]]
           \/ /\ ~f.linked
              /\ file' = [c \in DOMAIN file \ {b} |-> file[c]]
        /\ dark' = dark \ {b}
  /\ UNCHANGED <<memory, writer, flusher, fetch, history, faults>>

Next ==
  \/ StartLoad \/ RecoverChunk \/ RecoverSegment
  \/ AppendStep \/ FlushStep \/ EnforceRetention \/ FetchStep
  \/ Close \/ Kill \/ PowerLoss \/ Surface

Spec == Init /\ [][Next]_vars

(***************************************************************************)
(* Properties.                                                             *)
(***************************************************************************)
SegmentType == [base : Nat, end : Nat, next : Nat, synced : Nat, maxTs : Int, indexed : Nat]

\* The log's offsets are ordered and the fields have their types, the flush
\* counter included, which is subtracted from and never becomes negative.
TypeOK ==
  /\ DOMAIN file \subseteq 0..MaxIds /\ dark \subseteq DOMAIN file
  /\ run \in {"down", "loading", "open"}
  /\ segs \in Seq(SegmentType)
  /\ run = "open" => /\ segs # <<>>
                     /\ 0 <= logStart /\ logStart <= logEnd
                     /\ 0 <= flushed /\ flushed <= logEnd
  /\ unflushed >= 0
  /\ ids \in 0..MaxIds /\ faults \in 0..MaxFaults
  /\ DOMAIN acked \subseteq 0..(MaxIds - 1) /\ claimed \subseteq 0..(MaxIds - 1)

\* The record at an offset of the open log, found without the indexes.
Holds(offset, id) ==
  \E i \in SegmentForOffset(offset) : \E p \in 0..(segs[i].end - 1) :
    LET r == ParseRecord(file[segs[i].base].log, p, segs[i].end)
    IN r.status = "ok" /\ r.id = id /\ r.offset = offset

\* An open log holds, at its offset, every record it ever promised and that
\* retention has not deleted: whatever was appended survives torn writes, rolls
\* and a kill at any point, recovery included, and what a Flush has covered
\* also survives a power loss.
AppendedKept ==
  run = "open" /\ ~stray =>
    \A o \in DOMAIN acked : o >= logStart => o < logEnd /\ Holds(o, acked[o])

\* The flushed offset never runs ahead of the media for the records this process
\* has appended, although appends and rolls go on while Flush syncs.
ClaimsDurable ==
  run = "open" /\ ~stray =>
    \A o \in DOMAIN acked : o >= logStart /\ o >= opened /\ o < flushed =>
      \E i \in SegmentForOffset(o) :
        LET media == file[segs[i].base].disk.log
        IN \E p \in 0..(Len(media) - 1) :
             LET r == ParseRecord(media, p, Len(media))
             IN r.status = "ok" /\ r.id = acked[o] /\ r.offset = o

\* A counter that reads zero between two flushes means that nothing is waiting
\* for one: the accounting loses no append that runs during the sync.
FlushAccounted ==
  run = "open" /\ writer.pc = "idle" /\ flusher.pc = "idle" /\ unflushed = 0
    => flushed = logEnd

\* The offsets and counters stay in order, and a Flush neither claims too much nor
\* forgets anything.
FlushSound == TypeOK /\ ClaimsDurable /\ FlushAccounted

\* A fetch returns consecutive records from the offset asked for, those that
\* were appended there, and for a consumer none past the high-water mark.  It
\* finds the log damaged only when it runs into offsets the log has not promised.
ReadsExact ==
  fetch.pc = "done" /\ ~stray =>
    /\ \A k \in DOMAIN fetch.got :
         LET o == fetch.from + k - 1
         IN /\ fetch.got[k].off = o
            /\ o \in DOMAIN acked => fetch.got[k].id = acked[o]
    /\ fetch.kind = "replicated" => fetch.from + Len(fetch.got) <= Larger(fetch.hwm, fetch.from)
    /\ fetch.err = "corrupt" => \E o \in fetch.from..(logEnd - 1) : o \notin DOMAIN acked

\* A fetch of a promised record below the visible end brings at least that
\* record, however small its budget and wherever the segment boundaries are.
\* It is refused only when retention has deleted its offset or it lies past
\* the log.
ReadsProgress ==
  fetch.pc = "done" /\ ~stray =>
    /\ fetch.err = "" /\ fetch.from < VisibleEnd(fetch) /\ fetch.from \in DOMAIN acked
         => fetch.got # <<>>
    /\ fetch.err = "range" => fetch.from < logStart \/ fetch.from > fetch.end

\* A fetch brings what was appended, and brings something.
ReadsSound == ReadsExact /\ ReadsProgress

\* Every turn of the recovery scan moves on or ends the scan, so a log always
\* opens again.
RecoveryAdvances ==
  run = "loading" =>
    LET log == file[SmallestBase(Unloaded)].log
    IN ~scan.done /\ scan.pos < Len(log) => ScanChunk(log, scan) # scan
=============================================================================
