---------------------------- MODULE Connection -----------------------------
(***************************************************************************)
(* One connection of an io loop and the client at its other end: reading,  *)
(* decoding a bounded number of frames per event, queueing responses,      *)
(* writing as far as the kernel takes them, backpressure with hysteresis,  *)
(* half-closed and broken peers, and the poller registration that decides  *)
(* which callback runs next.                                               *)
(*                                                                         *)
(* All of it runs on the loop's thread, so a callback is atomic but for    *)
(* its frames: the client acts between two frames of one event.  Bytes are *)
(* counted, not spelled out: a request frame has FrameBytes of them, and   *)
(* whether a complete frame decodes is the client's choice.                *)
(***************************************************************************)
EXTENDS Integers, Sequences, FiniteSetsExt

CONSTANTS
  FrameBytes,        \* size of a request frame
  StreamBytes,       \* bound on what the client sends
  ResponseSizes,     \* sizes of response frames
  ReadChunk,         \* read_chunk_bytes
  MaxFrames,         \* max_frames_per_event
  LowWater, HighWater, OutputMax,
  KernelBytes,       \* what the kernel buffers for a client that does not read
  MayGarble,         \* whether a frame may be malformed
  MayBreak           \* whether the client may close or reset the connection

ASSUME WatersAssumption ==
  LowWater \in Nat /\ HighWater \in Nat /\ LowWater < HighWater

ASSUME SizesAssumption ==
  /\ FrameBytes \in Nat /\ StreamBytes \in Nat /\ ReadChunk \in Nat
  /\ MaxFrames \in Nat /\ OutputMax \in Nat /\ KernelBytes \in Nat
  /\ ResponseSizes \subseteq Nat \ {0}

VARIABLES
  sent,        \* bytes the client has sent
  wire,        \* of those, the bytes in the kernel's receive buffer
  fin,         \* the client closed its side, or reset the connection
  reset,       \* the client reset it: writes fail
  kernel,      \* response bytes in the kernel's send buffer
  input,       \* bytes in input_
  pc,          \* "idle", or "decode" inside OnReadable
  eof,         \* transfer->eof of this OnReadable
  frames,      \* frames handled by this OnReadable
  inflight,    \* frames routed to a worker and not answered yet
  out,         \* the output side, see below
  closed       \* the handler is destroyed

vars == <<sent, wire, fin, reset, kernel, input, pc, eof, frames, inflight,
          out, closed>>
client == <<sent, wire, fin, reset>>

(* out.chunks is output_, [size, sent] each; bytes is output_bytes_; mask  *)
(* is what the poller was last told.                                       *)
Init ==
  /\ sent = 0 /\ wire = 0 /\ kernel = 0 /\ input = 0
  /\ fin = FALSE /\ reset = FALSE /\ eof = FALSE /\ closed = FALSE
  /\ pc = "idle" /\ frames = 0 /\ inflight = 0
  /\ out = [chunks |-> <<>>, bytes |-> 0, paused |-> FALSE, want |-> FALSE,
            drain |-> FALSE, closing |-> FALSE, mask |-> {"read"}]

TypeOK ==
  /\ sent \in 0 .. StreamBytes /\ wire \in 0 .. StreamBytes
  /\ kernel \in 0 .. KernelBytes /\ input \in Nat
  /\ fin \in BOOLEAN /\ reset \in BOOLEAN /\ eof \in BOOLEAN
  /\ closed \in BOOLEAN
  /\ pc \in {"idle", "decode"} /\ frames \in 0 .. MaxFrames /\ inflight \in Nat
  /\ out.bytes \in Nat /\ out.mask \subseteq {"read", "write"}
-----------------------------------------------------------------------------
CloseNow(o) == [o EXCEPT !.closing = TRUE]

\* The poller is told that reading resumes, the flag is not.
Bug_NeverResumes(o) ==
  LET paused == IF o.paused THEN o.bytes > LowWater ELSE o.bytes >= HighWater
  IN IF o.closing THEN o
     ELSE [o EXCEPT !.paused = @ \/ paused,
                    !.mask = {e \in {"read", "write"} :
                                \/ e = "read" /\ ~paused
                                \/ e = "write" /\ o.want}]

UpdatePollRegistration(o) ==
  LET paused == IF o.paused THEN o.bytes > LowWater ELSE o.bytes >= HighWater
  IN IF o.closing THEN o
     ELSE [o EXCEPT !.paused = paused,
                    !.mask = {e \in {"read", "write"} :
                                \/ e = "read" /\ ~paused
                                \/ e = "write" /\ o.want}]

(* The bytes of the first j queued buffers that are still to be written.   *)
Unsent(chunks, j) ==
  UNION {{i} \X (chunks[i].sent + 1 .. chunks[i].size) : i \in 1 .. j}

Ahead(chunks, j) == Cardinality(Unsent(chunks, j))

(* Taking n written bytes off the queue: whole buffers, then part of one.  *)
Consume(chunks, n) ==
  LET whole == CHOOSE j \in 0 .. Len(chunks) :
                 /\ Ahead(chunks, j) <= n
                 /\ j = Len(chunks) \/ n < Ahead(chunks, j + 1)
  IN [i \in 1 .. Len(chunks) - whole |->
        IF i > 1 THEN chunks[whole + i]
        ELSE [chunks[whole + i] EXCEPT !.sent = @ + (n - Ahead(chunks, whole))]]

(* How many of o's bytes the kernel takes before a write would block.      *)
Writable(o) == Min({o.bytes, KernelBytes - kernel})

\* The count output_bytes_ is not reduced by what was written.
Bug_FlushOutput(o) ==
  LET n == Writable(o)
      w == [o EXCEPT !.chunks = Consume(@, n)]
  IN IF o.chunks # <<>> /\ reset THEN CloseNow(o)
     ELSE IF w.chunks # <<>> THEN UpdatePollRegistration([w EXCEPT !.want = TRUE])
     ELSE IF o.drain THEN CloseNow([w EXCEPT !.want = FALSE])
     ELSE UpdatePollRegistration([w EXCEPT !.want = FALSE])

FlushOutput(o) ==
  LET n == Writable(o)
      w == [o EXCEPT !.chunks = Consume(@, n), !.bytes = @ - n]
  IN IF o.chunks # <<>> /\ reset THEN CloseNow(o)
     ELSE IF w.chunks # <<>> THEN UpdatePollRegistration([w EXCEPT !.want = TRUE])
     ELSE IF o.drain THEN CloseNow([w EXCEPT !.want = FALSE])
     ELSE UpdatePollRegistration([w EXCEPT !.want = FALSE])

Flush(o) ==
  /\ out' = FlushOutput(o)
  /\ kernel' = IF o.chunks # <<>> /\ reset THEN kernel ELSE kernel + Writable(o)

SendFrame(size) ==
  IF out.closing THEN UNCHANGED <<out, kernel>>
  ELSE IF out.bytes + size > OutputMax THEN out' = CloseNow(out) /\ UNCHANGED kernel
  ELSE Flush([out EXCEPT !.bytes = @ + size,
                         !.chunks = Append(@, [size |-> size, sent |-> 0])])
-----------------------------------------------------------------------------
(* What the poller reports: bytes to read when reading is registered, and  *)
(* the end of the stream whatever is registered (EPOLLRDHUP).              *)
Readable == (wire > 0 /\ "read" \in out.mask) \/ fin

Free == pc = "idle" /\ ~closed /\ ~out.closing

OnReadable ==
  /\ Free /\ Readable
  /\ LET n == Min({wire, ReadChunk}) IN
       IF n = 0 /\ input = 0
       THEN /\ out' = CloseNow(out)
            /\ UNCHANGED <<wire, input, pc, eof, frames>>
       ELSE /\ wire' = wire - n /\ input' = input + n
            /\ eof' = (n = 0)
            /\ frames' = 0
            /\ pc' = "decode"
            /\ UNCHANGED out
  /\ UNCHANGED <<sent, fin, reset, kernel, inflight, closed>>

\* A frame that ends where the buffer ends waits for more.
Bug_Complete == frames < MaxFrames /\ input > FrameBytes

Complete == frames < MaxFrames /\ input >= FrameBytes

(* on_frame_: the broker answers at once, or routes the frame to a worker. *)
HandleFrame ==
  /\ pc = "decode" /\ Complete
  /\ \/ (\E size \in ResponseSizes : SendFrame(size)) /\ UNCHANGED inflight
     \/ inflight' = inflight + 1 /\ UNCHANGED <<out, kernel>>
  /\ input' = input - FrameBytes
  /\ frames' = frames + 1
  /\ pc' = IF out'.closing THEN "idle" ELSE "decode"
  /\ UNCHANGED <<client, eof, closed>>

FramingError ==
  /\ MayGarble /\ pc = "decode" /\ Complete
  /\ out' = CloseNow(out)
  /\ pc' = "idle"
  /\ UNCHANGED <<client, kernel, input, eof, frames, inflight, closed>>

CloseWhenDrained(o) ==
  IF o.chunks = <<>> THEN CloseNow([o EXCEPT !.drain = TRUE])
  ELSE [o EXCEPT !.drain = TRUE]

FramesDone ==
  /\ pc = "decode" /\ ~Complete
  /\ out' = IF eof THEN CloseWhenDrained(out) ELSE UpdatePollRegistration(out)
  /\ pc' = "idle"
  /\ UNCHANGED <<client, kernel, input, eof, frames, inflight, closed>>

OnWritable ==
  /\ Free
  /\ "write" \in out.mask /\ (kernel < KernelBytes \/ reset)
  /\ Flush(out)
  /\ UNCHANGED <<client, input, pc, eof, frames, inflight, closed>>

(* The task Broker::Respond posts for a routed frame.                      *)
Respond ==
  /\ pc = "idle" /\ ~closed /\ inflight > 0
  /\ inflight' = inflight - 1
  /\ \E size \in ResponseSizes : SendFrame(size)
  /\ UNCHANGED <<client, input, pc, eof, frames, closed>>

(* ProcessPendingCloses and OnClosed.                                      *)
OnClosed ==
  /\ pc = "idle" /\ out.closing /\ ~closed
  /\ closed' = TRUE
  /\ out' = [out EXCEPT !.chunks = <<>>, !.bytes = 0]
  /\ UNCHANGED <<client, kernel, input, pc, eof, frames, inflight>>
-----------------------------------------------------------------------------
ClientSends ==
  /\ sent < StreamBytes /\ ~fin
  /\ sent' = sent + 1 /\ wire' = wire + 1
  /\ UNCHANGED <<fin, reset, kernel, input, pc, eof, frames, inflight, out,
                 closed>>

ClientReads ==
  /\ kernel > 0
  /\ kernel' = kernel - 1
  /\ UNCHANGED <<client, input, pc, eof, frames, inflight, out, closed>>

ClientCloses ==
  /\ MayBreak /\ ~reset
  /\ fin' = TRUE
  /\ \/ ~fin /\ UNCHANGED <<wire, reset>>
     \/ reset' = TRUE /\ wire' = 0
  /\ UNCHANGED <<sent, kernel, input, pc, eof, frames, inflight, out, closed>>

Callbacks ==
  \/ OnReadable \/ HandleFrame \/ FramingError \/ FramesDone
  \/ OnWritable \/ Respond \/ OnClosed

Next == Callbacks \/ ClientSends \/ ClientReads \/ ClientCloses

Spec == Init /\ [][Next]_vars

(* The loop dispatches every event the poller keeps reporting, and the     *)
(* client reads its responses.                                             *)
FairSpec ==
  /\ Spec
  /\ WF_vars(OnReadable) /\ WF_vars(HandleFrame) /\ WF_vars(FramesDone)
  /\ SF_vars(OnWritable) /\ WF_vars(Respond) /\ WF_vars(OnClosed)
  /\ WF_vars(ClientReads)
-----------------------------------------------------------------------------
(* output_bytes_, which the ceiling and both water marks are compared      *)
(* with, is what the queued buffers still have to send.                    *)
OutputAccounted ==
  /\ out.bytes = Ahead(out.chunks, Len(out.chunks))
  /\ \A i \in DOMAIN out.chunks : out.chunks[i].sent < out.chunks[i].size
  /\ out.bytes <= OutputMax

(* Between callbacks the registration fits the queue: a connection with    *)
(* queued output is woken when it can write, one without is not, and       *)
(* reading is suspended only while there is output whose draining resumes  *)
(* it.  Otherwise backpressure would silence a connection for good.        *)
RegistrationFits ==
  Free =>
    /\ ("write" \in out.mask) = (out.chunks # <<>>)
    /\ "read" \notin out.mask => out.bytes > LowWater

(* The fields keep their types, and the output queue, its byte count and   *)
(* its registration with the poller always belong together.                *)
OutputSound == TypeOK /\ OutputAccounted /\ RegistrationFits

(* A frame the connection has completely received is handled, or the       *)
(* connection closes.                                                      *)
FramesHandled ==
  input >= FrameBytes ~> (input < FrameBytes \/ out.closing)

(* A client that keeps reading gets its responses and is read again.       *)
OutputDrains == out.paused ~> (~out.paused \/ out.closing)
=============================================================================
