---------------------------- MODULE PayloadCodec ----------------------------
(***************************************************************************)
(* The payload writer and reader every message is built with. A payload is *)
(* the sequence of pieces the writer appends, each with the field it comes *)
(* from, its width in bytes and, where the reader looks at it, its value.  *)
(* The reader knows widths only: it fails when too few bytes are left, and *)
(* otherwise takes what comes next, right or not.                          *)
(*                                                                         *)
(* A message is filled in by f: the length f.text of its strings, the      *)
(* lengths f.items of its arrays and f.ids of its lists of broker ids, the *)
(* size f.tail of its records.                                             *)
(***************************************************************************)
EXTENDS Naturals, SequencesExt

Piece(field, width, value) == [field |-> field, width |-> width, value |-> value]

\* Zero-width pieces leave no trace in the buffer.
Append0(field, width) == IF width = 0 THEN <<>> ELSE <<Piece(field, width, 0)>>

PutInt(field, width) == <<Piece(field, width, 0)>>
PutEnum(field, value) == <<Piece(field, 1, value)>>
PutString(field, f) == <<Piece(field, 2, f.text)>> \o Append0(field, f.text)
PutArray(field, f, element) ==
  <<Piece(field, 4, f.items)>> \o FlattenSeq([i \in 1..f.items |-> element])
PutRecords(f) ==
  PutInt("record_count", 4) \o <<Piece("records", 4, f.tail)>> \o Append0("records", f.tail)

Bytes(pieces) ==
  LET upTo[i \in 0..Len(pieces)] == IF i = 0 THEN 0 ELSE upTo[i - 1] + pieces[i].width
  IN  upTo[Len(pieces)]

-----------------------------------------------------------------------------
(* A reader: the pieces ahead and the bytes in them, whether a read failed,*)
(* and whether every read so far took the piece its field was written as.  *)

Reader(pieces) ==
  [rest |-> pieces, left |-> Bytes(pieces), failed |-> FALSE, right |-> TRUE]

Remaining(r) == r.left

Fail(r) == [r EXCEPT !.failed = TRUE]

\* Reads that many bytes; nothing is read after a failure.
Take(r, field, width) ==
  IF r.failed \/ width = 0 THEN r
  ELSE IF Remaining(r) < width THEN Fail(r)
  ELSE [r EXCEPT !.rest = Tail(r.rest), !.left = r.left - width,
                 !.right = r.right /\ Head(r.rest).field = field
                                   /\ Head(r.rest).width = width]

\* What the next read of the given width would return.
Peek(r) == IF r.rest = <<>> THEN 0 ELSE Head(r.rest).value

Require(r, condition) == IF r.failed \/ condition THEN r ELSE Fail(r)

GetString(r, field) == Take(Take(r, field, 2), field, Peek(r))

\* The bound an array's length must respect: what the rest could hold.
ElementBudget(r, min) == Remaining(r) \div min

\* The caller works the budget out before the length itself is read.
GetArrayLen(r, field, min) ==
  LET budget == ElementBudget(r, min)
  IN  Require(Take(r, field, 4), Peek(r) <= budget)

\* records = r.GetRemaining().subspan(0, records_len): all that is left goes.
GetRecords(r) ==
  LET counted == Take(Take(r, "record_count", 4), "records", 4)
      length == IF Len(r.rest) < 2 THEN 0 ELSE r.rest[2].value
      checked == Require(counted, Remaining(counted) >= length)
  IN  IF checked.failed THEN checked
      ELSE [Take(checked, "records", length) EXCEPT !.rest = <<>>, !.left = 0]

Complete(r) == ~r.failed /\ Remaining(r) = 0

-----------------------------------------------------------------------------
(* The reads of a Decode, in its order.                                    *)

GetInt(field, width) == [kind |-> "value", field |-> field, width |-> width]
GetIndex(field) == [kind |-> "index", field |-> field]
GetEnum(field, last) == [kind |-> "enum", field |-> field, last |-> last]
Text(field) == [kind |-> "string", field |-> field]
Array(field, min, element) ==
  [kind |-> "array", field |-> field, min |-> min, element |-> element]
Records == [kind |-> "records"]

RECURSIVE Decode(_, _)

Decode(r, reads) ==
  LET g == Head(reads)
      counted == GetArrayLen(r, g.field, g.min)
      next == CASE g.kind = "value" -> Take(r, g.field, g.width)
                [] g.kind = "index" -> Require(Take(r, g.field, 4), Peek(r) >= 0)
                [] g.kind = "enum" -> Require(Take(r, g.field, 1), Peek(r) <= g.last)
                [] g.kind = "string" -> GetString(r, g.field)
                [] g.kind = "records" -> GetRecords(r)
                [] g.kind = "array" ->
                     Decode(counted, FlattenSeq([i \in 1..Peek(r) |-> g.element]))
  IN  IF r.failed \/ reads = <<>> THEN r ELSE Decode(next, Tail(reads))
=============================================================================
