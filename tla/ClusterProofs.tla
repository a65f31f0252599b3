--------------------------- MODULE ClusterProofs ---------------------------
(***************************************************************************)
(* Proofs about the cluster and its producer, for any number of brokers,   *)
(* workers, topics, records, kills and timeouts.                           *)
(***************************************************************************)
EXTENDS Producer, TLAPS

(***************************************************************************)
(* The producer.  What Accounted says of an idle producer holds of a busy  *)
(* one too; it is inductive with what the buffer, the batch on its way and *)
(* a record that is held back for it may be.                               *)
(***************************************************************************)
ProducerFields == {"pc", "next", "left", "cache", "pending", "target", "batch", "part", "attempt",
                   "held", "sticky", "counter"}

Buffering(p) ==
  /\ DOMAIN p = ProducerFields
  /\ p.next \in Nat /\ p.pending \in Seq(1..p.next) /\ p.batch \in Seq(1..p.next)
  /\ p.pc = "idle" => p.held = <<>> /\ (p.pending = <<>> \/ Len(p.pending) < BatchRecords)
  /\ p.pc # "idle" => p.pending = <<>>
  /\ p.held # <<>> => /\ BatchRecords > 1 /\ p.next > 0 /\ p.held[1] = p.next
                      /\ \A i \in DOMAIN p.batch : p.batch[i] < p.next

\* The records somebody was told of, or that made room for a large one.
Covered(next, a) == a[1] \in told \/ \E l \in Large : a[1] < l /\ l <= next

ProducerInv == Buffering(prod) /\ \A a \in acked : Covered(prod.next, a)

\* Routing a record changes where the next ones go, and nothing else.
LEMMA RoutedFields ==
  ASSUME NEW p, DOMAIN p = ProducerFields, NEW record, NEW q, q = Routed(p, record)
  PROVE  /\ DOMAIN q = ProducerFields
         /\ q.pc = p.pc /\ q.next = p.next /\ q.pending = p.pending /\ q.batch = p.batch
         /\ q.held = p.held /\ q.target = p.target /\ q.part = p.part
         /\ q.left = p.left /\ q.cache = p.cache
<1>1. CASE q = p
  BY Zenon, <1>1
<1>2. CASE q = [p EXCEPT !.sticky = RouteFor(p, record),
                         !.counter = IF p.pending = <<>> THEN @ + 1 ELSE @]
  BY <1>2 DEF ProducerFields
<1> QED
  BY <1>1, <1>2, Zenon DEF Routed

\* A flush moves the buffer into the batch.
LEMMA FlushingFields ==
  ASSUME NEW p, DOMAIN p = ProducerFields, NEW q, q = Flushing(p)
  PROVE  /\ DOMAIN q = ProducerFields
         /\ q.pc = "attempt" /\ q.next = p.next /\ q.pending = <<>> /\ q.batch = p.pending
         /\ q.held = p.held /\ q.target = p.target /\ q.part = p.target
         /\ q.left = p.left /\ q.cache = p.cache /\ q.sticky = p.sticky /\ q.counter = p.counter
BY Zenon DEF Flushing, ProducerFields

\* A record joins the buffer, which is flushed if that fills it.
LEMMA BufferedFields ==
  ASSUME NEW p, DOMAIN p = ProducerFields, NEW record, NEW part, NEW q,
         q = Buffered(p, record, part)
  PROVE  LET full == Len(Append(p.pending, record)) >= BatchRecords \/ record \in Large
         IN /\ DOMAIN q = ProducerFields /\ q.next = p.next /\ q.held = <<>>
            /\ q.target = part /\ q.part \in {0, part}
            /\ q.left = p.left /\ q.cache = p.cache /\ q.sticky = p.sticky
            /\ q.counter = p.counter
            /\ full => /\ q.pc = "attempt" /\ q.pending = <<>>
                       /\ q.batch = Append(p.pending, record)
            /\ ~full => /\ q.pc = "idle" /\ q.pending = Append(p.pending, record)
                        /\ q.batch = <<>>
<1>1. PICK r : r = [p EXCEPT !.pc = "idle", !.batch = <<>>, !.part = 0, !.attempt = 0,
                             !.held = <<>>, !.pending = Append(@, record), !.target = part]
  BY Zenon
<1>2. /\ DOMAIN r = ProducerFields
      /\ r.pc = "idle" /\ r.next = p.next /\ r.pending = Append(p.pending, record)
      /\ r.batch = <<>> /\ r.held = <<>> /\ r.target = part /\ r.part = 0
      /\ r.left = p.left /\ r.cache = p.cache /\ r.sticky = p.sticky /\ r.counter = p.counter
  BY Zenon, <1>1 DEF ProducerFields
<1>3. q = IF Len(r.pending) >= BatchRecords \/ record \in Large THEN Flushing(r) ELSE r
  BY <1>1, Zenon DEF Buffered
<1>4. CASE Len(r.pending) >= BatchRecords \/ record \in Large
  <2>1. q = Flushing(r)
    BY Zenon, <1>3, <1>4
  <2>2. /\ DOMAIN q = ProducerFields
        /\ q.pc = "attempt" /\ q.next = r.next /\ q.pending = <<>> /\ q.batch = r.pending
        /\ q.held = r.held /\ q.target = r.target /\ q.part = r.target
        /\ q.left = r.left /\ q.cache = r.cache /\ q.sticky = r.sticky /\ q.counter = r.counter
    BY ZenonT(30), <1>2, <2>1, FlushingFields
  <2> QED
    BY Zenon, <1>2, <1>4, <2>2
<1>5. CASE ~(Len(r.pending) >= BatchRecords \/ record \in Large)
  <2>1. q = r
    BY Zenon, <1>3, <1>5
  <2> QED
    BY Zenon, <1>2, <1>5, <2>1
<1> QED
  BY Zenon, <1>4, <1>5

\* A call that fails leaves an idle producer without a batch.
LEMMA FailedFields ==
  ASSUME NEW p, DOMAIN p = ProducerFields, NEW q, q = Failed(p)
  PROVE  /\ DOMAIN q = ProducerFields
         /\ q.pc = "idle" /\ q.next = p.next /\ q.pending = p.pending /\ q.batch = <<>>
         /\ q.held = <<>> /\ q.target = p.target /\ q.part = 0
         /\ q.left = p.left /\ q.cache = p.cache /\ q.sticky = p.sticky /\ q.counter = p.counter
BY Zenon DEF Failed, ProducerFields

\* A record more that is covered stays so while records are added.
LEMMA CoverGrows ==
  ASSUME NEW m \in Nat, NEW n \in Nat, m <= n, told \subseteq told', NEW a, Covered(m, a)
  PROVE  a[1] \in told' \/ \E l \in Large : a[1] < l /\ l <= n
<1>1. CASE a[1] \in told
  BY Zenon, <1>1
<1>2. CASE a[1] \notin told
  <2>1. PICK l \in Large : a[1] < l /\ l <= m
    BY Zenon, <1>2 DEF Covered
  <2>2. l \in Nat
    BY Zenon, RecordsAssumption
  <2>3. l <= n
    BY <2>1, <2>2
  <2> QED
    BY Zenon, <2>1, <2>3
<1> QED
  BY Zenon, <1>1, <1>2

\* Send keeps the records apart: what it holds back is after all it sends.
LEMMA SendKeeps ==
  ASSUME ProducerInv, Send
  PROVE  ProducerInv'
<1>0. /\ Buffering(prod) /\ told' = told /\ acked' = acked /\ prod.pc = "idle"
      /\ prod.next \in Nat /\ prod.next + 1 \in Nat /\ prod.next <= prod.next + 1
      /\ DOMAIN prod = ProducerFields
  <2>1. Buffering(prod)
    BY Zenon DEF ProducerInv
  <2>2. told' = told /\ acked' = acked /\ prod.pc = "idle"
    BY Zenon DEF Send
  <2>3. prod.next \in Nat /\ DOMAIN prod = ProducerFields
    BY Zenon, <2>1 DEF Buffering
  <2> QED
    BY <2>1, <2>2, <2>3
<1>1. SUFFICES prod'.next = prod.next + 1 /\ Buffering(prod')
  <2>1. ASSUME NEW a \in acked PROVE a[1] \in told' \/ \E l \in Large : a[1] < l /\ l <= prod.next + 1
    <3>1. Covered(prod.next, a) /\ told \subseteq told'
      BY Zenon, <1>0 DEF ProducerInv
    <3> QED
      BY Zenon, <1>0, <3>1, CoverGrows
  <2> QED
    BY Zenon, <1>0, <1>1, <2>1 DEF ProducerInv, Covered, Buffering
<1>2. CASE prod' = [prod EXCEPT !.next = @ + 1, !.left = @ - 1]
  <2>1. /\ DOMAIN prod' = ProducerFields /\ prod'.next = prod.next + 1
        /\ prod'.pc = prod.pc /\ prod'.pending = prod.pending /\ prod'.batch = prod.batch
        /\ prod'.held = prod.held
    BY Zenon, <1>0, <1>2 DEF ProducerFields
  <2> QED
    BY <1>0, <2>1 DEF Buffering
<1>3. ASSUME NEW cache, NEW p, p = [prod EXCEPT !.cache = cache, !.next = prod.next + 1, !.left = @ - 1],
             NEW part, NEW q, q = Routed(p, prod.next + 1),
             prod' = IF p.pending # <<>> /\ p.target # part
                     THEN [Flushing(q) EXCEPT !.held = <<prod.next + 1, part>>]
                     ELSE Buffered(q, prod.next + 1, part)
      PROVE  prod'.next = prod.next + 1 /\ Buffering(prod')
  <2>1. /\ DOMAIN p = ProducerFields /\ p.next = prod.next + 1
        /\ p.pc = prod.pc /\ p.pending = prod.pending /\ p.batch = prod.batch
        /\ p.held = prod.held
    BY Zenon, <1>0, <1>3 DEF ProducerFields
  <2>2. /\ DOMAIN q = ProducerFields /\ q.next = prod.next + 1
        /\ q.pc = prod.pc /\ q.pending = prod.pending /\ q.batch = prod.batch
        /\ q.held = prod.held
    <3>1. PICK record : record = prod.next + 1
      BY Zenon
    <3>2. q = Routed(p, record)
      BY Zenon, <1>3, <3>1
    <3> QED
      BY <2>1, <3>1, <3>2, RoutedFields
  <2>3. CASE p.pending # <<>> /\ p.target # part
    <3>1. PICK r : r = Flushing(q)
      BY Zenon
    <3>2. /\ DOMAIN r = ProducerFields
          /\ r.pc = "attempt" /\ r.next = prod.next + 1 /\ r.pending = <<>>
          /\ r.batch = prod.pending
      BY <2>2, <3>1, FlushingFields
    <3>3. prod' = [r EXCEPT !.held = <<prod.next + 1, part>>]
      BY Zenon, <1>3, <2>3, <3>1
    <3>4. /\ DOMAIN prod' = ProducerFields
          /\ prod'.pc = "attempt" /\ prod'.next = prod.next + 1 /\ prod'.pending = <<>>
          /\ prod'.batch = prod.pending /\ prod'.held = <<prod.next + 1, part>>
      BY Zenon, <3>2, <3>3 DEF ProducerFields
    <3>5. Len(prod.pending) < BatchRecords /\ prod.pending # <<>>
          /\ prod.pending \in Seq(1..prod.next)
      BY Zenon, <1>0, <2>1, <2>3 DEF Buffering
    <3>6. BatchRecords > 1
      BY <1>0, <3>5, RecordsAssumption
    <3>7. \A i \in DOMAIN prod.pending : prod.pending[i] < prod.next + 1
      BY <1>0, <3>5
    <3>8. prod.pending \in Seq(1..(prod.next + 1)) /\ <<>> \in Seq(1..(prod.next + 1))
      BY <1>0, <3>5
    <3> QED
      BY <1>0, <3>4, <3>6, <3>7, <3>8 DEF Buffering
  <2>4. CASE ~(p.pending # <<>> /\ p.target # part)
    <3>1. prod' = Buffered(q, prod.next + 1, part)
      BY Zenon, <1>3, <2>4
    <3>2. PICK more : more = Append(prod.pending, prod.next + 1)
      BY Zenon
    <3>3. LET full == Len(more) >= BatchRecords \/ prod.next + 1 \in Large
          IN /\ DOMAIN prod' = ProducerFields /\ prod'.next = prod.next + 1 /\ prod'.held = <<>>
             /\ full => prod'.pc = "attempt" /\ prod'.pending = <<>> /\ prod'.batch = more
             /\ ~full => prod'.pc = "idle" /\ prod'.pending = more /\ prod'.batch = <<>>
      BY SMTT(30), <2>2, <3>1, <3>2, BufferedFields
    <3>4. prod.pending \in Seq(1..prod.next)
      BY Zenon, <1>0 DEF Buffering
    <3>5. /\ more \in Seq(1..(prod.next + 1)) /\ <<>> \in Seq(1..(prod.next + 1))
          /\ Len(more) \in Nat
      BY SMTT(30), <1>0, <3>2, <3>4
    <3>6. CASE Len(more) >= BatchRecords \/ prod.next + 1 \in Large
      BY Zenon, <1>0, <3>3, <3>5, <3>6 DEF Buffering
    <3>7. CASE ~(Len(more) >= BatchRecords \/ prod.next + 1 \in Large)
      <4>1. Len(more) < BatchRecords
        BY <3>5, <3>7, RecordsAssumption
      <4> QED
        BY Zenon, <1>0, <3>3, <3>5, <3>7, <4>1 DEF Buffering
    <3> QED
      BY Zenon, <3>6, <3>7
  <2> QED
    BY Zenon, <2>3, <2>4
<1> QED
  BY <1>2, <1>3, Zenon DEF Send

\* A flush, and every attempt, leaves the records alone.
LEMMA FlushKeeps ==
  ASSUME ProducerInv, Flush
  PROVE  ProducerInv'
<1>1. /\ Buffering(prod) /\ told' = told /\ acked' = acked /\ prod.pc = "idle"
      /\ prod' = Flushing(prod) /\ DOMAIN prod = ProducerFields /\ prod.held = <<>>
  BY Zenon DEF ProducerInv, Buffering, Flush
<1>2. /\ DOMAIN prod' = ProducerFields
      /\ prod'.pc = "attempt" /\ prod'.next = prod.next /\ prod'.pending = <<>>
      /\ prod'.batch = prod.pending /\ prod'.held = <<>>
  BY <1>1, FlushingFields
<1> QED
  BY <1>1, <1>2 DEF ProducerInv, Buffering, Covered

\* The producer after a step that leaves its records alone.
LEMMA SameRecords ==
  ASSUME ProducerInv, NEW p, DOMAIN p = ProducerFields, p.next = prod.next,
         p.pending = prod.pending, p.batch = prod.batch, p.held = prod.held,
         prod.pc # "idle", p.pc # "idle"
  PROVE  Buffering(p)
BY Zenon DEF ProducerInv, Buffering

\* The producer after a call that has failed.
LEMMA FailedKeeps ==
  ASSUME ProducerInv, NEW q, DOMAIN q = ProducerFields, q.next = prod.next,
         q.pending = prod.pending, prod.pc # "idle", NEW p, p = Failed(q)
  PROVE  Buffering(p) /\ p.next = prod.next /\ p.pc = "idle"
<1>1. /\ DOMAIN p = ProducerFields
      /\ p.pc = "idle" /\ p.next = prod.next /\ p.pending = prod.pending /\ p.batch = <<>>
      /\ p.held = <<>>
  BY FailedFields
<1>2. prod.pending = <<>> /\ prod.next \in Nat
  BY Zenon DEF ProducerInv, Buffering
<1> QED
  BY <1>1, <1>2 DEF Buffering

\* An attempt, whatever becomes of it, leaves the records alone too.
LEMMA AttemptKeeps ==
  ASSUME ProducerInv, Attempt
  PROVE  ProducerInv'
<1>0. /\ told' = told /\ acked' = acked /\ prod.pc = "attempt"
      /\ DOMAIN prod = ProducerFields
  BY Zenon DEF ProducerInv, Buffering, Attempt
<1>1. SUFFICES prod'.next = prod.next /\ Buffering(prod')
  BY Zenon, <1>0, <1>1 DEF ProducerInv, Covered
<1>2. CASE prod' = Failed(prod)
  BY Zenon, <1>0, <1>2, FailedKeeps
<1>3. ASSUME NEW cache, \/ prod' = [prod EXCEPT !.pc = "wait", !.cache = cache]
                        \/ prod' = [prod EXCEPT !.attempt = @ + 1, !.cache = cache]
                        \/ prod' = [prod EXCEPT !.attempt = @ + 1]
      PROVE  prod'.next = prod.next /\ Buffering(prod')
  <2>1. /\ DOMAIN prod' = ProducerFields /\ prod'.next = prod.next
        /\ prod'.pending = prod.pending /\ prod'.batch = prod.batch
        /\ prod'.held = prod.held /\ prod'.pc \in {"attempt", "wait"}
    BY Zenon, <1>0, <1>3 DEF ProducerFields
  <2>2. prod'.pc # "idle"
    BY Zenon, <2>1
  <2> QED
    BY Zenon, <1>0, <2>1, <2>2, SameRecords
<1> QED
  BY <1>2, <1>3, Zenon DEF Attempt

\* The records of the batch are known, and before one that is held back.
LEMMA BatchNumbers ==
  ASSUME ProducerInv, NEW i \in DOMAIN prod.batch
  PROVE  /\ prod.batch[i] \in Nat /\ prod.batch[i] <= prod.next
         /\ prod.held # <<>> => prod.batch[i] < prod.next
<1>1. prod.batch \in Seq(1..prod.next) /\ prod.next \in Nat
  BY Zenon DEF ProducerInv, Buffering
<1>2. prod.batch[i] \in 1..prod.next
  BY <1>1
<1> QED
  BY <1>1, <1>2 DEF ProducerInv, Buffering

\* An answer covers the batch it acknowledges, unless the record that was held
\* back for it is large and starts the next batch at once.
LEMMA AnsweredKeeps ==
  ASSUME ProducerInv, Answered
  PROVE  ProducerInv'
<1> DEFINE code == reply[ProducerClient]
           batch == {prod.batch[i] : i \in DOMAIN prod.batch}
           again == [prod EXCEPT !.pc = "attempt", !.attempt = @ + 1,
                                 !.cache = IF code = "unavailable" THEN @ ELSE Unknown]
           gone == IF code = "closed" THEN [prod EXCEPT !.cache = Unknown] ELSE prod
           done == IF prod.held = <<>> THEN Failed(prod)
                   ELSE Buffered(prod, prod.held[1], prod.held[2])
<1>0. /\ prod.pc = "wait" /\ prod.pc # "idle" /\ DOMAIN prod = ProducerFields /\ prod.next \in Nat
      /\ prod.pending = <<>>
  <2>1. prod.pc = "wait"
    BY Zenon DEF Answered
  <2> QED
    BY Zenon, <2>1 DEF ProducerInv, Buffering
<1>1. /\ prod' = CASE code = "ok" -> done
                   [] code \in {"timeout", "unavailable", "not_leader"} -> again
                   [] OTHER -> Failed(gone)
      /\ acked' = IF code = "ok" THEN acked \cup (batch \X {prod.part}) ELSE acked
      /\ told' = IF code = "ok" /\ done.pc = "idle" THEN told \cup batch ELSE told
  BY Zenon DEF Answered
<1>2. CASE code # "ok"
  <2>1. acked' = acked /\ told' = told
    BY <1>1, <1>2, Zenon
  <2>2. prod' = again \/ prod' = Failed(gone)
    BY <1>1, <1>2, Zenon
  <2>3. prod'.next = prod.next /\ Buffering(prod')
    <3>1. CASE prod' = again
      <4>1. /\ DOMAIN prod' = ProducerFields /\ prod'.next = prod.next
            /\ prod'.pending = prod.pending /\ prod'.batch = prod.batch
            /\ prod'.held = prod.held /\ prod'.pc = "attempt"
        BY Zenon, <1>0, <3>1 DEF ProducerFields
      <4>2. prod'.pc # "idle"
        BY Zenon, <4>1
      <4> QED
        BY Zenon, <1>0, <4>1, <4>2, SameRecords
    <3>2. CASE prod' = Failed(gone)
      <4>1. PICK q : q = gone
        BY Zenon
      <4>2. DOMAIN q = ProducerFields /\ q.next = prod.next /\ q.pending = prod.pending
        <5>1. CASE q = prod
          BY Zenon, <1>0, <5>1
        <5>2. CASE q = [prod EXCEPT !.cache = Unknown]
          BY Zenon, <1>0, <5>2 DEF ProducerFields
        <5> QED
          BY <4>1, <5>1, <5>2, Zenon
      <4>3. prod' = Failed(q)
        BY Zenon, <3>2, <4>1
      <4> HIDE DEF gone
      <4> QED
        BY Zenon, <1>0, <4>2, <4>3, FailedKeeps
    <3> QED
      BY Zenon, <2>2, <3>1, <3>2
  <2> QED
    BY Zenon, <2>1, <2>3 DEF ProducerInv, Covered
<1>3. CASE code = "ok"
  <2>1. /\ prod' = done /\ acked' = acked \cup (batch \X {prod.part})
        /\ told' = IF prod'.pc = "idle" THEN told \cup batch ELSE told
    BY <1>1, <1>3, Zenon
  <2>2. /\ prod'.next = prod.next /\ Buffering(prod')
        /\ prod'.pc = "idle" \/ (prod.held # <<>> /\ prod.next \in Large)
    <3>1. CASE prod.held = <<>>
      <4>1. prod' = Failed(prod)
        BY Zenon, <2>1, <3>1
      <4> QED
        BY Zenon, <1>0, <4>1, FailedKeeps
    <3>2. CASE prod.held # <<>>
      <4>1. prod' = Buffered(prod, prod.held[1], prod.held[2])
        BY Zenon, <2>1, <3>2
      <4>2. prod.held[1] = prod.next /\ BatchRecords > 1
        BY Zenon, <3>2 DEF ProducerInv, Buffering
      <4>3. PICK part : part = prod.held[2]
        BY Zenon
      <4>4. PICK record : record = prod.next
        BY Zenon
      <4>5. prod' = Buffered(prod, record, part)
        BY Zenon, <4>1, <4>2, <4>3, <4>4
      <4>6. PICK more : more = Append(prod.pending, record)
        BY Zenon
      <4>7. LET full == Len(more) >= BatchRecords \/ record \in Large
            IN /\ DOMAIN prod' = ProducerFields /\ prod'.next = prod.next /\ prod'.held = <<>>
               /\ full => prod'.pc = "attempt" /\ prod'.pending = <<>> /\ prod'.batch = more
               /\ ~full => prod'.pc = "idle" /\ prod'.pending = more /\ prod'.batch = <<>>
        BY <1>0, <4>5, <4>6, BufferedFields
      <4>8. more = <<prod.next>>
        BY <1>0, <4>4, <4>6
      <4>9. Len(more) = 1
        BY Zenon, <4>8
      <4>10. prod.next \in 1..prod.next
        <5>1. prod.next > 0
          BY Zenon, <3>2 DEF ProducerInv, Buffering
        <5> QED
          BY <1>0, <5>1
      <4>11. more \in Seq(1..prod.next) /\ <<>> \in Seq(1..prod.next)
        BY <1>0, <4>8, <4>10
      <4>12. CASE record \in Large
        BY Zenon, <1>0, <3>2, <4>4, <4>7, <4>11, <4>12 DEF Buffering
      <4>13. CASE record \notin Large
        <5>1. ~(Len(more) >= BatchRecords) /\ Len(more) < BatchRecords
          BY <4>2, <4>9, RecordsAssumption
        <5> QED
          BY Zenon, <1>0, <3>2, <4>7, <4>11, <4>13, <5>1 DEF Buffering
      <4> QED
        BY Zenon, <4>12, <4>13
    <3> QED
      BY Zenon, <3>1, <3>2
  <2>3. told \subseteq told'
    BY Zenon, <2>1
  <2>4. ASSUME NEW a \in acked' PROVE a[1] \in told' \/ \E l \in Large : a[1] < l /\ l <= prod.next
    <3>1. CASE a \in acked
      <4>1. Covered(prod.next, a) /\ prod.next <= prod.next
        BY <1>0, <3>1 DEF ProducerInv
      <4> QED
        BY Zenon, <1>0, <2>3, <4>1, CoverGrows
    <3>2. CASE a \in batch \X {prod.part}
      <4>1. a[1] \in batch
        BY Zenon, <3>2
      <4>2. PICK i \in DOMAIN prod.batch : a[1] = prod.batch[i]
        BY Zenon, <4>1
      <4>3. CASE prod'.pc = "idle"
        BY Zenon, <2>1, <4>1, <4>3
      <4>4. CASE prod.held # <<>> /\ prod.next \in Large
        <5>1. a[1] < prod.next
          BY Zenon, <4>2, <4>4, BatchNumbers
        <5> QED
          BY <1>0, <4>4, <5>1
      <4> QED
        BY Zenon, <2>2, <4>3, <4>4
    <3> QED
      BY Zenon, <2>1, <2>4, <3>1, <3>2
  <2> HIDE DEF batch, done
  <2> QED
    BY Zenon, <2>2, <2>4 DEF ProducerInv, Covered
<1> QED
  BY Zenon, <1>2, <1>3

\* What Send and Flush return accounts for every record the brokers acknowledged,
\* but for records that were flushed to make room for a large one.
THEOREM ReturnsAccountForAcks == Spec => []Accounted
<1>1. Init => ProducerInv
  <2>1. ASSUME Init PROVE ProducerInv
    <3>1. PICK budget \in Budgets : prod = [IdleProducer EXCEPT !.left = budget[1]]
      BY <2>1, Zenon DEF Init
    <3>2. /\ DOMAIN prod = ProducerFields /\ prod.pc = "idle" /\ prod.next = 0
          /\ prod.pending = <<>> /\ prod.batch = <<>> /\ prod.held = <<>>
      BY Zenon, <3>1 DEF IdleProducer, ProducerFields
    <3>3. acked = {}
      BY <2>1, Zenon DEF Init
    <3> QED
      BY <3>2, <3>3 DEF ProducerInv, Buffering
  <2> QED
    BY Zenon, <2>1
<1>2. ProducerInv /\ [Next]_vars => ProducerInv'
  <2>1. ASSUME ProducerInv, UNCHANGED <<prod, acked, told>> PROVE ProducerInv'
    BY Zenon, <2>1 DEF ProducerInv, Covered
  <2>2. ASSUME [Next]_vars PROVE Send \/ Flush \/ Attempt \/ Answered \/ UNCHANGED <<prod, acked, told>>
    BY <2>2, Zenon DEF Next, ClientStep, AdminCall, AdminAnswered, vars
  <2> QED
    BY Zenon, <2>1, <2>2, SendKeeps, FlushKeeps, AttemptKeeps, AnsweredKeeps
<1>3. ProducerInv => Accounted
  BY Zenon DEF ProducerInv, Covered, Accounted
<1> QED
  BY <1>1, <1>2, <1>3, PTL DEF Spec
-----------------------------------------------------------------------------
(***************************************************************************)
(* Placement.  A descriptor of a topic may stand in a broker's table or    *)
(* file, in what a thread is working on, in a request that pushes it and   *)
(* in the producer's cache.  Only the controller makes one; every other    *)
(* step copies what is already there.                                      *)
(***************************************************************************)
RequestFields == {"kind", "topic", "from", "count", "rf", "pushed", "part", "records"}
ThreadFields == {"pc", "job", "made", "topic", "desc", "part", "fresh", "list", "adopted", "peers",
                 "at"}

RequestSays(req, t, d) ==
  /\ req.kind = "create" /\ req.pushed /\ req.topic = t
  /\ d = ComputeAssignments(t, req.count, req.rf)

QueueSays(queue, t, d) == \E i \in DOMAIN queue : RequestSays(queue[i], t, d)

TableSays(table, t, d) == t \in DOMAIN table /\ d = table[t]

ThreadSays(th, t, d) ==
  (th.topic = t /\ d = th.desc) \/ TableSays(th.list, t, d) \/ RequestSays(th.job, t, d)

CacheSays(p, t, d) == t = Topic /\ p.cache # Unknown /\ d = p.cache

Says(t, d) ==
  \/ \E b \in Brokers : TableSays(topics[b], t, d)
  \/ \E b \in Brokers : disk[b] # Torn /\ TableSays(disk[b], t, d)
  \/ \E b \in Brokers, w \in Threads : ThreadSays(thread[b][w], t, d)
  \/ \E b \in Brokers, w \in Workers : QueueSays(inbox[b][w], t, d)
  \/ CacheSays(prod, t, d)

\* The descriptors ComputeAssignments makes for requests that are not refused.
Placed(t, d) ==
  \E count, rf \in Nat :
    /\ count > 0 /\ rf > 0 /\ rf <= Cardinality(Brokers)
    /\ d = ComputeAssignments(t, count, rf)

Agreed ==
  \A t \in Topics :
    /\ created[t] \in Nat
    /\ \A d : Says(t, d) => created[t] > 0 /\ Placed(t, d)
    /\ created[t] <= 1 => \A d, e : Says(t, d) /\ Says(t, e) => d = e

\* What the steps rely on: requests and threads are records, only creations
\* are pushed, and only the controller creates what was not pushed to it.
RequestShape(req) ==
  /\ DOMAIN req = RequestFields
  /\ req.topic \in Topics => req.count \in Int /\ req.rf \in Int /\ req.part \in Int
  /\ req.pushed => req.kind = "create"

QueueShape(queue) ==
  /\ Len(queue) \in Nat /\ DOMAIN queue = 1..Len(queue)
  /\ \A i \in DOMAIN queue : RequestShape(queue[i])

ThreadShape(b, th) ==
  /\ DOMAIN th = ThreadFields /\ RequestShape(th.job)
  /\ th.pc = "create" => b = ControllerId \/ th.job.pushed
  /\ th.pc \in {"resolve", "again"} => th.job.kind = "produce"
  /\ th.pc = "remove" => th.topic = ""

Shaped ==
  /\ DOMAIN topics = Brokers /\ DOMAIN disk = Brokers /\ DOMAIN created = Topics
  /\ DOMAIN thread = Brokers /\ DOMAIN inbox = Brokers
  /\ \A b \in Brokers : DOMAIN thread[b] = Threads /\ DOMAIN inbox[b] = Workers
  /\ \A b \in Brokers, w \in Threads : ThreadShape(b, thread[b][w])
  /\ \A b \in Brokers, w \in Workers : QueueShape(inbox[b][w])

Routing(p) ==
  /\ DOMAIN p = ProducerFields
  /\ p.next \in Nat /\ p.left \in Nat /\ p.next + p.left <= Len(KeyHash)
  /\ p.target \in Nat /\ p.part \in Nat /\ p.sticky \in Nat /\ p.counter \in Nat
  /\ p.held # <<>> => p.held[2] \in Nat

PlacementInv == Agreed /\ Shaped /\ Routing(prod)

\* A step that makes no new descriptor.
Quiet == Shaped' /\ UNCHANGED created /\ \A t \in Topics : \A d : Says(t, d)' => Says(t, d)

\* Then what was agreed on stays so.
LEMMA QuietAgrees ==
  ASSUME Agreed, Quiet
  PROVE  Agreed'
BY Zenon DEF Agreed, Quiet

\* What a descriptor tells of the request it was made for.
LEMMA PlacedTells ==
  ASSUME NEW t, NEW d, Placed(t, d)
  PROVE  /\ Len(d) \in Nat /\ Len(d) > 0 /\ Len(d[1]) \in Nat
         /\ d = ComputeAssignments(t, PartitionCount(d), ReplicationFactor(d))
<1>1. PICK count \in Nat, rf \in Nat :
        /\ count > 0 /\ rf > 0 /\ rf <= Cardinality(Brokers)
        /\ d = ComputeAssignments(t, count, rf)
  BY Zenon DEF Placed
<1>2. PICK n : n = Cardinality(Brokers)
  BY Zenon
<1>3. n \in Nat /\ (IF rf < n THEN rf ELSE n) = rf
  <2>1. n \in Nat
    BY <1>2, ClusterAssumption, Zenon
  <2>2. rf <= n
    BY Zenon, <1>1, <1>2
  <2> QED
    BY <2>1, <2>2
<1>4. d = [p \in 1..count |-> [r \in 1..rf |->
             SortedBrokers[(((p - 1) + (r - 1) + TopicHash[t]) % n) + 1]]]
  BY Zenon, <1>1, <1>2, <1>3 DEF ComputeAssignments
<1>5. Len(d) = count
  BY <1>1, <1>4
<1>6. d[1] = [r \in 1..rf |-> SortedBrokers[(((1 - 1) + (r - 1) + TopicHash[t]) % n) + 1]]
  BY <1>1, <1>4
<1>7. Len(d[1]) = rf
  BY <1>1, <1>6
<1> QED
  BY Zenon, <1>1, <1>5, <1>7 DEF PartitionCount, ReplicationFactor

\* What holds nothing but descriptors that stand somewhere now.
KnownTable(table) == \A t \in Topics : \A d : TableSays(table, t, d) => Says(t, d)
KnownRequest(req) == \A t \in Topics : \A d : RequestSays(req, t, d) => Says(t, d)
KnownThread(th) == \A t \in Topics : \A d : ThreadSays(th, t, d) => Says(t, d)

GoodTables(tables) == DOMAIN tables = Brokers /\ \A b \in Brokers : KnownTable(tables[b])
GoodFiles(files) ==
  DOMAIN files = Brokers /\ \A b \in Brokers : files[b] # Torn => KnownTable(files[b])
GoodThreads(threads) ==
  /\ DOMAIN threads = Brokers /\ \A b \in Brokers : DOMAIN threads[b] = Threads
  /\ \A b \in Brokers, w \in Threads :
       ThreadShape(b, threads[b][w]) /\ KnownThread(threads[b][w])
GoodQueue(queue) == QueueShape(queue) /\ \A i \in DOMAIN queue : KnownRequest(queue[i])
GoodQueues(queues) ==
  /\ DOMAIN queues = Brokers /\ \A b \in Brokers : DOMAIN queues[b] = Workers
  /\ \A b \in Brokers, w \in Workers : GoodQueue(queues[b][w])
GoodCache(p) == \A t \in Topics : \A d : CacheSays(p, t, d) => Says(t, d)

\* So it is with all there is,
LEMMA GoodNow ==
  ASSUME Shaped
  PROVE  /\ GoodTables(topics) /\ GoodFiles(disk) /\ GoodThreads(thread) /\ GoodQueues(inbox)
         /\ GoodCache(prod)
<1>1. GoodTables(topics) /\ GoodFiles(disk)
  BY Zenon DEF Shaped, GoodTables, GoodFiles, KnownTable, Says
<1>2. GoodThreads(thread)
  BY Zenon DEF Shaped, GoodThreads, KnownThread, Says
<1>3. GoodQueues(inbox)
  BY ZenonT(30) DEF Shaped, GoodQueues, GoodQueue, KnownRequest, QueueSays, Says
<1>4. GoodCache(prod)
  BY Zenon DEF GoodCache, Says
<1> QED
  BY Zenon, <1>1, <1>2, <1>3, <1>4

\* and a step that leaves it so is quiet.
LEMMA GoodQuiet ==
  ASSUME Shaped, UNCHANGED created, GoodTables(topics'), GoodFiles(disk'), GoodThreads(thread'),
         GoodQueues(inbox'), GoodCache(prod')
  PROVE  Quiet
<1>1. Shaped'
  BY Zenon DEF Shaped, GoodTables, GoodFiles, GoodThreads, GoodQueues, GoodQueue
<1>2. ASSUME NEW t \in Topics, NEW d, Says(t, d)' PROVE Says(t, d)
  <2>1. CASE \E b \in Brokers : TableSays(topics'[b], t, d)
    BY Zenon, <2>1 DEF GoodTables, KnownTable
  <2>2. CASE \E b \in Brokers : disk'[b] # Torn /\ TableSays(disk'[b], t, d)
    BY Zenon, <2>2 DEF GoodFiles, KnownTable
  <2>3. CASE \E b \in Brokers, w \in Threads : ThreadSays(thread'[b][w], t, d)
    BY Zenon, <2>3 DEF GoodThreads, KnownThread
  <2>4. CASE \E b \in Brokers, w \in Workers : QueueSays(inbox'[b][w], t, d)
    BY Zenon, <2>4 DEF GoodQueues, GoodQueue, KnownRequest, QueueSays
  <2>5. CASE CacheSays(prod', t, d)
    BY Zenon, <2>5 DEF GoodCache
  <2> QED
    BY Zenon, <1>2, <2>1, <2>2, <2>3, <2>4, <2>5 DEF Says
<1> QED
  BY Zenon, <1>1, <1>2 DEF Quiet

\* One thread moves on.
LEMMA ThreadMoves ==
  ASSUME Shaped, NEW b \in Brokers, NEW w \in Threads, NEW next, ThreadShape(b, next),
         KnownThread(next), thread' = [thread EXCEPT ![b][w] = next]
  PROVE  GoodThreads(thread')
<1>1. GoodThreads(thread)
  BY Zenon, GoodNow
<1>2. DOMAIN thread' = Brokers /\ \A c \in Brokers : DOMAIN thread'[c] = Threads
  BY Zenon, <1>1 DEF GoodThreads
<1>3. \A c \in Brokers, v \in Threads : thread'[c][v] = IF c = b /\ v = w THEN next ELSE thread[c][v]
  BY Zenon, <1>1 DEF GoodThreads
<1> QED
  BY <1>1, <1>2, <1>3 DEF GoodThreads

\* A thread that goes on with what it has, or with less.
GoesOn(b, th, next) ==
  /\ DOMAIN next = ThreadFields
  /\ next.pc = "create" => b = ControllerId \/ next.job.pushed
  /\ next.pc \in {"resolve", "again"} => next.job.kind = "produce"
  /\ next.pc = "remove" => next.topic = ""
  /\ next.job = th.job \/ (RequestShape(next.job) /\ KnownRequest(next.job))
  /\ next.topic = "" \/ (next.topic = th.topic /\ next.desc = th.desc)
  /\ next.list = <<>> \/ next.list = th.list

\* It knows no more than it did.
LEMMA Carries ==
  ASSUME Shaped, NEW b \in Brokers, NEW w \in Threads, NEW next, GoesOn(b, thread[b][w], next)
  PROVE  ThreadShape(b, next) /\ KnownThread(next)
<1>1. ThreadShape(b, thread[b][w]) /\ KnownThread(thread[b][w])
  BY Zenon, GoodNow DEF GoodThreads
<1>2. RequestShape(next.job) /\ KnownRequest(next.job)
  BY Zenon, <1>1 DEF GoesOn, ThreadShape, KnownThread, KnownRequest, ThreadSays
<1>3. ASSUME NEW t \in Topics, NEW d PROVE ~TableSays(<<>>, t, d)
  <2>1. DOMAIN <<>> = 1..0 /\ 1..0 = {}
    OBVIOUS
  <2> QED
    BY Zenon, <2>1 DEF TableSays
<1>4. ASSUME NEW t \in Topics, NEW d, ThreadSays(next, t, d) PROVE Says(t, d)
  <2>1. CASE next.topic = t /\ d = next.desc
    <3>1. next.topic # ""
      BY Zenon, <2>1, ClusterAssumption
    <3> QED
      BY Zenon, <1>1, <2>1, <3>1 DEF GoesOn, KnownThread, ThreadSays
  <2>2. CASE TableSays(next.list, t, d)
    BY Zenon, <1>1, <1>3, <2>2 DEF GoesOn, KnownThread, ThreadSays
  <2>3. CASE RequestSays(next.job, t, d)
    BY Zenon, <1>2, <2>3 DEF KnownRequest
  <2> QED
    BY Zenon, <1>4, <2>1, <2>2, <2>3 DEF ThreadSays
<1> QED
  BY Zenon, <1>2, <1>4 DEF GoesOn, ThreadShape, KnownThread

\* An idle thread has nothing,
LEMMA IdleGoesOn ==
  ASSUME NEW b, NEW th
  PROVE  GoesOn(b, th, IdleThread)
<1>1. /\ DOMAIN IdleThread = ThreadFields /\ IdleThread.pc = "idle" /\ IdleThread.topic = ""
      /\ IdleThread.list = <<>> /\ IdleThread.job = NoRequest
  BY Zenon DEF IdleThread, ThreadFields
<1>2. /\ DOMAIN NoRequest = RequestFields /\ NoRequest.count = 0 /\ NoRequest.rf = 0
      /\ NoRequest.part = 0 /\ NoRequest.pushed = FALSE /\ NoRequest.kind = "none"
  BY Zenon DEF NoRequest, RequestFields
<1>3. RequestShape(NoRequest) /\ KnownRequest(NoRequest)
  BY <1>2 DEF RequestShape, KnownRequest, RequestSays
<1> QED
  BY Zenon, <1>1, <1>3 DEF GoesOn

\* and OpenPartitionsForTopic changes only how far it is.
Moved(th, next) ==
  /\ DOMAIN next = ThreadFields /\ next.pc \notin {"create", "resolve", "again", "remove"}
  /\ next.job = th.job
  /\ next.topic = "" \/ (next.topic = th.topic /\ next.desc = th.desc)
  /\ next.list = th.list

\* Opening is such a move.
LEMMA OpeningMoves ==
  ASSUME NEW b, NEW th, DOMAIN th = ThreadFields, NEW opened
  PROVE  Moved(th, Opening(b, th, opened))
<1>0. PICK next : next = Opening(b, th, opened)
  BY Zenon
<1>1. ASSUME next = [th EXCEPT !.pc = "open"] PROVE Moved(th, next)
  BY Zenon, <1>1 DEF ThreadFields, Moved
<1>2. ASSUME next = [th EXCEPT !.pc = "adopt", !.topic = "", !.desc = <<>>, !.part = -1]
      PROVE  Moved(th, next)
  BY Zenon, <1>2 DEF ThreadFields, Moved
<1>3. ASSUME next = [th EXCEPT !.pc = "save", !.part = -1] PROVE Moved(th, next)
  BY Zenon, <1>3 DEF ThreadFields, Moved
<1>4. ASSUME next = [th EXCEPT !.pc = "done"] PROVE Moved(th, next)
  BY Zenon, <1>4 DEF ThreadFields, Moved
<1>5. \/ next = [th EXCEPT !.pc = "open"]
      \/ next = [th EXCEPT !.pc = "adopt", !.topic = "", !.desc = <<>>, !.part = -1]
      \/ next = [th EXCEPT !.pc = "save", !.part = -1]
      \/ next = [th EXCEPT !.pc = "done"]
  BY <1>0, Zenon DEF Opening
<1>6. Moved(th, next)
  BY Zenon, <1>1, <1>2, <1>3, <1>4, <1>5
<1> QED
  BY <1>0, <1>6, Zenon

\* A step that moves a thread and leaves tables, files, queues and caches alone.
LEMMA MoveIsQuiet ==
  ASSUME Shaped, NEW b \in Brokers, NEW w \in Threads, NEW next, GoesOn(b, thread[b][w], next),
         thread' = [thread EXCEPT ![b][w] = next],
         UNCHANGED <<topics, disk, inbox, created, prod>>
  PROVE  Quiet
<1>1. ThreadShape(b, next) /\ KnownThread(next)
  BY Zenon, Carries
<1>2. GoodThreads(thread')
  BY Zenon, <1>1, ThreadMoves
<1>3. /\ GoodTables(topics') /\ GoodFiles(disk') /\ GoodQueues(inbox') /\ GoodCache(prod')
  BY Zenon, GoodNow
<1> QED
  BY Zenon, <1>2, <1>3, GoodQuiet

\* A request is answered, or the thread goes on with it.
LEMMA EnsuredIsQuiet ==
  ASSUME Shaped, NEW b \in Brokers, NEW w \in Threads, UNCHANGED <<topics, disk, inbox, created, prod>>,
         NEW code, Respond(b, w, code) \/ Ensured(b, w)
  PROVE  Quiet
<1>1. CASE thread' = [thread EXCEPT ![b][w] = IdleThread]
  <2>1. GoesOn(b, thread[b][w], IdleThread)
    BY Zenon, IdleGoesOn
  <2> QED
    BY Zenon, <1>1, <2>1, MoveIsQuiet
<1>2. CASE /\ thread' = [thread EXCEPT ![b][w] = [IdleThread EXCEPT !.pc = "again", !.job = thread[b][w].job]]
           /\ thread[b][w].job.kind = "produce"
  <2>1. PICK next : next = [IdleThread EXCEPT !.pc = "again", !.job = thread[b][w].job]
    BY Zenon
  <2>2. /\ DOMAIN next = ThreadFields /\ next.pc = "again" /\ next.topic = ""
        /\ next.list = <<>> /\ next.job = thread[b][w].job
    BY Zenon, <2>1 DEF IdleThread, ThreadFields
  <2>3. GoesOn(b, thread[b][w], next)
    BY Zenon, <1>2, <2>2 DEF GoesOn
  <2> QED
    BY Zenon, <1>2, <2>1, <2>3, MoveIsQuiet
<1> QED
  BY <1>1, <1>2, Zenon DEF Respond, Ensured, Goto

\* The threads are records.
LEMMA ThreadRecord ==
  ASSUME Shaped, NEW b \in Brokers, NEW w \in Threads
  PROVE  DOMAIN thread[b][w] = ThreadFields /\ ThreadShape(b, thread[b][w])
BY Zenon DEF Shaped, ThreadShape

\* The end of a request.
LEMMA EndsAreQuiet ==
  ASSUME Shaped, NEW b \in Brokers, NEW w \in Threads, UNCHANGED prod,
         Done(b, w) \/ GetTopic(b, w) \/ Deleted(b, w)
  PROVE  Quiet
<1>1. UNCHANGED <<topics, disk, inbox, created, prod>>
  BY Zenon DEF Done, GetTopic, Deleted, disks, history
<1>2. PICK code : Respond(b, w, code) \/ Ensured(b, w)
  BY Zenon DEF Done, GetTopic, Deleted
<1> QED
  BY Zenon, <1>1, <1>2, EnsuredIsQuiet

\* Opening a partition.
LEMMA OpeningIsQuiet ==
  ASSUME Shaped, NEW b \in Brokers, NEW w \in Threads, UNCHANGED prod,
         OpenLog(b, w) \/ Emplace(b, w)
  PROVE  Quiet
<1>0. DOMAIN thread[b][w] = ThreadFields
  BY Zenon, ThreadRecord
<1>1. UNCHANGED <<topics, disk, inbox, created, prod>>
  BY Zenon DEF OpenLog, Emplace, disks, calls, history
<1>2. ASSUME NEW p, NEW fresh, NEW next,
             next = [thread[b][w] EXCEPT !.pc = "emplace", !.part = p, !.fresh = fresh]
      PROVE  GoesOn(b, thread[b][w], next)
  <2>1. /\ DOMAIN next = ThreadFields /\ next.pc = "emplace" /\ next.job = thread[b][w].job
        /\ next.list = thread[b][w].list /\ next.topic = thread[b][w].topic
        /\ next.desc = thread[b][w].desc
    BY Zenon, <1>0, <1>2 DEF ThreadFields
  <2> QED
    BY Zenon, <2>1 DEF GoesOn
<1>3. ASSUME NEW opened, NEW next, next = Opening(b, thread[b][w], opened)
      PROVE  GoesOn(b, thread[b][w], next)
  <2>1. Moved(thread[b][w], Opening(b, thread[b][w], opened))
    BY <1>0, OpeningMoves, Zenon
  <2>2. Moved(thread[b][w], next)
    BY <1>3, <2>1, Zenon
  <2> QED
    BY Zenon, <2>2 DEF GoesOn, Moved
<1>4. ASSUME NEW opened, NEW next,
             next = Opening(b, [thread[b][w] EXCEPT !.fresh = FALSE], opened)
      PROVE  GoesOn(b, thread[b][w], next)
  <2>1. PICK th : th = [thread[b][w] EXCEPT !.fresh = FALSE]
    BY Zenon
  <2>2. /\ DOMAIN th = ThreadFields /\ th.job = thread[b][w].job /\ th.list = thread[b][w].list
        /\ th.topic = thread[b][w].topic /\ th.desc = thread[b][w].desc
    BY Zenon, <1>0, <2>1 DEF ThreadFields
  <2>3. Moved(th, Opening(b, th, opened))
    BY <2>2, OpeningMoves, Zenon
  <2>4. Moved(th, next)
    BY <1>4, <2>1, <2>3, Zenon
  <2> QED
    BY Zenon, <2>2, <2>4 DEF GoesOn, Moved
<1>5. PICK next : GoesOn(b, thread[b][w], next) /\ thread' = [thread EXCEPT ![b][w] = next]
  BY <1>2, <1>3, <1>4, Zenon DEF OpenLog, Emplace, Goto
<1> QED
  BY Zenon, <1>1, <1>5, MoveIsQuiet

\* SaveTo writes the table it finds.
LEMMA SavingIsQuiet ==
  ASSUME Shaped, NEW b \in Brokers, NEW w \in Threads, UNCHANGED prod,
         SaveOpen(b, w) \/ SaveWrite(b, w)
  PROVE  Quiet
<1>0. DOMAIN thread[b][w] = ThreadFields
  BY Zenon, ThreadRecord
<1>1. UNCHANGED <<topics, inbox, created, prod>>
  BY Zenon DEF SaveOpen, SaveWrite, calls, history
<1>2. ASSUME NEW next, \/ next = [thread[b][w] EXCEPT !.pc = "write", !.at = "temp"]
                       \/ next = [thread[b][w] EXCEPT !.pc = "rename"]
      PROVE  GoesOn(b, thread[b][w], next)
  <2>1. /\ DOMAIN next = ThreadFields /\ next.pc \notin {"create", "resolve", "again", "remove"}
        /\ next.job = thread[b][w].job
        /\ next.list = thread[b][w].list /\ next.topic = thread[b][w].topic
        /\ next.desc = thread[b][w].desc
    BY ZenonT(30), <1>0, <1>2 DEF ThreadFields
  <2> QED
    BY Zenon, <2>1 DEF GoesOn
<1>3. PICK next : GoesOn(b, thread[b][w], next) /\ thread' = [thread EXCEPT ![b][w] = next]
  BY <1>2, Zenon DEF SaveOpen, SaveWrite, Goto
<1>4. GoodThreads(thread')
  <2>1. ThreadShape(b, next) /\ KnownThread(next)
    BY Zenon, <1>3, Carries
  <2> QED
    BY Zenon, <1>3, <2>1, ThreadMoves
<1>5. GoodTables(topics) /\ GoodFiles(disk) /\ GoodQueues(inbox) /\ GoodCache(prod)
  BY Zenon, GoodNow
<1>6. disk' = disk \/ disk' = [disk EXCEPT ![b] = topics[b]]
  BY Zenon DEF SaveOpen, SaveWrite
<1>7. GoodFiles(disk')
  BY Zenon, <1>5, <1>6 DEF GoodFiles, GoodTables
<1>8. GoodTables(topics') /\ GoodQueues(inbox') /\ GoodCache(prod')
  BY Zenon, <1>1, <1>5
<1> QED
  BY ZenonT(30), <1>1, <1>4, <1>7, <1>8, GoodQuiet

\* The temporary file is there or not.
TempShaped == temp \in [Brokers -> {"none", "empty", "full"}]

\* The file that is renamed is whole or torn.
LEMMA SaveRenameIsQuiet ==
  ASSUME Shaped, TempShaped, NEW b \in Brokers, NEW w \in Threads, UNCHANGED prod, SaveRename(b, w)
  PROVE  Quiet
<1>0. \A v \in Threads : DOMAIN thread[b][v] = ThreadFields
  BY Zenon, ThreadRecord
<1>1. UNCHANGED <<topics, inbox, created, prod>>
  BY Zenon DEF SaveRename, calls, history
<1>2. PICK th : th = [thread[b][w] EXCEPT !.at = "none"]
  BY Zenon
<1>3. PICK me : me = AfterSave(b, w, th)
  BY Zenon
<1>4. thread' = [thread EXCEPT ![b] =
        [v \in Threads |-> IF v = w THEN me
                           ELSE IF @[v].at = "temp" THEN [@[v] EXCEPT !.at = "disk"] ELSE @[v]]]
  BY <1>2, <1>3, Zenon DEF SaveRename
<1>5. GoesOn(b, thread[b][w], me)
  <2>1. /\ DOMAIN th = ThreadFields /\ th.job = thread[b][w].job /\ th.list = thread[b][w].list
        /\ th.topic = thread[b][w].topic /\ th.desc = thread[b][w].desc
    BY Zenon, <1>0, <1>2 DEF ThreadFields
  <2>2. CASE me = IdleThread
    BY Zenon, <2>2, IdleGoesOn
  <2>3. ASSUME \/ me = [th EXCEPT !.pc = "get"] \/ me = [th EXCEPT !.pc = "deleted"]
               \/ me = [th EXCEPT !.pc = "done"]
               \/ me = [th EXCEPT !.pc = "push", !.peers = Brokers \ {b}]
        PROVE  GoesOn(b, thread[b][w], me)
    <3>1. /\ DOMAIN me = ThreadFields /\ me.pc \notin {"create", "resolve", "again", "remove"}
          /\ me.job = th.job
          /\ me.list = th.list /\ me.topic = th.topic /\ me.desc = th.desc
      BY ZenonT(30), <2>1, <2>3 DEF ThreadFields
    <3> QED
      BY Zenon, <2>1, <3>1 DEF GoesOn
  <2> QED
    BY <1>3, <2>2, <2>3, Zenon DEF AfterSave
<1>6. GoodThreads(thread')
  <2>1. ThreadShape(b, me) /\ KnownThread(me)
    BY Zenon, <1>5, Carries
  <2>2. GoodThreads(thread)
    BY Zenon, GoodNow
  <2>3. DOMAIN thread' = Brokers /\ \A c \in Brokers : DOMAIN thread'[c] = Threads
    BY Zenon, <1>4, <2>2 DEF GoodThreads
  <2>4. \A c \in Brokers \ {b} : thread'[c] = thread[c]
    BY Zenon, <1>4, <2>2 DEF GoodThreads
  <2>5. thread'[b][w] = me
    BY Zenon, <1>4, <2>2 DEF GoodThreads
  <2>6. ASSUME NEW v \in Threads \ {w} PROVE ThreadShape(b, thread'[b][v]) /\ KnownThread(thread'[b][v])
    <3>1. thread'[b][v] = thread[b][v] \/ thread'[b][v] = [thread[b][v] EXCEPT !.at = "disk"]
      BY Zenon, <1>4, <2>2 DEF GoodThreads
    <3>2. /\ DOMAIN thread'[b][v] = ThreadFields /\ thread'[b][v].pc = thread[b][v].pc
          /\ thread'[b][v].job = thread[b][v].job /\ thread'[b][v].list = thread[b][v].list
          /\ thread'[b][v].topic = thread[b][v].topic /\ thread'[b][v].desc = thread[b][v].desc
      BY Zenon, <1>0, <3>1 DEF ThreadFields
    <3>3. ThreadShape(b, thread[b][v]) /\ KnownThread(thread[b][v])
      BY Zenon, <2>2 DEF GoodThreads
    <3> QED
      BY Zenon, <3>2, <3>3 DEF ThreadShape, KnownThread, ThreadSays
  <2> QED
    BY Zenon, <2>1, <2>2, <2>3, <2>4, <2>5, <2>6 DEF GoodThreads
<1>7. GoodTables(topics) /\ GoodFiles(disk) /\ GoodQueues(inbox) /\ GoodCache(prod)
  BY Zenon, GoodNow
<1>8. PICK file : disk' = [disk EXCEPT ![b] = file] /\ file \in {disk[b], Torn, topics[b]}
  <2>1. temp[b] = "none" \/ temp[b] = "empty" \/ temp[b] = "full"
    BY Zenon DEF TempShaped
  <2>2. disk' = [disk EXCEPT ![b] = CASE temp[b] = "none" -> disk[b]
                                      [] temp[b] = "empty" -> Torn
                                      [] temp[b] = "full" -> topics[b]]
    BY Zenon DEF SaveRename
  <2>3. CASE temp[b] = "none"
    BY Zenon, <2>2, <2>3
  <2>4. CASE temp[b] = "empty"
    BY Zenon, <2>2, <2>4
  <2>5. CASE temp[b] = "full"
    BY Zenon, <2>2, <2>5
  <2> QED
    BY Zenon, <2>1, <2>3, <2>4, <2>5
<1>9. GoodFiles(disk')
  BY Zenon, <1>7, <1>8 DEF GoodFiles, GoodTables
<1>10. GoodTables(topics') /\ GoodQueues(inbox') /\ GoodCache(prod')
  BY Zenon, <1>1, <1>7
<1> QED
  BY Zenon, <1>1, <1>6, <1>9, <1>10, GoodQuiet

\* A request with another sender says the same.
LEMMA SenderIsNoNews ==
  ASSUME NEW req, RequestShape(req), KnownRequest(req), NEW from, NEW sent,
         sent = [req EXCEPT !.from = from]
  PROVE  RequestShape(sent) /\ KnownRequest(sent)
<1>1. /\ DOMAIN sent = RequestFields /\ sent.kind = req.kind /\ sent.topic = req.topic
      /\ sent.count = req.count /\ sent.rf = req.rf /\ sent.pushed = req.pushed
      /\ sent.part = req.part
  BY Zenon DEF RequestShape, RequestFields
<1> QED
  BY Zenon, <1>1 DEF RequestShape, KnownRequest, RequestSays

\* What a queue with one request more holds.
LEMMA QueueGrows ==
  ASSUME NEW queue, GoodQueue(queue), NEW req, RequestShape(req), KnownRequest(req)
  PROVE  GoodQueue(Append(queue, req))
<1>1. PICK more : more = Append(queue, req)
  BY Zenon
<1>2. Len(queue) \in Nat /\ DOMAIN queue = 1..Len(queue)
  BY Zenon DEF GoodQueue, QueueShape
<1>3. /\ Len(more) \in Nat /\ DOMAIN more = 1..Len(more)
      /\ \A i \in DOMAIN more : (i \in DOMAIN queue /\ more[i] = queue[i]) \/ more[i] = req
  BY <1>1, <1>2
<1>4. GoodQueue(more)
  BY Zenon, <1>3 DEF GoodQueue, QueueShape
<1> QED
  BY Zenon, <1>1, <1>4

\* What a queue without its first request holds.
LEMMA QueueShrinks ==
  ASSUME NEW queue, GoodQueue(queue), queue # <<>>
  PROVE  GoodQueue(Tail(queue)) /\ RequestShape(Head(queue)) /\ KnownRequest(Head(queue))
<1>1. PICK rest : rest = Tail(queue)
  BY Zenon
<1>2. Len(queue) \in Nat /\ DOMAIN queue = 1..Len(queue)
  BY Zenon DEF GoodQueue, QueueShape
<1>3. /\ Len(rest) \in Nat /\ DOMAIN rest = 1..Len(rest)
      /\ \A i \in DOMAIN rest : i + 1 \in DOMAIN queue /\ rest[i] = queue[i + 1]
      /\ 1 \in DOMAIN queue /\ Head(queue) = queue[1]
  BY <1>1, <1>2
<1>4. GoodQueue(rest)
  BY Zenon, <1>3 DEF GoodQueue, QueueShape
<1>5. RequestShape(Head(queue)) /\ KnownRequest(Head(queue))
  BY Zenon, <1>3 DEF GoodQueue, QueueShape
<1> QED
  BY Zenon, <1>1, <1>4, <1>5

\* One queue changes.
LEMMA QueueMoves ==
  ASSUME Shaped, NEW b \in Brokers, NEW w, NEW queue, w \in Workers => GoodQueue(queue),
         inbox' = [inbox EXCEPT ![b][w] = queue]
  PROVE  GoodQueues(inbox')
<1>1. GoodQueues(inbox)
  BY Zenon, GoodNow
<1>2. DOMAIN inbox' = Brokers /\ \A c \in Brokers : DOMAIN inbox'[c] = Workers
  BY Zenon, <1>1 DEF GoodQueues
<1>3. \A c \in Brokers, v \in Workers : inbox'[c][v] = IF c = b /\ v = w THEN queue ELSE inbox[c][v]
  BY Zenon, <1>1 DEF GoodQueues
<1> QED
  BY <1>1, <1>2, <1>3 DEF GoodQueues

\* A call hands on what the request says.
LEMMA CallQueues ==
  ASSUME Shaped, NEW b \in Brokers, NEW caller, NEW req, RequestShape(req), KnownRequest(req),
         Call(caller, b, req)
  PROVE  GoodQueues(inbox')
<1>1. PICK sent : sent = [req EXCEPT !.from = caller]
  BY Zenon
<1>2. RequestShape(sent) /\ KnownRequest(sent)
  BY Zenon, <1>1, SenderIsNoNews
<1>3. PICK w : w = WorkerForRequest(req)
  BY Zenon
<1>4. inbox' = [inbox EXCEPT ![b][w] = Append(inbox[b][w], sent)]
  BY <1>1, <1>3, Zenon DEF Call
<1>5. PICK queue : queue = Append(inbox[b][w], sent)
  BY Zenon
<1>6. w \in Workers => GoodQueue(queue)
  <2>1. SUFFICES ASSUME w \in Workers PROVE GoodQueue(queue)
    BY Zenon
  <2>2. GoodQueue(inbox[b][w])
    BY Zenon, <2>1, GoodNow DEF GoodQueues
  <2> QED
    BY Zenon, <1>2, <1>5, <2>2, QueueGrows
<1>7. inbox' = [inbox EXCEPT ![b][w] = queue]
  BY Zenon, <1>4, <1>5
<1> QED
  BY Zenon, <1>6, <1>7, QueueMoves

\* A request that is not pushed says nothing.
LEMMA AskingSaysNothing ==
  ASSUME NEW req, req.pushed = FALSE
  PROVE  KnownRequest(req)
BY Zenon DEF KnownRequest, RequestSays

\* BroadcastTopic pushes the descriptor it has: the peer computes the same one.
LEMMA PushSaysTheSame ==
  ASSUME Shaped, Agreed, NEW b \in Brokers, NEW w \in Threads, NEW req,
         req = CreateRequest(thread[b][w].topic, PartitionCount(thread[b][w].desc),
                             ReplicationFactor(thread[b][w].desc), TRUE)
  PROVE  RequestShape(req) /\ KnownRequest(req)
<1> DEFINE th == thread[b][w]
<1>1. PICK count : count = PartitionCount(th.desc)
  BY Zenon
<1>2. PICK rf : rf = ReplicationFactor(th.desc)
  BY Zenon
<1>3. PICK topic : topic = th.topic
  BY Zenon
<1>5. req = CreateRequest(topic, count, rf, TRUE)
  BY Zenon, <1>1, <1>2, <1>3
<1>6. /\ DOMAIN req = RequestFields /\ req.kind = "create" /\ req.topic = topic
      /\ req.count = count /\ req.rf = rf /\ req.part = 0
  <2> HIDE DEF th
  <2> QED
    BY ZenonT(30), <1>5 DEF CreateRequest, NoRequest, RequestFields
<1>7. ASSUME topic \in Topics
      PROVE  /\ Says(topic, th.desc) /\ count \in Int /\ rf \in Int
             /\ th.desc = ComputeAssignments(topic, count, rf)
  <2>1. KnownThread(th)
    BY Zenon, GoodNow DEF GoodThreads
  <2>2. Says(topic, th.desc)
    BY Zenon, <1>3, <1>7, <2>1 DEF KnownThread, ThreadSays
  <2>3. Placed(topic, th.desc)
    BY Zenon, <1>7, <2>2 DEF Agreed
  <2>4. PICK d : d = th.desc
    BY Zenon
  <2>5. Placed(topic, d)
    BY Zenon, <2>3, <2>4
  <2>6. /\ Len(d) \in Nat /\ Len(d[1]) \in Nat
        /\ d = ComputeAssignments(topic, PartitionCount(d), ReplicationFactor(d))
    BY Zenon, <2>5, PlacedTells
  <2>7. count = Len(d) /\ rf = Len(d[1])
    BY Zenon, <1>1, <1>2, <2>4 DEF PartitionCount, ReplicationFactor
  <2>8. th.desc = ComputeAssignments(topic, count, rf)
    BY Zenon, <1>1, <1>2, <2>4, <2>6
  <2> QED
    BY <2>2, <2>6, <2>7, <2>8
<1>8. RequestShape(req)
  <2>1. ASSUME topic \in Topics PROVE count \in Int /\ rf \in Int
    BY Zenon, <1>7, <2>1
  <2>2. topic \in Topics => count \in Int /\ rf \in Int /\ 0 \in Int
    BY <2>1
  <2>3. req.topic \in Topics => req.count \in Int /\ req.rf \in Int /\ req.part \in Int
    BY <1>6, <2>2, Zenon
  <2>4. DOMAIN req = RequestFields /\ req.kind = "create"
    BY Zenon, <1>6
  <2> HIDE DEF th
  <2> QED
    BY <2>3, <2>4, Zenon DEF RequestShape
<1>9. ASSUME NEW t \in Topics, NEW d, RequestSays(req, t, d) PROVE Says(t, d)
  <2>1. topic = t /\ d = ComputeAssignments(t, count, rf)
    BY Zenon, <1>6, <1>9 DEF RequestSays
  <2> QED
    BY Zenon, <1>7, <2>1
<1> QED
  BY Zenon, <1>8, <1>9 DEF KnownRequest

\* A push, and its end, makes no descriptor.
LEMMA PushIsQuiet ==
  ASSUME Shaped, Agreed, NEW b \in Brokers, NEW w \in Threads, UNCHANGED prod,
         up \subseteq Brokers, Push(b, w) \/ Pushed(b, w)
  PROVE  Quiet
<1>0. DOMAIN thread[b][w] = ThreadFields
  BY Zenon, ThreadRecord
<1>1. UNCHANGED <<topics, disk, created, prod>>
  BY Zenon DEF Push, Pushed, disks, history
<1>2. ASSUME NEW next, NEW peers, \/ next = [thread[b][w] EXCEPT !.pc = "pushed", !.peers = peers]
                       \/ next = [thread[b][w] EXCEPT !.peers = peers]
                       \/ next = [thread[b][w] EXCEPT !.pc = "done"]
                       \/ next = [thread[b][w] EXCEPT !.pc = "push"],
             thread[b][w].pc \in {"push", "pushed"}
      PROVE  GoesOn(b, thread[b][w], next)
  <2>1. /\ DOMAIN next = ThreadFields /\ next.pc \notin {"create", "resolve", "again", "remove"}
        /\ next.job = thread[b][w].job
        /\ next.list = thread[b][w].list /\ next.topic = thread[b][w].topic
        /\ next.desc = thread[b][w].desc
    BY ZenonT(30), <1>0, <1>2 DEF ThreadFields
  <2> QED
    BY Zenon, <2>1 DEF GoesOn
<1>3. thread[b][w].pc \in {"push", "pushed"}
  BY Zenon DEF Push, Pushed
<1>4. PICK next : GoesOn(b, thread[b][w], next) /\ thread' = [thread EXCEPT ![b][w] = next]
  BY <1>2, <1>3, Zenon DEF Push, Pushed, Goto
<1>5. GoodThreads(thread')
  <2>1. ThreadShape(b, next) /\ KnownThread(next)
    BY Zenon, <1>4, Carries
  <2> QED
    BY Zenon, <1>4, <2>1, ThreadMoves
<1>6. GoodTables(topics) /\ GoodFiles(disk) /\ GoodQueues(inbox) /\ GoodCache(prod)
  BY Zenon, GoodNow
<1>7. GoodQueues(inbox')
  <2>1. CASE inbox' = inbox
    BY Zenon, <1>6, <2>1
  <2>2. ASSUME NEW peer \in up,
               Call(<<b, w>>, peer, CreateRequest(thread[b][w].topic,
                      PartitionCount(thread[b][w].desc), ReplicationFactor(thread[b][w].desc), TRUE))
        PROVE  GoodQueues(inbox')
    <3>1. PICK req : req = CreateRequest(thread[b][w].topic, PartitionCount(thread[b][w].desc),
                                         ReplicationFactor(thread[b][w].desc), TRUE)
      BY Zenon
    <3>2. RequestShape(req) /\ KnownRequest(req)
      BY Zenon, <3>1, PushSaysTheSame
    <3>3. PICK caller : caller = <<b, w>>
      BY Zenon
    <3>4. Call(caller, peer, req) /\ peer \in Brokers
      BY Zenon, <2>2, <3>1, <3>3
    <3> QED
      BY Zenon, <3>2, <3>4, CallQueues
  <2> QED
    BY <2>1, <2>2, Zenon DEF Push, Pushed, calls
<1>8. GoodTables(topics') /\ GoodFiles(disk') /\ GoodCache(prod')
  BY Zenon, <1>1, <1>6
<1> QED
  BY ZenonT(30), <1>1, <1>5, <1>7, <1>8, GoodQuiet

\* The tables that the operations of ClusterMetadata make of a known one: UpsertTopic,
LEMMA UpsertKnown ==
  ASSUME NEW table, KnownTable(table), NEW topic, NEW desc, topic \in Topics => Says(topic, desc)
  PROVE  KnownTable(UpsertTopic(table, topic, desc))
BY Zenon DEF KnownTable, TableSays, UpsertTopic

\* DeleteTopic,
LEMMA DeleteKnown ==
  ASSUME NEW table, KnownTable(table), NEW topic
  PROVE  KnownTable(DeleteTopic(table, topic))
BY Zenon DEF KnownTable, TableSays, DeleteTopic

\* and BuildMetadataResponse.
LEMMA ResponseKnown ==
  ASSUME NEW table, KnownTable(table)
  PROVE  KnownTable(BuildMetadataResponse(table, Topics))
BY Zenon DEF KnownTable, TableSays, BuildMetadataResponse

\* What a thread may know: its topic, its list and its request.
LEMMA ThreadKnows ==
  ASSUME NEW th, KnownTable(th.list), KnownRequest(th.job),
         th.topic \in Topics => Says(th.topic, th.desc)
  PROVE  KnownThread(th)
BY Zenon DEF KnownThread, KnownTable, KnownRequest, ThreadSays

\* What a thread knows stands somewhere: with the thread itself.
LEMMA ThreadKnown ==
  ASSUME Shaped, NEW b \in Brokers, NEW w \in Threads
  PROVE  /\ KnownTable(thread[b][w].list) /\ KnownRequest(thread[b][w].job)
         /\ thread[b][w].topic \in Topics => Says(thread[b][w].topic, thread[b][w].desc)
         /\ RequestShape(thread[b][w].job)
<1>1. KnownThread(thread[b][w]) /\ ThreadShape(b, thread[b][w])
  BY Zenon, GoodNow DEF GoodThreads
<1> QED
  BY Zenon, <1>1 DEF ThreadShape, KnownThread, KnownTable, KnownRequest, ThreadSays

\* The controller is asked for the topic of the request.
LEMMA ForwardIsQuiet ==
  ASSUME Shaped, NEW b \in Brokers, NEW w \in Threads, UNCHANGED prod, up \subseteq Brokers,
         Forward(b, w) \/ Forwarded(b, w)
  PROVE  Quiet
<1>0. DOMAIN thread[b][w] = ThreadFields
  BY Zenon, ThreadRecord
<1>1. UNCHANGED <<topics, disk, created, prod>>
  BY Zenon DEF Forward, Forwarded, disks, history
<1>2. ASSUME NEW next, \/ next = [thread[b][w] EXCEPT !.pc = "forwarded"]
                       \/ next = [thread[b][w] EXCEPT !.pc = "reconcile"]
                       \/ next = IdleThread
      PROVE  GoesOn(b, thread[b][w], next)
  <2>1. CASE next # IdleThread
    <3>1. /\ DOMAIN next = ThreadFields /\ next.pc \notin {"create", "resolve", "again", "remove"}
          /\ next.job = thread[b][w].job
          /\ next.list = thread[b][w].list /\ next.topic = thread[b][w].topic
          /\ next.desc = thread[b][w].desc
      BY Zenon, <1>0, <1>2, <2>1 DEF ThreadFields
    <3> QED
      BY Zenon, <3>1 DEF GoesOn
  <2>2. CASE next = IdleThread
    BY Zenon, <2>2, IdleGoesOn
  <2> QED
    BY Zenon, <2>1, <2>2
<1>3. PICK next : GoesOn(b, thread[b][w], next) /\ thread' = [thread EXCEPT ![b][w] = next]
  BY <1>2, Zenon DEF Forward, Forwarded, Goto, Respond
<1>4. GoodThreads(thread')
  <2>1. ThreadShape(b, next) /\ KnownThread(next)
    BY Zenon, <1>3, Carries
  <2> QED
    BY Zenon, <1>3, <2>1, ThreadMoves
<1>5. GoodTables(topics) /\ GoodFiles(disk) /\ GoodQueues(inbox) /\ GoodCache(prod)
  BY Zenon, GoodNow
<1>6. GoodQueues(inbox')
  <2>1. CASE inbox' = inbox
    BY Zenon, <1>5, <2>1
  <2>2. CASE /\ ControllerId \in up
             /\ Call(<<b, w>>, ControllerId, CreateRequest(thread[b][w].job.topic,
                      thread[b][w].job.count, thread[b][w].job.rf, FALSE))
    <3>0. PICK job : job = thread[b][w].job
      BY Zenon
    <3>1. PICK req : req = CreateRequest(job.topic, job.count, job.rf, FALSE)
      BY Zenon
    <3>2. /\ DOMAIN req = RequestFields /\ req.kind = "create" /\ req.topic = job.topic
          /\ req.count = job.count /\ req.rf = job.rf /\ req.part = 0 /\ req.pushed = FALSE
      BY Zenon, <3>1 DEF CreateRequest, NoRequest, RequestFields
    <3>3. RequestShape(job)
      BY Zenon, <3>0, ThreadKnown
    <3>4. RequestShape(req)
      BY <3>2, <3>3 DEF RequestShape
    <3>5. KnownRequest(req)
      BY Zenon, <3>2, AskingSaysNothing
    <3>6. PICK caller : caller = <<b, w>>
      BY Zenon
    <3>7. PICK c : c = ControllerId
      BY Zenon
    <3>8. Call(caller, c, req) /\ c \in Brokers
      BY Zenon, <2>2, <3>0, <3>1, <3>6, <3>7
    <3> QED
      BY Zenon, <3>4, <3>5, <3>8, CallQueues
  <2> QED
    BY <2>1, <2>2, Zenon DEF Forward, Forwarded
<1>7. GoodTables(topics') /\ GoodFiles(disk') /\ GoodCache(prod')
  BY Zenon, <1>1, <1>5
<1> QED
  BY Zenon, <1>1, <1>4, <1>6, <1>7, GoodQuiet

\* A step that moves a thread and leaves the files and the cache alone.
LEMMA StepIsQuiet ==
  ASSUME Shaped, NEW b \in Brokers, NEW w \in Threads, NEW next, ThreadShape(b, next),
         KnownThread(next), thread' = [thread EXCEPT ![b][w] = next],
         GoodTables(topics'), GoodQueues(inbox'), UNCHANGED <<disk, created, prod>>
  PROVE  Quiet
<1>1. GoodThreads(thread')
  BY Zenon, ThreadMoves
<1>2. GoodFiles(disk') /\ GoodCache(prod')
  BY Zenon, GoodNow
<1> QED
  BY Zenon, <1>1, <1>2, GoodQuiet

\* The controller's answer is its table.
LEMMA ReconcileIsQuiet ==
  ASSUME Shaped, NEW b \in Brokers, NEW w \in Threads, UNCHANGED prod, up \subseteq Brokers,
         Reconcile(b, w)
  PROVE  Quiet
<1>0. DOMAIN thread[b][w] = ThreadFields
  BY Zenon, ThreadRecord
<1>1. UNCHANGED <<topics, disk, inbox, created, prod>>
  BY Zenon DEF Reconcile, disks, history
<1>2. CASE ControllerId \notin up
  <2>1. Respond(b, w, "unavailable")
    BY <1>2, Zenon DEF Reconcile
  <2>2. PICK code : Respond(b, w, code)
    BY ZenonT(30), <2>1
  <2> QED
    BY Zenon, <1>1, <2>2, EnsuredIsQuiet
<1>3. CASE ControllerId \in up
  <2>1. PICK list : list = BuildMetadataResponse(topics[ControllerId], Topics)
    BY Zenon
  <2>2. PICK next : next = [thread[b][w] EXCEPT !.pc = "adopt", !.list = list]
    BY Zenon
  <2>3. thread' = [thread EXCEPT ![b][w] = next]
    BY <1>3, <2>1, <2>2, Zenon DEF Reconcile, Goto
  <2>4. /\ DOMAIN next = ThreadFields /\ next.pc = "adopt" /\ next.job = thread[b][w].job
        /\ next.topic = thread[b][w].topic /\ next.desc = thread[b][w].desc /\ next.list = list
    BY Zenon, <1>0, <2>2 DEF ThreadFields
  <2>5. KnownTable(list)
    <3>1. KnownTable(topics[ControllerId])
      BY Zenon, <1>3, GoodNow DEF GoodTables
    <3> QED
      BY Zenon, <2>1, <3>1, ResponseKnown
  <2>6. KnownThread(next)
    <3>1. /\ KnownTable(next.list) /\ KnownRequest(next.job)
          /\ next.topic \in Topics => Says(next.topic, next.desc)
      BY Zenon, <2>4, <2>5, ThreadKnown
    <3> QED
      BY Zenon, <3>1, ThreadKnows
  <2>7. ThreadShape(b, next)
    BY Zenon, <2>4, ThreadKnown DEF ThreadShape
  <2>8. GoodTables(topics') /\ GoodQueues(inbox')
    BY Zenon, <1>1, GoodNow
  <2> QED
    BY Zenon, <1>1, <2>3, <2>6, <2>7, <2>8, StepIsQuiet
<1> QED
  BY Zenon, <1>2, <1>3

\* A topic of the controller's answer is taken as it stands there,
LEMMA AdoptIsQuiet ==
  ASSUME Shaped, NEW b \in Brokers, NEW w \in Threads, UNCHANGED prod, Adopt(b, w)
  PROVE  Quiet
<1> DEFINE th == thread[b][w]
<1>0. DOMAIN th = ThreadFields
  BY Zenon, ThreadRecord
<1>1. UNCHANGED <<topics, disk, inbox, created, prod>>
  BY Zenon DEF Adopt, disks, calls, history
<1>2. ASSUME NEW next, \/ next = [th EXCEPT !.pc = "save", !.list = <<>>] \/ next = IdleThread
                       \/ next = [th EXCEPT !.pc = "get", !.list = <<>>],
             thread' = [thread EXCEPT ![b][w] = next]
      PROVE  Quiet
  <2>1. GoesOn(b, th, next)
    <3>1. CASE next # IdleThread
      <4>1. /\ DOMAIN next = ThreadFields /\ next.pc \notin {"create", "resolve", "again", "remove"}
            /\ next.job = th.job
            /\ next.list = <<>> /\ next.topic = th.topic /\ next.desc = th.desc
        BY Zenon, <1>0, <1>2, <3>1 DEF ThreadFields
      <4> QED
        BY Zenon, <4>1 DEF GoesOn
    <3>2. CASE next = IdleThread
      BY Zenon, <3>2, IdleGoesOn
    <3> QED
      BY Zenon, <3>1, <3>2
  <2> QED
    BY Zenon, <1>1, <1>2, <2>1, MoveIsQuiet
<1>3. ASSUME NEW t \in DOMAIN th.list, NEW next,
             next = [th EXCEPT !.pc = "upsert", !.topic = t, !.desc = th.list[t]],
             thread' = [thread EXCEPT ![b][w] = next]
      PROVE  Quiet
  <2>1. /\ DOMAIN next = ThreadFields /\ next.pc = "upsert" /\ next.job = th.job
        /\ next.list = th.list /\ next.topic = t /\ next.desc = th.list[t]
    BY Zenon, <1>0, <1>3 DEF ThreadFields
  <2>2. KnownTable(th.list) /\ KnownRequest(th.job) /\ RequestShape(th.job)
    BY Zenon, ThreadKnown
  <2>3. /\ KnownTable(next.list) /\ KnownRequest(next.job)
        /\ next.topic \in Topics => Says(next.topic, next.desc)
    BY Zenon, <1>3, <2>1, <2>2 DEF KnownTable, TableSays
  <2>4. KnownThread(next)
    BY Zenon, <2>3, ThreadKnows
  <2>5. ThreadShape(b, next)
    BY Zenon, <2>1, <2>2 DEF ThreadShape
  <2>6. GoodTables(topics') /\ GoodQueues(inbox')
    BY Zenon, <1>1, GoodNow
  <2> QED
    BY Zenon, <1>1, <1>3, <2>4, <2>5, <2>6, StepIsQuiet
<1> QED
  BY <1>2, <1>3, Zenon DEF Adopt, Goto

\* and entered in the table.
LEMMA UpsertIsQuiet ==
  ASSUME Shaped, NEW b \in Brokers, NEW w \in Threads, UNCHANGED prod, Upsert(b, w)
  PROVE  Quiet
<1> DEFINE th == thread[b][w]
<1>0. DOMAIN th = ThreadFields
  BY Zenon, ThreadRecord
<1>1. UNCHANGED <<disk, inbox, created, prod>>
  BY Zenon DEF Upsert, disks, calls, history
<1>2. PICK cut : cut = [th EXCEPT !.adopted = TRUE, !.list = DeleteTopic(th.list, th.topic)]
  BY Zenon
<1>3. /\ DOMAIN cut = ThreadFields /\ cut.job = th.job /\ cut.topic = th.topic
      /\ cut.desc = th.desc /\ cut.list = DeleteTopic(th.list, th.topic)
  <2>1. PICK list : list = DeleteTopic(th.list, th.topic)
    BY Zenon
  <2>2. cut = [th EXCEPT !.adopted = TRUE, !.list = list]
    BY Zenon, <1>2, <2>1
  <2> QED
    BY Zenon, <1>0, <2>1, <2>2 DEF ThreadFields
<1>4. PICK next : next = Opening(b, cut, open[b])
  BY Zenon
<1>5. /\ topics' = [topics EXCEPT ![b] = UpsertTopic(topics[b], th.topic, th.desc)]
      /\ thread' = [thread EXCEPT ![b][w] = next]
  BY <1>2, <1>4, Zenon DEF Upsert, Goto
<1>6. /\ KnownTable(th.list) /\ KnownRequest(th.job) /\ RequestShape(th.job)
      /\ th.topic \in Topics => Says(th.topic, th.desc)
  BY Zenon, ThreadKnown
<1>7. Moved(cut, next)
  BY <1>3, <1>4, OpeningMoves, Zenon
<1>8. KnownTable(next.list)
  <2>1. PICK list : list = th.list
    BY Zenon
  <2>2. PICK topic : topic = th.topic
    BY Zenon
  <2>3. KnownTable(DeleteTopic(list, topic))
    BY Zenon, <1>6, <2>1, DeleteKnown
  <2> QED
    BY Zenon, <1>3, <1>7, <2>1, <2>2, <2>3 DEF Moved
<1>9. KnownThread(next) /\ ThreadShape(b, next)
  <2>1. /\ KnownRequest(next.job) /\ RequestShape(next.job)
        /\ next.topic \in Topics => Says(next.topic, next.desc)
    <3>1. "" \notin Topics
      BY Zenon, ClusterAssumption
    <3> QED
      BY ZenonT(30), <1>3, <1>6, <1>7, <3>1 DEF Moved
  <2>2. KnownThread(next)
    BY Zenon, <1>8, <2>1, ThreadKnows
  <2> QED
    BY Zenon, <1>7, <2>1, <2>2 DEF Moved, ThreadShape
<1>10. GoodTables(topics')
  <2>1. GoodTables(topics)
    BY Zenon, GoodNow
  <2>2. PICK table : table = UpsertTopic(topics[b], th.topic, th.desc)
    BY Zenon
  <2>3. KnownTable(table)
    <3>1. PICK topic : topic = th.topic
      BY Zenon
    <3>2. PICK desc : desc = th.desc
      BY Zenon
    <3>3. PICK old : old = topics[b]
      BY Zenon
    <3>4. KnownTable(old) /\ (topic \in Topics => Says(topic, desc))
      BY Zenon, <1>6, <2>1, <3>1, <3>2, <3>3 DEF GoodTables
    <3>5. KnownTable(UpsertTopic(old, topic, desc))
      BY Zenon, <3>4, UpsertKnown
    <3> QED
      BY Zenon, <2>2, <3>1, <3>2, <3>3, <3>5
  <2>4. topics' = [topics EXCEPT ![b] = table]
    BY Zenon, <1>5, <2>2
  <2> QED
    BY Zenon, <2>1, <2>3, <2>4 DEF GoodTables
<1>11. GoodQueues(inbox')
  BY Zenon, <1>1, GoodNow
<1> QED
  BY Zenon, <1>1, <1>5, <1>9, <1>10, <1>11, StepIsQuiet

\* A deletion removes what a table says, and says nothing.
LEMMA ForgetIsQuiet ==
  ASSUME Shaped, NEW b \in Brokers, NEW w \in Threads, UNCHANGED prod,
         RemoveData(b, w) \/ Forget(b, w)
  PROVE  Quiet
<1> DEFINE th == thread[b][w]
<1>0. DOMAIN th = ThreadFields
  BY Zenon, ThreadRecord
<1>1. UNCHANGED <<disk, inbox, created, prod>>
  BY Zenon DEF RemoveData, Forget, disks, calls, history
<1>2. GoodTables(topics')
  <2>1. GoodTables(topics)
    BY Zenon, GoodNow
  <2>2. CASE topics' = topics
    BY Zenon, <2>1, <2>2
  <2>3. CASE topics' = [topics EXCEPT ![b] = DeleteTopic(topics[b], th.job.topic)]
    <3>1. PICK table : table = DeleteTopic(topics[b], th.job.topic)
      BY Zenon
    <3>2. KnownTable(table)
      <4>1. PICK topic : topic = th.job.topic
        BY Zenon
      <4>2. PICK old : old = topics[b]
        BY Zenon
      <4>3. KnownTable(old)
        BY Zenon, <2>1, <4>2 DEF GoodTables
      <4>4. KnownTable(DeleteTopic(old, topic))
        BY Zenon, <4>3, DeleteKnown
      <4> QED
        BY Zenon, <3>1, <4>1, <4>2, <4>4
    <3>3. topics' = [topics EXCEPT ![b] = table]
      BY Zenon, <2>3, <3>1
    <3> QED
      BY Zenon, <2>1, <3>2, <3>3 DEF GoodTables
  <2> QED
    BY <2>2, <2>3, Zenon DEF RemoveData, Forget
<1>4. PICK next : /\ thread' = [thread EXCEPT ![b][w] = next]
                  /\ \/ next = [th EXCEPT !.pc = "forget", !.desc = <<>>] /\ th.pc = "remove"
                     \/ next = [th EXCEPT !.pc = "save"]
  BY Zenon DEF RemoveData, Forget, Goto
<1>5. /\ DOMAIN next = ThreadFields /\ next.pc \notin {"create", "resolve", "again", "remove"}
      /\ next.job = th.job
      /\ next.list = th.list /\ next.topic = th.topic
      /\ next.desc = th.desc \/ th.pc = "remove"
  BY ZenonT(30), <1>0, <1>4 DEF ThreadFields
<1>6. th.pc = "remove" => th.topic = ""
  BY Zenon DEF Shaped, ThreadShape
<1>7. GoesOn(b, th, next)
  BY Zenon, <1>5, <1>6 DEF GoesOn
<1>8. ThreadShape(b, next) /\ KnownThread(next)
  BY Zenon, <1>7, Carries
<1>9. GoodQueues(inbox')
  BY Zenon, <1>1, GoodNow
<1> QED
  BY Zenon, <1>1, <1>2, <1>4, <1>8, <1>9, StepIsQuiet

\* A worker takes a request with what it says.
LEMMA TakeIsQuiet ==
  ASSUME Shaped, NEW b \in Brokers, NEW w \in Threads, UNCHANGED prod, Take(b, w)
  PROVE  Quiet
<1> DEFINE th == thread[b][w]
<1>1. /\ UNCHANGED <<topics, disk, created, prod>>
      /\ w \in Workers /\ inbox[b][w] # <<>>
      /\ inbox' = [inbox EXCEPT ![b][w] = Tail(inbox[b][w])]
  BY Zenon DEF Take, disks, history
<1>2. PICK queue : queue = inbox[b][w]
  BY Zenon
<1>3. GoodQueue(queue)
  BY Zenon, <1>1, <1>2, GoodNow DEF GoodQueues
<1>4. PICK req : req = Head(queue)
  BY Zenon
<1>5. PICK rest : rest = Tail(queue)
  BY Zenon
<1>6. GoodQueue(rest) /\ RequestShape(req) /\ KnownRequest(req)
  BY ZenonT(30), <1>1, <1>2, <1>3, <1>4, <1>5, QueueShrinks
<1>7. GoodQueues(inbox')
  <2>1. inbox' = [inbox EXCEPT ![b][w] = rest]
    BY Zenon, <1>1, <1>2, <1>5
  <2> QED
    BY Zenon, <1>6, <2>1, QueueMoves
<1>8. GoodTables(topics') /\ GoodFiles(disk') /\ GoodCache(prod')
  BY Zenon, <1>1, GoodNow
<1>9. CASE thread' = thread
  <2>1. GoodThreads(thread')
    BY Zenon, <1>9, GoodNow
  <2> QED
    BY Zenon, <1>1, <1>7, <1>8, <2>1, GoodQuiet
<1>10. ASSUME NEW next, NEW desc, thread' = [thread EXCEPT ![b][w] = next],
              \/ next = EnsureFrom(b, req)
              \/ next = [IdleThread EXCEPT !.pc = "remove", !.job = req, !.desc = desc]
              \/ /\ next = [IdleThread EXCEPT !.pc = "resolve", !.job = req]
                 /\ req.kind = "produce"
       PROVE  Quiet
  <2>1. /\ DOMAIN next = ThreadFields /\ next.job = req /\ next.topic = "" /\ next.list = <<>>
        /\ next.pc = "create" => b = ControllerId \/ req.pushed
        /\ next.pc \in {"resolve", "again"} => req.kind = "produce"
    BY ZenonT(30), <1>10 DEF EnsureFrom, IdleThread, ThreadFields
  <2>2. GoesOn(b, th, next)
    BY Zenon, <1>6, <2>1 DEF GoesOn
  <2>3. ThreadShape(b, next) /\ KnownThread(next)
    BY Zenon, <2>2, Carries
  <2> QED
    BY Zenon, <1>1, <1>7, <1>8, <1>10, <2>3, StepIsQuiet
<1>11. \/ thread' = thread
       \/ thread' = [thread EXCEPT ![b][w] = EnsureFrom(b, req)]
       \/ thread' = [thread EXCEPT ![b][w] = [IdleThread EXCEPT !.pc = "remove", !.job = req,
                                                                !.desc = topics[b][req.topic]]]
       \/ /\ thread' = [thread EXCEPT ![b][w] = [IdleThread EXCEPT !.pc = "resolve", !.job = req]]
          /\ req.kind = "produce"
  BY <1>2, <1>4, Zenon DEF Take, Goto
<1> QED
  BY <1>9, <1>10, <1>11, Zenon

\* A produce request asks for its topic like any other.
LEMMA ResolveIsQuiet ==
  ASSUME Shaped, NEW b \in Brokers, NEW w \in Threads, UNCHANGED prod, Resolve(b, w)
  PROVE  Quiet
<1> DEFINE th == thread[b][w]
<1>1. UNCHANGED <<topics, disk, inbox, created, prod>>
  BY Zenon DEF Resolve, disks, history
<1>2. PICK req : req = th.job
  BY Zenon
<1>3. RequestShape(req) /\ KnownRequest(req)
  BY Zenon, <1>2, ThreadKnown
<1>4. ASSUME NEW code, Respond(b, w, code) PROVE Quiet
  BY Zenon, <1>1, <1>4, EnsuredIsQuiet
<1>5. ASSUME NEW asked, asked = [req EXCEPT !.count = IF DefaultCount > req.part THEN DefaultCount
                                                      ELSE req.part + 1,
                                            !.rf = DefaultFactor],
             thread' = [thread EXCEPT ![b][w] = EnsureFrom(b, asked)], ~req.pushed
      PROVE  Quiet
  <2>1. PICK count : count = IF DefaultCount > req.part THEN DefaultCount ELSE req.part + 1
    BY Zenon
  <2>2. asked = [req EXCEPT !.count = count, !.rf = DefaultFactor]
    BY Zenon, <1>5, <2>1
  <2>3. /\ DOMAIN asked = RequestFields /\ asked.topic = req.topic /\ asked.part = req.part
        /\ asked.count = count /\ asked.rf = DefaultFactor /\ asked.pushed = req.pushed
        /\ asked.kind = req.kind
    BY Zenon, <1>3, <2>2 DEF RequestShape, RequestFields
  <2>4. DefaultCount \in Int /\ DefaultFactor \in Int
    BY Zenon, ClusterAssumption
  <2>5. req.part \in Int => count \in Int
    BY <2>1, <2>4
  <2>6. RequestShape(asked)
    BY Zenon, <1>3, <2>3, <2>4, <2>5 DEF RequestShape
  <2>7. KnownRequest(asked)
    BY Zenon, <1>5, <2>3 DEF KnownRequest, RequestSays
  <2>8. PICK next : next = EnsureFrom(b, asked)
    BY Zenon
  <2>9. /\ DOMAIN next = ThreadFields /\ next.job = asked /\ next.topic = "" /\ next.list = <<>>
        /\ next.pc \in {"create", "forward"}
        /\ next.pc = "create" => b = ControllerId \/ asked.pushed
    BY Zenon, <2>8 DEF EnsureFrom, IdleThread, ThreadFields
  <2>10. GoesOn(b, th, next)
    BY Zenon, <2>6, <2>7, <2>9 DEF GoesOn
  <2> QED
    BY Zenon, <1>1, <1>5, <2>8, <2>10, MoveIsQuiet
<1>6. ~req.pushed
  <2>1. th.pc \in {"resolve", "again"}
    BY Zenon DEF Resolve
  <2> QED
    BY Zenon, <1>2, <1>3, <2>1 DEF Shaped, ThreadShape, RequestShape
<1> QED
  BY <1>2, <1>4, <1>5, <1>6, Zenon DEF Resolve, Goto

\* A request, a queue and a thread say the same when a caller has given up.
LEMMA DisownedSays ==
  ASSUME NEW req, RequestShape(req), KnownRequest(req), NEW callers, NEW left,
         left = Disowned(req, callers)
  PROVE  /\ RequestShape(left) /\ KnownRequest(left)
         /\ left.kind = req.kind /\ left.pushed = req.pushed
<1>1. CASE left = req
  BY Zenon, <1>1
<1>2. CASE left = [req EXCEPT !.from = Nobody]
  <2>1. RequestShape(left) /\ KnownRequest(left)
    BY Zenon, <1>2, SenderIsNoNews
  <2>2. left.kind = req.kind /\ left.pushed = req.pushed
    BY Zenon, <1>2 DEF RequestShape, RequestFields
  <2> QED
    BY Zenon, <2>1, <2>2
<1> QED
  BY <1>1, <1>2, Zenon DEF Disowned

\* The queue.
LEMMA DisownedQueue ==
  ASSUME NEW queue, GoodQueue(queue), NEW callers, NEW rest,
         rest = [i \in DOMAIN queue |-> Disowned(queue[i], callers)]
  PROVE  GoodQueue(rest)
<1>1. Len(queue) \in Nat /\ DOMAIN queue = 1..Len(queue)
  BY Zenon DEF GoodQueue, QueueShape
<1>2. PICK n : n = Len(queue)
  BY Zenon
<1>3. rest = [i \in 1..n |-> Disowned(queue[i], callers)] /\ n \in Nat
  BY Zenon, <1>1, <1>2
<1>4. Len(rest) = n /\ DOMAIN rest = 1..n
  BY <1>3
<1>5. ASSUME NEW i \in 1..n PROVE RequestShape(rest[i]) /\ KnownRequest(rest[i])
  <2>1. PICK req : req = queue[i]
    BY Zenon
  <2>2. RequestShape(req) /\ KnownRequest(req)
    BY Zenon, <1>1, <1>2, <2>1 DEF GoodQueue, QueueShape
  <2>3. PICK left : left = Disowned(req, callers)
    BY Zenon
  <2>4. RequestShape(left) /\ KnownRequest(left)
    BY Zenon, <2>2, <2>3, DisownedSays
  <2> QED
    BY Zenon, <1>3, <2>1, <2>3, <2>4
<1> QED
  BY Zenon, <1>3, <1>4, <1>5 DEF GoodQueue, QueueShape

\* The thread.
LEMMA DisownedThread ==
  ASSUME Shaped, NEW b \in Brokers, NEW w \in Threads, NEW callers, NEW next,
         next = [thread[b][w] EXCEPT !.job = Disowned(thread[b][w].job, callers)]
  PROVE  ThreadShape(b, next) /\ KnownThread(next)
<1> DEFINE th == thread[b][w]
<1>1. PICK left : left = Disowned(th.job, callers)
  BY Zenon
<1>2. PICK job : job = th.job
  BY Zenon
<1>3. RequestShape(job) /\ KnownRequest(job)
  BY Zenon, <1>2, ThreadKnown
<1>4. /\ RequestShape(left) /\ KnownRequest(left)
      /\ left.kind = th.job.kind /\ left.pushed = th.job.pushed
  BY ZenonT(30), <1>1, <1>2, <1>3, DisownedSays
<1>5. DOMAIN th = ThreadFields /\ ThreadShape(b, th)
  BY Zenon, ThreadRecord
<1>6. next = [th EXCEPT !.job = left]
  BY Zenon, <1>1
<1>7. /\ DOMAIN next = ThreadFields /\ next.pc = th.pc /\ next.job = left /\ next.list = th.list
      /\ next.topic = th.topic /\ next.desc = th.desc
  BY Zenon, <1>5, <1>6 DEF ThreadFields
<1>8. GoesOn(b, th, next)
  BY Zenon, <1>4, <1>5, <1>7 DEF GoesOn, ThreadShape
<1> QED
  BY Zenon, <1>8, Carries

\* A timeout.
LEMMA TimeoutIsQuiet ==
  ASSUME Shaped, NEW c \in Callers, UNCHANGED prod, up \subseteq Brokers, Timeout(c)
  PROVE  Quiet
<1>1. UNCHANGED <<topics, disk, created, prod>>
  BY Zenon DEF Timeout, disks, history
<1>2. PICK b \in up, w \in Workers :
        /\ thread' = [thread EXCEPT ![b][w].job = Disowned(@, {c})]
        /\ inbox' = [inbox EXCEPT ![b][w] = [i \in DOMAIN @ |-> Disowned(@[i], {c})]]
  BY Zenon DEF Timeout
<1>3. b \in Brokers /\ w \in Threads
  BY Zenon, <1>2 DEF Threads
<1>4. PICK callers : callers = {c}
  BY Zenon
<1>5. PICK next : next = [thread[b][w] EXCEPT !.job = Disowned(thread[b][w].job, callers)]
  BY Zenon
<1>6. thread' = [thread EXCEPT ![b][w] = next]
  BY Zenon, <1>2, <1>4, <1>5
<1>7. ThreadShape(b, next) /\ KnownThread(next)
  BY Zenon, <1>3, <1>5, DisownedThread
<1>8. GoodQueues(inbox')
  <2>1. PICK queue : queue = inbox[b][w]
    BY Zenon
  <2>2. PICK rest : rest = [i \in DOMAIN queue |-> Disowned(queue[i], callers)]
    BY Zenon
  <2>3. GoodQueue(queue)
    BY ZenonT(30), <1>2, <1>3, <2>1, GoodNow DEF GoodQueues
  <2>4. GoodQueue(rest)
    BY Zenon, <2>2, <2>3, DisownedQueue
  <2>5. inbox' = [inbox EXCEPT ![b][w] = rest]
    BY Zenon, <1>2, <1>4, <2>1, <2>2
  <2> QED
    BY Zenon, <1>3, <2>4, <2>5, QueueMoves
<1>9. GoodTables(topics')
  BY Zenon, <1>1, GoodNow
<1> QED
  BY ZenonT(30), <1>1, <1>3, <1>6, <1>7, <1>8, <1>9, StepIsQuiet

\* A broker that is killed forgets what it knows, but for its files.
LEMMA KillIsQuiet ==
  ASSUME Shaped, NEW b \in Brokers, UNCHANGED prod, Kill(b)
  PROVE  Quiet
<1>1. UNCHANGED <<disk, created, prod>> /\ topics' = [topics EXCEPT ![b] = <<>>]
  BY Zenon DEF Kill, disks, history
<1>2. PICK own : own = {b} \X Threads
  BY Zenon
<1>3. /\ inbox' = [d \in Brokers |-> [w \in Workers |->
                     IF d = b THEN <<>>
                     ELSE [i \in DOMAIN inbox[d][w] |-> Disowned(inbox[d][w][i], own)]]]
      /\ thread' = [d \in Brokers |-> [w \in Threads |->
                      IF d = b THEN IdleThread
                      ELSE [thread[d][w] EXCEPT !.job = Disowned(@, own)]]]
  BY <1>2, Zenon DEF Kill
<1>4. GoodTables(topics')
  <2>1. GoodTables(topics)
    BY Zenon, GoodNow
  <2>2. KnownTable(<<>>)
    <3>1. DOMAIN <<>> = 1..0 /\ 1..0 = {}
      OBVIOUS
    <3> QED
      BY Zenon, <3>1 DEF KnownTable, TableSays
  <2> QED
    BY Zenon, <1>1, <2>1, <2>2 DEF GoodTables
<1>5. GoodThreads(thread')
  <2>1. DOMAIN thread' = Brokers /\ \A d \in Brokers : DOMAIN thread'[d] = Threads
    BY Zenon, <1>3
  <2>2. ASSUME NEW d \in Brokers, NEW w \in Threads
        PROVE  ThreadShape(d, thread'[d][w]) /\ KnownThread(thread'[d][w])
    <3>1. PICK next : next = thread'[d][w]
      BY Zenon
    <3>2. CASE d = b
      <4>1. next = IdleThread
        BY Zenon, <1>3, <3>1, <3>2
      <4>2. GoesOn(d, thread[d][w], next)
        BY Zenon, <4>1, IdleGoesOn
      <4> QED
        BY Zenon, <3>1, <4>2, Carries
    <3>3. CASE d # b
      <4>1. next = [thread[d][w] EXCEPT !.job = Disowned(thread[d][w].job, own)]
        BY Zenon, <1>3, <3>1, <3>3
      <4> QED
        BY Zenon, <3>1, <4>1, DisownedThread
    <3> QED
      BY Zenon, <3>2, <3>3
  <2> QED
    BY Zenon, <2>1, <2>2 DEF GoodThreads
<1>6. GoodQueues(inbox')
  <2>1. DOMAIN inbox' = Brokers /\ \A d \in Brokers : DOMAIN inbox'[d] = Workers
    BY Zenon, <1>3
  <2>2. ASSUME NEW d \in Brokers, NEW w \in Workers PROVE GoodQueue(inbox'[d][w])
    <3>1. PICK rest : rest = inbox'[d][w]
      BY Zenon
    <3>2. CASE d = b
      <4>1. rest = <<>>
        BY Zenon, <1>3, <3>1, <3>2
      <4>2. Len(rest) = 0 /\ DOMAIN rest = 1..0 /\ 1..0 = {}
        BY <4>1
      <4> QED
        BY <3>1, <4>2 DEF GoodQueue, QueueShape
    <3>3. CASE d # b
      <4>1. PICK queue : queue = inbox[d][w]
        BY Zenon
      <4>2. rest = [i \in DOMAIN queue |-> Disowned(queue[i], own)]
        BY Zenon, <1>3, <3>1, <3>3, <4>1
      <4>3. GoodQueue(queue)
        BY Zenon, <4>1, GoodNow DEF GoodQueues
      <4> QED
        BY <3>1, <4>2, <4>3, DisownedQueue
    <3> QED
      BY Zenon, <3>2, <3>3
  <2> QED
    BY Zenon, <2>1, <2>2 DEF GoodQueues
<1>7. GoodFiles(disk') /\ GoodCache(prod')
  BY Zenon, <1>1, GoodNow
<1> QED
  BY Zenon, <1>1, <1>4, <1>5, <1>6, <1>7, GoodQuiet

\* A restart reads the file back.
LEMMA RestartIsQuiet ==
  ASSUME Shaped, NEW b \in Brokers, UNCHANGED prod, Restart(b)
  PROVE  Quiet
<1>1. /\ UNCHANGED <<disk, inbox, thread, created, prod>>
      /\ topics' = [topics EXCEPT ![b] = disk[b]] /\ disk[b] # Torn
  BY Zenon DEF Restart, Loads, calls, history
<1>2. /\ GoodTables(topics) /\ GoodFiles(disk) /\ GoodThreads(thread) /\ GoodQueues(inbox)
      /\ GoodCache(prod)
  BY Zenon, GoodNow
<1>3. GoodTables(topics')
  BY Zenon, <1>1, <1>2 DEF GoodTables, GoodFiles
<1>4. GoodFiles(disk') /\ GoodThreads(thread') /\ GoodQueues(inbox') /\ GoodCache(prod')
  BY Zenon, <1>1, <1>2
<1> QED
  BY Zenon, <1>1, <1>3, <1>4, GoodQuiet

\* CreateTopic goes on with the descriptor it found or made.
Opens(b, th, topic, desc, next) ==
  /\ ThreadShape(b, next) /\ next.job = th.job /\ next.list = th.list
  /\ next.topic \in Topics => next.topic = topic /\ next.desc = desc

\* So it is when OpenPartitionsForTopic begins.
LEMMA CreateOpens ==
  ASSUME Shaped, NEW b \in Brokers, NEW w \in Threads, NEW topic, NEW desc, NEW made, NEW th,
         th = [thread[b][w] EXCEPT !.topic = topic, !.desc = desc, !.made = made],
         NEW next, next = Opening(b, th, open[b])
  PROVE  Opens(b, thread[b][w], topic, desc, next)
<1>1. DOMAIN thread[b][w] = ThreadFields
  BY Zenon, ThreadRecord
<1>2. /\ DOMAIN th = ThreadFields /\ th.job = thread[b][w].job /\ th.list = thread[b][w].list
      /\ th.topic = topic /\ th.desc = desc
  BY Zenon, <1>1 DEF ThreadFields
<1>3. Moved(th, next)
  BY <1>2, OpeningMoves, Zenon
<1>4. RequestShape(thread[b][w].job)
  BY Zenon, ThreadKnown
<1>5. "" \notin Topics
  BY Zenon, ClusterAssumption
<1> QED
  BY ZenonT(30), <1>2, <1>3, <1>4, <1>5 DEF Opens, Moved, ThreadShape

\* It is quiet when the descriptor stood somewhere before.
LEMMA KnownCreateIsQuiet ==
  ASSUME Shaped, NEW b \in Brokers, NEW w \in Threads, UNCHANGED <<disk, inbox, created, prod>>,
         NEW topic, NEW desc, topic \in Topics => Says(topic, desc),
         topics' = topics \/ topics' = [topics EXCEPT ![b] = UpsertTopic(topics[b], topic, desc)],
         NEW next, ThreadShape(b, next), next.job = thread[b][w].job,
         next.list = thread[b][w].list,
         next.topic \in Topics => next.topic = topic /\ next.desc = desc,
         thread' = [thread EXCEPT ![b][w] = next]
  PROVE  Quiet
<1>1. KnownThread(next)
  <2>1. /\ KnownTable(next.list) /\ KnownRequest(next.job)
        /\ next.topic \in Topics => Says(next.topic, next.desc)
    BY Zenon, ThreadKnown
  <2> QED
    BY Zenon, <2>1, ThreadKnows
<1>2. GoodTables(topics')
  <2>1. GoodTables(topics)
    BY Zenon, GoodNow
  <2>2. PICK old : old = topics[b]
    BY Zenon
  <2>3. PICK table : table = UpsertTopic(old, topic, desc)
    BY Zenon
  <2>4. KnownTable(old)
    BY Zenon, <2>1, <2>2 DEF GoodTables
  <2>5. KnownTable(table)
    BY ZenonT(30), <2>3, <2>4, UpsertKnown
  <2>6. topics' = topics \/ topics' = [topics EXCEPT ![b] = table]
    BY Zenon, <2>2, <2>3
  <2> QED
    BY Zenon, <2>1, <2>5, <2>6 DEF GoodTables
<1>3. GoodQueues(inbox')
  BY Zenon, GoodNow
<1> QED
  BY Zenon, <1>1, <1>2, <1>3, StepIsQuiet

\* What CreateTopic makes is well placed.
LEMMA CreatedIsPlaced ==
  ASSUME NEW table, NEW topic, NEW count \in Int, NEW rf \in Int,
         CreateStatus(table, topic, count, rf) = "created"
  PROVE  Placed(topic, ComputeAssignments(topic, count, rf)) /\ topic \notin DOMAIN table
<1>1. PICK n : n = Cardinality(Brokers)
  BY Zenon
<1>2. n \in Nat
  BY <1>1, ClusterAssumption, Zenon
<1>3. ~(count <= 0 \/ rf <= 0 \/ rf > n) /\ topic \notin DOMAIN table
  BY Zenon, <1>1 DEF CreateStatus
<1>4. count \in Nat /\ rf \in Nat /\ count > 0 /\ rf > 0 /\ rf <= n
  BY <1>2, <1>3
<1>5. rf <= Cardinality(Brokers)
  BY Zenon, <1>1, <1>4
<1> QED
  BY Zenon, <1>3, <1>4, <1>5 DEF Placed

\* The controller makes a descriptor: it is the only one if it is the first.
LEMMA FirstCreateAgrees ==
  ASSUME Shaped, Agreed, NEW b \in Brokers, NEW w \in Threads, UNCHANGED <<disk, inbox, prod>>,
         NEW topic, NEW desc, topic \in Topics => Placed(topic, desc),
         topics' = [topics EXCEPT ![b] = UpsertTopic(topics[b], topic, desc)],
         created' = [created EXCEPT ![topic] = @ + 1],
         NEW next, ThreadShape(b, next), next.job = thread[b][w].job,
         next.list = thread[b][w].list,
         next.topic \in Topics => next.topic = topic /\ next.desc = desc,
         thread' = [thread EXCEPT ![b][w] = next]
  PROVE  Agreed' /\ Shaped'
<1>1. Shaped'
  <2>1. \A c \in Brokers, v \in Threads : thread'[c][v] = IF c = b /\ v = w THEN next ELSE thread[c][v]
    BY Zenon DEF Shaped
  <2>2. DOMAIN thread' = Brokers /\ \A c \in Brokers : DOMAIN thread'[c] = Threads
    BY Zenon DEF Shaped
  <2>3. DOMAIN topics' = Brokers /\ DOMAIN created' = Topics
    BY Zenon DEF Shaped
  <2> QED
    BY <2>1, <2>2, <2>3 DEF Shaped
<1>2. ASSUME NEW t \in Topics, NEW d, Says(t, d)' PROVE Says(t, d) \/ (t = topic /\ d = desc)
  <2>1. CASE \E c \in Brokers : TableSays(topics'[c], t, d)
    <3>1. PICK c \in Brokers : TableSays(topics'[c], t, d)
      BY Zenon, <2>1
    <3>2. topics'[c] = topics[c] \/ topics'[c] = UpsertTopic(topics[c], topic, desc)
      BY Zenon DEF Shaped
    <3>3. TableSays(topics[c], t, d) \/ (t = topic /\ d = desc)
      BY ZenonT(30), <3>1, <3>2 DEF TableSays, UpsertTopic
    <3> QED
      BY Zenon, <3>3 DEF Says
  <2>2. CASE \E c \in Brokers : disk'[c] # Torn /\ TableSays(disk'[c], t, d)
    BY Zenon, <2>2 DEF Says
  <2>3. CASE \E c \in Brokers, v \in Threads : ThreadSays(thread'[c][v], t, d)
    <3>1. PICK c \in Brokers, v \in Threads : ThreadSays(thread'[c][v], t, d)
      BY Zenon, <2>3
    <3>2. CASE thread'[c][v] = thread[c][v]
      BY Zenon, <3>1, <3>2 DEF Says
    <3>3. CASE c = b /\ v = w /\ thread'[c][v] = next
      <4>1. ThreadSays(next, t, d)
        BY Zenon, <3>1, <3>3
      <4>2. PICK th : th = thread[b][w]
        BY Zenon
      <4>3. (t = topic /\ d = desc) \/ ThreadSays(th, t, d)
        <5>1. CASE next.topic = t /\ d = next.desc
          BY Zenon, <5>1
        <5>2. CASE TableSays(next.list, t, d) \/ RequestSays(next.job, t, d)
          BY Zenon, <4>2, <5>2 DEF ThreadSays
        <5> QED
          BY Zenon, <4>1, <5>1, <5>2 DEF ThreadSays
      <4> QED
        BY Zenon, <4>2, <4>3 DEF Says
    <3> QED
      BY Zenon, <3>2, <3>3 DEF Shaped
  <2>4. CASE \E c \in Brokers, v \in Workers : QueueSays(inbox'[c][v], t, d)
    BY Zenon, <2>4 DEF Says
  <2>5. CASE CacheSays(prod', t, d)
    BY Zenon, <2>5 DEF Says
  <2> QED
    BY Zenon, <1>2, <2>1, <2>2, <2>3, <2>4, <2>5 DEF Says
<1>3. ASSUME NEW t \in Topics
      PROVE  /\ created'[t] \in Nat
             /\ \A d : Says(t, d)' => created'[t] > 0 /\ Placed(t, d)
             /\ created'[t] <= 1 => \A d, e : Says(t, d)' /\ Says(t, e)' => d = e
  <2>1. created[t] \in Nat /\ created'[t] = IF t = topic THEN created[t] + 1 ELSE created[t]
    BY Zenon DEF Shaped, Agreed
  <2>2. \A d : Says(t, d) => created[t] > 0 /\ Placed(t, d)
    BY Zenon DEF Agreed
  <2>3. created[t] <= 1 => \A d, e : Says(t, d) /\ Says(t, e) => d = e
    BY Zenon DEF Agreed
  <2>4. created'[t] \in Nat /\ created[t] <= created'[t]
    BY <2>1
  <2>5. ASSUME NEW d, Says(t, d)' PROVE created'[t] > 0 /\ Placed(t, d)
    <3>1. Says(t, d) \/ (t = topic /\ d = desc)
      BY <1>2, <2>5
    <3>2. CASE Says(t, d)
      BY <2>1, <2>2, <2>4, <3>2
    <3>3. CASE t = topic /\ d = desc
      BY <2>1, <3>3
    <3> QED
      BY Zenon, <3>1, <3>2, <3>3
  <2>6. ASSUME created'[t] <= 1, NEW d, NEW e, Says(t, d)', Says(t, e)' PROVE d = e
    <3>1. Says(t, d) \/ (t = topic /\ d = desc)
      BY Zenon, <1>2, <2>6
    <3>2. Says(t, e) \/ (t = topic /\ e = desc)
      BY <1>2, <2>6
    <3>3. created[t] <= 1
      BY SMTT(30), <2>1, <2>6
    <3>4. t = topic => ~(created[t] > 0)
      BY <2>1, <2>6
    <3> QED
      BY ZenonT(30), <2>2, <2>3, <3>1, <3>2, <3>3, <3>4
  <2> QED
    BY Zenon, <2>4, <2>5, <2>6
<1> QED
  BY Zenon, <1>1, <1>3 DEF Agreed, Placed

\* CreateTopic on any broker.
LEMMA CreateAgrees ==
  ASSUME Shaped, Agreed, NEW b \in Brokers, NEW w \in Threads, UNCHANGED prod, Create(b, w)
  PROVE  Agreed' /\ Shaped'
<1>1. UNCHANGED <<disk, inbox, prod>>
  BY Zenon DEF Create, disks
<1>2. PICK req : req = thread[b][w].job
  BY Zenon
<1>3. PICK topic : topic = req.topic
  BY Zenon
<1>4. PICK status : status = CreateStatus(topics[b], topic, req.count, req.rf)
  BY Zenon
<1>5. PICK desc : desc = IF status = "existing" THEN topics[b][topic]
                         ELSE ComputeAssignments(topic, req.count, req.rf)
  BY Zenon
<1>6. PICK made : made = (status = "created")
  BY Zenon
<1>7. PICK th : th = [thread[b][w] EXCEPT !.topic = topic, !.desc = desc, !.made = made]
  BY Zenon
<1>8. PICK next : next = Opening(b, th, open[b])
  BY Zenon
<1>9. \/ /\ status = "created"
         /\ topics' = [topics EXCEPT ![b] = UpsertTopic(topics[b], topic, desc)]
         /\ created' = IF b = ControllerId
                       THEN [created EXCEPT ![topic] = @ + 1] ELSE created
         /\ thread' = [thread EXCEPT ![b][w] = next]
      \/ /\ status = "existing" /\ UNCHANGED <<topics, created>>
         /\ thread' = [thread EXCEPT ![b][w] = next]
      \/ Respond(b, w, status) /\ UNCHANGED <<topics, created>>
  BY <1>2, <1>3, <1>4, <1>5, <1>6, <1>7, <1>8, ZenonT(30) DEF Create, Goto
<1>10. /\ ThreadShape(b, next) /\ next.job = thread[b][w].job /\ next.list = thread[b][w].list
       /\ next.topic \in Topics => next.topic = topic /\ next.desc = desc
  <2>1. Opens(b, thread[b][w], topic, desc, next)
    BY <1>7, <1>8, CreateOpens, Zenon
  <2> QED
    BY Zenon, <2>1 DEF Opens
<1>11. ASSUME Quiet PROVE Agreed' /\ Shaped'
  BY Zenon, <1>11, QuietAgrees DEF Quiet
<1>12. CASE Respond(b, w, status) /\ UNCHANGED <<topics, created>>
  BY Zenon, <1>1, <1>11, <1>12, EnsuredIsQuiet
<1>13. CASE /\ status = "existing" /\ UNCHANGED <<topics, created>>
            /\ thread' = [thread EXCEPT ![b][w] = next]
  <2>1. topic \in DOMAIN topics[b] /\ desc = topics[b][topic]
    <3>1. PICK count : count = req.count
      BY Zenon
    <3>2. PICK rf : rf = req.rf
      BY Zenon
    <3>3. CreateStatus(topics[b], topic, count, rf) = "existing"
      BY ZenonT(30), <1>4, <1>13, <3>1, <3>2
    <3>4. topic \in DOMAIN topics[b]
      BY <3>3, Zenon DEF CreateStatus
    <3> QED
      BY Zenon, <1>5, <1>13, <3>4
  <2>2. topic \in Topics => Says(topic, desc)
    BY Zenon, <2>1, GoodNow DEF GoodTables, KnownTable, TableSays
  <2> QED
    BY ZenonT(30), <1>1, <1>10, <1>11, <1>13, <2>2, KnownCreateIsQuiet
<1>14. ASSUME /\ status = "created"
              /\ topics' = [topics EXCEPT ![b] = UpsertTopic(topics[b], topic, desc)]
              /\ created' = IF b = ControllerId
                            THEN [created EXCEPT ![topic] = @ + 1] ELSE created
              /\ thread' = [thread EXCEPT ![b][w] = next]
       PROVE  Agreed' /\ Shaped'
  <2>1. desc = ComputeAssignments(topic, req.count, req.rf)
    BY Zenon, <1>5, <1>14
  <2>2. RequestShape(req) /\ KnownRequest(req)
    BY Zenon, <1>2, ThreadKnown
  <2>3. CASE b = ControllerId
    <3>1. created' = [created EXCEPT ![topic] = @ + 1]
      BY Zenon, <1>14, <2>3
    <3>2. ASSUME topic \in Topics PROVE Placed(topic, desc)
      <4>1. PICK count : count = req.count
        BY Zenon
      <4>2. PICK rf : rf = req.rf
        BY Zenon
      <4>3. PICK table : table = topics[b]
        BY Zenon
      <4>4. count \in Int /\ rf \in Int
        BY ZenonT(30), <1>3, <2>2, <3>2, <4>1, <4>2 DEF RequestShape
      <4>5. CreateStatus(table, topic, count, rf) = "created"
        BY Zenon, <1>4, <1>14, <4>1, <4>2, <4>3
      <4>6. Placed(topic, ComputeAssignments(topic, count, rf))
        BY Zenon, <4>4, <4>5, CreatedIsPlaced
      <4> QED
        BY ZenonT(30), <2>1, <4>1, <4>2, <4>6
    <3>3. topics' = [topics EXCEPT ![b] = UpsertTopic(topics[b], topic, desc)]
          /\ thread' = [thread EXCEPT ![b][w] = next]
      BY Zenon, <1>14
    <3>4. topic \in Topics => Placed(topic, desc)
      BY Zenon, <3>2
    <3> QED
      BY Zenon, <1>1, <1>10, <3>1, <3>3, <3>4, FirstCreateAgrees
  <2>4. CASE b # ControllerId
    <3>1. created' = created
      BY Zenon, <1>14, <2>4
    <3>2. topic \in Topics => Says(topic, desc)
      <4>1. thread[b][w].pc = "create"
        BY Zenon DEF Create
      <4>2. ThreadShape(b, thread[b][w])
        BY Zenon, ThreadRecord
      <4>3. req.pushed
        BY Zenon, <1>2, <2>4, <4>1, <4>2 DEF ThreadShape
      <4>4. req.kind = "create"
        BY Zenon, <2>2, <4>3 DEF RequestShape
      <4>5. topic \in Topics => RequestSays(req, topic, desc)
        BY <1>3, <2>1, <4>3, <4>4, ZenonT(30) DEF RequestSays
      <4> QED
        BY <2>2, <4>5, Zenon DEF KnownRequest
    <3>3. topics' = [topics EXCEPT ![b] = UpsertTopic(topics[b], topic, desc)]
          /\ thread' = [thread EXCEPT ![b][w] = next]
      BY Zenon, <1>14
    <3> QED
      BY Zenon, <1>1, <1>10, <1>11, <3>1, <3>2, <3>3, KnownCreateIsQuiet
  <2> QED
    BY Zenon, <2>3, <2>4
<1> QED
  BY Zenon, <1>9, <1>12, <1>13, <1>14

\* A step of a client.
LEMMA ClientIsQuiet ==
  ASSUME Shaped, UNCHANGED <<topics, disk, thread, created>>, GoodQueues(inbox'), GoodCache(prod')
  PROVE  Quiet
<1>1. GoodTables(topics') /\ GoodFiles(disk') /\ GoodThreads(thread')
  BY Zenon, GoodNow
<1> QED
  BY Zenon, <1>1, GoodQuiet

\* RefreshMetadata takes what a broker has.
LEMMA CacheKnown ==
  ASSUME Shaped, up \subseteq Brokers, NEW cache,
         cache \in CacheForCount(prod.cache) \/ cache \in CacheForLeader(prod.cache),
         cache # Unknown
  PROVE  Topic \in Topics /\ Says(Topic, cache)
<1>0. Topic \in Topics
  BY Zenon, RecordsAssumption
<1>1. CASE cache = prod.cache
  BY Zenon, <1>0, <1>1 DEF Says, CacheSays
<1>2. CASE \E b \in up : Topic \in DOMAIN topics[b] /\ cache = topics[b][Topic]
  <2>1. PICK b \in up : Topic \in DOMAIN topics[b] /\ cache = topics[b][Topic]
    BY Zenon, <1>2
  <2>2. b \in Brokers /\ TableSays(topics[b], Topic, cache)
    BY Zenon, <2>1 DEF TableSays
  <2> QED
    BY Zenon, <1>0, <2>2 DEF Says
<1>3. cache = prod.cache \/ cache \in Refreshed(prod.cache)
  BY Zenon DEF CacheForCount, CacheForLeader
<1> QED
  BY ZenonT(30), <1>1, <1>2, <1>3 DEF Refreshed, AnyBroker

\* Its partitions can be counted.
LEMMA CacheCounts ==
  ASSUME Agreed, NEW cache, Topic \in Topics, Says(Topic, cache)
  PROVE  Len(cache) \in Nat /\ Len(cache) > 0
<1>1. PICK topic : topic = Topic
  BY Zenon
<1>2. Placed(topic, cache)
  BY Zenon, <1>1 DEF Agreed
<1> QED
  BY Zenon, <1>2, PlacedTells

\* RouteFor finds a partition.
LEMMA RouteIsNat ==
  ASSUME NEW p, p.counter \in Nat, p.sticky \in Nat, NEW record \in 1..Len(KeyHash),
         p.cache # Unknown => Len(p.cache) \in Nat /\ Len(p.cache) > 0
  PROVE  RouteFor(p, record) \in Nat
<1>1. PICK part : part = RouteFor(p, record)
  BY Zenon
<1>2. CASE p.cache = Unknown
  BY Zenon, <1>2 DEF RouteFor
<1>3. CASE p.cache # Unknown
  <2>1. PICK n : n = Len(p.cache)
    BY Zenon
  <2>2. n \in Nat /\ n > 0
    BY Zenon, <1>3, <2>1
  <2>3. KeyHash[record] \in Int
    BY RecordsAssumption
  <2>4. \A k \in Int : k % n \in Nat
    BY <2>2
  <2>5. PartitionForKey(KeyHash[record], n) \in Nat
    BY Zenon, <2>2, <2>3, <2>4 DEF PartitionForKey
  <2>6. PartitionRoundRobin(p.counter, n) \in Nat
    BY <2>2, <2>4 DEF PartitionRoundRobin
  <2>7. PICK sticky : sticky = IF p.pending = <<>> THEN PartitionRoundRobin(p.counter, n)
                               ELSE p.sticky
    BY Zenon
  <2>8. sticky \in Nat
    BY Zenon, <2>6, <2>7
  <2>9. part = IF KeyHash[record] = -1 THEN IF sticky >= n THEN 0 ELSE sticky
               ELSE PartitionForKey(KeyHash[record], n)
    BY <1>1, <1>3, <2>1, <2>7, Zenon DEF RouteFor, PartitionCount
  <2> QED
    BY <1>1, <2>5, <2>8, <2>9
<1> QED
  BY Zenon, <1>2, <1>3

\* A cache that was known, refreshed or dropped says nothing new.
LEMMA CacheKept ==
  ASSUME Shaped, NEW q, q.cache # Unknown => q.cache = prod.cache \/ Says(Topic, q.cache)
  PROVE  GoodCache(q)
BY Zenon, GoodNow DEF GoodCache, CacheSays

\* What a flush, an attempt and an answer leave makes sense again.
LEMMA RoutingKept ==
  ASSUME NEW p, Routing(p), NEW q, DOMAIN q = ProducerFields,
         q.next = p.next, q.left = p.left, q.sticky = p.sticky, q.counter = p.counter,
         q.target \in Nat, q.part \in Nat, q.held # <<>> => q.held = p.held
  PROVE  Routing(q)
BY Zenon DEF Routing

\* Send routes the record it takes,
LEMMA SendRoutes ==
  ASSUME Shaped, Agreed, Routing(prod), up \subseteq Brokers, Send
  PROVE  Routing(prod') /\ GoodCache(prod')
<1>0. /\ DOMAIN prod = ProducerFields /\ prod.next \in Nat /\ prod.left \in Nat /\ prod.left > 0
      /\ prod.next + prod.left <= Len(KeyHash) /\ prod.target \in Nat /\ prod.part \in Nat
      /\ prod.sticky \in Nat /\ prod.counter \in Nat
  <2>1. prod.left > 0
    BY Zenon DEF Send
  <2> QED
    BY Zenon, <2>1 DEF Routing
<1>1. Len(KeyHash) \in Nat
  BY RecordsAssumption
<1>2. /\ prod.next + 1 \in 1..Len(KeyHash) /\ prod.left - 1 \in Nat /\ prod.next + 1 \in Nat
      /\ (prod.next + 1) + (prod.left - 1) <= Len(KeyHash)
  BY SMTT(30), <1>0, <1>1
<1>3. CASE prod' = [prod EXCEPT !.next = @ + 1, !.left = @ - 1]
  <2>1. /\ DOMAIN prod' = ProducerFields /\ prod'.next = prod.next + 1
        /\ prod'.left = prod.left - 1 /\ prod'.cache = prod.cache /\ prod'.held = prod.held
        /\ prod'.target = prod.target /\ prod'.part = prod.part
        /\ prod'.sticky = prod.sticky /\ prod'.counter = prod.counter
    BY Zenon, <1>0, <1>3 DEF ProducerFields
  <2>2. Routing(prod')
    BY Zenon, <1>0, <1>2, <2>1 DEF Routing
  <2>3. GoodCache(prod')
    BY Zenon, <2>1, GoodNow DEF GoodCache, CacheSays
  <2> QED
    BY Zenon, <2>2, <2>3
<1>4. ASSUME NEW cache \in CacheForCount(prod.cache), NEW p,
             p = [prod EXCEPT !.cache = cache, !.next = prod.next + 1, !.left = @ - 1],
             NEW part, part = RouteFor(p, prod.next + 1), NEW q, q = Routed(p, prod.next + 1),
             prod' = IF p.pending # <<>> /\ p.target # part
                     THEN [Flushing(q) EXCEPT !.held = <<prod.next + 1, part>>]
                     ELSE Buffered(q, prod.next + 1, part)
      PROVE  Routing(prod') /\ GoodCache(prod')
  <2>1. PICK record : record = prod.next + 1
    BY Zenon
  <2>2. /\ DOMAIN p = ProducerFields /\ p.next = record /\ p.left = prod.left - 1
        /\ p.cache = cache /\ p.held = prod.held /\ p.target = prod.target /\ p.part = prod.part
        /\ p.sticky = prod.sticky /\ p.counter = prod.counter
    BY Zenon, <1>0, <1>4, <2>1 DEF ProducerFields
  <2>3. cache # Unknown => Says(Topic, cache) /\ Len(cache) \in Nat /\ Len(cache) > 0
    <3>1. ASSUME cache # Unknown PROVE Says(Topic, cache) /\ Len(cache) \in Nat /\ Len(cache) > 0
      BY ZenonT(30), <1>4, <3>1, CacheKnown, CacheCounts
    <3> QED
      BY Zenon, <3>1
  <2>4. part \in Nat
    <3>1. /\ p.counter \in Nat /\ p.sticky \in Nat /\ record \in 1..Len(KeyHash)
          /\ p.cache # Unknown => Len(p.cache) \in Nat /\ Len(p.cache) > 0
      BY Zenon, <1>0, <1>2, <2>1, <2>2, <2>3
    <3>2. RouteFor(p, record) \in Nat
      BY Zenon, <3>1, RouteIsNat
    <3> QED
      BY Zenon, <1>4, <2>1, <3>2
  <2>5. /\ DOMAIN q = ProducerFields /\ q.next = record /\ q.left = prod.left - 1
        /\ q.cache = cache /\ q.held = prod.held /\ q.target = prod.target /\ q.part = prod.part
        /\ q.sticky \in Nat /\ q.counter \in Nat
    <3>1. q = Routed(p, record)
      BY Zenon, <1>4, <2>1
    <3>2. /\ DOMAIN q = ProducerFields /\ q.next = record /\ q.left = prod.left - 1
          /\ q.cache = cache /\ q.held = prod.held /\ q.target = prod.target
          /\ q.part = prod.part
      BY <2>2, <3>1, RoutedFields
    <3>3. PICK counter : counter = IF p.pending = <<>> THEN p.counter + 1 ELSE p.counter
      BY Zenon
    <3>4. counter \in Nat
      BY SMTT(30), <1>0, <2>2, <3>3
    <3>5. q = p \/ q = [p EXCEPT !.sticky = part, !.counter = counter]
      BY <1>4, <2>1, <3>1, <3>3, Zenon DEF Routed
    <3>6. q.sticky \in Nat /\ q.counter \in Nat
      BY Zenon, <1>0, <2>2, <2>4, <3>4, <3>5 DEF ProducerFields
    <3> QED
      BY Zenon, <3>2, <3>6
  <2>6. CASE p.pending # <<>> /\ p.target # part
    <3>1. PICK r : r = Flushing(q)
      BY Zenon
    <3>2. /\ DOMAIN r = ProducerFields /\ r.next = q.next /\ r.left = q.left /\ r.cache = q.cache
          /\ r.target = q.target /\ r.part = q.target /\ r.sticky = q.sticky
          /\ r.counter = q.counter
      BY ZenonT(30), <2>5, <3>1, FlushingFields
    <3>3. prod' = [r EXCEPT !.held = <<record, part>>]
      BY Zenon, <1>4, <2>1, <2>6, <3>1
    <3>4. /\ DOMAIN prod' = ProducerFields /\ prod'.next = r.next /\ prod'.left = r.left
          /\ prod'.cache = r.cache /\ prod'.target = r.target /\ prod'.part = r.part
          /\ prod'.sticky = r.sticky /\ prod'.counter = r.counter
          /\ prod'.held = <<record, part>>
      BY Zenon, <3>2, <3>3 DEF ProducerFields
    <3>5. prod'.held[2] = part
      BY <3>4
    <3>6. Routing(prod')
      BY ZenonT(30), <1>0, <1>2, <2>1, <2>4, <2>5, <3>2, <3>4, <3>5 DEF Routing
    <3>7. GoodCache(prod')
      BY ZenonT(30), <2>3, <2>5, <3>2, <3>4 DEF GoodCache, CacheSays
    <3> QED
      BY Zenon, <3>6, <3>7
  <2>7. CASE ~(p.pending # <<>> /\ p.target # part)
    <3>1. prod' = Buffered(q, record, part)
      BY Zenon, <1>4, <2>1, <2>7
    <3>2. /\ DOMAIN prod' = ProducerFields /\ prod'.next = q.next /\ prod'.held = <<>>
          /\ prod'.target = part /\ prod'.part \in {0, part} /\ prod'.left = q.left
          /\ prod'.cache = q.cache /\ prod'.sticky = q.sticky /\ prod'.counter = q.counter
      <4>1. PICK r : r = prod'
        BY Zenon
      <4>2. r = Buffered(q, record, part)
        BY ZenonT(30), <3>1, <4>1
      <4>3. /\ DOMAIN r = ProducerFields /\ r.next = q.next /\ r.held = <<>>
            /\ r.target = part /\ r.part \in {0, part} /\ r.left = q.left
            /\ r.cache = q.cache /\ r.sticky = q.sticky /\ r.counter = q.counter
        BY <2>5, <4>2, BufferedFields
      <4> QED
        BY Zenon, <4>1, <4>3
    <3>3. prod'.held # <<>> => prod'.held[2] \in Nat
      BY <3>2, Zenon
    <3>4. /\ prod'.next \in Nat /\ prod'.left \in Nat
          /\ prod'.next + prod'.left <= Len(KeyHash)
      BY ZenonT(30), <1>2, <2>1, <2>5, <3>2
    <3>5. /\ prod'.target \in Nat /\ prod'.part \in Nat /\ prod'.sticky \in Nat
          /\ prod'.counter \in Nat
      BY <2>4, <2>5, <3>2
    <3>6. Routing(prod')
      BY <3>2, <3>3, <3>4, <3>5, ZenonT(30) DEF Routing
    <3>7. GoodCache(prod')
      BY Zenon, <2>3, <2>5, <3>2 DEF GoodCache, CacheSays
    <3> QED
      BY Zenon, <3>6, <3>7
  <2> QED
    BY Zenon, <2>6, <2>7
<1> QED
  BY <1>3, <1>4, Zenon DEF Send

\* an attempt calls for a partition that is a number,
LEMMA AttemptIsQuiet ==
  ASSUME Shaped, Routing(prod), up \subseteq Brokers, Attempt
  PROVE  Quiet /\ Routing(prod')
<1>0. /\ DOMAIN prod = ProducerFields /\ prod.part \in Nat /\ prod.target \in Nat
  BY Zenon DEF Routing
<1>1. UNCHANGED <<topics, disk, thread, created>>
  BY Zenon DEF Attempt, disks, history
<1>2. ASSUME prod' = Failed(prod) PROVE Routing(prod') /\ GoodCache(prod')
  <2>1. /\ DOMAIN prod' = ProducerFields /\ prod'.next = prod.next /\ prod'.left = prod.left
        /\ prod'.sticky = prod.sticky /\ prod'.counter = prod.counter
        /\ prod'.target = prod.target /\ prod'.part = 0 /\ prod'.held = <<>>
        /\ prod'.cache = prod.cache
    BY Zenon, <1>0, <1>2, FailedFields
  <2>2. Routing(prod')
    BY <1>0, <2>1, RoutingKept
  <2>3. GoodCache(prod')
    BY Zenon, <2>1, CacheKept
  <2> QED
    BY Zenon, <2>2, <2>3
<1>3. ASSUME NEW cache, cache = prod.cache \/ cache \in CacheForLeader(prod.cache),
             \/ prod' = [prod EXCEPT !.pc = "wait", !.cache = cache]
             \/ prod' = [prod EXCEPT !.attempt = @ + 1, !.cache = cache]
      PROVE  Routing(prod') /\ GoodCache(prod')
  <2>1. /\ DOMAIN prod' = ProducerFields /\ prod'.next = prod.next /\ prod'.left = prod.left
        /\ prod'.sticky = prod.sticky /\ prod'.counter = prod.counter
        /\ prod'.target = prod.target /\ prod'.part = prod.part /\ prod'.held = prod.held
        /\ prod'.cache = cache
    BY Zenon, <1>0, <1>3 DEF ProducerFields
  <2>2. Routing(prod')
    BY Zenon, <1>0, <2>1, RoutingKept
  <2>3. cache # Unknown => cache = prod.cache \/ Says(Topic, cache)
    BY Zenon, <1>3, CacheKnown
  <2>4. GoodCache(prod')
    BY Zenon, <2>1, <2>3, CacheKept
  <2> QED
    BY Zenon, <2>2, <2>4
<1>4. ASSUME prod' = [prod EXCEPT !.attempt = @ + 1] PROVE Routing(prod') /\ GoodCache(prod')
  <2>1. /\ DOMAIN prod' = ProducerFields /\ prod'.next = prod.next /\ prod'.left = prod.left
        /\ prod'.sticky = prod.sticky /\ prod'.counter = prod.counter
        /\ prod'.target = prod.target /\ prod'.part = prod.part /\ prod'.held = prod.held
        /\ prod'.cache = prod.cache
    BY Zenon, <1>0, <1>4 DEF ProducerFields
  <2>2. Routing(prod')
    BY Zenon, <1>0, <2>1, RoutingKept
  <2>3. GoodCache(prod')
    BY Zenon, <2>1, CacheKept
  <2> QED
    BY Zenon, <2>2, <2>3
<1>5. (prod' = Failed(prod)) \/ (prod' = [prod EXCEPT !.attempt = @ + 1])
      \/ \E cache \in CacheForLeader(prod.cache) :
           \/ prod' = [prod EXCEPT !.pc = "wait", !.cache = cache]
           \/ prod' = [prod EXCEPT !.attempt = @ + 1, !.cache = cache]
  BY Zenon DEF Attempt
<1>6. Routing(prod') /\ GoodCache(prod')
  <2>1. CASE \E cache \in CacheForLeader(prod.cache) :
               \/ prod' = [prod EXCEPT !.pc = "wait", !.cache = cache]
               \/ prod' = [prod EXCEPT !.attempt = @ + 1, !.cache = cache]
    BY <1>3, <2>1, Zenon
  <2> QED
    BY Zenon, <1>2, <1>4, <1>5, <2>1
<1>7. GoodQueues(inbox')
  <2>1. CASE inbox' = inbox
    BY Zenon, <2>1, GoodNow
  <2>2. ASSUME NEW b \in up, Call(ProducerClient, b, ProduceRequest(prod)) PROVE GoodQueues(inbox')
    <3>1. PICK req : req = ProduceRequest(prod)
      BY Zenon
    <3>2. /\ DOMAIN req = RequestFields /\ req.kind = "produce" /\ req.count = 0 /\ req.rf = 0
          /\ req.part = prod.part /\ req.pushed = FALSE
      BY Zenon, <3>1 DEF ProduceRequest, NoRequest, RequestFields
    <3>3. RequestShape(req)
      BY <1>0, <3>2 DEF RequestShape
    <3>4. KnownRequest(req)
      BY Zenon, <3>2, AskingSaysNothing
    <3>5. PICK caller : caller = ProducerClient
      BY Zenon
    <3>6. b \in Brokers /\ Call(caller, b, req)
      BY Zenon, <2>2, <3>1, <3>5
    <3> QED
      BY Zenon, <3>3, <3>4, <3>6, CallQueues
  <2> QED
    BY <2>1, <2>2, Zenon DEF Attempt
<1> QED
  BY Zenon, <1>1, <1>6, <1>7, ClientIsQuiet

\* and an answer leaves the producer with the descriptor it had, or with none.
LEMMA AnsweredIsQuiet ==
  ASSUME Shaped, Routing(prod), Answered
  PROVE  Quiet /\ Routing(prod')
<1> DEFINE code == reply[ProducerClient]
           again == [prod EXCEPT !.pc = "attempt", !.attempt = @ + 1,
                                 !.cache = IF code = "unavailable" THEN @ ELSE Unknown]
           gone == IF code = "closed" THEN [prod EXCEPT !.cache = Unknown] ELSE prod
           done == IF prod.held = <<>> THEN Failed(prod)
                   ELSE Buffered(prod, prod.held[1], prod.held[2])
<1>0. /\ DOMAIN prod = ProducerFields /\ prod.part \in Nat /\ prod.target \in Nat
      /\ prod.held # <<>> => prod.held[2] \in Nat
  BY Zenon DEF Routing
<1>1. UNCHANGED <<topics, disk, inbox, thread, created>>
  BY Zenon DEF Answered, disks, history
<1>2. prod' = CASE code = "ok" -> done
                [] code \in {"timeout", "unavailable", "not_leader"} -> again
                [] OTHER -> Failed(gone)
  BY Zenon DEF Answered
<1>3. \/ prod' = again
      \/ \E q : prod' = Failed(q) /\ (q = prod \/ q = [prod EXCEPT !.cache = Unknown])
      \/ prod.held # <<>> /\ prod' = Buffered(prod, prod.held[1], prod.held[2])
  BY <1>2, Zenon
<1>4. ASSUME prod' = again PROVE Routing(prod') /\ GoodCache(prod')
  <2>1. PICK cache : cache = IF code = "unavailable" THEN prod.cache ELSE Unknown
    BY Zenon
  <2>2. prod' = [prod EXCEPT !.pc = "attempt", !.attempt = @ + 1, !.cache = cache]
    BY Zenon, <1>4, <2>1
  <2>3. /\ DOMAIN prod' = ProducerFields /\ prod'.next = prod.next /\ prod'.left = prod.left
        /\ prod'.sticky = prod.sticky /\ prod'.counter = prod.counter
        /\ prod'.target = prod.target /\ prod'.part = prod.part /\ prod'.held = prod.held
        /\ prod'.cache = cache
    BY Zenon, <1>0, <2>2 DEF ProducerFields
  <2>4. Routing(prod')
    BY Zenon, <1>0, <2>3, RoutingKept
  <2>5. cache # Unknown => cache = prod.cache
    BY <2>1, Zenon
  <2>6. GoodCache(prod')
    BY Zenon, <2>3, <2>5, CacheKept
  <2> QED
    BY Zenon, <2>4, <2>6
<1>5. ASSUME NEW q, prod' = Failed(q), q = prod \/ q = [prod EXCEPT !.cache = Unknown]
      PROVE  Routing(prod') /\ GoodCache(prod')
  <2>1. /\ DOMAIN q = ProducerFields /\ q.next = prod.next /\ q.left = prod.left
        /\ q.sticky = prod.sticky /\ q.counter = prod.counter /\ q.target = prod.target
        /\ q.cache = prod.cache \/ q.cache = Unknown
    BY Zenon, <1>0, <1>5 DEF ProducerFields
  <2>2. /\ DOMAIN prod' = ProducerFields /\ prod'.next = q.next /\ prod'.left = q.left
        /\ prod'.sticky = q.sticky /\ prod'.counter = q.counter
        /\ prod'.target = q.target /\ prod'.part = 0 /\ prod'.held = <<>>
        /\ prod'.cache = q.cache
    BY <1>5, <2>1, FailedFields
  <2>3. Routing(prod')
    BY <1>0, <2>1, <2>2, RoutingKept
  <2>4. GoodCache(prod')
    BY ZenonT(30), <2>1, <2>2, CacheKept
  <2> QED
    BY Zenon, <2>3, <2>4
<1>6. ASSUME prod.held # <<>>, prod' = Buffered(prod, prod.held[1], prod.held[2])
      PROVE  Routing(prod') /\ GoodCache(prod')
  <2>1. PICK record : record = prod.held[1]
    BY Zenon
  <2>2. PICK part : part = prod.held[2]
    BY Zenon
  <2>3. part \in Nat /\ prod' = Buffered(prod, record, part)
    BY Zenon, <1>0, <1>6, <2>1, <2>2
  <2>4. /\ DOMAIN prod' = ProducerFields /\ prod'.next = prod.next /\ prod'.held = <<>>
        /\ prod'.target = part /\ prod'.part \in {0, part} /\ prod'.left = prod.left
        /\ prod'.cache = prod.cache /\ prod'.sticky = prod.sticky /\ prod'.counter = prod.counter
    BY <1>0, <2>3, BufferedFields
  <2>5. prod'.part \in Nat /\ prod'.target \in Nat
    BY <2>3, <2>4
  <2>6. Routing(prod')
    BY Zenon, <1>0, <2>4, <2>5, RoutingKept
  <2>7. GoodCache(prod')
    BY Zenon, <2>4, CacheKept
  <2> QED
    BY Zenon, <2>6, <2>7
<1>7. GoodQueues(inbox')
  BY Zenon, <1>1, GoodNow
<1> HIDE DEF again
<1>8. Routing(prod') /\ GoodCache(prod')
  BY <1>3, <1>4, <1>5, <1>6, Zenon
<1> QED
  BY Zenon, <1>1, <1>7, <1>8, ClientIsQuiet

\* Flush keeps the cache; the administrator's requests were pushed by nobody.
LEMMA OthersAreQuiet ==
  ASSUME Shaped, Routing(prod), up \subseteq Brokers, Flush \/ AdminCall \/ AdminAnswered
  PROVE  Quiet /\ Routing(prod')
<1>1. UNCHANGED <<topics, disk, thread, created>>
  BY Zenon DEF Flush, AdminCall, AdminAnswered, clusterVars, disks, history
<1>2. CASE Flush
  <2>1. prod' = Flushing(prod) /\ UNCHANGED inbox
    BY <1>2, Zenon DEF Flush, clusterVars, calls
  <2>2. DOMAIN prod = ProducerFields /\ prod.target \in Nat /\ prod.part \in Nat
    BY Zenon DEF Routing
  <2>3. /\ DOMAIN prod' = ProducerFields /\ prod'.next = prod.next /\ prod'.left = prod.left
        /\ prod'.sticky = prod.sticky /\ prod'.counter = prod.counter
        /\ prod'.target = prod.target /\ prod'.part = prod.target /\ prod'.held = prod.held
        /\ prod'.cache = prod.cache
    BY ZenonT(30), <2>1, <2>2, FlushingFields
  <2>4. Routing(prod')
    BY Zenon, <2>2, <2>3, RoutingKept
  <2>5. GoodCache(prod')
    BY Zenon, <2>3, CacheKept
  <2>6. GoodQueues(inbox')
    BY Zenon, <2>1, GoodNow
  <2> QED
    BY Zenon, <1>1, <2>4, <2>5, <2>6, ClientIsQuiet
<1>3. CASE AdminCall
  <2>1. UNCHANGED prod
    BY <1>3, Zenon DEF AdminCall
  <2>2. PICK b \in up, req \in AdminCalls : Call(AdminClient, b, req)
    BY <1>3, Zenon DEF AdminCall, AnyBroker
  <2>3. DOMAIN NoRequest = RequestFields
    BY Zenon DEF NoRequest, RequestFields
  <2>4. RequestShape(req)
    BY Zenon, <2>2, <2>3, AdminAssumption DEF RequestShape
  <2>5. KnownRequest(req)
    BY Zenon, <2>2, AdminAssumption, AskingSaysNothing
  <2>6. PICK caller : caller = AdminClient
    BY Zenon
  <2>7. b \in Brokers /\ Call(caller, b, req)
    BY Zenon, <2>2, <2>6
  <2>8. GoodQueues(inbox')
    BY Zenon, <2>4, <2>5, <2>7, CallQueues
  <2>9. GoodCache(prod')
    BY Zenon, <2>1, GoodNow
  <2>10. Quiet
    BY Zenon, <1>1, <2>8, <2>9, ClientIsQuiet
  <2> QED
    BY Zenon, <2>1, <2>10
<1>4. CASE AdminAnswered
  <2>1. UNCHANGED <<inbox, prod>>
    BY <1>4, Zenon DEF AdminAnswered
  <2>2. GoodQueues(inbox') /\ GoodCache(prod')
    BY Zenon, <2>1, GoodNow
  <2>3. Quiet
    BY Zenon, <1>1, <2>2, ClientIsQuiet
  <2> QED
    BY Zenon, <2>1, <2>3
<1> QED
  BY Zenon, <1>2, <1>3, <1>4

\* Which brokers run, and what there is of the temporary files.
Running == up \subseteq Brokers /\ TempShaped

\* Every step leaves it so.
LEMMA RunningKept ==
  ASSUME Running, [Next]_vars
  PROVE  Running'
<1>1. UNCHANGED up \/ \E b \in Brokers : up' = up \ {b} \/ up' = up \cup {b}
  <2>1. ASSUME NEW b \in Brokers, NEW w \in Threads, ThreadStep(b, w) PROVE UNCHANGED up
    BY <2>1, Zenon DEF ThreadStep, Create, OpenLog, Emplace,
       Done, SaveOpen, SaveWrite, SaveRename, Push, Pushed, Forward, Forwarded, Reconcile, Adopt,
       Upsert, GetTopic, Take, Resolve, RemoveData, Forget, Deleted
  <2>2. ASSUME ClientStep \/ (\E c \in Callers : Timeout(c)) \/ UNCHANGED vars PROVE UNCHANGED up
    BY <2>2, Zenon DEF ClientStep, vars, clusterVars, Timeout, Send, Flush, Attempt, Answered,
       AdminCall, AdminAnswered
  <2>3. ASSUME NEW b \in Brokers, Kill(b) \/ Restart(b) PROVE up' = up \ {b} \/ up' = up \cup {b}
    BY <2>3, Zenon DEF Kill, Restart
  <2> QED
    BY <2>1, <2>2, <2>3, Zenon DEF Next, BrokerStep
<1>2. UNCHANGED temp \/ \E b \in Brokers, file \in {"none", "empty", "full"} :
                          temp' = [temp EXCEPT ![b] = file]
  <2>1. ASSUME NEW b \in Brokers, NEW w \in Threads, ThreadStep(b, w)
        PROVE  UNCHANGED temp \/ \E file \in {"none", "empty", "full"} :
                                   temp' = [temp EXCEPT ![b] = file]
    BY <2>1, Zenon DEF ThreadStep, disks, Create, OpenLog, Emplace,
       Done, SaveOpen, SaveWrite, SaveRename, Push, Pushed, Forward, Forwarded, Reconcile, Adopt,
       Upsert, GetTopic, Take, Resolve, RemoveData, Forget, Deleted
  <2>2. ASSUME ~\E b \in Brokers, w \in Threads : ThreadStep(b, w)
        PROVE  UNCHANGED temp
    BY <2>2, Zenon DEF Next, BrokerStep, ClientStep, vars, clusterVars, disks, Timeout, Kill,
       Restart, Send, Flush, Attempt, Answered, AdminCall, AdminAnswered
  <2> QED
    BY <2>1, <2>2, Zenon
<1>3. up' \subseteq Brokers
  BY Zenon, <1>1 DEF Running
<1>4. TempShaped'
  BY Zenon, <1>2 DEF Running, TempShaped
<1> QED
  BY Zenon, <1>3, <1>4 DEF Running

\* The steps of the brokers keep what was agreed on.
LEMMA BrokersAgree ==
  ASSUME Running, PlacementInv, BrokerStep, UNCHANGED prod
  PROVE  PlacementInv'
<1>0. Agreed /\ Shaped /\ Routing(prod) /\ up \subseteq Brokers /\ TempShaped
  BY Zenon DEF Running, PlacementInv
<1>1. SUFFICES Agreed' /\ Shaped'
  BY Zenon, <1>0, <1>1 DEF PlacementInv
<1>2. ASSUME Quiet PROVE Agreed' /\ Shaped'
  BY Zenon, <1>0, <1>2, QuietAgrees DEF Quiet
<1>3. ASSUME NEW b \in Brokers, NEW w \in Threads, ThreadStep(b, w) PROVE Agreed' /\ Shaped'
  <2>1. CASE Create(b, w)
    BY Zenon, <1>0, <2>1, CreateAgrees
  <2>2. CASE OpenLog(b, w) \/ Emplace(b, w)
    BY Zenon, <1>0, <1>2, <2>2, OpeningIsQuiet
  <2>3. CASE Done(b, w) \/ GetTopic(b, w) \/ Deleted(b, w)
    BY ZenonT(30), <1>0, <1>2, <2>3, EndsAreQuiet
  <2>4. CASE SaveOpen(b, w) \/ SaveWrite(b, w)
    BY Zenon, <1>0, <1>2, <2>4, SavingIsQuiet
  <2>5. CASE SaveRename(b, w)
    BY Zenon, <1>0, <1>2, <2>5, SaveRenameIsQuiet
  <2>6. CASE Push(b, w) \/ Pushed(b, w)
    BY Zenon, <1>0, <1>2, <2>6, PushIsQuiet
  <2>7. CASE Forward(b, w) \/ Forwarded(b, w)
    BY Zenon, <1>0, <1>2, <2>7, ForwardIsQuiet
  <2>8. CASE Reconcile(b, w)
    BY Zenon, <1>0, <1>2, <2>8, ReconcileIsQuiet
  <2>9. CASE Adopt(b, w)
    BY Zenon, <1>0, <1>2, <2>9, AdoptIsQuiet
  <2>10. CASE Upsert(b, w)
    BY ZenonT(30), <1>0, <1>2, <2>10, UpsertIsQuiet
  <2>11. CASE Take(b, w)
    BY Zenon, <1>0, <1>2, <2>11, TakeIsQuiet
  <2>12. CASE Resolve(b, w)
    BY Zenon, <1>0, <1>2, <2>12, ResolveIsQuiet
  <2>13. CASE RemoveData(b, w) \/ Forget(b, w)
    BY Zenon, <1>0, <1>2, <2>13, ForgetIsQuiet
  <2> QED
    BY ZenonT(30), <1>3, <2>1, <2>2, <2>3, <2>4, <2>5, <2>6, <2>7, <2>8, <2>9, <2>10, <2>11, <2>12, <2>13
       DEF ThreadStep
<1>4. ASSUME NEW c \in Callers, Timeout(c) PROVE Agreed' /\ Shaped'
  BY Zenon, <1>0, <1>2, <1>4, TimeoutIsQuiet
<1>5. ASSUME NEW b \in Brokers, Kill(b) \/ Restart(b) PROVE Agreed' /\ Shaped'
  BY Zenon, <1>0, <1>2, <1>5, KillIsQuiet, RestartIsQuiet
<1> QED
  BY <1>3, <1>4, <1>5, Zenon DEF BrokerStep

\* So do the steps of the clients.
LEMMA ClientsAgree ==
  ASSUME Running, PlacementInv, ClientStep
  PROVE  PlacementInv'
<1>0. Agreed /\ Shaped /\ Routing(prod) /\ up \subseteq Brokers
  BY Zenon DEF Running, PlacementInv
<1>1. Quiet /\ Routing(prod')
  <2>1. CASE Send
    <3>1. UNCHANGED <<topics, disk, thread, created, inbox>>
      BY <2>1, Zenon DEF Send, clusterVars, disks, calls, history
    <3>2. Routing(prod') /\ GoodCache(prod')
      BY Zenon, <1>0, <2>1, SendRoutes
    <3>3. GoodQueues(inbox')
      BY Zenon, <1>0, <3>1, GoodNow
    <3> QED
      BY Zenon, <1>0, <3>1, <3>2, <3>3, ClientIsQuiet
  <2>2. CASE Attempt
    BY Zenon, <1>0, <2>2, AttemptIsQuiet
  <2>3. CASE Answered
    BY Zenon, <1>0, <2>3, AnsweredIsQuiet
  <2>4. CASE Flush \/ AdminCall \/ AdminAnswered
    BY Zenon, <1>0, <2>4, OthersAreQuiet
  <2> QED
    BY Zenon, <2>1, <2>2, <2>3, <2>4 DEF ClientStep
<1> QED
  BY Zenon, <1>0, <1>1, QuietAgrees DEF Quiet, PlacementInv

\* At the start nothing stands anywhere.
LEMMA PlacementStarts ==
  ASSUME Init
  PROVE  Running /\ PlacementInv
<1>1. /\ up = Brokers /\ topics = [b \in Brokers |-> <<>>] /\ disk = [b \in Brokers |-> <<>>]
      /\ temp = [b \in Brokers |-> "none"]
      /\ inbox = [b \in Brokers |-> [w \in Workers |-> <<>>]]
      /\ thread = [b \in Brokers |-> [w \in Threads |-> IdleThread]]
      /\ created = [t \in Topics |-> 0]
  BY Zenon DEF Init, ClusterInit
<1>2. PICK budget \in Budgets : prod = [IdleProducer EXCEPT !.left = budget[1]]
  BY Zenon DEF Init
<1>3. Running
  BY Zenon, <1>1 DEF Running, TempShaped
<1>4. DOMAIN <<>> = 1..0 /\ 1..0 = {} /\ Len(<<>>) = 0
  OBVIOUS
<1>5. /\ DOMAIN IdleThread = ThreadFields /\ IdleThread.pc = "idle" /\ IdleThread.topic = ""
      /\ IdleThread.list = <<>> /\ IdleThread.job = NoRequest
  BY Zenon DEF IdleThread, ThreadFields
<1>6. /\ DOMAIN NoRequest = RequestFields /\ NoRequest.count = 0 /\ NoRequest.rf = 0
      /\ NoRequest.part = 0 /\ NoRequest.pushed = FALSE /\ NoRequest.kind = "none"
  BY Zenon DEF NoRequest, RequestFields
<1>7. RequestShape(NoRequest)
  BY <1>6 DEF RequestShape
<1>8. ASSUME NEW b PROVE ThreadShape(b, IdleThread)
  BY Zenon, <1>5, <1>7 DEF ThreadShape
<1>9. QueueShape(<<>>)
  BY Zenon, <1>4 DEF QueueShape
<1>10. Shaped
  BY Zenon, <1>1, <1>8, <1>9 DEF Shaped
<1>11. ASSUME NEW t \in Topics, NEW d, Says(t, d) PROVE FALSE
  <2>1. ~TableSays(<<>>, t, d)
    BY Zenon, <1>4 DEF TableSays
  <2>2. ~RequestSays(NoRequest, t, d)
    BY Zenon, <1>6 DEF RequestSays
  <2>3. t # ""
    BY Zenon, ClusterAssumption
  <2>4. ~ThreadSays(IdleThread, t, d)
    BY Zenon, <1>5, <2>1, <2>2, <2>3 DEF ThreadSays
  <2>5. ~QueueSays(<<>>, t, d)
    BY Zenon, <1>4 DEF QueueSays
  <2>6. prod.cache = Unknown
    BY Zenon, <1>2 DEF IdleProducer
  <2>7. ~CacheSays(prod, t, d)
    BY Zenon, <2>6 DEF CacheSays
  <2> QED
    BY ZenonT(30), <1>1, <1>11, <2>1, <2>4, <2>5, <2>7 DEF Says
<1>12. Agreed
  BY Zenon, <1>1, <1>11 DEF Agreed
<1>13. Routing(prod)
  <2>1. budget[1] \in Nat /\ budget[1] <= Len(KeyHash)
    BY <1>2, RecordsAssumption
  <2>2. /\ DOMAIN prod = ProducerFields /\ prod.next = 0 /\ prod.left = budget[1]
        /\ prod.target = 0 /\ prod.part = 0 /\ prod.sticky = 0 /\ prod.counter = 0
        /\ prod.held = <<>>
    BY Zenon, <1>2 DEF IdleProducer, ProducerFields
  <2> QED
    BY <2>1, <2>2 DEF Routing
<1> QED
  BY Zenon, <1>3, <1>10, <1>12, <1>13 DEF PlacementInv

\* Two brokers that have a topic say the same of it.
LEMMA AgreedTables ==
  ASSUME PlacementInv
  PROVE  PlacementAgrees
<1>1. ASSUME NEW t \in Topics, NEW b \in Brokers, NEW c \in Brokers, created[t] <= 1,
             t \in DOMAIN topics[b], t \in DOMAIN topics[c]
      PROVE  topics[b][t] = topics[c][t]
  <2>1. Says(t, topics[b][t]) /\ Says(t, topics[c][t])
    BY Zenon, <1>1 DEF Says, TableSays
  <2> QED
    BY Zenon, <1>1, <2>1 DEF PlacementInv, Agreed
<1> QED
  BY Zenon, <1>1 DEF PlacementAgrees

\* Every step keeps the placements in agreement.
LEMMA PlacementKept ==
  ASSUME Running, PlacementInv, [Next]_vars
  PROVE  PlacementInv'
<1>1. CASE UNCHANGED vars
  <2>1. UNCHANGED <<topics, disk, thread, inbox, created, prod>>
    BY <1>1, Zenon DEF vars, clusterVars, disks, calls, history
  <2> QED
    <3>1. Shaped' /\ Routing(prod)'
      BY Zenon, <2>1 DEF PlacementInv, Shaped
    <3>2. \A t \in Topics : \A d : Says(t, d)' => Says(t, d)
      BY ZenonT(30), <2>1 DEF Says
    <3>3. Agreed'
      BY Zenon, <2>1, <3>1, <3>2, QuietAgrees DEF PlacementInv, Quiet
    <3> QED
      BY Zenon, <3>1, <3>3 DEF PlacementInv
<1>2. CASE BrokerStep /\ UNCHANGED prod
  BY Zenon, <1>2, BrokersAgree
<1>3. CASE ClientStep
  BY Zenon, <1>3, ClientsAgree
<1> QED
  BY <1>1, <1>2, <1>3, Zenon DEF Next

\* Brokers that know a topic agree on its partitions and their replicas as long as the
\* controller has created it once, whichever way it reached them: EnsureTopic,
\* BroadcastTopic, ReconcileMetadataFromController and LoadFrom, for any number of
\* brokers, topics, kills, restarts and timeouts.
THEOREM BrokersAgreeOnPlacement == Spec => []PlacementAgrees
<1>1. Init => Running /\ PlacementInv
  BY Zenon, PlacementStarts
<1>2. Running /\ [Next]_vars => Running'
  BY Zenon, RunningKept
<1>3. Running /\ PlacementInv /\ [Next]_vars => PlacementInv'
  BY Zenon, PlacementKept
<1>4. PlacementInv => PlacementAgrees
  BY Zenon, AgreedTables
<1> QED
  BY <1>1, <1>2, <1>3, <1>4, PTL DEF Spec
=============================================================================
