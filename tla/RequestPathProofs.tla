-------------------------- MODULE RequestPathProofs -------------------------
(***************************************************************************)
(* Proofs about RequestPath for any number of connections and requests and *)
(* for queues of any capacity: no wakeup of the loop is lost, requests are *)
(* executed in the order in which Submit accepted them, and the connection *)
(* count is that of the sockets held.                                      *)
(***************************************************************************)
EXTENDS RequestPath, FiniteSetTheorems, TLAPS

\* What a thread that is in PostTask carries; the main thread only wakes.
Posting ==
  /\ ppc["main"] \in {"idle", "exchange", "write"}
  /\ mpc \in {"running", "joinaccept"} => ppc["main"] = "idle"
  /\ ppc["acceptor"] # "idle" => posting["acceptor"] \in {"register"} \X Conns
  /\ ppc["worker"] # "idle" => posting["worker"] \in {"respond"} \X Requests
  /\ lpc = "submitpush" => current \in Requests

\* The worker's queue is what was routed and not executed yet, a place in it
\* is unpublished only while the loop is publishing it, and the worker stops
\* after the loop has exited.
Order ==
  /\ Len(routed) = Len(executed) + Len(queue)
  /\ \A i \in 1 .. Len(executed) : executed[i] = routed[i]
  /\ \A i \in 1 .. Len(queue) : queue[i].item = routed[Len(executed) + i]
  /\ \A i \in 1 .. Len(queue) : queue[i].by = "loop" => lpc = "submitpublish"
  /\ workerStopping => lpc = "exit"
  /\ wpc \in {"drain", "exit"} => workerStopping
  /\ wpc = "exit" => queue = <<>>

\* A pending wakeup is in one place: with the thread that is about to write,
\* in the descriptor, or with the loop that has read it and not yet cleared
\* the flag.
Token ==
  /\ wakePending <=> \/ wakeFd \/ lpc = "drainwakeup"
                     \/ \E t \in Posters : ppc[t] = "write"
  /\ wakeFd => lpc # "drainwakeup"
  /\ \A t \in Posters : ppc[t] = "write" => ~wakeFd /\ lpc # "drainwakeup"
  /\ \A s, t \in Posters : ppc[s] = "write" /\ ppc[t] = "write" => s = t
  /\ "wake" \in events => wakeFd \/ lpc = "drainwakeup"

\* Somebody has woken the loop or is about to.
Coming == wakePending \/ \E t \in Posters : ppc[t] \in {"publish", "exchange"}

\* Whoever has added a task the loop will not reach in this iteration wakes it.
Woken ==
  /\ \A i \in 1 .. Len(tasks) : tasks[i].by # "ready" => ppc[tasks[i].by] = "publish"
  /\ lpc \in {"top", "wait"} => tasks = <<>> \/ Coming
  /\ drained + Len(tasks) <= TaskCapacity \/ Coming
  /\ lpc \notin {"top", "tasks", "lasttasks", "exit"} => drained = 0
  /\ lpc = "wait" /\ loopStopping => wakePending \/ ppc["main"] = "exchange"

IInv == TypeOK /\ Posting /\ Order /\ Token /\ Woken
-----------------------------------------------------------------------------
\* A sequence is a function on its indices.
LEMMA SequenceShape ==
  ASSUME NEW S, NEW q \in Seq(S)
  PROVE  /\ q \in [1 .. Len(q) -> S] /\ Len(q) \in Nat /\ DOMAIN q = 1 .. Len(q)
         /\ \A i \in 1 .. Len(q) : q[i] \in S
<1>1. q \in [1 .. Len(q) -> S] /\ Len(q) \in Nat
  OBVIOUS
<1> QED
  BY Zenon, <1>1

\* What is left of a sequence without its first item.
LEMMA TailShape ==
  ASSUME NEW S, NEW q \in Seq(S), q # <<>>
  PROVE  /\ Head(q) \in S /\ Head(q) = q[1] /\ Tail(q) \in Seq(S)
         /\ Len(q) >= 1 /\ Len(Tail(q)) = Len(q) - 1
         /\ \A i \in 1 .. Len(q) - 1 : Tail(q)[i] = q[i + 1]
<1>1. \A i \in 1 .. Len(q) - 1 : Tail(q)[i] = q[i + 1]
  OBVIOUS
<1>2. Head(q) \in S /\ Head(q) = q[1] /\ Len(q) >= 1
  OBVIOUS
<1>3. Tail(q) \in Seq(S) /\ Len(Tail(q)) = Len(q) - 1
  OBVIOUS
<1> QED
  BY Zenon, <1>1, <1>2, <1>3

\* Claiming a place adds it at the end of a queue.
LEMMA ClaimPlace ==
  ASSUME NEW I, NEW B, NEW q \in Places(I, B), NEW t \in B, NEW x \in I
  PROVE  /\ Claim(q, t, x) \in Places(I, B)
         /\ Len(Claim(q, t, x)) = Len(q) + 1
         /\ \A i \in 1 .. Len(q) : Claim(q, t, x)[i] = q[i]
         /\ Claim(q, t, x)[Len(q) + 1].item = x
         /\ Claim(q, t, x)[Len(q) + 1].by = t
<1>1. [item |-> x, by |-> t] \in [item : I, by : B]
  BY Zenon
<1> QED
  BY <1>1 DEF Claim, Places

\* Publishing makes the places of a thread ready and leaves the items alone.
LEMMA PublishPlaces ==
  ASSUME NEW I, NEW B, NEW q \in Places(I, B), NEW t, "ready" \in B
  PROVE  /\ Publish(q, t) \in Places(I, B)
         /\ Len(Publish(q, t)) = Len(q)
         /\ \A i \in 1 .. Len(q) :
              /\ Publish(q, t)[i].item = q[i].item
              /\ Publish(q, t)[i].by = IF q[i].by = t THEN "ready" ELSE q[i].by
<1>1. q \in [1 .. Len(q) -> [item : I, by : B]] /\ Len(q) \in Nat /\ DOMAIN q = 1 .. Len(q)
  <2>1. q \in Seq([item : I, by : B])
    BY Zenon DEF Places
  <2> QED
    BY <2>1, SequenceShape, Zenon
<1>2. \A i \in 1 .. Len(q) : [q[i] EXCEPT !.by = "ready"] \in [item : I, by : B]
  BY Zenon, <1>1
<1>3. Publish(q, t) \in [1 .. Len(q) -> [item : I, by : B]]
  BY <1>1, <1>2, Zenon DEF Publish
<1>4. /\ Publish(q, t) \in Places(I, B) /\ Len(Publish(q, t)) = Len(q)
  BY SMTT(30), <1>1, <1>3 DEF Places
<1>5. ASSUME NEW i \in 1 .. Len(q)
      PROVE  /\ Publish(q, t)[i].item = q[i].item
             /\ Publish(q, t)[i].by = IF q[i].by = t THEN "ready" ELSE q[i].by
  <2>1. Publish(q, t)[i] = IF q[i].by = t THEN [q[i] EXCEPT !.by = "ready"] ELSE q[i]
    BY Zenon, <1>1 DEF Publish
  <2>2. q[i] \in [item : I, by : B]
    BY Zenon, <1>1
  <2> QED
    BY Zenon, <2>1, <2>2
<1> QED
  BY Zenon, <1>4, <1>5

\* Popping takes the first place away.
LEMMA PopPlace ==
  ASSUME NEW I, NEW B, NEW q \in Places(I, B), CanPop(q)
  PROVE  /\ Tail(q) \in Places(I, B)
         /\ Len(q) >= 1 /\ Len(Tail(q)) = Len(q) - 1
         /\ \A i \in 1 .. Len(q) - 1 : Tail(q)[i] = q[i + 1]
         /\ Head(q) = q[1] /\ q[1].by = "ready"
         /\ Head(q).item \in I
<1>1. q \in Seq([item : I, by : B]) /\ q # <<>> /\ Head(q).by = "ready"
  BY Zenon DEF Places, CanPop
<1>2. /\ Head(q) \in [item : I, by : B] /\ Head(q) = q[1] /\ Tail(q) \in Seq([item : I, by : B])
      /\ Len(q) >= 1 /\ Len(Tail(q)) = Len(q) - 1
      /\ \A i \in 1 .. Len(q) - 1 : Tail(q)[i] = q[i + 1]
  BY <1>1, TailShape, Zenon
<1>3. Head(q).item \in I
  BY Zenon, <1>2
<1> QED
  BY <1>1, <1>2, <1>3, Zenon DEF Places

-----------------------------------------------------------------------------
\* The variables keep their types initially.
LEMMA InitTypes == Init => TypeOK /\ Posting
<1> SUFFICES ASSUME Init PROVE TypeOK /\ Posting
  BY Zenon
<1>1. TypeOK
  <2>1. inbox \in [Conns -> Seq(Requests)]
    <3>1. <<>> \in Seq(Requests)
      OBVIOUS
    <3> QED
      BY <3>1, Zenon DEF Init
  <2>2. /\ executed \in Seq(Requests) /\ routed \in Seq(Requests)
        /\ tasks \in Places(Tasks, Posters \cup {"ready"}) /\ Len(tasks) = 0
        /\ queue \in Places(Requests, {"loop", "ready"}) /\ Len(queue) = 0
    BY DEF Init, Places
  <2>3. /\ posting \in [Posters -> Tasks \cup {<<>>}]
        /\ ppc \in [Posters -> PostPcs] /\ conn \in [Conns -> ConnStates]
        /\ outcome \in [Requests -> Outcomes]
    BY Zenon DEF Init, PostPcs, ConnStates, Outcomes
  <2> QED
    <3>1. /\ drained \in 0 .. TaskCapacity /\ Len(tasks) <= TaskCapacity
          /\ Len(queue) <= WorkerCapacity
      BY <2>2, CapacitiesAssumption DEF Init
    <3> QED
      BY <2>1, <2>2, <2>3, <3>1, ZenonT(30) DEF Init, TypeOK
<1>2. Posting
  BY Zenon DEF Init, Posting, Posters
<1> QED
  BY Zenon, <1>1, <1>2

\* The steps of the clients and of the acceptor keep the types.
LEMMA ClientTypes ==
  ASSUME TypeOK, Posting,
         \/ \E r \in Requests : SendRequest(r)
         \/ \E c \in Conns : HangUp(c) \/ AcceptConnection(c)
  PROVE  TypeOK' /\ Posting'
<1>1. ASSUME NEW r \in Requests, SendRequest(r) PROVE TypeOK' /\ Posting'
  <2>1. outcome' \in [Requests -> Outcomes]
    BY <1>1, Zenon DEF SendRequest, Settle, TypeOK, Outcomes
  <2>2. inbox' \in [Conns -> Seq(Requests)]
    BY SMTT(30), <1>1, RequestsAssumption DEF SendRequest, TypeOK
  <2> QED
    BY SMTT(30), <1>1, <2>1, <2>2
    DEF SendRequest, TypeOK, Posting, loopVars, wakeVars, postVars, sleepVars, stopVars
<1>2. ASSUME NEW c \in Conns, HangUp(c) PROVE TypeOK' /\ Posting'
  BY <1>2
  DEF HangUp, TypeOK, Posting, history, loopVars, wakeVars, postVars, sleepVars, stopVars
<1>3. ASSUME NEW c \in Conns, AcceptConnection(c) PROVE TypeOK' /\ Posting'
  <2>1. conn' \in [Conns -> ConnStates]
    BY <1>3, ZenonT(30) DEF AcceptConnection, TypeOK, ConnStates
  <2>3. /\ ppc' \in [Posters -> PostPcs]
        /\ posting' \in [Posters -> Tasks \cup {<<>>}]
    <3>1. <<"register", c>> \in Tasks
      BY Zenon DEF Tasks
    <3>2. PostTask("acceptor", <<"register", c>>) \/ (ppc' = ppc /\ posting' = posting)
      BY Zenon, <1>3 DEF AcceptConnection, postVars
    <3>3. CASE PostTask("acceptor", <<"register", c>>)
      BY <3>1, <3>3, Zenon DEF TypeOK, PostTask, PostPcs
    <3> QED
      BY <3>2, <3>3, Zenon DEF TypeOK
  <2>4. Posting'
    <3>1. lpc' = lpc /\ current' = current /\ mpc' = mpc
      BY Zenon, <1>3 DEF AcceptConnection, loopVars, stopVars
    <3>2. CASE ppc' = ppc /\ posting' = posting
      BY Zenon, <3>1, <3>2 DEF Posting
    <3>3. CASE PostTask("acceptor", <<"register", c>>)
      <4>1. ppc \in [Posters -> PostPcs] /\ posting \in [Posters -> Tasks \cup {<<>>}]
        BY Zenon DEF TypeOK
      <4>2. ppc'["main"] = ppc["main"] /\ ppc'["worker"] = ppc["worker"]
        BY <3>3, <4>1 DEF PostTask, Posters
      <4>3. posting'["acceptor"] = <<"register", c>> /\ posting'["worker"] = posting["worker"]
        BY <3>3, <4>1 DEF PostTask, Posters
      <4>4. posting'["acceptor"] \in {"register"} \X Conns
        BY <4>3
      <4> QED
        BY ZenonT(30), <3>1, <4>2, <4>3, <4>4 DEF Posting
    <3> QED
      BY ZenonT(30), <1>3, <3>2, <3>3 DEF AcceptConnection, postVars
  <2> QED
    BY SMTT(30), <1>3, <2>1, <2>3, <2>4
    DEF AcceptConnection, TypeOK, history, loopVars, wakeVars, sleepVars, stopVars
<1> QED
  BY ZenonT(30), <1>1, <1>2, <1>3

\* What is posted is a task, and the main thread posts none.
LEMMA Posted ==
  ASSUME TypeOK, Posting, NEW t \in Posters, ppc[t] \in {"check", "push", "publish"}
  PROVE  /\ t \in {"worker", "acceptor"}
         /\ posting[t] \in Tasks
         /\ t = "worker" => posting[t][2] \in Requests
         /\ t = "acceptor" => posting[t][1] = "register" /\ posting[t][2] \in Conns
<1>1. t \in {"worker", "acceptor"}
  BY Zenon DEF Posting, Posters
<1>2. CASE t = "worker"
  BY Zenon, <1>2 DEF Posting, Tasks
<1>3. CASE t = "acceptor"
  BY Zenon, <1>3 DEF Posting, Tasks
<1> QED
  BY Zenon, <1>1, <1>2, <1>3

\* A thread that returns from PostTask keeps the types.
LEMMA PostDoneTypes ==
  ASSUME TypeOK, Posting, NEW t \in Posters, PostDone(t)
  PROVE  /\ ppc' \in [Posters -> PostPcs] /\ posting' \in [Posters -> Tasks \cup {<<>>}]
         /\ \A s \in Posters : s # t => ppc'[s] = ppc[s] /\ posting'[s] = posting[s]
         /\ ppc'[t] = "idle"
BY Zenon DEF TypeOK, PostDone, PostPcs

\* PostTask and Wake keep the types.
LEMMA PostTypes ==
  ASSUME TypeOK, Posting, NEW t \in Posters, Post(t)
  PROVE  TypeOK' /\ Posting'
<1> USE DEF connVars, history, loopVars, wakeVars, sleepVars, stopVars
<1>0. tasks \in Places(Tasks, Posters \cup {"ready"})
  BY Zenon DEF TypeOK
<1> DEFINE Moves(there) == ppc' = [ppc EXCEPT ![t] = there] /\ posting' = posting
<1>1. ASSUME NEW there \in PostPcs, Moves(there)
      PROVE  /\ ppc' \in [Posters -> PostPcs] /\ posting' \in [Posters -> Tasks \cup {<<>>}]
             /\ \A s \in Posters : s # t => ppc'[s] = ppc[s]
             /\ ppc'[t] = there
  BY <1>1, ZenonT(30) DEF TypeOK
<1>2. ASSUME PostFails(t)
      PROVE  conn' \in [Conns -> ConnStates] /\ outcome' \in [Requests -> Outcomes]
  <2>1. conn' = conn \/ conn' = [conn EXCEPT ![posting[t][2]] = "closed"]
    BY Zenon, <1>2 DEF PostFails
  <2>2. outcome' = outcome \/ outcome' = [outcome EXCEPT ![posting[t][2]] = "dropped"]
    BY Zenon, <1>2 DEF PostFails, Settle
  <2> QED
    BY <2>1, <2>2, ZenonT(30) DEF TypeOK, ConnStates, Outcomes
<1>3. CASE PostCheck(t)
  <2>1. CASE PostFails(t)
    <3>1. Posting'
      BY ZenonT(30), <1>3, <2>1, PostDoneTypes DEF PostFails, Posting, PostCheck, Posters
    <3> QED
      BY SMTT(30), <1>2, <1>3, <2>1, <3>1, PostDoneTypes DEF PostFails, PostCheck, TypeOK
  <2>2. CASE Moves("push") /\ UNCHANGED <<outcome, conn, count>>
    <3>1. Posting'
      BY ZenonT(30), <1>1, <1>3, <2>2 DEF Posting, PostCheck, Posters, PostPcs
    <3> QED
      BY <1>1, <1>3, <2>2, <3>1 DEF PostCheck, TypeOK, PostPcs
  <2> QED
    BY Zenon, <1>3, <2>1, <2>2 DEF PostCheck
<1>4. CASE PostPush(t)
  <2>1. CASE PostFails(t) /\ UNCHANGED tasks
    <3>1. Posting'
      BY ZenonT(30), <1>4, <2>1, PostDoneTypes DEF PostFails, Posting, PostPush, Posters
    <3> QED
      BY SMTT(30), <1>2, <1>4, <2>1, <3>1, PostDoneTypes DEF PostFails, PostPush, TypeOK
  <2>2. CASE /\ Moves("publish") /\ UNCHANGED <<outcome, conn, count>>
             /\ Len(tasks) < TaskCapacity /\ tasks' = Claim(tasks, t, posting[t])
    <3>1. Posting'
      BY ZenonT(30), <1>1, <1>4, <2>2 DEF Posting, PostPush, Posters, PostPcs
    <3>2. tasks' \in Places(Tasks, Posters \cup {"ready"}) /\ Len(tasks') = Len(tasks) + 1
      <4>1. t \in Posters \cup {"ready"} /\ posting[t] \in Tasks
        BY ZenonT(30), <1>4, Posted DEF PostPush
      <4>2. /\ Claim(tasks, t, posting[t]) \in Places(Tasks, Posters \cup {"ready"})
            /\ Len(Claim(tasks, t, posting[t])) = Len(tasks) + 1
        BY SMTT(30), <1>0, <4>1, ClaimPlace
      <4> QED
        BY ZenonT(30), <2>2, <4>2
    <3>3. Len(tasks') <= TaskCapacity
      BY SMTT(30), <2>2, <3>2, CapacitiesAssumption DEF TypeOK, Places
    <3> QED
      BY SMTT(30), <1>1, <1>4, <2>2, <3>1, <3>2, <3>3 DEF PostPush, TypeOK, PostPcs
  <2> QED
    BY ZenonT(30), <1>4, <2>1, <2>2 DEF PostPush
<1>5. CASE PostPublish(t)
  <2>1. Moves("exchange")
    BY Zenon, <1>5 DEF PostPublish
  <2>2. tasks' \in Places(Tasks, Posters \cup {"ready"}) /\ Len(tasks') = Len(tasks)
    <3>1. "ready" \in Posters \cup {"ready"}
      BY ZenonT(30)
    <3>2. /\ Publish(tasks, t) \in Places(Tasks, Posters \cup {"ready"})
          /\ Len(Publish(tasks, t)) = Len(tasks)
      BY <1>0, <3>1, PublishPlaces
    <3> QED
      BY Zenon, <1>5, <3>2 DEF PostPublish
  <2>3. Posting'
    BY Zenon, <1>1, <1>5, <2>1 DEF Posting, PostPublish, Posters, PostPcs
  <2> QED
    BY SMTT(30), <1>1, <1>5, <2>1, <2>2, <2>3 DEF PostPublish, TypeOK, PostPcs
<1>6. CASE WakeExchange(t)
  <2>1. CASE PostDone(t)
    <3>1. Posting'
      BY SMTT(30), <1>6, <2>1, PostDoneTypes DEF Posting, WakeExchange, Posters
    <3> QED
      BY SMTT(30), <1>6, <2>1, <3>1, PostDoneTypes DEF WakeExchange, TypeOK
  <2>2. CASE Moves("write")
    <3>1. Posting'
      BY SMTT(30), <1>1, <1>6, <2>2 DEF Posting, WakeExchange, Posters, PostPcs
    <3> QED
      BY SMTT(30), <1>1, <1>6, <2>2, <3>1 DEF WakeExchange, TypeOK, PostPcs
  <2> QED
    BY ZenonT(30), <1>6, <2>1, <2>2 DEF WakeExchange
<1>7. CASE WakeWrite(t)
  <2>1. Posting'
    BY <1>7, PostDoneTypes DEF Posting, WakeWrite, Posters
  <2> QED
    BY SMTT(30), <1>7, <2>1, PostDoneTypes DEF WakeWrite, TypeOK
<1> QED
  BY ZenonT(30), <1>3, <1>4, <1>5, <1>6, <1>7 DEF Post

\* The loop keeps the types.
LEMMA LoopTypes ==
  ASSUME TypeOK, Posting, Loop
  PROVE  TypeOK' /\ Posting'
<1> USE DEF connVars, history, wakeVars, postVars, sleepVars, stopVars
<1>0. /\ tasks \in Places(Tasks, Posters \cup {"ready"})
      /\ queue \in Places(Requests, {"loop", "ready"})
      /\ \A c \in Conns : inbox[c] # <<>> =>
           Head(inbox[c]) \in Requests /\ Tail(inbox[c]) \in Seq(Requests)
  BY DEF TypeOK
<1>1. ASSUME NEW r, NEW how \in Outcomes, Settle(r, how) PROVE outcome' \in [Requests -> Outcomes]
  BY <1>1, Zenon DEF Settle, TypeOK
<1>2. CASE LoopTop \/ PollWait \/ DrainWakeup \/ WakeupDrained
  <2>1. CASE LoopTop
    BY SMTT(30), <2>1, CapacitiesAssumption DEF LoopTop, TypeOK, Posting
  <2>2. CASE PollWait
    BY SMTT(30), <2>2 DEF PollWait, Dispatch, ReadyEvents, TypeOK, Posting
  <2>3. CASE DrainWakeup
    <3>1. wakeFd' \in BOOLEAN
      BY <2>3, ZenonT(30) DEF DrainWakeup, TypeOK
    <3> QED
      BY <2>3, <3>1 DEF DrainWakeup, TypeOK, Posting
  <2>4. CASE WakeupDrained
    <3>1. wakePending' \in BOOLEAN
      BY <2>4, ZenonT(30) DEF WakeupDrained, Dispatch, TypeOK
    <3> QED
      BY SMTT(30), <2>4, <3>1 DEF WakeupDrained, Dispatch, TypeOK, Posting
  <2> QED
    BY ZenonT(30), <1>2, <2>1, <2>2, <2>3, <2>4
<1>3. ASSUME NEW c \in Conns, OnFrame(c) PROVE TypeOK' /\ Posting'
  <2>1. Head(inbox[c]) \in Requests /\ inbox' \in [Conns -> Seq(Requests)]
    BY <1>0, <1>3, Zenon DEF OnFrame, TypeOK
  <2>2. outcome' \in [Requests -> Outcomes]
    BY ZenonT(30), <1>1, <1>3 DEF OnFrame, Outcomes
  <2> QED
    BY SMTT(30), <1>3, <2>1, <2>2 DEF OnFrame, TypeOK, Posting
<1>4. ASSUME NEW c \in Conns, ReadDone(c) PROVE TypeOK' /\ Posting'
  <2>1. conn' \in [Conns -> ConnStates]
    BY <1>4, ZenonT(30) DEF ReadDone, TypeOK, ConnStates
  <2> QED
    BY <1>4, <2>1 DEF ReadDone, Dispatch, TypeOK, Posting
<1>5. CASE DrainTasks
  <2>1. conn' \in [Conns -> ConnStates] /\ outcome' \in [Requests -> Outcomes]
    <3>1. conn' = conn \/ conn' = [conn EXCEPT ![Head(tasks).item[2]] = "open"]
      BY Zenon, <1>5 DEF DrainTasks, RunTask
    <3>2. outcome' \in [Requests -> Outcomes]
      BY Zenon, <1>1, <1>5 DEF DrainTasks, RunTask, Outcomes, TypeOK
    <3> QED
      BY <3>1, <3>2, Zenon DEF TypeOK, ConnStates
  <2>2. tasks' \in Places(Tasks, Posters \cup {"ready"}) /\ Len(tasks') = Len(tasks) - 1
    <3>1. CanPop(tasks) /\ tasks' = Tail(tasks)
      BY ZenonT(30), <1>5 DEF DrainTasks
    <3> QED
      BY ZenonT(30), <1>0, <3>1, PopPlace
  <2>3. Len(tasks') <= TaskCapacity /\ drained' \in 0 .. TaskCapacity
    BY SMTT(30), <1>5, <2>2, CapacitiesAssumption DEF DrainTasks, TypeOK, Places
  <2> QED
    BY SMTT(30), <1>5, <2>1, <2>2, <2>3 DEF DrainTasks, TypeOK, Posting
<1>6. CASE ProcessPendingCloses
  <2>1. conn' \in [Conns -> ConnStates] /\ registry' \subseteq Conns
    BY Zenon, <1>6 DEF ProcessPendingCloses, TypeOK, ConnStates
  <2> QED
    BY <1>6, <2>1 DEF ProcessPendingCloses, TypeOK, Posting
<1>7. CASE SubmitPush
  <2>1. current \in Requests /\ outcome' \in [Requests -> Outcomes]
    BY ZenonT(30), <1>1, <1>7 DEF SubmitPush, Refused, Posting, Outcomes
  <2>2. CASE Len(queue) >= WorkerCapacity
    BY SMTT(30), <1>7, <2>1, <2>2 DEF SubmitPush, Refused, TypeOK, Posting
  <2>3. CASE ~(Len(queue) >= WorkerCapacity)
    <3>1. queue' \in Places(Requests, {"loop", "ready"}) /\ Len(queue') = Len(queue) + 1
      <4>1. "loop" \in {"loop", "ready"} /\ queue' = Claim(queue, "loop", current)
        BY Zenon, <1>7, <2>3 DEF SubmitPush
      <4>2. /\ Claim(queue, "loop", current) \in Places(Requests, {"loop", "ready"})
            /\ Len(Claim(queue, "loop", current)) = Len(queue) + 1
        BY SMTT(30), <1>0, <2>1, <4>1, ClaimPlace
      <4> QED
        BY Zenon, <4>1, <4>2
    <3>2. Len(queue') <= WorkerCapacity
      BY SMTT(30), <2>3, <3>1, CapacitiesAssumption DEF TypeOK, Places
    <3>3. routed' \in Seq(Requests)
      <4>1. routed \in Seq(Requests) /\ routed' = Append(routed, current)
        BY ZenonT(30), <1>7, <2>3 DEF SubmitPush, TypeOK
      <4> QED
        BY <2>1, <4>1
    <3>4. TypeOK'
      BY SMTT(30), <1>7, <2>1, <2>3, <3>1, <3>2, <3>3 DEF SubmitPush, TypeOK
    <3> QED
      BY Zenon, <1>7, <2>3, <3>4 DEF SubmitPush, Posting
  <2> QED
    BY Zenon, <2>2, <2>3
<1>8. CASE SubmitPublish
  <2>1. queue' \in Places(Requests, {"loop", "ready"}) /\ Len(queue') = Len(queue)
    BY <1>8, PublishPlaces DEF SubmitPublish, TypeOK
  <2> QED
    BY SMTT(30), <1>8, <2>1 DEF SubmitPublish, TypeOK, Posting
<1>9. CASE SubmitWake \/ SubmitNotify
  <2>1. CASE SubmitWake
    BY SMTT(30), <2>1 DEF SubmitWake, TypeOK, Posting
  <2>2. CASE SubmitNotify
    <3>1. notified' \in BOOLEAN
      BY <2>2, Zenon DEF SubmitNotify, Notify
    <3> QED
      BY SMTT(30), <2>2, <3>1 DEF SubmitNotify, Notify, TypeOK, Posting
  <2> QED
    BY ZenonT(30), <1>9, <2>1, <2>2
<1> QED
  BY ZenonT(30), <1>2, <1>3, <1>4, <1>5, <1>6, <1>7, <1>8, <1>9 DEF Loop

\* The worker and the thread that stops the broker keep the types.
LEMMA WorkerTypes ==
  ASSUME TypeOK, Posting, Worker \/ StopAccepting \/ Main
  PROVE  TypeOK' /\ Posting'
<1> USE DEF connVars, history, loopVars, wakeVars, postVars, sleepVars, stopVars
<1>0. queue \in Places(Requests, {"loop", "ready"})
  BY ZenonT(30) DEF TypeOK
<1>1. CASE Execute
  <2>1. /\ queue' \in Places(Requests, {"loop", "ready"}) /\ Len(queue') = Len(queue) - 1
        /\ Head(queue).item \in Requests
    <3>1. CanPop(queue) /\ queue' = Tail(queue)
      BY Zenon, <1>1 DEF Execute
    <3> QED
      BY Zenon, <1>0, <3>1, PopPlace
  <2>2. Head(queue).item \in Requests /\ <<"respond", Head(queue).item>> \in Tasks
    BY ZenonT(30), <2>1 DEF Tasks
  <2>3. executed' \in Seq(Requests) /\ Len(queue') <= WorkerCapacity
    BY <1>1, <2>1, <2>2, CapacitiesAssumption DEF Execute, TypeOK, Places
  <2>4. PostTask("worker", <<"respond", Head(queue).item>>)
    BY Zenon, <1>1 DEF Execute
  <2>5. ppc' \in [Posters -> PostPcs] /\ posting' \in [Posters -> Tasks \cup {<<>>}]
    BY <2>2, <2>4, ZenonT(30) DEF PostTask, TypeOK, PostPcs
  <2>6. Posting'
    BY SMTT(30), <1>1, <2>2, <2>4 DEF Execute, PostTask, Posting, Posters, TypeOK
  <2> QED
    BY SMTT(30), <1>1, <2>1, <2>3, <2>5, <2>6 DEF Execute, TypeOK
<1>2. CASE FoundEmpty \/ CheckStopping \/ FallAsleep
  <2>1. CASE FoundEmpty
    BY SMTT(30), <2>1 DEF FoundEmpty, TypeOK, Posting
  <2>2. CASE CheckStopping
    BY SMTT(30), <2>2 DEF CheckStopping, TypeOK, Posting
  <2>3. CASE FallAsleep
    BY SMTT(30), <2>3 DEF FallAsleep, TypeOK, Posting
  <2> QED
    BY ZenonT(30), <1>2, <2>1, <2>2, <2>3
<1>3. CASE TestPredicate \/ WokenUp \/ SleepSliceEnds
  <2>1. CASE TestPredicate
    <3>1. sleeping' \in BOOLEAN /\ notified' \in BOOLEAN
      BY <2>1, ZenonT(30) DEF TestPredicate, Awake, TypeOK
    <3> QED
      BY SMTT(30), <2>1, <3>1 DEF TestPredicate, Awake, TypeOK, Posting
  <2>2. CASE WokenUp
    <3>1. notified' \in BOOLEAN
      BY <2>2, ZenonT(30) DEF WokenUp, TypeOK
    <3> QED
      BY SMTT(30), <2>2, <3>1 DEF WokenUp, TypeOK, Posting
  <2>3. CASE SleepSliceEnds
    <3>1. sleeping' \in BOOLEAN /\ notified' \in BOOLEAN
      BY <2>3, ZenonT(30) DEF SleepSliceEnds, Awake, TypeOK
    <3> QED
      BY SMTT(30), <2>3, <3>1 DEF SleepSliceEnds, Awake, TypeOK, Posting
  <2> QED
    BY Zenon, <1>3, <2>1, <2>2, <2>3
<1>4. CASE StopLoop
  <2>1. ppc' \in [Posters -> PostPcs]
    BY <1>4, ZenonT(30) DEF StopLoop, TypeOK, PostPcs
  <2>2. Posting'
    BY ZenonT(30), <1>4 DEF StopLoop, Posting, TypeOK, Posters
  <2> QED
    BY <1>4, <2>1, <2>2 DEF StopLoop, TypeOK
<1>5. CASE StopAccepting \/ StopWorker \/ NotifyWorker \/ Stopped
  <2>1. CASE StopAccepting
    <3>1. serverRunning' \in BOOLEAN
      BY <2>1, ZenonT(30) DEF StopAccepting, TypeOK
    <3> QED
      BY SMTT(30), <2>1, <3>1 DEF StopAccepting, TypeOK, Posting
  <2>2. CASE StopWorker
    BY SMTT(30), <2>2 DEF StopWorker, TypeOK, Posting
  <2>3. CASE NotifyWorker
    <3>1. notified' \in BOOLEAN
      BY <2>3, ZenonT(30) DEF NotifyWorker, Notify
    <3> QED
      BY SMTT(30), <2>3, <3>1 DEF NotifyWorker, Notify, TypeOK, Posting
  <2>4. CASE Stopped
    BY <2>4 DEF Stopped, TypeOK, Posting
  <2> QED
    BY ZenonT(30), <1>5, <2>1, <2>2, <2>3, <2>4
<1> QED
  BY ZenonT(30), <1>1, <1>2, <1>3, <1>4, <1>5 DEF Worker, Main

\* Every step keeps the types, and so does a step that changes nothing.
LEMMA StepTypes == TypeOK /\ Posting /\ [Next]_vars => TypeOK' /\ Posting'
<1> SUFFICES ASSUME TypeOK, Posting, [Next]_vars PROVE TypeOK' /\ Posting'
  BY ZenonT(30)
<1>1. CASE UNCHANGED vars
  BY <1>1
  DEF vars, connVars, history, loopVars, wakeVars, postVars, sleepVars, stopVars, TypeOK, Posting
<1> QED
  BY ZenonT(30), <1>1, ClientTypes, PostTypes, LoopTypes, WorkerTypes DEF Next
-----------------------------------------------------------------------------
\* The lengths are numbers.
LEMMA Sizes ==
  ASSUME TypeOK
  PROVE  /\ Len(queue) \in Nat /\ Len(tasks) \in Nat
         /\ Len(executed) \in Nat /\ Len(routed) \in Nat
<1>1. /\ queue \in Seq([item : Requests, by : {"loop", "ready"}])
      /\ tasks \in Seq([item : Tasks, by : Posters \cup {"ready"}])
      /\ executed \in Seq(Requests) /\ routed \in Seq(Requests)
  BY Zenon DEF TypeOK, Places
<1> QED
  BY <1>1

\* The typed sequences of the request path.
LEMMA Lengths ==
  ASSUME TypeOK
  PROVE  /\ queue \in Places(Requests, {"loop", "ready"}) /\ Len(queue) \in Nat
         /\ tasks \in Places(Tasks, Posters \cup {"ready"}) /\ Len(tasks) \in Nat
         /\ Len(executed) \in Nat /\ Len(routed) \in Nat
         /\ \A i \in 1 .. Len(queue) : queue[i].by \in {"loop", "ready"}
         /\ \A i \in 1 .. Len(tasks) : tasks[i].item \in Tasks
         /\ \A i \in 1 .. Len(tasks) : tasks[i].by \in Posters \cup {"ready"}
<1>1. /\ queue \in Places(Requests, {"loop", "ready"})
      /\ tasks \in Places(Tasks, Posters \cup {"ready"})
      /\ executed \in Seq(Requests) /\ routed \in Seq(Requests)
  BY Zenon DEF TypeOK
<1>2. /\ Len(queue) \in Nat /\ Len(tasks) \in Nat
      /\ Len(executed) \in Nat /\ Len(routed) \in Nat
  BY ZenonT(30), Sizes
<1>3. /\ \A i \in 1 .. Len(queue) : queue[i] \in [item : Requests, by : {"loop", "ready"}]
      /\ \A i \in 1 .. Len(tasks) : tasks[i] \in [item : Tasks, by : Posters \cup {"ready"}]
  BY <1>1, SequenceShape, Zenon DEF Places
<1> QED
  BY Zenon, <1>1, <1>2, <1>3

\* A place is the last one or an earlier one.
LEMMA LastOrEarlier ==
  ASSUME NEW n \in Nat, NEW i \in 1 .. n + 1
  PROVE  i = n + 1 \/ i \in 1 .. n
OBVIOUS

\* Claiming a place for a task,
LEMMA TaskClaimed ==
  ASSUME TypeOK, NEW t \in Posters, NEW x \in Tasks
  PROVE  /\ Len(Claim(tasks, t, x)) = Len(tasks) + 1
         /\ \A i \in 1 .. Len(tasks) : Claim(tasks, t, x)[i] = tasks[i]
         /\ Claim(tasks, t, x)[Len(tasks) + 1].item = x
         /\ Claim(tasks, t, x)[Len(tasks) + 1].by = t
<1>1. PICK q, S, e : q = tasks /\ S = [item : Tasks, by : Posters \cup {"ready"}]
                     /\ e = [item |-> x, by |-> t]
  BY Zenon
<1>2. q \in Seq(S) /\ e \in S /\ Claim(tasks, t, x) = Append(q, e)
  BY Zenon, <1>1, Lengths DEF Places, Claim
<1>3. /\ Len(Append(q, e)) = Len(q) + 1 /\ Append(q, e)[Len(q) + 1] = e
      /\ \A i \in 1 .. Len(q) : Append(q, e)[i] = q[i]
  BY ONLY <1>2
<1>4. e.item = x /\ e.by = t
  BY Zenon, <1>1
<1> QED
  BY Zenon, <1>1, <1>2, <1>3, <1>4

\* publishing it,
LEMMA TasksPublished ==
  ASSUME TypeOK, NEW t
  PROVE  /\ Len(Publish(tasks, t)) = Len(tasks)
         /\ \A i \in 1 .. Len(tasks) : Publish(tasks, t)[i].item = tasks[i].item
         /\ \A i \in 1 .. Len(tasks) :
              Publish(tasks, t)[i].by = IF tasks[i].by = t THEN "ready" ELSE tasks[i].by
<1>1. PICK q, B : q = tasks /\ B = Posters \cup {"ready"}
  BY Zenon
<1>2. q \in Places(Tasks, B) /\ "ready" \in B
  BY Zenon, <1>1, Lengths
<1>3. PICK r : r = Publish(q, t)
  BY ZenonT(30)
<1>4. /\ Len(Publish(q, t)) = Len(q)
      /\ \A i \in 1 .. Len(q) :
           /\ Publish(q, t)[i].item = q[i].item
           /\ Publish(q, t)[i].by = IF q[i].by = t THEN "ready" ELSE q[i].by
  BY <1>2, PublishPlaces
<1>5. /\ Len(r) = Len(q)
      /\ \A i \in 1 .. Len(q) :
           r[i].item = q[i].item /\ r[i].by = IF q[i].by = t THEN "ready" ELSE q[i].by
  BY Zenon, <1>3, <1>4
<1> QED
  BY ZenonT(30), <1>1, <1>3, <1>5

\* and taking one.
LEMMA TaskTaken ==
  ASSUME TypeOK, CanPop(tasks)
  PROVE  /\ Len(tasks) >= 1 /\ Len(Tail(tasks)) = Len(tasks) - 1 /\ Head(tasks) = tasks[1]
         /\ \A i \in 1 .. Len(tasks) - 1 : Tail(tasks)[i] = tasks[i + 1]
<1>1. PICK q, B : q = tasks /\ B = Posters \cup {"ready"}
  BY Zenon
<1>2. q \in Places(Tasks, B) /\ CanPop(q)
  BY Zenon, <1>1, Lengths
<1>3. Len(q) >= 1 /\ Len(Tail(q)) = Len(q) - 1 /\ Head(q) = q[1]
  BY Zenon, <1>2, PopPlace
<1>4. \A i \in 1 .. Len(q) - 1 : Tail(q)[i] = q[i + 1]
  BY Zenon, <1>2, TailShape DEF Places, CanPop
<1> QED
  BY ZenonT(30), <1>1, <1>3, <1>4

\* The loop's submission keeps the order, and only the loop publishes.
LEMMA SubmitOrder ==
  ASSUME TypeOK, Posting, Order, SubmitPush \/ SubmitPublish
  PROVE  Order'
<1> USE DEF connVars, history, stopVars
<1>0. Len(queue) >= WorkerCapacity <=> ~(Len(queue) < WorkerCapacity)
  BY Sizes, CapacitiesAssumption
<1>1. CASE SubmitPush /\ Len(queue) < WorkerCapacity
  <2>1. /\ queue' = Claim(queue, "loop", current) /\ routed' = Append(routed, current)
        /\ lpc = "submitpush" /\ lpc' = "submitpublish" /\ current \in Requests
        /\ UNCHANGED <<executed, wpc, workerStopping>>
    BY Zenon, <1>0, <1>1 DEF SubmitPush, Posting
  <2>2. /\ Len(queue') = Len(queue) + 1
        /\ \A i \in 1 .. Len(queue) : queue'[i] = queue[i]
        /\ queue'[Len(queue) + 1].item = current
    <3>1. /\ "loop" \in {"loop", "ready"} /\ queue \in Places(Requests, {"loop", "ready"})
          /\ current \in Requests
      BY Zenon, <2>1, Lengths
    <3>2. /\ Len(Claim(queue, "loop", current)) = Len(queue) + 1
          /\ \A i \in 1 .. Len(queue) : Claim(queue, "loop", current)[i] = queue[i]
          /\ Claim(queue, "loop", current)[Len(queue) + 1].item = current
      <4>1. Len(Claim(queue, "loop", current)) = Len(queue) + 1
        BY <3>1, ClaimPlace
      <4>2. \A i \in 1 .. Len(queue) : Claim(queue, "loop", current)[i] = queue[i]
        BY SMTT(30), <3>1, ClaimPlace
      <4>3. Claim(queue, "loop", current)[Len(queue) + 1].item = current
        BY SMTT(30), <3>1, ClaimPlace
      <4> QED
        BY ZenonT(30), <4>1, <4>2, <4>3
    <3> QED
      BY Zenon, <2>1, <3>2
  <2>3. /\ Len(routed') = Len(routed) + 1
        /\ \A i \in 1 .. Len(routed) : routed'[i] = routed[i]
        /\ routed'[Len(routed) + 1] = current
    <3>1. routed \in Seq(Requests)
      BY Zenon DEF TypeOK
    <3> QED
      BY <2>1, <3>1
  <2>4. ~workerStopping /\ wpc \notin {"drain", "exit"}
    BY ZenonT(30), <2>1 DEF Order
  <2>5. ASSUME NEW i \in 1 .. Len(executed) PROVE executed'[i] = routed'[i]
    BY SMTT(30), <2>1, <2>3, Lengths DEF Order
  <2>6. ASSUME NEW i \in 1 .. Len(queue') PROVE queue'[i].item = routed'[Len(executed') + i]
    <3>1. CASE i <= Len(queue)
      <4>1. i \in 1 .. Len(queue) /\ Len(executed) + i \in 1 .. Len(routed)
        BY SMTT(30), <3>1, Lengths DEF Order
      <4> QED
        BY ZenonT(30), <2>1, <2>2, <2>3, <4>1 DEF Order
    <3>2. CASE i = Len(queue) + 1
      BY SMTT(30), <2>1, <2>2, <2>3, <3>2, Lengths DEF Order
    <3> QED
      BY SMTT(30), <2>2, <3>1, <3>2, Lengths
  <2>7. Len(routed') = Len(executed') + Len(queue')
    BY SMTT(30), <2>1, <2>2, <2>3, Lengths DEF Order
  <2> QED
    BY <2>1, <2>4, <2>5, <2>6, <2>7, Zenon DEF Order
<1>2. CASE SubmitPush /\ ~(Len(queue) < WorkerCapacity)
  <2>1. /\ lpc = "submitpush" /\ lpc' = "dispatch"
        /\ UNCHANGED <<executed, routed, queue, wpc, workerStopping>>
    BY ZenonT(30), <1>0, <1>2 DEF SubmitPush, Refused
  <2> QED
    BY Zenon, <2>1 DEF Order
<1>3. CASE SubmitPublish
  <2>1. /\ lpc = "submitpublish" /\ queue' = Publish(queue, "loop")
        /\ UNCHANGED <<executed, routed, wpc, workerStopping>>
    BY Zenon, <1>3 DEF SubmitPublish
  <2>2. /\ Len(queue') = Len(queue)
        /\ \A i \in 1 .. Len(queue) : queue'[i].item = queue[i].item /\ queue'[i].by = "ready"
    <3>1. "ready" \in {"loop", "ready"} /\ queue \in Places(Requests, {"loop", "ready"})
      BY ZenonT(30), Lengths
    <3>2. /\ Len(Publish(queue, "loop")) = Len(queue)
          /\ \A i \in 1 .. Len(queue) :
               /\ Publish(queue, "loop")[i].item = queue[i].item
               /\ Publish(queue, "loop")[i].by = IF queue[i].by = "loop" THEN "ready" ELSE queue[i].by
      BY <3>1, PublishPlaces
    <3>3. \A i \in 1 .. Len(queue) : queue[i].by \in {"loop", "ready"}
      BY Zenon, Lengths
    <3> QED
      BY <2>1, <3>2, <3>3, ZenonT(30)
  <2>3. ~workerStopping /\ wpc \notin {"drain", "exit"}
    BY Zenon, <2>1 DEF Order
  <2> QED
    BY ZenonT(30), <2>1, <2>2, <2>3 DEF Order
<1> QED
  BY Zenon, <1>1, <1>2, <1>3

\* The worker takes requests in order, and exits only over an empty queue.
LEMMA WorkerOrder ==
  ASSUME TypeOK, Posting, Order, Worker
  PROVE  Order'
<1> USE DEF connVars, history, loopVars, stopVars
<1>1. CASE Execute
  <2>1. /\ CanPop(queue) /\ queue' = Tail(queue) /\ executed' = Append(executed, Head(queue).item)
        /\ wpc # "exit" /\ UNCHANGED <<routed, lpc, wpc, workerStopping>>
    BY Zenon, <1>1 DEF Execute
  <2>2. /\ Len(queue) >= 1 /\ Len(queue') = Len(queue) - 1 /\ Head(queue) = queue[1]
        /\ \A i \in 1 .. Len(queue) - 1 : queue'[i] = queue[i + 1]
        /\ Head(queue).item \in Requests
    <3>1. queue \in Places(Requests, {"loop", "ready"})
      BY Zenon, Lengths
    <3>2. CanPop(queue)
      BY Zenon, <2>1
    <3>3. /\ Len(queue) >= 1 /\ Len(Tail(queue)) = Len(queue) - 1 /\ Head(queue) = queue[1]
          /\ Head(queue).item \in Requests
      BY ZenonT(30), <3>1, <3>2, PopPlace
    <3>4. \A i \in 1 .. Len(queue) - 1 : Tail(queue)[i] = queue[i + 1]
      BY Zenon, <3>1, <3>2, TailShape DEF Places, CanPop
    <3> QED
      BY Zenon, <2>1, <3>3, <3>4
  <2>3. /\ Len(executed') = Len(executed) + 1
        /\ \A i \in 1 .. Len(executed) : executed'[i] = executed[i]
        /\ executed'[Len(executed) + 1] = queue[1].item
    <3>1. executed \in Seq(Requests)
      BY ZenonT(30) DEF TypeOK
    <3> QED
      BY <2>1, <2>2, <3>1
  <2>4. ASSUME NEW i \in 1 .. Len(executed') PROVE executed'[i] = routed'[i]
    <3>1. CASE i \in 1 .. Len(executed)
      BY ZenonT(30), <2>1, <2>3, <3>1 DEF Order
    <3>2. CASE i = Len(executed) + 1
      <4>1. 1 \in 1 .. Len(queue)
        BY <2>2, Sizes
      <4>2. queue[1].item = routed[Len(executed) + 1]
        BY Zenon, <4>1 DEF Order
      <4> QED
        BY ZenonT(30), <2>1, <2>3, <3>2, <4>2
    <3> QED
      BY <2>3, <3>1, <3>2, Sizes
  <2>5. ASSUME NEW i \in 1 .. Len(queue')
        PROVE  /\ queue'[i].item = routed'[Len(executed') + i]
               /\ queue'[i].by = "loop" => lpc' = "submitpublish"
    <3>1. i + 1 \in 1 .. Len(queue) /\ queue'[i] = queue[i + 1]
      BY <2>2, Lengths
    <3>2. /\ queue[i + 1].item = routed[Len(executed) + (i + 1)]
          /\ queue[i + 1].by = "loop" => lpc = "submitpublish"
      BY ZenonT(30), <3>1 DEF Order
    <3>3. Len(executed) + (i + 1) = Len(executed') + i
      BY SMTT(30), <2>3, Sizes
    <3> QED
      BY ZenonT(30), <2>1, <3>1, <3>2, <3>3
  <2>6. Len(routed') = Len(executed') + Len(queue')
    <3>1. Len(routed) = Len(executed) + Len(queue) /\ routed' = routed
      BY Zenon, <2>1 DEF Order
    <3> QED
      BY SMTT(30), <2>2, <2>3, <3>1, Lengths
  <2> QED
    BY <2>1, <2>4, <2>5, <2>6, ZenonT(30) DEF Order
<1>2. CASE FoundEmpty /\ wpc = "drain"
  <2>1. workerStopping /\ lpc = "exit" /\ ~CanPop(queue)
    BY ZenonT(30), <1>2 DEF FoundEmpty, Order
  <2>2. Len(queue) > 0 => queue[1].by = "ready"
    BY <2>1, Lengths DEF Order
  <2>3. queue = <<>>
    BY <2>1, <2>2, Lengths DEF CanPop, Places
  <2> QED
    BY ZenonT(30), <1>2, <2>1, <2>3 DEF FoundEmpty, Order
<1>3. CASE FoundEmpty /\ wpc = "pop"
  BY Zenon, <1>3 DEF FoundEmpty, Order
<1>4. CASE CheckStopping
  BY Zenon, <1>4 DEF CheckStopping, Order
<1>5. CASE FallAsleep \/ TestPredicate \/ WokenUp \/ SleepSliceEnds
  <2>1. /\ wpc \notin {"drain", "exit"} /\ wpc' \notin {"drain", "exit"}
        /\ UNCHANGED <<executed, routed, queue, lpc, workerStopping>>
    BY Zenon, <1>5 DEF FallAsleep, TestPredicate, WokenUp, SleepSliceEnds, Awake
  <2> QED
    BY Zenon, <2>1 DEF Order
<1> QED
  BY ZenonT(30), <1>1, <1>2, <1>3, <1>4, <1>5 DEF Worker, FoundEmpty

\* Every step keeps the order of the requests.
LEMMA StepOrder == TypeOK /\ Posting /\ Order /\ [Next]_vars => Order'
<1> SUFFICES ASSUME TypeOK, Posting, Order, [Next]_vars PROVE Order'
  BY Zenon
<1> USE DEF connVars, history, loopVars, stopVars
<1>1. CASE UNCHANGED <<executed, routed, queue, lpc, wpc, workerStopping>>
  BY Zenon, <1>1 DEF Order
<1>2. ASSUME NEW r \in Requests, SendRequest(r) PROVE Order'
  BY Zenon, <1>1, <1>2 DEF SendRequest
<1>3. ASSUME NEW c \in Conns, HangUp(c) \/ AcceptConnection(c) PROVE Order'
  BY Zenon, <1>1, <1>3 DEF HangUp, AcceptConnection
<1>4. ASSUME NEW t \in Posters, Post(t) PROVE Order'
  BY ZenonT(30), <1>1, <1>4 DEF Post, PostCheck, PostPush, PostPublish, WakeExchange, WakeWrite, PostFails
<1>5. CASE Loop /\ ~SubmitPush /\ ~SubmitPublish
  <2>1. /\ lpc \notin {"exit", "submitpublish"}
        /\ UNCHANGED <<executed, routed, queue, wpc, workerStopping>>
    BY Zenon, <1>5
    DEF Loop, LoopTop, PollWait, DrainWakeup, WakeupDrained, OnFrame, ReadDone, DrainTasks,
        ProcessPendingCloses, SubmitWake, SubmitNotify
  <2> QED
    BY Zenon, <2>1 DEF Order
<1>6. CASE StopWorker
  BY Zenon, <1>6 DEF StopWorker, Order
<1>7. CASE StopAccepting \/ StopLoop \/ NotifyWorker \/ Stopped
  BY ZenonT(30), <1>1, <1>7 DEF StopAccepting, StopLoop, NotifyWorker, Stopped
<1>8. CASE UNCHANGED vars
  BY Zenon, <1>1, <1>8 DEF vars
<1> QED
  BY ZenonT(30), <1>2, <1>3, <1>4, <1>5, <1>6, <1>7, <1>8, SubmitOrder, WorkerOrder DEF Next, Main
-----------------------------------------------------------------------------
\* A step of one thread, neither into nor out of the write, moves no wakeup.
LEMMA TokenElsewhere ==
  ASSUME TypeOK, Token, NEW t \in Posters, NEW there,
         ppc' = [ppc EXCEPT ![t] = there], ppc[t] # "write", there # "write",
         UNCHANGED <<wakePending, wakeFd, lpc, events>>
  PROVE  Token'
<1>1. \A s \in Posters : ppc'[s] = "write" <=> ppc[s] = "write"
  BY Zenon DEF TypeOK
<1> QED
  BY <1>1, Zenon DEF Token

\* A step of the loop that touches no wakeup.
LEMMA TokenLoop ==
  ASSUME Token, lpc # "drainwakeup", lpc' # "drainwakeup", UNCHANGED <<wakePending, wakeFd, ppc>>,
         "wake" \in events' => "wake" \in events \/ wakeFd
  PROVE  Token'
BY Zenon DEF Token

\* The pending wakeup is never lost and never doubled.
LEMMA StepToken == TypeOK /\ Posting /\ Token /\ [Next]_vars => Token'
<1> SUFFICES ASSUME TypeOK, Posting, Token, [Next]_vars PROVE Token'
  BY Zenon
<1> USE DEF connVars, history, loopVars, wakeVars, postVars, stopVars
<1>1. CASE UNCHANGED <<wakePending, wakeFd, lpc, ppc, events>>
  BY <1>1, Zenon DEF Token
<1>2. ASSUME NEW r \in Requests, SendRequest(r) PROVE Token'
  BY Zenon, <1>1, <1>2 DEF SendRequest
<1>3. ASSUME NEW c \in Conns, HangUp(c) PROVE Token'
  BY ZenonT(30), <1>1, <1>3 DEF HangUp
<1>4. ASSUME NEW c \in Conns, AcceptConnection(c) PROVE Token'
  <2>1. CASE ppc' = [ppc EXCEPT !["acceptor"] = "check"]
    BY ZenonT(30), <1>4, <2>1, TokenElsewhere DEF AcceptConnection, Posters
  <2> QED
    BY ZenonT(30), <1>1, <1>4, <2>1 DEF AcceptConnection, PostTask
<1>5. ASSUME NEW t \in Posters, Post(t) PROVE Token'
  <2>1. CASE PostCheck(t) \/ PostPush(t) \/ PostPublish(t)
    <3>1. \E there \in {"idle", "push", "publish", "exchange"} : ppc' = [ppc EXCEPT ![t] = there]
      BY Zenon, <2>1 DEF PostCheck, PostPush, PostPublish, PostFails, PostDone
    <3>2. ppc[t] # "write" /\ UNCHANGED <<wakePending, wakeFd, lpc, events>>
      BY Zenon, <2>1 DEF PostCheck, PostPush, PostPublish
    <3> QED
      BY Zenon, <3>1, <3>2, TokenElsewhere
  <2>2. CASE WakeExchange(t) /\ wakePending
    <3>1. /\ ppc' = [ppc EXCEPT ![t] = "idle"] /\ ppc[t] # "write"
          /\ wakePending' = wakePending /\ UNCHANGED <<wakeFd, lpc, events>>
      BY <2>2, ZenonT(30) DEF WakeExchange, PostDone, TypeOK
    <3> QED
      BY ZenonT(30), <3>1, TokenElsewhere
  <2>3. CASE WakeExchange(t) /\ ~wakePending
    <3>1. /\ ppc' = [ppc EXCEPT ![t] = "write"] /\ wakePending' = TRUE
          /\ UNCHANGED <<wakeFd, lpc, events>>
      BY ZenonT(30), <2>3 DEF WakeExchange
    <3>2. \A s \in Posters : ppc'[s] = "write" <=> s = t
      BY <2>3, <3>1, ZenonT(30) DEF TypeOK, Token
    <3> QED
      BY <2>3, <3>1, <3>2, ZenonT(30) DEF Token
  <2>4. CASE WakeWrite(t)
    <3>1. /\ ppc' = [ppc EXCEPT ![t] = "idle"] /\ wakeFd' = TRUE /\ ppc[t] = "write"
          /\ UNCHANGED <<wakePending, lpc, events>>
      BY ZenonT(30), <2>4 DEF WakeWrite, PostDone
    <3>2. \A s \in Posters : ppc'[s] # "write"
      BY <3>1, ZenonT(30) DEF TypeOK, Token
    <3> QED
      BY <3>1, <3>2, Zenon DEF Token
  <2> QED
    BY ZenonT(30), <1>5, <2>1, <2>2, <2>3, <2>4 DEF Post
<1>6. CASE LoopTop \/ DrainTasks \/ ProcessPendingCloses \/ SubmitPush \/ SubmitPublish
           \/ SubmitWake \/ SubmitNotify
  <2>1. /\ lpc # "drainwakeup" /\ lpc' # "drainwakeup"
        /\ UNCHANGED <<wakePending, wakeFd, ppc, events>>
    BY Zenon, <1>6
    DEF LoopTop, DrainTasks, ProcessPendingCloses, SubmitPush, Refused, SubmitPublish,
        SubmitWake, SubmitNotify
  <2> QED
    BY ZenonT(30), <2>1, TokenLoop
<1>7. CASE PollWait
  <2>1. "wake" \in ReadyEvents => wakeFd
    BY Zenon, ConnsAssumption DEF ReadyEvents
  <2> QED
    BY ZenonT(30), <1>7, <2>1, TokenLoop DEF PollWait, Dispatch
<1>8. ASSUME NEW c \in Conns, OnFrame(c) \/ ReadDone(c) PROVE Token'
  <2>1. /\ lpc # "drainwakeup" /\ lpc' # "drainwakeup" /\ events' \subseteq events
        /\ UNCHANGED <<wakePending, wakeFd, ppc>>
    BY Zenon, <1>8 DEF OnFrame, ReadDone, Dispatch
  <2> QED
    BY Zenon, <2>1, TokenLoop
<1>9. CASE DrainWakeup
  <2>1. /\ lpc # "drainwakeup" /\ lpc' = "drainwakeup" /\ "wake" \in events /\ wakeFd' = FALSE
        /\ UNCHANGED <<wakePending, ppc, events>>
    BY Zenon, <1>9 DEF DrainWakeup
  <2> QED
    BY <2>1, Zenon DEF Token
<1>10. CASE WakeupDrained
  <2>1. /\ lpc = "drainwakeup" /\ lpc' # "drainwakeup" /\ "wake" \notin events'
        /\ wakePending' = FALSE /\ UNCHANGED <<wakeFd, ppc>>
    BY Zenon, <1>10 DEF WakeupDrained, Dispatch
  <2> QED
    BY <2>1, Zenon DEF Token
<1>11. CASE Execute
  BY ZenonT(30), <1>11, TokenElsewhere DEF Execute, PostTask, Posters
<1>12. CASE Worker /\ ~Execute
  BY ZenonT(30), <1>1, <1>12
  DEF Worker, FoundEmpty, CheckStopping, FallAsleep, TestPredicate, WokenUp, SleepSliceEnds
<1>13. CASE StopLoop
  BY ZenonT(30), <1>13, TokenElsewhere DEF StopLoop, Posting, Posters
<1>14. CASE StopAccepting \/ StopWorker \/ NotifyWorker \/ Stopped \/ UNCHANGED vars
  BY ZenonT(30), <1>1, <1>14 DEF StopAccepting, StopWorker, NotifyWorker, Stopped, vars
<1> QED
  BY ZenonT(30), <1>2, <1>3, <1>4, <1>5, <1>6, <1>7, <1>8, <1>9, <1>10, <1>11, <1>12, <1>13, <1>14
  DEF Next, Loop, Main
-----------------------------------------------------------------------------
\* A thread that owes no wakeup may go anywhere.
LEMMA WokenElsewhere ==
  ASSUME TypeOK, Woken, NEW t \in Posters, NEW there,
         ppc' = [ppc EXCEPT ![t] = there], ppc[t] \notin {"publish", "exchange"},
         UNCHANGED <<tasks, lpc, drained, wakePending, loopStopping>>
  PROVE  Woken'
<1>1. \A s \in Posters : ppc[s] \in {"publish", "exchange"} => ppc'[s] = ppc[s]
  BY Zenon DEF TypeOK
<1>2. Coming => Coming'
  BY <1>1, Zenon DEF Coming
<1>3. \A i \in 1 .. Len(tasks) : tasks[i].by # "ready" => ppc'[tasks[i].by] = "publish"
  BY Zenon, <1>1, Lengths DEF Woken
<1>4. ppc["main"] = "exchange" => ppc'["main"] = "exchange"
  BY Zenon, <1>1 DEF Posters
<1> QED
  BY ZenonT(30), <1>2, <1>3, <1>4 DEF Woken

\* Whoever adds a task owes the loop a wakeup until it has set the flag.
LEMMA PostWoken ==
  ASSUME TypeOK, Posting, Woken, NEW t \in Posters, Post(t)
  PROVE  Woken'
<1> USE DEF connVars, loopVars, wakeVars, stopVars
<1>1. CASE PostCheck(t) \/ (PostPush(t) /\ UNCHANGED tasks) \/ WakeWrite(t)
  <2>1. \E there \in PostPcs : ppc' = [ppc EXCEPT ![t] = there]
    BY Zenon, <1>1 DEF PostCheck, PostPush, WakeWrite, PostFails, PostDone, PostPcs
  <2>2. ppc[t] \notin {"publish", "exchange"}
        /\ UNCHANGED <<tasks, lpc, drained, wakePending, loopStopping>>
    BY ZenonT(30), <1>1 DEF PostCheck, PostPush, WakeWrite
  <2> QED
    BY Zenon, <2>1, <2>2, WokenElsewhere
<1>2. CASE PostPush(t) /\ tasks' = Claim(tasks, t, posting[t]) /\ Len(tasks) < TaskCapacity
  <2>1. /\ ppc[t] = "push" /\ ppc' = [ppc EXCEPT ![t] = "publish"]
        /\ UNCHANGED <<lpc, drained, wakePending, loopStopping>>
    <3>1. ~(Len(tasks) >= TaskCapacity)
      BY SMTT(30), <1>2, Sizes, CapacitiesAssumption
    <3> QED
      BY ZenonT(30), <1>2, <3>1 DEF PostPush
  <2>2. ppc'[t] = "publish" /\ \A s \in Posters : s # t => ppc'[s] = ppc[s]
    BY <2>1, Zenon DEF TypeOK
  <2>3. Coming'
    BY Zenon, <2>2 DEF Coming
  <2>4. /\ Len(tasks') = Len(tasks) + 1
        /\ \A i \in 1 .. Len(tasks) : tasks'[i] = tasks[i]
        /\ tasks'[Len(tasks) + 1].by = t
    <3>1. PICK x \in Tasks : x = posting[t]
      BY ZenonT(30), <2>1, Posted
    <3>2. /\ Len(Claim(tasks, t, x)) = Len(tasks) + 1
          /\ \A i \in 1 .. Len(tasks) : Claim(tasks, t, x)[i] = tasks[i]
          /\ Claim(tasks, t, x)[Len(tasks) + 1].item = x
          /\ Claim(tasks, t, x)[Len(tasks) + 1].by = t
      BY ZenonT(30), TaskClaimed
    <3> QED
      BY <1>2, <3>1, <3>2, ZenonT(30)
  <2>5. ASSUME NEW i \in 1 .. Len(tasks'), tasks'[i].by # "ready"
        PROVE  ppc'[tasks'[i].by] = "publish"
    <3>1. CASE i = Len(tasks) + 1
      BY ZenonT(30), <2>2, <2>4, <3>1
    <3>2. CASE i \in 1 .. Len(tasks)
      BY SMTT(30), <2>1, <2>2, <2>4, <2>5, <3>2, Lengths DEF Woken
    <3> QED
      BY <2>4, <3>1, <3>2, Lengths
  <2>6. ppc["main"] = "exchange" => ppc'["main"] = "exchange"
    BY Zenon, <2>1, <2>2 DEF Posters
  <2> QED
    BY ZenonT(30), <2>1, <2>3, <2>5, <2>6 DEF Woken
<1>3. CASE PostPublish(t)
  <2>1. /\ ppc[t] = "publish" /\ ppc' = [ppc EXCEPT ![t] = "exchange"]
        /\ tasks' = Publish(tasks, t)
        /\ UNCHANGED <<lpc, drained, wakePending, loopStopping>>
    BY Zenon, <1>3 DEF PostPublish
  <2>2. ppc'[t] = "exchange" /\ \A s \in Posters : s # t => ppc'[s] = ppc[s]
    BY <2>1, Zenon DEF TypeOK
  <2>3. Coming'
    BY Zenon, <2>2 DEF Coming
  <2>4. /\ Len(tasks') = Len(tasks)
        /\ \A i \in 1 .. Len(tasks) : tasks'[i].by = IF tasks[i].by = t THEN "ready" ELSE tasks[i].by
    <3>1. tasks' = Publish(tasks, t)
      BY ZenonT(30), <2>1
    <3> QED
      BY Zenon, <3>1, TasksPublished
  <2>5. ASSUME NEW i \in 1 .. Len(tasks'), tasks'[i].by # "ready"
        PROVE  ppc'[tasks'[i].by] = "publish"
    BY SMTT(30), <2>2, <2>4, <2>5, Lengths DEF Woken
  <2>6. ppc["main"] = "exchange" => ppc'["main"] = "exchange"
    BY ZenonT(30), <2>1, <2>2 DEF Posters
  <2> QED
    BY ZenonT(30), <2>1, <2>3, <2>5, <2>6 DEF Woken
<1>4. CASE WakeExchange(t)
  <2>1. /\ ppc[t] = "exchange" /\ wakePending' = TRUE /\ tasks' = tasks
        /\ \E there \in PostPcs : ppc' = [ppc EXCEPT ![t] = there]
        /\ UNCHANGED <<lpc, drained, loopStopping>>
    BY ZenonT(30), <1>4 DEF WakeExchange, PostDone, PostPcs
  <2>2. \A s \in Posters : s # t => ppc'[s] = ppc[s]
    BY <2>1, Zenon DEF TypeOK
  <2>3. Coming' /\ wakePending'
    BY <2>1, Zenon DEF Coming
  <2>4. \A i \in 1 .. Len(tasks) : tasks[i].by # "ready" => ppc'[tasks[i].by] = "publish"
    BY Zenon, <2>1, <2>2, Lengths DEF Woken
  <2> QED
    BY Zenon, <2>1, <2>3, <2>4 DEF Woken
<1> QED
  <2>1. PostPush(t) => UNCHANGED tasks \/ (tasks' = Claim(tasks, t, posting[t]) /\ Len(tasks) < TaskCapacity)
    BY Zenon DEF PostPush
  <2> QED
    BY ZenonT(30), <1>1, <1>2, <1>3, <1>4, <2>1 DEF Post

\* The loop goes to sleep only over an empty queue or an owed wakeup.
LEMMA LoopWoken ==
  ASSUME TypeOK, Posting, Woken, Loop
  PROVE  Woken'
<1> USE DEF connVars, wakeVars, postVars, stopVars
<1>1. CASE LoopTop
  <2>1. /\ lpc = "top" /\ drained' = 0 /\ UNCHANGED <<tasks, ppc, wakePending, loopStopping>>
        /\ (lpc' = "wait" /\ ~loopStopping) \/ (lpc' = "lasttasks" /\ loopStopping)
    BY ZenonT(30), <1>1 DEF LoopTop
  <2>2. drained' + Len(tasks') <= TaskCapacity
    <3>1. drained' = 0 /\ tasks' = tasks /\ Len(tasks) <= TaskCapacity /\ Len(tasks) \in Nat
      BY Zenon, <2>1, Lengths DEF TypeOK
    <3>2. 0 + Len(tasks) <= TaskCapacity
      BY ONLY <3>1
    <3> QED
      BY Zenon, <3>1, <3>2
  <2>3. Coming' <=> Coming
    BY <2>1, Zenon DEF Coming
  <2> QED
    BY ZenonT(30), <2>1, <2>2, <2>3 DEF Woken
<1>2. CASE UNCHANGED <<tasks, ppc, drained, loopStopping>>
           /\ lpc \notin {"top", "tasks", "lasttasks", "exit"} /\ lpc' \notin {"top", "wait"}
  <2>1. drained = 0 /\ drained' = 0
    BY ZenonT(30), <1>2 DEF Woken
  <2>2. drained' + Len(tasks') <= TaskCapacity
    BY SMTT(30), <1>2, <2>1, Lengths, CapacitiesAssumption DEF TypeOK
  <2> QED
    BY Zenon, <1>2, <2>1, <2>2 DEF Woken
<1>3. CASE PollWait \/ DrainWakeup \/ WakeupDrained
  BY Zenon, <1>2, <1>3 DEF PollWait, DrainWakeup, WakeupDrained, Dispatch
<1>4. ASSUME NEW c \in Conns, OnFrame(c) \/ ReadDone(c) PROVE Woken'
  BY Zenon, <1>2, <1>4 DEF OnFrame, ReadDone, Dispatch
<1>5. CASE SubmitPush \/ SubmitPublish \/ SubmitWake \/ SubmitNotify
  BY ZenonT(30), <1>2, <1>5 DEF SubmitPush, Refused, SubmitPublish, SubmitWake, SubmitNotify
<1>6. CASE DrainTasks
  <2>1. /\ lpc \in {"tasks", "lasttasks"} /\ CanPop(tasks) /\ tasks' = Tail(tasks)
        /\ drained' = drained + 1 /\ UNCHANGED <<lpc, ppc, wakePending, loopStopping>>
    BY ZenonT(30), <1>6 DEF DrainTasks
  <2>2. Len(tasks') = Len(tasks) - 1 /\ \A i \in 1 .. Len(tasks) - 1 : tasks'[i] = tasks[i + 1]
    BY ZenonT(30), <2>1, TaskTaken
  <2>3. Coming' <=> Coming
    BY <2>1, ZenonT(30) DEF Coming
  <2>4. drained' + Len(tasks') = drained + Len(tasks)
    <3>1. drained \in Nat
      BY CapacitiesAssumption DEF TypeOK
    <3>2. Len(tasks) \in Nat
      BY Zenon, Lengths
    <3>3. drained' = drained + 1 /\ Len(tasks') = Len(tasks) - 1
      BY <2>1, <2>2, Zenon
    <3> QED
      BY SMTT(30), <3>1, <3>2, <3>3
  <2>5. ASSUME NEW i \in 1 .. Len(tasks'), tasks'[i].by # "ready"
        PROVE  ppc'[tasks'[i].by] = "publish"
    <3>1. i + 1 \in 1 .. Len(tasks) /\ tasks'[i] = tasks[i + 1]
      BY SMTT(30), <2>2, Lengths
    <3> QED
      BY ZenonT(30), <2>1, <2>5, <3>1 DEF Woken
  <2> QED
    BY ZenonT(30), <2>1, <2>3, <2>4, <2>5 DEF Woken
<1>7. CASE ProcessPendingCloses
  <2>1. /\ lpc \in {"tasks", "lasttasks"} /\ lpc' \in {"top", "exit"}
        /\ drained = TaskCapacity \/ ~CanPop(tasks)
        /\ UNCHANGED <<tasks, ppc, wakePending, drained, loopStopping>>
    BY ZenonT(30), <1>7 DEF ProcessPendingCloses
  <2>2. Coming' <=> Coming
    BY <2>1, Zenon DEF Coming
  <2>3. tasks = <<>> \/ Coming
    <3>1. CASE drained = TaskCapacity
      <4>1. Len(tasks) = 0 \/ Coming
        BY SMTT(30), <3>1, Lengths, CapacitiesAssumption DEF Woken
      <4> QED
        BY SMTT(30), <4>1, Lengths DEF Places
    <3>2. CASE ~CanPop(tasks) /\ tasks # <<>>
      <4>1. 1 \in 1 .. Len(tasks) /\ tasks[1].by # "ready"
        BY <3>2, Lengths DEF CanPop, Places
      <4>2. tasks[1].by \in Posters /\ ppc[tasks[1].by] = "publish"
        BY Zenon, <4>1, Lengths DEF Woken
      <4> QED
        BY Zenon, <4>2 DEF Coming
    <3> QED
      BY ZenonT(30), <2>1, <3>1, <3>2
  <2> QED
    BY ZenonT(30), <2>1, <2>2, <2>3 DEF Woken
<1> QED
  BY ZenonT(30), <1>1, <1>3, <1>4, <1>5, <1>6, <1>7 DEF Loop

\* Every step keeps the debts of wakeups.
LEMMA StepWoken == TypeOK /\ Posting /\ Woken /\ [Next]_vars => Woken'
<1> SUFFICES ASSUME TypeOK, Posting, Woken, [Next]_vars PROVE Woken'
  BY Zenon
<1> USE DEF connVars, history, loopVars, wakeVars, postVars, stopVars
<1>1. CASE UNCHANGED <<tasks, ppc, lpc, drained, wakePending, loopStopping>>
  <2>1. Coming' <=> Coming
    BY <1>1, Zenon DEF Coming
  <2> QED
    BY Zenon, <1>1, <2>1 DEF Woken
<1>2. ASSUME NEW r \in Requests, SendRequest(r) PROVE Woken'
  BY Zenon, <1>1, <1>2 DEF SendRequest
<1>3. ASSUME NEW c \in Conns, HangUp(c) PROVE Woken'
  BY Zenon, <1>1, <1>3 DEF HangUp
<1>4. ASSUME NEW c \in Conns, AcceptConnection(c) PROVE Woken'
  <2>1. CASE ppc' = [ppc EXCEPT !["acceptor"] = "check"]
    BY ZenonT(30), <1>4, <2>1, WokenElsewhere DEF AcceptConnection, Posters
  <2> QED
    BY Zenon, <1>1, <1>4, <2>1 DEF AcceptConnection, PostTask
<1>5. CASE Execute
  BY Zenon, <1>5, WokenElsewhere DEF Execute, PostTask, Posters
<1>6. CASE Worker /\ ~Execute
  BY ZenonT(30), <1>1, <1>6
  DEF Worker, FoundEmpty, CheckStopping, FallAsleep, TestPredicate, WokenUp, SleepSliceEnds
<1>7. CASE StopLoop
  <2>1. /\ ppc["main"] = "idle" /\ ppc' = [ppc EXCEPT !["main"] = "exchange"]
        /\ UNCHANGED <<tasks, lpc, drained, wakePending>>
    BY Zenon, <1>7 DEF StopLoop, Posting
  <2>2. ppc'["main"] = "exchange" /\ \A s \in Posters : s # "main" => ppc'[s] = ppc[s]
    BY ZenonT(30), <2>1 DEF TypeOK, Posters
  <2>3. Coming'
    BY Zenon, <2>2 DEF Coming, Posters
  <2>4. \A i \in 1 .. Len(tasks) : tasks[i].by # "ready" => ppc'[tasks[i].by] = "publish"
    BY ZenonT(30), <2>1, <2>2, Lengths DEF Woken
  <2> QED
    BY ZenonT(30), <2>1, <2>2, <2>3, <2>4 DEF Woken
<1>8. CASE StopAccepting \/ StopWorker \/ NotifyWorker \/ Stopped \/ UNCHANGED vars
  BY Zenon, <1>1, <1>8 DEF StopAccepting, StopWorker, NotifyWorker, Stopped, vars
<1> QED
  BY ZenonT(30), <1>2, <1>3, <1>4, <1>5, <1>6, <1>7, <1>8, PostWoken, LoopWoken DEF Next, Main
-----------------------------------------------------------------------------
\* The queues are empty and nobody posts at first.
LEMMA Initially == Init => IInv
<1> SUFFICES ASSUME Init PROVE IInv
  BY Zenon
<1>1. TypeOK /\ Posting
  BY Zenon, InitTypes
<1>2. Order
  BY DEF Init, Order
<1>3. Token
  BY Zenon DEF Init, Token
<1>4. Woken
  BY CapacitiesAssumption DEF Init, Woken
<1> QED
  BY Zenon, <1>1, <1>2, <1>3, <1>4 DEF IInv

\* The inductive invariant holds in every behaviour.
LEMMA Invariance == Spec => []IInv
<1>1. IInv /\ [Next]_vars => IInv'
  BY ZenonT(30), StepTypes, StepOrder, StepToken, StepWoken DEF IInv
<1> QED
  BY <1>1, Initially, PTL DEF Spec

\* A loop that waits with something to do, nobody being in a post, is woken.
LEMMA WakeupKept == IInv => NoLostWakeup
<1> SUFFICES ASSUME IInv, lpc = "wait", \A t \in Posters : Idle(t), tasks # <<>> \/ loopStopping
             PROVE  wakeFd
  BY Zenon DEF NoLostWakeup
<1>1. \A t \in Posters : ppc[t] = "idle"
  BY Zenon DEF Idle
<1>2. wakePending
  <2>1. "main" \in Posters
    BY Zenon DEF Posters
  <2> QED
    BY ZenonT(30), <1>1, <2>1 DEF IInv, Woken, Coming
<1> QED
  BY Zenon, <1>1, <1>2 DEF IInv, Token

(* The worker executes what Submit accepted once and in that order, and    *)
(* nothing is left in its queue when it exits.                             *)
THEOREM RequestsInOrder == Spec => []ExecutedInOrder
<1>1. IInv => ExecutedInOrder
  <2> SUFFICES ASSUME IInv PROVE ExecutedInOrder
    BY Zenon
  <2>1. TypeOK /\ Order
    BY ZenonT(30) DEF IInv
  <2>2. /\ DOMAIN executed = 1 .. Len(executed) /\ DOMAIN routed = 1 .. Len(routed)
        /\ Len(executed) \in Nat /\ Len(routed) \in Nat /\ Len(queue) \in Nat
    BY SMTT(30), <2>1 DEF TypeOK, Places
  <2>3. Len(routed) = Len(executed) + Len(queue) /\ \A i \in 1 .. Len(executed) : executed[i] = routed[i]
    BY Zenon, <2>1 DEF Order
  <2>4. wpc = "exit" => Len(queue) = 0
    BY SMTT(30), <2>1 DEF Order
  <2>5. 1 .. Len(executed) \subseteq 1 .. Len(routed)
    BY SMTT(30), <2>2, <2>3
  <2>6. wpc = "exit" => Len(executed) = Len(routed)
    BY <2>2, <2>3, <2>4
  <2>7. \A i \in DOMAIN executed : i \in DOMAIN routed /\ executed[i] = routed[i]
    BY <2>2, <2>3, <2>5, ZenonT(30)
  <2> QED
    BY ZenonT(30), <2>6, <2>7 DEF ExecutedInOrder
<1> QED
  BY <1>1, Invariance, PTL
-----------------------------------------------------------------------------
(***************************************************************************)
(* The connection count of RequestPath, for any number of connections and  *)
(* any limit: it is that of the sockets held, through accepts that are     *)
(* refused, posts that fail and closes.                                    *)
(***************************************************************************)
Held == {c \in Conns : conn[c] \in {"accepted", "open", "closing"}}

\* The count is that of the connections held.
CountRight ==
  /\ IsFiniteSet(Held)
  /\ count = Cardinality(Held) /\ count <= MaxConnections

\* Only open connections have events, and none is left over when the tasks run.
EventsOpen ==
  /\ lpc \in {"top", "wait", "tasks", "lasttasks", "exit"} => events = {}
  /\ \A c \in events \cap Conns : conn[c] = "open"

\* A connection is registered once, before it is opened.
RegisteredOnce ==
  /\ \A i \in 1 .. Len(tasks) :
       tasks[i].item[1] = "register" => conn[tasks[i].item[2]] = "accepted"
  /\ \A i, j \in 1 .. Len(tasks) :
       tasks[i].item[1] = "register" /\ tasks[j].item = tasks[i].item => i = j
  /\ ppc["acceptor"] \in {"check", "push"} =>
       /\ conn[posting["acceptor"][2]] = "accepted"
       /\ \A i \in 1 .. Len(tasks) : tasks[i].item # posting["acceptor"]

Counted == CountRight /\ EventsOpen /\ RegisteredOnce
-----------------------------------------------------------------------------
\* A connection that was never opened is accepted, or refused at the limit.
LEMMA AcceptCounted ==
  ASSUME TypeOK, Posting, Counted, NEW c \in Conns, AcceptConnection(c)
  PROVE  Counted'
<1> USE DEF loopVars
<1>1. /\ conn[c] = "unopened" /\ ppc["acceptor"] = "idle"
      /\ UNCHANGED <<lpc, events, tasks>> /\ conn \in [Conns -> ConnStates]
  BY ZenonT(30) DEF AcceptConnection, TypeOK
<1>2. CASE /\ conn' = [conn EXCEPT ![c] = "accepted"] /\ count' = count + 1
           /\ count < MaxConnections /\ PostTask("acceptor", <<"register", c>>)
  <2>1. conn'[c] = "accepted" /\ \A d \in Conns : d # c => conn'[d] = conn[d]
    BY ZenonT(30), <1>1, <1>2
  <2>2. Held' = Held \cup {c} /\ c \notin Held
    BY ZenonT(30), <1>1, <2>1 DEF Held
  <2>3. CountRight'
    BY <1>2, <2>2, FS_AddElement, FS_CardinalityType, LimitAssumption DEF Counted, CountRight
  <2>4. EventsOpen'
    BY Zenon, <1>1, <2>1 DEF Counted, EventsOpen
  <2>5. ASSUME NEW i \in 1 .. Len(tasks), tasks[i].item[1] = "register"
        PROVE  tasks[i].item[2] \in Conns /\ tasks[i].item[2] # c
               /\ conn'[tasks[i].item[2]] = "accepted"
    <3>1. tasks[i].item \in Tasks /\ conn[tasks[i].item[2]] = "accepted"
      BY Zenon, <2>5, Lengths DEF Counted, RegisteredOnce
    <3>2. tasks[i].item[2] \in Conns
      BY Zenon, <2>5, <3>1 DEF Tasks
    <3> QED
      BY Zenon, <1>1, <2>1, <3>1, <3>2
  <2>6. posting'["acceptor"] = <<"register", c>>
    BY ZenonT(30), <1>2 DEF PostTask, TypeOK, Posters
  <2>7. ASSUME NEW i \in 1 .. Len(tasks) PROVE tasks[i].item # <<"register", c>>
    BY SMTT(30), <2>5
  <2>8. RegisteredOnce'
    BY SMTT(30), <1>1, <2>1, <2>5, <2>6, <2>7 DEF Counted, RegisteredOnce
  <2> QED
    BY ZenonT(30), <2>3, <2>4, <2>8 DEF Counted
<1>3. CASE conn' = [conn EXCEPT ![c] = "closed"] /\ UNCHANGED <<count, postVars>>
  <2>1. conn'[c] = "closed" /\ \A d \in Conns : d # c => conn'[d] = conn[d]
    BY ZenonT(30), <1>1, <1>3
  <2>2. Held' = Held
    BY ZenonT(30), <1>1, <2>1 DEF Held
  <2>3. CountRight'
    BY Zenon, <1>3, <2>2 DEF Counted, CountRight
  <2>4. EventsOpen'
    BY ZenonT(30), <1>1, <2>1 DEF Counted, EventsOpen
  <2>5. ASSUME NEW i \in 1 .. Len(tasks), tasks[i].item[1] = "register"
        PROVE  conn'[tasks[i].item[2]] = "accepted"
    <3>1. tasks[i].item \in Tasks /\ conn[tasks[i].item[2]] = "accepted"
      BY Zenon, <2>5, Lengths DEF Counted, RegisteredOnce
    <3>2. tasks[i].item[2] \in Conns
      BY Zenon, <2>5, <3>1 DEF Tasks
    <3> QED
      BY ZenonT(30), <1>1, <2>1, <3>1, <3>2
  <2>6. RegisteredOnce'
    BY ZenonT(30), <1>1, <1>3, <2>5 DEF Counted, RegisteredOnce, postVars
  <2> QED
    BY Zenon, <2>3, <2>4, <2>6 DEF Counted
<1> QED
  BY Zenon, <1>2, <1>3 DEF AcceptConnection

\* A connection that cannot be handed to the loop is given back.
LEMMA FailCounted ==
  ASSUME TypeOK, Posting, Counted, NEW t \in Posters, ppc[t] \in {"check", "push"}, PostFails(t),
         UNCHANGED <<lpc, events, tasks>>
  PROVE  Counted'
<1>1. CASE t = "worker"
  <2>1. UNCHANGED <<conn, count>> /\ ppc'["acceptor"] = ppc["acceptor"]
        /\ posting'["acceptor"] = posting["acceptor"]
    BY Zenon, <1>1 DEF PostFails, PostDone, TypeOK, Posters
  <2> QED
    BY ZenonT(30), <2>1 DEF Counted, CountRight, EventsOpen, RegisteredOnce, Held
<1>2. CASE t = "acceptor"
  <2> DEFINE c == posting["acceptor"][2]
  <2>1. /\ c \in Conns /\ posting["acceptor"] = <<"register", c>> /\ conn[c] = "accepted"
        /\ conn' = [conn EXCEPT ![c] = "closed"] /\ count' = count - 1
        /\ ppc'["acceptor"] = "idle"
    BY <1>2 DEF PostFails, PostDone, TypeOK, Posting, Posters, Counted, RegisteredOnce
  <2>2. conn'[c] = "closed" /\ \A d \in Conns : d # c => conn'[d] = conn[d]
    BY Zenon, <2>1 DEF TypeOK
  <2>3. \A i \in 1 .. Len(tasks) : tasks[i].item # <<"register", c>>
    BY Zenon, <1>2, <2>1 DEF Counted, RegisteredOnce
  <2> HIDE DEF c
  <2>4. Held' = Held \ {c} /\ c \in Held
    BY ZenonT(30), <2>1, <2>2 DEF Held
  <2>5. CountRight'
    BY SMTT(30), <2>1, <2>4, FS_RemoveElement, FS_CardinalityType, LimitAssumption DEF Counted, CountRight
  <2>6. EventsOpen'
    BY ZenonT(30), <2>1, <2>2 DEF Counted, EventsOpen
  <2>7. ASSUME NEW i \in 1 .. Len(tasks), tasks[i].item[1] = "register"
        PROVE  conn'[tasks[i].item[2]] = "accepted"
    <3>1. tasks[i].item \in Tasks /\ conn[tasks[i].item[2]] = "accepted"
      BY ZenonT(30), <2>7, Lengths DEF Counted, RegisteredOnce
    <3>2. tasks[i].item[2] \in Conns /\ tasks[i].item = <<"register", tasks[i].item[2]>>
      BY <2>7, <3>1 DEF Tasks
    <3> QED
      BY Zenon, <2>2, <2>3, <3>1, <3>2
  <2>8. RegisteredOnce'
    BY ZenonT(30), <2>1, <2>7 DEF Counted, RegisteredOnce
  <2> QED
    BY ZenonT(30), <2>5, <2>6, <2>8 DEF Counted
<1> QED
  BY Zenon, <1>1, <1>2, Posted

\* Posting a task hands a connection over once.
LEMMA PostCounted ==
  ASSUME TypeOK, Posting, Counted, NEW t \in Posters, Post(t)
  PROVE  Counted'
<1> USE DEF connVars, loopVars
<1>1. UNCHANGED <<lpc, events>>
  BY Zenon DEF Post, PostCheck, PostPush, PostPublish, WakeExchange, WakeWrite
<1>2. CASE (PostCheck(t) \/ (PostPush(t) /\ UNCHANGED tasks)) /\ PostFails(t)
  BY ZenonT(30), <1>1, <1>2, FailCounted DEF PostCheck, PostPush
<1>3. CASE /\ UNCHANGED <<conn, count, tasks, posting>>
           /\ ppc'["acceptor"] \in {"check", "push"} => ppc["acceptor"] \in {"check", "push"}
  BY ZenonT(30), <1>1, <1>3 DEF Counted, CountRight, EventsOpen, RegisteredOnce, Held
<1>4. CASE PostCheck(t) /\ ~PostFails(t)
  BY ZenonT(30), <1>3, <1>4 DEF PostCheck, TypeOK, Posters
<1>5. CASE WakeExchange(t) \/ WakeWrite(t)
  <2>1. CASE PostDone(t)
    <3>1. UNCHANGED <<conn, count, tasks>>
      BY ZenonT(30), <1>5 DEF WakeExchange, WakeWrite
    <3>2. /\ ppc'["acceptor"] \in {"check", "push"} => ppc["acceptor"] = ppc'["acceptor"]
          /\ ppc'["acceptor"] \in {"check", "push"} => posting'["acceptor"] = posting["acceptor"]
      BY ZenonT(30), <2>1 DEF PostDone, TypeOK, Posters
    <3> QED
      BY ZenonT(30), <1>1, <3>1, <3>2 DEF Counted, CountRight, EventsOpen, RegisteredOnce, Held
  <2>2. CASE ppc' = [ppc EXCEPT ![t] = "write"] /\ UNCHANGED posting
    BY ZenonT(30), <1>3, <1>5, <2>2 DEF WakeExchange, WakeWrite, TypeOK, Posters
  <2> QED
    BY ZenonT(30), <1>5, <2>1, <2>2 DEF WakeExchange, WakeWrite
<1>6. CASE PostPush(t) /\ tasks' = Claim(tasks, t, posting[t]) /\ ppc' = [ppc EXCEPT ![t] = "publish"]
           /\ UNCHANGED <<posting, conn, count>>
  <2>1. /\ ppc[t] = "push" /\ posting[t] \in Tasks /\ t \in Posters \cup {"ready"}
        /\ tasks \in Places(Tasks, Posters \cup {"ready"})
    BY ZenonT(30), <1>6, Posted, Lengths DEF PostPush
  <2>2. /\ Len(tasks') = Len(tasks) + 1 /\ tasks'[Len(tasks) + 1].item = posting[t]
        /\ \A i \in 1 .. Len(tasks) : tasks'[i] = tasks[i]
    <3>1. PICK x \in Tasks : x = posting[t]
      BY Zenon, <2>1
    <3>2. /\ Len(Claim(tasks, t, x)) = Len(tasks) + 1
          /\ \A i \in 1 .. Len(tasks) : Claim(tasks, t, x)[i] = tasks[i]
          /\ Claim(tasks, t, x)[Len(tasks) + 1].item = x
          /\ Claim(tasks, t, x)[Len(tasks) + 1].by = t
      BY Zenon, TaskClaimed
    <3> QED
      BY ZenonT(30), <1>6, <3>1, <3>2
  <2>3. CountRight' /\ EventsOpen'
    BY Zenon, <1>1, <1>6 DEF Counted, CountRight, EventsOpen, Held
  <2>4. ppc'[t] = "publish" /\ \A s \in Posters : s # t => ppc'[s] = ppc[s]
    BY <1>6, Zenon DEF TypeOK
  <2>5. posting[t][1] = "register" => t = "acceptor"
    BY Zenon, <2>1, Posted DEF Posting
  <2>6. ASSUME NEW i \in 1 .. Len(tasks'), tasks'[i].item[1] = "register"
        PROVE  conn'[tasks'[i].item[2]] = "accepted"
    <3>1. CASE i = Len(tasks) + 1
      BY ZenonT(30), <1>6, <2>1, <2>2, <2>5, <2>6, <3>1 DEF Counted, RegisteredOnce
    <3>2. CASE i \in 1 .. Len(tasks)
      BY ZenonT(30), <1>6, <2>2, <2>6, <3>2 DEF Counted, RegisteredOnce
    <3>3. i = Len(tasks) + 1 \/ i \in 1 .. Len(tasks)
      BY Zenon, <2>2, Lengths, LastOrEarlier
    <3> QED
      BY Zenon, <3>1, <3>2, <3>3
  <2>7. ASSUME NEW i \in 1 .. Len(tasks'), NEW j \in 1 .. Len(tasks'),
               tasks'[i].item[1] = "register", tasks'[j].item = tasks'[i].item
        PROVE  i = j
    <3>1. \A k \in 1 .. Len(tasks) : t = "acceptor" => tasks[k].item # posting[t]
      BY Zenon, <2>1 DEF Counted, RegisteredOnce
    <3>2. CASE i \in 1 .. Len(tasks) /\ j \in 1 .. Len(tasks)
      BY Zenon, <2>2, <2>7, <3>2 DEF Counted, RegisteredOnce
    <3>3. CASE i \in 1 .. Len(tasks) /\ j = Len(tasks) + 1
      BY ZenonT(30), <2>2, <2>5, <2>7, <3>1, <3>3
    <3>4. CASE i = Len(tasks) + 1 /\ j \in 1 .. Len(tasks)
      BY ZenonT(30), <2>2, <2>5, <2>7, <3>1, <3>4
    <3>5. CASE i = Len(tasks) + 1 /\ j = Len(tasks) + 1
      BY Zenon, <3>5
    <3>6. /\ i = Len(tasks) + 1 \/ i \in 1 .. Len(tasks)
          /\ j = Len(tasks) + 1 \/ j \in 1 .. Len(tasks)
      BY Zenon, <2>2, Lengths, LastOrEarlier
    <3> QED
      BY ZenonT(30), <3>2, <3>3, <3>4, <3>5, <3>6
  <2>8. ASSUME ppc'["acceptor"] \in {"check", "push"}
        PROVE  /\ conn'[posting'["acceptor"][2]] = "accepted"
               /\ \A i \in 1 .. Len(tasks') : tasks'[i].item # posting'["acceptor"]
    <3>1. t = "worker" /\ ppc["acceptor"] = ppc'["acceptor"]
      BY ZenonT(30), <2>1, <2>4, <2>8, Posted DEF Posters
    <3>2. posting["acceptor"] # posting[t]
      BY ZenonT(30), <2>1, <3>1, <2>8 DEF Posting
    <3>3. ASSUME NEW i \in 1 .. Len(tasks') PROVE tasks'[i].item # posting'["acceptor"]
      <4>1. CASE i = Len(tasks) + 1
        BY Zenon, <1>6, <2>2, <3>2, <4>1
      <4>2. CASE i \in 1 .. Len(tasks)
        BY ZenonT(30), <1>6, <2>2, <2>8, <3>1, <4>2 DEF Counted, RegisteredOnce
      <4>3. i = Len(tasks) + 1 \/ i \in 1 .. Len(tasks)
        BY Zenon, <2>2, Lengths, LastOrEarlier
      <4> QED
        BY Zenon, <4>1, <4>2, <4>3
    <3> QED
      BY ZenonT(30), <1>6, <2>8, <3>1, <3>3 DEF Counted, RegisteredOnce
  <2>9. RegisteredOnce'
    BY <2>6, <2>7, <2>8, ZenonT(30) DEF RegisteredOnce
  <2> QED
    BY Zenon, <2>3, <2>9 DEF Counted
<1>7. CASE PostPublish(t)
  <2>1. /\ Len(tasks') = Len(tasks)
        /\ \A i \in 1 .. Len(tasks) : tasks'[i].item = tasks[i].item
    <3>1. tasks' = Publish(tasks, t)
      BY Zenon, <1>7 DEF PostPublish
    <3> QED
      BY Zenon, <3>1, TasksPublished
  <2>2. /\ UNCHANGED <<conn, count, posting>>
        /\ ppc'["acceptor"] \in {"check", "push"} => ppc["acceptor"] \in {"check", "push"}
    BY Zenon, <1>7 DEF PostPublish, TypeOK, Posters
  <2>3. CountRight' /\ EventsOpen'
    BY Zenon, <1>1, <2>2 DEF Counted, CountRight, EventsOpen, Held
  <2>4. RegisteredOnce'
    BY ZenonT(30), <2>1, <2>2 DEF Counted, RegisteredOnce
  <2> QED
    BY Zenon, <2>3, <2>4 DEF Counted
<1> QED
  <2>1. PostPush(t) => \/ UNCHANGED tasks /\ PostFails(t)
                       \/ /\ tasks' = Claim(tasks, t, posting[t])
                          /\ ppc' = [ppc EXCEPT ![t] = "publish"]
                          /\ UNCHANGED <<posting, conn, count>>
    BY Zenon DEF PostPush
  <2> QED
    BY ZenonT(30), <1>2, <1>4, <1>5, <1>6, <1>7, <2>1 DEF Post

\* The loop opens each registered connection and gives back those it closes.
LEMMA LoopCounted ==
  ASSUME TypeOK, Posting, Counted, Loop
  PROVE  Counted'
<1> USE DEF connVars, postVars
<1>0. conn \in [Conns -> ConnStates] /\ events \subseteq Conns \cup {"wake"}
  BY Zenon DEF TypeOK
<1>1. CASE UNCHANGED <<conn, count, tasks, ppc, posting>>
  <2>1. CountRight' /\ RegisteredOnce'
    BY Zenon, <1>1 DEF Counted, CountRight, RegisteredOnce, Held
  <2>2. ASSUME UNCHANGED events, lpc' \notin {"top", "wait", "tasks", "lasttasks", "exit"} \/ events = {}
        PROVE  Counted'
    BY Zenon, <1>1, <2>1, <2>2 DEF Counted, EventsOpen
  <2>3. CASE LoopTop \/ DrainWakeup
    BY Zenon, <2>2, <2>3 DEF LoopTop, DrainWakeup, Counted, EventsOpen
  <2>4. CASE SubmitPush \/ SubmitPublish \/ SubmitWake \/ SubmitNotify
    BY Zenon, <2>2, <2>4 DEF SubmitPush, Refused, SubmitPublish, SubmitWake, SubmitNotify
  <2>5. CASE PollWait
    <3>1. \A c \in ReadyEvents \cap Conns : conn[c] = "open"
      BY Zenon, ConnsAssumption DEF ReadyEvents
    <3> QED
      BY ZenonT(30), <1>1, <2>1, <2>5, <3>1 DEF PollWait, Dispatch, Counted, EventsOpen
  <2>6. CASE WakeupDrained
    BY ZenonT(30), <1>1, <2>1, <2>6 DEF WakeupDrained, Dispatch, Counted, EventsOpen
  <2>7. ASSUME NEW c \in Conns, OnFrame(c) PROVE Counted'
    BY Zenon, <2>2, <2>7 DEF OnFrame
  <2>8. ASSUME NEW c \in Conns, ReadDone(c) PROVE Counted'
    BY Zenon, <1>1, <2>1, <2>8 DEF ReadDone, Dispatch, Counted, EventsOpen
  <2>9. CASE DrainTasks \/ ProcessPendingCloses
    BY ZenonT(30), <1>1, <2>1, <2>9 DEF DrainTasks, ProcessPendingCloses, Counted, EventsOpen
  <2> QED
    BY ZenonT(30), <2>3, <2>4, <2>5, <2>6, <2>7, <2>8, <2>9 DEF Loop
<1>2. ASSUME NEW c \in Conns, ReadDone(c), c \in hungUp PROVE Counted'
  <2>1. /\ c \in events /\ conn[c] = "open" /\ conn' = [conn EXCEPT ![c] = "closing"]
        /\ events' = events \ {c} /\ lpc' = IF events' = {} THEN "tasks" ELSE "dispatch"
        /\ UNCHANGED <<count, tasks, ppc, posting>>
    BY Zenon, <1>2 DEF ReadDone, Dispatch, Counted, EventsOpen
  <2>2. conn'[c] = "closing" /\ \A d \in Conns : d # c => conn'[d] = conn[d]
    BY ZenonT(30), <1>0, <2>1
  <2>3. Held' = Held
    BY Zenon, <2>1, <2>2 DEF Held
  <2>4. CountRight' /\ EventsOpen'
    BY Zenon, <2>1, <2>2, <2>3 DEF Counted, CountRight, EventsOpen
  <2>5. ASSUME NEW d \in Conns, conn[d] = "accepted" PROVE conn'[d] = "accepted"
    BY ZenonT(30), <2>1, <2>2, <2>5
  <2>6. \A i \in 1 .. Len(tasks) : tasks[i].item[1] = "register" => tasks[i].item[2] \in Conns
    BY ZenonT(30), Lengths DEF Tasks
  <2>7. ppc["acceptor"] \in {"check", "push"} => posting["acceptor"][2] \in Conns
    BY Zenon DEF Posting
  <2>8. RegisteredOnce'
    BY ZenonT(30), <2>1, <2>5, <2>6, <2>7 DEF Counted, RegisteredOnce
  <2> QED
    BY ZenonT(30), <2>4, <2>8 DEF Counted
<1>3. CASE DrainTasks
  <2>1. /\ lpc \in {"tasks", "lasttasks"} /\ CanPop(tasks) /\ tasks' = Tail(tasks)
        /\ UNCHANGED <<lpc, events, count, ppc, posting>>
    BY ZenonT(30), <1>3 DEF DrainTasks
  <2>2. /\ Len(tasks) >= 1 /\ Len(tasks') = Len(tasks) - 1 /\ Head(tasks) = tasks[1]
        /\ \A i \in 1 .. Len(tasks) - 1 : tasks'[i] = tasks[i + 1]
    BY Zenon, <2>1, TaskTaken
  <2>3. events = {} /\ events' = {}
    BY ZenonT(30), <2>1 DEF Counted, EventsOpen
  <2>4. tasks[1].item \in Tasks
    BY <2>2, Lengths
  <2>5. \/ UNCHANGED conn
        \/ /\ tasks[1].item[1] = "register" /\ tasks[1].item[2] \in Conns
           /\ conn[tasks[1].item[2]] = "accepted"
           /\ conn'[tasks[1].item[2]] = "open"
           /\ \A d \in Conns : d # tasks[1].item[2] => conn'[d] = conn[d]
    <3>1. CASE /\ tasks[1].item[1] = "register"
               /\ conn' = [conn EXCEPT ![tasks[1].item[2]] = "open"]
      <4>1. tasks[1].item[2] \in Conns /\ conn[tasks[1].item[2]] = "accepted"
        BY SMTT(30), <2>2, <2>4, <3>1, Lengths DEF Counted, RegisteredOnce, Tasks
      <4> QED
        BY ZenonT(30), <1>0, <3>1, <4>1
    <3> QED
      BY ZenonT(30), <1>3, <2>2, <3>1 DEF DrainTasks, RunTask
  <2>6. Held' = Held
    BY Zenon, <2>5 DEF Held
  <2>7. CountRight' /\ EventsOpen'
    BY ZenonT(30), <2>1, <2>3, <2>6 DEF Counted, CountRight, EventsOpen
  <2>8. ASSUME NEW i \in 1 .. Len(tasks'), tasks'[i].item[1] = "register"
        PROVE  conn'[tasks'[i].item[2]] = "accepted"
    <3>1. i + 1 \in 1 .. Len(tasks) /\ tasks'[i] = tasks[i + 1] /\ i + 1 # 1 /\ 1 \in 1 .. Len(tasks)
      BY SMTT(30), <2>2, Lengths
    <3>2. conn[tasks[i + 1].item[2]] = "accepted" /\ tasks[1].item # tasks[i + 1].item
      BY ZenonT(30), <2>8, <3>1 DEF Counted, RegisteredOnce
    <3>3. /\ tasks[i + 1].item \in {"register"} \X Conns
          /\ tasks[1].item[1] = "register" => tasks[1].item \in {"register"} \X Conns
      BY ZenonT(30), <2>4, <2>8, <3>1, Lengths DEF Tasks
    <3>4. tasks[1].item[1] = "register" => tasks[1].item[2] # tasks[i + 1].item[2]
      BY <3>2, <3>3
    <3> QED
      BY ZenonT(30), <2>5, <3>1, <3>2, <3>3, <3>4
  <2>9. ASSUME NEW i \in 1 .. Len(tasks'), NEW j \in 1 .. Len(tasks'),
               tasks'[i].item[1] = "register", tasks'[j].item = tasks'[i].item
        PROVE  i = j
    <3>1. /\ i + 1 \in 1 .. Len(tasks) /\ tasks'[i] = tasks[i + 1]
          /\ j + 1 \in 1 .. Len(tasks) /\ tasks'[j] = tasks[j + 1]
      BY <2>2, Lengths
    <3>2. i + 1 = j + 1
      BY ZenonT(30), <2>9, <3>1 DEF Counted, RegisteredOnce
    <3> QED
      BY SMTT(30), <3>2
  <2>10. ASSUME ppc'["acceptor"] \in {"check", "push"}
         PROVE  /\ conn'[posting'["acceptor"][2]] = "accepted"
                /\ \A i \in 1 .. Len(tasks') : tasks'[i].item # posting'["acceptor"]
    <3>1. /\ conn[posting["acceptor"][2]] = "accepted"
          /\ \A i \in 1 .. Len(tasks) : tasks[i].item # posting["acceptor"]
      BY ZenonT(30), <2>1, <2>10 DEF Counted, RegisteredOnce
    <3>2. posting["acceptor"] \in {"register"} \X Conns
      BY ZenonT(30), <2>1, <2>10 DEF Posting
    <3>3. ASSUME NEW i \in 1 .. Len(tasks') PROVE tasks'[i].item # posting'["acceptor"]
      <4>1. i + 1 \in 1 .. Len(tasks) /\ tasks'[i] = tasks[i + 1]
        BY SMTT(30), <2>2, Lengths
      <4> QED
        BY ZenonT(30), <2>1, <3>1, <4>1
    <3>4. tasks[1].item[1] = "register" => tasks[1].item[2] # posting["acceptor"][2]
      <4>1. tasks[1].item # posting["acceptor"]
        BY SMTT(30), <2>2, <3>1, Lengths
      <4>2. tasks[1].item[1] = "register" => tasks[1].item \in {"register"} \X Conns
        BY Zenon, <2>4 DEF Tasks
      <4> QED
        BY SMTT(30), <3>2, <4>1, <4>2
    <3> QED
      BY ZenonT(30), <2>1, <2>5, <3>1, <3>2, <3>3, <3>4
  <2>11. RegisteredOnce'
    BY <2>8, <2>9, <2>10, Zenon DEF RegisteredOnce
  <2> QED
    BY ZenonT(30), <2>7, <2>11 DEF Counted
<1>4. CASE ProcessPendingCloses
  <2> DEFINE closing == {c \in Conns : \/ conn[c] = "closing"
                                       \/ conn[c] = "open" /\ lpc = "lasttasks"}
  <2>1. /\ conn' = [c \in Conns |-> IF c \in closing THEN "closed" ELSE conn[c]]
        /\ count' = count - Cardinality(closing)
        /\ lpc \in {"tasks", "lasttasks"} /\ UNCHANGED <<events, tasks, ppc, posting>>
    BY Zenon, <1>4 DEF ProcessPendingCloses
  <2>2. Held' = Held \ closing /\ Held \cap closing = closing
    BY Zenon, <2>1 DEF Held
  <2>3. ASSUME NEW d \in Conns, conn[d] = "accepted" PROVE conn'[d] = "accepted"
    BY ZenonT(30), <2>1, <2>3
  <2>4. events' = {}
    BY Zenon, <2>1 DEF Counted, EventsOpen
  <2> HIDE DEF closing
  <2>5. CountRight'
    <3>1. IsFiniteSet(Held') /\ Cardinality(Held') = Cardinality(Held) - Cardinality(closing)
      <4>1. IsFiniteSet(Held)
        BY Zenon DEF Counted, CountRight
      <4>2. /\ IsFiniteSet(Held \ closing)
            /\ Cardinality(Held \ closing) = Cardinality(Held) - Cardinality(Held \cap closing)
        BY Zenon, <4>1, FS_Difference
      <4> QED
        BY Zenon, <2>2, <4>2
    <3>2. Cardinality(closing) \in Nat /\ Cardinality(Held) \in Nat
      BY Zenon, <2>2, FS_Subset, FS_CardinalityType DEF Counted, CountRight
    <3> QED
      BY SMTT(30), <2>1, <3>1, <3>2, LimitAssumption DEF Counted, CountRight
  <2>6. EventsOpen'
    BY Zenon, <2>4 DEF EventsOpen
  <2>7. \A i \in 1 .. Len(tasks) : tasks[i].item[1] = "register" => tasks[i].item[2] \in Conns
    BY Zenon, Lengths DEF Tasks
  <2>8. ppc["acceptor"] \in {"check", "push"} => posting["acceptor"][2] \in Conns
    BY Zenon DEF Posting
  <2>9. RegisteredOnce'
    BY Zenon, <2>1, <2>3, <2>7, <2>8 DEF Counted, RegisteredOnce
  <2> QED
    BY ZenonT(30), <2>5, <2>6, <2>9 DEF Counted
<1>5. Loop => \/ UNCHANGED <<conn, count, tasks, ppc, posting>> \/ DrainTasks \/ ProcessPendingCloses
              \/ \E c \in Conns : ReadDone(c) /\ c \in hungUp
  BY ZenonT(30) DEF Loop, LoopTop, PollWait, DrainWakeup, WakeupDrained, OnFrame, ReadDone, SubmitPush,
         SubmitPublish, SubmitWake, SubmitNotify
<1> QED
  BY Zenon, <1>1, <1>2, <1>3, <1>4, <1>5

-----------------------------------------------------------------------------
\* The count stays right through every step.
LEMMA StepCounted == TypeOK /\ Posting /\ Counted /\ [Next]_vars => Counted'
<1> SUFFICES ASSUME TypeOK, Posting, Counted, [Next]_vars PROVE Counted'
  BY Zenon
<1>1. ASSUME UNCHANGED <<conn, count, lpc, events, tasks>>,
             ppc'["acceptor"] = ppc["acceptor"], posting'["acceptor"] = posting["acceptor"]
      PROVE  Counted'
  BY Zenon, <1>1 DEF Counted, CountRight, EventsOpen, RegisteredOnce, Held
<1>2. ASSUME NEW r \in Requests, SendRequest(r) PROVE Counted'
  BY ZenonT(30), <1>1, <1>2 DEF SendRequest, loopVars, postVars
<1>3. ASSUME NEW c \in Conns, HangUp(c) PROVE Counted'
  BY ZenonT(30), <1>1, <1>3 DEF HangUp, loopVars, postVars
<1>4. ASSUME NEW c \in Conns, AcceptConnection(c) PROVE Counted'
  BY ZenonT(30), <1>4, AcceptCounted
<1>5. ASSUME NEW t \in Posters, Post(t) PROVE Counted'
  BY Zenon, <1>5, PostCounted
<1>6. CASE Loop
  BY Zenon, <1>6, LoopCounted
<1>7. CASE Worker
  <2>1. CASE Execute
    <3>1. UNCHANGED <<conn, count, lpc, events, tasks>>
      BY Zenon, <2>1 DEF Execute, connVars, loopVars
    <3>2. ppc'["acceptor"] = ppc["acceptor"] /\ posting'["acceptor"] = posting["acceptor"]
      BY ZenonT(30), <2>1 DEF Execute, PostTask, TypeOK, Posters
    <3> QED
      BY ZenonT(30), <1>1, <3>1, <3>2
  <2>2. CASE UNCHANGED <<connVars, loopVars, postVars, tasks>>
    BY ZenonT(30), <1>1, <2>2 DEF connVars, loopVars, postVars
  <2> QED
    BY Zenon, <1>7, <2>1, <2>2 DEF Worker, FoundEmpty, CheckStopping, FallAsleep, TestPredicate,
                            WokenUp, SleepSliceEnds
<1>8. CASE StopAccepting \/ Main \/ UNCHANGED vars
  <2>1. UNCHANGED <<conn, count, lpc, events, tasks>>
    BY Zenon, <1>8 DEF StopAccepting, Main, StopLoop, StopWorker, NotifyWorker, Stopped, connVars,
                loopVars, vars
  <2>2. ppc'["acceptor"] = ppc["acceptor"] /\ posting'["acceptor"] = posting["acceptor"]
    <3>1. CASE StopLoop
      BY ZenonT(30), <3>1 DEF StopLoop, TypeOK, Posters
    <3>2. CASE UNCHANGED postVars
      BY Zenon, <3>2 DEF postVars
    <3> QED
      BY ZenonT(30), <1>8, <3>1, <3>2 DEF StopAccepting, Main, StopWorker, NotifyWorker, Stopped, vars
  <2> QED
    BY Zenon, <1>1, <2>1, <2>2
<1> QED
  BY Zenon, <1>2, <1>3, <1>4, <1>5, <1>6, <1>7, <1>8 DEF Next
-----------------------------------------------------------------------------
-----------------------------------------------------------------------------
\* No connection is held at first.
LEMMA InitCounted == Init => Counted
<1> SUFFICES ASSUME Init PROVE Counted
  BY Zenon
<1>1. Held = {}
  BY ZenonT(30) DEF Init, Held
<1>2. CountRight
  BY SMTT(30), <1>1, FS_EmptySet, LimitAssumption DEF Init, CountRight
<1>3. EventsOpen /\ RegisteredOnce
  BY DEF Init, EventsOpen, RegisteredOnce, Posters
<1> QED
  BY Zenon, <1>2, <1>3 DEF Counted

(* Whatever the threads' order and the capacities of the queues: the loop  *)
(* that waits in the poller is woken for a posted task and for Stop,       *)
(* although Wake writes only when no wakeup is pending; the count that     *)
(* OnAccepted compares with max_connections is that of the sockets held.   *)
THEOREM LoopIsSound == Spec => []LoopSound
<1>1. IInv /\ Counted => LoopSound
  <2> SUFFICES ASSUME IInv, Counted PROVE LoopSound
    BY Zenon
  <2>1. ConnectionsCounted
    BY Zenon DEF Counted, CountRight, Held, ConnectionsCounted
  <2> QED
    BY <2>1, WakeupKept, Zenon DEF IInv, LoopSound
<1>2. IInv /\ Counted /\ [Next]_vars => Counted'
  BY Zenon, StepCounted DEF IInv
<1> QED
  BY <1>1, <1>2, InitCounted, Invariance, PTL DEF Spec
=============================================================================
