---------------------------- MODULE RequestPath ----------------------------
(***************************************************************************)
(* The way of a request through the threads of one broker, and the way the *)
(* broker stops them: the acceptor hands a connection to an io loop, the   *)
(* loop decodes frames and submits them to a partition worker, the worker  *)
(* executes them and posts the response back to the loop that owns the     *)
(* connection.  TcpServer, EventLoop, PartitionWorker, and the OnFrame,    *)
(* Respond and Stop of Broker, one atomic access of shared state a step.   *)
(*                                                                         *)
(* The two queues are BoundedMpmcQueues, used as module TicketQueue        *)
(* describes them: a place is claimed before it is ready.                  *)
(***************************************************************************)
EXTENDS Naturals, Sequences, FiniteSets

CONSTANTS
  Conns,            \* connections that clients may open
  Requests,         \* frames that clients may send, numbered
  ConnOf,           \* the connection each is sent on
  MaxConnections,   \* ServerOptions::max_connections
  TaskCapacity,     \* of EventLoop::tasks_
  WorkerCapacity,   \* of PartitionWorker::queue_
  MayStop,          \* whether the broker is stopped
  Leaving           \* connections whose clients may close them

ASSUME CapacitiesAssumption ==
  TaskCapacity \in Nat \ {0} /\ WorkerCapacity \in Nat \ {0}
ASSUME LimitAssumption == MaxConnections \in Nat
ASSUME RequestsAssumption ==
  Requests \subseteq Nat \ {0} /\ ConnOf \in [Requests -> Conns]
ASSUME ConnsAssumption == "wake" \notin Conns

VARIABLES
  conn,         \* each connection: unopened, accepted, open, closing, closed
  hungUp,       \* connections whose client closed its side
  count,        \* connection_count_
  inbox,        \* frames in each socket, not read yet
  registry,     \* loop_connections_ of the broker: connections by id
  executed,     \* history: the routed requests, in the order of Execute
  routed,       \* history: the routed requests, in the order of Submit
  outcome,      \* history: what became of each request
  \* the io loop
  lpc, events, current, drained, loopStopping, tasks, wakePending, wakeFd,
  \* the threads that post tasks to it: where in PostTask, and with which task
  ppc, posting,
  \* the partition worker
  wpc, sleeping, mutex, notified, workerStopping, queue,
  \* the thread in Broker::Stop, and TcpServer::running_
  mpc, serverRunning

connVars == <<conn, hungUp, count, inbox, registry>>
history == <<executed, routed, outcome>>
loopVars == <<lpc, events, current, drained>>
wakeVars == <<wakePending, wakeFd>>
postVars == <<ppc, posting>>
sleepVars == <<sleeping, mutex, notified>>
stopVars == <<mpc, serverRunning, loopStopping, workerStopping>>
vars == <<connVars, history, loopVars, wakeVars, postVars, wpc,
          sleepVars, stopVars, tasks, queue>>

Posters == {"worker", "acceptor", "main"}

Init ==
  /\ conn = [c \in Conns |-> "unopened"]
  /\ hungUp = {} /\ registry = {}
  /\ count = 0
  /\ inbox = [c \in Conns |-> <<>>]
  /\ executed = <<>> /\ routed = <<>>
  /\ outcome = [r \in Requests |-> "unsent"]
  /\ lpc = "top" /\ events = {} /\ current = 0 /\ drained = 0
  /\ tasks = <<>> /\ queue = <<>>
  /\ wakePending = FALSE /\ wakeFd = FALSE
  /\ ppc = [t \in Posters |-> "idle"]
  /\ posting = [t \in Posters |-> <<>>]
  /\ wpc = "pop"
  /\ sleeping = FALSE /\ mutex = "free" /\ notified = FALSE
  /\ mpc = "running" /\ serverRunning = TRUE
  /\ loopStopping = FALSE /\ workerStopping = FALSE
-----------------------------------------------------------------------------
(* A queue is a sequence of places [item, by]: by is the thread that       *)
(* claimed the place until it publishes it, "ready" after that.            *)

Places(items, threads) == Seq([item : items, by : threads])

Claim(q, thread, item) == Append(q, [item |-> item, by |-> thread])

Publish(q, thread) ==
  [i \in DOMAIN q |-> IF q[i].by = thread THEN [q[i] EXCEPT !.by = "ready"]
                      ELSE q[i]]

CanPop(q) == q # <<>> /\ Head(q).by = "ready"

Settle(r, how) == outcome' = [outcome EXCEPT ![r] = how]
-----------------------------------------------------------------------------
(* The clients: open a connection (below), send a frame, hang up.          *)

SendRequest(r) ==
  LET c == ConnOf[r] IN
  /\ conn[c] \in {"accepted", "open"} /\ c \notin hungUp
  /\ outcome[r] = "unsent"
  /\ \A q \in Requests : q < r /\ ConnOf[q] = c => outcome[q] # "unsent"
  /\ Settle(r, "sent")
  /\ inbox' = [inbox EXCEPT ![c] = Append(@, r)]
  /\ UNCHANGED <<conn, hungUp, count, registry, executed, routed, loopVars,
                 wakeVars, postVars, wpc, sleepVars, stopVars, tasks,
                 queue>>

HangUp(c) ==
  /\ c \in Leaving
  /\ conn[c] \in {"accepted", "open"} /\ c \notin hungUp
  /\ hungUp' = hungUp \cup {c}
  /\ UNCHANGED <<conn, count, inbox, registry, history, loopVars, wakeVars,
                 postVars, wpc, sleepVars, stopVars, tasks, queue>>
-----------------------------------------------------------------------------
(* EventLoop::PostTask and Wake, in the threads that call them.  The main  *)
(* thread only wakes.                                                      *)

PostTask(t, task) ==
  /\ ppc' = [ppc EXCEPT ![t] = "check"]
  /\ posting' = [posting EXCEPT ![t] = task]

PostDone(t) ==
  /\ ppc' = [ppc EXCEPT ![t] = "idle"]
  /\ posting' = [posting EXCEPT ![t] = <<>>]

(* What the caller does when PostTask returns false: Respond drops the     *)
(* response, OnAccepted deletes the socket.                                *)
PostFails(t) ==
  /\ PostDone(t)
  /\ \/ /\ t = "worker"
        /\ Settle(posting[t][2], "dropped")
        /\ UNCHANGED <<conn, count>>
     \/ /\ t = "acceptor"
        /\ conn' = [conn EXCEPT ![posting[t][2]] = "closed"]
        /\ count' = count - 1
        /\ UNCHANGED outcome

PostCheck(t) ==
  /\ ppc[t] = "check"
  /\ \/ /\ loopStopping
        /\ PostFails(t)
     \/ /\ ~loopStopping
        /\ ppc' = [ppc EXCEPT ![t] = "push"]
        /\ UNCHANGED <<posting, outcome, conn, count>>
  /\ UNCHANGED <<hungUp, inbox, registry, executed, routed, loopVars,
                 wakeVars, wpc, sleepVars, stopVars, tasks, queue>>

PostPush(t) ==
  /\ ppc[t] = "push"
  /\ \/ /\ Len(tasks) >= TaskCapacity
        /\ PostFails(t)
        /\ UNCHANGED tasks
     \/ /\ Len(tasks) < TaskCapacity
        /\ tasks' = Claim(tasks, t, posting[t])
        /\ ppc' = [ppc EXCEPT ![t] = "publish"]
        /\ UNCHANGED <<posting, outcome, conn, count>>
  /\ UNCHANGED <<hungUp, inbox, registry, executed, routed, loopVars,
                 wakeVars, wpc, sleepVars, stopVars, queue>>

PostPublish(t) ==
  /\ ppc[t] = "publish"
  /\ tasks' = Publish(tasks, t)
  /\ ppc' = [ppc EXCEPT ![t] = "exchange"]
  /\ UNCHANGED <<connVars, history, loopVars, wakeVars, posting, wpc,
                 sleepVars, stopVars, queue>>

WakeExchange(t) ==
  /\ ppc[t] = "exchange"
  /\ wakePending' = TRUE
  /\ IF wakePending THEN PostDone(t)
     ELSE ppc' = [ppc EXCEPT ![t] = "write"] /\ UNCHANGED posting
  /\ UNCHANGED <<connVars, history, loopVars, wakeFd, wpc, sleepVars,
                 stopVars, tasks, queue>>

WakeWrite(t) ==
  /\ ppc[t] = "write"
  /\ wakeFd' = TRUE
  /\ PostDone(t)
  /\ UNCHANGED <<connVars, history, loopVars, wakePending, wpc,
                 sleepVars, stopVars, tasks, queue>>
-----------------------------------------------------------------------------
(* TcpServer::OnAccepted, on the accept loop's thread, until that thread   *)
(* is joined.                                                              *)

AcceptConnection(c) ==
  /\ conn[c] = "unopened"
  /\ ppc["acceptor"] = "idle" /\ mpc \in {"running", "joinaccept"}
  /\ IF serverRunning /\ count < MaxConnections
     THEN /\ conn' = [conn EXCEPT ![c] = "accepted"]
          /\ count' = count + 1
          /\ PostTask("acceptor", <<"register", c>>)
     ELSE /\ conn' = [conn EXCEPT ![c] = "closed"]
          /\ UNCHANGED <<count, postVars>>
  /\ UNCHANGED <<hungUp, inbox, registry, history, loopVars, wakeVars,
                 wpc, sleepVars, stopVars, tasks, queue>>
-----------------------------------------------------------------------------
(* EventLoop::Run.  One iteration waits for events, dispatches them, runs  *)
(* the tasks and performs the deferred closes.                             *)

LoopTop ==
  /\ lpc = "top"
  /\ lpc' = IF loopStopping THEN "lasttasks" ELSE "wait"
  /\ drained' = 0
  /\ UNCHANGED <<connVars, history, events, current, wakeVars, postVars,
                 wpc, sleepVars, stopVars, tasks, queue>>

ReadyEvents ==
  {c \in Conns : conn[c] = "open" /\ (inbox[c] # <<>> \/ c \in hungUp)}
    \cup (IF wakeFd THEN {"wake"} ELSE {})

(* The events still to dispatch; after the last, the tasks.                *)
Dispatch(left) ==
  /\ events' = left
  /\ lpc' = IF left = {} THEN "tasks" ELSE "dispatch"

(* Wait ends with an event.  Its timeout, which would only hide a wakeup   *)
(* that was lost, is left out: nothing may depend on it.                   *)
PollWait ==
  /\ lpc = "wait"
  /\ ReadyEvents # {}
  /\ Dispatch(ReadyEvents)
  /\ UNCHANGED <<connVars, history, current, drained, wakeVars, postVars,
                 wpc, sleepVars, stopVars, tasks, queue>>

(* DrainWakeup: the read, then the store.                                  *)
DrainWakeup ==
  /\ lpc = "dispatch" /\ "wake" \in events
  /\ wakeFd' = FALSE
  /\ lpc' = "drainwakeup"
  /\ UNCHANGED <<connVars, history, events, current, drained, wakePending,
                 postVars, wpc, sleepVars, stopVars, tasks, queue>>

\* The flag wake_pending_ is never cleared.
Bug_WakeupDrained ==
  /\ lpc = "drainwakeup"
  /\ Dispatch(events \ {"wake"})
  /\ UNCHANGED <<connVars, history, current, drained, wakeVars, postVars,
                 wpc, sleepVars, stopVars, tasks, queue>>

WakeupDrained ==
  /\ lpc = "drainwakeup"
  /\ wakePending' = FALSE
  /\ Dispatch(events \ {"wake"})
  /\ UNCHANGED <<connVars, history, current, drained, wakeFd, postVars,
                 wpc, sleepVars, stopVars, tasks, queue>>

(* OnReadable with a complete frame: OnFrame registers the connection and  *)
(* answers the frame, or Submit finds the worker running and goes on.      *)
OnFrame(c) ==
  /\ lpc = "dispatch" /\ c \in events /\ inbox[c] # <<>>
  /\ registry' = registry \cup {c}
  /\ inbox' = [inbox EXCEPT ![c] = Tail(@)]
  /\ LET r == Head(inbox[c]) IN
       \/ /\ Settle(r, "answered")           \* HandleInline, or a bad payload
          /\ UNCHANGED <<lpc, current>>
       \/ IF workerStopping                  \* answered with BACKPRESSURE
          THEN Settle(r, "answered") /\ UNCHANGED <<lpc, current>>
          ELSE /\ Settle(r, "routing")
               /\ lpc' = "submitpush" /\ current' = r
  /\ UNCHANGED <<conn, hungUp, count, executed, routed, events, drained,
                 wakeVars, postVars, wpc, sleepVars, stopVars, tasks,
                 queue>>

(* OnReadable with no frame left: at the end of the stream the connection  *)
(* is scheduled for closing.                                               *)
ReadDone(c) ==
  /\ lpc = "dispatch" /\ c \in events /\ inbox[c] = <<>>
  /\ Dispatch(events \ {c})
  /\ conn' = IF c \in hungUp THEN [conn EXCEPT ![c] = "closing"] ELSE conn
  /\ UNCHANGED <<hungUp, count, inbox, registry, history, current, drained,
                 wakeVars, postVars, wpc, sleepVars, stopVars,
                 tasks, queue>>

(* A task of the loop: register an accepted connection, or send the        *)
(* response of a request if its connection is still there.                 *)
RunTask(task) ==
  \/ /\ task[1] = "register"
     /\ conn' = [conn EXCEPT ![task[2]] = "open"]
     /\ UNCHANGED outcome
  \/ /\ task[1] = "respond"
     /\ LET c == ConnOf[task[2]] IN
          Settle(task[2], IF c \in registry /\ conn[c] = "open"
                          THEN "answered" ELSE "dropped")
     /\ UNCHANGED conn

DrainTasks ==
  /\ lpc \in {"tasks", "lasttasks"}
  /\ drained < TaskCapacity /\ CanPop(tasks)
  /\ RunTask(Head(tasks).item)
  /\ tasks' = Tail(tasks)
  /\ drained' = drained + 1
  /\ UNCHANGED <<hungUp, count, inbox, registry, executed, routed, lpc,
                 events, current, wakeVars, postVars, wpc, sleepVars,
                 stopVars, queue>>

(* The end of DrainTasks and ProcessPendingCloses: of the connections      *)
(* scheduled for closing, or of all when the loop exits.                   *)
ProcessPendingCloses ==
  /\ lpc \in {"tasks", "lasttasks"}
  /\ drained = TaskCapacity \/ ~CanPop(tasks)
  /\ LET closing == {c \in Conns : \/ conn[c] = "closing"
                                   \/ conn[c] = "open" /\ lpc = "lasttasks"}
     IN /\ conn' = [c \in Conns |-> IF c \in closing THEN "closed" ELSE conn[c]]
        /\ count' = count - Cardinality(closing)
        /\ registry' = registry \ closing
  /\ lpc' = IF lpc = "tasks" THEN "top" ELSE "exit"
  /\ UNCHANGED <<hungUp, inbox, history, events, current, drained, wakeVars,
                 postVars, wpc, sleepVars, stopVars, tasks, queue>>
-----------------------------------------------------------------------------
(* PartitionWorker::Submit, on the loop's thread.                          *)

Refused ==
  /\ Settle(current, "answered")         \* with BACKPRESSURE
  /\ lpc' = "dispatch" /\ current' = 0

SubmitPush ==
  /\ lpc = "submitpush"
  /\ IF Len(queue) >= WorkerCapacity THEN Refused /\ UNCHANGED <<routed, queue>>
     ELSE /\ queue' = Claim(queue, "loop", current)
          /\ routed' = Append(routed, current)
          /\ Settle(current, "routed")
          /\ lpc' = "submitpublish"
          /\ UNCHANGED current
  /\ UNCHANGED <<connVars, executed, events, drained, wakeVars, postVars,
                 wpc, sleepVars, stopVars, tasks>>

SubmitPublish ==
  /\ lpc = "submitpublish"
  /\ queue' = Publish(queue, "loop")
  /\ lpc' = "submitwake"
  /\ UNCHANGED <<connVars, history, events, current, drained, wakeVars,
                 postVars, wpc, sleepVars, stopVars, tasks>>

(* The check of sleeping_, and the notification under the sleep mutex.     *)
SubmitWake ==
  /\ lpc = "submitwake"
  /\ IF sleeping THEN lpc' = "submitnotify" /\ UNCHANGED current
     ELSE lpc' = "dispatch" /\ current' = 0
  /\ UNCHANGED <<connVars, history, events, drained, wakeVars, postVars,
                 wpc, sleepVars, stopVars, tasks, queue>>

Notify ==
  /\ mutex = "free"
  /\ notified' = (wpc = "waiting")
  /\ UNCHANGED <<sleeping, mutex>>

SubmitNotify ==
  /\ lpc = "submitnotify"
  /\ Notify
  /\ lpc' = "dispatch" /\ current' = 0
  /\ UNCHANGED <<connVars, history, events, drained, wakeVars, postVars,
                 wpc, stopVars, tasks, queue>>
-----------------------------------------------------------------------------
(* PartitionWorker::Run.                                                   *)

(* TryPop and Execute: the request is carried out and its response posted. *)
Execute ==
  /\ wpc \in {"pop", "drain"} /\ ppc["worker"] = "idle"
  /\ CanPop(queue)
  /\ LET r == Head(queue).item IN
       /\ executed' = Append(executed, r)
       /\ PostTask("worker", <<"respond", r>>)
  /\ queue' = Tail(queue)
  /\ UNCHANGED <<connVars, routed, outcome, loopVars, wakeVars, wpc,
                 sleepVars, stopVars, tasks>>

FoundEmpty ==
  /\ wpc \in {"pop", "drain"} /\ ppc["worker"] = "idle"
  /\ ~CanPop(queue)
  /\ wpc' = IF wpc = "pop" THEN "check" ELSE "exit"
  /\ UNCHANGED <<connVars, history, loopVars, wakeVars, postVars,
                 sleepVars, stopVars, tasks, queue>>

\* A stopping worker exits without draining its queue.
Bug_CheckStopping ==
  /\ wpc = "check"
  /\ \/ workerStopping /\ wpc' = "exit"
     \/ ~workerStopping /\ wpc' \in {"pop", "lock"}
  /\ UNCHANGED <<connVars, history, loopVars, wakeVars, postVars, sleepVars,
                 stopVars, tasks, queue>>

(* The stop flag is read only when the queue is empty.  How often the      *)
(* worker spins before it sleeps is left open.                             *)
CheckStopping ==
  /\ wpc = "check"
  /\ \/ workerStopping /\ wpc' = "drain"
     \/ ~workerStopping /\ wpc' \in {"pop", "lock"}
  /\ UNCHANGED <<connVars, history, loopVars, wakeVars, postVars, sleepVars,
                 stopVars, tasks, queue>>

FallAsleep ==
  /\ wpc = "lock" /\ mutex = "free"
  /\ mutex' = "worker" /\ sleeping' = TRUE
  /\ wpc' = "predicate"
  /\ UNCHANGED <<connVars, history, loopVars, wakeVars, postVars,
                 notified, stopVars, tasks, queue>>

Awake ==
  /\ sleeping' = FALSE /\ mutex' = "free" /\ notified' = FALSE
  /\ wpc' = "pop"

(* The predicate of wait_for.  SizeApprox loads the positions relaxed, so  *)
(* a push made before sleeping_ was set may not be seen.                   *)
TestPredicate ==
  /\ wpc = "predicate"
  /\ \/ (workerStopping \/ queue # <<>>) /\ Awake
     \/ /\ ~workerStopping
        /\ mutex' = "free" /\ notified' = FALSE
        /\ wpc' = "waiting"
        /\ UNCHANGED sleeping
  /\ UNCHANGED <<connVars, history, loopVars, wakeVars, postVars, stopVars,
                 tasks, queue>>

WokenUp ==
  /\ wpc = "waiting" /\ notified /\ mutex = "free"
  /\ mutex' = "worker" /\ notified' = FALSE
  /\ wpc' = "predicate"
  /\ UNCHANGED <<connVars, history, loopVars, wakeVars, postVars,
                 sleeping, stopVars, tasks, queue>>

\* The worker sleeps with wait instead of wait_for.
Bug_SleepSliceEnds ==
  /\ wpc = "waiting" /\ workerStopping /\ mutex = "free"
  /\ Awake
  /\ UNCHANGED <<connVars, history, loopVars, wakeVars, postVars, stopVars,
                 tasks, queue>>

SleepSliceEnds ==
  /\ wpc = "waiting" /\ mutex = "free"
  /\ Awake
  /\ UNCHANGED <<connVars, history, loopVars, wakeVars, postVars, stopVars,
                 tasks, queue>>
-----------------------------------------------------------------------------
(* Broker::Stop: the acceptor, the io loops and the workers, in that order. *)

StopAccepting ==
  /\ MayStop /\ mpc = "running"
  /\ serverRunning' = FALSE
  /\ mpc' = "joinaccept"
  /\ UNCHANGED <<connVars, history, loopVars, wakeVars, postVars, wpc,
                 sleepVars, loopStopping, workerStopping, tasks, queue>>

(* The accept thread is joined; EventLoop::Stop sets the flag and wakes.   *)
StopLoop ==
  /\ mpc = "joinaccept" /\ ppc["acceptor"] = "idle"
  /\ loopStopping' = TRUE
  /\ ppc' = [ppc EXCEPT !["main"] = "exchange"]
  /\ mpc' = "joinloop"
  /\ UNCHANGED <<connVars, history, loopVars, wakeVars, posting, wpc,
                 sleepVars, serverRunning, workerStopping, tasks, queue>>

\* The worker is joined without being told to stop.
Bug_StopWorker ==
  /\ mpc = "joinloop" /\ ppc["main"] = "idle" /\ lpc = "exit"
  /\ mpc' = "notify"
  /\ UNCHANGED <<connVars, history, loopVars, wakeVars, postVars, wpc,
                 sleepVars, serverRunning, loopStopping, workerStopping, tasks,
                 queue>>

StopWorker ==
  /\ mpc = "joinloop" /\ ppc["main"] = "idle" /\ lpc = "exit"
  /\ workerStopping' = TRUE
  /\ mpc' = "notify"
  /\ UNCHANGED <<connVars, history, loopVars, wakeVars, postVars, wpc,
                 sleepVars, serverRunning, loopStopping, tasks, queue>>

NotifyWorker ==
  /\ mpc = "notify"
  /\ Notify
  /\ mpc' = "joinworker"
  /\ UNCHANGED <<connVars, history, loopVars, wakeVars, postVars, wpc,
                 serverRunning, loopStopping, workerStopping, tasks, queue>>

Stopped ==
  /\ mpc = "joinworker" /\ wpc = "exit"
  /\ mpc' = "stopped"
  /\ UNCHANGED <<connVars, history, loopVars, wakeVars, postVars, wpc,
                 sleepVars, serverRunning, loopStopping, workerStopping, tasks,
                 queue>>
-----------------------------------------------------------------------------
Post(t) == PostCheck(t) \/ PostPush(t) \/ PostPublish(t) \/ WakeExchange(t)
             \/ WakeWrite(t)

Loop ==
  \/ LoopTop \/ PollWait \/ DrainWakeup \/ WakeupDrained
  \/ \E c \in Conns : OnFrame(c) \/ ReadDone(c)
  \/ DrainTasks \/ ProcessPendingCloses
  \/ SubmitPush \/ SubmitPublish \/ SubmitWake \/ SubmitNotify

Worker ==
  \/ Execute \/ FoundEmpty \/ CheckStopping \/ FallAsleep \/ TestPredicate
  \/ WokenUp \/ SleepSliceEnds

Main == StopLoop \/ StopWorker \/ NotifyWorker \/ Stopped

Next ==
  \/ \E r \in Requests : SendRequest(r)
  \/ \E c \in Conns : HangUp(c) \/ AcceptConnection(c)
  \/ \E t \in Posters : Post(t)
  \/ Loop \/ Worker \/ StopAccepting \/ Main

Spec == Init /\ [][Next]_vars

(* The scheduler starves no thread, and one that asks for the sleep mutex  *)
(* again and again gets it.                                                *)
FairSpec ==
  /\ Spec
  /\ WF_vars(Loop) /\ WF_vars(Worker) /\ WF_vars(Main)
  /\ \A t \in Posters : WF_vars(Post(t))
  /\ SF_vars(SubmitNotify) /\ SF_vars(NotifyWorker)
-----------------------------------------------------------------------------
ConnStates == {"unopened", "accepted", "open", "closing", "closed"}
Outcomes == {"unsent", "sent", "routing", "routed", "answered", "dropped"}
PostPcs == {"idle", "check", "push", "publish", "exchange", "write"}
Tasks == ({"register"} \X Conns) \cup ({"respond"} \X Requests)

(* The variables keep their types, and the queues their capacities.        *)
TypeOK ==
  /\ conn \in [Conns -> ConnStates]
  /\ hungUp \subseteq Conns /\ registry \subseteq Conns
  /\ inbox \in [Conns -> Seq(Requests)]
  /\ executed \in Seq(Requests) /\ routed \in Seq(Requests)
  /\ outcome \in [Requests -> Outcomes]
  /\ lpc \in {"top", "wait", "dispatch", "drainwakeup", "submitpush", "submitpublish",
              "submitwake", "submitnotify", "tasks", "lasttasks", "exit"}
  /\ events \subseteq Conns \cup {"wake"}
  /\ current \in Requests \cup {0} /\ drained \in 0 .. TaskCapacity
  /\ loopStopping \in BOOLEAN /\ wakePending \in BOOLEAN /\ wakeFd \in BOOLEAN
  /\ tasks \in Places(Tasks, Posters \cup {"ready"})
  /\ Len(tasks) <= TaskCapacity
  /\ ppc \in [Posters -> PostPcs]
  /\ posting \in [Posters -> Tasks \cup {<<>>}]
  /\ wpc \in {"pop", "check", "drain", "lock", "predicate", "waiting", "exit"}
  /\ sleeping \in BOOLEAN /\ mutex \in {"free", "worker"} /\ notified \in BOOLEAN
  /\ workerStopping \in BOOLEAN
  /\ queue \in Places(Requests, {"loop", "ready"})
  /\ Len(queue) <= WorkerCapacity
  /\ mpc \in {"running", "joinaccept", "joinloop", "notify", "joinworker", "stopped"}
  /\ serverRunning \in BOOLEAN

Idle(t) == ppc[t] = "idle"

(* The loop never sleeps on work: when it waits in the poller and every    *)
(* PostTask and Stop that began has returned, a task in its queue or a     *)
(* request to stop means its wakeup descriptor is readable, although Wake  *)
(* skips the write when one is outstanding.                                *)
NoLostWakeup ==
  lpc = "wait" /\ (\A t \in Posters : Idle(t)) /\ (tasks # <<>> \/ loopStopping)
    => wakeFd

(* A request handed to the worker is executed once, in the order Submit    *)
(* accepted it, whatever the threads' order, and none is left when the     *)
(* worker exits.                                                           *)
ExecutedInOrder ==
  /\ \A i \in DOMAIN executed : i \in DOMAIN routed /\ executed[i] = routed[i]
  /\ wpc = "exit" => Len(executed) = Len(routed)

(* connection_count_ counts the sockets the server holds, so the limit it  *)
(* is compared with holds for them.                                        *)
ConnectionsCounted ==
  LET held == {c \in Conns : conn[c] \in {"accepted", "open", "closing"}}
  IN count = Cardinality(held) /\ count <= MaxConnections

(* What the server relies on the loop for: it wakes up for what is posted  *)
(* and gives back every connection it was given, its queues never hold     *)
(* more than their capacity.                                               *)
LoopSound == TypeOK /\ NoLostWakeup /\ ConnectionsCounted

(* A frame a client sent is answered, or its response dropped with the     *)
(* connection or at a full or stopped loop, or its connection is closed.   *)
RequestsSettle ==
  \A r \in Requests :
    []<>~(/\ outcome[r] \in {"sent", "routing", "routed"}
          /\ conn[ConnOf[r]] # "closed" /\ mpc # "stopped")

(* Broker::Stop returns: no join waits for a thread that waits for it.     *)
StopReturns == []<>(mpc \in {"running", "stopped"})
=============================================================================
