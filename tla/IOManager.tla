----------------------------- MODULE IOManager -----------------------------
(***************************************************************************)
(* The I/O manager of qslary, net/IOManager.{h,cc}: a Scheduler whose idle *)
(* workers wait in epoll_wait for an eventfd (the wake-up), the timerfd of *)
(* its TimerManger and the file descriptors that clients registered.       *)
(*                                                                         *)
(* Scheduler and TimerManger have modules of their own.  Here a fiber runs *)
(* its callback to the end, handleRead is reduced to what it does with the *)
(* timerfd, and a worker's steps are those in which workers and clients    *)
(* meet: the list, idleThreadCount_, the eventfd, the epoll set and the    *)
(* FdCallback objects, which Idle() reads without a lock.                  *)
(***************************************************************************)
EXTENDS Integers, Sequences, FiniteSets

CONSTANTS
    Workers,      \* the threads of the scheduler
    Fds,          \* file descriptors of the clients
    ClientOps,    \* which operations the clients of this instance use
    MaxTasks,     \* bound: callbacks that clients pass to scheduler()
    MaxChanges    \* bound: other client calls, arrivals on the fds and signals

ASSUME WorkersAssumption == Workers # {} /\ IsFiniteSet(Workers)
ASSUME FdsAssumption == "wakeupfd" \notin Fds /\ "timerfd" \notin Fds
ASSUME BoundsAssumption == MaxTasks \in Nat /\ MaxChanges \in Nat
ASSUME OpsAssumption ==
    ClientOps \subseteq {"task", "read", "write", "cancel", "del", "timer", "retime"}

VARIABLES
    pending,      \* pendingFunctors_: what the fibers in the list will run
    idle,         \* idleThreadCount_
    eventfd,      \* mWakeupFd has a count greater than 0
    timerfd,      \* "off", "armed" or "expired" (readable)
    ready,        \* what the kernel knows of each fd
    interest,     \* the epoll set: the mask of each fd in it
    group,        \* mFdGroups
    held,         \* an FdCallback that was erased under a worker's pointer to it
    client,       \* where the client thread is
    pc,           \* where each worker is
    task,         \* the callback a worker has taken from the list
    events,       \* the events that Idle() still has to process
    event,        \* the event that it processes
    submitted, finished,   \* client callbacks scheduled, run
    changes,
    crash         \* "no", or how the process died

vars == <<pending, idle, eventfd, timerfd, ready, interest, group, held, client, pc, task,
          events, event, submitted, finished, changes, crash>>
kernel == <<timerfd, ready, interest>>
counts == <<submitted, finished, changes>>
worker == <<pc, task, events, event>>

\* A queued callback: of a client, of an fd (set is FALSE for an empty
\* std::function), or handleRead of the TimerManger.
ClientTasks == {<<"task", i>> : i \in 1 .. MaxTasks}
FdTasks == {"read", "write"} \X Fds \X BOOLEAN
HandleRead == <<"handleRead">>
Tasks == ClientTasks \cup FdTasks \cup {HandleRead}
NoTask == <<"none">>

\* An event as epoll_wait returns it: the fd and a mask.
Timerfd == <<"timerfd", {"IN"}>>
Wakeupfd == <<"wakeupfd", {"IN"}>>
NoEvent == <<"none", {}>>
Events == (Fds \X SUBSET {"IN", "OUT", "HUP"}) \cup {Timerfd, Wakeupfd}

\* The FdCallback of an fd; read and write tell whether the callbacks are set.
FdCallback == [exists : BOOLEAN, concernRead : BOOLEAN, concernWrite : BOOLEAN,
               read : BOOLEAN, write : BOOLEAN]
NoGroup == [exists |-> FALSE, concernRead |-> FALSE, concernWrite |-> FALSE,
            read |-> FALSE, write |-> FALSE]

ClientPlaces ==
    {<<"idle">>, <<"wakeup">>, <<"write">>}
    \cup {<<"concern", "callback">>[n] : n \in 1 .. 2} \X {"read", "write"} \X Fds

Pcs == {"scan",                      \* top of the loop of run()
        "taken", "takenWrite",       \* Wakeup() after a fiber was taken
        "run",                       \* in the callback
        "rearm",                     \* in handleRead, the timerfd was read
        "noTask",                    \* the scan found nothing
        "wait",                      \* in epoll_wait
        "events",                    \* the loop over the returned events
        "readWakeup",                \* in read(mWakeupFd)
        "trigRead", "trigWrite"}     \* TriggerEvent, the two tests

TypeOK ==
    /\ pending \in Seq(Tasks)
    /\ idle \in Nat /\ eventfd \in BOOLEAN
    /\ timerfd \in {"off", "armed", "expired"}
    /\ ready \in [Fds -> SUBSET {"IN", "OUT", "HUP"}]
    /\ interest \in [Fds -> {"none", "IN", "OUT"}]
    /\ group \in [Fds -> FdCallback] /\ held \in [Workers -> FdCallback]
    /\ client \in ClientPlaces
    /\ pc \in [Workers -> Pcs]
    /\ task \in [Workers -> Tasks \cup {NoTask}]
    /\ events \in [Workers -> SUBSET Events]
    /\ event \in [Workers -> Events \cup {NoEvent}]
    /\ submitted \in 0 .. MaxTasks /\ finished \subseteq 1 .. MaxTasks
    /\ changes \in 0 .. MaxChanges
    /\ crash \in {"no", "readTimerfdAssert", "nullGroup"}

\* The constructor: the eventfd and the timerfd are in the epoll set, the
\* workers are started.
Init ==
    /\ pending = <<>> /\ idle = 0
    /\ eventfd = FALSE /\ timerfd = "off"
    /\ ready = [f \in Fds |-> {}]
    /\ interest = [f \in Fds |-> "none"]
    /\ group = [f \in Fds |-> NoGroup] /\ held = [w \in Workers |-> NoGroup]
    /\ client = <<"idle">>
    /\ pc = [w \in Workers |-> "scan"]
    /\ task = [w \in Workers |-> NoTask]
    /\ events = [w \in Workers |-> {}]
    /\ event = [w \in Workers |-> NoEvent]
    /\ submitted = 0 /\ finished = {} /\ changes = 0
    /\ crash = "no"

At(w, p) == crash = "no" /\ pc[w] = p
Goto(w, p) == pc' = [pc EXCEPT ![w] = p]

\* Wakeup() is skipped when idleThreadCount_ says that somebody is idle.
HasIdleThreads == idle > 0

-----------------------------------------------------------------------------
(* The client thread.                                                      *)

ClientCalls(op) == crash = "no" /\ client = <<"idle">> /\ op \in ClientOps
Change == changes < MaxChanges /\ changes' = changes + 1

\* scheduler(cb): a fiber at the tail, and Wakeup() if the list was empty.
Submit ==
    /\ ClientCalls("task")
    /\ submitted < MaxTasks
    /\ submitted' = submitted + 1
    /\ pending' = Append(pending, <<"task", submitted + 1>>)
    /\ client' = IF pending = <<>> THEN <<"wakeup">> ELSE <<"idle">>
    /\ UNCHANGED <<idle, eventfd, kernel, group, held, worker, finished, changes, crash>>

ClientWakeup ==
    /\ crash = "no" /\ client = <<"wakeup">>
    /\ client' = IF HasIdleThreads THEN <<"idle">> ELSE <<"write">>
    /\ UNCHANGED <<pending, idle, eventfd, kernel, group, held, worker, counts, crash>>

ClientWrites ==
    /\ crash = "no" /\ client = <<"write">>
    /\ client' = <<"idle">>
    /\ eventfd' = TRUE
    /\ UNCHANGED <<pending, idle, kernel, group, held, worker, counts, crash>>

\* UpdateEpoll: EPOLL_CTL_ADD for an fd without a group (which fails without
\* effect if the fd is in the epoll set already), EPOLL_CTL_MOD otherwise: the
\* new mask replaces the old one.
UpdateEpoll(f, mask) ==
    /\ group' = [group EXCEPT ![f].exists = TRUE]
    /\ interest' = IF group[f].exists \/ interest[f] = "none"
                     THEN [interest EXCEPT ![f] = mask] ELSE interest

\* AddReadEvent and AddWriteEvent: the epoll set, then the flag, then the
\* callback.  They hold mIoMangerMutex, but Idle() does not ask for it.
AddEvent(op, f) ==
    /\ ClientCalls(op)
    /\ Change
    /\ UpdateEpoll(f, IF op = "read" THEN "IN" ELSE "OUT")
    /\ client' = <<"concern", op, f>>
    /\ UNCHANGED <<pending, idle, eventfd, timerfd, ready, held, worker, submitted, finished,
                   crash>>

SetConcern(op, f) ==
    /\ crash = "no" /\ client = <<"concern", op, f>>
    /\ client' = <<"callback", op, f>>
    /\ group' = [group EXCEPT ![f] = IF op = "read" THEN [@ EXCEPT !.concernRead = TRUE]
                                                    ELSE [@ EXCEPT !.concernWrite = TRUE]]
    /\ UNCHANGED <<pending, idle, eventfd, kernel, held, worker, counts, crash>>

SetCallback(op, f) ==
    /\ crash = "no" /\ client = <<"callback", op, f>>
    /\ client' = <<"idle">>
    /\ group' = [group EXCEPT ![f] = IF op = "read" THEN [@ EXCEPT !.read = TRUE]
                                                    ELSE [@ EXCEPT !.write = TRUE]]
    /\ UNCHANGED <<pending, idle, eventfd, kernel, held, worker, counts, crash>>

\* CancelReadEvent and CancelWriteEvent only clear the flag.
CancelEvent(f) ==
    /\ ClientCalls("cancel")
    /\ Change
    /\ \/ group[f].concernRead /\ group' = [group EXCEPT ![f].concernRead = FALSE]
       \/ group[f].concernWrite /\ group' = [group EXCEPT ![f].concernWrite = FALSE]
    /\ UNCHANGED <<pending, idle, eventfd, kernel, held, client, worker, submitted, finished,
                   crash>>

\* A worker in TriggerEvent has a pointer to the FdCallback of the event's fd.
InTrigger(w) == pc[w] \in {"trigRead", "trigWrite"}

\* DelFileDesc of a registered fd: the fd stays in the epoll set, the FdCallback
\* is not deleted, and a worker that has a pointer to it keeps it.
DelFileDesc(f) ==
    /\ ClientCalls("del")
    /\ group[f].exists
    /\ group' = [group EXCEPT ![f] = NoGroup]
    /\ held' = [w \in Workers |-> IF InTrigger(w) /\ event[w][1] = f /\ ~held[w].exists
                                   THEN group[f] ELSE held[w]]
    /\ UNCHANGED <<pending, idle, eventfd, kernel, client, worker, counts, crash>>

\* runAfter and the like with an empty queue; and the same after a cancel() of
\* the only timer, which leaves the timerfd as it was.
AddTimer ==
    /\ \/ ClientCalls("timer") /\ timerfd = "off"
       \/ ClientCalls("retime") /\ timerfd # "off"
    /\ Change
    /\ timerfd' = "armed"
    /\ UNCHANGED <<pending, idle, eventfd, ready, interest, group, held, client, worker,
                   submitted, finished, crash>>

-----------------------------------------------------------------------------
(* The kernel.                                                             *)

TimerExpires ==
    /\ crash = "no" /\ timerfd = "armed"
    /\ timerfd' = "expired"
    /\ UNCHANGED <<pending, idle, eventfd, ready, interest, group, held, client, worker, counts,
                   crash>>

\* Data or room arrives on an fd, or the peer closes it.
Arrives(f) ==
    /\ crash = "no"
    /\ Change
    /\ \E r \in {"IN", "OUT", "HUP"} : ready' = [ready EXCEPT ![f] = @ \cup {r}]
    /\ UNCHANGED <<pending, idle, eventfd, timerfd, interest, group, held, client, worker,
                   submitted, finished, crash>>

\* What epoll_wait reports, level-triggered.
Reported ==
    {e \in Events :
        \/ e = Wakeupfd /\ eventfd
        \/ e = Timerfd /\ timerfd = "expired"
        \/ \E f \in Fds : /\ interest[f] # "none"
                          /\ e = <<f, ready[f] \cap {interest[f], "HUP"}>>
                          /\ e[2] # {}}

-----------------------------------------------------------------------------
(* A worker: run().                                                        *)

ScanTake(w) ==
    /\ At(w, "scan")
    /\ pending # <<>>
    /\ task' = [task EXCEPT ![w] = Head(pending)]
    /\ pending' = Tail(pending)
    /\ Goto(w, "taken")
    /\ UNCHANGED <<idle, eventfd, kernel, group, held, client, events, event, counts, crash>>

ScanNone(w) ==
    /\ At(w, "scan")
    /\ pending = <<>>
    /\ Goto(w, "noTask")
    /\ UNCHANGED <<pending, idle, eventfd, kernel, group, held, client, task, events, event,
                   counts, crash>>

\* Wakeup() by a worker that has taken a fiber.
WorkerWakeup(w) ==
    /\ At(w, "taken")
    /\ Goto(w, IF HasIdleThreads THEN "run" ELSE "takenWrite")
    /\ UNCHANGED <<pending, idle, eventfd, kernel, group, held, client, task, events, event,
                   counts, crash>>

WorkerWrites(w) ==
    /\ At(w, "takenWrite")
    /\ eventfd' = TRUE
    /\ Goto(w, "run")
    /\ UNCHANGED <<pending, idle, kernel, group, held, client, task, events, event, counts, crash>>

\* A client's callback.
RunTask(w) ==
    /\ At(w, "run")
    /\ task[w] \in ClientTasks
    /\ finished' = finished \cup {task[w][2]}
    /\ task' = [task EXCEPT ![w] = NoTask]
    /\ Goto(w, "scan")
    /\ UNCHANGED <<pending, idle, eventfd, kernel, group, held, client, events, event,
                   submitted, changes, crash>>

\* A callback of an fd: it reads all there is, or writes until the buffer may
\* be full.  An empty function throws and the fiber ends.
RunFd(w) ==
    /\ At(w, "run")
    /\ task[w] \in FdTasks
    /\ LET f == task[w][2] IN
       \/ task[w][3] /\ task[w][1] = "read" /\ ready' = [ready EXCEPT ![f] = @ \ {"IN"}]
       \/ task[w][3] /\ task[w][1] = "write" /\ ready' \in {ready, [ready EXCEPT ![f] = @ \ {"OUT"}]}
       \/ ~task[w][3] /\ UNCHANGED ready
    /\ task' = [task EXCEPT ![w] = NoTask]
    /\ Goto(w, "scan")
    /\ UNCHANGED <<pending, idle, eventfd, timerfd, interest, group, held, client, events,
                   event, counts, crash>>

\* A faulty variant: the timerfd is not read.
RunHandleReadNoRead(w) ==
    /\ At(w, "run")
    /\ task[w] = HandleRead
    /\ Goto(w, "rearm")
    /\ UNCHANGED <<pending, idle, eventfd, kernel, group, held, client, task, events, event, counts,
                   crash>>

\* handleRead: the read of a timerfd that is not readable fails the assertion
\* of readTimerfd.
RunHandleRead(w) ==
    /\ At(w, "run")
    /\ task[w] = HandleRead
    /\ IF timerfd = "expired"
         THEN timerfd' = "off" /\ Goto(w, "rearm") /\ UNCHANGED crash
         ELSE crash' = "readTimerfdAssert" /\ UNCHANGED <<timerfd, pc>>
    /\ UNCHANGED <<pending, idle, eventfd, ready, interest, group, held, client, task, events,
                   event, counts>>

\* The rest of handleRead: reset() arms the timerfd if a timer is left.
Rearm(w) ==
    /\ At(w, "rearm")
    /\ timerfd' \in {timerfd, "armed"}
    /\ task' = [task EXCEPT ![w] = NoTask]
    /\ Goto(w, "scan")
    /\ UNCHANGED <<pending, idle, eventfd, ready, interest, group, held, client, events,
                   event, counts, crash>>

-----------------------------------------------------------------------------
(* A worker: Idle().                                                       *)

\* A faulty variant: the worker is not counted.
EnterIdleForgets(w) ==
    /\ At(w, "noTask")
    /\ Goto(w, "wait")
    /\ UNCHANGED <<pending, idle, eventfd, kernel, group, held, client, task, events, event, counts,
                   crash>>

EnterIdle(w) ==
    /\ At(w, "noTask")
    /\ idle' = idle + 1
    /\ Goto(w, "wait")
    /\ UNCHANGED <<pending, eventfd, kernel, group, held, client, task, events, event, counts, crash>>

\* epoll_wait returns events; after a timeout it is called again.
EpollWait(w) ==
    /\ At(w, "wait")
    /\ Reported # {}
    /\ events' = [events EXCEPT ![w] = Reported]
    /\ Goto(w, "events")
    /\ UNCHANGED <<pending, idle, eventfd, kernel, group, held, client, task, event, counts, crash>>

\* A signal makes epoll_wait return -1: there is no event to process.
Interrupted(w) ==
    /\ At(w, "wait")
    /\ Change
    /\ Goto(w, "events")
    /\ UNCHANGED <<pending, idle, eventfd, kernel, group, held, client, task, events, event,
                   submitted, finished, crash>>

\* A faulty variant: mWakeupFd is read for every event.
NextEventReadsAlways(w) ==
    /\ At(w, "events")
    /\ \E e \in events[w] :
         /\ events' = [events EXCEPT ![w] = @ \ {e}]
         /\ event' = [event EXCEPT ![w] = e]
    /\ Goto(w, "readWakeup")
    /\ UNCHANGED <<pending, idle, eventfd, kernel, group, held, client, task, counts, crash>>

\* The next event: the eventfd is read, any other goes to ProcessFdEvent, which
\* adds EPOLLIN and EPOLLOUT to an error and looks up the FdCallback.  The
\* lookup of an fd without one gives a null pointer.
NextEvent(w) ==
    /\ At(w, "events")
    /\ \E e \in events[w] :
         /\ events' = [events EXCEPT ![w] = @ \ {e}]
         /\ event' = [event EXCEPT ![w] =
                        IF "HUP" \in e[2] THEN <<e[1], e[2] \cup {"IN", "OUT"}>> ELSE e]
         /\ Goto(w, IF e = Wakeupfd THEN "readWakeup" ELSE "trigRead")
         /\ crash' = IF e[1] \in Fds /\ ~group[e[1]].exists THEN "nullGroup" ELSE "no"
    /\ UNCHANGED <<pending, idle, eventfd, kernel, group, held, client, task, counts>>

\* read(mWakeupFd): the eventfd is blocking, a worker that comes second waits.
ReadWakeup(w) ==
    /\ At(w, "readWakeup")
    /\ eventfd
    /\ eventfd' = FALSE
    /\ Goto(w, "events")
    /\ UNCHANGED <<pending, idle, kernel, group, held, client, task, events, event, counts, crash>>

\* A faulty variant: the list is overwritten.
TriggerOverwrites(t) == pending' = <<t>>

\* scheduler(cb) from TriggerEvent.  The Wakeup() that it may call returns at
\* once: the worker is itself counted in idleThreadCount_ (see IdleExact).
Trigger(t) == pending' = Append(pending, t)

\* The FdCallback that ProcessFdEvent has looked up for the event.
Mine(w) == IF held[w].exists THEN held[w] ELSE group[event[w][1]]

\* A faulty variant: the read callback depends on concernWrite.
TriggerReadWrongFlag(w) ==
    /\ At(w, "trigRead")
    /\ IF event[w] = Timerfd THEN Trigger(HandleRead)
       ELSE IF Mine(w).concernWrite /\ "IN" \in event[w][2]
              THEN Trigger(<<"read", event[w][1], Mine(w).read>>)
              ELSE UNCHANGED pending
    /\ Goto(w, "trigWrite")
    /\ UNCHANGED <<idle, eventfd, kernel, group, held, client, task, events, event, counts, crash>>

\* The readCallback_, or handleRead for the timerfd, whose FdCallback was set up
\* before the workers were started.
TriggerRead(w) ==
    /\ At(w, "trigRead")
    /\ IF event[w] = Timerfd THEN Trigger(HandleRead)
       ELSE IF Mine(w).concernRead /\ "IN" \in event[w][2]
              THEN Trigger(<<"read", event[w][1], Mine(w).read>>)
              ELSE UNCHANGED pending
    /\ Goto(w, "trigWrite")
    /\ UNCHANGED <<idle, eventfd, kernel, group, held, client, task, events, event, counts, crash>>

\* The writeCallback_; the test is on concernRead here too (line 191).
TriggerWrite(w) ==
    /\ At(w, "trigWrite")
    /\ IF event[w][1] \in Fds /\ Mine(w).concernRead /\ "OUT" \in event[w][2]
         THEN Trigger(<<"write", event[w][1], Mine(w).write>>)
         ELSE UNCHANGED pending
    /\ held' = [held EXCEPT ![w] = NoGroup]
    /\ Goto(w, "events")
    /\ UNCHANGED <<idle, eventfd, kernel, group, client, task, events, event, counts, crash>>

\* A faulty variant: the counter is decremented in Idle() and again in run().
LeaveIdleTwice(w) ==
    /\ At(w, "events")
    /\ events[w] = {}
    /\ idle' = idle - 2
    /\ event' = [event EXCEPT ![w] = NoEvent]
    /\ Goto(w, "scan")
    /\ UNCHANGED <<pending, eventfd, kernel, group, held, client, task, events, counts, crash>>

\* All events processed: swapOut to run(), which goes on with its scan.
LeaveIdle(w) ==
    /\ At(w, "events")
    /\ events[w] = {}
    /\ idle' = idle - 1
    /\ event' = [event EXCEPT ![w] = NoEvent]
    /\ Goto(w, "scan")
    /\ UNCHANGED <<pending, eventfd, kernel, group, held, client, task, events, counts, crash>>

-----------------------------------------------------------------------------
Client ==
    \/ Submit \/ ClientWakeup \/ ClientWrites
    \/ \E f \in Fds : \/ \E op \in {"read", "write"} :
                            AddEvent(op, f) \/ SetConcern(op, f) \/ SetCallback(op, f)
                      \/ CancelEvent(f) \/ DelFileDesc(f)
    \/ AddTimer

Kernel == TimerExpires \/ \E f \in Fds : Arrives(f)

Worker(w) ==
    \/ ScanTake(w) \/ ScanNone(w) \/ WorkerWakeup(w) \/ WorkerWrites(w)
    \/ RunTask(w) \/ RunFd(w) \/ RunHandleRead(w) \/ Rearm(w)
    \/ EnterIdle(w) \/ EpollWait(w) \/ NextEvent(w) \/ ReadWakeup(w)
    \/ TriggerRead(w) \/ TriggerWrite(w) \/ LeaveIdle(w)

Next == Client \/ Kernel \/ \E w \in Workers : Worker(w) \/ Interrupted(w)

Spec == Init /\ [][Next]_vars

\* The workers and the client are threads of the operating system: a thread
\* that can go on does so in the end.  Nobody has to call an operation, no timer
\* has to be set, no data has to arrive and no signal has to come.
Fairness ==
    /\ \A w \in Workers : WF_vars(Worker(w))
    /\ WF_vars(ClientWakeup \/ ClientWrites)
    /\ \A op \in {"read", "write"}, f \in Fds : WF_vars(SetConcern(op, f) \/ SetCallback(op, f))

FairSpec == Spec /\ Fairness

-----------------------------------------------------------------------------
(* Properties.                                                             *)

\* A worker that is blocked in read(mWakeupFd): another one emptied the eventfd
\* after both had been told of it.
Blocked(w) == pc[w] = "readWakeup" /\ ~eventfd

\* The workers never block each other all at once in read(mWakeupFd): the one
\* that emptied the eventfd goes on.  (The others stay blocked until the next
\* write, and they count as idle, which keeps Wakeup() from writing.)
SomeWorkerRuns == \E w \in Workers : ~Blocked(w)

\* idleThreadCount_ is the number of workers inside Idle(): Wakeup() relies on it.
\* So a worker that calls Wakeup() from inside Idle() never writes.
InIdle == {"wait", "events", "readWakeup", "trigRead", "trigWrite"}
IdleExact == idle = Cardinality({w \in Workers : pc[w] \in InIdle})

\* The assertion of readTimerfd, Timer.cc:51-52: the timerfd that epoll reported
\* as readable still is when handleRead reads it.
ReadTimerfdSucceeds == crash # "readTimerfdAssert"

\* Data on a registered fd is read by its callback, although an event can be
\* reported between the steps of AddReadEvent and then comes to nothing, and
\* although workers may be blocked in read(mWakeupFd).
ReadyIsServed ==
    \A f \in Fds :
        "IN" \in ready[f] /\ interest[f] = "IN" /\ group[f].concernRead /\ group[f].read
            ~> \/ "IN" \notin ready[f] \/ interest[f] # "IN" \/ ~group[f].concernRead
               \/ crash # "no"

\* An expired timerfd is read, or re-armed by a client.
TimerIsServed == timerfd = "expired" ~> timerfd # "expired" \/ crash # "no"

\* A callback that waits in the list when the timerfd expires is run, unless a
\* client changes an interest or a timer meanwhile: the event makes up for a
\* wake-up that was not sent.
EventRunsTasks ==
    \A i \in 1 .. MaxTasks, n \in 0 .. MaxChanges :
        i <= submitted /\ timerfd = "expired" /\ changes = n
            ~> i \in finished \/ changes # n \/ crash # "no"

\* tests/test_iomanager.cc:53 and tests/test_tcp_server.cc:18 pass a callback to
\* scheduler() and wait for what it does: it is run.
ScheduledRuns ==
    \A i \in 1 .. MaxTasks : i <= submitted ~> i \in finished \/ crash # "no"
=============================================================================
