----------------------------- MODULE Scheduler -----------------------------
(***************************************************************************)
(* The M:N fiber scheduler of qslary: net/Scheduler.{h,cc} together with   *)
(* the fibers it runs, base/Fiber.{h,cc}.                                  *)
(*                                                                         *)
(* A pool of worker threads takes fibers from one list, pendingFunctors_,  *)
(* guarded by mutex_.  Everything a thread does under the mutex is one     *)
(* step; everything it does outside (the two atomic counters, the plain    *)
(* member state_ of a fiber, the flags written by stop()) is a step of its *)
(* own.  The callbacks the fibers run are arbitrary: a callback may        *)
(* schedule another one, yield, go to sleep, return or throw.              *)
(***************************************************************************)
EXTENDS Naturals, Sequences, FiniteSets, SequencesExt

CONSTANTS
    Workers,      \* the threads of threads_ (threadCount_ of them)
    MaxFibers,    \* bound: fibers ever created by schedulerNoLock
    MaxCallbacks, \* bound: callbacks ever passed to scheduler(callback)
    MaxYields,    \* bound: calls of YieldToReady (each makes a fiber)
    MaxSleeps     \* bound: how often callbacks go to sleep in all

\* The constructor asserts threadNum > 0 (Scheduler.cc:42).
ASSUME WorkersAssumption == Workers # {} /\ IsFiniteSet(Workers)
ASSUME BoundsAssumption ==
    /\ MaxFibers \in Nat /\ MaxCallbacks \in Nat
    /\ MaxYields \in Nat /\ MaxSleeps \in Nat

Fibers == 1 .. MaxFibers
Callbacks == 1 .. MaxCallbacks
None == 0                       \* a null Fiber::ptr, an empty std::function

FiberState == {"INIT", "HOLD", "EXEC", "TERM", "READY", "EXCEPTION"}
Runnable == {"INIT", "HOLD", "READY"}   \* what the scan of run() accepts
Finished == {"TERM", "EXCEPTION"}

VARIABLES
    main,         \* the thread that owns the scheduler: where it is in its life
    autoStop_, clean_,
    pending,      \* pendingFunctors_
    active,       \* activeThreadCount_
    idle,         \* idleThreadCount_
    created,      \* number of fibers created so far (s_fiber_id)
    submitted,    \* number of callbacks passed to scheduler(callback) so far
    state,        \* state_ of every fiber ever created
    cb,           \* cb_ of every fiber, None before it exists
    ctx,          \* where the machine context of a fiber is (see CtxState)
    armed,        \* fibers that a timer will give back to scheduler(Fiber::ptr)
    yields, sleeps,   \* how often YieldToReady and sleep() were called so far
    pc,           \* program counter of each worker in run()
    doing,        \* the local variable doing of each worker
    idleFiber,    \* state_ of each worker's idle fiber
    crash         \* "no", or how the process died

vars == <<main, autoStop_, clean_, pending, active, idle, created, submitted,
          state, cb, ctx, armed, yields, sleeps, pc, doing, idleFiber, crash>>
flags == <<main, autoStop_, clean_>>
fibers == <<created, submitted, state, cb, ctx>>
timers == <<armed, yields, sleeps>>

\* fresh: made by makecontext, never entered; live: on the CPU of a worker;
\* saved: stored by swapcontext in swapOut; done: FiberRun has ended.
CtxState == {"fresh", "live", "saved", "done"}

\* The places of run() at which a worker is about to take its next step.
Pcs == {"unborn",               \* thread not started
        "scan",                 \* top of the loop
        "taken",                \* fiber erased from the list, not yet counted
        "swapIn",               \* counted in activeThreadCount_
        "exec",                 \* inside the callback
        "armed",                \* in sleep(): timer set, YieldToHold not called
        "yielded",              \* state_ set by YieldTo*, context not saved yet
        "back",                 \* swapIn() returned
        "ready?", "ended?", "hold", "again",   \* lines 154, 156, 158, 155
        "noTask",               \* the scan found nothing
        "idling",               \* inside the idle fiber
        "idleBack",             \* idleFiber->swapIn() returned
        "exited"}

\* A worker that has taken a fiber and not yet finished dealing with it.
Busy == {"taken", "swapIn", "exec", "armed", "yielded", "back",
         "ready?", "ended?", "hold", "again"}
\* A worker that activeThreadCount_ counts.
Counted == {"swapIn", "exec", "armed", "yielded", "back"}
\* A worker that idleThreadCount_ counts.
InIdle == {"idling", "idleBack"}

TypeOwner ==
    /\ main \in {"created", "started", "stop1", "join", "stopped"}
    /\ autoStop_ \in BOOLEAN /\ clean_ \in BOOLEAN
    /\ crash \in {"no", "swapInAssert", "yieldAssert", "dtorAssert", "staleContext"}

TypeFibers ==
    /\ pending \in Seq(Fibers)
    /\ created \in 0 .. MaxFibers /\ submitted \in 0 .. MaxCallbacks
    /\ state \in [Fibers -> FiberState]
    /\ cb \in [Fibers -> Callbacks \cup {None}]
    /\ ctx \in [Fibers -> CtxState]
    /\ armed \subseteq Fibers
    /\ yields \in 0 .. MaxYields /\ sleeps \in 0 .. MaxSleeps

TypeWorkers ==
    /\ active \in Nat /\ idle \in Nat
    /\ pc \in [Workers -> Pcs]
    /\ doing \in [Workers -> Fibers \cup {None}]
    /\ idleFiber \in [Workers -> FiberState]

TypeOK == TypeOwner /\ TypeFibers /\ TypeWorkers

Init ==
    /\ main = "created"
    /\ autoStop_ = FALSE
    /\ clean_ = TRUE
    /\ pending = <<>>
    /\ active = 0
    /\ idle = 0
    /\ created = 0
    /\ submitted = 0
    /\ state = [f \in Fibers |-> "INIT"]
    /\ cb = [f \in Fibers |-> None]
    /\ ctx = [f \in Fibers |-> "fresh"]
    /\ armed = {}
    /\ yields = 0
    /\ sleeps = 0
    /\ pc = [w \in Workers |-> "unborn"]
    /\ doing = [w \in Workers |-> None]
    /\ idleFiber = [w \in Workers |-> "INIT"]
    /\ crash = "no"

\* Where a thread is, in a process that no failed assertion has ended.
At(w, p) == crash = "no" /\ pc[w] = p
OwnerAt(p) == crash = "no" /\ main = p

-----------------------------------------------------------------------------
(* scheduler(callback): a new fiber at the tail of the list.               *)

\* The next n fibers, in the order of their creation.
NewFibers(n) == [i \in 1 .. n |-> created + i]

\* schedulerNoLock under mutex_: n fresh fibers for n new callbacks.  The
\* wake-up that follows only writes a log line in this class.
Schedule(n) ==
    /\ submitted + n <= MaxCallbacks
    /\ created + n <= MaxFibers
    /\ created' = created + n
    /\ submitted' = submitted + n
    /\ cb' = [f \in Fibers |-> IF f \in created + 1 .. created + n
                              THEN submitted + (f - created) ELSE cb[f]]
    /\ pending' = pending \o NewFibers(n)
    /\ UNCHANGED <<state, ctx>>

\* Faulty variant: the new fiber goes to the head of the list.
ScheduleAgainFirst(f) ==
    /\ created < MaxFibers
    /\ created' = created + 1
    /\ pending' = <<created + 1>> \o pending
    /\ cb' = [cb EXCEPT ![created + 1] = cb[f]]
    /\ UNCHANGED <<submitted, state, ctx>>

\* scheduler(doing->cb_): a new fiber for a callback that already had one.
ScheduleAgain(f) ==
    /\ created < MaxFibers
    /\ created' = created + 1
    /\ pending' = Append(pending, created + 1)
    /\ cb' = [cb EXCEPT ![created + 1] = cb[f]]
    /\ UNCHANGED <<submitted, state, ctx>>

-----------------------------------------------------------------------------
(* The owner's thread: start(), scheduler(...), stop().                    *)

Start ==
    /\ OwnerAt("created")
    /\ clean_                          \* otherwise start() returns at once
    /\ clean_' = FALSE
    /\ main' = "started"
    /\ pc' = [w \in Workers |-> "scan"]
    /\ UNCHANGED <<autoStop_, pending, active, idle, fibers, timers, doing,
                   idleFiber, crash>>

\* One callback, or a batch of two through scheduler(begin, end).
Submit ==
    /\ OwnerAt("created") \/ OwnerAt("started")
    /\ \E n \in 1 .. 2 : Schedule(n)
    /\ UNCHANGED <<flags, active, idle, timers, pc, doing, idleFiber, crash>>

\* stop() writes the two flags without the mutex, one after the other.
StopAuto ==
    /\ OwnerAt("started")
    /\ autoStop_' = TRUE
    /\ main' = "stop1"
    /\ UNCHANGED <<clean_, pending, active, idle, fibers, timers, pc, doing,
                   idleFiber, crash>>

StopClean ==
    /\ OwnerAt("stop1")
    /\ clean_' = TRUE
    /\ main' = "join"
    /\ UNCHANGED <<autoStop_, pending, active, idle, fibers, timers, pc, doing,
                   idleFiber, crash>>

Join ==
    /\ OwnerAt("join")
    /\ \A w \in Workers : pc[w] = "exited"
    /\ main' = "stopped"
    /\ UNCHANGED <<autoStop_, clean_, pending, active, idle, fibers, timers, pc,
                   doing, idleFiber, crash>>

-----------------------------------------------------------------------------
(* A worker's loop: taking a fiber.                                        *)

\* The positions of the list that the scan would accept.
Candidates == {i \in DOMAIN pending : state[pending[i]] \in Runnable}

\* doing.reset() drops the last reference to a fiber whose FiberRun has ended
\* (a suspended fiber is kept alive by the pointer on its own stack), and
\* ~Fiber() asserts that the fiber is in a final state.
DropAsserts(w) ==
    /\ doing[w] # None
    /\ ctx[doing[w]] = "done"
    /\ state[doing[w]] \notin Finished \cup {"INIT"}
    /\ \A v \in Workers \ {w} : doing[v] # doing[w]
    /\ doing[w] \notin Range(pending) \cup armed

ScanCrash(w) ==
    /\ At(w, "scan")
    /\ DropAsserts(w)
    /\ crash' = "dtorAssert"
    /\ UNCHANGED <<flags, pending, active, idle, fibers, timers, pc, doing, idleFiber>>

\* Faulty variant: the iterator is used but the element is not erased.
ScanTakeKeeps(w) ==
    /\ At(w, "scan")
    /\ ~DropAsserts(w)
    /\ \E i \in Candidates :
         /\ \A j \in Candidates : i <= j
         /\ doing' = [doing EXCEPT ![w] = pending[i]]
    /\ pc' = [pc EXCEPT ![w] = "taken"]
    /\ UNCHANGED <<flags, pending, active, idle, fibers, timers, idleFiber, crash>>

\* The first runnable fiber of the list is erased from it under mutex_.
ScanTake(w) ==
    /\ At(w, "scan")
    /\ ~DropAsserts(w)
    /\ \E i \in Candidates :
         /\ \A j \in Candidates : i <= j
         /\ doing' = [doing EXCEPT ![w] = pending[i]]
         /\ pending' = RemoveAt(pending, i)
    /\ pc' = [pc EXCEPT ![w] = "taken"]
    /\ UNCHANGED <<flags, active, idle, fibers, timers, idleFiber, crash>>

ScanNone(w) ==
    /\ At(w, "scan")
    /\ ~DropAsserts(w)
    /\ Candidates = {}
    /\ doing' = [doing EXCEPT ![w] = None]
    /\ pc' = [pc EXCEPT ![w] = "noTask"]
    /\ UNCHANGED <<flags, pending, active, idle, fibers, timers, idleFiber, crash>>

\* Faulty variant: the increment is forgotten.
ActivateForgets(w) ==
    /\ At(w, "taken")
    /\ pc' = [pc EXCEPT ![w] = "swapIn"]
    /\ UNCHANGED <<flags, pending, active, idle, fibers, timers, doing, idleFiber, crash>>

\* ++activeThreadCount_, after the mutex has been released.
Activate(w) ==
    /\ At(w, "taken")
    /\ active' = active + 1
    /\ pc' = [pc EXCEPT ![w] = "swapIn"]
    /\ UNCHANGED <<flags, pending, idle, fibers, timers, doing, idleFiber, crash>>

\* Fiber::swapIn(): the assertion, the new state, the switch.  To switch to a
\* context that is not in ctx_ (it is still on another CPU, or its function
\* has ended) is undefined; the model stops there.
SwapIn(w) ==
    LET f == doing[w] IN
    /\ At(w, "swapIn")
    /\ crash' = CASE state[f] = "EXEC" -> "swapInAssert"
                  [] state[f] # "EXEC" /\ ctx[f] \in {"live", "done"} -> "staleContext"
                  [] OTHER -> "no"
    /\ IF crash' = "no"
         THEN /\ state' = [state EXCEPT ![f] = "EXEC"]
              /\ ctx' = [ctx EXCEPT ![f] = "live"]
              /\ pc' = [pc EXCEPT ![w] = "exec"]
         ELSE UNCHANGED <<state, ctx, pc>>
    /\ UNCHANGED <<flags, pending, active, idle, created, submitted, cb, timers,
                   doing, idleFiber>>

-----------------------------------------------------------------------------
(* What a callback may do while it runs on worker w.                       *)

\* It schedules another callback.
Spawn(w) ==
    /\ At(w, "exec")
    /\ Schedule(1)
    /\ UNCHANGED <<flags, active, idle, timers, pc, doing, idleFiber, crash>>

\* Fiber::YieldToReady and Fiber::YieldToHold up to the call of swapOut: the
\* assertion and the new state.  The context is saved by the next step.
YieldTo(w, s) ==
    LET f == doing[w] IN
    /\ IF state[f] = "EXEC"
         THEN /\ state' = [state EXCEPT ![f] = s]
              /\ pc' = [pc EXCEPT ![w] = "yielded"]
              /\ UNCHANGED crash
         ELSE crash' = "yieldAssert" /\ UNCHANGED <<state, pc>>
    /\ UNCHANGED <<flags, pending, active, idle, created, submitted, cb, ctx,
                   armed, sleeps, doing, idleFiber>>

YieldToReady(w) ==
    /\ At(w, "exec")
    /\ yields < MaxYields
    /\ yields' = yields + 1
    /\ YieldTo(w, "READY")

YieldToHold(w) ==
    /\ At(w, "exec") \/ At(w, "armed")
    /\ YieldTo(w, "HOLD")
    /\ UNCHANGED yields

\* The sleep() hook sets a timer that will pass this very fiber to
\* scheduler(Fiber::ptr), and then calls YieldToHold.
Sleep(w) ==
    /\ At(w, "exec")
    /\ sleeps < MaxSleeps
    /\ sleeps' = sleeps + 1
    /\ armed' = armed \cup {doing[w]}
    /\ pc' = [pc EXCEPT ![w] = "armed"]
    /\ UNCHANGED <<flags, pending, active, idle, fibers, yields, doing, idleFiber,
                   crash>>

\* The timer of f expires: scheduler(Fiber::ptr) appends f to the list.
Fire(f) ==
    /\ crash = "no"
    /\ f \in armed
    /\ armed' = armed \ {f}
    /\ pending' = Append(pending, f)
    /\ UNCHANGED <<flags, active, idle, fibers, yields, sleeps, pc, doing, idleFiber,
                   crash>>

\* swapOut() after a yield: now the context is in ctx_, and the worker is back
\* in run().
SwapOut(w) ==
    /\ At(w, "yielded")
    /\ ctx' = [ctx EXCEPT ![doing[w]] = "saved"]
    /\ pc' = [pc EXCEPT ![w] = "back"]
    /\ UNCHANGED <<flags, pending, active, idle, created, submitted, state, cb,
                   timers, doing, idleFiber, crash>>

\* FiberRun after the callback returned (TERM) or threw (EXCEPTION).
FiberRunEnds(w) ==
    /\ At(w, "exec")
    /\ \E s \in Finished : state' = [state EXCEPT ![doing[w]] = s]
    /\ ctx' = [ctx EXCEPT ![doing[w]] = "done"]
    /\ pc' = [pc EXCEPT ![w] = "back"]
    /\ UNCHANGED <<flags, pending, active, idle, created, submitted, cb, timers,
                   doing, idleFiber, crash>>

-----------------------------------------------------------------------------
(* A worker's loop: after the fiber.                                       *)

\* Faulty variant: the decrement is forgotten.
DeactivateForgets(w) ==
    /\ At(w, "back")
    /\ pc' = [pc EXCEPT ![w] = "ready?"]
    /\ UNCHANGED <<flags, pending, active, idle, fibers, timers, doing, idleFiber, crash>>

Deactivate(w) ==
    /\ At(w, "back")
    /\ active' = active - 1
    /\ pc' = [pc EXCEPT ![w] = "ready?"]
    /\ UNCHANGED <<flags, pending, idle, fibers, timers, doing, idleFiber, crash>>

\* The two tests on the state of the fiber, each a read of its own.
TestReady(w) ==
    /\ At(w, "ready?")
    /\ pc' = [pc EXCEPT ![w] = IF state[doing[w]] = "READY" THEN "again" ELSE "ended?"]
    /\ UNCHANGED <<flags, pending, active, idle, fibers, timers, doing, idleFiber, crash>>

TestEnded(w) ==
    /\ At(w, "ended?")
    /\ pc' = [pc EXCEPT ![w] = IF state[doing[w]] \in Finished THEN "scan" ELSE "hold"]
    /\ UNCHANGED <<flags, pending, active, idle, fibers, timers, doing, idleFiber, crash>>

SetHold(w) ==
    /\ At(w, "hold")
    /\ state' = [state EXCEPT ![doing[w]] = "HOLD"]
    /\ pc' = [pc EXCEPT ![w] = "scan"]
    /\ UNCHANGED <<flags, pending, active, idle, created, submitted, cb, ctx,
                   timers, doing, idleFiber, crash>>

\* Faulty variant: a READY fiber is dropped.
RescheduleDropped(w) ==
    /\ At(w, "again")
    /\ pc' = [pc EXCEPT ![w] = "scan"]
    /\ UNCHANGED <<flags, pending, active, idle, fibers, timers, doing, idleFiber, crash>>

\* A READY fiber is not queued again: its callback gets a new fiber and so
\* starts from the beginning.
Reschedule(w) ==
    /\ At(w, "again")
    /\ ScheduleAgain(doing[w])
    /\ pc' = [pc EXCEPT ![w] = "scan"]
    /\ UNCHANGED <<flags, active, idle, timers, doing, idleFiber, crash>>

-----------------------------------------------------------------------------
(* A worker's loop: nothing to do.                                         *)

\* Faulty variant: nobody asks whether stop() was called.
IsCleanNoFlags == pending = <<>> /\ active = 0

IsClean == autoStop_ /\ clean_ /\ pending = <<>> /\ active = 0

ExitLoop(w) ==
    /\ At(w, "noTask")
    /\ idleFiber[w] \in Finished
    /\ pc' = [pc EXCEPT ![w] = "exited"]
    /\ UNCHANGED <<flags, pending, active, idle, fibers, timers, doing, idleFiber, crash>>

EnterIdle(w) ==
    /\ At(w, "noTask")
    /\ idleFiber[w] \notin Finished
    /\ idle' = idle + 1
    /\ idleFiber' = [idleFiber EXCEPT ![w] = "EXEC"]
    /\ pc' = [pc EXCEPT ![w] = "idling"]
    /\ UNCHANGED <<flags, pending, active, fibers, timers, doing, crash>>

\* Idle(): IsClean() under mutex_ decides between returning and YieldToHold.
IdleFiber(w) ==
    /\ At(w, "idling")
    /\ idleFiber' = [idleFiber EXCEPT ![w] = IF IsClean THEN "TERM" ELSE "HOLD"]
    /\ pc' = [pc EXCEPT ![w] = "idleBack"]
    /\ UNCHANGED <<flags, pending, active, idle, fibers, timers, doing, crash>>

\* Faulty variant: the wrong counter is decremented.
LeaveIdleWrongCounter(w) ==
    /\ At(w, "idleBack")
    /\ active' = active - 1
    /\ pc' = [pc EXCEPT ![w] = "scan"]
    /\ UNCHANGED <<flags, pending, idle, fibers, timers, doing, idleFiber, crash>>

LeaveIdle(w) ==
    /\ At(w, "idleBack")
    /\ idle' = idle - 1
    /\ pc' = [pc EXCEPT ![w] = "scan"]
    /\ UNCHANGED <<flags, pending, active, fibers, timers, doing, idleFiber, crash>>

-----------------------------------------------------------------------------
Callback(w) ==
    \/ Spawn(w)
    \/ YieldToReady(w)
    \/ YieldToHold(w)
    \/ Sleep(w)
    \/ FiberRunEnds(w)

Worker(w) ==
    \/ ScanCrash(w) \/ ScanTake(w) \/ ScanNone(w)
    \/ Activate(w) \/ SwapIn(w)
    \/ Callback(w) \/ SwapOut(w)
    \/ Deactivate(w) \/ TestReady(w) \/ TestEnded(w) \/ SetHold(w) \/ Reschedule(w)
    \/ EnterIdle(w) \/ IdleFiber(w) \/ LeaveIdle(w) \/ ExitLoop(w)

Owner == Start \/ StopAuto \/ StopClean \/ Join

\* The process is over: stop() has returned, or an assertion has failed.
Over == (main = "stopped" \/ crash # "no") /\ UNCHANGED vars

Next ==
    \/ Owner
    \/ Submit
    \/ \E f \in Fibers : Fire(f)
    \/ \E w \in Workers : Worker(w)
    \/ Over

Spec == Init /\ [][Next]_vars

\* Every thread that can take a step takes one in the end: the workers and the
\* owner are preemptively scheduled threads, and no step waits for anything but
\* a mutex that is held for a few instructions.  Nobody has to call stop(), and
\* a callback is as long as the bounds let it be.
Fairness ==
    /\ WF_vars(StopClean \/ Join)
    /\ \A w \in Workers : WF_vars(Worker(w))

FairSpec == Spec /\ Fairness

-----------------------------------------------------------------------------
(* Properties.                                                             *)

\* f is where the scheduler will still deal with it, or has ended, or waits
\* for somebody to pass it to scheduler(Fiber::ptr).
Accounted(f) ==
    \/ state[f] \in Finished \cup {"HOLD"}
    \/ state[f] = "INIT" /\ f \in Range(pending)
    \/ \E w \in Workers : pc[w] \in Busy /\ doing[w] = f

\* No callback is lost on its way through the list, the workers and the
\* restart of READY fibers.
NothingLost ==
    \A c \in 1 .. submitted : \E f \in 1 .. created : cb[f] = c /\ Accounted(f)

\* When stop() has joined the workers, every callback that was ever scheduled
\* has returned, thrown or parked itself with YieldToHold: none is left in the
\* list, although a worker leaves its loop on a test (IsClean, then one more
\* scan) that other workers can invalidate at once.
CompleteAtStop ==
    main = "stopped" =>
        \A c \in 1 .. submitted : \E f \in 1 .. created :
            cb[f] = c /\ state[f] \in Finished \cup {"HOLD"}

\* activeThreadCount_ and idleThreadCount_ are the numbers of workers inside
\* their fiber and inside their idle fiber: the decrements of these size_t
\* counters never wrap around, and IsClean never waits for nobody.
CountersExact ==
    /\ active = Cardinality({w \in Workers : pc[w] \in Counted})
    /\ idle = Cardinality({w \in Workers : pc[w] \in InIdle})

\* As long as no fiber is handed to scheduler(Fiber::ptr) by a sleep, none of the
\* assertions of Fiber.cc fails and no fiber is entered while its context is on
\* another worker's CPU.
NoCrash == sleeps = 0 => crash = "no"

\* The assertion of swapIn (Fiber.cc:126): a worker never enters a fiber that is
\* in state EXEC, whatever timers give back meanwhile.
SwapInFindsSuspended == crash # "swapInAssert"

\* Callbacks leave the list for the first time in the order in which they were
\* scheduled: behind a fiber that was never run stand all those created after it,
\* although the scan passes over fibers that it does not accept, batches come in
\* whole, timers append resumed fibers and a READY one is restarted as a new one.
NoOvertaking ==
    \A i \in DOMAIN pending : state[pending[i]] = "INIT" =>
        \A g \in pending[i] + 1 .. created : \E j \in DOMAIN pending : j > i /\ pending[j] = g

\* stop() returns: all workers leave their loop.
StopReturns == main = "join" ~> main = "stopped" \/ crash # "no"

\* A scheduled callback is started, even if stop() is called meanwhile.
EveryFiberStarts ==
    \A f \in Fibers :
        main # "created" /\ f <= created ~> state[f] # "INIT" \/ crash # "no"

\* Assertion of YieldToHold and YieldToReady, Fiber.cc:170 and 179: a fiber that
\* calls them is in state EXEC.
YieldFindsExec == crash # "yieldAssert"
=============================================================================
