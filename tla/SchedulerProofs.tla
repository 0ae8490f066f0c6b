-------------------------- MODULE SchedulerProofs --------------------------
(***************************************************************************)
(* Theorems about the scheduler, for any pool of workers and any bounds.   *)
(***************************************************************************)
EXTENDS Scheduler, CommonLemmas

USE DEF At, OwnerAt

-----------------------------------------------------------------------------
(* Types and counters.  They are one induction: that the decrements stay   *)
(* in Nat follows from the counters being exact.                           *)

\* A worker that moves from one place of run() to another, with the counters
\* changed as the places say, keeps the counters exact.
LEMMA CountersMove ==
    ASSUME CountersExact, NEW w \in Workers,
           \A v \in Workers \ {w} : pc'[v] = pc[v],
           active' = active + (IF pc'[w] \in Counted THEN 1 ELSE 0)
                            - (IF pc[w] \in Counted THEN 1 ELSE 0),
           idle' = idle + (IF pc'[w] \in InIdle THEN 1 ELSE 0)
                        - (IF pc[w] \in InIdle THEN 1 ELSE 0)
    PROVE  CountersExact' /\ active' \in Nat /\ idle' \in Nat
  <1> DEFINE H(C) == HowMany(Workers, pc, C)
             K(C) == HowMany(Workers, pc', C)
  <1>1. IsFiniteSet(Workers)
    BY WorkersAssumption
  <1>2. ASSUME NEW C
        PROVE  /\ pc[w] \in C /\ pc'[w] \in C => K(C) = H(C)
               /\ pc[w] \notin C /\ pc'[w] \notin C => K(C) = H(C)
               /\ pc[w] \in C /\ pc'[w] \notin C => K(C) = H(C) - 1
               /\ pc[w] \notin C /\ pc'[w] \in C => K(C) = H(C) + 1
    BY <1>1, MoveCount
  <1>3. /\ H(Counted) \in Nat /\ K(Counted) \in Nat
        /\ H(InIdle) \in Nat /\ K(InIdle) \in Nat
    BY <1>1, CountType
  <1>4. active = H(Counted) /\ idle = H(InIdle)
    BY DEF CountersExact, HowMany
  <1>5. CountersExact' <=> active' = K(Counted) /\ idle' = K(InIdle)
    BY DEF CountersExact, HowMany
  <1> HIDE DEF H, K
  <1> QED BY <1>2, <1>3, <1>4, <1>5

\* Starting the workers counts nobody.
LEMMA CountersStart ==
    ASSUME CountersExact, \A w \in Workers : pc[w] = "unborn", Start
    PROVE  CountersExact'
  <1>1. ASSUME NEW C \in {Counted, InIdle}
        PROVE  {w \in Workers : pc'[w] \in C} = {w \in Workers : pc[w] \in C}
    BY DEF Start, Counted, InIdle
  <1> QED BY <1>1 DEF Start, CountersExact

\* Nobody runs before start().
Unborn == main = "created" => \A w \in Workers : pc[w] = "unborn"

\* A worker that deals with a fiber has one.
BusyHolds == \A w \in Workers : pc[w] \in Busy => doing[w] \in Fibers

TypeInv == TypeOK /\ CountersExact /\ Unborn /\ BusyHolds

\* TypeInv holds initially.
LEMMA TypeInit == Init => TypeInv
  <1> SUFFICES ASSUME Init PROVE TypeInv OBVIOUS
  <1> USE BoundsAssumption
  <1>1. TypeOwner
    BY DEF Init, TypeOwner
  <1>2. TypeFibers
    <2>1. pending \in Seq(Fibers) BY EmptySeq DEF Init
    <2> QED BY <2>1 DEF Init, TypeFibers, FiberState, CtxState
  <1>3. TypeWorkers
    BY DEF Init, TypeWorkers, Pcs, FiberState
  <1>4. CountersExact
    <2>1. {w \in Workers : pc[w] \in Counted} = {} /\ {w \in Workers : pc[w] \in InIdle} = {}
      BY DEF Init, Counted, InIdle
    <2> QED BY <2>1, FS_EmptySet DEF Init, CountersExact
  <1> QED BY <1>1, <1>2, <1>3, <1>4 DEF TypeInv, TypeOK, Unborn, BusyHolds, Busy, Init

\* schedulerNoLock appends fresh fibers to the list.
LEMMA NewFibersRange ==
    ASSUME TypeFibers, NEW n \in Nat, Schedule(n)
    PROVE  /\ created \in Nat /\ created + 1 .. created + n \subseteq Fibers
           /\ pending' \in Seq(Fibers)
           /\ Range(pending') = Range(pending) \cup (created + 1 .. created + n)
  <1> USE BoundsAssumption DEF TypeFibers
  <1>1. created \in Nat /\ created + 1 .. created + n \subseteq Fibers
    BY DEF Schedule, Fibers
  <1>2. \A i \in 1 .. n : NewFibers(n)[i] \in Fibers
    BY <1>1 DEF NewFibers
  <1>3. NewFibers(n) \in Seq(Fibers)
    BY <1>2, IsASeq DEF NewFibers
  <1>4. ASSUME NEW x PROVE x \in Range(NewFibers(n)) <=> x \in created + 1 .. created + n
    <2>1. ASSUME x \in created + 1 .. created + n PROVE x \in Range(NewFibers(n))
      <3>1. x - created \in 1 .. n /\ created + (x - created) = x BY <1>1, <2>1
      <3> QED BY <3>1 DEF Range, NewFibers
    <2>2. ASSUME x \in Range(NewFibers(n)) PROVE x \in created + 1 .. created + n
      BY <1>1, <2>2 DEF Range, NewFibers
    <2> QED BY <2>1, <2>2
  <1>5. /\ pending \o NewFibers(n) \in Seq(Fibers)
        /\ Range(pending \o NewFibers(n)) = Range(pending) \cup Range(NewFibers(n))
    BY <1>3, ConcatProperties, RangeConcatenation
  <1> QED BY <1>1, <1>4, <1>5 DEF Schedule

\* scheduler(cb) and schedulerNoLock keep the types: the new fibers are INIT
\* fibers of known callbacks.
LEMMA ScheduleType ==
    ASSUME TypeFibers, NEW n \in Nat, Schedule(n), UNCHANGED timers
    PROVE  TypeFibers'
  <1>1. pending' \in Seq(Fibers)
    BY NewFibersRange
  <1>2. cb' \in [Fibers -> Callbacks \cup {None}]
    BY BoundsAssumption DEF Callbacks, Fibers, TypeFibers, Schedule
  <1>3. created' \in 0 .. MaxFibers /\ submitted' \in 0 .. MaxCallbacks
    BY BoundsAssumption DEF TypeFibers, Schedule
  <1>4. UNCHANGED <<state, ctx, armed, yields, sleeps>>
    BY DEF Schedule, timers
  <1> QED BY ONLY <1>1, <1>2, <1>3, <1>4, TypeFibers DEF TypeFibers

\* The same for the fiber that restarts a callback.
LEMMA ScheduleAgainType ==
    ASSUME TypeFibers, NEW f \in Fibers, ScheduleAgain(f), UNCHANGED timers
    PROVE  TypeFibers'
  <1> USE BoundsAssumption DEF Fibers, TypeFibers, ScheduleAgain, timers
  <1>1. pending' \in Seq(Fibers)
    BY AppendRange
  <1>2. cb' \in [Fibers -> Callbacks \cup {None}]
    OBVIOUS
  <1> QED BY <1>1, <1>2

\* The steps of a worker that only move it and change no fiber.
Moves(w) ==
    \/ ScanNone(w) \/ Activate(w) \/ Deactivate(w) \/ TestReady(w) \/ TestEnded(w)
    \/ ExitLoop(w) \/ EnterIdle(w) \/ IdleFiber(w) \/ LeaveIdle(w)

\* They keep types and counters.
LEMMA MovesType ==
    ASSUME TypeOK, CountersExact, NEW w \in Workers, Moves(w)
    PROVE  TypeOK' /\ CountersExact'
  <1> USE DEF TypeOK, TypeWorkers
  <1>1. TypeOwner' /\ TypeFibers'
    BY DEF Moves, ScanNone, Activate, Deactivate, TestReady, TestEnded, ExitLoop,
           EnterIdle, IdleFiber, LeaveIdle, TypeOwner, TypeFibers, flags, fibers, timers
  <1>2. /\ \A v \in Workers \ {w} : pc'[v] = pc[v]
        /\ active' = active + (IF pc'[w] \in Counted THEN 1 ELSE 0)
                            - (IF pc[w] \in Counted THEN 1 ELSE 0)
        /\ idle' = idle + (IF pc'[w] \in InIdle THEN 1 ELSE 0)
                        - (IF pc[w] \in InIdle THEN 1 ELSE 0)
    BY DEF Moves, ScanNone, Activate, Deactivate, TestReady, TestEnded, ExitLoop,
           EnterIdle, IdleFiber, LeaveIdle, Counted, InIdle
  <1>4. CountersExact' /\ active' \in Nat /\ idle' \in Nat
    BY ONLY <1>2, CountersExact, w \in Workers, CountersMove
  <1>3. /\ pc' \in [Workers -> Pcs]
        /\ doing' \in [Workers -> Fibers \cup {None}]
        /\ idleFiber' \in [Workers -> FiberState]
    BY DEF Moves, ScanNone, Activate, Deactivate, TestReady, TestEnded, ExitLoop,
           EnterIdle, IdleFiber, LeaveIdle, Pcs, FiberState
  <1> QED BY <1>1, <1>3, <1>4

\* The steps of a worker that change fibers.
LEMMA WorkType ==
    ASSUME TypeOK, CountersExact, BusyHolds, NEW w \in Workers,
           \/ ScanCrash(w) \/ ScanTake(w) \/ SwapIn(w) \/ Callback(w) \/ SwapOut(w)
           \/ SetHold(w) \/ Reschedule(w)
    PROVE  TypeOK' /\ CountersExact'
  <1> USE DEF TypeOK, TypeWorkers
  <1>1. TypeOwner'
    BY DEF ScanCrash, ScanTake, SwapIn, Callback, Spawn, YieldToReady, YieldToHold,
           YieldTo, Sleep, FiberRunEnds, SwapOut, SetHold, Reschedule, TypeOwner, flags
  <1>2. TypeFibers'
    <2>1. CASE ScanTake(w)
      <3>1. PICK i \in Candidates : pending' = RemoveAt(pending, i)
        BY <2>1 DEF ScanTake
      <3>2. pending' \in Seq(Fibers)
        BY <3>1, RemoveAtRange DEF Candidates, TypeFibers
      <3> QED BY <2>1, <3>2 DEF ScanTake, TypeFibers, fibers, timers
    <2>2. CASE Spawn(w)
      <3>1. Schedule(1) /\ UNCHANGED timers /\ 1 \in Nat BY <2>2 DEF Spawn
      <3> QED BY <3>1, ScheduleType
    <2>3. CASE Reschedule(w)
      BY <2>3, ScheduleAgainType DEF Reschedule, BusyHolds, Busy
    <2>4. CASE ScanCrash(w) \/ SwapIn(w) \/ SwapOut(w) \/ SetHold(w)
      BY <2>4 DEF ScanCrash, SwapIn, SwapOut, SetHold, TypeFibers, FiberState, CtxState,
                  fibers, timers
    <2>5. CASE YieldToReady(w) \/ YieldToHold(w)
      BY <2>5, BoundsAssumption
         DEF YieldToReady, YieldToHold, YieldTo, TypeFibers, FiberState, timers
    <2>7. CASE FiberRunEnds(w)
      BY <2>7 DEF FiberRunEnds, TypeFibers, FiberState, CtxState, Finished, timers
    <2>6. CASE Sleep(w)
      BY <2>6, BoundsAssumption DEF Sleep, TypeFibers, fibers, BusyHolds, Busy
    <2> QED BY <2>1, <2>2, <2>3, <2>4, <2>5, <2>6, <2>7 DEF Callback
  <1>3. /\ pc' \in [Workers -> Pcs]
        /\ doing' \in [Workers -> Fibers \cup {None}]
        /\ idleFiber' \in [Workers -> FiberState]
    <2>1. CASE ScanTake(w)
      <3>1. PICK i \in Candidates : doing' = [doing EXCEPT ![w] = pending[i]]
        BY <2>1 DEF ScanTake
      <3>2. pending[i] \in Fibers
        BY ElementOfSeq, LenProperties DEF Candidates, TypeFibers
      <3> QED BY <2>1, <3>1, <3>2 DEF ScanTake, Pcs
    <2>2. CASE \/ ScanCrash(w) \/ SwapIn(w) \/ Callback(w) \/ SwapOut(w)
               \/ SetHold(w) \/ Reschedule(w)
      BY <2>2 DEF ScanCrash, SwapIn, Callback, Spawn, YieldToReady, YieldToHold,
           YieldTo, Sleep, FiberRunEnds, SwapOut, SetHold, Reschedule, Pcs
    <2> QED BY <2>1, <2>2
  <1>4. /\ \A v \in Workers \ {w} : pc'[v] = pc[v]
        /\ active' = active + (IF pc'[w] \in Counted THEN 1 ELSE 0)
                            - (IF pc[w] \in Counted THEN 1 ELSE 0)
        /\ idle' = idle + (IF pc'[w] \in InIdle THEN 1 ELSE 0)
                        - (IF pc[w] \in InIdle THEN 1 ELSE 0)
    BY DEF ScanCrash, ScanTake, SwapIn, Callback, Spawn, YieldToReady, YieldToHold,
           YieldTo, Sleep, FiberRunEnds, SwapOut, SetHold, Reschedule, Counted, InIdle
  <1>5. CountersExact' /\ active' \in Nat /\ idle' \in Nat
    BY ONLY <1>4, CountersExact, w \in Workers, CountersMove
  <1> QED BY <1>1, <1>2, <1>3, <1>5

\* TypeInv is inductive.
LEMMA TypeNext == TypeInv /\ [Next]_vars => TypeInv'
  <1> SUFFICES ASSUME TypeInv, [Next]_vars PROVE TypeInv' OBVIOUS
  <1> USE DEF TypeInv
  <1>1. ASSUME NEW w \in Workers, Worker(w) PROVE TypeInv'
    <2>1. TypeOK' /\ CountersExact'
      BY <1>1, MovesType, WorkType DEF Worker, Moves
    <2>2. main' = main /\ pc[w] # "unborn"
      BY <1>1 DEF Worker, ScanCrash, ScanTake, ScanNone, Activate, SwapIn, Callback,
           Spawn, YieldToReady, YieldToHold, YieldTo, Sleep, FiberRunEnds, SwapOut,
           Deactivate, TestReady, TestEnded, SetHold, Reschedule, ExitLoop, EnterIdle,
           IdleFiber, LeaveIdle, flags
    <2>3. BusyHolds'
      <3>1. CASE ScanTake(w)
        <4>1. PICK i \in Candidates : doing' = [doing EXCEPT ![w] = pending[i]]
          BY <3>1 DEF ScanTake
        <4>2. pending[i] \in Fibers
          BY ElementOfSeq, LenProperties DEF Candidates, TypeFibers, TypeOK
        <4> QED BY <3>1, <4>1, <4>2 DEF ScanTake, BusyHolds, TypeOK, TypeWorkers
      <3>2. CASE ~ScanTake(w)
        BY <1>1, <3>2 DEF Worker, ScanCrash, ScanNone, Activate, SwapIn, Callback,
           Spawn, YieldToReady, YieldToHold, YieldTo, Sleep, FiberRunEnds, SwapOut,
           Deactivate, TestReady, TestEnded, SetHold, Reschedule, ExitLoop, EnterIdle,
           IdleFiber, LeaveIdle, BusyHolds, Busy, TypeOK, TypeWorkers
      <3> QED BY <3>1, <3>2
    <2> QED BY <2>1, <2>2, <2>3 DEF Unborn
  <1>2. CASE Start
    <2>1. CountersExact'
      BY <1>2, CountersStart DEF Unborn, Start
    <2>2. TypeOK'
      BY <1>2 DEF Start, TypeOK, TypeOwner, TypeFibers, TypeWorkers, Pcs, fibers, timers
    <2> QED BY <1>2, <2>1, <2>2 DEF Start, Unborn, BusyHolds, Busy
  <1>3. CASE StopAuto \/ StopClean \/ Join
    <2>1. TypeOK'
      BY <1>3 DEF StopAuto, StopClean, Join, TypeOK, TypeOwner, TypeFibers, TypeWorkers,
                  fibers, timers
    <2> QED BY <1>3, <2>1 DEF StopAuto, StopClean, Join, CountersExact, Unborn, BusyHolds
  <1>4. CASE Submit
    <2>1. TypeFibers'
      <3>1. PICK n \in 1 .. 2 : Schedule(n) BY <1>4 DEF Submit
      <3>2. n \in Nat /\ UNCHANGED timers BY <1>4 DEF Submit
      <3> QED BY <3>1, <3>2, ScheduleType DEF TypeOK
    <2> QED BY <1>4, <2>1 DEF Submit, TypeOK, TypeOwner, TypeWorkers, CountersExact,
                              Unborn, BusyHolds, flags
  <1>5. ASSUME NEW f \in Fibers, Fire(f) PROVE TypeInv'
    <2>1. pending' \in Seq(Fibers)
      BY <1>5, AppendRange DEF Fire, TypeOK, TypeFibers
    <2>2. TypeFibers'
      BY <1>5, <2>1 DEF Fire, TypeOK, TypeFibers, fibers
    <2> QED BY <1>5, <2>2 DEF Fire, TypeOK, TypeOwner, TypeWorkers, CountersExact,
                              Unborn, BusyHolds, flags
  <1>6. CASE UNCHANGED vars
    BY <1>6 DEF vars, TypeOK, TypeOwner, TypeFibers, TypeWorkers, CountersExact, Unborn,
                BusyHolds
  <1> QED BY <1>1, <1>2, <1>3, <1>4, <1>5, <1>6 DEF Next, Owner, Over

LEMMA TypeInvAlways == Spec => []TypeInv
  BY TypeInit, TypeNext, PTL DEF Spec

\* Every variable of the scheduler keeps its type, for any number of workers.
THEOREM TypesCorrect == Spec => []TypeOK
  <1>1. TypeInv => TypeOK
    BY DEF TypeInv
  <1> QED BY <1>1, TypeInvAlways, PTL

\* The two thread counters of the scheduler are exact in every reachable state.
THEOREM CountersCorrect == Spec => []CountersExact
  <1>1. TypeInv => CountersExact
    BY DEF TypeInv
  <1> QED BY <1>1, TypeInvAlways, PTL

-----------------------------------------------------------------------------
(* No callback is lost.                                                    *)

\* The fibers in the list, with the timers and with the workers exist, and a
\* fiber that does not exist yet will be INIT when it does.
Known ==
    /\ Range(pending) \subseteq 1 .. created
    /\ armed \subseteq 1 .. created
    /\ \A w \in Workers : pc[w] \in Busy => doing[w] \in 1 .. created
    /\ \A f \in Fibers : f > created => state[f] = "INIT"

\* A fiber that has been entered never is INIT again; only such a fiber sleeps.
Entered ==
    /\ \A w \in Workers : pc[w] \in Busy \ {"taken", "swapIn"} => state[doing[w]] # "INIT"
    /\ \A f \in armed : state[f] # "INIT"

\* How far stop() has got, and what it allows the workers to have done.
Phases ==
    /\ main \in {"created", "started"} => ~autoStop_
    /\ main \in {"started", "stop1"} => ~clean_
    /\ main \notin {"join", "stopped"} => \A w \in Workers : idleFiber[w] \notin Finished
    /\ \A w \in Workers : pc[w] = "exited" => idleFiber[w] \in Finished
    /\ main = "stopped" => \A w \in Workers : pc[w] = "exited"

\* Worker w will go through the list once more before it leaves its loop.
WillScan(w) ==
    pc[w] # "exited" /\ ~(pc[w] = "noTask" /\ idleFiber[w] \in Finished)

\* A fiber that waits in the list for its first run has a worker to find it.
SomeoneScans ==
    (\E f \in Range(pending) : state[f] = "INIT") => \E w \in Workers : WillScan(w)

IInv == TypeInv /\ Known /\ Entered /\ Phases /\ SomeoneScans /\ NothingLost

\* What the steps do to the list, as a set.
LEMMA TakeRange ==
    ASSUME TypeInv, NEW w \in Workers, ScanTake(w)
    PROVE  \E f \in Range(pending) :
             /\ state[f] \in Runnable
             /\ doing' = [doing EXCEPT ![w] = f]
             /\ Range(pending) = Range(pending') \cup {f}
  <1>1. PICK i \in Candidates : /\ doing' = [doing EXCEPT ![w] = pending[i]]
                                /\ pending' = RemoveAt(pending, i)
    BY DEF ScanTake
  <1>2. i \in DOMAIN pending /\ state[pending[i]] \in Runnable /\ pending \in Seq(Fibers)
    BY DEF Candidates, TypeInv, TypeOK, TypeFibers
  <1>3. Range(pending) = Range(pending') \cup {pending[i]}
    BY <1>1, <1>2, RemoveAtRange
  <1>4. pending[i] \in Range(pending)
    BY <1>2 DEF Range
  <1> QED BY <1>1, <1>2, <1>3, <1>4

\* scheduler(cb) adds its fibers to the list and removes none.
LEMMA ScheduleRange ==
    ASSUME TypeInv, NEW n \in Nat, Schedule(n)
    PROVE  /\ created' = created + n
           /\ created \in Nat
           /\ created + 1 .. created + n \subseteq Fibers
           /\ Range(pending') = Range(pending) \cup (created + 1 .. created + n)
  <1>1. created' = created + n BY DEF Schedule
  <1> QED BY <1>1, NewFibersRange DEF TypeInv, TypeOK

\* Rescheduling a fiber (scheduler(Fiber::ptr)) adds one entry and removes none.
LEMMA ScheduleAgainRange ==
    ASSUME TypeInv, NEW f, ScheduleAgain(f)
    PROVE  /\ created' = created + 1
           /\ created \in Nat
           /\ created + 1 \in Fibers
           /\ Range(pending') = Range(pending) \cup {created + 1}
  <1> USE BoundsAssumption DEF TypeInv, TypeOK, TypeFibers
  <1>1. created \in Nat /\ created + 1 \in Fibers
    BY DEF ScheduleAgain, Fibers
  <1> QED BY <1>1, AppendRange DEF ScheduleAgain

\* A timer that hands a sleeping fiber back adds one entry and removes none.
LEMMA FireRange ==
    ASSUME TypeInv, NEW f \in Fibers, Fire(f)
    PROVE  Range(pending') = Range(pending) \cup {f}
  BY AppendRange DEF Fire, TypeInv, TypeOK, TypeFibers

\* The steps of worker w that neither touch the list nor create a fiber.
Quiet(w) ==
    \/ ScanCrash(w) \/ ScanNone(w) \/ Activate(w) \/ SwapIn(w)
    \/ YieldToReady(w) \/ YieldToHold(w) \/ Sleep(w) \/ FiberRunEnds(w) \/ SwapOut(w)
    \/ Deactivate(w) \/ TestReady(w) \/ TestEnded(w) \/ SetHold(w)
    \/ EnterIdle(w) \/ IdleFiber(w) \/ LeaveIdle(w) \/ ExitLoop(w)

\* What such a step can do to the fibers: it changes the state of the fiber the
\* worker deals with, never back to INIT.
LEMMA QuietFacts ==
    ASSUME TypeInv, NEW w \in Workers, Quiet(w)
    PROVE  /\ UNCHANGED <<pending, created, submitted, cb, main, autoStop_, clean_>>
           /\ \A v \in Workers \ {w} : /\ pc'[v] = pc[v]
                                       /\ doing'[v] = doing[v]
                                       /\ idleFiber'[v] = idleFiber[v]
           /\ pc[w] \in Busy => doing'[w] = doing[w]
           /\ pc[w] \notin Busy => pc'[w] \notin Busy /\ state' = state
           /\ \A f \in Fibers : f # doing[w] => state'[f] = state[f]
           /\ \A f \in Fibers : state'[f] = state[f] \/ state'[f] # "INIT"
           /\ armed' = armed \/ (pc[w] = "exec" /\ armed' = armed \cup {doing[w]})
  <1> USE DEF Quiet, ScanCrash, ScanNone, Activate, Deactivate, TestReady, TestEnded,
              EnterIdle, IdleFiber, LeaveIdle, ExitLoop, SwapIn, YieldToReady,
              YieldToHold, YieldTo, Sleep, SwapOut, SetHold, FiberRunEnds, Finished
  <1>1. UNCHANGED <<pending, created, submitted, cb, main, autoStop_, clean_>>
    BY DEF flags, fibers
  <1>2. \A v \in Workers \ {w} : /\ pc'[v] = pc[v]
                                 /\ doing'[v] = doing[v]
                                 /\ idleFiber'[v] = idleFiber[v]
    BY DEF TypeInv, TypeOK, TypeWorkers
  <1>3. pc[w] \in Busy => doing'[w] = doing[w]
    BY DEF Busy
  <1>4. pc[w] \notin Busy => pc'[w] \notin Busy /\ state' = state
    BY DEF Busy, TypeInv, TypeOK, TypeWorkers, fibers
  <1>5. /\ \A f \in Fibers : f # doing[w] => state'[f] = state[f]
        /\ \A f \in Fibers : state'[f] = state[f] \/ state'[f] # "INIT"
    BY DEF TypeInv, TypeOK, TypeFibers, fibers
  <1>6. armed' = armed \/ (pc[w] = "exec" /\ armed' = armed \cup {doing[w]})
    BY DEF timers
  <1> QED BY ONLY <1>1, <1>2, <1>3, <1>4, <1>5, <1>6

\* A step of a worker either takes from or adds to the list, or is quiet.
LEMMA WorkerSplit ==
    ASSUME NEW w \in Workers, Worker(w)
    PROVE  Quiet(w) \/ ScanTake(w) \/ Spawn(w) \/ Reschedule(w)
  BY DEF Worker, Callback, Quiet

\* A worker's step keeps Known: lists, timers and workers only name existing fibers.
LEMMA KnownWorker ==
    ASSUME IInv, NEW w \in Workers, Worker(w)
    PROVE  Known'
  <1> USE DEF IInv
  <1>0. created \in Nat /\ created <= MaxFibers /\ MaxFibers \in Nat
    BY BoundsAssumption DEF TypeInv, TypeOK, TypeFibers
  <1>1. CASE Quiet(w)
    <2>1. \A f \in Fibers : f > created => f # doing[w] \/ pc[w] \notin Busy
      BY <1>0 DEF Known, Fibers
    <2>2. "exec" \in Busy BY DEF Busy
    <2>3. Range(pending') \subseteq 1 .. created' /\ armed' \subseteq 1 .. created'
      <3>1. pending' = pending /\ created' = created
        BY <1>1, QuietFacts
      <3>2. armed' = armed \/ (pc[w] \in Busy /\ armed' = armed \cup {doing[w]})
        BY <1>1, <2>2, QuietFacts
      <3> QED BY <3>1, <3>2 DEF Known
    <2>4. \A v \in Workers : pc'[v] \in Busy => doing'[v] \in 1 .. created'
      BY <1>1, QuietFacts DEF Known
    <2>5. \A f \in Fibers : f > created' => state'[f] = "INIT"
      BY <1>1, <2>1, QuietFacts DEF Known
    <2> QED BY <2>3, <2>4, <2>5 DEF Known
  <1>2. CASE ScanTake(w)
    <2>1. PICK f \in Range(pending) : /\ doing' = [doing EXCEPT ![w] = f]
                                      /\ Range(pending) = Range(pending') \cup {f}
      BY <1>2, TakeRange
    <2> QED BY <1>2, <2>1 DEF Known, ScanTake, fibers, timers, TypeInv, TypeOK, TypeWorkers, Busy
  <1>3. CASE Spawn(w)
    <2>1. /\ created' = created + 1
          /\ Range(pending') = Range(pending) \cup (created + 1 .. created + 1)
      BY <1>3, ScheduleRange DEF Spawn
    <2>2. UNCHANGED <<state, armed, pc, doing>>
      BY <1>3 DEF Spawn, Schedule, timers
    <2> QED BY <1>0, <2>1, <2>2 DEF Known, Fibers
  <1>4. CASE Reschedule(w)
    <2>1. /\ created' = created + 1
          /\ Range(pending') = Range(pending) \cup {created + 1}
      BY <1>4, ScheduleAgainRange DEF Reschedule
    <2>2. UNCHANGED <<state, armed, doing>>
      BY <1>4 DEF Reschedule, ScheduleAgain, timers
    <2>3. \A v \in Workers : pc'[v] \in Busy => pc[v] \in Busy
      BY <1>4 DEF Reschedule, Busy, TypeInv, TypeOK, TypeWorkers
    <2> QED BY <1>0, <2>1, <2>2, <2>3 DEF Known, Fibers
  <1> QED BY <1>1, <1>2, <1>3, <1>4, WorkerSplit

\* A worker's step keeps Entered: a fiber that has been entered is not INIT again.
LEMMA EnteredWorker ==
    ASSUME IInv, NEW w \in Workers, Worker(w)
    PROVE  Entered'
  <1> USE DEF IInv
  <1>1. CASE Quiet(w)
    <2>1. \A v \in Workers : pc[v] \in Busy => doing[v] \in Fibers
      BY DEF TypeInv, BusyHolds
    <2>2. "exec" \in Busy \ {"taken", "swapIn"} BY DEF Busy
    <2>3. armed \subseteq Fibers BY DEF TypeInv, TypeOK, TypeFibers
    <2>4. pc'[w] \in Busy \ {"taken", "swapIn"} => state'[doing'[w]] # "INIT"
      <3>1. CASE pc[w] \in Busy \ {"taken", "swapIn"}
        BY <1>1, <2>1, <3>1, QuietFacts DEF Entered
      <3>2. CASE pc[w] \notin Busy
        BY <1>1, <3>2, QuietFacts
      <3>3. CASE pc[w] = "taken"
        BY <1>1, <3>3 DEF Quiet, ScanCrash, ScanNone, Activate, Deactivate, TestReady,
             TestEnded, EnterIdle, IdleFiber, LeaveIdle, ExitLoop, SwapIn, YieldToReady,
             YieldToHold, Sleep, SwapOut, SetHold, FiberRunEnds, TypeInv, TypeOK, TypeWorkers
      <3>4. CASE pc[w] = "swapIn"
        BY <1>1, <3>4, <2>1 DEF Quiet, ScanCrash, ScanNone, Activate, Deactivate, TestReady,
             TestEnded, EnterIdle, IdleFiber, LeaveIdle, ExitLoop, SwapIn, YieldToReady,
             YieldToHold, Sleep, SwapOut, SetHold, FiberRunEnds, TypeInv, TypeOK, TypeWorkers,
             TypeFibers, Busy
      <3> QED BY <3>1, <3>2, <3>3, <3>4
    <2>5. ASSUME NEW v \in Workers \ {w}, pc'[v] \in Busy \ {"taken", "swapIn"}
          PROVE  state'[doing'[v]] # "INIT"
      BY <1>1, <2>1, <2>5, QuietFacts DEF Entered
    <2>6. ASSUME NEW f \in armed' PROVE state'[f] # "INIT"
      BY <1>1, <2>1, <2>2, <2>3, QuietFacts DEF Entered
    <2> QED BY <2>4, <2>5, <2>6 DEF Entered
  <1>2. CASE ScanTake(w)
    BY <1>2 DEF Entered, ScanTake, fibers, timers, TypeInv, TypeOK, TypeWorkers
  <1>3. CASE Spawn(w)
    BY <1>3 DEF Entered, Spawn, Schedule, timers
  <1>4. CASE Reschedule(w)
    BY <1>4 DEF Entered, Reschedule, ScheduleAgain, timers, TypeInv, TypeOK, TypeWorkers, Busy
  <1> QED BY <1>1, <1>2, <1>3, <1>4, WorkerSplit

\* A worker's step keeps Phases: nobody leaves run() before stop() allows it.
LEMMA PhasesWorker ==
    ASSUME IInv, NEW w \in Workers, Worker(w)
    PROVE  Phases'
  <1> USE DEF IInv
  <1>1. main' = main /\ autoStop_' = autoStop_ /\ clean_' = clean_
    BY DEF Worker, ScanCrash, ScanTake, ScanNone, Activate, SwapIn, Callback,
           Spawn, YieldToReady, YieldToHold, YieldTo, Sleep, FiberRunEnds, SwapOut,
           Deactivate, TestReady, TestEnded, SetHold, Reschedule, ExitLoop, EnterIdle,
           IdleFiber, LeaveIdle, flags
  <1>2. pc[w] # "exited"
    BY DEF Worker, ScanCrash, ScanTake, ScanNone, Activate, SwapIn, Callback,
           Spawn, YieldToReady, YieldToHold, Sleep, FiberRunEnds, SwapOut,
           Deactivate, TestReady, TestEnded, SetHold, Reschedule, ExitLoop, EnterIdle,
           IdleFiber, LeaveIdle
  <1>3. IsClean => main \in {"join", "stopped"}
    BY DEF IsClean, Phases, TypeInv, TypeOK, TypeOwner
  <1>4. \/ UNCHANGED idleFiber /\ (pc'[w] = "exited" => idleFiber[w] \in Finished)
        \/ pc'[w] # "exited" /\ idleFiber' = [idleFiber EXCEPT ![w] = "EXEC"]
        \/ pc'[w] # "exited" /\ IsClean /\ idleFiber' = [idleFiber EXCEPT ![w] = "TERM"]
        \/ pc'[w] # "exited" /\ idleFiber' = [idleFiber EXCEPT ![w] = "HOLD"]
    BY DEF Worker, ScanCrash, ScanTake, ScanNone, Activate, SwapIn, Callback,
           Spawn, YieldToReady, YieldToHold, YieldTo, Sleep, FiberRunEnds, SwapOut,
           Deactivate, TestReady, TestEnded, SetHold, Reschedule, ExitLoop, EnterIdle,
           IdleFiber, LeaveIdle, TypeInv, TypeOK, TypeWorkers
  <1>5. \A v \in Workers \ {w} : pc'[v] = pc[v]
    BY DEF Worker, ScanCrash, ScanTake, ScanNone, Activate, SwapIn, Callback,
           Spawn, YieldToReady, YieldToHold, YieldTo, Sleep, FiberRunEnds, SwapOut,
           Deactivate, TestReady, TestEnded, SetHold, Reschedule, ExitLoop, EnterIdle,
           IdleFiber, LeaveIdle, TypeInv, TypeOK, TypeWorkers
  <1>6. idleFiber \in [Workers -> FiberState]
    BY DEF TypeInv, TypeOK, TypeWorkers
  <1> QED BY <1>1, <1>2, <1>3, <1>4, <1>5, <1>6 DEF Phases, Finished

\* A worker's step keeps SomeoneScans: while a new fiber waits in the list, a
\* worker is left that will go through it again.
LEMMA SomeoneScansWorker ==
    ASSUME IInv, NEW w \in Workers, Worker(w)
    PROVE  SomeoneScans'
  <1> USE DEF IInv
  <1>1. CASE Spawn(w) \/ Reschedule(w) \/ ScanTake(w)
    <2>1. WillScan(w)'
      BY <1>1 DEF Spawn, Reschedule, ScanTake, WillScan, TypeInv, TypeOK, TypeWorkers
    <2> QED BY <2>1 DEF SomeoneScans
  <1>2. CASE Quiet(w)
    <2>1. CASE ScanNone(w)
      <3>1. \A f \in Range(pending) : state[f] \notin Runnable
        BY <2>1 DEF ScanNone, Candidates, Range
      <3>2. UNCHANGED <<pending, state>>
        BY <2>1 DEF ScanNone, fibers
      <3> QED BY <3>1, <3>2 DEF SomeoneScans, Runnable
    <2>2. CASE ~ScanNone(w)
      <3>1. /\ pending' = pending
            /\ Range(pending) \subseteq Fibers
            /\ \A f \in Fibers : state'[f] = "INIT" => state[f] = "INIT"
        <4>1. Range(pending) \subseteq Fibers
          BY RangeOfSeq DEF TypeInv, TypeOK, TypeFibers
        <4> QED BY <1>2, <4>1, QuietFacts
      <3>2. WillScan(w) => WillScan(w)'
        BY <1>2, <2>2 DEF Quiet, ScanCrash, Activate, SwapIn, YieldToReady, YieldToHold,
             YieldTo, Sleep, FiberRunEnds, SwapOut, Deactivate, TestReady, TestEnded,
             SetHold, ExitLoop, EnterIdle, IdleFiber, LeaveIdle, WillScan, TypeInv, TypeOK,
             TypeWorkers, Finished
      <3>3. \A v \in Workers \ {w} : WillScan(v) => WillScan(v)'
        BY <1>2, QuietFacts DEF WillScan
      <3> QED BY <3>1, <3>2, <3>3 DEF SomeoneScans
    <2> QED BY <2>1, <2>2
  <1> QED BY <1>1, <1>2, WorkerSplit

\* Scheduling a callback loses none of the ones already accounted for.
LEMMA NothingLostSchedule ==
    ASSUME IInv, NEW n \in Nat, Schedule(n), UNCHANGED <<pc, doing>>
    PROVE  NothingLost'
  <1> USE DEF IInv
  <1>0. /\ created \in Nat /\ created <= MaxFibers /\ MaxFibers \in Nat
        /\ submitted \in Nat /\ submitted' = submitted + n /\ state' = state
    BY BoundsAssumption DEF TypeInv, TypeOK, TypeFibers, Schedule
  <1>1. /\ created' = created + n
        /\ created + 1 .. created + n \subseteq Fibers
        /\ Range(pending') = Range(pending) \cup (created + 1 .. created + n)
    BY ScheduleRange
  <1>2. /\ \A f \in 1 .. created : cb'[f] = cb[f]
        /\ \A f \in created + 1 .. created + n : cb'[f] = submitted + (f - created)
    BY <1>0, <1>1 DEF Schedule, Fibers
  <1>3. ASSUME NEW c \in 1 .. submitted
        PROVE  \E f \in 1 .. created' : cb'[f] = c /\ Accounted(f)'
    <2>1. PICK f \in 1 .. created : cb[f] = c /\ Accounted(f)
      BY DEF NothingLost
    <2>2. Accounted(f)'
      BY <1>0, <1>1, <2>1 DEF Accounted
    <2> QED BY <1>0, <1>1, <1>2, <2>1, <2>2
  <1>4. ASSUME NEW c \in submitted + 1 .. submitted + n
        PROVE  \E f \in 1 .. created' : cb'[f] = c /\ Accounted(f)'
    <2>0. PICK f : f = created + (c - submitted)
      OBVIOUS
    <2>1. f \in created + 1 .. created + n /\ submitted + (f - created) = c
      BY <1>0, <2>0
    <2>2. f \in 1 .. created' /\ f \in Fibers /\ f > created /\ f \in Range(pending')
      BY <1>0, <1>1, <2>1
    <2>3. cb'[f] = c
      BY <1>2, <2>1
    <2>4. state'[f] = "INIT"
      BY <1>0, <2>2 DEF Known
    <2>5. Accounted(f)'
      BY <2>2, <2>4 DEF Accounted
    <2> QED BY <2>2, <2>3, <2>5
  <1> QED BY <1>0, <1>3, <1>4 DEF NothingLost

\* A worker's step loses no callback: what leaves the list is in the worker's hand.
LEMMA NothingLostWorker ==
    ASSUME IInv, NEW w \in Workers, Worker(w)
    PROVE  NothingLost'
  <1> USE DEF IInv
  <1>0. /\ created \in Nat /\ created <= MaxFibers /\ MaxFibers \in Nat
        /\ submitted \in Nat
    BY BoundsAssumption DEF TypeInv, TypeOK, TypeFibers
  <1>1. CASE Quiet(w)
    <2>1. ASSUME NEW f \in 1 .. created, Accounted(f) PROVE Accounted(f)'
      <3>1. f \in Fibers
        BY <1>0 DEF Fibers
      <3>2. CASE f # doing[w] \/ pc[w] \notin Busy
        <4>1. state'[f] = state[f] /\ pending' = pending
          BY <1>1, <3>1, <3>2, QuietFacts
        <4>2. ASSUME NEW v \in Workers, pc[v] \in Busy, doing[v] = f
              PROVE  pc'[v] \in Busy /\ doing'[v] = f
          BY <1>1, <3>2, <4>2, QuietFacts
        <4> QED BY <2>1, <4>1, <4>2 DEF Accounted
      <3>3. CASE f = doing[w] /\ pc[w] \in Busy /\ pc'[w] \in Busy
        BY <1>1, <3>3, QuietFacts DEF Accounted
      <3>4. CASE f = doing[w] /\ pc[w] \in Busy /\ pc'[w] \notin Busy
        <4>1. state'[f] \in Finished \cup {"HOLD"}
          BY <1>1, <3>1, <3>4 DEF Quiet, ScanCrash, ScanNone, Activate, SwapIn,
             YieldToReady, YieldToHold, YieldTo, Sleep, FiberRunEnds, SwapOut, Deactivate,
             TestReady, TestEnded, SetHold, ExitLoop, EnterIdle, IdleFiber, LeaveIdle,
             Busy, TypeInv, TypeOK, TypeWorkers, TypeFibers, fibers
        <4> QED BY <4>1 DEF Accounted
      <3> QED BY <3>2, <3>3, <3>4
    <2>2. UNCHANGED <<created, submitted, cb>>
      BY <1>1, QuietFacts
    <2> QED BY <2>1, <2>2 DEF NothingLost
  <1>2. CASE ScanTake(w)
    <2>1. PICK g \in Range(pending) : /\ doing' = [doing EXCEPT ![w] = g]
                                      /\ Range(pending) = Range(pending') \cup {g}
      BY <1>2, TakeRange
    <2>2. /\ pc[w] \notin Busy /\ pc'[w] \in Busy /\ doing'[w] = g
          /\ \A v \in Workers \ {w} : pc'[v] = pc[v] /\ doing'[v] = doing[v]
      BY <1>2, <2>1 DEF ScanTake, Busy, TypeInv, TypeOK, TypeWorkers
    <2>3. UNCHANGED <<created, submitted, cb, state>>
      BY <1>2 DEF ScanTake, fibers
    <2>4. ASSUME NEW f, Accounted(f) PROVE Accounted(f)'
      BY <2>1, <2>2, <2>3, <2>4 DEF Accounted
    <2> QED BY <2>3, <2>4 DEF NothingLost
  <1>3. CASE Spawn(w)
    BY <1>3, NothingLostSchedule DEF Spawn
  <1>4. CASE Reschedule(w)
    <2>a. PICK g : g = doing[w] OBVIOUS
    <2>b. PICK h : h = created + 1 OBVIOUS
    <2>1. /\ created' = h /\ h \in Fibers
          /\ Range(pending') = Range(pending) \cup {h}
      BY <1>4, <2>b, ScheduleAgainRange DEF Reschedule
    <2>2. /\ cb' = [cb EXCEPT ![h] = cb[g]] /\ cb \in [Fibers -> Callbacks \cup {None}]
          /\ UNCHANGED <<submitted, state, doing>>
          /\ \A v \in Workers \ {w} : pc'[v] = pc[v]
      BY <1>4, <2>a, <2>b
         DEF Reschedule, ScheduleAgain, TypeInv, TypeOK, TypeFibers, TypeWorkers
    <2>3. state[h] = "INIT" /\ h > created
      BY <1>0, <2>1, <2>b DEF Known
    <2>4. Accounted(h)'
      BY <2>1, <2>2, <2>3 DEF Accounted
    <2>5. ASSUME NEW c \in 1 .. submitted
          PROVE  \E f \in 1 .. h : cb'[f] = c /\ Accounted(f)'
      <3>1. PICK f \in 1 .. created : cb[f] = c /\ Accounted(f)
        BY DEF NothingLost
      <3>2. CASE f = g
        <4>1. h \in 1 .. h BY <1>0, <2>b
        <4>2. cb'[h] = c BY <2>1, <2>2, <3>1, <3>2
        <4> QED BY <2>4, <4>1, <4>2
      <3>3. CASE f # g
        <4>1. Accounted(f)'
          BY <2>1, <2>2, <2>a, <3>1, <3>3 DEF Accounted
        <4>2. cb'[f] = c /\ f \in 1 .. h
          BY <1>0, <2>2, <2>b, <3>1 DEF Fibers
        <4> QED BY <4>1, <4>2
      <3> QED BY <3>2, <3>3
    <2> QED BY <2>1, <2>2, <2>5 DEF NothingLost
  <1> QED BY <1>1, <1>2, <1>3, <1>4, WorkerSplit

\* The owner's steps and the timers.
LEMMA OwnerStep ==
    ASSUME IInv, Owner
    PROVE  Known' /\ Entered' /\ Phases' /\ SomeoneScans' /\ NothingLost'
  <1> USE DEF IInv
  <1>1. UNCHANGED <<pending, created, submitted, state, cb, armed, doing, idleFiber>>
    BY DEF Owner, Start, StopAuto, StopClean, Join, fibers, timers
  <1>2. CASE Start
    <2>1. \A v \in Workers : pc[v] \notin Busy /\ pc'[v] = "scan"
      BY <1>2 DEF Start, TypeInv, Unborn, Busy
    <2>2. Known' /\ Entered' /\ NothingLost'
      BY <1>1, <2>1 DEF Known, Entered, NothingLost, Accounted, Busy
    <2>3. Phases'
      BY <1>1, <1>2, <2>1 DEF Start, Phases
    <2>4. SomeoneScans'
      BY <2>1, WorkersAssumption DEF SomeoneScans, WillScan
    <2> QED BY <2>2, <2>3, <2>4
  <1>3. CASE StopAuto \/ StopClean \/ Join
    <2>1. pc' = pc
      BY <1>3 DEF StopAuto, StopClean, Join
    <2>2. Phases'
      BY <1>1, <1>3, <2>1 DEF StopAuto, StopClean, Join, Phases
    <2> QED BY <1>1, <2>1, <2>2 DEF Known, Entered, SomeoneScans, WillScan, NothingLost,
                                    Accounted
  <1> QED BY <1>2, <1>3 DEF Owner

\* The owner's scheduler(cb) keeps the inductive invariant.
LEMMA SubmitStep ==
    ASSUME IInv, Submit
    PROVE  Known' /\ Entered' /\ Phases' /\ SomeoneScans' /\ NothingLost'
  <1> USE DEF IInv
  <1>1. PICK n \in 1 .. 2 : Schedule(n)
    BY DEF Submit
  <1>2. n \in Nat
    OBVIOUS
  <1>3. /\ created' = created + n /\ created \in Nat
        /\ Range(pending') = Range(pending) \cup (created + 1 .. created + n)
    BY <1>1, <1>2, ScheduleRange
  <1>4. UNCHANGED <<main, autoStop_, clean_, pc, doing, idleFiber, armed, state>>
    BY <1>1 DEF Submit, Schedule, flags, timers
  <1>5. Known'
    BY <1>2, <1>3, <1>4 DEF Known, Fibers
  <1>6. Entered' /\ Phases'
    BY <1>4 DEF Entered, Phases
  <1>7. SomeoneScans'
    BY <1>4, WorkersAssumption DEF Submit, SomeoneScans, WillScan, Phases
  <1>8. NothingLost'
    BY <1>1, <1>2, <1>4, NothingLostSchedule
  <1> QED BY <1>5, <1>6, <1>7, <1>8

\* A timer that fires keeps the inductive invariant.
LEMMA FireStep ==
    ASSUME IInv, NEW f \in Fibers, Fire(f)
    PROVE  Known' /\ Entered' /\ Phases' /\ SomeoneScans' /\ NothingLost'
  <1> USE DEF IInv
  <1>1. Range(pending') = Range(pending) \cup {f}
    BY FireRange
  <1>2. /\ UNCHANGED <<main, autoStop_, clean_, pc, doing, idleFiber, state, created,
                       submitted, cb>>
        /\ f \in armed /\ armed' = armed \ {f}
    BY DEF Fire, flags, fibers
  <1>3. Known' /\ Entered' /\ Phases'
    BY <1>1, <1>2 DEF Known, Entered, Phases
  <1>4. SomeoneScans'
    BY <1>1, <1>2 DEF SomeoneScans, WillScan, Entered
  <1>5. NothingLost'
    BY <1>1, <1>2 DEF NothingLost, Accounted
  <1> QED BY <1>3, <1>4, <1>5

\* The inductive invariant holds when the Scheduler has been constructed.
LEMMA IInvInit == Init => IInv
  <1> SUFFICES ASSUME Init PROVE IInv OBVIOUS
  <1>1. TypeInv BY TypeInit
  <1>2. Range(pending) = {} BY DEF Init, Range
  <1>3. Known /\ Entered /\ SomeoneScans
    BY <1>2 DEF Init, Known, Entered, SomeoneScans, Busy
  <1>4. Phases /\ NothingLost
    BY DEF Init, Phases, NothingLost, Finished
  <1> QED BY <1>1, <1>3, <1>4 DEF IInv

\* Every step keeps the inductive invariant.
LEMMA IInvNext == IInv /\ [Next]_vars => IInv'
  <1> SUFFICES ASSUME IInv, [Next]_vars PROVE IInv' OBVIOUS
  <1>1. TypeInv' BY TypeNext DEF IInv
  <1>2. CASE \E w \in Workers : Worker(w)
    BY <1>1, <1>2, KnownWorker, EnteredWorker, PhasesWorker, SomeoneScansWorker,
       NothingLostWorker DEF IInv
  <1>3. CASE Owner BY <1>1, <1>3, OwnerStep DEF IInv
  <1>4. CASE Submit BY <1>1, <1>4, SubmitStep DEF IInv
  <1>5. CASE \E f \in Fibers : Fire(f) BY <1>1, <1>5, FireStep DEF IInv
  <1>6. CASE UNCHANGED vars
    BY <1>1, <1>6 DEF IInv, vars, Known, Entered, Phases, SomeoneScans, WillScan,
                      NothingLost, Accounted
  <1> QED BY <1>2, <1>3, <1>4, <1>5, <1>6 DEF Next, Over

\* In every reachable state every callback ever scheduled is accounted for: it
\* has ended or is parked, or it waits in the list for its first run, or a
\* worker has it in hand.
THEOREM NoCallbackLost == Spec => []NothingLost
  <1>1. Spec => []IInv BY IInvInit, IInvNext, PTL DEF Spec
  <1>2. IInv => NothingLost BY DEF IInv
  <1> QED BY <1>1, <1>2, PTL

\* When stop() has returned, every callback ever scheduled has ended or parked
\* itself, whatever the workers and the timers did while stop() was running.
THEOREM StopIsComplete == Spec => []CompleteAtStop
  <1>1. Spec => []IInv BY IInvInit, IInvNext, PTL DEF Spec
  <1>2. IInv => CompleteAtStop
    <2> SUFFICES ASSUME IInv, main = "stopped", NEW c \in 1 .. submitted
                 PROVE  \E f \in 1 .. created :
                            cb[f] = c /\ state[f] \in Finished \cup {"HOLD"}
      BY DEF CompleteAtStop
    <2>1. PICK f \in 1 .. created : cb[f] = c /\ Accounted(f)
      BY DEF IInv, NothingLost
    <2>2. \A w \in Workers : pc[w] = "exited"
      BY DEF IInv, Phases
    <2>3. ~(f \in Range(pending) /\ state[f] = "INIT")
      BY <2>2 DEF IInv, SomeoneScans, WillScan
    <2> QED BY <2>1, <2>2, <2>3 DEF Accounted, Busy
  <1> QED BY <1>1, <1>2, PTL

-----------------------------------------------------------------------------
(* The assertion of swapIn.  A fiber can be in the list, with a timer or   *)
(* with a worker that may enter it, but only in one of these places at a   *)
(* time, even if it is still on its way out of another worker.             *)

\* A worker that may enter the fiber it has taken, or is inside it.
Holding == {"taken", "swapIn", "exec"}

\* No fiber is in the list twice.
Once == \A i, j \in DOMAIN pending : pending[i] = pending[j] => i = j

OneTicket ==
    /\ Once
    /\ armed \cap Range(pending) = {}
    /\ \A w \in Workers : pc[w] \in Holding => doing[w] \notin Range(pending) \cup armed
    /\ \A v, w \in Workers :
          pc[v] \in Holding /\ pc[w] \in Holding /\ doing[v] = doing[w] => v = w

\* A fiber that was taken is not in state EXEC until its worker enters it.
Suspended ==
    \A w \in Workers : pc[w] \in {"taken", "swapIn"} => state[doing[w]] # "EXEC"

TInv == IInv /\ OneTicket /\ Suspended /\ SwapInFindsSuspended

\* A new element at the tail, or a removal, keeps a list without repetitions.
LEMMA AppendOnce ==
    ASSUME NEW S, NEW s \in Seq(S), NEW e \in S, e \notin Range(s),
           \A i, j \in DOMAIN s : s[i] = s[j] => i = j
    PROVE  \A i, j \in DOMAIN Append(s, e) : Append(s, e)[i] = Append(s, e)[j] => i = j
  <1>1. /\ Len(s) \in Nat /\ DOMAIN s = 1 .. Len(s)
        /\ DOMAIN Append(s, e) = 1 .. Len(s) + 1
        /\ \A i \in 1 .. Len(s) : Append(s, e)[i] = s[i]
        /\ Append(s, e)[Len(s) + 1] = e
    BY AppendProperties, LenProperties
  <1>2. \A i \in 1 .. Len(s) : s[i] # e
    BY <1>1 DEF Range
  <1>3. ASSUME NEW i \in 1 .. Len(s) + 1, NEW j \in 1 .. Len(s) + 1,
               Append(s, e)[i] = Append(s, e)[j]
        PROVE  i = j
    <2>1. CASE i \in 1 .. Len(s) /\ j \in 1 .. Len(s)
      BY <1>1, <1>3, <2>1
    <2>2. CASE i = Len(s) + 1 \/ j = Len(s) + 1
      <3>1. i = Len(s) + 1 \/ i \in 1 .. Len(s) BY <1>1
      <3>2. j = Len(s) + 1 \/ j \in 1 .. Len(s) BY <1>1
      <3> QED BY <1>1, <1>2, <1>3, <2>2, <3>1, <3>2
    <2> QED BY <1>1, <2>1, <2>2
  <1> QED BY <1>1, <1>3

\* What is left of a list after a removal: the elements before the place, and
\* those behind it one place nearer.
LEMMA RemoveAtElements ==
    ASSUME NEW S, NEW s \in Seq(S), NEW i \in 1 .. Len(s)
    PROVE  /\ DOMAIN RemoveAt(s, i) = 1 .. Len(s) - 1
           /\ \A j \in 1 .. Len(s) - 1 :
                RemoveAt(s, i)[j] = IF j < i THEN s[j] ELSE s[j + 1]
  <1> DEFINE a == SubSeq(s, 1, i - 1)
             b == SubSeq(s, i + 1, Len(s))
  <1>1. Len(s) \in Nat /\ i \in Nat /\ \A j \in 1 .. Len(s) : s[j] \in S
    BY LenProperties, ElementOfSeq
  <1>2. a \in Seq(S) /\ Len(a) = i - 1 /\ \A j \in 1 .. i - 1 : a[j] = s[j]
    <2>1. i - 1 \in Int /\ 1 \in Int /\ \A j \in 1 .. i - 1 : s[j] \in S
      BY <1>1
    <2>2. /\ SubSeq(s, 1, i - 1) \in Seq(S)
          /\ Len(SubSeq(s, 1, i - 1)) = IF 1 <= i - 1 THEN (i - 1) - 1 + 1 ELSE 0
          /\ \A j \in 1 .. (i - 1) - 1 + 1 : SubSeq(s, 1, i - 1)[j] = s[1 + j - 1]
      BY <2>1, SubSeqProperties
    <2> QED BY <1>1, <2>2
  <1>3. b \in Seq(S) /\ Len(b) = Len(s) - i /\ \A j \in 1 .. Len(s) - i : b[j] = s[i + j]
    <2>1. i + 1 \in Int /\ Len(s) \in Int /\ \A j \in i + 1 .. Len(s) : s[j] \in S
      BY <1>1
    <2>2. /\ SubSeq(s, i + 1, Len(s)) \in Seq(S)
          /\ Len(SubSeq(s, i + 1, Len(s)))
                = IF i + 1 <= Len(s) THEN Len(s) - (i + 1) + 1 ELSE 0
          /\ \A j \in 1 .. Len(s) - (i + 1) + 1 :
                SubSeq(s, i + 1, Len(s))[j] = s[(i + 1) + j - 1]
      BY <2>1, SubSeqProperties
    <2>3. ASSUME NEW j \in 1 .. Len(s) - i PROVE b[j] = s[i + j]
      <3>1. j \in 1 .. Len(s) - (i + 1) + 1 /\ (i + 1) + j - 1 = i + j
        BY <1>1
      <3> QED BY <2>2, <3>1
    <2> QED BY <1>1, <2>2, <2>3
  <1> HIDE DEF a, b
  <1>4. /\ Len(a \o b) = Len(a) + Len(b) /\ a \o b \in Seq(S)
        /\ \A j \in 1 .. Len(a) + Len(b) :
             (a \o b)[j] = IF j <= Len(a) THEN a[j] ELSE b[j - Len(a)]
    BY <1>2, <1>3, ConcatProperties
  <1>5. DOMAIN (a \o b) = 1 .. Len(s) - 1
    <2>1. DOMAIN (a \o b) = 1 .. Len(a \o b) BY <1>4, LenProperties
    <2>2. Len(a \o b) = Len(s) - 1 BY <1>1, <1>2, <1>3, <1>4
    <2> QED BY <2>1, <2>2
  <1>6. ASSUME NEW j \in 1 .. Len(s) - 1
        PROVE  (a \o b)[j] = IF j < i THEN s[j] ELSE s[j + 1]
    <2>1. (a \o b)[j] = IF j <= i - 1 THEN a[j] ELSE b[j - (i - 1)]
      BY <1>1, <1>2, <1>3, <1>4
    <2>2. CASE j < i
      BY <1>1, <1>2, <2>1, <2>2
    <2>3. CASE ~(j < i)
      <3>1. j - (i - 1) \in 1 .. Len(s) - i /\ i + (j - (i - 1)) = j + 1
        BY <1>1, <2>3
      <3> QED BY <1>1, <1>3, <2>1, <2>3, <3>1
    <2> QED BY <2>2, <2>3
  <1> QED BY <1>5, <1>6 DEF RemoveAt, a, b

\* What is taken from a list without repetitions is not in it any more.
LEMMA RemoveOnce ==
    ASSUME NEW S, NEW s \in Seq(S), NEW i \in DOMAIN s, NEW r, r = RemoveAt(s, i),
           \A j, k \in DOMAIN s : s[j] = s[k] => j = k
    PROVE  /\ \A j, k \in DOMAIN r : r[j] = r[k] => j = k
           /\ s[i] \notin Range(r)
  <1>1. Len(s) \in Nat /\ DOMAIN s = 1 .. Len(s) /\ i \in 1 .. Len(s)
    BY LenProperties
  <1>2. /\ DOMAIN r = 1 .. Len(s) - 1
        /\ \A j \in 1 .. Len(s) - 1 : r[j] = IF j < i THEN s[j] ELSE s[j + 1]
    BY <1>1, RemoveAtElements
  <1>3. ASSUME NEW j \in DOMAIN r
        PROVE  \E k \in 1 .. Len(s) : /\ r[j] = s[k] /\ k # i
                                      /\ k = IF j < i THEN j ELSE j + 1
    <2>1. CASE j < i
      <3>1. j \in 1 .. Len(s) /\ j # i BY <1>1, <1>2, <2>1
      <3> QED BY <1>2, <2>1, <3>1
    <2>2. CASE ~(j < i)
      <3>1. j + 1 \in 1 .. Len(s) /\ j + 1 # i BY <1>1, <1>2, <2>2
      <3> QED BY <1>2, <2>2, <3>1
    <2> QED BY <2>1, <2>2
  <1>4. ASSUME NEW j \in DOMAIN r, NEW k \in DOMAIN r, r[j] = r[k] PROVE j = k
    <2>1. PICK x \in 1 .. Len(s) : r[j] = s[x] /\ x = IF j < i THEN j ELSE j + 1
      BY <1>3
    <2>2. PICK y \in 1 .. Len(s) : r[k] = s[y] /\ y = IF k < i THEN k ELSE k + 1
      BY <1>3
    <2>3. x = y BY <1>1, <1>4, <2>1, <2>2
    <2> QED BY <1>1, <1>2, <2>1, <2>2, <2>3
  <1>5. s[i] \notin Range(r)
    <2> SUFFICES ASSUME NEW j \in DOMAIN r, r[j] = s[i] PROVE FALSE
      BY DEF Range
    <2>1. PICK k \in 1 .. Len(s) : r[j] = s[k] /\ k # i
      BY <1>3
    <2> QED BY <1>1, <2>1
  <1> QED BY <1>4, <1>5

\* scheduler(cb) keeps the list without repetitions: the new fibers are none of
\* the fibers that exist.
LEMMA ScheduleOnce ==
    ASSUME TypeInv, Known, Once, NEW n \in Nat, Schedule(n)
    PROVE  Once'
  <1>1. created \in Nat /\ created + 1 .. created + n \subseteq Fibers
    BY ScheduleRange
  <1> DEFINE b == NewFibers(n)
  <1>2. b \in Seq(Fibers) /\ Len(b) = n /\ \A i \in 1 .. n : b[i] = created + i
    <2>1. \A i \in 1 .. n : created + i \in Fibers BY <1>1
    <2> QED BY <2>1, IsASeq DEF NewFibers
  <1>3. pending \in Seq(Fibers) /\ pending' = pending \o b
    BY DEF TypeInv, TypeOK, TypeFibers, Schedule
  <1> HIDE DEF b
  <1>4. Len(pending) \in Nat /\ DOMAIN pending = 1 .. Len(pending)
    BY <1>3, LenProperties
  <1>5. /\ pending' \in Seq(Fibers) /\ Len(pending') = Len(pending) + n
        /\ \A j \in 1 .. Len(pending) + n :
             pending'[j] = IF j <= Len(pending) THEN pending[j] ELSE b[j - Len(pending)]
    BY <1>2, <1>3, ConcatProperties
  <1>6. DOMAIN pending' = 1 .. Len(pending) + n
    BY <1>5, LenProperties
  <1>7. \A j \in 1 .. Len(pending) : pending[j] \in Nat /\ pending[j] <= created
    BY <1>1, <1>4 DEF Known, Range
  <1>8. ASSUME NEW j \in DOMAIN pending'
        PROVE  \/ j \in 1 .. Len(pending) /\ pending'[j] = pending[j]
               \/ j > Len(pending) /\ pending'[j] = created + (j - Len(pending))
    <2>1. CASE j <= Len(pending)
      BY <1>4, <1>5, <1>6, <2>1
    <2>2. CASE ~(j <= Len(pending))
      <3>1. j - Len(pending) \in 1 .. n BY <1>4, <1>6, <2>2
      <3> QED BY <1>2, <1>4, <1>5, <1>6, <2>2, <3>1
    <2> QED BY <2>1, <2>2
  <1>9. ASSUME NEW i \in DOMAIN pending', NEW j \in DOMAIN pending', pending'[i] = pending'[j]
        PROVE  i = j
    <2>1. i \in Nat /\ j \in Nat BY <1>6
    <2>2. CASE i \in 1 .. Len(pending) /\ j \in 1 .. Len(pending)
      <3>1. pending'[i] = pending[i] /\ pending'[j] = pending[j]
        BY <1>4, <1>8, <2>2
      <3> QED BY <1>4, <1>9, <2>2, <3>1 DEF Once
    <2>3. CASE i > Len(pending) /\ j > Len(pending)
      <3>1. /\ pending'[i] = created + (i - Len(pending))
            /\ pending'[j] = created + (j - Len(pending))
        BY <1>4, <1>8, <2>3
      <3>2. created + (i - Len(pending)) = created + (j - Len(pending))
        BY ONLY <1>9, <3>1
      <3> QED BY ONLY <1>1, <1>4, <2>1, <3>2
    <2>4. CASE i \in 1 .. Len(pending) /\ j > Len(pending)
      <3>1. pending'[i] <= created /\ pending'[i] \in Nat
        BY <1>4, <1>7, <1>8, <2>4
      <3>2. pending'[j] = created + (j - Len(pending))
        BY <1>4, <1>8, <2>4
      <3> QED BY <1>1, <1>4, <1>9, <2>1, <2>4, <3>1, <3>2
    <2>5. CASE j \in 1 .. Len(pending) /\ i > Len(pending)
      <3>1. pending'[j] <= created /\ pending'[j] \in Nat
        BY <1>4, <1>7, <1>8, <2>5
      <3>2. pending'[i] = created + (i - Len(pending))
        BY <1>4, <1>8, <2>5
      <3> QED BY <1>1, <1>4, <1>9, <2>1, <2>5, <3>1, <3>2
    <2>6. /\ i \in 1 .. Len(pending) \/ i > Len(pending)
          /\ j \in 1 .. Len(pending) \/ j > Len(pending)
      BY <1>8
    <2> QED BY ONLY <2>2, <2>3, <2>4, <2>5, <2>6
  <1> QED BY <1>9 DEF Once

\* What a quiet step does to the tickets: a worker never starts to hold a fiber,
\* a sleep hands the fiber from the worker to the timer, and only swapIn makes a
\* fiber EXEC.
LEMMA QuietTickets ==
    ASSUME TypeInv, NEW w \in Workers, Quiet(w)
    PROVE  /\ pc'[w] \in Holding => pc[w] \in Holding /\ armed' = armed
           /\ \/ armed' = armed
              \/ pc[w] = "exec" /\ armed' = armed \cup {doing[w]}
           /\ pc'[w] \in {"taken", "swapIn"} =>
                pc[w] \in {"taken", "swapIn"} /\ state' = state
           /\ \A f \in Fibers : state'[f] = "EXEC" =>
                state[f] = "EXEC" \/ (pc[w] = "swapIn" /\ f = doing[w])
           /\ crash' = "swapInAssert" =>
                \/ crash = "swapInAssert"
                \/ pc[w] = "swapIn" /\ state[doing[w]] = "EXEC"
  <1> USE DEF Quiet, ScanCrash, ScanNone, Activate, Deactivate, TestReady, TestEnded,
              EnterIdle, IdleFiber, LeaveIdle, ExitLoop, SwapIn, YieldToReady,
              YieldToHold, YieldTo, Sleep, SwapOut, SetHold, FiberRunEnds
  <1>1. pc'[w] \in Holding => pc[w] \in Holding /\ armed' = armed
    BY DEF Holding, timers, TypeInv, TypeOK, TypeWorkers
  <1>2. armed' = armed \/ (pc[w] = "exec" /\ armed' = armed \cup {doing[w]})
    BY DEF timers
  <1>3. pc'[w] \in {"taken", "swapIn"} =>
            pc[w] \in {"taken", "swapIn"} /\ state' = state
    BY DEF fibers, TypeInv, TypeOK, TypeWorkers
  <1>4. \A f \in Fibers : state'[f] = "EXEC" =>
            state[f] = "EXEC" \/ (pc[w] = "swapIn" /\ f = doing[w])
    BY DEF fibers, TypeInv, TypeOK, TypeFibers, Finished
  <1>5. crash' = "swapInAssert" =>
            crash = "swapInAssert" \/ (pc[w] = "swapIn" /\ state[doing[w]] = "EXEC")
    OBVIOUS
  <1> QED BY ONLY <1>1, <1>2, <1>3, <1>4, <1>5

\* A quiet step keeps the tickets and the suspended fibers.
LEMMA TicketsQuiet ==
    ASSUME TInv, NEW w \in Workers, Quiet(w)
    PROVE  OneTicket' /\ Suspended' /\ SwapInFindsSuspended'
  <1> USE DEF TInv, IInv
  <1>1. /\ pending' = pending
        /\ \A v \in Workers \ {w} : pc'[v] = pc[v] /\ doing'[v] = doing[v]
        /\ pc[w] \in Busy => doing'[w] = doing[w]
        /\ \A f \in Fibers : f # doing[w] => state'[f] = state[f]
    BY QuietFacts
  <1>2. /\ pc'[w] \in Holding => pc[w] \in Holding /\ armed' = armed
        /\ \/ armed' = armed
           \/ pc[w] = "exec" /\ armed' = armed \cup {doing[w]}
    BY QuietTickets
  <1>3. /\ pc'[w] \in {"taken", "swapIn"} =>
             pc[w] \in {"taken", "swapIn"} /\ state' = state
        /\ \A f \in Fibers : state'[f] = "EXEC" =>
             state[f] = "EXEC" \/ (pc[w] = "swapIn" /\ f = doing[w])
    BY QuietTickets
  <1>4. Holding \subseteq Busy /\ "exec" \in Holding /\ "swapIn" \in Holding
        /\ "taken" \in Holding
    BY DEF Holding, Busy
  <1>5. \A v \in Workers : pc'[v] \in Holding => pc[v] \in Holding /\ doing'[v] = doing[v]
    BY <1>1, <1>2, <1>4
  <1>6. Once' BY <1>1 DEF OneTicket, Once
  <1>7. armed' \cap Range(pending') = {}
    BY <1>1, <1>2, <1>4 DEF OneTicket
  <1>8. ASSUME NEW v \in Workers, pc'[v] \in Holding
        PROVE  doing'[v] \notin Range(pending') \cup armed'
    <2>1. pc[v] \in Holding /\ doing'[v] = doing[v] BY <1>5, <1>8
    <2>2. CASE armed' = armed BY <1>1, <2>1, <2>2 DEF OneTicket
    <2>3. CASE pc[w] = "exec" /\ armed' = armed \cup {doing[w]} /\ armed' # armed
      <3>1. v # w BY <1>2, <1>8, <2>3
      <3>2. doing[v] # doing[w] BY <1>4, <2>1, <2>3, <3>1 DEF OneTicket
      <3> QED BY <1>1, <2>1, <2>3, <3>2 DEF OneTicket
    <2> QED BY <1>2, <2>2, <2>3
  <1>9. OneTicket'
    BY <1>5, <1>6, <1>7, <1>8 DEF OneTicket
  <1>10. ASSUME NEW v \in Workers, pc'[v] \in {"taken", "swapIn"}
         PROVE  state'[doing'[v]] # "EXEC"
    <2>1. CASE v = w
      <3>1. doing'[w] = doing[w] /\ pc[w] \in {"taken", "swapIn"} /\ state' = state
        BY <1>1, <1>3, <1>4, <1>10, <2>1
      <3> QED BY <2>1, <3>1 DEF Suspended
    <2>2. CASE v # w
      <3>1. pc[v] \in {"taken", "swapIn"} /\ doing'[v] = doing[v] /\ doing[v] \in Fibers
        BY <1>1, <1>4, <1>10, <2>2 DEF TypeInv, BusyHolds
      <3>2. state[doing[v]] # "EXEC" BY <3>1 DEF Suspended
      <3>3. pc[w] = "swapIn" => doing[v] # doing[w]
        BY <1>4, <2>2, <3>1 DEF OneTicket
      <3> QED BY <1>3, <3>1, <3>2, <3>3
    <2> QED BY <2>1, <2>2
  <1>11. SwapInFindsSuspended'
    BY QuietTickets DEF SwapInFindsSuspended, Suspended
  <1> QED BY <1>9, <1>10, <1>11 DEF Suspended

\* Taking a fiber from the list moves its ticket to the worker.
LEMMA TicketsTake ==
    ASSUME TInv, NEW w \in Workers, ScanTake(w)
    PROVE  OneTicket' /\ Suspended' /\ SwapInFindsSuspended'
  <1> USE DEF TInv, IInv
  <1>1. PICK i \in Candidates : /\ doing' = [doing EXCEPT ![w] = pending[i]]
                                /\ pending' = RemoveAt(pending, i)
    BY DEF ScanTake
  <1>2. i \in DOMAIN pending /\ state[pending[i]] \in Runnable /\ pending \in Seq(Fibers)
    BY DEF Candidates, TypeInv, TypeOK, TypeFibers
  <1>3. Range(pending) = Range(pending') \cup {pending[i]}
    BY <1>1, <1>2, RemoveAtRange
  <1>4. Once' /\ pending[i] \notin Range(pending')
    BY <1>1, <1>2, RemoveOnce DEF OneTicket, Once
  <1>5. /\ doing'[w] = pending[i] /\ pc'[w] = "taken"
        /\ \A v \in Workers \ {w} : doing'[v] = doing[v] /\ pc'[v] = pc[v]
    BY <1>1 DEF ScanTake, TypeInv, TypeOK, TypeWorkers
  <1>6. UNCHANGED <<armed, state, crash>>
    BY DEF ScanTake, fibers, timers
  <1>7. OneTicket'
    <2>1. armed' \cap Range(pending') = {}
      BY <1>3, <1>6 DEF OneTicket
    <2>2. ASSUME NEW v \in Workers, pc'[v] \in Holding
          PROVE  doing'[v] \notin Range(pending') \cup armed'
      BY <1>3, <1>4, <1>5, <1>6, <2>2 DEF OneTicket
    <2>3. ASSUME NEW u \in Workers, NEW v \in Workers, pc'[u] \in Holding,
                 pc'[v] \in Holding, doing'[u] = doing'[v]
          PROVE  u = v
      BY <1>3, <1>5, <2>3 DEF OneTicket
    <2> QED BY <1>4, <2>1, <2>2, <2>3 DEF OneTicket
  <1>8. Suspended'
    BY <1>2, <1>5, <1>6 DEF Suspended, Runnable
  <1> QED BY <1>6, <1>7, <1>8 DEF SwapInFindsSuspended

\* New fibers get a ticket of their own.
LEMMA TicketsNew ==
    ASSUME TInv, Known, Once', NEW N, N \cap (1 .. created) = {},
           Range(pending') = Range(pending) \cup N,
           \A v \in Workers : pc'[v] \in Holding => pc[v] = pc'[v],
           UNCHANGED <<armed, state, doing, crash>>
    PROVE  OneTicket' /\ Suspended' /\ SwapInFindsSuspended'
  <1> USE DEF TInv
  <1>1. Holding \subseteq Busy BY DEF Holding, Busy
  <1>2. armed' \cap Range(pending') = {}
    BY DEF Known, OneTicket
  <1>3. ASSUME NEW v \in Workers, pc'[v] \in Holding
        PROVE  doing'[v] \notin Range(pending') \cup armed'
    BY <1>1, <1>3 DEF Known, OneTicket
  <1>4. \A u, v \in Workers :
          pc'[u] \in Holding /\ pc'[v] \in Holding /\ doing'[u] = doing'[v] => u = v
    BY DEF OneTicket
  <1>5. OneTicket'
    BY <1>2, <1>3, <1>4 DEF OneTicket
  <1>6. Suspended' /\ SwapInFindsSuspended'
    BY DEF Suspended, SwapInFindsSuspended, Holding
  <1> QED BY <1>5, <1>6

\* Every step keeps the tickets.
LEMMA TInvNext == TInv /\ [Next]_vars => TInv'
  <1> SUFFICES ASSUME TInv, [Next]_vars PROVE TInv' OBVIOUS
  <1>0. IInv' BY IInvNext DEF TInv
  <1>00. TypeInv /\ Known /\ Once /\ created \in Nat /\ BusyHolds
    BY DEF TInv, IInv, TypeInv, TypeOK, TypeFibers, OneTicket
  <1>1. ASSUME NEW w \in Workers, Worker(w)
        PROVE  OneTicket' /\ Suspended' /\ SwapInFindsSuspended'
    <2>1. CASE Quiet(w) BY <2>1, TicketsQuiet
    <2>2. CASE ScanTake(w) BY <2>2, TicketsTake
    <2>3. CASE Spawn(w)
      <3>1. Schedule(1) /\ UNCHANGED <<armed, state, pc, doing, crash>>
        BY <2>3 DEF Spawn, Schedule, timers
      <3>2. /\ Range(pending') = Range(pending) \cup (created + 1 .. created + 1)
            /\ Once'
        BY <1>00, <3>1, ScheduleRange, ScheduleOnce
      <3>3. (created + 1 .. created + 1) \cap (1 .. created) = {} BY <1>00
      <3> QED BY <1>00, <3>1, <3>2, <3>3, TicketsNew
    <2>4. CASE Reschedule(w)
      <3>1. /\ ScheduleAgain(doing[w]) /\ UNCHANGED <<armed, state, doing, crash>>
            /\ pc' = [pc EXCEPT ![w] = "scan"]
        BY <2>4 DEF Reschedule, ScheduleAgain, timers
      <3>2. Range(pending') = Range(pending) \cup {created + 1} /\ created + 1 \in Fibers
        BY <1>00, <3>1, ScheduleAgainRange
      <3>3. {created + 1} \cap (1 .. created) = {} BY <1>00
      <3>4. Once'
        <4>1. pending \in Seq(Fibers) /\ pending' = Append(pending, created + 1)
          BY <1>00, <3>1 DEF ScheduleAgain, TypeInv, TypeOK, TypeFibers
        <4>2. created + 1 \notin Range(pending) BY <1>00, <3>3 DEF Known
        <4> QED BY <1>00, <3>2, <4>1, <4>2, AppendOnce DEF Once
      <3>5. \A v \in Workers : pc'[v] \in Holding => pc[v] = pc'[v]
        BY <1>00, <3>1 DEF Holding, TypeInv, TypeOK, TypeWorkers
      <3> QED BY <1>00, <3>1, <3>2, <3>3, <3>4, <3>5, TicketsNew
    <2> QED BY <1>1, <2>1, <2>2, <2>3, <2>4, WorkerSplit
  <1>2. ASSUME Owner \/ UNCHANGED vars
        PROVE  OneTicket' /\ Suspended' /\ SwapInFindsSuspended'
    <2>1. /\ UNCHANGED <<pending, armed, state, doing, crash>>
          /\ pc' = pc \/ pc' = [w \in Workers |-> "scan"]
      BY <1>2 DEF Owner, Start, StopAuto, StopClean, Join, fibers, timers, vars
    <2>2. Once' BY <1>00, <2>1 DEF Once
    <2>3. \A v \in Workers : pc'[v] \in Holding => pc[v] = pc'[v]
      BY <2>1 DEF Holding
    <2>4. Range(pending') = Range(pending) \cup {} /\ {} \cap (1 .. created) = {}
      BY <2>1
    <2> QED BY <1>00, <2>1, <2>2, <2>3, <2>4, TicketsNew
  <1>3. ASSUME Submit
        PROVE  OneTicket' /\ Suspended' /\ SwapInFindsSuspended'
    <2>1. PICK n \in 1 .. 2 : Schedule(n) BY <1>3 DEF Submit
    <2>2. n \in Nat OBVIOUS
    <2>3. UNCHANGED <<armed, state, pc, doing, crash>>
      BY <1>3, <2>1 DEF Submit, Schedule, timers
    <2>4. Range(pending') = Range(pending) \cup (created + 1 .. created + n) /\ Once'
      BY <1>00, <2>1, <2>2, ScheduleRange, ScheduleOnce
    <2>5. (created + 1 .. created + n) \cap (1 .. created) = {} BY <1>00, <2>2
    <2> QED BY <1>00, <2>3, <2>4, <2>5, TicketsNew
  <1>4. ASSUME NEW f \in Fibers, Fire(f)
        PROVE  OneTicket' /\ Suspended' /\ SwapInFindsSuspended'
    <2>1. /\ f \in armed /\ armed' = armed \ {f} /\ pending' = Append(pending, f)
          /\ UNCHANGED <<state, pc, doing, crash>>
      BY <1>4 DEF Fire, fibers
    <2>2. Range(pending') = Range(pending) \cup {f} BY <1>00, <1>4, FireRange
    <2>3. Once'
      <3>1. pending \in Seq(Fibers) BY <1>00 DEF TypeInv, TypeOK, TypeFibers
      <3>2. f \notin Range(pending) BY <2>1 DEF TInv, OneTicket
      <3> QED BY <1>00, <2>1, <3>1, <3>2, AppendOnce DEF Once
    <2>4. OneTicket' BY <2>1, <2>2, <2>3 DEF TInv, OneTicket
    <2> QED BY <2>1, <2>4 DEF TInv, Suspended, SwapInFindsSuspended
  <1> QED BY <1>0, <1>1, <1>2, <1>3, <1>4 DEF TInv, Next, Over

\* At first there is no ticket.
LEMMA TInvInit == Init => TInv
  <1> SUFFICES ASSUME Init PROVE TInv OBVIOUS
  <1>1. IInv BY IInvInit
  <1>2. Range(pending) = {} /\ DOMAIN pending = {} BY DEF Init, Range
  <1> QED BY <1>1, <1>2 DEF Init, TInv, OneTicket, Once, Suspended, SwapInFindsSuspended,
                            Holding

\* The assertion of swapIn never fails: a worker never enters a fiber in state
\* EXEC, however many workers there are and whenever timers give fibers back,
\* although SetHold may overwrite the state of a fiber that runs elsewhere.
THEOREM SwapInAssertHolds == Spec => []SwapInFindsSuspended
  <1>1. TInv => SwapInFindsSuspended BY DEF TInv
  <1> QED BY <1>1, TInvInit, TInvNext, PTL DEF Spec

-----------------------------------------------------------------------------
(* Without sleeps nothing crashes: a fiber then is with one worker from    *)
(* the moment it is taken, and its state and its context go together.      *)

\* The state and the context of a fiber whose worker is at a place of run().
Stage(p, s, c) ==
    \/ p \in {"taken", "swapIn"} /\ s = "INIT" /\ c = "fresh"
    \/ p = "exec" /\ s = "EXEC" /\ c = "live"
    \/ p = "yielded" /\ s \in {"HOLD", "READY"} /\ c = "live"
    \/ p \in {"back", "ready?"} /\ s \in {"HOLD", "READY"} /\ c = "saved"
    \/ p \in {"back", "ready?", "ended?"} /\ s \in Finished /\ c = "done"
    \/ p \in {"ended?", "hold"} /\ s = "HOLD" /\ c = "saved"
    \/ p = "again" /\ s = "READY" /\ c = "saved"

\* What nobody has entered yet.
Untouched(f) == state[f] = "INIT" /\ ctx[f] = "fresh"

Awake ==
    /\ crash = "no" /\ armed = {}
    /\ \A f \in Range(pending) : Untouched(f)
    /\ \A f \in Fibers : f > created => Untouched(f)
    /\ \A f \in Fibers : ctx[f] = "done" => state[f] \in Finished
    /\ \A w \in Workers : pc[w] \in Busy =>
          doing[w] \notin Range(pending) /\ Stage(pc[w], state[doing[w]], ctx[doing[w]])
    /\ \A v, w \in Workers :
          pc[v] \in Busy /\ pc[w] \in Busy /\ doing[v] = doing[w] => v = w

AInv == TInv /\ (sleeps = 0 => Awake)

\* A quiet step of a worker without a fiber touches no fiber and does not crash.
LEMMA AwakeFree ==
    ASSUME TypeInv, Awake, NEW w \in Workers, Quiet(w), pc[w] \notin Busy
    PROVE  UNCHANGED <<state, ctx, crash, armed>> /\ pc'[w] \notin Busy
  <1> USE DEF Quiet, ScanCrash, ScanNone, Activate, Deactivate, TestReady, TestEnded,
              EnterIdle, IdleFiber, LeaveIdle, ExitLoop, SwapIn, YieldToReady,
              YieldToHold, Sleep, SwapOut, SetHold, FiberRunEnds
  <1>1. ~ScanCrash(w)
    BY DEF DropAsserts, Awake, TypeInv, TypeOK, TypeWorkers
  <1>2. UNCHANGED <<state, ctx, crash, armed>>
    BY <1>1 DEF Busy, fibers, timers
  <1>3. pc'[w] \notin Busy
    BY QuietFacts
  <1> QED BY <1>2, <1>3

\* A quiet step of a worker with a fiber takes that fiber to the next stage.
LEMMA AwakeBusy ==
    ASSUME TypeInv, Awake, NEW w \in Workers, Quiet(w), ~Sleep(w), pc[w] \in Busy
    PROVE  /\ crash' = "no" /\ armed' = armed
           /\ \A f \in Fibers : f # doing[w] => state'[f] = state[f] /\ ctx'[f] = ctx[f]
           /\ pc'[w] \in Busy => Stage(pc'[w], state'[doing[w]], ctx'[doing[w]])
           /\ ctx'[doing[w]] = "done" => state'[doing[w]] \in Finished
  <1> DEFINE d == doing[w]
  <1>1. /\ d \in Fibers /\ Stage(pc[w], state[d], ctx[d]) /\ crash = "no"
        /\ pc \in [Workers -> Pcs] /\ state \in [Fibers -> FiberState]
        /\ ctx \in [Fibers -> CtxState]
        /\ ctx[d] = "done" => state[d] \in Finished
    BY DEF TypeInv, TypeOK, TypeWorkers, TypeFibers, BusyHolds, Awake
  <1>2. CASE Activate(w) \/ Deactivate(w) \/ TestReady(w) \/ TestEnded(w)
    BY <1>1, <1>2 DEF Activate, Deactivate, TestReady, TestEnded, fibers, timers, Stage,
         Finished, Busy
  <1>3. CASE SwapIn(w)
    BY <1>1, <1>3 DEF SwapIn, timers, Stage, Finished
  <1>4. CASE YieldToReady(w) \/ YieldToHold(w)
    BY <1>1, <1>4 DEF YieldToReady, YieldToHold, YieldTo, Stage, Finished
  <1>5. CASE FiberRunEnds(w)
    <2>1. PICK s \in Finished : state' = [state EXCEPT ![doing[w]] = s]
      BY <1>5 DEF FiberRunEnds
    <2> QED BY <1>1, <1>5, <2>1 DEF FiberRunEnds, timers, Stage
  <1>6. CASE SwapOut(w)
    BY <1>1, <1>6 DEF SwapOut, timers, Stage, Finished
  <1>7. CASE SetHold(w)
    BY <1>1, <1>7 DEF SetHold, timers, Stage, Finished, Busy
  <1>8. ~(ScanCrash(w) \/ ScanNone(w) \/ EnterIdle(w) \/ IdleFiber(w) \/ LeaveIdle(w)
            \/ ExitLoop(w))
    BY DEF ScanCrash, ScanNone, EnterIdle, IdleFiber, LeaveIdle, ExitLoop, Busy
  <1> QED BY <1>2, <1>3, <1>4, <1>5, <1>6, <1>7, <1>8 DEF Quiet

\* A quiet step keeps what holds without sleeps.
LEMMA AwakeQuiet ==
    ASSUME TypeInv, Known, Awake, NEW w \in Workers, Quiet(w), ~Sleep(w)
    PROVE  Awake'
  <1>0. /\ created \in Nat /\ pending' = pending /\ created' = created
        /\ Range(pending) \subseteq Fibers
        /\ \A v \in Workers \ {w} : pc'[v] = pc[v] /\ doing'[v] = doing[v]
        /\ pc[w] \in Busy => doing'[w] = doing[w]
        /\ \A v \in Workers : pc[v] \in Busy => doing[v] \in Fibers
    <2>1. Range(pending) \subseteq Fibers
      BY RangeOfSeq DEF TypeInv, TypeOK, TypeFibers
    <2> QED BY <2>1, QuietFacts DEF TypeInv, TypeOK, TypeFibers, BusyHolds
  <1>1. CASE pc[w] \notin Busy
    <2>1. UNCHANGED <<state, ctx, crash, armed>> /\ pc'[w] \notin Busy
      BY <1>1, AwakeFree
    <2> QED BY <1>0, <2>1 DEF Awake, Untouched
  <1>2. CASE pc[w] \in Busy
    <2>1. /\ crash' = "no" /\ armed' = armed
          /\ \A f \in Fibers : f # doing[w] => state'[f] = state[f] /\ ctx'[f] = ctx[f]
          /\ pc'[w] \in Busy => Stage(pc'[w], state'[doing[w]], ctx'[doing[w]])
          /\ ctx'[doing[w]] = "done" => state'[doing[w]] \in Finished
      BY <1>2, AwakeBusy
    <2>2. doing[w] \notin Range(pending) /\ doing[w] \in 1 .. created
      BY <1>2 DEF Awake, Known
    <2>3. \A f \in Range(pending') : Untouched(f)'
      BY <1>0, <2>1, <2>2 DEF Awake, Untouched
    <2>4. \A f \in Fibers : f > created' => Untouched(f)'
      BY <1>0, <2>1, <2>2 DEF Awake, Untouched
    <2>5. \A f \in Fibers : ctx'[f] = "done" => state'[f] \in Finished
      BY <2>1 DEF Awake
    <2>6. ASSUME NEW v \in Workers, pc'[v] \in Busy
          PROVE  /\ doing'[v] \notin Range(pending')
                 /\ Stage(pc'[v], state'[doing'[v]], ctx'[doing'[v]])
      <3>1. CASE v = w BY <1>0, <1>2, <2>1, <2>2, <2>6, <3>1
      <3>2. CASE v # w
        <4>1. pc[v] \in Busy /\ pc'[v] = pc[v] /\ doing'[v] = doing[v] /\ doing[v] \in Fibers
          BY <1>0, <2>6, <3>2
        <4>2. doing[v] # doing[w] BY <1>2, <3>2, <4>1 DEF Awake
        <4>3. doing[v] \notin Range(pending) /\ Stage(pc[v], state[doing[v]], ctx[doing[v]])
          BY <4>1 DEF Awake
        <4> QED BY <1>0, <2>1, <4>1, <4>2, <4>3
      <3> QED BY <3>1, <3>2
    <2>7. \A u, v \in Workers :
            pc'[u] \in Busy /\ pc'[v] \in Busy /\ doing'[u] = doing'[v] => u = v
      BY <1>0, <1>2 DEF Awake
    <2>8. crash' = "no" /\ armed' = {} BY <2>1 DEF Awake
    <2> QED BY <2>3, <2>4, <2>5, <2>6, <2>7, <2>8 DEF Awake
  <1> QED BY <1>1, <1>2

\* The other steps: new fibers come into the list untouched.
LEMMA AwakeNew ==
    ASSUME TypeInv, Known, Awake, created' \in Nat, created' >= created,
           \A f \in Range(pending') : f \in Range(pending) \/ (f \in Fibers /\ f > created),
           \A v \in Workers : pc'[v] \in Busy => pc[v] = pc'[v],
           UNCHANGED <<state, ctx, armed, doing, crash>>
    PROVE  Awake'
  <1>0. created \in Nat BY DEF TypeInv, TypeOK, TypeFibers
  <1>1. \A f \in Range(pending') : Untouched(f)'
    BY DEF Awake, Untouched
  <1>2. \A f \in Fibers : f > created' => Untouched(f)'
    BY <1>0 DEF Awake, Untouched, Fibers
  <1>3. ASSUME NEW v \in Workers, pc'[v] \in Busy
        PROVE  /\ doing'[v] \notin Range(pending')
               /\ Stage(pc'[v], state'[doing'[v]], ctx'[doing'[v]])
    <2>1. /\ doing[v] \in 1 .. created /\ doing[v] \notin Range(pending)
          /\ Stage(pc[v], state[doing[v]], ctx[doing[v]])
      BY <1>3 DEF Known, Awake
    <2>2. doing[v] \notin Range(pending') BY <1>0, <2>1
    <2> QED BY <1>3, <2>1, <2>2
  <1>4. \A u, v \in Workers :
          pc'[u] \in Busy /\ pc'[v] \in Busy /\ doing'[u] = doing'[v] => u = v
    BY DEF Awake
  <1> QED BY <1>1, <1>2, <1>3, <1>4 DEF Awake

\* Taking a fiber from the list.
LEMMA AwakeTake ==
    ASSUME TInv, Awake, NEW w \in Workers, ScanTake(w)
    PROVE  Awake'
  <1> USE DEF TInv, IInv
  <1>1. PICK f \in Range(pending) : /\ doing' = [doing EXCEPT ![w] = f]
                                    /\ Range(pending) = Range(pending') \cup {f}
    BY TakeRange
  <1>2. /\ doing'[w] = f /\ pc'[w] = "taken"
        /\ \A v \in Workers \ {w} : doing'[v] = doing[v] /\ pc'[v] = pc[v]
    BY <1>1 DEF ScanTake, TypeInv, TypeOK, TypeWorkers
  <1>3. UNCHANGED <<armed, state, ctx, created, crash>>
    BY DEF ScanTake, fibers, timers
  <1>4. "taken" \in Holding /\ "taken" \in Busy BY DEF Holding, Busy
  <1>5. f \notin Range(pending')
    BY <1>2, <1>4, TicketsTake DEF OneTicket
  <1>6. Stage("taken", state[f], ctx[f])
    BY DEF Stage, Awake, Untouched
  <1>7. ASSUME NEW v \in Workers, pc'[v] \in Busy
        PROVE  /\ doing'[v] \notin Range(pending')
               /\ Stage(pc'[v], state'[doing'[v]], ctx'[doing'[v]])
    BY <1>1, <1>2, <1>3, <1>5, <1>6, <1>7 DEF Awake
  <1>8. \A u, v \in Workers :
          pc'[u] \in Busy /\ pc'[v] \in Busy /\ doing'[u] = doing'[v] => u = v
    BY <1>1, <1>2 DEF Awake
  <1>9. /\ crash' = "no" /\ armed' = {}
        /\ \A g \in Range(pending') : Untouched(g)'
        /\ \A g \in Fibers : g > created' => Untouched(g)'
        /\ \A g \in Fibers : ctx'[g] = "done" => state'[g] \in Finished
    BY <1>1, <1>3 DEF Awake, Untouched
  <1> QED BY <1>7, <1>8, <1>9 DEF Awake

\* Every step keeps what holds without sleeps.
LEMMA AInvNext == AInv /\ [Next]_vars => AInv'
  <1> SUFFICES ASSUME AInv, [Next]_vars PROVE AInv' OBVIOUS
  <1>0. TInv' BY TInvNext DEF AInv
  <1>00. /\ TypeInv /\ Known /\ TInv /\ created \in Nat /\ sleeps \in Nat
         /\ pc \in [Workers -> Pcs]
    BY DEF AInv, TInv, IInv, TypeInv, TypeOK, TypeFibers, TypeWorkers
  <1> SUFFICES ASSUME sleeps' = 0 PROVE Awake'
    BY <1>0 DEF AInv
  <1>1. CASE \E w \in Workers : Worker(w)
    <2>1. PICK w \in Workers : Worker(w) BY <1>1
    <2>2. CASE Quiet(w)
      <3>1. ~Sleep(w) BY <1>00 DEF Sleep
      <3>2. sleeps = 0
        BY <2>2, <3>1 DEF Quiet, ScanCrash, ScanNone, Activate, Deactivate, TestReady,
             TestEnded, EnterIdle, IdleFiber, LeaveIdle, ExitLoop, SwapIn, YieldToReady,
             YieldToHold, YieldTo, SwapOut, SetHold, FiberRunEnds, timers
      <3> QED BY <1>00, <2>2, <3>1, <3>2, AwakeQuiet DEF AInv
    <2>3. CASE ScanTake(w)
      BY <1>00, <2>3, AwakeTake DEF AInv, ScanTake, timers
    <2>4. CASE Spawn(w)
      <3>1. Schedule(1) /\ UNCHANGED <<sleeps, armed, state, ctx, pc, doing, crash>>
        BY <2>4 DEF Spawn, Schedule, timers
      <3>2. /\ Range(pending') = Range(pending) \cup (created + 1 .. created + 1)
            /\ created + 1 .. created + 1 \subseteq Fibers /\ created' = created + 1
        BY <1>00, <3>1, ScheduleRange
      <3> QED BY <1>00, <3>1, <3>2, AwakeNew DEF AInv
    <2>5. CASE Reschedule(w)
      <3>1. /\ ScheduleAgain(doing[w])
            /\ UNCHANGED <<sleeps, armed, state, ctx, doing, crash>>
            /\ pc' = [pc EXCEPT ![w] = "scan"]
        BY <2>5 DEF Reschedule, ScheduleAgain, timers
      <3>2. /\ Range(pending') = Range(pending) \cup {created + 1}
            /\ created + 1 \in Fibers /\ created' = created + 1
        BY <1>00, <3>1, ScheduleAgainRange
      <3>3. \A v \in Workers : pc'[v] \in Busy => pc[v] = pc'[v]
        BY <1>00, <3>1 DEF Busy
      <3> QED BY <1>00, <3>1, <3>2, <3>3, AwakeNew DEF AInv
    <2> QED BY <2>1, <2>2, <2>3, <2>4, <2>5, WorkerSplit
  <1>2. CASE Owner \/ UNCHANGED vars
    <2>1. /\ UNCHANGED <<pending, created, armed, sleeps, state, ctx, doing, crash>>
          /\ pc' = pc \/ pc' = [w \in Workers |-> "scan"]
      BY <1>2 DEF Owner, Start, StopAuto, StopClean, Join, fibers, timers, vars
    <2>2. \A v \in Workers : pc'[v] \in Busy => pc[v] = pc'[v]
      BY <2>1 DEF Busy
    <2> QED BY <1>00, <2>1, <2>2, AwakeNew DEF AInv
  <1>3. CASE Submit
    <2>1. PICK n \in 1 .. 2 : Schedule(n) BY <1>3 DEF Submit
    <2>2. n \in Nat OBVIOUS
    <2>3. UNCHANGED <<sleeps, armed, state, ctx, pc, doing, crash>>
      BY <1>3, <2>1 DEF Submit, Schedule, timers
    <2>4. /\ Range(pending') = Range(pending) \cup (created + 1 .. created + n)
          /\ created + 1 .. created + n \subseteq Fibers /\ created' = created + n
      BY <1>00, <2>1, <2>2, ScheduleRange
    <2> QED BY <1>00, <2>2, <2>3, <2>4, AwakeNew DEF AInv
  <1>4. CASE \E f \in Fibers : Fire(f)
    BY <1>4 DEF Fire, AInv, Awake
  <1> QED BY <1>1, <1>2, <1>3, <1>4 DEF Next, Over

\* As long as nobody sleeps no assertion of Fiber.cc fails, in particular none
\* of ~Fiber, YieldToReady and YieldToHold, and no fiber is entered whose context
\* has not been saved.
THEOREM NoCrashWithoutSleep == Spec => []NoCrash
  <1>1. Init => AInv
    <2> SUFFICES ASSUME Init PROVE AInv OBVIOUS
    <2>1. Range(pending) = {} BY DEF Init, Range
    <2>2. Awake BY <2>1 DEF Init, Awake, Untouched, Busy
    <2>3. TInv BY TInvInit
    <2> QED BY <2>2, <2>3 DEF AInv
  <1>2. AInv => NoCrash BY DEF AInv, Awake, NoCrash
  <1> QED BY <1>1, <1>2, AInvNext, PTL DEF Spec

-----------------------------------------------------------------------------
(* First come, first served.                                               *)

\* The list grows at its tail by the next n fibers.
Grows(n) ==
    /\ created' = created + n
    /\ state' = state
    /\ DOMAIN pending' = 1 .. Len(pending) + n
    /\ \A j \in 1 .. Len(pending) : pending'[j] = pending[j]
    /\ \A k \in 1 .. n : pending'[Len(pending) + k] = created + k

\* scheduler(cb) and the restart of a READY fiber do that.
LEMMA ScheduleGrows ==
    ASSUME TypeInv, NEW n \in Nat, Schedule(n)
    PROVE  Grows(n)
  <1>1. created \in Nat /\ created + 1 .. created + n \subseteq Fibers
    BY ScheduleRange
  <1> DEFINE b == NewFibers(n)
  <1>2. b \in Seq(Fibers) /\ Len(b) = n /\ \A i \in 1 .. n : b[i] = created + i
    <2>1. \A i \in 1 .. n : created + i \in Fibers BY <1>1
    <2> QED BY <2>1, IsASeq DEF NewFibers
  <1>3. /\ pending \in Seq(Fibers) /\ pending' = pending \o b
        /\ created' = created + n /\ state' = state
    BY DEF TypeInv, TypeOK, TypeFibers, Schedule
  <1> HIDE DEF b
  <1>4. Len(pending) \in Nat
    BY <1>3, LenProperties
  <1>5. /\ pending' \in Seq(Fibers) /\ Len(pending') = Len(pending) + n
        /\ \A j \in 1 .. Len(pending) + n :
             pending'[j] = IF j <= Len(pending) THEN pending[j] ELSE b[j - Len(pending)]
    BY <1>2, <1>3, ConcatProperties
  <1>6. DOMAIN pending' = 1 .. Len(pending) + n
    BY <1>5, LenProperties
  <1>7. \A j \in 1 .. Len(pending) : pending'[j] = pending[j]
    BY <1>4, <1>5
  <1>8. ASSUME NEW k \in 1 .. n PROVE pending'[Len(pending) + k] = created + k
    <2>1. /\ Len(pending) + k \in 1 .. Len(pending) + n /\ ~(Len(pending) + k <= Len(pending))
          /\ (Len(pending) + k) - Len(pending) = k
      BY <1>4
    <2> QED BY ONLY <1>2, <1>5, <2>1, k \in 1 .. n
  <1> QED BY ONLY <1>3, <1>6, <1>7, <1>8 DEF Grows

LEMMA ScheduleAgainGrows ==
    ASSUME TypeInv, NEW f, ScheduleAgain(f)
    PROVE  Grows(1)
  <1>1. created \in Nat /\ created + 1 \in Fibers
    BY ScheduleAgainRange
  <1>2. /\ pending \in Seq(Fibers) /\ pending' = Append(pending, created + 1)
        /\ created' = created + 1 /\ state' = state
    BY DEF TypeInv, TypeOK, TypeFibers, ScheduleAgain
  <1>3. /\ Len(pending) \in Nat
        /\ DOMAIN pending' = 1 .. Len(pending) + 1
        /\ \A i \in 1 .. Len(pending) : pending'[i] = pending[i]
        /\ pending'[Len(pending) + 1] = created + 1
    BY <1>1, <1>2, AppendProperties, LenProperties
  <1> QED BY <1>2, <1>3 DEF Grows

\* New fibers queue behind all others, in the order of their creation.
LEMMA OrderGrows ==
    ASSUME IInv, NoOvertaking, NEW n \in Nat, Grows(n)
    PROVE  NoOvertaking'
  <1>1. /\ created \in Nat /\ pending \in Seq(Fibers)
        /\ Len(pending) \in Nat /\ DOMAIN pending = 1 .. Len(pending)
    BY LenProperties DEF IInv, TypeInv, TypeOK, TypeFibers
  <1>2. \A j \in 1 .. Len(pending) : pending[j] \in Nat /\ pending[j] <= created
    <2>1. Range(pending) \subseteq 1 .. created BY DEF IInv, Known
    <2>2. \A j \in DOMAIN pending : pending[j] \in Range(pending) BY DEF Range
    <2>3. \A j \in DOMAIN pending : pending[j] \in 1 .. created BY ONLY <2>1, <2>2
    <2> QED BY ONLY <1>1, <2>3
  <1>3. /\ created' = created + n /\ state' = state
        /\ DOMAIN pending' = 1 .. Len(pending) + n
        /\ \A j \in 1 .. Len(pending) : pending'[j] = pending[j]
        /\ \A k \in 1 .. n : pending'[Len(pending) + k] = created + k
    BY DEF Grows
  <1> SUFFICES ASSUME NEW i \in DOMAIN pending', state[pending'[i]] = "INIT",
                      NEW g \in pending'[i] + 1 .. created'
               PROVE  \E j \in DOMAIN pending' : j > i /\ pending'[j] = g
    BY <1>3 DEF NoOvertaking
  <1>4. CASE i \in 1 .. Len(pending)
    <2>1. pending'[i] = pending[i] /\ pending[i] \in Nat BY <1>2, <1>3, <1>4
    <2>2. g \in Nat /\ g > pending[i] /\ g <= created + n BY <1>3, <2>1
    <2>3. CASE g <= created
      <3>1. g \in pending[i] + 1 .. created BY <1>1, <2>1, <2>2, <2>3
      <3>2. PICK j \in DOMAIN pending : j > i /\ pending[j] = g
        BY <1>1, <1>4, <2>1, <3>1 DEF NoOvertaking
      <3>3. j \in DOMAIN pending' /\ pending'[j] = pending[j] BY <1>1, <1>3, <3>2
      <3> QED BY <3>2, <3>3
    <2>4. CASE g > created
      <3>1. /\ g - created \in 1 .. n /\ created + (g - created) = g
            /\ Len(pending) + (g - created) \in 1 .. Len(pending) + n
            /\ Len(pending) + (g - created) > i
        BY <1>1, <1>4, <2>2, <2>4
      <3>2. pending'[Len(pending) + (g - created)] = g BY <1>3, <3>1
      <3> QED BY <1>3, <3>1, <3>2
    <2> QED BY <1>1, <2>2, <2>3, <2>4
  <1>5. CASE i \notin 1 .. Len(pending)
    <2>1. i - Len(pending) \in 1 .. n /\ Len(pending) + (i - Len(pending)) = i
      BY <1>1, <1>3, <1>5
    <2>2. pending'[i] = created + (i - Len(pending))
      <3>1. pending'[Len(pending) + (i - Len(pending))] = created + (i - Len(pending))
        BY ONLY <1>3, <2>1
      <3> QED BY <2>1, <3>1
    <2>3. g \in Nat /\ g > created + (i - Len(pending)) /\ g <= created + n
      BY <1>1, <1>3, <2>1, <2>2
    <2>4. /\ g - created \in 1 .. n /\ created + (g - created) = g
          /\ Len(pending) + (g - created) \in 1 .. Len(pending) + n
          /\ Len(pending) + (g - created) > i
      BY <1>1, <1>3, <2>1, <2>3
    <2>5. pending'[Len(pending) + (g - created)] = g BY <1>3, <2>4
    <2> QED BY <1>3, <2>4, <2>5
  <1> QED BY <1>4, <1>5

\* The scan takes the first fiber it accepts, and it accepts every fresh one.
LEMMA OrderTake ==
    ASSUME IInv, NoOvertaking, NEW w \in Workers, ScanTake(w)
    PROVE  NoOvertaking'
  <1>1. PICK i \in Candidates : /\ \A j \in Candidates : i <= j
                                /\ pending' = RemoveAt(pending, i)
    BY DEF ScanTake
  <1>2. /\ pending \in Seq(Fibers) /\ Len(pending) \in Nat
        /\ DOMAIN pending = 1 .. Len(pending) /\ i \in 1 .. Len(pending)
    BY LenProperties DEF Candidates, IInv, TypeInv, TypeOK, TypeFibers
  <1>3. state' = state /\ created' = created
    BY DEF ScanTake, fibers
  <1>4. /\ DOMAIN pending' = 1 .. Len(pending) - 1
        /\ \A j \in 1 .. Len(pending) - 1 :
             pending'[j] = IF j < i THEN pending[j] ELSE pending[j + 1]
    BY <1>1, <1>2, RemoveAtElements
  <1> SUFFICES ASSUME NEW k \in DOMAIN pending', state[pending'[k]] = "INIT",
                      NEW g \in pending'[k] + 1 .. created
               PROVE  \E j \in DOMAIN pending' : j > k /\ pending'[j] = g
    BY <1>3 DEF NoOvertaking
  <1>5. k >= i
    <2> SUFFICES ASSUME k < i PROVE FALSE
      BY <1>2, <1>4
    <2>1. k \in DOMAIN pending /\ pending'[k] = pending[k] BY <1>2, <1>4
    <2>2. k \in Candidates BY <2>1 DEF Candidates, Runnable
    <2> QED BY <1>1, <1>2, <1>4, <2>2
  <1>6. pending'[k] = pending[k + 1] /\ k + 1 \in DOMAIN pending
    BY <1>2, <1>4, <1>5
  <1>7. PICK j \in DOMAIN pending : j > k + 1 /\ pending[j] = g
    BY <1>6 DEF NoOvertaking
  <1>8. j - 1 \in 1 .. Len(pending) - 1 /\ ~(j - 1 < i) /\ (j - 1) + 1 = j /\ j - 1 > k
    BY <1>2, <1>4, <1>5, <1>7
  <1>9. pending'[j - 1] = pending[j]
    BY <1>4, <1>8
  <1> QED BY <1>4, <1>7, <1>8, <1>9

\* A fiber that a timer appends is not a fresh one.
LEMMA OrderFire ==
    ASSUME IInv, NoOvertaking, NEW f \in Fibers, Fire(f)
    PROVE  NoOvertaking'
  <1>1. /\ f \in armed /\ pending' = Append(pending, f) /\ state' = state /\ created' = created
    BY DEF Fire, fibers
  <1>2. pending \in Seq(Fibers)
    BY DEF IInv, TypeInv, TypeOK, TypeFibers
  <1>3. /\ Len(pending) \in Nat /\ DOMAIN pending = 1 .. Len(pending)
        /\ DOMAIN pending' = 1 .. Len(pending) + 1
        /\ \A i \in 1 .. Len(pending) : pending'[i] = pending[i]
        /\ pending'[Len(pending) + 1] = f
    BY <1>1, <1>2, AppendProperties, LenProperties
  <1>4. state[f] # "INIT"
    BY <1>1 DEF IInv, Entered
  <1>5. \A i \in DOMAIN pending' : state[pending'[i]] = "INIT" =>
            i \in DOMAIN pending /\ pending'[i] = pending[i]
    BY <1>3, <1>4
  <1>6. \A j \in DOMAIN pending : j \in DOMAIN pending' /\ pending'[j] = pending[j]
    BY <1>3
  <1> QED BY ONLY <1>1, <1>5, <1>6, NoOvertaking DEF NoOvertaking

\* Every other step leaves the list alone and makes no fiber fresh.
LEMMA OrderQuiet ==
    ASSUME NoOvertaking, pending' = pending, created' = created,
           \A f \in Range(pending) : state'[f] = state[f] \/ state'[f] # "INIT"
    PROVE  NoOvertaking'
  BY DEF NoOvertaking, Range

\* Every step keeps the order.
LEMMA OrderNext == IInv /\ NoOvertaking /\ [Next]_vars => NoOvertaking'
  <1> SUFFICES ASSUME IInv, NoOvertaking, [Next]_vars PROVE NoOvertaking' OBVIOUS
  <1>0. TypeInv /\ Range(pending) \subseteq Fibers
    BY BoundsAssumption DEF IInv, TypeInv, TypeOK, TypeFibers, Known, Fibers
  <1>1. ASSUME NEW w \in Workers, Worker(w) PROVE NoOvertaking'
    <2>1. CASE Quiet(w)
      BY <1>0, <2>1, QuietFacts, OrderQuiet
    <2>2. CASE ScanTake(w) BY <2>2, OrderTake
    <2>3. CASE Spawn(w)
      <3>1. Schedule(1) /\ 1 \in Nat BY <2>3 DEF Spawn
      <3> QED BY <1>0, <3>1, ScheduleGrows, OrderGrows
    <2>4. CASE Reschedule(w)
      <3>1. ScheduleAgain(doing[w]) /\ 1 \in Nat BY <2>4 DEF Reschedule
      <3> QED BY <1>0, <3>1, ScheduleAgainGrows, OrderGrows
    <2> QED BY <1>1, <2>1, <2>2, <2>3, <2>4, WorkerSplit
  <1>2. ASSUME Owner \/ UNCHANGED vars PROVE NoOvertaking'
    <2>1. UNCHANGED <<pending, created, state>>
      BY <1>2 DEF Owner, Start, StopAuto, StopClean, Join, fibers, vars
    <2> QED BY <2>1, OrderQuiet
  <1>3. ASSUME Submit PROVE NoOvertaking'
    <2>1. PICK n \in 1 .. 2 : Schedule(n) BY <1>3 DEF Submit
    <2>2. n \in Nat OBVIOUS
    <2> QED BY <1>0, <2>1, <2>2, ScheduleGrows, OrderGrows
  <1>4. ASSUME NEW f \in Fibers, Fire(f) PROVE NoOvertaking'
    BY <1>4, OrderFire
  <1> QED BY <1>1, <1>2, <1>3, <1>4 DEF Next, Over

\* Callbacks are taken from the list for their first run in the order in which
\* they were scheduled, for any number of workers that scan the list and callbacks
\* that schedule others, yield, sleep and are restarted.
THEOREM FirstComeFirstServed == Spec => []NoOvertaking
  <1>1. Init => NoOvertaking BY DEF Init, NoOvertaking
  <1>2. Spec => []IInv BY IInvInit, IInvNext, PTL DEF Spec
  <1> QED BY <1>1, <1>2, OrderNext, PTL DEF Spec

-----------------------------------------------------------------------------
(* A fiber that has ended is not entered again, although the store of HOLD *)
(* can make it look like one that waits to be resumed.                     *)

\* A worker on whose CPU the fiber's context is.
Inside == {"exec", "armed", "yielded"}

\* The context of a fiber is on one CPU at a time.
OnOneCpu ==
    /\ \A w \in Workers : pc[w] \in Inside => ctx[doing[w]] = "live"
    /\ \A v, w \in Workers :
          pc[v] \in Inside /\ pc[w] \in Inside /\ doing[v] = doing[w] => v = w
    /\ \A f \in Fibers : f > created => ctx[f] = "fresh"

\* A fiber whose FiberRun has ended is neither in the list nor with a timer, and no
\* worker is about to enter it.
EndedStaysOut ==
    \A f \in Fibers : ctx[f] = "done" =>
        /\ f \notin Range(pending) \cup armed
        /\ \A w \in Workers : doing[w] = f => pc[w] \notin {"taken", "swapIn"}

EInv == TInv /\ OnOneCpu /\ EndedStaysOut

\* What a quiet step does to the contexts.
Keeps(w) ==
    /\ ctx' = ctx
    /\ pc'[w] \in Inside => pc[w] \in Inside
Enters(w) ==
    /\ pc[w] = "swapIn" /\ pc'[w] = "exec" /\ armed' = armed
    /\ ctx[doing[w]] \notin {"live", "done"} /\ ctx' = [ctx EXCEPT ![doing[w]] = "live"]
Leaves(w) ==
    /\ pc[w] = "yielded" /\ pc'[w] = "back" /\ armed' = armed
    /\ ctx' = [ctx EXCEPT ![doing[w]] = "saved"]
Ends(w) ==
    /\ pc[w] = "exec" /\ pc'[w] = "back" /\ armed' = armed
    /\ ctx' = [ctx EXCEPT ![doing[w]] = "done"]

LEMMA QuietContexts ==
    ASSUME TypeInv, NEW w \in Workers, Quiet(w)
    PROVE  Keeps(w) \/ Enters(w) \/ Leaves(w) \/ Ends(w)
  <1>0. pc \in [Workers -> Pcs] BY DEF TypeInv, TypeOK, TypeWorkers
  <1>1. CASE SwapIn(w)
    <2>1. CASE crash' = "no"
      <3>1. state[doing[w]] # "EXEC" /\ ctx[doing[w]] \notin {"live", "done"}
        BY <1>1, <2>1 DEF SwapIn
      <3> QED BY <1>0, <1>1, <2>1, <3>1 DEF SwapIn, Enters, timers
    <2>2. CASE crash' # "no" BY <1>1, <2>2 DEF SwapIn, Keeps
    <2> QED BY <2>1, <2>2
  <1>2. CASE SwapOut(w) BY <1>0, <1>2 DEF SwapOut, Leaves, At, timers
  <1>3. CASE FiberRunEnds(w) BY <1>0, <1>3 DEF FiberRunEnds, Ends, At, timers
  <1>4. CASE YieldToReady(w) \/ YieldToHold(w)
    BY <1>0, <1>4 DEF YieldToReady, YieldToHold, YieldTo, At, Keeps, Inside
  <1>5. CASE \/ ScanCrash(w) \/ ScanNone(w) \/ Activate(w) \/ Sleep(w)
             \/ Deactivate(w) \/ TestReady(w) \/ TestEnded(w) \/ SetHold(w)
             \/ EnterIdle(w) \/ IdleFiber(w) \/ LeaveIdle(w) \/ ExitLoop(w)
    BY <1>0, <1>5 DEF ScanCrash, ScanNone, Activate, Deactivate, TestReady, TestEnded,
                      EnterIdle, IdleFiber, LeaveIdle, ExitLoop, Sleep, SetHold, At, Keeps,
                      Inside, fibers
  <1> QED BY <1>1, <1>2, <1>3, <1>4, <1>5 DEF Quiet

LEMMA EndedQuiet ==
    ASSUME EInv, NEW w \in Workers, Quiet(w)
    PROVE  OnOneCpu' /\ EndedStaysOut'
  <1> USE DEF EInv, TInv, IInv
  <1>1. /\ pending' = pending /\ created' = created
        /\ \A v \in Workers \ {w} : pc'[v] = pc[v] /\ doing'[v] = doing[v]
        /\ pc[w] \in Busy => doing'[w] = doing[w]
        /\ pc[w] \notin Busy => pc'[w] \notin Busy
    BY QuietFacts
  <1>2. /\ pc'[w] \in {"taken", "swapIn"} => pc[w] \in {"taken", "swapIn"}
        /\ \/ armed' = armed
           \/ pc[w] = "exec" /\ armed' = armed \cup {doing[w]}
    BY QuietTickets
  <1>3. Inside \subseteq Busy /\ Holding \subseteq Busy /\ "exec" \in Inside \cap Holding
        /\ "yielded" \in Inside /\ "swapIn" \in Holding /\ "taken" \in Holding
        /\ "back" \notin Inside
    BY DEF Inside, Holding, Busy
  <1>4. /\ ctx \in [Fibers -> CtxState] /\ BusyHolds /\ created \in Nat
        /\ Fibers \subseteq Nat
    BY DEF TypeInv, TypeOK, TypeFibers, Fibers
  <1>5. \A v \in Workers : pc[v] \in Busy => doing[v] \in Fibers /\ doing[v] <= created
    BY <1>4 DEF Known, BusyHolds
  <1>6. ASSUME NEW v \in Workers, pc'[v] \in {"taken", "swapIn"}
        PROVE  pc[v] \in {"taken", "swapIn"} /\ doing'[v] = doing[v]
    BY <1>1, <1>2, <1>3, <1>6
  <1>7. CASE Keeps(w)
    <2>1. \A v \in Workers : pc'[v] \in Inside => pc[v] \in Inside /\ doing'[v] = doing[v]
      BY <1>1, <1>3, <1>7 DEF Keeps
    <2>2. OnOneCpu' BY <1>1, <1>7, <2>1 DEF OnOneCpu, Keeps
    <2>3. ASSUME NEW f \in Fibers, ctx[f] = "done" PROVE f \notin armed'
      BY <1>2, <1>3, <2>3 DEF OnOneCpu, EndedStaysOut
    <2> QED BY <1>1, <1>6, <1>7, <2>2, <2>3 DEF EndedStaysOut, Keeps
  <1>8. CASE Enters(w)
    <2>1. /\ ctx'[doing[w]] = "live" /\ doing[w] \in Fibers /\ doing'[w] = doing[w]
          /\ \A f \in Fibers : f # doing[w] => ctx'[f] = ctx[f]
      BY <1>1, <1>3, <1>4, <1>5, <1>8 DEF Enters
    <2>2. ASSUME NEW v \in Workers, pc'[v] \in Inside, v # w
          PROVE  /\ pc[v] \in Inside /\ doing'[v] = doing[v] /\ doing[v] # doing[w]
                 /\ ctx'[doing[v]] = "live"
      <3>1. pc[v] \in Inside /\ doing'[v] = doing[v] BY <1>1, <2>2
      <3>2. ctx[doing[v]] = "live" BY <3>1 DEF OnOneCpu
      <3>3. doing[v] # doing[w] /\ doing[v] \in Fibers BY <1>3, <1>5, <1>8, <3>1, <3>2 DEF Enters
      <3> QED BY <2>1, <3>1, <3>2, <3>3
    <2>3. OnOneCpu'
      <3>1. \A v \in Workers : pc'[v] \in Inside => ctx'[doing'[v]] = "live"
        BY <2>1, <2>2
      <3>2. \A u, v \in Workers :
              pc'[u] \in Inside /\ pc'[v] \in Inside /\ doing'[u] = doing'[v] => u = v
        BY <2>1, <2>2 DEF OnOneCpu
      <3>3. doing[w] \in Nat /\ created \in Nat /\ doing[w] <= created
        BY <1>3, <1>4, <1>5, <1>8 DEF Enters
      <3>4. \A f \in Fibers : f > created => f # doing[w] BY ONLY <1>4, <3>3
      <3> QED BY <1>1, <2>1, <3>1, <3>2, <3>4 DEF OnOneCpu
    <2>4. \A f \in Fibers : ctx'[f] = "done" => ctx[f] = "done" BY <2>1
    <2> QED BY <1>1, <1>6, <1>8, <2>3, <2>4 DEF EndedStaysOut, Enters
  <1>9. CASE Leaves(w) \/ Ends(w)
    <2>1. PICK c \in {"saved", "done"} :
            /\ ctx' = [ctx EXCEPT ![doing[w]] = c] /\ (c = "done" => pc[w] = "exec")
            /\ pc[w] \in Inside /\ pc'[w] = "back" /\ armed' = armed
      BY <1>3, <1>9 DEF Leaves, Ends
    <2>2. /\ doing[w] \in Fibers /\ doing[w] <= created
          /\ ctx'[doing[w]] = c /\ \A f \in Fibers : f # doing[w] => ctx'[f] = ctx[f]
      BY <1>3, <1>4, <1>5, <2>1
    <2>3. ASSUME NEW v \in Workers, pc'[v] \in Inside
          PROVE  pc[v] \in Inside /\ doing'[v] = doing[v] /\ ctx'[doing[v]] = "live"
      <3>1. v # w BY <1>3, <2>1, <2>3
      <3>2. pc[v] \in Inside /\ doing'[v] = doing[v] BY <1>1, <2>3, <3>1
      <3>3. doing[v] # doing[w] /\ doing[v] \in Fibers
        BY <1>3, <1>5, <2>1, <3>1, <3>2 DEF OnOneCpu
      <3> QED BY <2>2, <3>2, <3>3 DEF OnOneCpu
    <2>4. OnOneCpu'
      <3>0. doing[w] \in Nat /\ created \in Nat /\ doing[w] <= created BY <1>4, <2>2
      <3>1. \A f \in Fibers : f > created => f # doing[w] BY ONLY <1>4, <3>0
      <3> QED BY <1>1, <2>2, <2>3, <3>1 DEF OnOneCpu
    <2>5. ASSUME NEW f \in Fibers, ctx'[f] = "done"
          PROVE  /\ f \notin Range(pending') \cup armed'
                 /\ \A v \in Workers : doing'[v] = f => pc'[v] \notin {"taken", "swapIn"}
      <3>1. CASE f # doing[w]
        BY <1>1, <1>6, <2>1, <2>2, <2>5, <3>1 DEF EndedStaysOut
      <3>2. CASE f = doing[w]
        <4>1. pc[w] = "exec" BY <2>1, <2>2, <2>5, <3>2
        <4>2. f \notin Range(pending') \cup armed'
          BY <1>1, <1>3, <2>1, <3>2, <4>1 DEF OneTicket
        <4>3. ASSUME NEW v \in Workers, doing'[v] = f, pc'[v] \in {"taken", "swapIn"} PROVE FALSE
          <5>1. pc[v] \in {"taken", "swapIn"} /\ doing[v] = doing[w] BY <1>6, <3>2, <4>3
          <5>2. v = w BY <1>3, <4>1, <5>1 DEF OneTicket
          <5> QED BY <4>1, <5>1, <5>2
        <4> QED BY <4>2, <4>3
      <3> QED BY <3>1, <3>2
    <2> QED BY <2>4, <2>5 DEF EndedStaysOut
  <1> QED BY <1>7, <1>8, <1>9, QuietContexts

\* The steps that add fibers to the list: new ones, whose contexts are fresh.
LEMMA EndedNew ==
    ASSUME EInv, NEW N, \A f \in N \cap Fibers : f > created,
           Range(pending') = Range(pending) \cup N,
           \A v \in Workers : pc'[v] \in Inside \cup {"taken", "swapIn"} => pc'[v] = pc[v],
           created' \in Nat, created' >= created, UNCHANGED <<armed, ctx, doing>>
    PROVE  OnOneCpu' /\ EndedStaysOut'
  <1>1. created \in Nat /\ Fibers \subseteq Nat
    BY DEF EInv, TInv, IInv, TypeInv, TypeOK, TypeFibers, Fibers
  <1>2. \A f \in Fibers : f > created' => f > created BY <1>1
  <1>3. OnOneCpu' BY <1>2 DEF EInv, OnOneCpu
  <1>4. \A f \in Fibers : ctx[f] = "done" => f \notin N BY DEF EInv, OnOneCpu
  <1> QED BY <1>3, <1>4 DEF EInv, EndedStaysOut

\* Every step keeps ended fibers out.
LEMMA EInvNext == EInv /\ [Next]_vars => EInv'
  <1> SUFFICES ASSUME EInv, [Next]_vars PROVE EInv' OBVIOUS
  <1>0. TInv' BY TInvNext DEF EInv
  <1>00. TypeInv /\ Known /\ created \in Nat /\ pc \in [Workers -> Pcs] /\ created' \in Nat
    BY <1>0 DEF EInv, TInv, IInv, TypeInv, TypeOK, TypeFibers, TypeWorkers
  <1>1. ASSUME NEW w \in Workers, Worker(w) PROVE OnOneCpu' /\ EndedStaysOut'
    <2>1. CASE Quiet(w) BY <2>1, EndedQuiet
    <2>2. CASE ScanTake(w)
      <3>1. PICK f \in Range(pending) : /\ doing' = [doing EXCEPT ![w] = f]
                                        /\ Range(pending) = Range(pending') \cup {f}
        BY <1>00, <2>2, TakeRange
      <3>2. /\ UNCHANGED <<armed, ctx, created>> /\ doing'[w] = f /\ pc'[w] = "taken"
            /\ \A v \in Workers \ {w} : doing'[v] = doing[v] /\ pc'[v] = pc[v]
        BY <1>00, <2>2, <3>1 DEF ScanTake, fibers, timers, TypeInv, TypeOK, TypeWorkers
      <3>3. "taken" \notin Inside BY DEF Inside
      <3>4. OnOneCpu' BY <3>2, <3>3 DEF EInv, OnOneCpu
      <3> QED BY <3>1, <3>2, <3>4 DEF EInv, EndedStaysOut
    <2>3. CASE Spawn(w)
      <3>1. Schedule(1) /\ UNCHANGED <<armed, ctx, pc, doing>>
        BY <2>3 DEF Spawn, Schedule, timers
      <3>2. /\ Range(pending') = Range(pending) \cup (created + 1 .. created + 1)
            /\ created' = created + 1
        BY <1>00, <3>1, ScheduleRange
      <3>3. \A f \in (created + 1 .. created + 1) \cap Fibers : f > created BY <1>00
      <3>4. created' >= created BY <1>00, <3>2
      <3> QED BY <1>00, <3>1, <3>2, <3>3, <3>4, EndedNew
    <2>4. CASE Reschedule(w)
      <3>1. /\ ScheduleAgain(doing[w]) /\ UNCHANGED <<armed, ctx, doing>>
            /\ pc' = [pc EXCEPT ![w] = "scan"]
        BY <2>4 DEF Reschedule, ScheduleAgain, timers
      <3>2. Range(pending') = Range(pending) \cup {created + 1} /\ created' = created + 1
        BY <1>00, <3>1, ScheduleAgainRange
      <3>3. /\ \A f \in {created + 1} \cap Fibers : f > created
            /\ created' >= created
        BY <1>00, <3>2
      <3>4. \A v \in Workers : pc'[v] \in Inside \cup {"taken", "swapIn"} => pc'[v] = pc[v]
        BY <1>00, <3>1 DEF Inside
      <3> QED BY <1>00, <3>1, <3>2, <3>3, <3>4, EndedNew
    <2> QED BY <1>1, <2>1, <2>2, <2>3, <2>4, WorkerSplit
  <1>2. ASSUME Owner \/ UNCHANGED vars PROVE OnOneCpu' /\ EndedStaysOut'
    <2>1. /\ UNCHANGED <<pending, armed, ctx, doing, created>>
          /\ pc' = pc \/ pc' = [w \in Workers |-> "scan"]
      BY <1>2 DEF Owner, Start, StopAuto, StopClean, Join, fibers, timers, vars
    <2>2. \A v \in Workers : pc'[v] \in Inside \cup {"taken", "swapIn"} => pc'[v] = pc[v]
      BY <2>1 DEF Inside
    <2>3. Range(pending') = Range(pending) \cup {} /\ created' >= created BY <1>00, <2>1
    <2>4. \A f \in {} \cap Fibers : f > created OBVIOUS
    <2> QED BY <1>00, <2>1, <2>2, <2>3, <2>4, EndedNew
  <1>3. ASSUME Submit PROVE OnOneCpu' /\ EndedStaysOut'
    <2>1. PICK n \in 1 .. 2 : Schedule(n) BY <1>3 DEF Submit
    <2>2. n \in Nat OBVIOUS
    <2>3. UNCHANGED <<armed, ctx, pc, doing>>
      BY <1>3, <2>1 DEF Submit, Schedule, timers
    <2>4. Range(pending') = Range(pending) \cup (created + 1 .. created + n) /\ created' = created + n
      BY <1>00, <2>1, <2>2, ScheduleRange
    <2>5. /\ \A f \in (created + 1 .. created + n) \cap Fibers : f > created
          /\ created' >= created
      BY <1>00, <2>2, <2>4
    <2> QED BY <1>00, <2>3, <2>4, <2>5, EndedNew
  <1>4. ASSUME NEW f \in Fibers, Fire(f) PROVE OnOneCpu' /\ EndedStaysOut'
    <2>1. f \in armed /\ armed' = armed \ {f} /\ UNCHANGED <<ctx, pc, doing, created>>
      BY <1>4 DEF Fire, fibers
    <2>2. Range(pending') = Range(pending) \cup {f} BY <1>00, <1>4, FireRange
    <2> QED BY <2>1, <2>2 DEF EInv, OnOneCpu, EndedStaysOut
  <1> QED BY <1>0, <1>1, <1>2, <1>3, <1>4 DEF EInv, Next, Over

\* FiberRun of a fiber ends once: an ended fiber is in no place from which swapIn
\* would enter it, although the worker that it left earlier may still overwrite
\* its TERM with HOLD (Scheduler.cc:158), which the scan accepts.
THEOREM EndedNeverEntered == Spec => []EndedStaysOut
  <1>1. Init => EInv
    <2> SUFFICES ASSUME Init PROVE EInv OBVIOUS
    <2> QED BY TInvInit DEF Init, EInv, OnOneCpu, EndedStaysOut, Inside
  <1>2. EInv => EndedStaysOut BY DEF EInv
  <1> QED BY <1>1, <1>2, EInvNext, PTL DEF Spec
==============================================================================
