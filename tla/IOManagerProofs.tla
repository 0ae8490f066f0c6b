-------------------------- MODULE IOManagerProofs --------------------------
(***************************************************************************)
(* Theorems about IOManager, for any number of workers, fds and client     *)
(* operations.                                                             *)
(***************************************************************************)
EXTENDS IOManager, CommonLemmas

USE DEF At, Goto

\* A worker that has been told of the eventfd and has not read it yet.
Told(w) == pc[w] = "readWakeup" \/ Wakeupfd \in events[w]

\* The part of TypeOK that the argument needs.
Shape ==
    /\ pc \in [Workers -> Pcs]
    /\ events \in [Workers -> SUBSET Events]
    /\ eventfd \in BOOLEAN

\* The event leaves the set before the eventfd is read.
ToldOnce == \A w \in Workers : pc[w] = "readWakeup" => Wakeupfd \notin events[w]

\* Whoever emptied the eventfd has not been told of it since.
SomebodyNotTold == ~eventfd => \E w \in Workers : ~Told(w)

IInv == Shape /\ IdleExact /\ ToldOnce /\ SomebodyNotTold

\* A worker that moves, with idleThreadCount_ changed as the places say, keeps the
\* count exact.
LEMMA IdleMove ==
    ASSUME IdleExact, NEW w \in Workers,
           \A v \in Workers \ {w} : pc'[v] = pc[v],
           idle' = idle + (IF pc'[w] \in InIdle THEN 1 ELSE 0)
                        - (IF pc[w] \in InIdle THEN 1 ELSE 0)
    PROVE  IdleExact'
  <1> DEFINE h == HowMany(Workers, pc, InIdle)
             k == HowMany(Workers, pc', InIdle)
  <1>1. IsFiniteSet(Workers)
    BY WorkersAssumption
  <1>2. /\ pc[w] \in InIdle /\ pc'[w] \in InIdle => k = h
        /\ pc[w] \notin InIdle /\ pc'[w] \notin InIdle => k = h
        /\ pc[w] \in InIdle /\ pc'[w] \notin InIdle => k = h - 1
        /\ pc[w] \notin InIdle /\ pc'[w] \in InIdle => k = h + 1
    BY <1>1, MoveCount
  <1>3. h \in Nat /\ k \in Nat
    BY <1>1, CountType
  <1>4. idle = h /\ (IdleExact' <=> idle' = k)
    BY DEF IdleExact, HowMany
  <1> HIDE DEF h, k
  <1> QED BY <1>2, <1>3, <1>4

\* idleThreadCount_ is a number.
LEMMA IdleNat == IdleExact => idle \in Nat
  <1>1. IsFiniteSet(Workers)
    BY WorkersAssumption
  <1>2. HowMany(Workers, pc, InIdle) \in Nat
    BY <1>1, CountType
  <1> QED BY <1>2 DEF IdleExact, HowMany

\* A worker's step that does not touch the eventfd's event: it ends at p, outside
\* of read(mWakeupFd), and leaves its events alone.
PlainMove(w, p) ==
    /\ p \in Pcs \ {"readWakeup"}
    /\ pc' = [pc EXCEPT ![w] = p]
    /\ events' = events
    /\ eventfd' \in {eventfd, TRUE}
    /\ idle' = idle + (IF p \in InIdle THEN 1 ELSE 0) - (IF pc[w] \in InIdle THEN 1 ELSE 0)

\* Such a step keeps the invariant.
LEMMA PlainMoveStep ==
    ASSUME IInv, NEW w \in Workers, NEW p, PlainMove(w, p)
    PROVE  IInv'
  <1>1. pc'[w] = p /\ \A v \in Workers \ {w} : pc'[v] = pc[v]
    BY DEF IInv, Shape, PlainMove
  <1>2. IdleExact'
    BY <1>1, IdleMove DEF IInv, PlainMove
  <1>3. Shape' /\ ToldOnce'
    BY <1>1 DEF IInv, Shape, ToldOnce, PlainMove
  <1>4. SomebodyNotTold'
    <2> SUFFICES ASSUME ~eventfd' PROVE \E v \in Workers : ~Told(v)'
      BY DEF SomebodyNotTold
    <2>1. ~eventfd
      BY DEF IInv, Shape, PlainMove
    <2>2. PICK u \in Workers : ~Told(u)
      BY <2>1 DEF IInv, SomebodyNotTold
    <2>3. pc'[u] # "readWakeup" /\ Wakeupfd \notin events'[u]
      BY <1>1, <2>2 DEF Told, PlainMove
    <2> QED BY <2>3 DEF Told
  <1> QED BY <1>2, <1>3, <1>4 DEF IInv

\* A step that moves no worker.
LEMMA NoMove ==
    ASSUME IInv, pc' = pc, events' = events, eventfd' \in {eventfd, TRUE}, idle' = idle
    PROVE  IInv'
  BY DEF IInv, Shape, IdleExact, ToldOnce, SomebodyNotTold, Told

\* epoll_wait tells of the eventfd only while it is not empty.
LEMMA EpollWaitStep ==
    ASSUME IInv, NEW w \in Workers, EpollWait(w)
    PROVE  IInv'
  <1>1. /\ pc[w] = "wait" /\ pc' = [pc EXCEPT ![w] = "events"]
        /\ events' = [events EXCEPT ![w] = Reported]
        /\ eventfd' = eventfd /\ idle' = idle
    BY DEF EpollWait
  <1>2. Reported \subseteq Events /\ (~eventfd => Wakeupfd \notin Reported)
    <2>1. Reported \subseteq Events
      BY DEF Reported
    <2>2. ASSUME ~eventfd, Wakeupfd \in Reported PROVE FALSE
      <3>1. PICK f \in Fds : Wakeupfd = <<f, ready[f] \cap {interest[f], "HUP"}>>
        BY <2>2 DEF Reported, Wakeupfd, Timerfd
      <3>2. f = "wakeupfd"
        BY <3>1 DEF Wakeupfd
      <3> QED BY <3>2, FdsAssumption
    <2> QED BY <2>1, <2>2
  <1>3. /\ pc'[w] = "events" /\ \A v \in Workers \ {w} : pc'[v] = pc[v]
        /\ events'[w] = Reported /\ \A v \in Workers \ {w} : events'[v] = events[v]
    BY <1>1 DEF IInv, Shape
  <1>4. IdleExact'
    <2>1. idle' = idle + (IF pc'[w] \in InIdle THEN 1 ELSE 0)
                       - (IF pc[w] \in InIdle THEN 1 ELSE 0)
      <3>1. idle \in Nat
        BY IdleNat DEF IInv
      <3> QED BY <1>1, <1>3, <3>1 DEF InIdle
    <2> QED BY <1>3, <2>1, IdleMove DEF IInv
  <1>5. Shape' /\ ToldOnce'
    BY <1>1, <1>2, <1>3 DEF IInv, Shape, ToldOnce, Pcs
  <1>6. SomebodyNotTold'
    BY <1>1, <1>2, <1>3 DEF IInv, Shape, SomebodyNotTold, Told
  <1> QED BY <1>4, <1>5, <1>6 DEF IInv

\* Taking up an event: it leaves the set, and only the eventfd's leads to the read.
LEMMA NextEventStep ==
    ASSUME IInv, NEW w \in Workers, NextEvent(w)
    PROVE  IInv'
  <1>1. PICK e \in events[w] :
          /\ events' = [events EXCEPT ![w] = @ \ {e}]
          /\ pc' = [pc EXCEPT ![w] = IF e = Wakeupfd THEN "readWakeup" ELSE "trigRead"]
    BY DEF NextEvent
  <1>2. pc[w] = "events" /\ eventfd' = eventfd /\ idle' = idle
    BY DEF NextEvent
  <1>3. /\ pc'[w] = (IF e = Wakeupfd THEN "readWakeup" ELSE "trigRead")
        /\ \A v \in Workers \ {w} : pc'[v] = pc[v]
        /\ events'[w] = events[w] \ {e}
        /\ \A v \in Workers \ {w} : events'[v] = events[v]
    BY <1>1 DEF IInv, Shape
  <1>4. IdleExact'
    <2>1. idle \in Nat
      BY IdleNat DEF IInv
    <2>2. idle' = idle + (IF pc'[w] \in InIdle THEN 1 ELSE 0)
                       - (IF pc[w] \in InIdle THEN 1 ELSE 0)
      BY <1>2, <1>3, <2>1 DEF InIdle
    <2> QED BY <1>3, <2>2, IdleMove DEF IInv
  <1>5. Shape' /\ ToldOnce'
    BY <1>1, <1>2, <1>3 DEF IInv, Shape, ToldOnce, Pcs
  <1>6. SomebodyNotTold'
    BY <1>2, <1>3 DEF IInv, Shape, SomebodyNotTold, Told
  <1> QED BY <1>4, <1>5, <1>6 DEF IInv

\* The worker that empties the eventfd is afterwards one that is not told.
LEMMA ReadWakeupStep ==
    ASSUME IInv, NEW w \in Workers, ReadWakeup(w)
    PROVE  IInv'
  <1>1. /\ pc[w] = "readWakeup" /\ pc' = [pc EXCEPT ![w] = "events"]
        /\ events' = events /\ eventfd' = FALSE /\ idle' = idle
    BY DEF ReadWakeup
  <1>2. pc'[w] = "events" /\ \A v \in Workers \ {w} : pc'[v] = pc[v]
    BY <1>1 DEF IInv, Shape
  <1>3. IdleExact'
    <2>1. idle \in Nat
      BY IdleNat DEF IInv
    <2>2. idle' = idle + (IF pc'[w] \in InIdle THEN 1 ELSE 0)
                       - (IF pc[w] \in InIdle THEN 1 ELSE 0)
      BY <1>1, <1>2, <2>1 DEF InIdle
    <2> QED BY <1>2, <2>2, IdleMove DEF IInv
  <1>4. Shape' /\ ToldOnce'
    BY <1>1, <1>2 DEF IInv, Shape, ToldOnce, Pcs
  <1>5. SomebodyNotTold'
    BY <1>1, <1>2 DEF IInv, Shape, ToldOnce, SomebodyNotTold, Told
  <1> QED BY <1>3, <1>4, <1>5 DEF IInv

\* Every other step of a worker.
LEMMA OtherStep ==
    ASSUME IInv, NEW w \in Workers,
           \/ ScanTake(w) \/ ScanNone(w) \/ WorkerWakeup(w) \/ WorkerWrites(w)
           \/ RunTask(w) \/ RunFd(w) \/ RunHandleRead(w) \/ Rearm(w)
           \/ EnterIdle(w) \/ TriggerRead(w) \/ TriggerWrite(w) \/ LeaveIdle(w)
    PROVE  IInv'
  <1>0. idle \in Nat
    BY IdleNat DEF IInv
  <1>1. ASSUME ScanTake(w) PROVE IInv'
    <2>1. PlainMove(w, "taken")
      BY <1>0, <1>1 DEF PlainMove, ScanTake, Pcs, InIdle
    <2> QED BY <2>1, PlainMoveStep
  <1>2. ASSUME ScanNone(w) PROVE IInv'
    <2>1. PlainMove(w, "noTask")
      BY <1>0, <1>2 DEF PlainMove, ScanNone, Pcs, InIdle
    <2> QED BY <2>1, PlainMoveStep
  <1>3. ASSUME WorkerWrites(w) PROVE IInv'
    <2>1. PlainMove(w, "run")
      BY <1>0, <1>3 DEF PlainMove, WorkerWrites, Pcs, InIdle
    <2> QED BY <2>1, PlainMoveStep
  <1>4. ASSUME RunTask(w) PROVE IInv'
    <2>1. PlainMove(w, "scan")
      BY <1>0, <1>4 DEF PlainMove, RunTask, Pcs, InIdle
    <2> QED BY <2>1, PlainMoveStep
  <1>5. ASSUME RunFd(w) PROVE IInv'
    <2>1. PlainMove(w, "scan")
      BY <1>0, <1>5 DEF PlainMove, RunFd, Pcs, InIdle
    <2> QED BY <2>1, PlainMoveStep
  <1>6. ASSUME Rearm(w) PROVE IInv'
    <2>1. PlainMove(w, "scan")
      BY <1>0, <1>6 DEF PlainMove, Rearm, Pcs, InIdle
    <2> QED BY <2>1, PlainMoveStep
  <1>7. ASSUME EnterIdle(w) PROVE IInv'
    <2>1. PlainMove(w, "wait")
      BY <1>0, <1>7 DEF PlainMove, EnterIdle, Pcs, InIdle
    <2> QED BY <2>1, PlainMoveStep
  <1>8. ASSUME TriggerRead(w) PROVE IInv'
    <2>1. PlainMove(w, "trigWrite")
      BY <1>0, <1>8 DEF PlainMove, TriggerRead, Pcs, InIdle
    <2> QED BY <2>1, PlainMoveStep
  <1>9. ASSUME TriggerWrite(w) PROVE IInv'
    <2>1. PlainMove(w, "events")
      BY <1>0, <1>9 DEF PlainMove, TriggerWrite, Pcs, InIdle
    <2> QED BY <2>1, PlainMoveStep
  <1>10. ASSUME LeaveIdle(w) PROVE IInv'
    <2>1. PlainMove(w, "scan")
      BY <1>0, <1>10 DEF PlainMove, LeaveIdle, Pcs, InIdle
    <2> QED BY <2>1, PlainMoveStep
  <1>11. ASSUME WorkerWakeup(w) PROVE IInv'
    <2>1. CASE HasIdleThreads
      <3>1. PlainMove(w, "run")
        BY <1>0, <1>11, <2>1 DEF PlainMove, WorkerWakeup, Pcs, InIdle
      <3> QED BY <3>1, PlainMoveStep
    <2>2. CASE ~HasIdleThreads
      <3>1. PlainMove(w, "takenWrite")
        BY <1>0, <1>11, <2>2 DEF PlainMove, WorkerWakeup, Pcs, InIdle
      <3> QED BY <3>1, PlainMoveStep
    <2> QED BY <2>1, <2>2
  <1>12. ASSUME RunHandleRead(w) PROVE IInv'
    <2>1. CASE timerfd = "expired"
      <3>1. PlainMove(w, "rearm")
        BY <1>0, <1>12, <2>1 DEF PlainMove, RunHandleRead, Pcs, InIdle
      <3> QED BY <3>1, PlainMoveStep
    <2>2. CASE timerfd # "expired"
      BY <1>12, <2>2, NoMove DEF RunHandleRead
    <2> QED BY <2>1, <2>2
  <1> QED BY <1>1, <1>2, <1>3, <1>4, <1>5, <1>6, <1>7, <1>8, <1>9, <1>10, <1>11, <1>12

\* Nobody is idle and nobody has been told of anything at the start.
LEMMA IInvInit == Init => IInv
  <1> SUFFICES ASSUME Init PROVE IInv OBVIOUS
  <1>1. Shape /\ ToldOnce
    BY DEF Init, Shape, ToldOnce, Pcs
  <1>2. SomebodyNotTold
    BY WorkersAssumption DEF Init, SomebodyNotTold, Told
  <1>3. IdleExact
    <2>1. {w \in Workers : pc[w] \in InIdle} = {}
      BY DEF Init, InIdle
    <2> QED BY <2>1, FS_EmptySet DEF Init, IdleExact
  <1> QED BY <1>1, <1>2, <1>3 DEF IInv

\* Every step of clients, kernel and workers keeps the invariant.
LEMMA IInvNext == IInv /\ [Next]_vars => IInv'
  <1> SUFFICES ASSUME IInv, [Next]_vars PROVE IInv' OBVIOUS
  <1>1. CASE Client
    <2>1. pc' = pc /\ events' = events /\ idle' = idle /\ eventfd' \in {eventfd, TRUE}
      BY <1>1 DEF Client, Submit, ClientWakeup, ClientWrites, AddEvent, SetConcern, SetCallback,
                  CancelEvent, DelFileDesc, AddTimer, worker
    <2> QED BY <2>1, NoMove
  <1>2. CASE Kernel
    BY <1>2, NoMove DEF Kernel, TimerExpires, Arrives, worker
  <1>3. ASSUME NEW w \in Workers, Worker(w) PROVE IInv'
    BY <1>3, OtherStep, EpollWaitStep, NextEventStep, ReadWakeupStep DEF Worker
  <1>4. ASSUME NEW w \in Workers, Interrupted(w) PROVE IInv'
    <2>1. idle \in Nat
      BY IdleNat DEF IInv
    <2>2. PlainMove(w, "events")
      BY <1>4, <2>1 DEF PlainMove, Interrupted, Pcs, InIdle
    <2> QED BY <2>2, PlainMoveStep
  <1>5. CASE UNCHANGED vars
    BY <1>5, NoMove DEF vars
  <1> QED BY <1>1, <1>2, <1>3, <1>4, <1>5 DEF Next

\* The strengthened invariant holds in every reachable state.
LEMMA IInvAlways == Spec => []IInv
  BY IInvInit, IInvNext, PTL DEF Spec

\* The workers cannot all be blocked in read(mWakeupFd), however many there are
\* and however late they read: the one that emptied the eventfd was not told
\* again before the next write.
THEOREM NotAllBlocked == Spec => []SomeWorkerRuns
  <1>1. IInv => SomeWorkerRuns
    BY WorkersAssumption DEF IInv, SomebodyNotTold, Told, SomeWorkerRuns, Blocked
  <1> QED BY <1>1, IInvAlways, PTL

\* idleThreadCount_ is exact, so Wakeup() called from inside Idle() never writes.
THEOREM IdleCountCorrect ==
    Spec => [](IdleExact /\ (\A w \in Workers : pc[w] \in InIdle => HasIdleThreads))
  <1>1. IInv => IdleExact /\ (\A w \in Workers : pc[w] \in InIdle => HasIdleThreads)
    <2> SUFFICES ASSUME IInv, NEW w \in Workers, pc[w] \in InIdle PROVE HasIdleThreads
      BY DEF IInv
    <2> DEFINE S == {v \in Workers : pc[v] \in InIdle}
    <2>1. IsFiniteSet(S) /\ w \in S
      BY WorkersAssumption, FS_Subset
    <2>2. Cardinality(S) \in Nat /\ Cardinality(S) # 0
      BY <2>1, FS_CardinalityType, FS_EmptySet
    <2> QED BY <2>2 DEF IInv, IdleExact, HasIdleThreads
  <1> QED BY <1>1, IInvAlways, PTL

-----------------------------------------------------------------------------
(* Types.  Shape and IdleExact have given those of the places, the         *)
(* reported events, the eventfd and the counter.                           *)

\* The lists and the callbacks that the workers have.
TaskTypes ==
    /\ pending \in Seq(Tasks) /\ task \in [Workers -> Tasks \cup {NoTask}]
    /\ submitted \in 0 .. MaxTasks /\ finished \subseteq 1 .. MaxTasks

\* The kernel, the FdCallback objects and the client.
FdTypes ==
    /\ timerfd \in {"off", "armed", "expired"}
    /\ ready \in [Fds -> SUBSET {"IN", "OUT", "HUP"}]
    /\ interest \in [Fds -> {"none", "IN", "OUT"}]
    /\ group \in [Fds -> FdCallback] /\ held \in [Workers -> FdCallback]
    /\ client \in ClientPlaces
    /\ changes \in 0 .. MaxChanges
    /\ crash \in {"no", "readTimerfdAssert", "nullGroup"}

\* TriggerEvent works on an event of the timerfd or of an fd, never on the
\* eventfd's, for which there is no FdCallback.
EventTypes ==
    /\ event \in [Workers -> Events \cup {NoEvent}]
    /\ \A w \in Workers : pc[w] \in {"trigRead", "trigWrite"} =>
            event[w] = Timerfd \/ event[w][1] \in Fds

TInv == TaskTypes /\ FdTypes /\ EventTypes

\* What the queued callbacks are made of.
LEMMA TaskKinds ==
    /\ HandleRead \in Tasks
    /\ \A i \in 1 .. MaxTasks : <<"task", i>> \in Tasks
    /\ \A x \in ClientTasks : x[2] \in 1 .. MaxTasks
    /\ \A op \in {"read", "write"}, f \in Fds, b \in BOOLEAN : <<op, f, b>> \in Tasks
    /\ \A x \in FdTasks : x[2] \in Fds
  BY DEF Tasks, ClientTasks, FdTasks

\* A step that queues at most one callback.
LEMMA QueueType ==
    ASSUME TaskTypes, NEW x \in Tasks, pending' = Append(pending, x) \/ pending' = pending
    PROVE  pending' \in Seq(Tasks)
  BY AppendProperties DEF TaskTypes

\* The steps of the client.
LEMMA ClientTypes ==
    ASSUME TInv, Client
    PROVE  TaskTypes' /\ FdTypes' /\ event' = event /\ pc' = pc
  <1>1. TaskTypes /\ FdTypes BY DEF TInv
  <1>2. event' = event /\ pc' = pc /\ task' = task /\ finished' = finished
    BY DEF Client, Submit, ClientWakeup, ClientWrites, AddEvent, SetConcern, SetCallback,
           CancelEvent, DelFileDesc, AddTimer, worker, counts
  <1>3. TaskTypes'
    <2>1. CASE Submit
      <3>1. submitted' \in 0 .. MaxTasks /\ submitted + 1 \in 1 .. MaxTasks
        BY <1>1, <2>1, BoundsAssumption DEF Submit, TaskTypes
      <3>2. pending' \in Seq(Tasks)
        BY <1>1, <2>1, <3>1, TaskKinds, QueueType DEF Submit
      <3> QED BY <1>1, <1>2, <3>1, <3>2 DEF TaskTypes
    <2>2. CASE ~Submit
      <3>1. pending' = pending /\ submitted' = submitted
        BY <2>2 DEF Client, ClientWakeup, ClientWrites, AddEvent, SetConcern, SetCallback,
                    CancelEvent, DelFileDesc, AddTimer, counts
      <3> QED BY <1>1, <1>2, <3>1 DEF TaskTypes
    <2> QED BY <2>1, <2>2
  <1>4. Change => changes' \in 0 .. MaxChanges
    BY <1>1, BoundsAssumption DEF Change, FdTypes
  <1>5. /\ {<<"idle">>, <<"wakeup">>, <<"write">>} \subseteq ClientPlaces
        /\ \A op \in {"read", "write"}, f \in Fds :
                <<"concern", op, f>> \in ClientPlaces /\ <<"callback", op, f>> \in ClientPlaces
    <2>1. {<<"concern", "callback">>[n] : n \in 1 .. 2} = {"concern", "callback"}
      <3>1. <<"concern", "callback">>[1] = "concern" /\ <<"concern", "callback">>[2] = "callback"
        OBVIOUS
      <3>2. 1 .. 2 = {1, 2} OBVIOUS
      <3> QED BY <3>1, <3>2
    <2> QED BY <2>1 DEF ClientPlaces
  <1>6. NoGroup \in FdCallback BY DEF NoGroup, FdCallback
  <1>7. FdTypes'
    <2>1. CASE Submit BY <1>1, <1>5, <2>1 DEF Submit, FdTypes, kernel
    <2>2. CASE ClientWakeup BY <1>1, <1>5, <2>2 DEF ClientWakeup, FdTypes, kernel, counts
    <2>3. CASE ClientWrites BY <1>1, <1>5, <2>3 DEF ClientWrites, FdTypes, kernel, counts
    <2>4. ASSUME NEW op \in {"read", "write"}, NEW f \in Fds, AddEvent(op, f) PROVE FdTypes'
      <3>1. group' \in [Fds -> FdCallback]
        BY <1>1, <2>4 DEF AddEvent, UpdateEpoll, FdTypes, FdCallback
      <3>2. interest' \in [Fds -> {"none", "IN", "OUT"}]
        BY <1>1, <2>4 DEF AddEvent, UpdateEpoll, FdTypes
      <3> QED BY <1>1, <1>4, <1>5, <2>4, <3>1, <3>2 DEF AddEvent, FdTypes
    <2>5. ASSUME NEW op \in {"read", "write"}, NEW f \in Fds, SetConcern(op, f) PROVE FdTypes'
      <3>1. group' \in [Fds -> FdCallback]
        BY <1>1, <2>5, ZenonT(30) DEF SetConcern, FdTypes, FdCallback
      <3> QED BY <1>1, <1>5, <2>5, <3>1 DEF SetConcern, FdTypes, kernel, counts
    <2>6. ASSUME NEW op \in {"read", "write"}, NEW f \in Fds, SetCallback(op, f) PROVE FdTypes'
      <3>1. group' \in [Fds -> FdCallback]
        BY <1>1, <2>6, ZenonT(30) DEF SetCallback, FdTypes, FdCallback
      <3> QED BY <1>1, <1>5, <2>6, <3>1 DEF SetCallback, FdTypes, kernel, counts
    <2>7. ASSUME NEW f \in Fds, CancelEvent(f) PROVE FdTypes'
      <3>1. group' \in [Fds -> FdCallback]
        <4>1. group \in [Fds -> FdCallback] BY <1>1 DEF FdTypes
        <4>2. group[f] \in FdCallback BY <4>1
        <4>3. CASE group' = [group EXCEPT ![f].concernRead = FALSE]
          <5>1. PICK y : y = [group[f] EXCEPT !.concernRead = FALSE] OBVIOUS
          <5>2. y \in FdCallback BY <4>2, <5>1 DEF FdCallback
          <5>3. group' = [group EXCEPT ![f] = y] BY <4>3, <5>1
          <5> QED BY ONLY <4>1, <5>2, <5>3
        <4>4. CASE group' = [group EXCEPT ![f].concernWrite = FALSE]
          <5>1. PICK y : y = [group[f] EXCEPT !.concernWrite = FALSE] OBVIOUS
          <5>2. y \in FdCallback BY <4>2, <5>1 DEF FdCallback
          <5>3. group' = [group EXCEPT ![f] = y] BY <4>4, <5>1
          <5> QED BY ONLY <4>1, <5>2, <5>3
        <4> QED BY <2>7, <4>3, <4>4 DEF CancelEvent
      <3> QED BY <1>1, <1>4, <2>7, <3>1 DEF CancelEvent, FdTypes, kernel
    <2>8. ASSUME NEW f \in Fds, DelFileDesc(f) PROVE FdTypes'
      <3>1. group' \in [Fds -> FdCallback]
        BY <1>1, <1>6, <2>8 DEF DelFileDesc, FdTypes
      <3>2. held' \in [Workers -> FdCallback]
        BY <1>1, <2>8 DEF DelFileDesc, FdTypes
      <3> QED BY <1>1, <2>8, <3>1, <3>2 DEF DelFileDesc, FdTypes, kernel, counts
    <2>9. CASE AddTimer BY <1>1, <1>4, <2>9 DEF AddTimer, FdTypes
    <2> QED BY <2>1, <2>2, <2>3, <2>4, <2>5, <2>6, <2>7, <2>8, <2>9 DEF Client
  <1> QED BY <1>2, <1>3, <1>7

\* A step that leaves the client, the FdCallback objects and the epoll set alone.
LEMMA FdQuiet ==
    ASSUME FdTypes, UNCHANGED <<interest, group, held, client, changes>>,
           timerfd' \in {"off", "armed", "expired"},
           ready' \in [Fds -> SUBSET {"IN", "OUT", "HUP"}],
           crash' \in {"no", "readTimerfdAssert", "nullGroup"}
    PROVE  FdTypes'
  BY DEF FdTypes

\* The steps in which a worker handles the list and runs callbacks.
LEMMA RunTypes ==
    ASSUME TInv, NEW w \in Workers,
           \/ ScanTake(w) \/ ScanNone(w) \/ WorkerWakeup(w) \/ WorkerWrites(w)
           \/ RunTask(w) \/ RunFd(w) \/ RunHandleRead(w) \/ Rearm(w)
    PROVE  TaskTypes' /\ FdTypes' /\ event' = event
  <1>1. TaskTypes /\ FdTypes BY DEF TInv
  <1>2. event' = event /\ UNCHANGED <<interest, group, held, client, changes, submitted>>
    BY DEF ScanTake, ScanNone, WorkerWakeup, WorkerWrites, RunTask, RunFd, RunHandleRead, Rearm,
           kernel, counts
  <1>3. CASE ScanTake(w)
    <2>1. Head(pending) \in Tasks /\ Tail(pending) \in Seq(Tasks)
      BY <1>1, <1>3, HeadTailProperties DEF ScanTake, TaskTypes
    <2>2. TaskTypes' BY <1>1, <1>2, <1>3, <2>1 DEF ScanTake, TaskTypes, counts
    <2> QED BY <1>1, <1>2, <1>3, <2>2, FdQuiet DEF ScanTake, FdTypes, kernel
  <1>4. CASE ScanNone(w)
    BY <1>1, <1>2, <1>4 DEF ScanNone, TaskTypes, FdTypes, kernel, counts
  <1>5. CASE WorkerWakeup(w)
    BY <1>1, <1>2, <1>5 DEF WorkerWakeup, TaskTypes, FdTypes, kernel, counts
  <1>6. CASE WorkerWrites(w)
    BY <1>1, <1>2, <1>6 DEF WorkerWrites, TaskTypes, FdTypes, kernel, counts
  <1>7. CASE RunTask(w)
    <2>1. task[w][2] \in 1 .. MaxTasks BY <1>7, TaskKinds DEF RunTask
    <2>2. TaskTypes' BY <1>1, <1>2, <1>7, <2>1 DEF RunTask, TaskTypes
    <2> QED BY <1>1, <1>2, <1>7, <2>2, FdQuiet DEF RunTask, FdTypes, kernel
  <1>8. CASE RunFd(w)
    <2>1. PICK f \in Fds : f = task[w][2] BY <1>8, TaskKinds DEF RunFd
    <2>2. \/ ready' = ready
          \/ ready' = [ready EXCEPT ![f] = @ \ {"IN"}]
          \/ ready' = [ready EXCEPT ![f] = @ \ {"OUT"}]
      BY <1>8, <2>1 DEF RunFd
    <2>3. ready' \in [Fds -> SUBSET {"IN", "OUT", "HUP"}] BY <1>1, <2>2 DEF FdTypes
    <2>4. FdTypes' BY <1>1, <1>2, <1>8, <2>3, FdQuiet DEF RunFd, FdTypes
    <2>5. TaskTypes' BY <1>1, <1>2, <1>8 DEF RunFd, TaskTypes, counts
    <2> QED BY <1>2, <2>4, <2>5
  <1>9. CASE RunHandleRead(w)
    <2>1. FdTypes' BY <1>1, <1>2, <1>9, FdQuiet DEF RunHandleRead, FdTypes
    <2> QED BY <1>1, <1>2, <1>9, <2>1 DEF RunHandleRead, TaskTypes, counts
  <1>10. CASE Rearm(w)
    <2>1. FdTypes' BY <1>1, <1>2, <1>10, FdQuiet DEF Rearm, FdTypes
    <2> QED BY <1>1, <1>2, <1>10, <2>1 DEF Rearm, TaskTypes, counts
  <1> QED BY <1>3, <1>4, <1>5, <1>6, <1>7, <1>8, <1>9, <1>10

\* The FdCallback a worker has a pointer to, erased or not, is one.
LEMMA MineType ==
    ASSUME FdTypes, NEW w \in Workers, event[w][1] \in Fds
    PROVE  Mine(w).read \in BOOLEAN /\ Mine(w).write \in BOOLEAN
  <1>1. held[w] \in FdCallback /\ group[event[w][1]] \in FdCallback
    BY DEF FdTypes
  <1>2. Mine(w) \in FdCallback
    BY <1>1 DEF Mine
  <1> QED BY <1>2 DEF FdCallback

\* The steps of a worker in Idle().
LEMMA IdleTypes ==
    ASSUME IInv, TInv, NEW w \in Workers,
           \/ EnterIdle(w) \/ EpollWait(w) \/ NextEvent(w) \/ ReadWakeup(w)
           \/ TriggerRead(w) \/ TriggerWrite(w) \/ LeaveIdle(w)
    PROVE  TaskTypes' /\ FdTypes'
  <1>1. TaskTypes /\ FdTypes /\ EventTypes BY DEF TInv
  <1>2. UNCHANGED <<timerfd, ready, interest, group, client, changes, submitted, finished, task>>
    BY DEF EnterIdle, EpollWait, NextEvent, ReadWakeup, TriggerRead, TriggerWrite, LeaveIdle,
           kernel, counts
  <1>3. FdTypes'
    <2>1. crash' \in {"no", "readTimerfdAssert", "nullGroup"}
      <3>1. CASE NextEvent(w) BY <3>1 DEF NextEvent
      <3>2. CASE ~NextEvent(w)
        <4>1. crash' = crash
          BY <3>2 DEF EnterIdle, EpollWait, ReadWakeup, TriggerRead, TriggerWrite, LeaveIdle
        <4> QED BY <1>1, <4>1 DEF FdTypes
      <3> QED BY <3>1, <3>2
    <2>2. held' \in [Workers -> FdCallback]
      <3>1. held' = held \/ held' = [held EXCEPT ![w] = NoGroup]
        BY DEF EnterIdle, EpollWait, NextEvent, ReadWakeup, TriggerRead, TriggerWrite, LeaveIdle
      <3>2. NoGroup \in FdCallback BY DEF NoGroup, FdCallback
      <3> QED BY <1>1, <3>1, <3>2 DEF FdTypes
    <2> QED BY <1>1, <1>2, <2>1, <2>2 DEF FdTypes
  <1>4. pending' \in Seq(Tasks)
    <2>1. ASSUME event[w][1] \in Fds
          PROVE  /\ <<"read", event[w][1], Mine(w).read>> \in Tasks
                 /\ <<"write", event[w][1], Mine(w).write>> \in Tasks
      BY <1>1, <2>1, MineType, TaskKinds
    <2>2. CASE TriggerRead(w)
      <3>1. event[w] = Timerfd \/ event[w][1] \in Fds BY <1>1, <2>2 DEF TriggerRead, EventTypes
      <3>2. \E x \in Tasks : pending' = Append(pending, x) \/ pending' = pending
        <4>1. CASE event[w] = Timerfd BY <2>2, <4>1, TaskKinds DEF TriggerRead, Trigger
        <4>2. CASE event[w] # Timerfd BY <2>1, <2>2, <3>1, <4>2, TaskKinds DEF TriggerRead, Trigger
        <4> QED BY <4>1, <4>2
      <3> QED BY <1>1, <3>2, QueueType
    <2>3. CASE TriggerWrite(w)
      <3>1. \E x \in Tasks : pending' = Append(pending, x) \/ pending' = pending
        BY <2>1, <2>3, TaskKinds DEF TriggerWrite, Trigger
      <3> QED BY <1>1, <3>1, QueueType
    <2>4. CASE ~TriggerRead(w) /\ ~TriggerWrite(w)
      <3>1. pending' = pending BY <2>4 DEF EnterIdle, EpollWait, NextEvent, ReadWakeup, LeaveIdle
      <3> QED BY <1>1, <3>1 DEF TaskTypes
    <2> QED BY <2>2, <2>3, <2>4
  <1> QED BY <1>1, <1>2, <1>3, <1>4 DEF TaskTypes

\* The event that a worker processes.
LEMMA EventStep ==
    ASSUME IInv, TInv, NEW w \in Workers, Worker(w)
    PROVE  EventTypes'
  <1>1. EventTypes BY DEF TInv
  <1>2. pc \in [Workers -> Pcs] /\ events \in [Workers -> SUBSET Events] BY DEF IInv, Shape
  <1>3. CASE NextEvent(w)
    <2>1. PICK e \in events[w] :
            /\ event' = [event EXCEPT ![w] =
                           IF "HUP" \in e[2] THEN <<e[1], e[2] \cup {"IN", "OUT"}>> ELSE e]
            /\ pc' = [pc EXCEPT ![w] = IF e = Wakeupfd THEN "readWakeup" ELSE "trigRead"]
      BY <1>3 DEF NextEvent
    <2>2. e \in Events BY <1>2
    <2> DEFINE x == IF "HUP" \in e[2] THEN <<e[1], e[2] \cup {"IN", "OUT"}>> ELSE e
    <2>3. x \in Events /\ (e # Wakeupfd => x = Timerfd \/ x[1] \in Fds)
      <3>1. CASE e \in Fds \X SUBSET {"IN", "OUT", "HUP"}
        <4>1. e[1] \in Fds /\ e[2] \in SUBSET {"IN", "OUT", "HUP"} BY <3>1
        <4>2. e[2] \cup {"IN", "OUT"} \in SUBSET {"IN", "OUT", "HUP"} BY <4>1
        <4>3. <<e[1], e[2] \cup {"IN", "OUT"}>> \in Events BY <4>1, <4>2 DEF Events
        <4>4. x[1] = e[1] OBVIOUS
        <4> QED BY <2>2, <4>1, <4>3, <4>4
      <3>2. CASE e = Timerfd \/ e = Wakeupfd
        <4>1. e[2] = {"IN"} BY <3>2 DEF Timerfd, Wakeupfd
        <4>2. x = e BY <4>1
        <4> QED BY <2>2, <3>2, <4>2
      <3> QED BY <2>2, <3>1, <3>2 DEF Events
    <2> HIDE DEF x
    <2>4. event' = [event EXCEPT ![w] = x] BY <2>1 DEF x
    <2>5. /\ event' \in [Workers -> Events \cup {NoEvent}] /\ event'[w] = x
          /\ \A v \in Workers \ {w} : event'[v] = event[v]
      BY <1>1, <2>3, <2>4 DEF EventTypes
    <2>6. /\ pc'[w] = "trigRead" \/ pc'[w] = "readWakeup"
          /\ pc'[w] = "trigRead" => e # Wakeupfd
          /\ \A v \in Workers \ {w} : pc'[v] = pc[v]
      BY <1>2, <2>1
    <2> QED BY <1>1, <2>3, <2>5, <2>6 DEF EventTypes
  <1>4. CASE LeaveIdle(w)
    <2>1. /\ event' \in [Workers -> Events \cup {NoEvent}]
          /\ \A v \in Workers \ {w} : event'[v] = event[v] /\ pc'[v] = pc[v]
          /\ pc'[w] = "scan"
      BY <1>1, <1>2, <1>4 DEF LeaveIdle, EventTypes
    <2> QED BY <1>1, <2>1 DEF EventTypes
  <1>5. CASE ~NextEvent(w) /\ ~LeaveIdle(w)
    <2>1. /\ event' = event
          /\ \/ pc' = pc
             \/ \E p : /\ pc' = [pc EXCEPT ![w] = p]
                       /\ p \in {"trigRead", "trigWrite"} => pc[w] = "trigRead"
      BY <1>5 DEF Worker, ScanTake, ScanNone, WorkerWakeup, WorkerWrites, RunTask, RunFd,
                  RunHandleRead, Rearm, EnterIdle, EpollWait, ReadWakeup, TriggerRead, TriggerWrite
    <2>2. CASE pc' = pc BY <1>1, <2>1, <2>2 DEF EventTypes
    <2>3. CASE \E p : /\ pc' = [pc EXCEPT ![w] = p]
                      /\ p \in {"trigRead", "trigWrite"} => pc[w] = "trigRead"
      <3>1. PICK p : /\ pc' = [pc EXCEPT ![w] = p]
                     /\ p \in {"trigRead", "trigWrite"} => pc[w] = "trigRead"
        BY <2>3
      <3>2. pc'[w] = p /\ \A v \in Workers \ {w} : pc'[v] = pc[v] BY <1>2, <3>1
      <3> QED BY <1>1, <2>1, <3>1, <3>2 DEF EventTypes
    <2> QED BY <2>1, <2>2, <2>3
  <1> QED BY <1>3, <1>4, <1>5

\* The types hold at the start.
LEMMA TInvInit == Init => TInv
  <1> SUFFICES ASSUME Init PROVE TInv OBVIOUS
  <1>1. <<>> \in Seq(Tasks) /\ NoGroup \in FdCallback /\ <<"idle">> \in ClientPlaces
    BY DEF NoGroup, FdCallback, ClientPlaces
  <1>2. TaskTypes BY <1>1, BoundsAssumption DEF Init, TaskTypes
  <1>3. FdTypes BY <1>1, BoundsAssumption DEF Init, FdTypes
  <1>4. EventTypes BY DEF Init, EventTypes
  <1> QED BY <1>2, <1>3, <1>4 DEF TInv

\* Every step keeps them.
LEMMA TInvNext == IInv /\ TInv /\ [Next]_vars => TInv'
  <1> SUFFICES ASSUME IInv, TInv, [Next]_vars PROVE TInv' OBVIOUS
  <1>1. CASE Client
    <2>1. TaskTypes' /\ FdTypes' /\ event' = event /\ pc' = pc BY <1>1, ClientTypes
    <2> QED BY <2>1 DEF TInv, EventTypes
  <1>2. CASE Kernel
    <2>1. FdTypes'
      <3>1. CASE TimerExpires
        BY <3>1 DEF TInv, TimerExpires, FdTypes, counts
      <3>2. ASSUME NEW f \in Fds, Arrives(f) PROVE FdTypes'
        <4>1. ready' \in [Fds -> SUBSET {"IN", "OUT", "HUP"}]
          BY <3>2 DEF TInv, Arrives, FdTypes
        <4>2. changes' \in 0 .. MaxChanges
          BY <3>2, BoundsAssumption DEF TInv, Arrives, Change, FdTypes
        <4> QED BY <3>2, <4>1, <4>2 DEF TInv, Arrives, FdTypes
      <3> QED BY <1>2, <3>1, <3>2 DEF Kernel
    <2>2. UNCHANGED <<pending, task, submitted, finished, event, pc>>
      BY <1>2 DEF Kernel, TimerExpires, Arrives, worker, counts
    <2> QED BY <2>1, <2>2 DEF TInv, TaskTypes, EventTypes
  <1>3. ASSUME NEW w \in Workers, Worker(w) PROVE TInv'
    <2>1. EventTypes' BY <1>3, EventStep
    <2>2. TaskTypes' /\ FdTypes' BY <1>3, RunTypes, IdleTypes DEF Worker
    <2> QED BY <2>1, <2>2 DEF TInv
  <1>4. ASSUME NEW w \in Workers, Interrupted(w) PROVE TInv'
    <2>1. UNCHANGED <<pending, task, submitted, finished, event, timerfd, ready, interest, group,
                      held, client, crash>>
      BY <1>4 DEF Interrupted, kernel
    <2>2. changes' \in 0 .. MaxChanges
      BY <1>4, BoundsAssumption DEF TInv, Interrupted, Change, FdTypes
    <2>3. pc' = [pc EXCEPT ![w] = "events"] /\ pc \in [Workers -> Pcs]
      BY <1>4 DEF Interrupted, IInv, Shape
    <2>4. pc'[w] = "events" /\ \A v \in Workers \ {w} : pc'[v] = pc[v]
      BY <2>3
    <2>5. EventTypes'
      BY <2>1, <2>4 DEF TInv, EventTypes
    <2> QED BY <2>1, <2>2, <2>5 DEF TInv, TaskTypes, FdTypes
  <1>5. CASE UNCHANGED vars
    BY <1>5 DEF vars, TInv, TaskTypes, FdTypes, EventTypes
  <1> QED BY <1>1, <1>2, <1>3, <1>4, <1>5 DEF Next

\* Every variable keeps its type: in particular a worker in TriggerEvent never
\* looks at the event of the eventfd, and the list holds callbacks only.
THEOREM TypesCorrect == Spec => []TypeOK
  <1>1. IInv /\ TInv => TypeOK
    BY IdleNat DEF IInv, Shape, TInv, TaskTypes, FdTypes, EventTypes, TypeOK
  <1> QED BY <1>1, IInvAlways, TInvInit, TInvNext, PTL DEF Spec

-----------------------------------------------------------------------------
(* When the assertion of readTimerfd does hold, and when the lookup of     *)
(* ProcessFdEvent does find an FdCallback.                                 *)

\* One worker, and no client sets the timerfd again before it was read.
Alone == Cardinality(Workers) = 1 /\ "retime" \notin ClientOps

\* The places of the list at which a handleRead waits.
ReadsQueued == {i \in DOMAIN pending : pending[i] = HandleRead}

\* An expiration is in one place on its way: reported to the worker, in
\* TriggerEvent, in the list, or taken from it.
OneReport(w) ==
    /\ \A i, j \in ReadsQueued : i = j
    /\ Timerfd \in events[w] =>
         timerfd = "expired" /\ pc[w] \in {"events", "readWakeup", "trigRead", "trigWrite"}
    /\ ReadsQueued # {} => /\ timerfd = "expired" /\ Timerfd \notin events[w]
                           /\ pc[w] \notin {"noTask", "wait", "rearm"}
    /\ pc[w] = "trigRead" /\ event[w] = Timerfd =>
         timerfd = "expired" /\ ReadsQueued = {} /\ Timerfd \notin events[w]
    /\ pc[w] \in {"taken", "takenWrite", "run"} /\ task[w] = HandleRead =>
         timerfd = "expired" /\ ReadsQueued = {}

\* What a step that appends to the list, or takes its head, does to them.
LEMMA ReadsAppend ==
    ASSUME pending \in Seq(Tasks), NEW x \in Tasks, pending' = Append(pending, x)
    PROVE  /\ x # HandleRead => ReadsQueued' = ReadsQueued
           /\ ReadsQueued = {} => \A i, j \in ReadsQueued' : i = j
  <1>1. /\ Len(pending) \in Nat /\ DOMAIN pending = 1 .. Len(pending)
        /\ DOMAIN pending' = 1 .. Len(pending) + 1
        /\ \A i \in 1 .. Len(pending) : pending'[i] = pending[i]
        /\ pending'[Len(pending) + 1] = x
    BY AppendProperties, LenProperties
  <1>2. \A i \in 1 .. Len(pending) + 1 : i \in 1 .. Len(pending) \/ i = Len(pending) + 1
    BY <1>1
  <1>3. \A i \in ReadsQueued' : i \in ReadsQueued \/ (i = Len(pending) + 1 /\ x = HandleRead)
    BY <1>1, <1>2 DEF ReadsQueued
  <1>4. ReadsQueued \subseteq ReadsQueued'
    BY <1>1 DEF ReadsQueued
  <1> QED BY <1>3, <1>4

LEMMA ReadsTake ==
    ASSUME pending \in Seq(Tasks), pending # <<>>, pending' = Tail(pending),
           \A i, j \in ReadsQueued : i = j
    PROVE  /\ \A i, j \in ReadsQueued' : i = j
           /\ ReadsQueued' # {} => ReadsQueued # {}
           /\ Head(pending) = HandleRead => ReadsQueued # {} /\ ReadsQueued' = {}
  <1>1. /\ Len(pending) \in Nat /\ Len(pending) > 0 /\ DOMAIN pending = 1 .. Len(pending)
        /\ Head(pending) = pending[1]
        /\ DOMAIN pending' = 1 .. Len(pending) - 1
        /\ \A i \in 1 .. Len(pending) - 1 : pending'[i] = pending[i + 1]
    <2>1. Len(pending) \in Nat /\ DOMAIN pending = 1 .. Len(pending) BY LenProperties
    <2>2. /\ Head(pending) = pending[1] /\ Tail(pending) \in Seq(Tasks)
          /\ Len(Tail(pending)) = Len(pending) - 1 /\ Len(pending) > 0
          /\ \A i \in 1 .. Len(Tail(pending)) : Tail(pending)[i] = pending[i + 1]
      BY <2>1, HeadTailProperties, EmptySeq
    <2>3. DOMAIN Tail(pending) = 1 .. Len(Tail(pending)) BY <2>2, LenProperties
    <2> QED BY <2>1, <2>2, <2>3
  <1>2. \A i \in ReadsQueued' : i \in Nat /\ i >= 1 /\ i + 1 \in ReadsQueued
    BY <1>1 DEF ReadsQueued
  <1>3. Head(pending) = HandleRead => 1 \in ReadsQueued
    BY <1>1 DEF ReadsQueued
  <1>4. ASSUME NEW i \in ReadsQueued', NEW j \in ReadsQueued' PROVE i = j
    <2>1. i + 1 = j + 1 BY <1>2
    <2> QED BY <1>2, <2>1
  <1>5. ASSUME Head(pending) = HandleRead, NEW i \in ReadsQueued' PROVE FALSE
    <2>1. i + 1 = 1 BY <1>2, <1>3, <1>5
    <2> QED BY <1>2, <2>1
  <1> QED BY <1>2, <1>3, <1>4, <1>5

\* A step that leaves the list and the worker alone, or appends something else.
LEMMA ReportKept ==
    ASSUME IInv, TInv, NEW w \in Workers, OneReport(w), UNCHANGED <<pc, task, events, event>>,
           \/ pending' = pending
           \/ \E x \in Tasks : x # HandleRead /\ pending' = Append(pending, x),
           timerfd' = timerfd \/ timerfd # "expired"
    PROVE  OneReport(w)'
  <1>1. ReadsQueued' = ReadsQueued
    BY ReadsAppend DEF TInv, TaskTypes, ReadsQueued
  <1> QED BY <1>1 DEF OneReport

\* The steps of the client and of the kernel.
LEMMA ReportOthers ==
    ASSUME IInv, TInv, NEW w \in Workers, OneReport(w), "retime" \notin ClientOps, Client \/ Kernel
    PROVE  OneReport(w)'
  <1>1. UNCHANGED <<pc, task, events, event>>
    BY DEF Client, Kernel, Submit, ClientWakeup, ClientWrites, AddEvent, SetConcern, SetCallback,
           CancelEvent, DelFileDesc, AddTimer, TimerExpires, Arrives, worker
  <1>2. timerfd' = timerfd \/ timerfd # "expired"
    BY DEF Client, Kernel, Submit, ClientWakeup, ClientWrites, AddEvent, SetConcern, SetCallback,
           CancelEvent, DelFileDesc, AddTimer, TimerExpires, Arrives, kernel, ClientCalls
  <1>3. CASE Submit
    <2>1. submitted + 1 \in 1 .. MaxTasks
      BY <1>3, BoundsAssumption DEF Submit, TInv, TaskTypes
    <2>2. PICK x : x = <<"task", submitted + 1>> OBVIOUS
    <2>3. x \in Tasks /\ x # HandleRead /\ pending' = Append(pending, x)
      BY <1>3, <2>1, <2>2, TaskKinds DEF Submit, HandleRead
    <2> QED BY <1>1, <1>2, <2>3, ReportKept
  <1>4. CASE ~Submit
    <2>1. pending' = pending
      BY <1>4 DEF Client, Kernel, ClientWakeup, ClientWrites, AddEvent, SetConcern, SetCallback,
             CancelEvent, DelFileDesc, AddTimer, TimerExpires, Arrives
    <2> QED BY <1>1, <1>2, <2>1, ReportKept
  <1> QED BY <1>3, <1>4

\* The steps of the worker itself, when nobody else is there.
LEMMA ReportWorker ==
    ASSUME IInv, TInv, NEW w \in Workers, OneReport(w), ReadTimerfdSucceeds, Worker(w)
    PROVE  OneReport(w)' /\ ReadTimerfdSucceeds'
  <1>0. /\ pending \in Seq(Tasks) /\ pc \in [Workers -> Pcs]
        /\ events \in [Workers -> SUBSET Events] /\ task \in [Workers -> Tasks \cup {NoTask}]
        /\ event \in [Workers -> Events \cup {NoEvent}]
    BY DEF IInv, Shape, TInv, TaskTypes, EventTypes
  <1>n. NoTask # HandleRead
    BY DEF NoTask, HandleRead
  <1>1. CASE ScanTake(w)
    <2>1. /\ pending # <<>> /\ pending' = Tail(pending)
          /\ pc[w] = "scan" /\ pc'[w] = "taken" /\ task'[w] = Head(pending)
          /\ UNCHANGED <<timerfd, events, event, crash>>
      BY <1>0, <1>1 DEF ScanTake, kernel
    <2>2. /\ \A i, j \in ReadsQueued' : i = j
          /\ ReadsQueued' # {} => ReadsQueued # {}
          /\ Head(pending) = HandleRead => ReadsQueued # {} /\ ReadsQueued' = {}
      BY <1>0, <2>1, ReadsTake DEF OneReport
    <2> QED BY <2>1, <2>2 DEF OneReport, ReadTimerfdSucceeds
  <1>2. CASE ScanNone(w)
    <2>1. /\ pending = <<>> /\ pc[w] = "scan" /\ pc'[w] = "noTask"
          /\ UNCHANGED <<pending, timerfd, task, events, event, crash>>
      BY <1>0, <1>2 DEF ScanNone, kernel
    <2>2. ReadsQueued = {} /\ ReadsQueued' = {}
      BY <2>1 DEF ReadsQueued
    <2> QED BY <2>1, <2>2 DEF OneReport, ReadTimerfdSucceeds
  <1>3. CASE WorkerWakeup(w) \/ WorkerWrites(w)
    <2>1. /\ pc[w] \in {"taken", "takenWrite"} /\ pc'[w] \in {"takenWrite", "run"}
          /\ UNCHANGED <<pending, timerfd, task, events, event, crash>>
      BY <1>0, <1>3 DEF WorkerWakeup, WorkerWrites, kernel
    <2>2. ReadsQueued' = ReadsQueued
      BY <2>1 DEF ReadsQueued
    <2> QED BY <2>1, <2>2 DEF OneReport, ReadTimerfdSucceeds
  <1>4. CASE RunTask(w) \/ RunFd(w)
    <2>1. /\ pc[w] = "run" /\ pc'[w] = "scan"
          /\ UNCHANGED <<pending, timerfd, events, event, crash>>
      BY <1>0, <1>4 DEF RunTask, RunFd, kernel
    <2>2. ReadsQueued' = ReadsQueued
      BY <2>1 DEF ReadsQueued
    <2> QED BY <2>1, <2>2 DEF OneReport, ReadTimerfdSucceeds
  <1>5. CASE RunHandleRead(w)
    <2>1. timerfd = "expired" /\ ReadsQueued = {}
      BY <1>5 DEF RunHandleRead, OneReport
    <2>2. /\ pc[w] = "run" /\ pc'[w] = "rearm" /\ crash' = crash
          /\ UNCHANGED <<pending, events, event>>
      BY <1>0, <1>5, <2>1 DEF RunHandleRead
    <2>3. ReadsQueued' = {}
      BY <2>1, <2>2 DEF ReadsQueued
    <2> QED BY <2>2, <2>3 DEF OneReport, ReadTimerfdSucceeds
  <1>6. CASE Rearm(w)
    <2>1. /\ pc[w] = "rearm" /\ pc'[w] = "scan"
          /\ UNCHANGED <<pending, events, event, crash>>
      BY <1>0, <1>6 DEF Rearm
    <2>2. ReadsQueued = {} /\ ReadsQueued' = {}
      BY <2>1 DEF ReadsQueued, OneReport
    <2> QED BY <2>1, <2>2 DEF OneReport, ReadTimerfdSucceeds
  <1>7. CASE EnterIdle(w)
    <2>1. /\ pc[w] = "noTask" /\ pc'[w] = "wait"
          /\ UNCHANGED <<pending, timerfd, task, events, event, crash>>
      BY <1>0, <1>7 DEF EnterIdle, kernel
    <2>2. ReadsQueued' = ReadsQueued
      BY <2>1 DEF ReadsQueued
    <2> QED BY <2>1, <2>2 DEF OneReport, ReadTimerfdSucceeds
  <1>8. CASE EpollWait(w)
    <2>1. /\ pc[w] = "wait" /\ pc'[w] = "events" /\ events'[w] = Reported
          /\ UNCHANGED <<pending, timerfd, task, event, crash>>
      BY <1>0, <1>8 DEF EpollWait, kernel
    <2>2. ReadsQueued' = ReadsQueued /\ ReadsQueued = {}
      BY <2>1 DEF ReadsQueued, OneReport
    <2>3. Timerfd \in Reported => timerfd = "expired"
      BY FdsAssumption DEF Reported, Timerfd, Wakeupfd
    <2> QED BY <2>1, <2>2, <2>3 DEF OneReport, ReadTimerfdSucceeds
  <1>9. CASE NextEvent(w)
    <2>1. PICK e \in events[w] :
            /\ events' = [events EXCEPT ![w] = @ \ {e}]
            /\ event' = [event EXCEPT ![w] =
                           IF "HUP" \in e[2] THEN <<e[1], e[2] \cup {"IN", "OUT"}>> ELSE e]
            /\ pc' = [pc EXCEPT ![w] = IF e = Wakeupfd THEN "readWakeup" ELSE "trigRead"]
            /\ crash' \in {"nullGroup", "no"}
      BY <1>9 DEF NextEvent
    <2>2. /\ pc[w] = "events" /\ pc'[w] \in {"readWakeup", "trigRead"}
          /\ events'[w] = events[w] \ {e}
          /\ event'[w] = IF "HUP" \in e[2] THEN <<e[1], e[2] \cup {"IN", "OUT"}>> ELSE e
          /\ UNCHANGED <<pending, timerfd, task>>
      BY <1>0, <1>9, <2>1 DEF NextEvent, kernel
    <2>3. ReadsQueued' = ReadsQueued
      BY <2>2 DEF ReadsQueued
    <2>4. event'[w] = Timerfd => e = Timerfd
      <3>1. CASE "HUP" \in e[2]
        <4>1. e \in Events /\ e # Timerfd /\ e # Wakeupfd
          BY <1>0, <3>1 DEF Timerfd, Wakeupfd
        <4>2. e[1] \in Fds BY <4>1 DEF Events
        <4>3. event'[w][1] = e[1] BY <2>2, <3>1
        <4> QED BY <4>2, <4>3, FdsAssumption DEF Timerfd
      <3>2. CASE "HUP" \notin e[2] BY <2>2, <3>2
      <3> QED BY <3>1, <3>2
    <2>5. OneReport(w)'
      BY <2>2, <2>3, <2>4 DEF OneReport
    <2> QED BY <2>1, <2>5 DEF ReadTimerfdSucceeds
  <1>10. CASE ReadWakeup(w)
    <2>1. /\ pc[w] = "readWakeup" /\ pc'[w] = "events"
          /\ UNCHANGED <<pending, timerfd, task, events, event, crash>>
      BY <1>0, <1>10 DEF ReadWakeup, kernel
    <2>2. ReadsQueued' = ReadsQueued
      BY <2>1 DEF ReadsQueued
    <2> QED BY <2>1, <2>2 DEF OneReport, ReadTimerfdSucceeds
  <1>11. CASE TriggerRead(w)
    <2>1. /\ pc[w] = "trigRead" /\ pc'[w] = "trigWrite"
          /\ UNCHANGED <<timerfd, task, events, event, crash>>
      BY <1>0, <1>11 DEF TriggerRead, kernel
    <2>2. CASE event[w] = Timerfd
      <3>1. pending' = Append(pending, HandleRead) /\ HandleRead \in Tasks
        BY <1>11, <2>2, TaskKinds DEF TriggerRead, Trigger
      <3>2. timerfd = "expired" /\ ReadsQueued = {} /\ Timerfd \notin events[w]
        BY <2>1, <2>2 DEF OneReport
      <3>3. \A i, j \in ReadsQueued' : i = j
        BY <1>0, <3>1, <3>2, ReadsAppend
      <3> QED BY <2>1, <3>2, <3>3 DEF OneReport, ReadTimerfdSucceeds
    <2>3. CASE event[w] # Timerfd
      <3>1. event[w][1] \in Fds BY <2>1, <2>3 DEF TInv, EventTypes
      <3>2. PICK x : x = <<"read", event[w][1], Mine(w).read>> OBVIOUS
      <3>3. x \in Tasks /\ x # HandleRead
        <4>1. Mine(w).read \in BOOLEAN
          BY <3>1, MineType DEF TInv
        <4> QED BY <3>1, <3>2, <4>1, TaskKinds DEF HandleRead
      <3>4. pending' = pending \/ pending' = Append(pending, x)
        BY <1>11, <2>3, <3>2 DEF TriggerRead, Trigger
      <3>5. ReadsQueued' = ReadsQueued
        <4>1. CASE pending' = pending BY <4>1 DEF ReadsQueued
        <4>2. CASE pending' = Append(pending, x) BY <1>0, <3>3, <4>2, ReadsAppend
        <4> QED BY <3>4, <4>1, <4>2
      <3> QED BY <2>1, <3>5 DEF OneReport, ReadTimerfdSucceeds
    <2> QED BY <2>2, <2>3
  <1>12. CASE TriggerWrite(w)
    <2>1. /\ pc[w] = "trigWrite" /\ pc'[w] = "events"
          /\ UNCHANGED <<timerfd, task, events, event, crash>>
      BY <1>0, <1>12 DEF TriggerWrite, kernel
    <2>2. CASE pending' = pending
      <3>1. ReadsQueued' = ReadsQueued BY <2>2 DEF ReadsQueued
      <3> QED BY <2>1, <3>1 DEF OneReport, ReadTimerfdSucceeds
    <2>3. CASE pending' # pending
      <3>1. event[w][1] \in Fds BY <1>12, <2>3 DEF TriggerWrite
      <3>2. PICK x : x = <<"write", event[w][1], Mine(w).write>> OBVIOUS
      <3>3. x \in Tasks /\ x # HandleRead
        <4>1. Mine(w).write \in BOOLEAN
          BY <3>1, MineType DEF TInv
        <4> QED BY <3>1, <3>2, <4>1, TaskKinds DEF HandleRead
      <3>4. pending' = Append(pending, x)
        BY <1>12, <2>3, <3>2 DEF TriggerWrite, Trigger
      <3>5. ReadsQueued' = ReadsQueued
        BY <1>0, <3>3, <3>4, ReadsAppend
      <3> QED BY <2>1, <3>5 DEF OneReport, ReadTimerfdSucceeds
    <2> QED BY <2>2, <2>3
  <1>13. CASE LeaveIdle(w)
    <2>1. /\ pc[w] = "events" /\ pc'[w] = "scan" /\ events[w] = {}
          /\ UNCHANGED <<pending, timerfd, task, events, crash>>
      BY <1>0, <1>13 DEF LeaveIdle, kernel
    <2>2. ReadsQueued' = ReadsQueued
      BY <2>1 DEF ReadsQueued
    <2> QED BY <2>1, <2>2 DEF OneReport, ReadTimerfdSucceeds
  <1> QED BY <1>1, <1>2, <1>3, <1>4, <1>5, <1>6, <1>7, <1>8, <1>9, <1>10, <1>11, <1>12,
             <1>13 DEF Worker

\* With one worker there is one report at a time.
ReportInv == Alone => ReadTimerfdSucceeds /\ \A w \in Workers : OneReport(w)

LEMMA ReportInit == Init => ReportInv
  <1> SUFFICES ASSUME Init PROVE ReportInv OBVIOUS
  <1>1. ReadsQueued = {} BY DEF Init, ReadsQueued
  <1> QED BY <1>1 DEF Init, ReportInv, OneReport, ReadTimerfdSucceeds

LEMMA ReportNext == IInv /\ TInv /\ ReportInv /\ [Next]_vars => ReportInv'
  <1> SUFFICES ASSUME IInv, TInv, ReportInv, [Next]_vars, Alone
               PROVE  ReadTimerfdSucceeds' /\ \A w \in Workers : OneReport(w)'
    BY DEF ReportInv, Alone
  <1>1. PICK w : Workers = {w}
    BY WorkersAssumption, FS_Singleton DEF Alone
  <1>2. OneReport(w) /\ ReadTimerfdSucceeds /\ w \in Workers
    BY <1>1 DEF ReportInv
  <1>3. OneReport(w)' /\ ReadTimerfdSucceeds'
    <2>1. CASE Client \/ Kernel
      <3>1. crash' = crash
        BY <2>1 DEF Client, Kernel, Submit, ClientWakeup, ClientWrites, AddEvent, SetConcern,
                    SetCallback, CancelEvent, DelFileDesc, AddTimer, TimerExpires, Arrives
      <3> QED BY <1>2, <2>1, <3>1, ReportOthers DEF Alone, ReadTimerfdSucceeds
    <2>2. CASE Worker(w) BY <1>2, <2>2, ReportWorker
    <2>3. CASE Interrupted(w)
      <3>1. /\ pc[w] = "wait" /\ pc'[w] = "events"
            /\ UNCHANGED <<pending, timerfd, task, events, event, crash>>
        BY <1>2, <2>3 DEF Interrupted, kernel, IInv, Shape
      <3>2. ReadsQueued' = ReadsQueued
        BY <3>1 DEF ReadsQueued
      <3> QED BY <1>2, <3>1, <3>2 DEF OneReport, ReadTimerfdSucceeds
    <2>4. CASE UNCHANGED vars
      <3>1. UNCHANGED <<pc, task, events, event, pending, timerfd, crash>> BY <2>4 DEF vars
      <3> QED BY <1>2, <3>1, ReportKept DEF ReadTimerfdSucceeds
    <2> QED BY <1>1, <2>1, <2>2, <2>3, <2>4 DEF Next
  <1> QED BY <1>1, <1>3

\* The assertion of readTimerfd, which two workers or a client that sets the timerfd
\* again can break, holds for an IOManager with a single thread whose clients do
\* not: between the report of epoll_wait and handleRead nobody else reads it.
THEOREM TimerfdReadAlone == Spec => [](Alone => ReadTimerfdSucceeds)
  <1>1. ReportInv => (Alone => ReadTimerfdSucceeds) BY DEF ReportInv
  <1> QED BY <1>1, IInvAlways, TInvInit, TInvNext, ReportInit, ReportNext, PTL DEF Spec

\* What keeps the lookup safe as long as no client calls DelFileDesc: an fd in the
\* epoll set has an FdCallback, and so has one that a worker was told of.
Found ==
    /\ \A f \in Fds : interest[f] # "none" => group[f].exists
    /\ \A w \in Workers : \A e \in events[w] : e[1] \in Fds => group[e[1]].exists
FoundInv == "del" \notin ClientOps => Found /\ crash # "nullGroup"

\* Nothing but DelFileDesc takes an FdCallback away.
LEMMA GroupStays ==
    ASSUME TInv, "del" \notin ClientOps, Client, NEW f \in Fds
    PROVE  /\ group[f].exists => group'[f].exists
           /\ interest'[f] # interest[f] => group'[f].exists
  <1>1. group \in [Fds -> FdCallback] /\ interest \in [Fds -> {"none", "IN", "OUT"}]
    BY DEF TInv, FdTypes
  <1>2. group[f] \in FdCallback /\ group[f] = group[f] BY <1>1
  <1>3. ASSUME NEW g \in Fds, NEW op \in {"read", "write"}, AddEvent(op, g)
        PROVE  /\ group[f].exists => group'[f].exists
               /\ interest'[f] # interest[f] => group'[f].exists
    <2>1. group' = [group EXCEPT ![g].exists = TRUE] BY <1>3 DEF AddEvent, UpdateEpoll
    <2>2. f # g => interest'[f] = interest[f] BY <1>1, <1>3 DEF AddEvent, UpdateEpoll
    <2>3. f = g => group'[f].exists BY <1>1, <2>1 DEF FdCallback
    <2>4. f # g => group'[f] = group[f] BY <1>1, <2>1
    <2> QED BY <2>2, <2>3, <2>4
  <1>4. ASSUME NEW g \in Fds, NEW op \in {"read", "write"}, SetConcern(op, g) \/ SetCallback(op, g)
        PROVE  /\ group[f].exists => group'[f].exists
               /\ interest' = interest
    <2>1. interest' = interest BY <1>4 DEF SetConcern, SetCallback, kernel
    <2>2. CASE SetConcern(op, g)
      <3>1. f # g => group'[f] = group[f] BY <1>1, <2>2 DEF SetConcern
      <3>2. f = g => group'[f].exists = group[f].exists
        BY <1>1, <2>2 DEF SetConcern, FdCallback
      <3> QED BY <2>1, <3>1, <3>2
    <2>3. CASE SetCallback(op, g)
      <3>1. f # g => group'[f] = group[f] BY <1>1, <2>3 DEF SetCallback
      <3>2. f = g => group'[f].exists = group[f].exists
        BY <1>1, <2>3 DEF SetCallback, FdCallback
      <3> QED BY <2>1, <3>1, <3>2
    <2> QED BY <1>4, <2>2, <2>3
  <1>5. ASSUME NEW g \in Fds, CancelEvent(g)
        PROVE  /\ group[f].exists => group'[f].exists
               /\ interest' = interest
    <2>1. interest' = interest BY <1>5 DEF CancelEvent, kernel
    <2>2. f # g => group'[f] = group[f] BY <1>1, <1>5 DEF CancelEvent
    <2>3. f = g => group'[f].exists = group[f].exists
      BY <1>1, <1>5 DEF CancelEvent, FdCallback
    <2> QED BY <2>1, <2>2, <2>3
  <1>6. ASSUME NEW g \in Fds, DelFileDesc(g) PROVE FALSE
    BY <1>6 DEF DelFileDesc, ClientCalls
  <1>7. CASE Submit \/ ClientWakeup \/ ClientWrites \/ AddTimer
    BY <1>7 DEF Submit, ClientWakeup, ClientWrites, AddTimer, kernel
  <1> QED BY <1>3, <1>4, <1>5, <1>6, <1>7 DEF Client

LEMMA FoundInit == Init => FoundInv
  BY DEF Init, FoundInv, Found

LEMMA FoundNext == IInv /\ TInv /\ FoundInv /\ [Next]_vars => FoundInv'
  <1> SUFFICES ASSUME IInv, TInv, Found, crash # "nullGroup", "del" \notin ClientOps, [Next]_vars
               PROVE  Found' /\ crash' # "nullGroup"
    BY DEF FoundInv
  <1>1. CASE Client
    <2>1. UNCHANGED <<events, crash>>
      BY <1>1 DEF Client, Submit, ClientWakeup, ClientWrites, AddEvent, SetConcern, SetCallback,
                  CancelEvent, DelFileDesc, AddTimer, worker
    <2> QED BY <1>1, <2>1, GroupStays DEF Found
  <1>2. CASE Kernel \/ (\E w \in Workers : Interrupted(w)) \/ UNCHANGED vars
    BY <1>2 DEF Kernel, TimerExpires, Arrives, Interrupted, kernel, worker, vars, Found
  <1>3. ASSUME NEW w \in Workers, Worker(w) PROVE Found' /\ crash' # "nullGroup"
    <2>1. events \in [Workers -> SUBSET Events] BY DEF IInv, Shape
    <2>2. interest' = interest /\ group' = group
      BY <1>3 DEF Worker, ScanTake, ScanNone, WorkerWakeup, WorkerWrites, RunTask, RunFd,
                  RunHandleRead, Rearm, EnterIdle, EpollWait, NextEvent, ReadWakeup, TriggerRead,
                  TriggerWrite, LeaveIdle, kernel
    <2>3. CASE EpollWait(w)
      <3>1. /\ events'[w] = Reported /\ crash' = crash
            /\ \A v \in Workers \ {w} : events'[v] = events[v]
        BY <2>1, <2>3 DEF EpollWait
      <3>2. ASSUME NEW e \in Reported, e[1] \in Fds PROVE group[e[1]].exists
        <4>1. e # Wakeupfd /\ e # Timerfd
          BY <3>2, FdsAssumption DEF Wakeupfd, Timerfd
        <4>2. PICK f \in Fds : interest[f] # "none" /\ e = <<f, ready[f] \cap {interest[f], "HUP"}>>
          BY <4>1 DEF Reported
        <4>3. e[1] = f BY <4>2
        <4> QED BY <4>2, <4>3 DEF Found
      <3> QED BY <2>2, <3>1, <3>2 DEF Found
    <2>4. CASE NextEvent(w)
      <3>1. PICK e \in events[w] :
              /\ events' = [events EXCEPT ![w] = @ \ {e}]
              /\ crash' = IF e[1] \in Fds /\ ~group[e[1]].exists THEN "nullGroup" ELSE "no"
        BY <2>4 DEF NextEvent
      <3>2. \A v \in Workers : events'[v] \subseteq events[v] BY <2>1, <3>1
      <3>3. crash' = "no" BY <3>1 DEF Found
      <3> QED BY <2>2, <3>2, <3>3 DEF Found
    <2>5. CASE ~EpollWait(w) /\ ~NextEvent(w)
      <3>1. events' = events /\ (crash' = crash \/ crash' = "readTimerfdAssert")
        BY <1>3, <2>5 DEF Worker, ScanTake, ScanNone, WorkerWakeup, WorkerWrites, RunTask, RunFd,
                  RunHandleRead, Rearm, EnterIdle, ReadWakeup, TriggerRead, TriggerWrite, LeaveIdle
      <3> QED BY <2>2, <3>1 DEF Found
    <2> QED BY <2>3, <2>4, <2>5
  <1> QED BY <1>1, <1>2, <1>3 DEF Next

\* Without DelFileDesc the lookup of ProcessFdEvent never comes to a null pointer,
\* although Idle() makes it without the mutex that AddReadEvent and AddWriteEvent
\* hold: UpdateEpoll puts the group into the map before it calls epoll_ctl.
THEOREM LookupFindsGroup == Spec => [](crash = "nullGroup" => "del" \in ClientOps)
  <1>1. FoundInv => (crash = "nullGroup" => "del" \in ClientOps) BY DEF FoundInv
  <1> QED BY <1>1, IInvAlways, TInvInit, TInvNext, FoundInit, FoundNext, PTL DEF Spec
=============================================================================
