---------------------------- MODULE TimerManger ----------------------------
(***************************************************************************)
(* The timer queue of qslary, net/Timer.{h,cc}: two ordered sets over the  *)
(* same Timer objects, one timerfd armed for the earliest of them, and     *)
(* handleRead(), which runs the expired callbacks.  The callbacks may call *)
(* addTimer and cancel on the queue they are run by.                       *)
(*                                                                         *)
(* Time is discrete; one tick is the 100 microseconds that resetTimerfd    *)
(* uses as its minimum.  The clock moves while callbacks run.  Addresses   *)
(* of Timer objects are explicit, because a deleted timer's address is     *)
(* given to the next one while clients still hold the old TimerId.         *)
(***************************************************************************)
EXTENDS Naturals, FiniteSets

CONSTANTS
    Addrs,        \* addresses operator new can return, as numbers: sets order by them
    Intervals,    \* periods that runEvery is called with
    MaxTimers,    \* bound: timers ever created
    MaxTime       \* bound: the clock

ASSUME AddrsAssumption == Addrs \subseteq Nat
ASSUME IntervalsAssumption == Intervals \subseteq Nat \ {0}
ASSUME BoundsAssumption == MaxTimers \in Nat /\ MaxTime \in Nat \ {0}

VARIABLES
    now,                    \* Timestamp::now()
    heap,                   \* the Timer object at each address
    created,                \* s_numCreated_
    timers_,                \* set of <<expiration, address>>
    activeTimers_,          \* set of <<address, sequence>>
    callingExpiredTimers_,
    cancelingTimers_,       \* set of <<address, sequence>>
    timerfd,                \* when it becomes or became readable; Disarmed
    phase,                  \* handleRead: "idle", "calling"; "destroyed"
    started,                \* local now of handleRead
    expired,                \* local expired of handleRead
    torun,                  \* its entries whose callback has not been called
    ids,                    \* TimerIds handed out, <<address, sequence>>
    done, cancelled,        \* sequences of one-shot timers run; cancel was called for
    abandoned               \* sequences handleRead held when an exception left it

vars == <<now, heap, created, timers_, activeTimers_, callingExpiredTimers_,
          cancelingTimers_, timerfd, phase, started, expired, torun, ids, done,
          cancelled, abandoned>>
handler == <<phase, started, expired, torun>>

Disarmed == 0
Seqs == 1 .. MaxTimers
Timer == [exp : Nat, every : Nat, seq : Nat]
Freed == [exp |-> 0, every |-> 0, seq |-> 0]   \* no object at this address

TypeOK ==
    /\ now \in 1 .. MaxTime
    /\ heap \in [Addrs -> Timer]
    /\ created \in 0 .. MaxTimers
    /\ timers_ \subseteq Nat \X Addrs
    /\ activeTimers_ \subseteq Addrs \X Seqs
    /\ callingExpiredTimers_ \in BOOLEAN
    /\ cancelingTimers_ \subseteq Addrs \X Seqs
    /\ timerfd \in Nat
    /\ phase \in {"idle", "calling", "destroyed"}
    /\ started \in Nat
    /\ expired \subseteq Nat \X Addrs
    /\ torun \subseteq expired
    /\ ids \subseteq Addrs \X Seqs
    /\ done \subseteq Seqs /\ cancelled \subseteq Seqs /\ abandoned \subseteq Seqs

Init ==
    /\ now = 1
    /\ heap = [a \in Addrs |-> Freed]
    /\ created = 0
    /\ timers_ = {} /\ activeTimers_ = {}
    /\ callingExpiredTimers_ = FALSE
    /\ cancelingTimers_ = {}
    /\ timerfd = Disarmed
    /\ phase = "idle"
    /\ started = 0
    /\ expired = {} /\ torun = {}
    /\ ids = {} /\ done = {} /\ cancelled = {} /\ abandoned = {}

-----------------------------------------------------------------------------
Tick ==
    /\ now < MaxTime
    /\ now' = now + 1
    /\ UNCHANGED <<heap, created, timers_, activeTimers_, callingExpiredTimers_,
                   cancelingTimers_, timerfd, handler, ids, done, cancelled, abandoned>>

\* A faulty variant: the minimum of 100 microseconds is not applied.
HowMuchTimeFromNowUnclamped(when) == IF when > now THEN when - now ELSE 0

\* howMuchTimeFromNow: the time to wait, at least one tick.
HowMuchTimeFromNow(when) == IF when > now THEN when - now ELSE 1

\* resetTimerfd: an it_value of zero would disarm the timer.
ResetTimerfd(when) ==
    LET wait == HowMuchTimeFromNow(when)
    IN  timerfd' = IF wait = 0 THEN Disarmed ELSE now + wait

\* The test of insert(): no timer is due earlier.
EarliestChanged(when) == \A e \in timers_ : when < e[1]

\* Client code runs outside handleRead, or in a callback that handleRead runs.
ClientRuns == phase = "idle" \/ (phase = "calling" /\ torun # expired)

\* addTimer(cb, when, every): a new Timer, insert() and the timerfd.
AddTimer(when, every) ==
    /\ ClientRuns
    /\ created < MaxTimers
    /\ \E a \in Addrs :
         /\ heap[a] = Freed
         /\ heap' = [heap EXCEPT ![a] = [exp |-> when, every |-> every, seq |-> created + 1]]
         /\ timers_' = timers_ \cup {<<when, a>>}
         /\ activeTimers_' = activeTimers_ \cup {<<a, created + 1>>}
         /\ ids' = ids \cup {<<a, created + 1>>}
    /\ created' = created + 1
    /\ IF EarliestChanged(when) THEN ResetTimerfd(when) ELSE UNCHANGED timerfd
    /\ UNCHANGED <<now, callingExpiredTimers_, cancelingTimers_, handler, done, cancelled,
                   abandoned>>

\* runAt with any time, also one in the past; runAfter is runAt(now + delay).
RunAt == \E when \in 0 .. MaxTime : AddTimer(when, 0)
RunEvery == \E i \in Intervals : AddTimer(now + i, i)

\* A faulty variant: the timer is looked up by its address only.
CancelByAddress(id) ==
    /\ ClientRuns
    /\ heap[id[1]] # Freed
    /\ timers_' = {e \in timers_ : e[2] # id[1]}
    /\ activeTimers_' = {t \in activeTimers_ : t[1] # id[1]}
    /\ heap' = [heap EXCEPT ![id[1]] = Freed]
    /\ cancelled' = cancelled \cup {id[2]}
    /\ UNCHANGED <<now, created, callingExpiredTimers_, cancelingTimers_, timerfd, handler,
                   ids, done, abandoned>>

\* A faulty variant: a timer that is just being run is deleted at once.
CancelDeletesExpired(id) ==
    /\ ClientRuns
    /\ heap[id[1]].seq = id[2]
    /\ timers_' = {e \in timers_ : e[2] # id[1]}
    /\ activeTimers_' = activeTimers_ \ {id}
    /\ heap' = [heap EXCEPT ![id[1]] = Freed]
    /\ cancelled' = cancelled \cup {id[2]}
    /\ UNCHANGED <<now, created, callingExpiredTimers_, cancelingTimers_, timerfd, handler,
                   ids, done, abandoned>>

\* cancel(timerId) for an identifier handed out at any time in the past.
Cancel(id) ==
    /\ ClientRuns
    /\ IF id \in activeTimers_
         THEN /\ timers_' = timers_ \ {<<heap[id[1]].exp, id[1]>>}
              /\ activeTimers_' = activeTimers_ \ {id}
              /\ heap' = [heap EXCEPT ![id[1]] = Freed]
              /\ UNCHANGED cancelingTimers_
         ELSE /\ cancelingTimers_' = IF callingExpiredTimers_
                                       THEN cancelingTimers_ \cup {id} ELSE cancelingTimers_
              /\ UNCHANGED <<timers_, activeTimers_, heap>>
    /\ cancelled' = cancelled \cup {id[2]}
    /\ UNCHANGED <<now, created, callingExpiredTimers_, timerfd, handler, ids, done,
                   abandoned>>

-----------------------------------------------------------------------------
\* A faulty variant: the sentry lies one tick in the future.
DueTooEarly == {e \in timers_ : e[1] <= now + 1}

\* The entries up to the sentry (now, UINTPTR_MAX).
Due == {e \in timers_ : e[1] <= now}

\* A faulty variant: getExpired does not erase from activeTimers_.
HandleReadKeepsActive ==
    /\ phase = "idle"
    /\ timerfd # Disarmed /\ timerfd <= now
    /\ timerfd' = Disarmed
    /\ started' = now
    /\ expired' = Due /\ torun' = Due
    /\ timers_' = timers_ \ Due
    /\ callingExpiredTimers_' = TRUE
    /\ cancelingTimers_' = {}
    /\ phase' = "calling"
    /\ UNCHANGED <<now, heap, created, activeTimers_, ids, done, cancelled, abandoned>>

\* handleRead up to the first callback: the timerfd is readable and is read,
\* getExpired() takes the due timers out of both sets.
HandleRead ==
    /\ phase = "idle"
    /\ timerfd # Disarmed /\ timerfd <= now
    /\ timerfd' = Disarmed
    /\ started' = now
    /\ expired' = Due /\ torun' = Due
    /\ timers_' = timers_ \ Due
    /\ activeTimers_' = activeTimers_ \ {<<e[2], heap[e[2]].seq>> : e \in Due}
    /\ callingExpiredTimers_' = TRUE
    /\ cancelingTimers_' = {}
    /\ phase' = "calling"
    /\ UNCHANGED <<now, heap, created, ids, done, cancelled, abandoned>>

Before(d, e) == d[1] < e[1] \/ (d[1] = e[1] /\ d[2] < e[2])

\* A faulty variant: the loop erases the entry from expired while it iterates.
RunNextErases ==
    /\ phase = "calling"
    /\ \E e \in torun :
         /\ \A d \in torun \ {e} : Before(e, d)
         /\ expired' = expired \ {e}
         /\ done' = IF heap[e[2]].every = 0 THEN done \cup {heap[e[2]].seq} ELSE done
    /\ UNCHANGED <<now, heap, created, timers_, activeTimers_, callingExpiredTimers_,
                   cancelingTimers_, timerfd, phase, started, torun, ids, cancelled,
                   abandoned>>

\* The next callback is called.
RunNext ==
    /\ phase = "calling"
    /\ \E e \in torun :
         /\ \A d \in torun \ {e} : Before(e, d)
         /\ torun' = torun \ {e}
         /\ done' = IF heap[e[2]].every = 0 THEN done \cup {heap[e[2]].seq} ELSE done
    /\ UNCHANGED <<now, heap, created, timers_, activeTimers_, callingExpiredTimers_,
                   cancelingTimers_, timerfd, phase, started, expired, ids, cancelled,
                   abandoned>>

\* An exception leaves handleRead (FiberRun catches it): the rest of the loop,
\* callingExpiredTimers_ = false and reset() are skipped.
CallbackThrows ==
    /\ phase = "calling"
    /\ torun # expired
    /\ phase' = "idle"
    /\ abandoned' = abandoned \cup {heap[e[2]].seq : e \in expired}
    /\ expired' = {} /\ torun' = {}
    /\ UNCHANGED <<now, heap, created, timers_, activeTimers_, callingExpiredTimers_,
                   cancelingTimers_, timerfd, started, ids, done, cancelled>>

\* A faulty variant: cancelingTimers_ is not looked at.
AgainAlways == {e \in expired : heap[e[2]].every > 0}

\* The expired timers that reset() puts back.
Again == {e \in expired :
            /\ heap[e[2]].every > 0
            /\ <<e[2], heap[e[2]].seq>> \notin cancelingTimers_}

\* A faulty variant: the timers that are not restarted are not deleted.
ResetKeepsOneShots ==
    /\ heap' = [a \in Addrs |->
                  IF \E e \in Again : e[2] = a
                    THEN [heap[a] EXCEPT !.exp = started + heap[a].every] ELSE heap[a]]
    /\ timers_' = timers_ \cup {<<started + heap[e[2]].every, e[2]>> : e \in Again}
    /\ activeTimers_' = activeTimers_ \cup {<<e[2], heap[e[2]].seq>> : e \in Again}
    /\ IF timers_' # {}
         THEN \E e \in timers_' : (\A d \in timers_' : e[1] <= d[1]) /\ ResetTimerfd(e[1])
         ELSE UNCHANGED timerfd

\* reset(expired, now), with the value of now that handleRead started with.
\* Recurring timers are restarted and inserted, the others are deleted, and the
\* timerfd is armed for the earliest if its time is valid.
Reset ==
    /\ heap' = [a \in Addrs |->
                  CASE \E e \in Again : e[2] = a ->
                         [heap[a] EXCEPT !.exp = started + heap[a].every]
                    [] \E e \in expired \ Again : e[2] = a -> Freed
                    [] OTHER -> heap[a]]
    /\ timers_' = timers_ \cup {<<started + heap[e[2]].every, e[2]>> : e \in Again}
    /\ activeTimers_' = activeTimers_ \cup {<<e[2], heap[e[2]].seq>> : e \in Again}
    /\ IF timers_' # {} /\ \A e \in timers_' : e[1] > 0
         THEN \E e \in timers_' : (\A d \in timers_' : e[1] <= d[1]) /\ ResetTimerfd(e[1])
         ELSE UNCHANGED timerfd

FinishRead ==
    /\ phase = "calling"
    /\ torun = {}
    /\ callingExpiredTimers_' = FALSE
    /\ Reset
    /\ phase' = "idle"
    /\ expired' = {}
    /\ UNCHANGED <<now, created, cancelingTimers_, started, torun, ids, done,
                   cancelled, abandoned>>

\* ~TimerManger: the timerfd is closed, the timers of the queue are deleted.
Destroy ==
    /\ phase = "idle"
    /\ phase' = "destroyed"
    /\ timerfd' = Disarmed
    /\ heap' = [a \in Addrs |-> IF \E e \in timers_ : e[2] = a THEN Freed ELSE heap[a]]
    /\ timers_' = {} /\ activeTimers_' = {}
    /\ UNCHANGED <<now, created, callingExpiredTimers_, cancelingTimers_, started, expired,
                   torun, ids, done, cancelled, abandoned>>

Over == phase = "destroyed" /\ UNCHANGED vars

Next ==
    \/ Tick
    \/ RunAt \/ RunEvery
    \/ \E id \in ids : Cancel(id)
    \/ HandleRead \/ RunNext \/ CallbackThrows \/ FinishRead
    \/ Destroy
    \/ Over

Spec == Init /\ [][Next]_vars

-----------------------------------------------------------------------------
(* Properties.                                                             *)

\* The two sets describe the same timers, and every entry points to a Timer
\* object that still exists and has the expiration and the sequence of the
\* entry.  The code only asserts that the sizes agree.
SetsAgree ==
    /\ \A e \in timers_ : /\ heap[e[2]].seq # 0 /\ heap[e[2]].exp = e[1]
                          /\ <<e[2], heap[e[2]].seq>> \in activeTimers_
    /\ \A t \in activeTimers_ : /\ heap[t[1]].seq = t[2]
                                /\ <<heap[t[1]].exp, t[1]>> \in timers_

\* The timers handleRead works on exist until it is done with them: neither a
\* callback's cancel() nor the reuse of an address pulls one from under it.
ExpiredExist ==
    \A e \in expired : /\ heap[e[2]].seq # 0 /\ heap[e[2]].exp = e[1]
                       /\ \A d \in timers_ : d[2] # e[2]

\* Between two runs of handleRead the timerfd is armed whenever a timer waits,
\* and not later than that timer is due (or at the next tick if it is overdue).
\* Only a callback that throws leaves the queue with the timerfd unarmed, and
\* then callingExpiredTimers_ stays true.
TimerfdArmed ==
    phase = "idle" /\ ~callingExpiredTimers_ =>
        \A e \in timers_ : timerfd # Disarmed /\ (timerfd <= e[1] \/ timerfd <= now + 1)

\* The timer with sequence s is in the queue, or among the expired ones that
\* handleRead still has to deal with.
Waiting(s) ==
    \/ \E t \in activeTimers_ : t[2] = s
    \/ \E e \in expired : heap[e[2]].seq = s

\* No timer disappears: a one-shot timer waits until it has run, a recurring one
\* for ever, unless it was cancelled by its own identifier (whatever other
\* timers were cancelled with old identifiers and whatever addresses were
\* reused) or an exception left handleRead with it.
NoTimerLost ==
    phase # "destroyed" =>
        \A s \in 1 .. created :
            s \in done \/ s \in cancelled \/ s \in abandoned \/ Waiting(s)

\* A cancelled timer is not in the queue: cancel() takes effect also for a
\* recurring timer that is just being run, and for ever.
CancelIsFinal == \A t \in activeTimers_ : t[2] \notin cancelled

\* No callback is called before its time.
NeverEarly == [][RunNext => \A e \in torun \ torun' : e[1] <= now]_vars

\* The destructor leaves no Timer object behind, except those an exception took
\* from handleRead: every other expired timer was deleted or put back.
NoLeak ==
    phase = "destroyed" => \A a \in Addrs : heap[a] = Freed \/ heap[a].seq \in abandoned

\* The timer behind an entry of timers_ or expired, as its client sees it.
Entry(e) == [id |-> heap[e[2]].seq, at |-> e[1], every |-> heap[e[2]].every]
Entries(S) == {Entry(e) : e \in S}

\* The numbers of the timers of this round that were cancelled during it.
Cancelling == {heap[e[2]].seq : e \in {d \in expired :
                                         <<d[2], heap[d[2]].seq>> \in cancelingTimers_}}

Service == INSTANCE TimerService WITH
    clock <- now, made <- created, mode <- phase, began <- started,
    waiting <- Entries(timers_), picked <- Entries(torun),
    called <- Entries(expired \ torun), stopped <- Cancelling

\* The queue is the timer service: through every reuse of an address, with every
\* stale identifier and whatever callbacks add and cancel, a callback is called
\* exactly once for each time its timer falls due, never early and in order of
\* the times, a recurring timer comes back at the start of the round plus its
\* period, and cancel() ends the timer it names and no other.  Only a callback
\* that throws takes the timers of its round with it.
IsTimerService == Service!Spec
=============================================================================
