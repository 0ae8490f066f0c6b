---------------------------- MODULE TimerService ----------------------------
(***************************************************************************)
(* What the timer queue promises to its clients, without addresses, sets   *)
(* of pairs or a timerfd: a timer is a number, a time and a period.  Rounds *)
(* take what is due out of the waiting timers, call each callback once and *)
(* not before its time, the earlier ones first, and put the recurring ones *)
(* back unless they were cancelled meanwhile.  A cancelled timer that is   *)
(* part of a round may still be called by that round, and by no later one. *)
(***************************************************************************)
EXTENDS Naturals

CONSTANTS Intervals, MaxTimers, MaxTime

VARIABLES
    clock,
    made,      \* how many timers were set: their numbers are 1 .. made
    mode,      \* "idle", "calling", "destroyed"
    waiting,   \* timers that no round has taken: [id, at, every]
    picked,    \* those of this round whose callback is still to be called
    called,    \* those of this round whose callback was called
    stopped,   \* numbers of timers of this round cancelled during it
    began      \* when this round, or the last one, began

tvars == <<clock, made, mode, waiting, picked, called, stopped, began>>
round == <<mode, picked, called, began>>

Init ==
    /\ clock = 1 /\ made = 0 /\ mode = "idle" /\ began = 0
    /\ waiting = {} /\ picked = {} /\ called = {} /\ stopped = {}

Pass ==
    /\ clock < MaxTime
    /\ clock' = clock + 1
    /\ UNCHANGED <<made, waiting, stopped, round>>

\* A client runs outside of the rounds, or in a callback.
Client == mode = "idle" \/ (mode = "calling" /\ called # {})

Set(at, every) ==
    /\ Client
    /\ made < MaxTimers
    /\ made' = made + 1
    /\ waiting' = waiting \cup {[id |-> made + 1, at |-> at, every |-> every]}
    /\ UNCHANGED <<clock, stopped, round>>

\* Any number may be cancelled, also of a timer that is long gone.
Stop(id) ==
    /\ Client
    /\ waiting' = {r \in waiting : r.id # id}
    /\ stopped' = stopped \cup {r.id : r \in {s \in picked \cup called : s.id = id}}
    /\ UNCHANGED <<clock, made, round>>

Collect ==
    /\ mode = "idle"
    /\ mode' = "calling"
    /\ began' = clock
    /\ picked' = {r \in waiting : r.at <= clock}
    /\ waiting' = waiting \ picked'
    /\ UNCHANGED <<clock, made, called, stopped>>

Call(r) ==
    /\ mode = "calling"
    /\ r.at <= clock
    /\ \A s \in picked : r.at <= s.at
    /\ picked' = picked \ {r}
    /\ called' = called \cup {r}
    /\ UNCHANGED <<clock, made, mode, waiting, stopped, began>>

Recurring == {r \in called : r.every > 0 /\ r.id \notin stopped}

Finish ==
    /\ mode = "calling" /\ picked = {}
    /\ mode' = "idle"
    /\ waiting' = waiting \cup
         {[id |-> r.id, at |-> began + r.every, every |-> r.every] : r \in Recurring}
    /\ called' = {} /\ stopped' = {}
    /\ UNCHANGED <<clock, made, picked, began>>

\* A callback throws: the round is over and its timers are gone.
Abort ==
    /\ mode = "calling" /\ called # {}
    /\ mode' = "idle"
    /\ picked' = {} /\ called' = {} /\ stopped' = {}
    /\ UNCHANGED <<clock, made, waiting, began>>

Close ==
    /\ mode = "idle"
    /\ mode' = "destroyed"
    /\ waiting' = {}
    /\ UNCHANGED <<clock, made, picked, called, stopped, began>>

Next ==
    \/ Pass
    \/ \E at \in 0 .. MaxTime : Set(at, 0)
    \/ \E i \in Intervals : Set(clock + i, i)
    \/ \E id \in 1 .. made : Stop(id)
    \/ Collect \/ Finish \/ Abort \/ Close
    \/ \E r \in picked : Call(r)

Spec == Init /\ [][Next]_tvars
=============================================================================
