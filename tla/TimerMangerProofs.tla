-------------------------- MODULE TimerMangerProofs --------------------------
(***************************************************************************)
(* Proofs about TimerManger, for any set of addresses and intervals and    *)
(* any bounds.                                                             *)
(***************************************************************************)
EXTENDS TimerManger, TLAPS

\* An identifier names one timer for ever: no two share a sequence, and every
\* live object has the identifier that addTimer returned for it.
IdsUnique ==
    /\ \A i \in ids : i[2] <= created
    /\ \A i \in ids, j \in ids : i[2] = j[2] => i[1] = j[1]
    /\ \A a \in Addrs : heap[a].seq # 0 => <<a, heap[a].seq>> \in ids
    /\ \A s \in cancelled : s <= created

\* What a round of handleRead knows of the timers it has taken.
Rounds ==
    /\ phase = "calling" => callingExpiredTimers_ = TRUE
    /\ phase # "calling" => expired = {}
    /\ \A t \in cancelingTimers_ : t[2] \in cancelled
    /\ \A e \in expired : /\ e[1] <= now
                          /\ heap[e[2]].seq \in cancelled =>
                                <<e[2], heap[e[2]].seq>> \in cancelingTimers_
    /\ \A e \in expired \ torun : heap[e[2]].every = 0 => heap[e[2]].seq \in done

\* The timerfd will be readable in time for a timer due at when.
Covers(when) == timerfd # Disarmed /\ (timerfd <= when \/ timerfd <= now + 1)

\* It covers every timer, except during a round and after an unfinished one:
\* then it may miss timers with a valid time, for which reset() will arm it.
Covered == \A e \in timers_ : Covers(e[1]) \/ (callingExpiredTimers_ /\ e[1] > 0)

\* Every Timer object is in the queue, in a round, or abandoned by one.
Owned ==
    \A a \in Addrs :
        \/ heap[a] = Freed
        \/ /\ heap[a].seq # 0
           /\ \/ \E e \in timers_ : e[2] = a
              \/ \E e \in expired : e[2] = a
              \/ heap[a].seq \in abandoned

IInv == /\ TypeOK /\ SetsAgree /\ ExpiredExist /\ IdsUnique /\ Rounds
        /\ CancelIsFinal /\ NoTimerLost /\ Covered /\ Owned

USE AddrsAssumption, IntervalsAssumption, BoundsAssumption
-----------------------------------------------------------------------------
\* A pair is what its components say.
LEMMA Pair ==
    ASSUME NEW S, NEW T, NEW e \in S \X T
    PROVE  e = <<e[1], e[2]>> /\ e[1] \in S /\ e[2] \in T
  OBVIOUS

\* The clock moves on.
LEMMA TickStep == IInv /\ Tick => IInv'
<1> SUFFICES ASSUME IInv, Tick PROVE IInv'
  OBVIOUS
<1> USE DEF IInv, Tick, handler
<1>1. TypeOK'
  BY DEF TypeOK
<1>2. SetsAgree'
  BY DEF TypeOK, SetsAgree
<1>3. ExpiredExist'
  BY DEF TypeOK, ExpiredExist
<1>4. IdsUnique'
  BY DEF TypeOK, IdsUnique
<1>5. Rounds'
  BY DEF TypeOK, Rounds
<1>6. CancelIsFinal'
  BY DEF TypeOK, CancelIsFinal
<1>7. NoTimerLost'
  BY DEF TypeOK, NoTimerLost, Waiting
<1>8. Covered'
  BY DEF TypeOK, Covered, Covers
<1>9. Owned'
  BY DEF TypeOK, Owned
<1> QED
  BY <1>1, <1>2, <1>3, <1>4, <1>5, <1>6, <1>7, <1>8, <1>9

\* A callback is called: torun shrinks, a one-shot timer is done.
LEMMA RunNextStep == IInv /\ RunNext => IInv'
<1> SUFFICES ASSUME IInv, RunNext PROVE IInv'
  OBVIOUS
<1> USE DEF IInv, RunNext
<1>1. TypeOK'
  <2>1. PICK e \in torun : /\ torun' = torun \ {e}
                           /\ done' = IF heap[e[2]].every = 0 THEN done \cup {heap[e[2]].seq}
                                                             ELSE done
    OBVIOUS
  <2>2. e[2] \in Addrs /\ e \in expired
    BY DEF TypeOK
  <2>3. <<e[2], heap[e[2]].seq>> \in ids
    BY <2>2 DEF ExpiredExist, IdsUnique
  <2>4. heap[e[2]].seq \in Seqs
    BY <2>3 DEF TypeOK
  <2> QED
    BY <2>1, <2>4 DEF TypeOK
<1>2. SetsAgree'
  BY DEF TypeOK, SetsAgree
<1>3. ExpiredExist'
  BY DEF TypeOK, ExpiredExist
<1>4. IdsUnique'
  BY DEF TypeOK, IdsUnique
<1>5. Rounds'
  BY DEF TypeOK, Rounds
<1>6. CancelIsFinal'
  BY DEF TypeOK, CancelIsFinal
<1>7. NoTimerLost'
  BY DEF TypeOK, NoTimerLost, Waiting
<1>8. Covered'
  BY DEF TypeOK, Covered, Covers
<1>9. Owned'
  BY DEF TypeOK, Owned
<1> QED
  BY <1>1, <1>2, <1>3, <1>4, <1>5, <1>6, <1>7, <1>8, <1>9

\* An exception leaves the round: its timers are abandoned.
LEMMA ThrowStep == IInv /\ CallbackThrows => IInv'
<1> SUFFICES ASSUME IInv, CallbackThrows PROVE IInv'
  OBVIOUS
<1> USE DEF IInv, CallbackThrows
<1>1. TypeOK'
  <2>1. \A e \in expired : <<e[2], heap[e[2]].seq>> \in ids
    BY DEF TypeOK, ExpiredExist, IdsUnique
  <2>2. \A e \in expired : heap[e[2]].seq \in Seqs
    BY <2>1 DEF TypeOK
  <2>3. abandoned' \subseteq Seqs
    BY <2>2 DEF TypeOK
  <2> QED
    BY <2>3 DEF TypeOK
<1>2. SetsAgree'
  BY DEF TypeOK, SetsAgree
<1>3. ExpiredExist'
  BY DEF TypeOK, ExpiredExist
<1>4. IdsUnique'
  BY DEF TypeOK, IdsUnique
<1>5. Rounds'
  BY DEF TypeOK, Rounds
<1>6. CancelIsFinal'
  BY DEF TypeOK, CancelIsFinal
<1>7. NoTimerLost'
  BY DEF TypeOK, NoTimerLost, Waiting
<1>8. Covered'
  BY DEF TypeOK, Covered, Covers
<1>9. Owned'
  BY DEF TypeOK, Owned
<1> QED
  BY <1>1, <1>2, <1>3, <1>4, <1>5, <1>6, <1>7, <1>8, <1>9

\* The due timers leave both sets and make up the round.
LEMMA HandleReadStep == IInv /\ HandleRead => IInv'
<1> SUFFICES ASSUME IInv, HandleRead PROVE IInv'
  OBVIOUS
<1> USE DEF IInv, HandleRead, Due
<1>1. TypeOK'
  <2>1. activeTimers_' \subseteq Addrs \X Seqs
    BY DEF TypeOK
  <2> QED
    BY <2>1 DEF TypeOK, Disarmed
<1>2. SetsAgree'
  BY DEF TypeOK, SetsAgree
<1>3. ExpiredExist'
  <2> SUFFICES ASSUME NEW e \in Due
               PROVE  /\ heap[e[2]].seq # 0 /\ heap[e[2]].exp = e[1]
                      /\ \A d \in timers_ \ Due : d[2] # e[2]
    BY DEF ExpiredExist
  <2>1. \A d \in timers_ : d = <<heap[d[2]].exp, d[2]>>
    <3> SUFFICES ASSUME NEW d \in timers_ PROVE d = <<heap[d[2]].exp, d[2]>>
      OBVIOUS
    <3>1. d = <<d[1], d[2]>>
      BY Pair DEF TypeOK
    <3> QED
      BY <3>1 DEF SetsAgree
  <2>2. \A d \in timers_ : d[2] = e[2] => d = e
    BY <2>1
  <2> QED
    BY <2>2 DEF SetsAgree
<1>4. IdsUnique'
  BY DEF TypeOK, IdsUnique
<1>5. Rounds'
  BY DEF TypeOK, SetsAgree, CancelIsFinal, Rounds
<1>6. CancelIsFinal'
  BY DEF TypeOK, CancelIsFinal
<1>7. NoTimerLost'
  <2> SUFFICES ASSUME NEW s \in 1 .. created, s \notin done, s \notin cancelled, s \notin abandoned
               PROVE  Waiting(s)'
    BY DEF NoTimerLost
  <2>1. expired = {}
    BY DEF Rounds
  <2>2. PICK t \in activeTimers_ : t[2] = s
    BY <2>1 DEF NoTimerLost, Waiting
  <2>3. t[1] \in Addrs /\ heap[t[1]].seq = s /\ <<heap[t[1]].exp, t[1]>> \in timers_
    BY <2>2 DEF TypeOK, SetsAgree
  <2>4. CASE <<heap[t[1]].exp, t[1]>> \in Due
    <3>1. <<heap[t[1]].exp, t[1]>> \in expired'
      BY <2>4
    <3> QED
      BY <3>1, <2>3 DEF Waiting
  <2>5. CASE <<heap[t[1]].exp, t[1]>> \notin Due
    <3>1. \A e \in Due : e[2] # t[1]
      BY <2>3, <2>5 DEF TypeOK, SetsAgree
    <3>2. t \in activeTimers_'
      BY <2>2, <3>1 DEF TypeOK
    <3> QED
      BY <3>2, <2>2 DEF Waiting
  <2> QED
    BY <2>4, <2>5
<1>8. Covered'
  BY DEF TypeOK, Covered, Covers
<1>9. Owned'
  <2>1. expired = {}
    BY DEF Rounds
  <2>2. timers_ = timers_' \cup expired'
    OBVIOUS
  <2> QED
    BY <2>1, <2>2 DEF Owned
<1> QED
  BY <1>1, <1>2, <1>3, <1>4, <1>5, <1>6, <1>7, <1>8, <1>9

\* The destructor deletes the timers of the queue.
LEMMA DestroyStep == IInv /\ Destroy => IInv'
<1> SUFFICES ASSUME IInv, Destroy PROVE IInv'
  OBVIOUS
<1> USE DEF IInv, Destroy
<1>1. TypeOK'
  <2>1. heap' \in [Addrs -> Timer]
    BY DEF TypeOK, Timer, Freed
  <2> QED
    BY <2>1 DEF TypeOK, Disarmed
<1>2. SetsAgree'
  BY DEF TypeOK, SetsAgree
<1>3. ExpiredExist'
  BY DEF TypeOK, ExpiredExist
<1>4. IdsUnique'
  BY DEF TypeOK, IdsUnique, Freed
<1>5. Rounds'
  BY DEF TypeOK, Rounds
<1>6. CancelIsFinal'
  BY DEF TypeOK, CancelIsFinal
<1>7. NoTimerLost'
  BY DEF TypeOK, NoTimerLost, Waiting
<1>8. Covered'
  BY DEF TypeOK, Covered, Covers
<1>9. Owned'
  BY DEF TypeOK, Owned
<1> QED
  BY <1>1, <1>2, <1>3, <1>4, <1>5, <1>6, <1>7, <1>8, <1>9

\* addTimer: a new object with a new sequence enters both sets.
LEMMA AddTimerStep ==
    ASSUME IInv, NEW when \in Nat, NEW every \in Nat, AddTimer(when, every)
    PROVE  IInv'
<1> USE DEF IInv
<1>0. PICK a \in Addrs :
         /\ heap[a] = Freed
         /\ heap' = [heap EXCEPT ![a] = [exp |-> when, every |-> every, seq |-> created + 1]]
         /\ timers_' = timers_ \cup {<<when, a>>}
         /\ activeTimers_' = activeTimers_ \cup {<<a, created + 1>>}
         /\ ids' = ids \cup {<<a, created + 1>>}
  BY DEF AddTimer
<1>h. /\ created < MaxTimers /\ created' = created + 1
      /\ IF EarliestChanged(when) THEN ResetTimerfd(when) ELSE UNCHANGED timerfd
      /\ UNCHANGED <<now, callingExpiredTimers_, cancelingTimers_, phase, started, expired,
                     torun, done, cancelled, abandoned>>
  BY DEF AddTimer, handler
<1>c. created + 1 \in Seqs /\ created \in Nat
  BY <1>h DEF TypeOK, Seqs
<1>a. /\ heap'[a].seq = created + 1 /\ heap'[a].exp = when /\ heap'[a].every = every
      /\ \A b \in Addrs \ {a} : heap'[b] = heap[b]
      /\ heap[a].seq = 0
  BY <1>0 DEF TypeOK, Freed
<1>b. /\ \A e \in timers_ : e[2] \in Addrs \ {a}
      /\ \A t \in activeTimers_ : t[1] \in Addrs \ {a} /\ t[2] \in Seqs
      /\ \A e \in expired : e[2] \in Addrs \ {a}
  BY ZenonT(60), <1>a DEF TypeOK, SetsAgree, ExpiredExist, Seqs
<1>1. TypeOK'
  <2>1. heap' \in [Addrs -> Timer]
    BY <1>0, <1>c DEF TypeOK, Timer
  <2>2. timerfd' \in Nat
    <3>1. timerfd \in Nat /\ now \in Nat
      BY DEF TypeOK
    <3> QED
      BY <3>1, <1>h DEF ResetTimerfd, HowMuchTimeFromNow, Disarmed
  <2>3. created' \in 0 .. MaxTimers
    BY <1>c, <1>h DEF Seqs
  <2>4. timers_' \subseteq Nat \X Addrs /\ activeTimers_' \subseteq Addrs \X Seqs
        /\ ids' \subseteq Addrs \X Seqs
    BY <1>0, <1>c DEF TypeOK
  <2> QED
    BY <2>1, <2>2, <2>3, <2>4, <1>h DEF TypeOK
<1>2. SetsAgree'
  <2>1. \A e \in timers_' : /\ heap'[e[2]].seq # 0 /\ heap'[e[2]].exp = e[1]
                            /\ <<e[2], heap'[e[2]].seq>> \in activeTimers_'
    BY <1>0, <1>a, <1>b, <1>c DEF SetsAgree
  <2>2. \A t \in activeTimers_' : /\ heap'[t[1]].seq = t[2]
                                  /\ <<heap'[t[1]].exp, t[1]>> \in timers_'
    BY <1>0, <1>a, <1>b, <1>c DEF SetsAgree
  <2> QED
    BY <2>1, <2>2 DEF SetsAgree
<1>3. ExpiredExist'
  BY <1>0, <1>h, <1>a, <1>b DEF ExpiredExist
<1>4. IdsUnique'
  <2>1. \A i \in ids : i[2] \in Nat /\ i[2] <= created
    BY DEF TypeOK, IdsUnique, Seqs
  <2>2. \A i \in ids' : i[2] <= created'
    BY <1>0, <1>h, <1>c, <2>1
  <2>3. \A i \in ids', j \in ids' : i[2] = j[2] => i[1] = j[1]
    BY <1>0, <1>c, <2>1 DEF IdsUnique
  <2>4. \A b \in Addrs : heap'[b].seq # 0 => <<b, heap'[b].seq>> \in ids'
    BY <1>0, <1>a DEF IdsUnique
  <2>5. \A s \in cancelled' : s <= created'
    BY <1>h, <1>c DEF TypeOK, IdsUnique, Seqs
  <2> QED
    BY <2>2, <2>3, <2>4, <2>5 DEF IdsUnique
<1>5. Rounds'
  BY <1>h, <1>a, <1>b DEF Rounds
<1>6. CancelIsFinal'
  <2>1. created + 1 \notin cancelled
    BY <1>c DEF IdsUnique
  <2> QED
    BY <1>0, <1>h, <2>1 DEF CancelIsFinal
<1>7. NoTimerLost'
  <2>2. \A s \in 1 .. created : Waiting(s) => Waiting(s)'
    BY <1>0, <1>h, <1>a, <1>b DEF Waiting
  <2> SUFFICES ASSUME phase # "destroyed", NEW s \in 1 .. created'
               PROVE  s \in done \/ s \in cancelled \/ s \in abandoned \/ Waiting(s)'
    BY <1>h DEF NoTimerLost
  <2>3. CASE s = created + 1
    <3>1. <<a, s>> \in activeTimers_' /\ <<a, s>>[2] = s
      BY <1>0, <2>3
    <3> QED
      BY <3>1 DEF Waiting
  <2>4. CASE s \in 1 .. created
    BY <2>2, <2>4 DEF NoTimerLost
  <2> QED
    BY <2>3, <2>4, <1>h, <1>c
<1>8. Covered'
  <2>1. now \in Nat /\ timerfd \in Nat /\ \A e \in timers_ : e[1] \in Nat
    BY DEF TypeOK
  <2>2. CASE EarliestChanged(when)
    <3>1. timerfd' = IF when > now THEN when ELSE now + 1
      BY <1>h, <2>1, <2>2 DEF ResetTimerfd, HowMuchTimeFromNow
    <3>2. \A e \in timers_' : e[1] \in Nat /\ when <= e[1]
      BY <1>0, <2>1, <2>2 DEF EarliestChanged
    <3> QED
      BY <2>1, <3>1, <3>2, <1>h DEF Covered, Covers, Disarmed
  <2>3. CASE ~EarliestChanged(when)
    <3>1. PICK d \in timers_ : d[1] <= when
      BY <2>1, <2>3 DEF EarliestChanged
    <3>2. Covers(d[1]) \/ (callingExpiredTimers_ /\ d[1] > 0)
      BY DEF Covered
    <3>3. Covers(when) \/ (callingExpiredTimers_ /\ when > 0)
      BY <2>1, <3>1, <3>2 DEF Covers
    <3>4. timerfd' = timerfd /\ now' = now
      BY <1>h, <2>3
    <3> QED
      BY <1>0, <1>h, <3>3, <3>4 DEF Covered, Covers
  <2> QED
    BY <2>2, <2>3
<1>9. Owned'
  <2>1. <<when, a>> \in timers_' /\ <<when, a>>[2] = a /\ heap'[a].seq # 0
    BY <1>0, <1>a, <1>c
  <2>2. \A b \in Addrs \ {a} : heap'[b] = heap[b] /\ timers_ \subseteq timers_'
    BY <1>0, <1>a
  <2> DEFINE Held(b) == \/ heap'[b] = Freed
                        \/ /\ heap'[b].seq # 0
                           /\ \/ \E e \in timers_' : e[2] = b
                              \/ \E e \in expired : e[2] = b
                              \/ heap'[b].seq \in abandoned
  <2>3. Held(a)
    BY <2>1
  <2>4. ASSUME NEW b \in Addrs \ {a} PROVE Held(b)
    BY <2>2, <2>4 DEF Owned
  <2>5. \A b \in Addrs : Held(b)
    BY <2>3, <2>4
  <2>6. expired' = expired /\ abandoned' = abandoned
    BY <1>h
  <2> QED
    BY <2>5, <2>6 DEF Owned
<1> QED
  BY <1>1, <1>2, <1>3, <1>4, <1>5, <1>6, <1>7, <1>8, <1>9

\* cancel(): a waiting timer leaves both sets and is deleted; a timer of the
\* current round is only remembered.
LEMMA CancelStep ==
    ASSUME IInv, NEW id \in ids, Cancel(id)
    PROVE  IInv'
<1> USE DEF IInv
<1>h. /\ cancelled' = cancelled \cup {id[2]}
      /\ UNCHANGED <<now, created, callingExpiredTimers_, timerfd, phase, started, expired,
                     torun, ids, done, abandoned>>
      /\ phase = "idle" \/ phase = "calling"
  BY DEF Cancel, handler, ClientRuns
<1>i. id[1] \in Addrs /\ id[2] \in Seqs /\ id = <<id[1], id[2]>> /\ id[2] <= created
  BY Pair DEF TypeOK, IdsUnique
<1>a. CASE id \in activeTimers_
  <2>0. /\ timers_' = timers_ \ {<<heap[id[1]].exp, id[1]>>}
        /\ activeTimers_' = activeTimers_ \ {id}
        /\ heap' = [heap EXCEPT ![id[1]] = Freed]
        /\ cancelingTimers_' = cancelingTimers_
    BY <1>a DEF Cancel
  <2>1. /\ heap'[id[1]] = Freed /\ heap'[id[1]].seq = 0
        /\ \A b \in Addrs \ {id[1]} : heap'[b] = heap[b]
        /\ heap[id[1]].seq = id[2] /\ <<heap[id[1]].exp, id[1]>> \in timers_
    BY <1>a, <1>i, <2>0 DEF TypeOK, Freed, SetsAgree
  <2>2. \A e \in timers_' : e[2] \in Addrs \ {id[1]}
    <3> SUFFICES ASSUME NEW e \in timers_, e # <<heap[id[1]].exp, id[1]>>
                 PROVE  e[2] \in Addrs \ {id[1]}
      BY <2>0
    <3>1. e = <<e[1], e[2]>> /\ e[2] \in Addrs
      BY Pair DEF TypeOK
    <3>2. e[1] = heap[e[2]].exp
      BY DEF SetsAgree
    <3> QED
      BY <3>1, <3>2
  <2>3. \A t \in activeTimers_' : t[1] \in Addrs \ {id[1]}
    <3> SUFFICES ASSUME NEW t \in activeTimers_, t # id
                 PROVE  t[1] \in Addrs \ {id[1]}
      BY <2>0
    <3>1. t = <<t[1], t[2]>> /\ t[1] \in Addrs
      BY Pair DEF TypeOK
    <3>2. t[2] = heap[t[1]].seq
      BY DEF SetsAgree
    <3> QED
      BY <3>1, <3>2, <1>i, <2>1
  <2>4. \A e \in expired : e[2] \in Addrs \ {id[1]}
    BY <2>1 DEF TypeOK, ExpiredExist
  <2>5. TypeOK'
    <3>1. heap' \in [Addrs -> Timer]
      BY <2>0 DEF TypeOK, Timer, Freed
    <3> QED
      BY <3>1, <2>0, <1>h, <1>i DEF TypeOK
  <2>6. SetsAgree'
    <3>1. \A e \in timers_' : /\ heap'[e[2]].seq # 0 /\ heap'[e[2]].exp = e[1]
                              /\ <<e[2], heap'[e[2]].seq>> \in activeTimers_'
      BY <2>0, <2>1, <2>2, <1>i DEF SetsAgree
    <3>2. \A t \in activeTimers_' : /\ heap'[t[1]].seq = t[2]
                                    /\ <<heap'[t[1]].exp, t[1]>> \in timers_'
      BY <2>0, <2>1, <2>3 DEF SetsAgree
    <3> QED
      BY <3>1, <3>2 DEF SetsAgree
  <2>7. ExpiredExist'
    BY <1>h, <2>0, <2>1, <2>4 DEF ExpiredExist
  <2>8. IdsUnique'
    <3>1. \A b \in Addrs : heap'[b].seq # 0 => <<b, heap'[b].seq>> \in ids
      BY <2>1 DEF IdsUnique
    <3> QED
      BY <3>1, <1>h, <1>i DEF IdsUnique
  <2>9. Rounds'
    <3>1. \A e \in expired : heap[e[2]].seq # id[2]
      <4> SUFFICES ASSUME NEW e \in expired, heap[e[2]].seq = id[2] PROVE FALSE
        OBVIOUS
      <4>1. <<e[2], id[2]>> \in ids
        BY <2>4, <1>i DEF ExpiredExist, IdsUnique
      <4>2. e[2] = id[1]
        BY <4>1 DEF IdsUnique
      <4> QED
        BY <4>2, <2>4
    <3> QED
      BY <1>h, <2>0, <2>1, <2>4, <3>1 DEF Rounds
  <2>10. CancelIsFinal'
    <3>1. \A t \in activeTimers_' : t[2] # id[2]
      <4> SUFFICES ASSUME NEW t \in activeTimers_', t[2] = id[2] PROVE FALSE
        OBVIOUS
      <4>1. t \in activeTimers_ /\ t[1] \in Addrs /\ heap[t[1]].seq = t[2]
        BY <2>0, <2>3 DEF SetsAgree
      <4>2. <<t[1], t[2]>> \in ids
        BY <4>1, <1>i DEF IdsUnique, Seqs
      <4>3. t[1] = id[1]
        BY <4>2 DEF IdsUnique
      <4> QED
        BY <4>3, <2>3
    <3> QED
      BY <3>1, <1>h, <2>0 DEF CancelIsFinal
  <2>11. NoTimerLost'
    <3>1. \A s \in 1 .. created : Waiting(s) => s = id[2] \/ Waiting(s)'
      <4> SUFFICES ASSUME NEW s \in 1 .. created, Waiting(s), s # id[2]
                   PROVE  Waiting(s)'
        OBVIOUS
      <4>1. CASE \E t \in activeTimers_ : t[2] = s
        BY <4>1, <2>0 DEF Waiting
      <4>2. CASE \E e \in expired : heap[e[2]].seq = s
        BY <4>2, <1>h, <2>1, <2>4 DEF Waiting
      <4> QED
        BY <4>1, <4>2 DEF Waiting
    <3> QED
      BY <3>1, <1>h DEF NoTimerLost
  <2>12. Covered'
    BY <1>h, <2>0 DEF Covered, Covers
  <2>13. Owned'
    <3> SUFFICES ASSUME NEW b \in Addrs \ {id[1]}
                 PROVE  heap'[b] = Freed \/
                        (heap'[b].seq # 0 /\ ((\E e \in timers_' : e[2] = b)
                             \/ (\E e \in expired : e[2] = b) \/ heap'[b].seq \in abandoned))
      BY <1>h, <2>1 DEF Owned
    <3>1. \A e \in timers_ : e[2] = b => e \in timers_'
      BY <2>0, <1>i
    <3> QED
      BY <3>1, <2>1 DEF Owned
  <2> QED
    BY <2>5, <2>6, <2>7, <2>8, <2>9, <2>10, <2>11, <2>12, <2>13
<1>b. CASE id \notin activeTimers_
  <2>0. /\ cancelingTimers_' = IF callingExpiredTimers_
                                 THEN cancelingTimers_ \cup {id} ELSE cancelingTimers_
        /\ UNCHANGED <<timers_, activeTimers_, heap>>
    BY <1>b DEF Cancel
  <2>1. TypeOK'
    BY <2>0, <1>h, <1>i DEF TypeOK
  <2>2. SetsAgree' /\ ExpiredExist' /\ Owned' /\ Covered'
    BY <2>0, <1>h DEF SetsAgree, ExpiredExist, Owned, Covered, Covers
  <2>3. IdsUnique'
    BY <2>0, <1>h, <1>i DEF IdsUnique
  <2>4. Rounds'
    <3>1. \A t \in cancelingTimers_' : t[2] \in cancelled'
      BY <2>0, <1>h DEF Rounds
    <3>2. \A e \in expired : heap[e[2]].seq \in cancelled' =>
                                <<e[2], heap[e[2]].seq>> \in cancelingTimers_'
      <4> SUFFICES ASSUME NEW e \in expired, heap[e[2]].seq \in cancelled'
                   PROVE  <<e[2], heap[e[2]].seq>> \in cancelingTimers_'
        OBVIOUS
      <4>1. CASE heap[e[2]].seq \in cancelled
        BY <4>1, <2>0 DEF Rounds
      <4>2. CASE heap[e[2]].seq = id[2]
        <5>1. e[2] \in Addrs /\ heap[e[2]].seq # 0
          BY DEF TypeOK, ExpiredExist
        <5>2. <<e[2], heap[e[2]].seq>> \in ids
          BY <5>1 DEF IdsUnique
        <5>3. <<e[2], heap[e[2]].seq>> = id
          BY <5>2, <4>2, <1>i DEF IdsUnique
        <5>4. callingExpiredTimers_
          BY <1>h DEF Rounds
        <5> QED
          BY <5>3, <5>4, <2>0
      <4> QED
        BY <4>1, <4>2, <1>h
    <3> QED
      BY <3>1, <3>2, <2>0, <1>h DEF Rounds
  <2>5. CancelIsFinal'
    <3>1. \A t \in activeTimers_ : t[2] # id[2]
      <4> SUFFICES ASSUME NEW t \in activeTimers_, t[2] = id[2] PROVE FALSE
        OBVIOUS
      <4>1. t = <<t[1], t[2]>> /\ t[1] \in Addrs /\ heap[t[1]].seq = t[2]
        BY Pair DEF TypeOK, SetsAgree
      <4>2. <<t[1], t[2]>> \in ids
        BY <4>1, <1>i DEF IdsUnique, Seqs
      <4>3. t[1] = id[1]
        BY <4>2 DEF IdsUnique
      <4> QED
        BY <4>1, <4>3, <1>i, <1>b
    <3> QED
      BY <3>1, <2>0, <1>h DEF CancelIsFinal
  <2>6. NoTimerLost'
    BY <2>0, <1>h DEF NoTimerLost, Waiting
  <2> QED
    BY <2>1, <2>2, <2>3, <2>4, <2>5, <2>6
<1> QED
  BY <1>a, <1>b

\* The end of a round: recurring timers that were not cancelled go back into both
\* sets, the others are deleted, and the timerfd is armed.
LEMMA FinishReadStep ==
    ASSUME IInv, FinishRead
    PROVE  IInv'
<1> USE DEF IInv
<1>h. /\ phase = "calling" /\ phase' = "idle" /\ torun = {} /\ expired' = {}
      /\ callingExpiredTimers_' = FALSE
      /\ UNCHANGED <<now, created, cancelingTimers_, started, torun, ids, done, cancelled,
                     abandoned>>
  BY DEF FinishRead
<1>t. /\ timers_' = timers_ \cup {<<started + heap[e[2]].every, e[2]>> : e \in Again}
      /\ activeTimers_' = activeTimers_ \cup {<<e[2], heap[e[2]].seq>> : e \in Again}
  BY DEF FinishRead, Reset
<1>n. /\ started \in Nat /\ now \in Nat /\ timerfd \in Nat
      /\ Again \subseteq expired
      /\ \A e \in expired : e[2] \in Addrs /\ heap[e[2]] \in Timer /\ heap[e[2]].every \in Nat
  <2>1. started \in Nat /\ now \in Nat /\ timerfd \in Nat /\ Again \subseteq expired
    BY DEF TypeOK, Again
  <2>2. \A e \in expired : e[2] \in Addrs /\ heap[e[2]] \in Timer
    BY DEF TypeOK
  <2>3. \A x \in Timer : x.every \in Nat
    BY DEF Timer
  <2> QED
    BY <2>1, <2>2, <2>3
<1>u. \A d \in expired, e \in expired : d[2] = e[2] => d = e
  <2> SUFFICES ASSUME NEW d \in expired, NEW e \in expired, d[2] = e[2] PROVE d = e
    OBVIOUS
  <2>1. d = <<d[1], d[2]>> /\ e = <<e[1], e[2]>>
    BY Pair DEF TypeOK
  <2>2. d[1] = e[1]
    BY DEF ExpiredExist
  <2> QED
    BY <2>1, <2>2
<1>a. \A e \in Again : heap'[e[2]] = [heap[e[2]] EXCEPT !.exp = started + heap[e[2]].every]
  BY <1>n, <1>u DEF FinishRead, Reset
<1>f. \A e \in expired \ Again : heap'[e[2]] = Freed
  BY <1>n, <1>u DEF FinishRead, Reset
<1>o. \A b \in Addrs : (\A e \in expired : e[2] # b) => heap'[b] = heap[b]
  BY <1>n DEF FinishRead, Reset
<1>r. \A e \in Again : /\ heap'[e[2]].exp = started + heap[e[2]].every
                       /\ heap'[e[2]].seq = heap[e[2]].seq
                       /\ heap'[e[2]].every = heap[e[2]].every
                       /\ heap[e[2]].every > 0 /\ heap[e[2]].seq # 0
  BY <1>n, <1>a DEF Again, ExpiredExist, Timer
<1>q. /\ \A e \in timers_ : e[2] \in Addrs /\ e[1] \in Nat /\ heap'[e[2]] = heap[e[2]]
      /\ \A t \in activeTimers_ : t[1] \in Addrs /\ heap'[t[1]] = heap[t[1]]
  <2>1. \A e \in timers_ : e[2] \in Addrs /\ e[1] \in Nat /\ heap'[e[2]] = heap[e[2]]
    BY <1>o DEF TypeOK, ExpiredExist
  <2>2. \A t \in activeTimers_ : t[1] \in Addrs /\ heap'[t[1]] = heap[t[1]]
    BY <2>1 DEF TypeOK, SetsAgree
  <2> QED
    BY <2>1, <2>2
<1>s. \A e \in expired : <<e[2], heap[e[2]].seq>> \in ids /\ heap[e[2]].seq \in Seqs
  BY <1>n DEF TypeOK, ExpiredExist, IdsUnique
<1>1. TypeOK'
  <2>1. heap' \in [Addrs -> Timer]
    <3>1. heap' = [b \in Addrs |-> heap'[b]]
      BY DEF FinishRead, Reset
    <3> SUFFICES ASSUME NEW b \in Addrs PROVE heap'[b] \in Timer
      BY <3>1
    <3>2. heap[b] \in Timer
      BY DEF TypeOK
    <3>3. CASE \A e \in expired : e[2] # b
      BY <3>2, <3>3, <1>o
    <3>4. CASE \E e \in Again : e[2] = b
      <4>1. started + heap[b].every \in Nat
        BY <3>4, <1>n
      <4>2. \A x \in Timer, n \in Nat : [x EXCEPT !.exp = n] \in Timer
        BY DEF Timer
      <4>3. heap'[b] = [heap[b] EXCEPT !.exp = started + heap[b].every]
        BY <3>4, <1>a
      <4> QED
        BY <3>2, <4>1, <4>2, <4>3
    <3>5. CASE \E e \in expired \ Again : e[2] = b
      BY <3>5, <1>f DEF Timer, Freed
    <3> QED
      BY <3>3, <3>4, <3>5
  <2>2. timerfd' \in Nat
    <3>1. \A e \in timers_' : e[1] \in Nat
      BY <1>t, <1>q, <1>n
    <3>2. timerfd' = timerfd \/ \E e \in timers_' : ResetTimerfd(e[1])
      BY DEF FinishRead, Reset
    <3> QED
      BY <3>1, <3>2, <1>n DEF ResetTimerfd, HowMuchTimeFromNow, Disarmed
  <2>3. timers_' \subseteq Nat \X Addrs
    BY <1>t, <1>n DEF TypeOK
  <2>4. activeTimers_' \subseteq Addrs \X Seqs
    BY <1>t, <1>n, <1>s DEF TypeOK
  <2> QED
    BY <2>1, <2>2, <2>3, <2>4, <1>h DEF TypeOK
<1>2. SetsAgree'
  <2>1. \A e \in timers_' : /\ heap'[e[2]].seq # 0 /\ heap'[e[2]].exp = e[1]
                            /\ <<e[2], heap'[e[2]].seq>> \in activeTimers_'
    <3> SUFFICES ASSUME NEW e \in timers_'
                 PROVE  /\ heap'[e[2]].seq # 0 /\ heap'[e[2]].exp = e[1]
                        /\ <<e[2], heap'[e[2]].seq>> \in activeTimers_'
      OBVIOUS
    <3>1. CASE e \in timers_
      BY <3>1, <1>q, <1>t DEF SetsAgree
    <3>2. CASE \E d \in Again : e = <<started + heap[d[2]].every, d[2]>>
      BY <3>2, <1>r, <1>t
    <3> QED
      BY <3>1, <3>2, <1>t
  <2>2. \A t \in activeTimers_' : /\ heap'[t[1]].seq = t[2]
                                  /\ <<heap'[t[1]].exp, t[1]>> \in timers_'
    <3> SUFFICES ASSUME NEW t \in activeTimers_'
                 PROVE  heap'[t[1]].seq = t[2] /\ <<heap'[t[1]].exp, t[1]>> \in timers_'
      OBVIOUS
    <3>1. CASE t \in activeTimers_
      BY <3>1, <1>q, <1>t DEF SetsAgree
    <3>2. CASE \E d \in Again : t = <<d[2], heap[d[2]].seq>>
      BY <3>2, <1>r, <1>t
    <3> QED
      BY <3>1, <3>2, <1>t
  <2> QED
    BY <2>1, <2>2 DEF SetsAgree
<1>3. ExpiredExist'
  BY <1>h DEF ExpiredExist
<1>4. IdsUnique'
  <2>1. \A b \in Addrs : heap'[b].seq # 0 => <<b, heap'[b].seq>> \in ids
    <3> SUFFICES ASSUME NEW b \in Addrs, heap'[b].seq # 0
                 PROVE  <<b, heap'[b].seq>> \in ids
      OBVIOUS
    <3>1. CASE \A e \in expired : e[2] # b
      BY <3>1, <1>o DEF IdsUnique
    <3>2. CASE \E e \in Again : e[2] = b
      BY <3>2, <1>r, <1>s, <1>n
    <3>3. CASE \E e \in expired \ Again : e[2] = b
      BY <3>3, <1>f DEF Freed
    <3> QED
      BY <3>1, <3>2, <3>3
  <2> QED
    BY <2>1, <1>h DEF IdsUnique
<1>5. Rounds'
  BY <1>h DEF Rounds
<1>6. CancelIsFinal'
  <2>1. \A e \in Again : heap[e[2]].seq \notin cancelled
    BY <1>n DEF Again, Rounds
  <2> QED
    BY <2>1, <1>t, <1>h DEF CancelIsFinal
<1>7. NoTimerLost'
  <2> SUFFICES ASSUME NEW s \in 1 .. created, s \notin done, s \notin cancelled, s \notin abandoned
               PROVE  Waiting(s)'
    BY <1>h DEF NoTimerLost
  <2>1. Waiting(s)
    BY <1>h DEF NoTimerLost
  <2>2. CASE \E t \in activeTimers_ : t[2] = s
    BY <2>2, <1>t DEF Waiting
  <2>3. CASE \E e \in expired : heap[e[2]].seq = s
    <3>1. PICK e \in expired : heap[e[2]].seq = s
      BY <2>3
    <3>2. heap[e[2]].every # 0
      BY <3>1, <1>h DEF Rounds
    <3>3. <<e[2], heap[e[2]].seq>> \notin cancelingTimers_
      BY <3>1 DEF Rounds
    <3>4. e \in Again
      BY <3>2, <3>3, <1>n DEF Again
    <3>5. <<e[2], s>> \in activeTimers_' /\ <<e[2], s>>[2] = s
      BY <3>1, <3>4, <1>t
    <3> QED
      BY <3>5 DEF Waiting
  <2> QED
    BY <2>1, <2>2, <2>3 DEF Waiting
<1>8. Covered'
  <2>1. \A e \in timers_' : e[1] \in Nat
    BY <1>t, <1>q, <1>n
  <2>2. CASE \A e \in timers_' : e[1] > 0
    <3> SUFFICES ASSUME NEW d \in timers_' PROVE Covers(d[1])'
      BY DEF Covered
    <3>1. PICK e \in timers_' : (\A x \in timers_' : e[1] <= x[1]) /\ ResetTimerfd(e[1])
      BY <2>2 DEF FinishRead, Reset
    <3>2. timerfd' = IF e[1] > now THEN e[1] ELSE now + 1
      BY <3>1, <2>1, <1>n DEF ResetTimerfd, HowMuchTimeFromNow
    <3>3. e[1] \in Nat /\ d[1] \in Nat /\ e[1] <= d[1]
      BY <2>1, <3>1
    <3>4. now' = now
      BY <1>h
    <3>5. timerfd' # Disarmed /\ (timerfd' <= d[1] \/ timerfd' <= now' + 1)
      BY <3>2, <3>3, <3>4, <1>n DEF Disarmed
    <3> QED
      BY <3>5 DEF Covers
  <2>3. CASE \E e \in timers_' : ~(e[1] > 0)
    <3>1. PICK e \in timers_' : e[1] = 0
      BY <2>1, <2>3
    <3>2. e \in timers_
      BY <3>1, <1>t, <1>r, <1>n
    <3>3. timerfd # Disarmed /\ timerfd <= now + 1
      BY <3>1, <3>2, <1>n DEF Covered, Covers, Disarmed
    <3>4. timerfd' = timerfd /\ now' = now
      BY <2>3, <1>h DEF FinishRead, Reset
    <3> QED
      BY <3>3, <3>4 DEF Covered, Covers
  <2> QED
    BY <2>2, <2>3
<1>9. Owned'
  <2> SUFFICES ASSUME NEW b \in Addrs
               PROVE  heap'[b] = Freed \/
                      (heap'[b].seq # 0 /\ ((\E e \in timers_' : e[2] = b)
                                             \/ heap'[b].seq \in abandoned))
    BY <1>h DEF Owned
  <2>1. CASE \A e \in expired : e[2] # b
    <3>1. heap'[b] = heap[b] /\ timers_ \subseteq timers_'
      BY <2>1, <1>o, <1>t
    <3> QED
      BY <3>1, <2>1 DEF Owned
  <2>2. CASE \E e \in Again : e[2] = b
    <3>1. PICK e \in Again : e[2] = b
      BY <2>2
    <3>2. <<started + heap[b].every, b>> \in timers_'
      BY <3>1, <1>t
    <3>3. <<started + heap[b].every, b>>[2] = b
      OBVIOUS
    <3> QED
      BY <3>1, <3>2, <3>3, <1>r
  <2>3. CASE \E e \in expired \ Again : e[2] = b
    BY <2>3, <1>f
  <2> QED
    BY <2>1, <2>2, <2>3
<1> QED
  BY <1>1, <1>2, <1>3, <1>4, <1>5, <1>6, <1>7, <1>8, <1>9

\* The initial state satisfies the inductive invariant.
LEMMA IInvInit == Init => IInv
<1> SUFFICES ASSUME Init PROVE IInv
  OBVIOUS
<1> USE DEF Init
<1>1. TypeOK
  <2>1. Freed \in Timer
    BY DEF Freed, Timer
  <2>2. heap \in [Addrs -> Timer]
    BY <2>1
  <2>3. now \in 1 .. MaxTime /\ created \in 0 .. MaxTimers /\ timerfd \in Nat /\ started \in Nat
    BY DEF Disarmed
  <2> QED
    BY <2>2, <2>3 DEF TypeOK
<1>2. SetsAgree /\ ExpiredExist /\ Rounds /\ CancelIsFinal /\ Covered
  BY DEF SetsAgree, ExpiredExist, Rounds, CancelIsFinal, Covered
<1>3. IdsUnique
  BY DEF IdsUnique, Freed
<1>4. NoTimerLost /\ Owned
  BY DEF NoTimerLost, Owned
<1> QED
  BY <1>1, <1>2, <1>3, <1>4 DEF IInv

\* Every step keeps the inductive invariant.
LEMMA IInvNext == IInv /\ [Next]_vars => IInv'
<1> SUFFICES ASSUME IInv, [Next]_vars PROVE IInv'
  OBVIOUS
<1>1. CASE RunAt
  <2>1. PICK when \in 0 .. MaxTime : AddTimer(when, 0)
    BY <1>1 DEF RunAt
  <2>2. when \in Nat /\ 0 \in Nat
    OBVIOUS
  <2> QED
    BY <2>1, <2>2, AddTimerStep
<1>2. CASE RunEvery
  <2>1. PICK i \in Intervals : AddTimer(now + i, i)
    BY <1>2 DEF RunEvery
  <2>2. now + i \in Nat /\ i \in Nat
    BY DEF IInv, TypeOK
  <2> QED
    BY <2>1, <2>2, AddTimerStep
<1>3. CASE \E id \in ids : Cancel(id)
  BY <1>3, CancelStep
<1>4. CASE UNCHANGED vars
  BY <1>4 DEF vars, IInv, TypeOK, SetsAgree, ExpiredExist, IdsUnique, Rounds, CancelIsFinal,
              NoTimerLost, Waiting, Covered, Covers, Owned
<1> QED
  BY <1>1, <1>2, <1>3, <1>4, TickStep, HandleReadStep, RunNextStep, ThrowStep,
     FinishReadStep, DestroyStep DEF Next, Over

\* The strengthened invariant holds in every reachable state.
LEMMA IInvAlways == Spec => []IInv
  BY IInvInit, IInvNext, PTL DEF Spec

\* The variables keep their types in every reachable state: what addTimer, cancel,
\* handleRead and the destructor may rely on.
THEOREM TypesCorrect == Spec => []TypeOK
<1>1. IInv => TypeOK
  BY DEF IInv
<1> QED
  BY <1>1, IInvAlways, PTL

\* timers_ and activeTimers_ describe the same live Timer objects in every
\* reachable state of addTimer, cancel, handleRead and the destructor: what the
\* size assertions of Timer.cc only hint at.
THEOREM QueueConsistent == Spec => []SetsAgree
<1>1. IInv => SetsAgree
  BY DEF IInv
<1> QED
  BY <1>1, IInvAlways, PTL

\* The timers that handleRead works on are alive, and no longer in the queue,
\* whatever the callbacks add, cancel or throw meanwhile.
THEOREM ExpiredAlive == Spec => []ExpiredExist
<1>1. IInv => ExpiredExist
  BY DEF IInv
<1> QED
  BY <1>1, IInvAlways, PTL

\* A timer is lost only to an exception: cancel() acts on the timer its identifier
\* was made for and on no other, although addresses are reused.
THEOREM CancelExact == Spec => []NoTimerLost
<1>1. IInv => NoTimerLost
  BY DEF IInv
<1> QED
  BY <1>1, IInvAlways, PTL

\* A cancelled timer never returns to the queue, even when it is cancelled by a
\* callback of the very round that would have put it back.
THEOREM CancelFinal == Spec => []CancelIsFinal
<1>1. IInv => CancelIsFinal
  BY DEF IInv
<1> QED
  BY <1>1, IInvAlways, PTL

\* Outside of handleRead the timerfd is armed for the earliest timer.
THEOREM ArmedInTime == Spec => []TimerfdArmed
<1>1. IInv => TimerfdArmed
  BY DEF IInv, Covered, Covers, TimerfdArmed
<1> QED
  BY <1>1, IInvAlways, PTL

\* The destructor deletes every Timer that no exception took away.
THEOREM NothingLeaks == Spec => []NoLeak
<1>1. IInv /\ (phase = "destroyed" => timers_ = {}) => NoLeak
  BY DEF IInv, Rounds, Owned, NoLeak
<1>2. Init => (phase = "destroyed" => timers_ = {})
  BY DEF Init
<1>3. (phase = "destroyed" => timers_ = {}) /\ [Next]_vars
        => (phase = "destroyed" => timers_ = {})'
  BY DEF Next, vars, handler, Tick, RunAt, RunEvery, AddTimer, ClientRuns, Cancel, HandleRead,
         RunNext, CallbackThrows, FinishRead, Destroy, Over
<1> QED
  BY <1>1, <1>2, <1>3, IInvAlways, PTL DEF Spec

\* handleRead calls no callback before the time it was asked for.
THEOREM NoCallbackEarly == Spec => NeverEarly
<1>1. IInv /\ [Next]_vars => [RunNext => \A e \in torun \ torun' : e[1] <= now]_vars
  BY DEF IInv, TypeOK, Rounds
<1> QED
  BY <1>1, IInvAlways, PTL DEF Spec, NeverEarly

-----------------------------------------------------------------------------
(* The queue implements TimerService.                                      *)

\* The entries that stand for a timer of the service.
Live == timers_ \cup expired

\* Two entries with the same sequence are the same entry.
LEMMA EntryKey ==
    ASSUME IInv, NEW d \in Live, NEW e \in Live, heap[d[2]].seq = heap[e[2]].seq
    PROVE  d = e
<1> USE DEF IInv, Live
<1>1. /\ d = <<d[1], d[2]>> /\ d[2] \in Addrs
      /\ e = <<e[1], e[2]>> /\ e[2] \in Addrs
  BY Pair DEF TypeOK
<1>2. /\ heap[d[2]].seq # 0 /\ heap[d[2]].exp = d[1]
      /\ heap[e[2]].seq # 0 /\ heap[e[2]].exp = e[1]
  BY DEF SetsAgree, ExpiredExist
<1>3. <<d[2], heap[d[2]].seq>> \in ids /\ <<e[2], heap[e[2]].seq>> \in ids
  BY <1>1, <1>2 DEF IdsUnique
<1>4. d[2] = e[2]
  BY <1>3 DEF IdsUnique
<1> QED
  BY <1>1, <1>2, <1>4

\* The fields of an entry's timer.
LEMMA EntryFields ==
    ASSUME NEW e
    PROVE  /\ Entry(e).id = heap[e[2]].seq
           /\ Entry(e).at = e[1]
           /\ Entry(e).every = heap[e[2]].every
  BY DEF Entry

\* The timers of a part of the entries.
LEMMA EntriesMinus ==
    ASSUME IInv, NEW S \in SUBSET Live, NEW T \in SUBSET Live
    PROVE  Entries(S \ T) = Entries(S) \ Entries(T)
<1>1. \A d \in S, e \in T : Entry(d) = Entry(e) => d = e
  BY EntryKey, EntryFields
<1> QED
  BY <1>1 DEF Entries

\* Entries whose objects a step leaves alone stand for the same timers after it.
LEMMA EntriesKept ==
    ASSUME NEW S, \A e \in S : heap'[e[2]] = heap[e[2]]
    PROVE  {[id |-> heap'[e[2]].seq, at |-> e[1], every |-> heap'[e[2]].every] : e \in S}
             = Entries(S)
  BY DEF Entries, Entry

\* The initial state of the queue is one of the service.
LEMMA ServiceInit == Init => Service!Init
  BY DEF Init, Service!Init, Entries, Cancelling

\* A client runs in the queue when it may run in the service.
LEMMA ServiceClient == IInv /\ ClientRuns => Service!Client
<1> SUFFICES ASSUME IInv, ClientRuns PROVE Service!Client
  OBVIOUS
<1>1. torun # expired => expired \ torun # {}
  BY DEF IInv, TypeOK
<1> QED
  BY <1>1 DEF ClientRuns, Service!Client, Entries

\* The clock.
LEMMA ServiceTick == Tick => Service!Pass
  BY DEF Tick, handler, Service!Pass, Service!round, Entries, Entry, Cancelling

\* addTimer sets one timer with a new number.
LEMMA ServiceAdd ==
    ASSUME IInv, NEW when, NEW every, AddTimer(when, every)
    PROVE  Service!Set(when, every)
<1> USE DEF IInv
<1>0. PICK a \in Addrs :
         /\ heap[a] = Freed
         /\ heap' = [heap EXCEPT ![a] = [exp |-> when, every |-> every, seq |-> created + 1]]
         /\ timers_' = timers_ \cup {<<when, a>>}
  BY DEF AddTimer
<1>h. /\ ClientRuns /\ created < MaxTimers /\ created' = created + 1
      /\ UNCHANGED <<now, cancelingTimers_, phase, started, expired, torun>>
  BY DEF AddTimer, handler
<1>1. heap[a].seq = 0 /\ heap'[a].seq = created + 1 /\ heap'[a].every = every
  BY <1>0 DEF TypeOK, Freed
<1>2. \A e \in Live : heap'[e[2]] = heap[e[2]]
  <2> SUFFICES ASSUME NEW e \in Live PROVE e[2] \in Addrs /\ e[2] # a
    BY <1>0 DEF TypeOK
  <2>1. e[2] \in Addrs
    BY Pair DEF Live, TypeOK
  <2>2. heap[e[2]].seq # 0
    BY DEF Live, SetsAgree, ExpiredExist
  <2> QED
    BY ONLY <1>1, <2>1, <2>2
<1>3. Entries(timers_)' = Entries(timers_) \cup
                            {[id |-> created + 1, at |-> when, every |-> every]}
  <2>1. {[id |-> heap'[e[2]].seq, at |-> e[1], every |-> heap'[e[2]].every] : e \in timers_}
          = Entries(timers_)
    BY <1>2, EntriesKept DEF Live
  <2>2. <<when, a>>[1] = when /\ <<when, a>>[2] = a
    OBVIOUS
  <2>3. Entries(timers_)' =
          {[id |-> heap'[e[2]].seq, at |-> e[1], every |-> heap'[e[2]].every] : e \in timers_'}
    BY DEF Entries, Entry
  <2> QED
    BY <2>1, <2>2, <2>3, <1>0, <1>1
<1>4. Entries(torun)' = Entries(torun) /\ Entries(expired \ torun)' = Entries(expired \ torun)
  <2>1. \A e \in torun \cup (expired \ torun) : heap'[e[2]] = heap[e[2]]
    BY <1>2 DEF Live, TypeOK
  <2> QED
    BY <2>1, <1>h DEF Entries, Entry
<1>5. Cancelling' = Cancelling
  BY <1>2, <1>h DEF Cancelling, Live
<1>6. Service!Client
  BY <1>h, ServiceClient
<1> QED
  BY <1>h, <1>3, <1>4, <1>5, <1>6 DEF Service!Set, Service!round

\* cancel() stops the timer that its identifier was made for.
LEMMA ServiceCancel ==
    ASSUME IInv, NEW id \in ids, Cancel(id)
    PROVE  Service!Stop(id[2])
<1> USE DEF IInv
<1>h. /\ ClientRuns
      /\ UNCHANGED <<now, created, callingExpiredTimers_, phase, started, expired, torun>>
  BY DEF Cancel, handler
<1>i. id = <<id[1], id[2]>> /\ id[1] \in Addrs /\ id[2] \in Seqs
  BY Pair DEF TypeOK
<1>r. Entries(torun) \cup Entries(expired \ torun) = Entries(expired)
  BY DEF Entries, TypeOK
<1>k. \A e \in Live : heap[e[2]].seq = id[2] <=> e[2] = id[1] /\ heap[id[1]].seq = id[2]
  <2> SUFFICES ASSUME NEW e \in Live, heap[e[2]].seq = id[2] PROVE e[2] = id[1]
    OBVIOUS
  <2>1. e[2] \in Addrs /\ heap[e[2]].seq # 0
    BY DEF Live, TypeOK, SetsAgree, ExpiredExist
  <2>2. <<e[2], id[2]>> \in ids
    BY <2>1 DEF IdsUnique
  <2> QED
    BY <2>2 DEF IdsUnique
<1>s. Service!Client
  BY <1>h, ServiceClient
<1>a. CASE id \in activeTimers_
  <2>0. /\ timers_' = timers_ \ {<<heap[id[1]].exp, id[1]>>}
        /\ heap' = [heap EXCEPT ![id[1]] = Freed]
        /\ cancelingTimers_' = cancelingTimers_
    BY <1>a DEF Cancel
  <2>1. heap[id[1]].seq = id[2] /\ <<heap[id[1]].exp, id[1]>> \in timers_
    BY <1>a DEF SetsAgree
  <2>2. \A e \in timers_ : e[2] = id[1] <=> e = <<heap[id[1]].exp, id[1]>>
    <3> SUFFICES ASSUME NEW e \in timers_, e[2] = id[1] PROVE e = <<heap[id[1]].exp, id[1]>>
      OBVIOUS
    <3>1. e = <<e[1], e[2]>> /\ heap[e[2]].exp = e[1]
      BY Pair DEF TypeOK, SetsAgree
    <3> QED
      BY <3>1
  <2>3. \A e \in expired : e[2] # id[1]
    BY <2>1 DEF ExpiredExist
  <2>4. \A e \in timers_' \cup expired : heap'[e[2]] = heap[e[2]]
    BY <2>0, <2>2, <2>3 DEF TypeOK
  <2>5. Entries(timers_)' = Entries(timers_')
    BY <2>4 DEF Entries, Entry
  <2>6. Entries(timers_') = {r \in Entries(timers_) : r.id # id[2]}
    <3>1. \A e \in timers_ : Entry(e).id # id[2] <=> e \in timers_'
      BY <2>0, <2>1, <2>2, <1>k, EntryFields DEF Live
    <3> QED
      BY <3>1, <2>0 DEF Entries
  <2>7. Entries(torun)' = Entries(torun) /\ Entries(expired \ torun)' = Entries(expired \ torun)
    <3>1. \A e \in torun \cup (expired \ torun) : heap'[e[2]] = heap[e[2]]
      BY <2>4 DEF TypeOK
    <3> QED
      BY <3>1, <1>h DEF Entries, Entry
  <2>8. Cancelling' = Cancelling
    <3>1. Cancelling' = {heap'[e[2]].seq : e \in
              {d \in expired : <<d[2], heap'[d[2]].seq>> \in cancelingTimers_}}
      BY ONLY <2>0, <1>h DEF Cancelling
    <3>2. \A e \in expired : heap'[e[2]].seq = heap[e[2]].seq
      BY <2>4
    <3> QED
      BY ONLY <3>1, <3>2 DEF Cancelling
  <2>9. {s \in Entries(torun) \cup Entries(expired \ torun) : s.id = id[2]} = {}
    <3>1. \A e \in expired : Entry(e).id # id[2]
      BY <2>3, <1>k, EntryFields DEF Live
    <3> QED
      BY <3>1, <1>r DEF Entries
  <2>10. {r.id : r \in {s \in Entries(torun) \cup Entries(expired \ torun) : s.id = id[2]}} = {}
    BY <2>9
  <2> QED
    BY <1>h, <1>s, <2>5, <2>6, <2>7, <2>8, <2>10 DEF Service!Stop, Service!round
<1>b. CASE id \notin activeTimers_
  <2>0. /\ cancelingTimers_' = IF callingExpiredTimers_
                                 THEN cancelingTimers_ \cup {id} ELSE cancelingTimers_
        /\ UNCHANGED <<timers_, activeTimers_, heap>>
    BY <1>b DEF Cancel
  <2>1. \A e \in timers_ : heap[e[2]].seq # id[2]
    <3> SUFFICES ASSUME NEW e \in timers_, heap[e[2]].seq = id[2] PROVE FALSE
      OBVIOUS
    <3>1. <<e[2], heap[e[2]].seq>> = id
      BY <1>k, <1>i DEF Live
    <3> QED
      BY <3>1, <1>b DEF SetsAgree
  <2>2. Entries(timers_) = {r \in Entries(timers_) : r.id # id[2]}
    BY <2>1, EntryFields DEF Entries
  <2>3. /\ Entries(timers_)' = Entries(timers_) /\ Entries(torun)' = Entries(torun)
        /\ Entries(expired \ torun)' = Entries(expired \ torun)
    BY <2>0, <1>h DEF Entries, Entry
  <2>4. Cancelling' = Cancelling \cup
          {r.id : r \in {s \in Entries(torun) \cup Entries(expired \ torun) : s.id = id[2]}}
    <3>1. {r.id : r \in {s \in Entries(expired) : s.id = id[2]}}
            = {heap[e[2]].seq : e \in {d \in expired : heap[d[2]].seq = id[2]}}
      BY EntryFields DEF Entries
    <3>2. \A e \in expired : <<e[2], heap[e[2]].seq>> = id <=> heap[e[2]].seq = id[2]
      BY <1>k, <1>i DEF Live
    <3>3. expired # {} => callingExpiredTimers_
      BY DEF Rounds
    <3>4. \A e \in expired : <<e[2], heap[e[2]].seq>> \in cancelingTimers_' <=>
              <<e[2], heap[e[2]].seq>> \in cancelingTimers_ \/ heap[e[2]].seq = id[2]
      BY <3>2, <3>3, <2>0
    <3>5. Cancelling' = {heap[e[2]].seq : e \in
              {d \in expired : <<d[2], heap[d[2]].seq>> \in cancelingTimers_'}}
      BY <2>0, <1>h DEF Cancelling
    <3>6. Cancelling' = Cancelling \cup
              {heap[e[2]].seq : e \in {d \in expired : heap[d[2]].seq = id[2]}}
      BY <3>4, <3>5 DEF Cancelling
    <3> QED
      BY <3>1, <3>6, <1>r
  <2> QED
    BY <1>h, <1>s, <2>2, <2>3, <2>4 DEF Service!Stop, Service!round
<1> QED
  BY <1>a, <1>b

\* handleRead collects what is due.
LEMMA ServiceRead == IInv /\ HandleRead => Service!Collect
<1> SUFFICES ASSUME IInv, HandleRead PROVE Service!Collect
  OBVIOUS
<1> USE DEF IInv
<1>h. /\ phase = "idle" /\ phase' = "calling" /\ started' = now
      /\ expired' = Due /\ torun' = Due /\ timers_' = timers_ \ Due
      /\ UNCHANGED <<now, heap, created>> /\ cancelingTimers_' = {}
  BY DEF HandleRead
<1>0. expired = {} /\ torun = {}
  BY <1>h DEF Rounds, TypeOK
<1>1. /\ Entries(timers_)' = Entries(timers_ \ Due) /\ Entries(torun)' = Entries(Due)
      /\ Entries(expired \ torun)' = {} /\ Entries(expired \ torun) = {}
  BY <1>h, <1>0 DEF Entries, Entry
<1>2. Entries(Due) = {r \in Entries(timers_) : r.at <= now}
  BY EntryFields DEF Entries, Due
<1>3. Entries(timers_ \ Due) = Entries(timers_) \ Entries(Due)
  <2>1. timers_ \in SUBSET Live /\ Due \in SUBSET Live
    BY DEF Live, Due
  <2> QED
    BY <2>1, EntriesMinus
<1>4. Cancelling = {} /\ Cancelling' = {}
  BY <1>h, <1>0 DEF Cancelling
<1> QED
  BY <1>h, <1>1, <1>2, <1>3, <1>4 DEF Service!Collect

\* The next callback of the queue is one the service may call.
LEMMA ServiceRun == IInv /\ RunNext => \E r \in Entries(torun) : Service!Call(r)
<1> SUFFICES ASSUME IInv, RunNext PROVE \E r \in Entries(torun) : Service!Call(r)
  OBVIOUS
<1> USE DEF IInv
<1>0. PICK e \in torun : /\ \A d \in torun \ {e} : Before(e, d)
                         /\ torun' = torun \ {e}
  BY DEF RunNext
<1>h. /\ phase = "calling"
      /\ UNCHANGED <<now, heap, created, timers_, cancelingTimers_, phase, started, expired>>
  BY DEF RunNext
<1>1. e \in expired /\ e[1] \in Nat /\ e[1] <= now
  BY DEF TypeOK, Rounds
<1>2. \A d \in torun : d[1] \in Nat /\ e[1] <= d[1]
  BY <1>0, <1>1 DEF TypeOK, Before
<1>3. Entries(torun)' = Entries(torun) \ {Entry(e)}
  <2>1. torun \in SUBSET Live /\ {e} \in SUBSET Live
    BY <1>1 DEF Live, TypeOK
  <2>2. Entries(torun \ {e}) = Entries(torun) \ Entries({e})
    BY <2>1, EntriesMinus
  <2> QED
    BY <1>0, <1>h, <2>2 DEF Entries, Entry
<1>4. Entries(expired \ torun)' = Entries(expired \ torun) \cup {Entry(e)}
  <2>1. expired' \ torun' = (expired \ torun) \cup {e}
    BY <1>0, <1>1, <1>h
  <2> QED
    BY <2>1, <1>h DEF Entries, Entry
<1>5. Entries(timers_)' = Entries(timers_) /\ Cancelling' = Cancelling
  BY <1>h DEF Entries, Entry, Cancelling
<1>6. \A s \in Entries(torun) : Entry(e).at <= s.at
  BY <1>2, EntryFields DEF Entries
<1>7. Service!Call(Entry(e))
  BY <1>h, <1>1, <1>3, <1>4, <1>5, <1>6, EntryFields DEF Service!Call
<1> QED
  BY <1>7 DEF Entries

\* An exception ends the round.
LEMMA ServiceThrow == IInv /\ CallbackThrows => Service!Abort
<1> SUFFICES ASSUME IInv, CallbackThrows PROVE Service!Abort
  OBVIOUS
<1>h. /\ phase = "calling" /\ phase' = "idle" /\ torun # expired
      /\ expired' = {} /\ torun' = {}
      /\ UNCHANGED <<now, heap, created, timers_, started>>
  BY DEF CallbackThrows
<1>1. Entries(expired \ torun) # {}
  BY <1>h DEF IInv, TypeOK, Entries
<1>2. /\ Entries(timers_)' = Entries(timers_) /\ Entries(torun)' = {}
      /\ Entries(expired \ torun)' = {} /\ Cancelling' = {}
  BY <1>h DEF Entries, Entry, Cancelling
<1> QED
  BY <1>h, <1>1, <1>2 DEF Service!Abort

\* reset() puts back the recurring timers that were not cancelled.
LEMMA ServiceFinish == IInv /\ FinishRead => Service!Finish
<1> SUFFICES ASSUME IInv, FinishRead PROVE Service!Finish
  OBVIOUS
<1> USE DEF IInv
<1>h. /\ phase = "calling" /\ torun = {} /\ phase' = "idle" /\ expired' = {}
      /\ UNCHANGED <<now, created, started, torun>>
  BY DEF FinishRead
<1>0. /\ heap' = [a \in Addrs |->
                    CASE \E e \in Again : e[2] = a ->
                           [heap[a] EXCEPT !.exp = started + heap[a].every]
                      [] \E e \in expired \ Again : e[2] = a -> Freed
                      [] OTHER -> heap[a]]
      /\ timers_' = timers_ \cup {<<started + heap[e[2]].every, e[2]>> : e \in Again}
  BY DEF FinishRead, Reset
<1>1. \A e \in timers_ : heap'[e[2]] = heap[e[2]]
  <2> SUFFICES ASSUME NEW e \in timers_
               PROVE  e[2] \in Addrs /\ \A d \in expired : d[2] # e[2]
    BY <1>0 DEF Again
  <2> QED
    BY DEF TypeOK, ExpiredExist
<1>2. \A e \in Again : heap'[e[2]].seq = heap[e[2]].seq /\ heap'[e[2]].every = heap[e[2]].every
  <2> SUFFICES ASSUME NEW e \in Again
               PROVE  heap'[e[2]].seq = heap[e[2]].seq /\ heap'[e[2]].every = heap[e[2]].every
    OBVIOUS
  <2>1. e[2] \in Addrs
    BY DEF Again, TypeOK
  <2>k. \A d \in expired : d[2] = e[2] => d = e
    BY EntryKey DEF Live, Again
  <2>2. heap'[e[2]] = [heap[e[2]] EXCEPT !.exp = started + heap[e[2]].every]
    BY <1>0, <2>1, <2>k
  <2>3. heap[e[2]] \in Timer
    BY <2>1 DEF TypeOK
  <2> QED
    BY <2>2, <2>3 DEF Timer
<1>3. \A e \in expired : heap[e[2]].seq \in Cancelling <=>
                             <<e[2], heap[e[2]].seq>> \in cancelingTimers_
  <2> SUFFICES ASSUME NEW e \in expired, heap[e[2]].seq \in Cancelling
               PROVE  <<e[2], heap[e[2]].seq>> \in cancelingTimers_
    BY DEF Cancelling
  <2>1. PICK d \in expired : /\ heap[d[2]].seq = heap[e[2]].seq
                             /\ <<d[2], heap[d[2]].seq>> \in cancelingTimers_
    BY DEF Cancelling
  <2>2. d = e
    BY <2>1, EntryKey DEF Live
  <2> QED
    BY <2>1, <2>2
<1>4. Entries(torun) = {} /\ Entries(expired \ torun) = Entries(expired)
  BY <1>h DEF Entries
<1>5. Service!Recurring = Entries(Again)
  <2>1. \A e \in expired : e \in Again <=> Entry(e).every > 0 /\ Entry(e).id \notin Cancelling
    BY <1>3, EntryFields DEF Again
  <2>2. Again \subseteq expired
    BY DEF Again
  <2> QED
    BY <2>1, <2>2, <1>4 DEF Service!Recurring, Entries
<1>6. {[id |-> r.id, at |-> started + r.every, every |-> r.every] : r \in Entries(Again)}
        = {[id |-> heap[e[2]].seq, at |-> started + heap[e[2]].every, every |-> heap[e[2]].every]
             : e \in Again}
  BY EntryFields DEF Entries
<1>7. Entries(timers_)' = Entries(timers_) \cup
        {[id |-> heap[e[2]].seq, at |-> started + heap[e[2]].every, every |-> heap[e[2]].every]
             : e \in Again}
  <2> DEFINE New(e) == [id |-> heap'[e[2]].seq, at |-> e[1], every |-> heap'[e[2]].every]
             Back(e) == <<started + heap[e[2]].every, e[2]>>
  <2>1. Entries(timers_)' = {New(e) : e \in timers_'}
    BY DEF Entries, Entry
  <2>2. {New(e) : e \in timers_} = Entries(timers_)
    BY <1>1, EntriesKept
  <2>3. \A e \in Again : New(Back(e)) = [id |-> heap[e[2]].seq,
                          at |-> started + heap[e[2]].every, every |-> heap[e[2]].every]
    BY <1>2
  <2>4. timers_' = timers_ \cup {Back(e) : e \in Again}
    BY <1>0
  <2> HIDE DEF New, Back
  <2>5. {New(e) : e \in timers_'} = {New(e) : e \in timers_} \cup {New(Back(e)) : e \in Again}
    BY <2>4
  <2> QED
    BY <2>1, <2>2, <2>3, <2>5
<1>8. /\ Entries(torun)' = Entries(torun) /\ Entries(expired \ torun)' = {}
      /\ Cancelling' = {}
  BY <1>h DEF Entries, Cancelling
<1> QED
  BY <1>h, <1>4, <1>5, <1>6, <1>7, <1>8 DEF Service!Finish

\* The destructor closes the service.
LEMMA ServiceDestroy == IInv /\ Destroy => Service!Close
<1> SUFFICES ASSUME IInv, Destroy PROVE Service!Close
  OBVIOUS
<1>h. /\ phase = "idle" /\ phase' = "destroyed" /\ timers_' = {}
      /\ UNCHANGED <<now, created, started, expired, torun>>
  BY DEF Destroy
<1>0. expired = {} /\ torun = {}
  BY <1>h DEF IInv, Rounds, TypeOK
<1>1. /\ Entries(timers_)' = {} /\ Entries(torun)' = {} /\ Entries(torun) = {}
      /\ Entries(expired \ torun)' = {} /\ Entries(expired \ torun) = {}
      /\ Cancelling' = {} /\ Cancelling = {}
  BY <1>h, <1>0 DEF Entries, Cancelling
<1> QED
  BY <1>h, <1>1 DEF Service!Close

\* Every step of the queue is a step of the service, or changes nothing of it.
LEMMA ServiceNext == IInv /\ [Next]_vars => [Service!Next]_(Service!tvars)
<1> SUFFICES ASSUME IInv, [Next]_vars PROVE [Service!Next]_(Service!tvars)
  OBVIOUS
<1>1. CASE Tick
  BY <1>1, ServiceTick DEF Service!Next
<1>2. CASE RunAt
  BY <1>2, ServiceAdd DEF RunAt, Service!Next
<1>3. CASE RunEvery
  BY <1>3, ServiceAdd DEF RunEvery, Service!Next
<1>4. CASE \E id \in ids : Cancel(id)
  <2>1. PICK id \in ids : Cancel(id)
    BY <1>4
  <2>2. id[2] \in 1 .. created
    BY DEF IInv, TypeOK, IdsUnique, Seqs
  <2>3. Service!Stop(id[2])
    BY <2>1, ServiceCancel
  <2> QED
    BY <2>2, <2>3 DEF Service!Next
<1>5. CASE RunNext
  BY <1>5, ServiceRun DEF Service!Next
<1>6. CASE HandleRead \/ CallbackThrows \/ FinishRead \/ Destroy
  BY <1>6, ServiceRead, ServiceThrow, ServiceFinish, ServiceDestroy DEF Service!Next
<1>7. CASE UNCHANGED vars
  BY <1>7 DEF vars, Service!tvars, Entries, Entry, Cancelling
<1> QED
  BY <1>1, <1>2, <1>3, <1>4, <1>5, <1>6, <1>7 DEF Next, Over

\* The timer queue implements the timer service, for any addresses, periods and
\* number of timers: addTimer, cancel, handleRead and reset() keep the promise
\* although addresses are reused, clients cancel with stale identifiers and
\* callbacks change the queue that runs them.
THEOREM ImplementsService == Spec => IsTimerService
  BY ServiceInit, ServiceNext, IInvAlways, PTL DEF Spec, IsTimerService, Service!Spec
==============================================================================
