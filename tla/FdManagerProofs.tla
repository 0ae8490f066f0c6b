-------------------------- MODULE FdManagerProofs --------------------------
(***************************************************************************)
(* Proofs about FdManager, for any threads, with or without hooks, and any *)
(* descriptor numbers.                                                     *)
(***************************************************************************)
EXTENDS FdManager, TLAPS

Kernel == [open : BOOLEAN, socket : BOOLEAN, nonblock : BOOLEAN, owner : Threads \cup {"nobody"}]
Places == {"none", "lookup", "create", "close", "kernel"}

Shape ==
  /\ fds_ \in [Fds -> FdContext \cup {NoCtx}]
  /\ kernel \in [Fds -> Kernel]
  /\ call \in [Threads -> [at : Places, fd : Fds \cup {0}]]
  /\ asked \in [Fds -> BOOLEAN]

\* A thread is in a call only for a descriptor that it has opened itself, so no
\* two threads are ever busy with the same number.
CallsOwn == \A t \in Threads : IF At(t, "none") THEN Free(t) ELSE call[t].fd \in Fds /\ Owns(t, call[t].fd)

\* Only close() without hooks leaves a context behind.
ClosedClean == \A f \in Fds : ~kernel[f].open /\ f \notin stale => fds_[f] = NoCtx
StaleHasCtx == \A f \in Fds : f \in stale => fds_[f] # NoCtx

\* What holds of the descriptor that a thread is opening, closing or waiting for.
InCall ==
  \A t \in Threads : LET f == call[t].fd IN
    /\ At(t, "lookup") => /\ f \in stale \/ fds_[f] = NoCtx
                          /\ ~asked[f] /\ ~kernel[f].nonblock
    /\ At(t, "create") => fds_[f] = NoCtx /\ ~asked[f] /\ ~kernel[f].nonblock
    /\ At(t, "close") => fds_[f] = NoCtx
    /\ At(t, "kernel") => ~kernel[f].nonblock

\* The context of a socket has the flag as the user sees it and the kernel has the
\* one the library needs; without a context the kernel has the user's.
Agree(f) ==
  IF HasSocketCtx(f)
    THEN /\ fds_[f].userNonblock = asked[f]
         /\ fds_[f].sysNonblock
         /\ kernel[f].nonblock \/ f \in byIoctl
    ELSE kernel[f].nonblock = asked[f]
Closing(f) == \E t \in Threads : At(t, "close") /\ call[t].fd = f
FlagsAgree == \A f \in Fds : kernel[f].open /\ f \notin stale /\ ~Closing(f) => Agree(f)

IInv == Shape /\ CallsOwn /\ ClosedClean /\ StaleHasCtx /\ InCall /\ FlagsAgree

-----------------------------------------------------------------------------
USE ThreadsAssumption, NoCtxAssumption
USE DEF At, Owns, Free, Out, Closed, Kernel, Places, FdContext, HasSocketCtx

\* The flag of a descriptor, written on its own.
LEMMA SetNonblock ==
  ASSUME NEW r \in Kernel, NEW b
  PROVE  [open |-> r.open, socket |-> r.socket, nonblock |-> b, owner |-> r.owner]
           = [r EXCEPT !.nonblock = b]
  OBVIOUS

\* A step that leaves a number alone leaves its flags in agreement.
LEMMA Elsewhere ==
  ASSUME FlagsAgree, NEW g \in Fds,
         kernel'[g] = kernel[g], fds_'[g] = fds_[g], asked'[g] = asked[g],
         g \in stale' <=> g \in stale, g \in byIoctl' <=> g \in byIoctl,
         Closing(g) => Closing(g)'
  PROVE  kernel'[g].open /\ g \notin stale' /\ ~Closing(g)' => Agree(g)'
  BY DEF FlagsAgree, Agree

\* getFdContext finds the context or goes on to make one.
LEMMA LookupStep ==
  ASSUME IInv, NEW t \in Threads, Lookup(t) PROVE IInv'
  <1> USE DEF IInv, Lookup
  <1>1. Shape'
    BY DEF Shape
  <1>2. CallsOwn'
    BY DEF Shape, CallsOwn
  <1>3. ClosedClean'
    BY DEF Shape, CallsOwn, ClosedClean
  <1>4. StaleHasCtx'
    BY DEF Shape, CallsOwn, StaleHasCtx
  <1>5. InCall'
    BY DEF Shape, CallsOwn, ClosedClean, StaleHasCtx, InCall, FlagsAgree
  <1>6. FlagsAgree'
    <2> SUFFICES ASSUME NEW g \in Fds, kernel'[g].open, g \notin stale', ~Closing(g)' PROVE Agree(g)'
      BY DEF FlagsAgree
    <2>1. CASE g # call[t].fd
      <3>1. /\ kernel'[g] = kernel[g] /\ fds_'[g] = fds_[g] /\ asked'[g] = asked[g]
            /\ (g \in stale' <=> g \in stale) /\ (g \in byIoctl' <=> g \in byIoctl)
        BY <2>1 DEF Shape
      <3>2. Closing(g) => Closing(g)'
        BY <2>1 DEF Shape, Closing
      <3> QED BY <3>1, <3>2, Elsewhere
    <2>2. CASE g = call[t].fd
      BY <2>2 DEF Shape, CallsOwn, ClosedClean, StaleHasCtx, InCall, FlagsAgree, Agree, Closing
    <2> QED BY <2>1, <2>2
  <1> QED BY <1>1, <1>2, <1>3, <1>4, <1>5, <1>6

\* getFdContext makes the context; the thread's descriptor has none.
LEMMA CreateStep ==
  ASSUME IInv, NEW t \in Threads, Create(t) PROVE IInv'
  <1> USE DEF IInv
  <1> DEFINE f == call[t].fd
             k == [open |-> kernel[f].open, socket |-> kernel[f].socket,
                   nonblock |-> kernel[f].socket, owner |-> kernel[f].owner]
  <1>1. /\ f \in Fds /\ kernel[f].open /\ kernel[f].owner = t /\ kernel[f].socket \in BOOLEAN
        /\ ~kernel[f].nonblock /\ ~asked[f] /\ fds_[f] = NoCtx /\ kernel[f] \in Kernel
    BY DEF Create, Shape, CallsOwn, InCall
  <1>2. Context(f) \in FdContext /\ k \in Kernel
    BY <1>1 DEF Context
  <1>3. kernel' = [kernel EXCEPT ![f] = k]
    <2>1. (kernel[f].nonblock \/ kernel[f].socket) = kernel[f].socket
      BY <1>1
    <2>2. kernel' = [kernel EXCEPT ![f].nonblock = kernel[f].socket]
      BY <2>1, Zenon DEF Create
    <2>3. k = [kernel[f] EXCEPT !.nonblock = kernel[f].socket]
      BY ONLY <1>1, SetNonblock
    <2> QED BY <2>2, <2>3
  <1>4. /\ fds_' = [fds_ EXCEPT ![f] = Context(f)]
        /\ call' = [call EXCEPT ![t] = Out]
        /\ UNCHANGED <<asked, byIoctl, stale, held>>
    BY DEF Create
  <1>5. /\ Context(f).isSocket = kernel[f].socket /\ Context(f).sysNonblock = kernel[f].socket
        /\ Context(f).userNonblock = FALSE
    BY DEF Context
  <1>6. k.open /\ k.nonblock = kernel[f].socket /\ k.owner = t
    BY <1>1
  <1> HIDE DEF f, k
  <1>7. Shape'
    BY <1>1, <1>2, <1>3, <1>4 DEF Shape
  <1>8. CallsOwn'
    BY <1>1, <1>3, <1>4, <1>6 DEF Shape, CallsOwn
  <1>9. ClosedClean'
    BY <1>1, <1>3, <1>4, <1>6 DEF Shape, ClosedClean
  <1>10. StaleHasCtx'
    BY <1>1, <1>2, <1>4 DEF Shape, StaleHasCtx
  <1>11. InCall'
    BY <1>1, <1>3, <1>4, <1>6 DEF Shape, CallsOwn, InCall
  <1>12. FlagsAgree'
    <2> SUFFICES ASSUME NEW g \in Fds, kernel'[g].open, g \notin stale', ~Closing(g)' PROVE Agree(g)'
      BY DEF FlagsAgree
    <2>1. CASE g # f
      <3>1. /\ kernel'[g] = kernel[g] /\ fds_'[g] = fds_[g] /\ asked'[g] = asked[g]
            /\ (g \in stale' <=> g \in stale) /\ (g \in byIoctl' <=> g \in byIoctl)
        BY <2>1, <1>3, <1>4 DEF Shape
      <3>2. Closing(g) => Closing(g)'
        BY <2>1, <1>1, <1>4 DEF Shape, Closing, Create
      <3> QED BY <3>1, <3>2, Elsewhere
    <2>2. CASE g = f
      <3>1. kernel'[g] = k /\ fds_'[g] = Context(f) /\ asked'[g] = FALSE
        BY <2>2, <1>1, <1>3, <1>4 DEF Shape
      <3>2. CASE kernel[f].socket
        <4>1. kernel'[g].nonblock /\ fds_'[g].sysNonblock /\ fds_'[g].userNonblock = FALSE
          BY <3>1, <3>2, <1>5, <1>6
        <4>2. HasSocketCtx(g)'
          BY <3>1, <3>2, <1>2, <1>5
        <4> QED BY <4>1, <4>2, <3>1, Zenon DEF Agree
      <3>3. CASE ~kernel[f].socket
        <4>1. kernel[f].socket = FALSE
          BY <3>3, <1>1
        <4>2. kernel'[g].nonblock = FALSE /\ fds_'[g].isSocket = FALSE
          BY <4>1, <3>1, <1>5, <1>6
        <4> QED BY <4>2, <3>1, Zenon DEF Agree, HasSocketCtx
      <3> QED BY <3>2, <3>3
    <2> QED BY <2>1, <2>2
  <1> QED BY <1>7, <1>8, <1>9, <1>10, <1>11, <1>12

\* The system call of a close() with hooks.
LEMMA CloseEndStep ==
  ASSUME IInv, NEW t \in Threads, CloseEnd(t) PROVE IInv'
  <1> USE DEF IInv, CloseEnd, CloseKernel
  <1>1. Shape'
    BY DEF Shape
  <1>2. CallsOwn'
    BY DEF Shape, CallsOwn
  <1>3. ClosedClean'
    BY DEF Shape, CallsOwn, ClosedClean, InCall
  <1>4. StaleHasCtx'
    BY DEF Shape, CallsOwn, StaleHasCtx
  <1>5. InCall'
    BY DEF Shape, CallsOwn, ClosedClean, StaleHasCtx, InCall, FlagsAgree
  <1>6. FlagsAgree'
    <2> SUFFICES ASSUME NEW g \in Fds, kernel'[g].open, g \notin stale', ~Closing(g)' PROVE Agree(g)'
      BY DEF FlagsAgree
    <2>1. CASE g # call[t].fd
      <3>1. /\ kernel'[g] = kernel[g] /\ fds_'[g] = fds_[g] /\ asked'[g] = asked[g]
            /\ (g \in stale' <=> g \in stale) /\ (g \in byIoctl' <=> g \in byIoctl)
        BY <2>1 DEF Shape
      <3>2. Closing(g) => Closing(g)'
        BY <2>1 DEF Shape, Closing
      <3> QED BY <3>1, <3>2, Elsewhere
    <2>2. CASE g = call[t].fd
      BY <2>2 DEF Shape, CallsOwn, ClosedClean, StaleHasCtx, InCall, FlagsAgree, Agree, Closing
    <2> QED BY <2>1, <2>2
  <1> QED BY <1>1, <1>2, <1>3, <1>4, <1>5, <1>6

\* A call that sat in the kernel returns.
LEMMA IoReturnsStep ==
  ASSUME IInv, NEW t \in Threads, IoReturns(t) PROVE IInv'
  <1> USE DEF IInv, IoReturns
  <1>1. Shape'
    BY DEF Shape
  <1>2. CallsOwn'
    BY DEF Shape, CallsOwn
  <1>3. ClosedClean'
    BY DEF Shape, CallsOwn, ClosedClean
  <1>4. StaleHasCtx'
    BY DEF Shape, CallsOwn, StaleHasCtx
  <1>5. InCall'
    BY DEF Shape, CallsOwn, ClosedClean, StaleHasCtx, InCall, FlagsAgree
  <1>6. FlagsAgree'
    <2> SUFFICES ASSUME NEW g \in Fds, kernel'[g].open, g \notin stale', ~Closing(g)' PROVE Agree(g)'
      BY DEF FlagsAgree
    <2>1. CASE g # call[t].fd
      <3>1. /\ kernel'[g] = kernel[g] /\ fds_'[g] = fds_[g] /\ asked'[g] = asked[g]
            /\ (g \in stale' <=> g \in stale) /\ (g \in byIoctl' <=> g \in byIoctl)
        BY <2>1 DEF Shape
      <3>2. Closing(g) => Closing(g)'
        BY <2>1 DEF Shape, Closing
      <3> QED BY <3>1, <3>2, Elsewhere
    <2>2. CASE g = call[t].fd
      BY <2>2 DEF Shape, CallsOwn, ClosedClean, StaleHasCtx, InCall, FlagsAgree, Agree, Closing
    <2> QED BY <2>1, <2>2
  <1> QED BY <1>1, <1>2, <1>3, <1>4, <1>5, <1>6

\* A socket takes a free number, of which only a stale context may be left.
LEMMA OpenSocketStep ==
  ASSUME IInv, NEW t \in Threads, NEW f \in Fds, NEW accept \in BOOLEAN, OpenSocket(t, f, accept) PROVE IInv'
  <1> USE DEF IInv, OpenSocket, Opened
  <1>1. Shape'
    BY DEF Shape
  <1>2. CallsOwn'
    BY DEF Shape, CallsOwn
  <1>3. ClosedClean'
    BY DEF Shape, CallsOwn, ClosedClean
  <1>4. StaleHasCtx'
    BY DEF Shape, CallsOwn, StaleHasCtx
  <1>5. InCall'
    BY DEF Shape, CallsOwn, ClosedClean, StaleHasCtx, InCall, FlagsAgree
  <1>6. FlagsAgree'
    <2> SUFFICES ASSUME NEW g \in Fds, kernel'[g].open, g \notin stale', ~Closing(g)' PROVE Agree(g)'
      BY DEF FlagsAgree
    <2>1. CASE g # f
      <3>1. /\ kernel'[g] = kernel[g] /\ fds_'[g] = fds_[g] /\ asked'[g] = asked[g]
            /\ (g \in stale' <=> g \in stale) /\ (g \in byIoctl' <=> g \in byIoctl)
        BY <2>1 DEF Shape
      <3>2. Closing(g) => Closing(g)'
        BY <2>1 DEF Shape, Closing
      <3> QED BY <3>1, <3>2, Elsewhere
    <2>2. CASE g = f
      <3>1. kernel'[g].nonblock = FALSE /\ asked'[g] = FALSE
        BY <2>2 DEF Shape
      <3>2. fds_'[g] = NoCtx
        BY <2>2 DEF ClosedClean
      <3> QED BY <3>1, <3>2, Zenon DEF Agree, HasSocketCtx
    <2> QED BY <2>1, <2>2
  <1> QED BY <1>1, <1>2, <1>3, <1>4, <1>5, <1>6

\* A descriptor that is no socket takes a free number.
LEMMA OpenFileStep ==
  ASSUME IInv, NEW t \in Threads, NEW f \in Fds, OpenFile(t, f) PROVE IInv'
  <1> USE DEF IInv, OpenFile, Opened
  <1>1. Shape'
    BY DEF Shape
  <1>2. CallsOwn'
    BY DEF Shape, CallsOwn
  <1>3. ClosedClean'
    BY DEF Shape, CallsOwn, ClosedClean
  <1>4. StaleHasCtx'
    BY DEF Shape, CallsOwn, StaleHasCtx
  <1>5. InCall'
    BY DEF Shape, CallsOwn, ClosedClean, StaleHasCtx, InCall, FlagsAgree
  <1>6. FlagsAgree'
    <2> SUFFICES ASSUME NEW g \in Fds, kernel'[g].open, g \notin stale', ~Closing(g)' PROVE Agree(g)'
      BY DEF FlagsAgree
    <2>1. CASE g # f
      <3>1. /\ kernel'[g] = kernel[g] /\ fds_'[g] = fds_[g] /\ asked'[g] = asked[g]
            /\ (g \in stale' <=> g \in stale) /\ (g \in byIoctl' <=> g \in byIoctl)
        BY <2>1 DEF Shape
      <3>2. Closing(g) => Closing(g)'
        BY <2>1 DEF Shape, Closing
      <3> QED BY <3>1, <3>2, Elsewhere
    <2>2. CASE g = f
      <3>1. kernel'[g].nonblock = FALSE /\ asked'[g] = FALSE
        BY <2>2 DEF Shape
      <3>2. fds_'[g] = NoCtx
        BY <2>2 DEF ClosedClean
      <3> QED BY <3>1, <3>2, Zenon DEF Agree, HasSocketCtx
    <2> QED BY <2>1, <2>2
  <1> QED BY <1>1, <1>2, <1>3, <1>4, <1>5, <1>6

\* close() without hooks or without a context.
LEMMA CloseDirectStep ==
  ASSUME IInv, NEW t \in Threads, NEW f \in Fds, CloseDirect(t, f) PROVE IInv'
  <1> USE DEF IInv, CloseDirect, CloseKernel
  <1>1. Shape'
    BY DEF Shape
  <1>2. CallsOwn'
    BY DEF Shape, CallsOwn
  <1>3. ClosedClean'
    BY DEF Shape, CallsOwn, ClosedClean
  <1>4. StaleHasCtx'
    BY DEF Shape, CallsOwn, StaleHasCtx
  <1>5. InCall'
    BY DEF Shape, CallsOwn, ClosedClean, StaleHasCtx, InCall, FlagsAgree
  <1>6. FlagsAgree'
    <2> SUFFICES ASSUME NEW g \in Fds, kernel'[g].open, g \notin stale', ~Closing(g)' PROVE Agree(g)'
      BY DEF FlagsAgree
    <2>1. CASE g # f
      <3>1. /\ kernel'[g] = kernel[g] /\ fds_'[g] = fds_[g] /\ asked'[g] = asked[g]
            /\ (g \in stale' <=> g \in stale) /\ (g \in byIoctl' <=> g \in byIoctl)
        BY <2>1 DEF Shape
      <3>2. Closing(g) => Closing(g)'
        BY <2>1 DEF Shape, Closing
      <3> QED BY <3>1, <3>2, Elsewhere
    <2>2. CASE g = f
      BY <2>2 DEF Shape, CallsOwn, ClosedClean, StaleHasCtx, InCall, FlagsAgree, Agree, Closing
    <2> QED BY <2>1, <2>2
  <1> QED BY <1>1, <1>2, <1>3, <1>4, <1>5, <1>6

\* close() with hooks removes the context first.
LEMMA CloseDelStep ==
  ASSUME IInv, NEW t \in Threads, NEW f \in Fds, CloseDel(t, f) PROVE IInv'
  <1> USE DEF IInv, CloseDel
  <1>1. Shape'
    BY DEF Shape
  <1>2. CallsOwn'
    BY DEF Shape, CallsOwn
  <1>3. ClosedClean'
    BY DEF Shape, CallsOwn, ClosedClean
  <1>4. StaleHasCtx'
    BY DEF Shape, CallsOwn, StaleHasCtx
  <1>5. InCall'
    BY DEF Shape, CallsOwn, ClosedClean, StaleHasCtx, InCall, FlagsAgree
  <1>6. FlagsAgree'
    <2> SUFFICES ASSUME NEW g \in Fds, kernel'[g].open, g \notin stale', ~Closing(g)' PROVE Agree(g)'
      BY DEF FlagsAgree
    <2>1. CASE g # f
      <3>1. /\ kernel'[g] = kernel[g] /\ fds_'[g] = fds_[g] /\ asked'[g] = asked[g]
            /\ (g \in stale' <=> g \in stale) /\ (g \in byIoctl' <=> g \in byIoctl)
        BY <2>1 DEF Shape
      <3>2. Closing(g) => Closing(g)'
        BY <2>1 DEF Shape, Closing
      <3> QED BY <3>1, <3>2, Elsewhere
    <2>2. CASE g = f
      BY <2>2 DEF Shape, CallsOwn, ClosedClean, StaleHasCtx, InCall, FlagsAgree, Agree, Closing
    <2> QED BY <2>1, <2>2
  <1> QED BY <1>1, <1>2, <1>3, <1>4, <1>5, <1>6

\* fcntl(F_SETFL).
LEMMA SetFlStep ==
  ASSUME IInv, NEW t \in Threads, NEW f \in Fds, NEW v \in BOOLEAN, SetFl(t, f, v) PROVE IInv'
  <1> USE DEF IInv, SetFl
  <1>1. Shape'
    <2>1. fds_[f] \in FdContext \cup {NoCtx} /\ kernel[f] \in Kernel
      BY DEF Shape
    <2>2. CASE HasSocketCtx(f)
      <3>1. [fds_[f] EXCEPT !.userNonblock = v] \in FdContext
        BY <2>1, <2>2
      <3>2. [kernel[f] EXCEPT !.nonblock = fds_[f].sysNonblock] \in Kernel
        BY <2>1, <2>2
      <3>3. /\ fds_' = [fds_ EXCEPT ![f] = [fds_[f] EXCEPT !.userNonblock = v]]
            /\ kernel' = [kernel EXCEPT ![f] = [kernel[f] EXCEPT !.nonblock = fds_[f].sysNonblock]]
            /\ asked' = [asked EXCEPT ![f] = v] /\ call' = call
        BY <2>2
      <3> QED BY ONLY <3>1, <3>2, <3>3, Shape, f \in Fds, v \in BOOLEAN DEF Shape
    <2>3. CASE ~HasSocketCtx(f)
      <3>1. [kernel[f] EXCEPT !.nonblock = v] \in Kernel
        BY <2>1
      <3>2. /\ kernel' = [kernel EXCEPT ![f] = [kernel[f] EXCEPT !.nonblock = v]]
            /\ asked' = [asked EXCEPT ![f] = v] /\ call' = call /\ fds_' = fds_
        BY <2>3
      <3> QED BY ONLY <3>1, <3>2, Shape, f \in Fds, v \in BOOLEAN DEF Shape
    <2> QED BY <2>2, <2>3
  <1>2. CallsOwn'
    BY DEF Shape, CallsOwn
  <1>3. ClosedClean'
    BY DEF Shape, CallsOwn, ClosedClean
  <1>4. StaleHasCtx'
    <2>1. stale' = stale /\ (fds_' = fds_ \/ fds_' = [fds_ EXCEPT ![f].userNonblock = v])
      OBVIOUS
    <2>2. fds_' # fds_ => fds_[f] \in FdContext /\ [fds_[f] EXCEPT !.userNonblock = v] \in FdContext
      BY DEF Shape
    <2> QED BY ONLY <2>1, <2>2, Shape, StaleHasCtx, NoCtxAssumption, f \in Fds DEF Shape, StaleHasCtx
  <1>5. InCall'
    BY DEF Shape, CallsOwn, ClosedClean, StaleHasCtx, InCall, FlagsAgree
  <1>6. FlagsAgree'
    <2> SUFFICES ASSUME NEW g \in Fds, kernel'[g].open, g \notin stale', ~Closing(g)' PROVE Agree(g)'
      BY DEF FlagsAgree
    <2>1. CASE g # f
      <3>1. /\ kernel'[g] = kernel[g] /\ fds_'[g] = fds_[g] /\ asked'[g] = asked[g]
            /\ (g \in stale' <=> g \in stale) /\ (g \in byIoctl' <=> g \in byIoctl)
        BY <2>1 DEF Shape
      <3>2. Closing(g) => Closing(g)'
        BY <2>1 DEF Shape, Closing
      <3> QED BY <3>1, <3>2, Elsewhere
    <2>2. CASE g = f
      BY <2>2 DEF Shape, CallsOwn, ClosedClean, StaleHasCtx, InCall, FlagsAgree, Agree, Closing
    <2> QED BY <2>1, <2>2
  <1> QED BY <1>1, <1>2, <1>3, <1>4, <1>5, <1>6

\* ioctl(FIONBIO).
LEMMA IoctlStep ==
  ASSUME IInv, NEW t \in Threads, NEW f \in Fds, NEW v \in BOOLEAN, Ioctl(t, f, v) PROVE IInv'
  <1> USE DEF IInv, Ioctl
  <1>1. Shape'
    <2>1. fds_[f] \in FdContext \cup {NoCtx} /\ kernel[f] \in Kernel
      BY DEF Shape
    <2>2. HasSocketCtx(f) => [fds_[f] EXCEPT !.userNonblock = v] \in FdContext
      BY <2>1
    <2>3. [kernel[f] EXCEPT !.nonblock = v] \in Kernel
      BY <2>1
    <2> QED BY <2>1, <2>2, <2>3 DEF Shape
  <1>2. CallsOwn'
    BY DEF Shape, CallsOwn
  <1>3. ClosedClean'
    BY DEF Shape, CallsOwn, ClosedClean
  <1>4. StaleHasCtx'
    BY DEF Shape, CallsOwn, StaleHasCtx
  <1>5. InCall'
    BY DEF Shape, CallsOwn, ClosedClean, StaleHasCtx, InCall, FlagsAgree
  <1>6. FlagsAgree'
    <2> SUFFICES ASSUME NEW g \in Fds, kernel'[g].open, g \notin stale', ~Closing(g)' PROVE Agree(g)'
      BY DEF FlagsAgree
    <2>1. CASE g # f
      <3>1. /\ kernel'[g] = kernel[g] /\ fds_'[g] = fds_[g] /\ asked'[g] = asked[g]
            /\ (g \in stale' <=> g \in stale) /\ (g \in byIoctl' <=> g \in byIoctl)
        BY <2>1 DEF Shape
      <3>2. Closing(g) => Closing(g)'
        BY <2>1 DEF Shape, Closing
      <3> QED BY <3>1, <3>2, Elsewhere
    <2>2. CASE g = f
      BY <2>2 DEF Shape, CallsOwn, ClosedClean, StaleHasCtx, InCall, FlagsAgree, Agree, Closing
    <2> QED BY <2>1, <2>2
  <1> QED BY <1>1, <1>2, <1>3, <1>4, <1>5, <1>6

\* do_io, or the plain system call.
LEMMA IoStep ==
  ASSUME IInv, NEW t \in Threads, NEW f \in Fds, Io(t, f) PROVE IInv'
  <1> USE DEF IInv, Io, Emulated
  <1>1. Shape'
    BY DEF Shape
  <1>2. CallsOwn'
    BY DEF Shape, CallsOwn
  <1>3. ClosedClean'
    BY DEF Shape, CallsOwn, ClosedClean
  <1>4. StaleHasCtx'
    BY DEF Shape, CallsOwn, StaleHasCtx
  <1>5. InCall'
    BY DEF Shape, CallsOwn, ClosedClean, StaleHasCtx, InCall, FlagsAgree
  <1>6. FlagsAgree'
    <2> SUFFICES ASSUME NEW g \in Fds, kernel'[g].open, g \notin stale', ~Closing(g)' PROVE Agree(g)'
      BY DEF FlagsAgree
    <2>1. CASE g # f
      <3>1. /\ kernel'[g] = kernel[g] /\ fds_'[g] = fds_[g] /\ asked'[g] = asked[g]
            /\ (g \in stale' <=> g \in stale) /\ (g \in byIoctl' <=> g \in byIoctl)
        BY <2>1 DEF Shape
      <3>2. Closing(g) => Closing(g)'
        BY <2>1 DEF Shape, Closing
      <3> QED BY <3>1, <3>2, Elsewhere
    <2>2. CASE g = f
      BY <2>2 DEF Shape, CallsOwn, ClosedClean, StaleHasCtx, InCall, FlagsAgree, Agree, Closing
    <2> QED BY <2>1, <2>2
  <1> QED BY <1>1, <1>2, <1>3, <1>4, <1>5, <1>6

LEMMA IInvInit == Init => IInv
  <1> SUFFICES ASSUME Init PROVE IInv
    OBVIOUS
  <1> USE DEF Init
  <1>1. Shape
    BY DEF Shape
  <1>2. CallsOwn /\ ClosedClean /\ StaleHasCtx /\ InCall
    BY DEF CallsOwn, ClosedClean, StaleHasCtx, InCall
  <1>3. FlagsAgree
    BY DEF FlagsAgree
  <1> QED BY <1>1, <1>2, <1>3 DEF IInv

LEMMA IInvNext == IInv /\ [Next]_vars => IInv'
  <1> SUFFICES ASSUME IInv, [Next]_vars PROVE IInv'
    OBVIOUS
  <1>1. CASE UNCHANGED vars
    BY <1>1 DEF vars, IInv, Shape, CallsOwn, ClosedClean, StaleHasCtx, InCall, FlagsAgree, Agree, Closing
  <1>2. CASE Next
    <2>1. PICK t \in Threads :
            \/ Lookup(t) \/ Create(t) \/ CloseEnd(t) \/ IoReturns(t)
            \/ \E f \in Fds :
                 \/ \E accept \in BOOLEAN : OpenSocket(t, f, accept)
                 \/ OpenFile(t, f)
                 \/ CloseDirect(t, f) \/ CloseDel(t, f)
                 \/ \E v \in BOOLEAN : SetFl(t, f, v) \/ Ioctl(t, f, v)
                 \/ Io(t, f)
      BY <1>2 DEF Next
    <2> QED
      BY ONLY <2>1, IInv, LookupStep, CreateStep, CloseEndStep, IoReturnsStep, OpenSocketStep, OpenFileStep,
         CloseDirectStep, CloseDelStep, SetFlStep, IoctlStep, IoStep
  <1> QED BY <1>1, <1>2

LEMMA IInvAlways == Spec => []IInv
  BY IInvInit, IInvNext, PTL DEF Spec

\* fcntl(F_GETFL) returns what the user of the descriptor last asked for, in every
\* order of opening, closing and reusing numbers by threads with and without
\* hooks, unless a close() without hooks left the context of the number behind.
THEOREM UserSeesOwnFlags == Spec => []UserViewExact
  <1>1. IInv => UserViewExact
    BY DEF IInv, Shape, FlagsAgree, Agree, Closing, UserViewExact, Settled, GetFl
  <1> QED BY <1>1, IInvAlways, PTL

\* A thread with hooks does not sit in the kernel for a socket of the library,
\* unless the user has reset FIONBIO with ioctl(), which goes past the context.
THEOREM LibrarySocketsDoNotBlock == Spec => []HookedNeverBlocks
  <1>1. IInv => HookedNeverBlocks
    <2> SUFFICES ASSUME IInv, NEW t \in Hooked, At(t, "kernel"),
                        HasSocketCtx(call[t].fd), call[t].fd \notin stale
                 PROVE  call[t].fd \in byIoctl
      BY DEF HookedNeverBlocks
    <2>1. t \in Threads /\ call[t].fd \in Fds /\ Owns(t, call[t].fd) /\ ~kernel[call[t].fd].nonblock
      BY DEF IInv, CallsOwn, InCall
    <2>2. ~Closing(call[t].fd)
      BY <2>1 DEF IInv, CallsOwn, Closing
    <2> QED BY <2>1, <2>2 DEF IInv, FlagsAgree, Agree
  <1> QED BY <1>1, IInvAlways, PTL
=============================================================================
