----------------------------- MODULE FdManager -----------------------------
(***************************************************************************)
(* FdContextManager and the hooked calls that keep it in step with the     *)
(* kernel: socket, accept, close, fcntl, ioctl and the ones that go through*)
(* do_io.  Every thread has its own thread_hook_enable, the table and the  *)
(* numbers of the descriptors are shared.  A descriptor is used by the     *)
(* thread that opened it; the kernel gives its number to anybody as soon as*)
(* it is closed.                                                           *)
(***************************************************************************)
EXTENDS Naturals

CONSTANTS
  Threads,
  Hooked,     \* the threads that have set thread_hook_enable
  Fds,        \* descriptor numbers, all of them below the 64 slots of fds_
  NoCtx

FdContext == [isSocket : BOOLEAN, sysNonblock : BOOLEAN, userNonblock : BOOLEAN]

ASSUME ThreadsAssumption == Hooked \subseteq Threads /\ Fds \subseteq Nat
ASSUME NoCtxAssumption == NoCtx \notin FdContext

VARIABLES
  fds_,       \* the FdContext of every number, or NoCtx
  kernel,     \* what the kernel has for every number
  call,       \* the call that each thread is in, and its descriptor
  asked,      \* O_NONBLOCK as the user of the descriptor last asked for it
  byIoctl,    \* numbers whose user last asked for blocking calls with ioctl()
  stale,      \* numbers whose context a close() without hooks has left behind
  held        \* numbers on which do_io has suspended a fiber

vars == <<fds_, kernel, call, asked, byIoctl, stale, held>>

Closed == [open |-> FALSE, socket |-> FALSE, nonblock |-> FALSE, owner |-> "nobody"]
Out == [at |-> "none", fd |-> 0]

Init ==
  /\ fds_ = [f \in Fds |-> NoCtx]
  /\ kernel = [f \in Fds |-> Closed]
  /\ call = [t \in Threads |-> Out]
  /\ asked = [f \in Fds |-> FALSE]
  /\ byIoctl = {} /\ stale = {} /\ held = {}

Free(t) == call[t] = Out
Owns(t, f) == kernel[f].open /\ kernel[f].owner = t
At(t, where) == call[t].at = where

-----------------------------------------------------------------------------
(* Opening. *)

\* The system call: the lowest number that is free.
Opened(t, f, socket) ==
  /\ ~kernel[f].open /\ \A g \in Fds : g < f => kernel[g].open
  /\ kernel' = [kernel EXCEPT ![f] = [open |-> TRUE, socket |-> socket, nonblock |-> FALSE, owner |-> t]]
  /\ asked' = [asked EXCEPT ![f] = FALSE]

\* socket_f or accept_f has returned; a thread with hooks, and every accept(),
\* goes on to getFdContext(fd, true).
OpenSocket(t, f, accept) ==
  /\ Free(t) /\ Opened(t, f, TRUE)
  /\ call' = [call EXCEPT ![t] = IF accept \/ t \in Hooked THEN [at |-> "lookup", fd |-> f] ELSE Out]
  /\ UNCHANGED <<fds_, byIoctl, stale, held>>

\* open(), pipe() and the like are not hooked.
OpenFile(t, f) ==
  /\ Free(t) /\ Opened(t, f, FALSE)
  /\ UNCHANGED <<fds_, call, byIoctl, stale, held>>

\* getFdContext with the read lock: a context that is there is taken.
Lookup(t) ==
  /\ At(t, "lookup")
  /\ call' = [call EXCEPT ![t] = IF fds_[call[t].fd] # NoCtx THEN Out ELSE [@ EXCEPT !.at = "create"]]
  /\ UNCHANGED <<fds_, kernel, asked, byIoctl, stale, held>>

\* FdContext::init: a socket is made non-blocking, whatever it was.
Context(f) == [isSocket |-> kernel[f].socket, sysNonblock |-> kernel[f].socket, userNonblock |-> FALSE]

\* getFdContext with the write lock.
Create(t) ==
  /\ At(t, "create")
  /\ LET f == call[t].fd IN
       /\ fds_' = [fds_ EXCEPT ![f] = Context(f)]
       /\ kernel' = [kernel EXCEPT ![f].nonblock = @ \/ kernel[f].socket]
  /\ call' = [call EXCEPT ![t] = Out]
  /\ UNCHANGED <<asked, byIoctl, stale, held>>

-----------------------------------------------------------------------------
(* Closing. *)

CloseKernel(f) == kernel' = [kernel EXCEPT ![f] = Closed]

\* close(): without hooks, or for a descriptor without a context, only the
\* system call.
CloseDirect(t, f) ==
  /\ Free(t) /\ Owns(t, f)
  /\ t \notin Hooked \/ fds_[f] = NoCtx
  /\ CloseKernel(f)
  /\ stale' = IF fds_[f] # NoCtx THEN stale \cup {f} ELSE stale
  /\ byIoctl' = byIoctl \ {f} /\ held' = held \ {f}
  /\ UNCHANGED <<fds_, call, asked>>

\* With hooks: delFdContext, then the system call.  (CancelAll
\* only resets flags of the IOManager.)
CloseDel(t, f) ==
  /\ Free(t) /\ Owns(t, f)
  /\ t \in Hooked /\ fds_[f] # NoCtx
  /\ fds_' = [fds_ EXCEPT ![f] = NoCtx]
  /\ stale' = stale \ {f}
  /\ call' = [call EXCEPT ![t] = [at |-> "close", fd |-> f]]
  /\ UNCHANGED <<kernel, asked, byIoctl, held>>

CloseEnd(t) ==
  /\ At(t, "close")
  /\ CloseKernel(call[t].fd)
  /\ byIoctl' = byIoctl \ {call[t].fd} /\ held' = held \ {call[t].fd}
  /\ call' = [call EXCEPT ![t] = Out]
  /\ UNCHANGED <<fds_, asked, stale>>

-----------------------------------------------------------------------------
(* Flags. *)

HasSocketCtx(f) == fds_[f] # NoCtx /\ fds_[f].isSocket

\* A faulty variant: the flags go to the kernel as the user gave them.
SetFlPassesOn(t, f, v) ==
  /\ Free(t) /\ Owns(t, f)
  /\ asked' = [asked EXCEPT ![f] = v]
  /\ byIoctl' = byIoctl \ {f}
  /\ fds_' = IF HasSocketCtx(f) THEN [fds_ EXCEPT ![f].userNonblock = v] ELSE fds_
  /\ kernel' = [kernel EXCEPT ![f].nonblock = v]
  /\ UNCHANGED <<call, stale, held>>

\* fcntl(fd, F_SETFL, v): the context keeps what the user wants, the kernel what
\* the library needs.
SetFl(t, f, v) ==
  /\ Free(t) /\ Owns(t, f)
  /\ asked' = [asked EXCEPT ![f] = v]
  /\ byIoctl' = byIoctl \ {f}
  /\ IF HasSocketCtx(f)
       THEN /\ fds_' = [fds_ EXCEPT ![f].userNonblock = v]
            /\ kernel' = [kernel EXCEPT ![f].nonblock = fds_[f].sysNonblock]
       ELSE /\ kernel' = [kernel EXCEPT ![f].nonblock = v]
            /\ UNCHANGED fds_
  /\ UNCHANGED <<call, stale, held>>

\* What fcntl(fd, F_GETFL) returns.
GetFl(f) == IF HasSocketCtx(f) THEN fds_[f].userNonblock ELSE kernel[f].nonblock

\* A faulty variant: the context is not told.
IoctlForgets(t, f, v) ==
  /\ Free(t) /\ Owns(t, f)
  /\ asked' = [asked EXCEPT ![f] = v]
  /\ byIoctl' = IF v THEN byIoctl \ {f} ELSE byIoctl \cup {f}
  /\ kernel' = [kernel EXCEPT ![f].nonblock = v]
  /\ UNCHANGED <<fds_, call, stale, held>>

\* ioctl(fd, FIONBIO, v) passes v on to the kernel in any case.
Ioctl(t, f, v) ==
  /\ Free(t) /\ Owns(t, f)
  /\ asked' = [asked EXCEPT ![f] = v]
  /\ byIoctl' = IF v THEN byIoctl \ {f} ELSE byIoctl \cup {f}
  /\ fds_' = IF HasSocketCtx(f) THEN [fds_ EXCEPT ![f].userNonblock = v] ELSE fds_
  /\ kernel' = [kernel EXCEPT ![f].nonblock = v]
  /\ UNCHANGED <<call, stale, held>>

-----------------------------------------------------------------------------
(* do_io. *)

\* Whether do_io deals with the call itself, or only makes it.
Emulated(t, f) == t \in Hooked /\ HasSocketCtx(f) /\ ~fds_[f].userNonblock

\* A call that the kernel cannot serve at once (one that it can returns): with
\* O_NONBLOCK it fails, and do_io registers the event with a null callback and
\* suspends the fiber for good; without, the thread sits in the kernel.
Io(t, f) ==
  /\ Free(t) /\ Owns(t, f)
  /\ IF kernel[f].nonblock
       THEN held' = (IF Emulated(t, f) THEN held \cup {f} ELSE held) /\ UNCHANGED call
       ELSE call' = [call EXCEPT ![t] = [at |-> "kernel", fd |-> f]] /\ UNCHANGED held
  /\ UNCHANGED <<fds_, kernel, asked, byIoctl, stale>>

\* The kernel can serve the call.
IoReturns(t) ==
  /\ At(t, "kernel")
  /\ call' = [call EXCEPT ![t] = Out]
  /\ UNCHANGED <<fds_, kernel, asked, byIoctl, stale, held>>

-----------------------------------------------------------------------------

Next ==
  \E t \in Threads :
    \/ Lookup(t) \/ Create(t) \/ CloseEnd(t) \/ IoReturns(t)
    \/ \E f \in Fds :
         \/ \E accept \in BOOLEAN : OpenSocket(t, f, accept)
         \/ OpenFile(t, f)
         \/ CloseDirect(t, f) \/ CloseDel(t, f)
         \/ \E v \in BOOLEAN : SetFl(t, f, v) \/ Ioctl(t, f, v)
         \/ Io(t, f)

Spec == Init /\ [][Next]_vars

-----------------------------------------------------------------------------

\* Nobody is opening or closing the descriptor.
Settled(f) == kernel[f].open /\ \A t \in Threads : call[t].fd = f => call[t].at \in {"none", "kernel"}

\* F_GETFL tells the user of a descriptor what the user last asked for, although
\* the library makes sockets non-blocking behind its back and numbers are
\* reused: only a context that a close() without hooks left behind spoils it.
UserViewExact == \A f \in Fds : Settled(f) /\ f \notin stale => GetFl(f) = asked[f]

\* A thread with hooks that uses a socket of the library is never stopped by the
\* kernel, unless the user of the socket has reset FIONBIO with ioctl().
HookedNeverBlocks ==
  \A t \in Hooked : At(t, "kernel") /\ HasSocketCtx(call[t].fd) /\ call[t].fd \notin stale
     => call[t].fd \in byIoctl
=============================================================================
