----------------------------- MODULE ByteQueue -----------------------------
(***************************************************************************)
(* What a ByteArray promises to its users: once it has been cleared it is  *)
(* a queue of bytes.  What is written is read back, or given to a socket,  *)
(* in the order of the writes and once, and every operation stays inside   *)
(* of its memory.  Nothing is promised of an array that was never cleared. *)
(***************************************************************************)
EXTENDS Naturals, Sequences

CONSTANTS MaxBytes, MaxOp

VARIABLES
  known,     \* clear() has been called
  queue,     \* the bytes in it
  written,   \* how many bytes were written: the bytes are numbered
  out,       \* the bytes that a reader or the socket got last
  crash      \* an access outside of the memory has happened

qvars == <<known, queue, written, out, crash>>

Init == ~known /\ queue = << >> /\ written = 0 /\ out = << >> /\ ~crash

Clear == known' = TRUE /\ queue' = << >> /\ UNCHANGED <<written, out, crash>>

Put(n) ==
  /\ known /\ written + n <= MaxBytes
  /\ queue' = queue \o [i \in 1 .. n |-> written + i]
  /\ written' = written + n
  /\ UNCHANGED <<known, out, crash>>

\* n bytes, or all of them if there are fewer.
Take(n) == SubSeq(queue, 1, IF n > Len(queue) THEN Len(queue) ELSE n)
Rest(n) == SubSeq(queue, (IF n > Len(queue) THEN Len(queue) ELSE n) + 1, Len(queue))

Get(n) ==
  /\ known
  /\ out' = Take(n) /\ queue' = Rest(n)
  /\ UNCHANGED <<known, written, crash>>

\* Bytes for a socket are taken off the queue; the socket may keep fewer.
Send(n) ==
  /\ known
  /\ queue' = Rest(n)
  /\ \E k \in 0 .. Len(Take(n)) : out' = SubSeq(Take(n), 1, k)
  /\ UNCHANGED <<known, written, crash>>

\* Before the first clear() anything may happen.
Unknown == ~known /\ ~known' /\ queue' = queue

Next ==
  \/ Clear
  \/ \E n \in 0 .. MaxOp : Put(n) \/ Get(n) \/ Send(n)
  \/ Unknown

Spec == Init /\ [][Next]_qvars
=============================================================================
