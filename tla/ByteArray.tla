----------------------------- MODULE ByteArray -----------------------------
(***************************************************************************)
(* ByteArray, and the stream operations that move its bytes to and from a  *)
(* socket: SockStream::read and write, and the loops readFixSize and       *)
(* writeFixSize of Stream.                                                 *)
(*                                                                         *)
(* The constructor sizes the buffer and leaves both indices unset.  Bytes  *)
(* that a user writes are the numbers 1, 2, ...; every other byte is 0.    *)
(***************************************************************************)
EXTENDS Naturals, Sequences

CONSTANTS
  BaseSize,       \* base_size of the constructor
  kPreHeadSize,
  MaxBytes,       \* bytes a user writes
  MaxOp           \* bytes of one operation

ASSUME SizesAssumption ==
  /\ BaseSize \in Nat /\ kPreHeadSize \in Nat
  /\ MaxBytes \in Nat /\ MaxOp \in Nat

VARIABLES
  bytes,     \* the ByteArray
  cleared,   \* clear() has been called
  loop,      \* the loop of readFixSize or writeFixSize, and how much is left
  written, out, crash   \* as in ByteQueue

vars == <<bytes, cleared, loop, written, out, crash>>

ReadableSize(b)  == b.mWriteIndex - b.mReadIndex
WriteableSize(b) == Len(b.mBuffer) - b.mWriteIndex
Readable(b) == SubSeq(b.mBuffer, b.mReadIndex + 1, b.mWriteIndex)

\* The indices make sense.
InBounds(b) == b.mReadIndex <= b.mWriteIndex /\ b.mWriteIndex <= Len(b.mBuffer)

Init ==
  /\ \E r, w \in 0 .. BaseSize + 1 :
       bytes = [mBuffer |-> [i \in 1 .. BaseSize |-> 0], mReadIndex |-> r, mWriteIndex |-> w]
  /\ cleared = FALSE /\ crash = FALSE
  /\ loop = [op |-> "none", left |-> 0]
  /\ written = 0 /\ out = << >>

-----------------------------------------------------------------------------

Resize(s, n) == [i \in 1 .. n |-> IF i <= Len(s) THEN s[i] ELSE 0]

\* A faulty variant: the room in front of the readable bytes is not set aside.
MakeSpaceNoHead(b, size) ==
  IF b.mReadIndex + WriteableSize(b) < size
    THEN [b EXCEPT !.mBuffer = Resize(@, b.mWriteIndex + size)]
    ELSE [mBuffer |-> [i \in 1 .. Len(b.mBuffer) |->
                         IF i > kPreHeadSize /\ i <= kPreHeadSize + ReadableSize(b)
                           THEN b.mBuffer[i - kPreHeadSize + b.mReadIndex] ELSE b.mBuffer[i]],
          mReadIndex |-> kPreHeadSize,
          mWriteIndex |-> kPreHeadSize + ReadableSize(b)]

\* A faulty variant: only the indices move, the bytes stay.
MakeSpaceKeepsBytes(b, size) ==
  IF b.mReadIndex + WriteableSize(b) < size + kPreHeadSize
    THEN [b EXCEPT !.mBuffer = Resize(@, Len(@) + size)]
    ELSE [b EXCEPT !.mReadIndex = kPreHeadSize, !.mWriteIndex = kPreHeadSize + ReadableSize(b)]

\* resize() may make the buffer smaller; otherwise the readable bytes move to
\* kPreHeadSize, forwards or backwards.
MakeSpace(b, size) ==
  IF b.mReadIndex + WriteableSize(b) < size + kPreHeadSize
    THEN [b EXCEPT !.mBuffer = Resize(@, b.mWriteIndex + size)]
    ELSE [mBuffer |-> [i \in 1 .. Len(b.mBuffer) |->
                         IF i > kPreHeadSize /\ i <= kPreHeadSize + ReadableSize(b)
                           THEN b.mBuffer[i - kPreHeadSize + b.mReadIndex] ELSE b.mBuffer[i]],
          mReadIndex |-> kPreHeadSize,
          mWriteIndex |-> kPreHeadSize + ReadableSize(b)]

\* Bytes are stored at mWriteIndex, which stays where it is.
Store(b, new) ==
  [b EXCEPT !.mBuffer = [i \in 1 .. Len(b.mBuffer) |->
     IF i > b.mWriteIndex /\ i <= b.mWriteIndex + Len(new)
       THEN new[i - b.mWriteIndex] ELSE b.mBuffer[i]]]

Idle == loop.op = "none" /\ ~crash

clear ==
  /\ Idle
  /\ bytes' = [mBuffer |-> << >>, mReadIndex |-> 0, mWriteIndex |-> 0]
  /\ cleared' = TRUE
  /\ UNCHANGED <<loop, written, out, crash>>

\* An operation on indices that make no sense runs out of the buffer.
Undefined ==
  /\ ~crash /\ ~InBounds(bytes)
  /\ crash' = TRUE
  /\ UNCHANGED <<bytes, cleared, loop, written, out>>

Write(size) ==
  /\ Idle /\ InBounds(bytes) /\ written + size <= MaxBytes
  /\ LET b == IF WriteableSize(bytes) < size THEN MakeSpace(bytes, size) ELSE bytes IN
       /\ bytes' = [Store(b, [i \in 1 .. size |-> written + i]) EXCEPT !.mWriteIndex = @ + size]
       /\ crash' = (size > WriteableSize(b))
  /\ written' = written + size
  /\ UNCHANGED <<cleared, loop, out>>

\* realRead, realSize
Real(b, size) == IF size > ReadableSize(b) THEN ReadableSize(b) ELSE size

\* Read, and toString, which reads all there is.
Read(size) ==
  /\ Idle /\ InBounds(bytes)
  /\ out' = SubSeq(bytes.mBuffer, bytes.mReadIndex + 1, bytes.mReadIndex + Real(bytes, size))
  /\ bytes' = [bytes EXCEPT !.mReadIndex = @ + Real(bytes, size)]
  /\ UNCHANGED <<cleared, loop, written, crash>>

-----------------------------------------------------------------------------
(* The stream. *)

FixSize(op, length) ==
  /\ Idle /\ InBounds(bytes) /\ length > 0
  /\ loop' = [op |-> op, left |-> length]
  /\ UNCHANGED <<bytes, cleared, written, out, crash>>

\* left -= len, or the return of a len that is not positive.
Moved(k) ==
  IF k = 0 \/ k = loop.left THEN [op |-> "none", left |-> 0] ELSE [loop EXCEPT !.left = @ - k]

\* write(bytearray, left): GetReadBuffer takes the bytes off the array, send()
\* keeps k of them.
WriteStream ==
  /\ loop.op = "write" /\ ~crash
  /\ LET n == Real(bytes, loop.left) IN
       \E k \in 0 .. n :
         /\ out' = SubSeq(bytes.mBuffer, bytes.mReadIndex + 1, bytes.mReadIndex + k)
         /\ bytes' = [bytes EXCEPT !.mReadIndex = @ + n]
         /\ loop' = Moved(k)
  /\ UNCHANGED <<cleared, written, crash>>

\* read(bytearray, left): recv() fills k bytes behind mWriteIndex, and nobody
\* moves mWriteIndex.
ReadStream ==
  /\ loop.op = "read" /\ ~crash
  /\ LET b == MakeSpace(bytes, loop.left) IN
       \E k \in 0 .. loop.left :
         /\ bytes' = Store(b, [i \in 1 .. k |-> 0])
         /\ crash' = (loop.left > WriteableSize(b))
         /\ loop' = Moved(k)
  /\ UNCHANGED <<cleared, written, out>>

\* isConnected() is false: -1 ends the loop before a buffer is taken.
NotConnected ==
  /\ loop.op \in {"read", "write"} /\ ~crash
  /\ loop' = Moved(0)
  /\ UNCHANGED <<bytes, cleared, written, out, crash>>

Next ==
  \/ clear
  \/ Undefined
  \/ \E size \in 0 .. MaxOp : Write(size) \/ Read(size)
  \/ \E op \in {"read", "write"}, length \in 1 .. MaxOp : FixSize(op, length)
  \/ WriteStream
  \/ ReadStream
  \/ NotConnected

Spec == Init /\ [][Next]_vars

-----------------------------------------------------------------------------

\* From clear() on the indices lie inside of the buffer, and no byte is written
\* behind its end: MakeSpace always leaves the room that it was asked for.
StaysInBounds == cleared => InBounds(bytes) /\ ~crash

Abstract == INSTANCE ByteQueue WITH
  known <- cleared, queue <- IF cleared THEN Readable(bytes) ELSE << >>

\* A ByteArray that was cleared is a queue of bytes, however MakeSpace has moved,
\* grown or shrunk the buffer, and a read from a socket does not change it.
IsQueue == Abstract!Spec
=============================================================================
