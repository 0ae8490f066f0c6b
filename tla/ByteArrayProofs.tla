-------------------------- MODULE ByteArrayProofs --------------------------
(***************************************************************************)
(* For every size of the buffer, of the head and of the operations, a      *)
(* ByteArray that was cleared stays inside of its memory.                  *)
(***************************************************************************)
EXTENDS ByteArray, SequenceTheorems, TLAPS

Bytes == [mBuffer : Seq(Nat), mReadIndex : Nat, mWriteIndex : Nat]

\* What every step keeps: a stream operation starts with indices that make
\* sense, cleared or not, so that its next call finds them so too.
Inv ==
  /\ bytes \in Bytes
  /\ loop \in [op : {"none", "read", "write"}, left : 0 .. MaxOp]
  /\ written \in Nat /\ crash \in BOOLEAN
  /\ cleared => InBounds(bytes) /\ ~crash
  /\ loop.op # "none" => InBounds(bytes)

\* A sequence given by a function has the length of its domain.
LEMMA Tabulated ==
  ASSUME NEW n \in Nat, NEW s \in [1 .. n -> Nat]
  PROVE  s \in Seq(Nat) /\ Len(s) = n
  <1>1. s \in Seq(Nat) BY IsASeq
  <1>2. DOMAIN s = 1 .. n /\ DOMAIN s = 1 .. Len(s) /\ Len(s) \in Nat
    <2>1. DOMAIN s = 1 .. n OBVIOUS
    <2>2. DOMAIN s = 1 .. Len(s) /\ Len(s) \in Nat BY <1>1, LenProperties
    <2> QED BY <2>1, <2>2
  <1>3. \A m \in Nat : 1 .. n = 1 .. m => m = n
    <2> TAKE m \in Nat
    <2> HAVE 1 .. n = 1 .. m
    <2>1. CASE n = 0 /\ m > 0
      <3>1. 1 \in 1 .. m /\ 1 \notin 1 .. n BY <2>1
      <3> QED BY <3>1
    <2>2. CASE n > 0 /\ m = 0
      <3>1. 1 \in 1 .. n /\ 1 \notin 1 .. m BY <2>2
      <3> QED BY <3>1
    <2>3. CASE n > 0 /\ m > 0
      <3>1. n \in 1 .. n /\ m \in 1 .. m BY <2>3
      <3>2. n \in 1 .. m /\ m \in 1 .. n BY <3>1
      <3> QED BY <3>2
    <2> QED BY <2>1, <2>2, <2>3
  <1> QED BY <1>1, <1>2, <1>3

\* resize() gives the length that was asked for.
LEMMA Resized ==
  ASSUME NEW s \in Seq(Nat), NEW n \in Nat
  PROVE  Resize(s, n) \in Seq(Nat) /\ Len(Resize(s, n)) = n
  <1>1. \A i \in 1 .. Len(s) : s[i] \in Nat BY ElementOfSeq
  <1>2. Len(s) \in Nat BY LenProperties
  <1>3. Resize(s, n) \in [1 .. n -> Nat] BY <1>1, <1>2 DEF Resize
  <1> QED BY <1>3, Tabulated

\* MakeSpace leaves the indices in bounds, and the room that was asked for.
LEMMA SpaceIsMade ==
  ASSUME NEW b \in Bytes, InBounds(b), NEW size \in Nat
  PROVE  /\ MakeSpace(b, size) \in Bytes
         /\ InBounds(MakeSpace(b, size))
         /\ size <= WriteableSize(MakeSpace(b, size))
  <1> DEFINE r == b.mReadIndex
             w == b.mWriteIndex
             s == b.mBuffer
             m == MakeSpace(b, size)
  <1>1. /\ s \in Seq(Nat) /\ r \in Nat /\ w \in Nat /\ Len(s) \in Nat /\ kPreHeadSize \in Nat
        /\ r <= w /\ w <= Len(s)
        /\ b = [mBuffer |-> s, mReadIndex |-> r, mWriteIndex |-> w]
    BY SizesAssumption, LenProperties DEF Bytes, InBounds
  <1>2. CASE r + WriteableSize(b) < size + kPreHeadSize
    <2>1. m = [mBuffer |-> Resize(s, w + size), mReadIndex |-> r, mWriteIndex |-> w]
      BY <1>1, <1>2 DEF MakeSpace
    <2>2. Resize(s, w + size) \in Seq(Nat) /\ Len(Resize(s, w + size)) = w + size
      <3>1. w + size \in Nat BY <1>1
      <3> HIDE DEF s, w
      <3> QED BY <1>1, <3>1, Resized
    <2> QED BY <1>1, <2>1, <2>2 DEF Bytes, InBounds, WriteableSize
  <1>3. CASE ~(r + WriteableSize(b) < size + kPreHeadSize)
    <2> DEFINE t == [i \in 1 .. Len(s) |->
                       IF i > kPreHeadSize /\ i <= kPreHeadSize + (w - r)
                         THEN s[i - kPreHeadSize + r] ELSE s[i]]
    <2>1. m = [mBuffer |-> t, mReadIndex |-> kPreHeadSize, mWriteIndex |-> kPreHeadSize + (w - r)]
      BY <1>1, <1>3 DEF MakeSpace, ReadableSize
    <2>2. \A i \in 1 .. Len(s) : s[i] \in Nat BY <1>1, ElementOfSeq
    <2>3. t \in [1 .. Len(s) -> Nat]
      <3> HIDE DEF s, r, w
      <3>1. \A i \in 1 .. Len(s) : i > kPreHeadSize /\ i <= kPreHeadSize + (w - r)
              => i - kPreHeadSize + r \in 1 .. Len(s)
        BY ONLY <1>1
      <3> QED BY ONLY <2>2, <3>1
    <2>4. t \in Seq(Nat) /\ Len(t) = Len(s) BY <1>1, <2>3, Tabulated
    <2>5. size + kPreHeadSize <= r + (Len(s) - w) BY <1>1, <1>3 DEF WriteableSize
    <2> HIDE DEF t, m
    <2>6. m \in Bytes BY <1>1, <2>1, <2>4 DEF Bytes
    <2> QED BY <1>1, <2>1, <2>4, <2>5, <2>6 DEF InBounds, WriteableSize, m
  <1> QED BY <1>2, <1>3

\* Storing bytes changes neither the length of the buffer nor the indices.
LEMMA Stored ==
  ASSUME NEW b \in Bytes, NEW n \in Nat, NEW new \in [1 .. n -> Nat]
  PROVE  /\ Store(b, new) \in Bytes
         /\ Len(Store(b, new).mBuffer) = Len(b.mBuffer)
         /\ Store(b, new).mReadIndex = b.mReadIndex
         /\ Store(b, new).mWriteIndex = b.mWriteIndex
  <1> DEFINE s == b.mBuffer
             w == b.mWriteIndex
             t == [i \in 1 .. Len(s) |->
                     IF i > w /\ i <= w + Len(new) THEN new[i - w] ELSE s[i]]
  <1>1. /\ s \in Seq(Nat) /\ w \in Nat /\ Len(s) \in Nat
        /\ b = [mBuffer |-> s, mReadIndex |-> b.mReadIndex, mWriteIndex |-> w]
    BY LenProperties DEF Bytes
  <1>2. \A i \in 1 .. Len(s) : s[i] \in Nat BY <1>1, ElementOfSeq
  <1>3. Len(new) = n BY Tabulated
  <1>4. \A i \in 1 .. n : new[i] \in Nat OBVIOUS
  <1>5. t \in [1 .. Len(s) -> Nat] BY <1>1, <1>2, <1>3, <1>4
  <1>6. t \in Seq(Nat) /\ Len(t) = Len(s) BY <1>1, <1>5, Tabulated
  <1>7. Store(b, new) = [b EXCEPT !.mBuffer = t] BY DEF Store
  <1> HIDE DEF t
  <1> QED BY <1>1, <1>6, <1>7 DEF Bytes

\* How much of a loop is left stays a number.
LEMMA MovedType ==
  ASSUME loop \in [op : {"none", "read", "write"}, left : 0 .. MaxOp],
         NEW k \in Nat, k <= loop.left
  PROVE  Moved(k) \in [op : {"none", "read", "write"}, left : 0 .. MaxOp]
  BY SizesAssumption DEF Moved

\* The constructor.
LEMMA InitInv == Init => Inv
  <1> SUFFICES ASSUME Init PROVE Inv OBVIOUS
  <1>1. PICK r \in 0 .. BaseSize + 1, w \in 0 .. BaseSize + 1 :
          bytes = [mBuffer |-> [i \in 1 .. BaseSize |-> 0], mReadIndex |-> r, mWriteIndex |-> w]
    BY DEF Init
  <1> DEFINE z == [i \in 1 .. BaseSize |-> 0]
  <1>2. BaseSize \in Nat /\ z \in [1 .. BaseSize -> Nat] BY SizesAssumption
  <1>3. z \in Seq(Nat) BY <1>2, Tabulated
  <1> HIDE DEF z
  <1>4. r \in Nat /\ w \in Nat BY <1>2
  <1>5. bytes \in Bytes BY <1>1, <1>3, <1>4 DEF Bytes, z
  <1>6. loop \in [op : {"none", "read", "write"}, left : 0 .. MaxOp]
    BY SizesAssumption DEF Init
  <1>7. written \in Nat /\ crash = FALSE /\ cleared = FALSE /\ loop.op = "none" BY DEF Init
  <1> QED BY ONLY <1>5, <1>6, <1>7 DEF Inv

\* Each operation, and each call of a stream's loop, keeps the invariant.
LEMMA NextInv == Inv /\ [Next]_vars => Inv'
  <1> SUFFICES ASSUME Inv, [Next]_vars PROVE Inv' OBVIOUS
  <1> DEFINE Loops == [op : {"none", "read", "write"}, left : 0 .. MaxOp]
  <1>0. /\ bytes \in Bytes /\ loop \in Loops /\ written \in Nat
        /\ bytes.mReadIndex \in Nat /\ bytes.mWriteIndex \in Nat
        /\ bytes.mBuffer \in Seq(Nat) /\ Len(bytes.mBuffer) \in Nat
    BY LenProperties DEF Inv, Bytes
  <1>a. MaxOp \in Nat /\ loop.left \in Nat /\ crash \in BOOLEAN BY <1>0, SizesAssumption DEF Inv
  <1>1. CASE clear
    <2>1. << >> \in Seq(Nat) /\ Len(<< >>) = 0 BY EmptySeq
    <2> QED BY <1>0, <1>a, <1>1, <2>1 DEF clear, Idle, Inv, Bytes, InBounds
  <1>2. CASE Undefined
    BY <1>2 DEF Undefined, Inv, InBounds, Bytes
  <1>3. ASSUME NEW size \in 0 .. MaxOp, Write(size) PROVE Inv'
    <2> DEFINE b == IF WriteableSize(bytes) < size THEN MakeSpace(bytes, size) ELSE bytes
               new == [i \in 1 .. size |-> written + i]
               t == Store(b, new)
    <2>1. /\ InBounds(bytes) /\ loop.op = "none" /\ ~crash
          /\ bytes' = [t EXCEPT !.mWriteIndex = @ + size]
          /\ crash' = (size > WriteableSize(b))
          /\ written' = written + size
          /\ UNCHANGED <<cleared, loop>>
      BY <1>3 DEF Write, Idle
    <2>2. size \in Nat BY SizesAssumption
    <2>3. b \in Bytes /\ InBounds(b) /\ size <= WriteableSize(b)
      <3>1. CASE WriteableSize(bytes) < size BY <1>0, <2>1, <2>2, <3>1, SpaceIsMade
      <3>2. CASE ~(WriteableSize(bytes) < size) BY <1>0, <2>1, <2>2, <3>2 DEF WriteableSize
      <3> QED BY <3>1, <3>2
    <2>4. new \in [1 .. size -> Nat] BY <1>0, <2>2
    <2> HIDE DEF b, new
    <2>5. /\ t \in Bytes /\ Len(t.mBuffer) = Len(b.mBuffer)
          /\ t.mReadIndex = b.mReadIndex /\ t.mWriteIndex = b.mWriteIndex
      BY <2>2, <2>3, <2>4, Stored
    <2> HIDE DEF t
    <2>6. /\ bytes' \in Bytes /\ bytes'.mBuffer = t.mBuffer
          /\ bytes'.mReadIndex = t.mReadIndex /\ bytes'.mWriteIndex = t.mWriteIndex + size
      <3>1. t = [mBuffer |-> t.mBuffer, mReadIndex |-> t.mReadIndex, mWriteIndex |-> t.mWriteIndex]
        BY <2>5 DEF Bytes
      <3>2. bytes' = [mBuffer |-> t.mBuffer, mReadIndex |-> t.mReadIndex,
                      mWriteIndex |-> t.mWriteIndex + size]
        BY <2>1, <3>1
      <3>3. t.mBuffer \in Seq(Nat) /\ t.mReadIndex \in Nat /\ t.mWriteIndex + size \in Nat
        BY <2>2, <2>5 DEF Bytes
      <3> QED BY ONLY <3>2, <3>3 DEF Bytes
    <2>7. Len(b.mBuffer) \in Nat /\ b.mReadIndex \in Nat /\ b.mWriteIndex \in Nat
      BY <2>3, LenProperties DEF Bytes
    <2>8. InBounds(bytes')
      BY <2>2, <2>3, <2>5, <2>6, <2>7 DEF InBounds, WriteableSize
    <2>9. ~crash'
      <3>1. ~(size > WriteableSize(b)) BY <2>2, <2>3, <2>7 DEF WriteableSize
      <3> QED BY <2>1, <3>1, Zenon
    <2>10. written' \in Nat BY <1>0, <2>1, <2>2
    <2> QED BY <1>0, <2>1, <2>6, <2>8, <2>9, <2>10 DEF Inv, InBounds
  <1>4. ASSUME NEW n \in Nat, n <= ReadableSize(bytes), InBounds(bytes),
               bytes' = [bytes EXCEPT !.mReadIndex = @ + n]
        PROVE  bytes' \in Bytes /\ InBounds(bytes')
    <2>1. bytes' = [mBuffer |-> bytes.mBuffer, mReadIndex |-> bytes.mReadIndex + n,
                    mWriteIndex |-> bytes.mWriteIndex]
      BY <1>0, <1>4 DEF Bytes
    <2>2. bytes.mReadIndex + n \in Nat /\ bytes.mReadIndex + n <= bytes.mWriteIndex
      BY <1>0, <1>4 DEF ReadableSize
    <2>3. bytes.mWriteIndex <= Len(bytes.mBuffer) BY <1>4 DEF InBounds
    <2> QED BY ONLY <1>0, <2>1, <2>2, <2>3 DEF Bytes, InBounds
  <1>5. ASSUME InBounds(bytes), NEW n \in Nat
        PROVE  Real(bytes, n) \in Nat /\ Real(bytes, n) <= ReadableSize(bytes) /\ Real(bytes, n) <= n
    BY <1>0, <1>5 DEF Real, ReadableSize, InBounds
  <1>6. ASSUME NEW size \in 0 .. MaxOp, Read(size) PROVE Inv'
    <2>1. /\ InBounds(bytes) /\ loop.op = "none" /\ ~crash
          /\ bytes' = [bytes EXCEPT !.mReadIndex = @ + Real(bytes, size)]
          /\ UNCHANGED <<cleared, loop, written, crash>>
      BY <1>6 DEF Read, Idle
    <2>2. size \in Nat BY SizesAssumption
    <2>3. bytes' \in Bytes /\ InBounds(bytes') BY <1>4, <1>5, <2>1, <2>2
    <2> QED BY <1>0, <1>a, <2>1, <2>3 DEF Inv, InBounds
  <1>7. ASSUME NEW op \in {"read", "write"}, NEW length \in 1 .. MaxOp, FixSize(op, length)
        PROVE  Inv'
    <2>1. length \in Nat BY SizesAssumption
    <2> QED BY <1>0, <1>a, <1>7, <2>1 DEF FixSize, Idle, Inv, InBounds
  <1>8. CASE WriteStream
    <2> DEFINE n == Real(bytes, loop.left)
    <2>1. PICK k \in 0 .. n : loop' = Moved(k) /\ bytes' = [bytes EXCEPT !.mReadIndex = @ + n]
      BY <1>8 DEF WriteStream
    <2>2. loop.op = "write" /\ ~crash /\ UNCHANGED <<cleared, written, crash>>
      BY <1>8 DEF WriteStream
    <2>3. InBounds(bytes) BY <2>2 DEF Inv
    <2>4. n \in Nat /\ n <= ReadableSize(bytes) /\ n <= loop.left BY <1>a, <1>5, <2>3
    <2> HIDE DEF n
    <2>5. bytes' \in Bytes /\ InBounds(bytes') BY <1>4, <2>1, <2>3, <2>4
    <2>6. k \in Nat /\ k <= loop.left BY <1>a, <2>4
    <2>7. loop' \in Loops BY <1>0, <2>1, <2>6, MovedType
    <2> QED BY <1>0, <1>a, <2>2, <2>5, <2>7 DEF Inv, InBounds
  <1>9. CASE ReadStream
    <2> DEFINE b == MakeSpace(bytes, loop.left)
    <2>1. PICK k \in 0 .. loop.left : /\ bytes' = Store(b, [i \in 1 .. k |-> 0])
                                      /\ crash' = (loop.left > WriteableSize(b))
                                      /\ loop' = Moved(k)
      BY <1>9 DEF ReadStream
    <2>2. loop.op = "read" /\ ~crash /\ UNCHANGED <<cleared, written>>
      BY <1>9 DEF ReadStream
    <2>3. InBounds(bytes) BY <2>2 DEF Inv
    <2>4. loop.left \in Nat /\ k \in Nat /\ k <= loop.left BY <1>a
    <2>5. b \in Bytes /\ InBounds(b) /\ loop.left <= WriteableSize(b)
      BY <1>0, <2>3, <2>4, SpaceIsMade
    <2>6. [i \in 1 .. k |-> 0] \in [1 .. k -> Nat] OBVIOUS
    <2> HIDE DEF b
    <2>7. /\ bytes' \in Bytes /\ Len(bytes'.mBuffer) = Len(b.mBuffer)
          /\ bytes'.mReadIndex = b.mReadIndex /\ bytes'.mWriteIndex = b.mWriteIndex
      BY <2>1, <2>4, <2>5, <2>6, Stored
    <2>8. InBounds(bytes') BY <2>5, <2>7 DEF InBounds
    <2>9. Len(b.mBuffer) \in Nat /\ b.mWriteIndex \in Nat BY <2>5, LenProperties DEF Bytes
    <2>10. ~crash'
      <3>1. ~(loop.left > WriteableSize(b)) BY <2>4, <2>5, <2>9 DEF WriteableSize
      <3> QED BY <2>1, <3>1, Zenon
    <2>11. loop' \in Loops BY <1>0, <2>1, <2>4, MovedType
    <2>12. crash' \in BOOLEAN BY <2>1
    <2> QED BY <1>0, <2>2, <2>7, <2>8, <2>10, <2>11, <2>12 DEF Inv, InBounds
  <1>10. CASE UNCHANGED vars
    BY <1>10 DEF vars, Inv, InBounds, Bytes
  <1>11. CASE NotConnected
    <2>1. loop' = [op |-> "none", left |-> 0] BY <1>11 DEF NotConnected, Moved
    <2>2. 0 \in 0 .. MaxOp BY SizesAssumption
    <2>3. loop' \in Loops BY <2>1, <2>2
    <2> QED BY <1>0, <1>11, <2>1, <2>3 DEF NotConnected, Inv, InBounds, Bytes
  <1> QED BY <1>1, <1>2, <1>3, <1>6, <1>7, <1>8, <1>9, <1>10, <1>11 DEF Next

\* MakeSpace always makes the room that a write or a read from a socket goes on
\* to use: once clear() has set the indices, no operation leaves the buffer,
\* for any sizes and any number of them.
THEOREM StaysInside == Spec => []StaysInBounds
  <1>1. Inv => StaysInBounds BY DEF Inv, StaysInBounds
  <1> QED BY <1>1, InitInv, NextInv, PTL DEF Spec

-----------------------------------------------------------------------------
(* A window of a sequence: what the two indices of a ByteArray select.     *)

\* The bytes between two indices.
LEMMA Window ==
  ASSUME NEW s \in Seq(Nat), NEW r \in Nat, NEW w \in Nat, r <= w, w <= Len(s)
  PROVE  /\ SubSeq(s, r + 1, w) \in Seq(Nat)
         /\ Len(SubSeq(s, r + 1, w)) = w - r
         /\ \A i \in 1 .. w - r : SubSeq(s, r + 1, w)[i] = s[r + i]
  <1>1. Len(s) \in Nat BY LenProperties
  <1>2. \A i \in r + 1 .. w : s[i] \in Nat
    <2> TAKE i \in r + 1 .. w
    <2>1. i \in 1 .. Len(s) BY <1>1
    <2> QED BY <2>1, ElementOfSeq
  <1>3. r + 1 \in Int /\ w \in Int OBVIOUS
  <1>4. /\ SubSeq(s, r + 1, w) \in Seq(Nat)
        /\ Len(SubSeq(s, r + 1, w)) = IF r + 1 <= w THEN w - (r + 1) + 1 ELSE 0
        /\ \A i \in 1 .. w - (r + 1) + 1 : SubSeq(s, r + 1, w)[i] = s[r + 1 + i - 1]
    BY ONLY <1>2, <1>3, SubSeqProperties
  <1>5. w - (r + 1) + 1 = w - r /\ (IF r + 1 <= w THEN w - (r + 1) + 1 ELSE 0) = w - r OBVIOUS
  <1>6. \A i \in 1 .. w - r : r + 1 + i - 1 = r + i OBVIOUS
  <1> QED BY ONLY <1>4, <1>5, <1>6

\* The bytes between the indices r and w.
Win(s, r, w) == SubSeq(s, r + 1, w)

\* The same, by its length.
LEMMA WindowAt ==
  ASSUME NEW s \in Seq(Nat), NEW r \in Nat, NEW n \in Nat, r + n <= Len(s)
  PROVE  /\ SubSeq(s, r + 1, r + n) \in Seq(Nat)
         /\ Len(SubSeq(s, r + 1, r + n)) = n
         /\ \A i \in 1 .. n : SubSeq(s, r + 1, r + n)[i] = s[r + i]
  <1>1. PICK u \in Nat : u = r + n OBVIOUS
  <1>2. r <= u /\ u <= Len(s) /\ u - r = n BY <1>1
  <1>3. /\ SubSeq(s, r + 1, u) \in Seq(Nat) /\ Len(SubSeq(s, r + 1, u)) = u - r
        /\ \A i \in 1 .. u - r : SubSeq(s, r + 1, u)[i] = s[r + i]
    BY <1>2, Window
  <1>4. /\ SubSeq(s, r + 1, u) \in Seq(Nat) /\ Len(SubSeq(s, r + 1, u)) = n
        /\ \A i \in 1 .. n : SubSeq(s, r + 1, u)[i] = s[r + i]
    BY ONLY <1>2, <1>3, Zenon
  <1> QED BY ONLY <1>1, <1>4, Zenon

\* n bytes behind r in s are those behind p in t.
Alike(s, r, t, p, n) ==
  /\ s \in Seq(Nat) /\ r \in Nat /\ r + n <= Len(s)
  /\ t \in Seq(Nat) /\ p \in Nat /\ p + n <= Len(t)
  /\ n \in Nat
  /\ \A i \in 1 .. n : s[r + i] = t[p + i]

\* Two windows of the same length with the same bytes.
LEMMA SameWindow ==
  ASSUME NEW s, NEW r, NEW t, NEW p, NEW n, Alike(s, r, t, p, n)
  PROVE  Win(s, r, r + n) = Win(t, p, p + n)
  <1> DEFINE x == SubSeq(s, r + 1, r + n)
             y == SubSeq(t, p + 1, p + n)
  <1>0. /\ s \in Seq(Nat) /\ r \in Nat /\ r + n <= Len(s)
        /\ t \in Seq(Nat) /\ p \in Nat /\ p + n <= Len(t)
        /\ n \in Nat
        /\ \A i \in 1 .. n : s[r + i] = t[p + i]
    BY DEF Alike
  <1>1. x \in Seq(Nat) /\ Len(x) = n /\ \A i \in 1 .. n : x[i] = s[r + i]
    BY <1>0, WindowAt
  <1>2. y \in Seq(Nat) /\ Len(y) = n /\ \A i \in 1 .. n : y[i] = t[p + i]
    BY <1>0, WindowAt
  <1> HIDE DEF x, y
  <1>3. Len(x) = Len(y) /\ \A i \in 1 .. Len(x) : x[i] = y[i] BY <1>0, <1>1, <1>2
  <1>4. x = y BY ONLY <1>1, <1>2, <1>3, SeqEqual
  <1> QED BY <1>4 DEF x, y, Win

\* A window of a window.
LEMMA SubWindow ==
  ASSUME NEW s \in Seq(Nat), NEW r \in Nat, NEW w \in Nat, r <= w, w <= Len(s),
         NEW a \in Nat, NEW c \in Nat, a <= c, c <= w - r
  PROVE  SubSeq(SubSeq(s, r + 1, w), a + 1, c) = SubSeq(s, r + a + 1, r + c)
  <1> DEFINE x == SubSeq(s, r + 1, w)
  <1>1. x \in Seq(Nat) /\ Len(x) = w - r /\ \A i \in 1 .. w - r : x[i] = s[r + i] BY Window
  <1> HIDE DEF x
  <1>2. /\ r + a \in Nat /\ (r + a) + (c - a) <= Len(s) /\ c - a \in Nat /\ a + (c - a) <= Len(x)
        /\ (r + a) + (c - a) = r + c /\ a + (c - a) = c
    <2>1. Len(s) \in Nat BY LenProperties
    <2> QED BY <1>1, <2>1
  <1>3. \A i \in 1 .. c - a : x[a + i] = s[(r + a) + i]
    <2> TAKE i \in 1 .. c - a
    <2>1. a + i \in 1 .. w - r /\ r + (a + i) = (r + a) + i OBVIOUS
    <2> QED BY <1>1, <2>1
  <1>4. Alike(x, a, s, r + a, c - a) BY <1>1, <1>2, <1>3 DEF Alike
  <1>5. Win(x, a, a + (c - a)) = Win(s, r + a, (r + a) + (c - a)) BY <1>4, SameWindow
  <1>6. Win(x, a, c) = Win(s, r + a, r + c) BY <1>2, <1>5
  <1> QED BY <1>6 DEF x, Win

\* What lies behind a window, appended to it.
LEMMA LongerWindow ==
  ASSUME NEW s, NEW r, NEW w, NEW n, NEW new,
         r \in Nat, r <= w, Len(new) = n, Alike(s, w, new, 0, n)
  PROVE  Win(s, r, w + n) = Win(s, r, w) \o new
  <1> DEFINE x == SubSeq(s, r + 1, w)
             y == SubSeq(s, r + 1, w + n)
             z == x \o new
  <1>0. /\ s \in Seq(Nat) /\ Len(s) \in Nat /\ w \in Nat /\ n \in Nat /\ w + n <= Len(s)
        /\ new \in Seq(Nat) /\ \A i \in 1 .. n : s[w + i] = new[0 + i]
    BY LenProperties DEF Alike
  <1>1. x \in Seq(Nat) /\ Len(x) = w - r /\ \A i \in 1 .. w - r : x[i] = s[r + i]
    <2>1. w <= Len(s) BY <1>0
    <2> QED BY <1>0, <2>1, Window
  <1>2. y \in Seq(Nat) /\ Len(y) = w + n - r /\ \A i \in 1 .. w + n - r : y[i] = s[r + i]
    <2>1. w + n \in Nat /\ r <= w + n /\ w + n <= Len(s) BY <1>0
    <2>2. PICK u \in Nat : u = w + n BY <2>1
    <2>3. /\ SubSeq(s, r + 1, u) \in Seq(Nat) /\ Len(SubSeq(s, r + 1, u)) = u - r
          /\ \A i \in 1 .. u - r : SubSeq(s, r + 1, u)[i] = s[r + i]
      BY <1>0, <2>1, <2>2, Window
    <2>4. y = SubSeq(s, r + 1, u) BY <2>2
    <2>5. u - r = w + n - r BY <1>0, <2>2
    <2> HIDE DEF y
    <2> QED BY ONLY <2>3, <2>4, <2>5, Zenon
  <1> HIDE DEF x, y
  <1>3. z \in Seq(Nat) /\ Len(z) = Len(x) + Len(new)
        /\ \A i \in 1 .. Len(x) + Len(new) : z[i] = IF i <= Len(x) THEN x[i] ELSE new[i - Len(x)]
    <2> HIDE DEF z
    <2>1. new \in Seq(Nat) BY <1>0
    <2> QED BY ONLY <1>1, <2>1, ConcatProperties, Zenon DEF z
  <1> HIDE DEF z
  <1>4. Len(y) = Len(z) BY <1>0, <1>1, <1>2, <1>3
  <1>5. ASSUME NEW i \in 1 .. Len(y) PROVE y[i] = z[i]
    <2>1. i \in 1 .. w + n - r /\ i \in 1 .. Len(x) + Len(new) BY <1>0, <1>1, <1>2
    <2>2. CASE i <= w - r
      <3>1. i \in 1 .. w - r BY <1>0, <2>1, <2>2
      <3>2. y[i] = s[r + i] /\ x[i] = s[r + i] BY <1>1, <1>2, <2>1, <3>1
      <3>3. z[i] = x[i] BY <1>1, <1>3, <2>1, <2>2
      <3> QED BY <3>2, <3>3
    <2>3. CASE ~(i <= w - r)
      <3>1. /\ i - (w - r) \in 1 .. n /\ w + (i - (w - r)) = r + i
            /\ 0 + (i - (w - r)) = i - (w - r)
        BY <1>0, <2>1, <2>3
      <3>2. z[i] = new[i - (w - r)] BY <1>1, <1>3, <2>1, <2>3
      <3>3. s[w + (i - (w - r))] = new[0 + (i - (w - r))] BY <1>0, <3>1
      <3> QED BY <1>2, <2>1, <3>1, <3>2, <3>3
    <2> QED BY <2>2, <2>3
  <1>6. y = z BY ONLY <1>2, <1>3, <1>4, <1>5, SeqEqual
  <1> QED BY <1>6 DEF x, y, z, Win

-----------------------------------------------------------------------------
(* The readable bytes, and the queue that they implement.                  *)

\* MakeSpace moves the readable bytes without changing them.
LEMMA SpaceKeepsBytes ==
  ASSUME NEW b \in Bytes, InBounds(b), NEW size \in Nat
  PROVE  Readable(MakeSpace(b, size)) = Readable(b)
  <1> DEFINE r == b.mReadIndex
             w == b.mWriteIndex
             s == b.mBuffer
             m == MakeSpace(b, size)
  <1>1. /\ s \in Seq(Nat) /\ r \in Nat /\ w \in Nat /\ Len(s) \in Nat /\ kPreHeadSize \in Nat
        /\ r <= w /\ w <= Len(s)
        /\ b = [mBuffer |-> s, mReadIndex |-> r, mWriteIndex |-> w]
    BY SizesAssumption, LenProperties DEF Bytes, InBounds
  <1>2. /\ m.mBuffer \in Seq(Nat) /\ m.mReadIndex \in Nat /\ m.mWriteIndex \in Nat
        /\ m.mReadIndex <= m.mWriteIndex /\ m.mWriteIndex <= Len(m.mBuffer)
    BY SpaceIsMade DEF Bytes, InBounds
  <1>3. CASE r + WriteableSize(b) < size + kPreHeadSize
    <2>1. m.mBuffer = Resize(s, w + size) /\ m.mReadIndex = r /\ m.mWriteIndex = w
      BY <1>1, <1>3 DEF MakeSpace
    <2>2. \A i \in 1 .. w - r : s[r + i] = Resize(s, w + size)[r + i]
      BY <1>1 DEF Resize
    <2> HIDE DEF m, s, r, w
    <2>3. w - r \in Nat /\ r + (w - r) = w BY <1>1
    <2>4. Alike(s, r, m.mBuffer, r, w - r) BY <1>1, <1>2, <2>1, <2>2, <2>3 DEF Alike
    <2>5. Win(s, r, w) = Win(m.mBuffer, r, w) BY <2>3, <2>4, SameWindow
    <2> QED BY <2>1, <2>5 DEF Readable, Win, m, s, r, w
  <1>4. CASE ~(r + WriteableSize(b) < size + kPreHeadSize)
    <2> DEFINE t == [i \in 1 .. Len(s) |->
                       IF i > kPreHeadSize /\ i <= kPreHeadSize + (w - r)
                         THEN s[i - kPreHeadSize + r] ELSE s[i]]
               v == kPreHeadSize + (w - r)
    <2>1. m.mBuffer = t /\ m.mReadIndex = kPreHeadSize /\ m.mWriteIndex = v
      BY <1>1, <1>4 DEF MakeSpace, ReadableSize
    <2>2. v \in Nat /\ v - kPreHeadSize = w - r /\ v <= Len(s)
      BY <1>1, <1>4 DEF WriteableSize
    <2>3. \A i \in 1 .. w - r : s[r + i] = t[kPreHeadSize + i]
      <3> TAKE i \in 1 .. w - r
      <3>1. /\ kPreHeadSize + i \in 1 .. Len(s) /\ kPreHeadSize + i > kPreHeadSize
            /\ kPreHeadSize + i <= kPreHeadSize + (w - r)
            /\ (kPreHeadSize + i) - kPreHeadSize + r = r + i
        <4> HIDE DEF m, t, v, s, r, w
        <4> QED BY ONLY <1>1, <2>2, i \in 1 .. w - r DEF v
      <3> QED BY <3>1
    <2> HIDE DEF m, t, v, s, r, w
    <2>4. w - r \in Nat /\ r + (w - r) = w /\ kPreHeadSize + (w - r) = v BY <1>1, <2>2
    <2>5. Alike(s, r, m.mBuffer, kPreHeadSize, w - r)
      BY <1>1, <1>2, <2>1, <2>3, <2>4 DEF Alike
    <2>6. Win(s, r, w) = Win(m.mBuffer, kPreHeadSize, v) BY <2>4, <2>5, SameWindow
    <2> QED BY <2>1, <2>6 DEF Readable, Win, m, s, r, w
  <1> QED BY <1>3, <1>4

\* Stored bytes lie behind the readable ones, in their order.
LEMMA StoredBytes ==
  ASSUME NEW b \in Bytes, InBounds(b), NEW n \in Nat, n <= WriteableSize(b),
         NEW new \in [1 .. n -> Nat]
  PROVE  LET t == Store(b, new).mBuffer IN
         /\ SubSeq(t, b.mReadIndex + 1, b.mWriteIndex) = Readable(b)
         /\ SubSeq(t, b.mReadIndex + 1, b.mWriteIndex + n) = Readable(b) \o new
  <1> DEFINE r == b.mReadIndex
             w == b.mWriteIndex
             s == b.mBuffer
             t == Store(b, new).mBuffer
  <1>1. /\ s \in Seq(Nat) /\ r \in Nat /\ w \in Nat /\ Len(s) \in Nat
        /\ r <= w /\ w + n <= Len(s) /\ w <= Len(s)
        /\ b = [mBuffer |-> s, mReadIndex |-> r, mWriteIndex |-> w]
    BY LenProperties DEF Bytes, InBounds, WriteableSize
  <1>2. t \in Seq(Nat) /\ Len(t) = Len(s) BY Stored DEF Bytes
  <1>3. new \in Seq(Nat) /\ Len(new) = n BY Tabulated
  <1>4. t = [i \in 1 .. Len(s) |-> IF i > w /\ i <= w + Len(new) THEN new[i - w] ELSE s[i]]
    BY <1>1 DEF Store
  <1>5. \A i \in 1 .. w - r : s[r + i] = t[r + i]
    <2> TAKE i \in 1 .. w - r
    <2>1. r + i \in 1 .. Len(s) /\ ~(r + i > w) BY <1>1
    <2> QED BY <1>4, <2>1
  <1>6. \A i \in 1 .. n : t[w + i] = new[i]
    <2> TAKE i \in 1 .. n
    <2>1. w + i \in 1 .. Len(s) /\ w + i > w /\ w + i <= w + Len(new) /\ (w + i) - w = i
      BY <1>1, <1>3
    <2> QED BY <1>4, <2>1
  <1> HIDE DEF t, s, r, w
  <1>7. Win(s, r, w) = Win(t, r, w)
    <2>1. w - r \in Nat /\ r + (w - r) = w BY <1>1
    <2>2. Alike(s, r, t, r, w - r) BY <1>1, <1>2, <1>5, <2>1 DEF Alike
    <2> QED BY <2>1, <2>2, SameWindow
  <1>8. Win(t, r, w + n) = Win(t, r, w) \o new
    <2>1. Alike(t, w, new, 0, n) BY <1>1, <1>2, <1>3, <1>6 DEF Alike
    <2>2. r \in Nat /\ r <= w /\ Len(new) = n BY <1>1, <1>3
    <2> QED BY ONLY <2>1, <2>2, LongerWindow
  <1> QED BY <1>7, <1>8 DEF Readable, Win, t, s, r, w

\* Bytes taken off the front.
LEMMA TakenBytes ==
  ASSUME NEW b \in Bytes, InBounds(b), NEW n \in Nat, NEW k \in Nat, k <= Real(b, n)
  PROVE  LET len == Len(Readable(b))
             take == IF n > len THEN len ELSE n
             real == Real(b, n)
         IN /\ real = take
            /\ SubSeq(b.mBuffer, b.mReadIndex + 1, b.mReadIndex + real) = SubSeq(Readable(b), 1, take)
            /\ SubSeq(b.mBuffer, b.mReadIndex + real + 1, b.mWriteIndex) = SubSeq(Readable(b), take + 1, len)
            /\ SubSeq(b.mBuffer, b.mReadIndex + 1, b.mReadIndex + k)
                  = SubSeq(SubSeq(Readable(b), 1, take), 1, k)
            /\ Len(SubSeq(Readable(b), 1, take)) = take
  <1> DEFINE r == b.mReadIndex
             w == b.mWriteIndex
             s == b.mBuffer
             len == Len(Readable(b))
             take == IF n > len THEN len ELSE n
             real == Real(b, n)
             x == Readable(b)
             y == SubSeq(x, 1, take)
  <1>1. /\ s \in Seq(Nat) /\ r \in Nat /\ w \in Nat /\ Len(s) \in Nat
        /\ r <= w /\ w <= Len(s)
    BY LenProperties DEF Bytes, InBounds
  <1>2. x \in Seq(Nat) /\ len = w - r BY <1>1, Window DEF Readable
  <1>3. real = take BY <1>1, <1>2 DEF Real, ReadableSize
  <1>4. take \in Nat /\ take <= w - r /\ w - r \in Nat /\ r + (w - r) = w /\ k <= take
    BY <1>1, <1>2, <1>3
  <1>x. x = SubSeq(s, r + 1, w) BY DEF Readable
  <1> HIDE DEF x, y, take, real, len, s, r, w
  <1>5. \A a, c \in Nat : a <= c /\ c <= w - r =>
          SubSeq(x, a + 1, c) = SubSeq(s, r + a + 1, r + c)
    <2> TAKE a, c \in Nat
    <2> HAVE a <= c /\ c <= w - r
    <2>1. SubSeq(SubSeq(s, r + 1, w), a + 1, c) = SubSeq(s, r + a + 1, r + c)
      BY <1>1, SubWindow
    <2> QED BY <1>x, <2>1
  <1>6. y = SubSeq(s, r + 1, r + take)
    <2>0. 0 \in Nat /\ 0 <= take BY <1>4
    <2>1. SubSeq(x, 0 + 1, take) = SubSeq(s, r + 0 + 1, r + take) BY ONLY <1>4, <1>5, <2>0, Zenon
    <2>2. 0 + 1 = 1 /\ r + 0 + 1 = r + 1 BY <1>1
    <2> QED BY <2>1, <2>2 DEF y
  <1>7. SubSeq(x, take + 1, len) = SubSeq(s, r + real + 1, w)
    <2>1. SubSeq(x, take + 1, w - r) = SubSeq(s, r + take + 1, r + (w - r))
      <3>1. w - r <= w - r BY <1>4
      <3> QED BY ONLY <1>4, <1>5, <3>1, Zenon
    <2> QED BY <1>2, <1>3, <1>4, <2>1
  <1>8. SubSeq(y, 1, k) = SubSeq(s, r + 1, r + k) /\ Len(y) = take
    <2>1. r + take \in Nat /\ r <= r + take /\ r + take <= Len(s) /\ (r + take) - r = take
      BY <1>1, <1>4
    <2>2. SubSeq(SubSeq(s, r + 1, r + take), 0 + 1, k) = SubSeq(s, r + 0 + 1, r + k)
      <3>1. 0 \in Nat /\ k \in Nat /\ 0 <= k /\ k <= (r + take) - r BY <1>4, <2>1
      <3> QED BY ONLY <1>1, <2>1, <3>1, SubWindow
    <2>3. 0 + 1 = 1 /\ r + 0 + 1 = r + 1 BY <1>1
    <2>4. Len(SubSeq(s, r + 1, r + take)) = take BY <1>1, <2>1, Window
    <2> QED BY <1>6, <2>2, <2>3, <2>4
  <1> QED BY <1>3, <1>6, <1>7, <1>8 DEF x, y, take, real, len, s, r, w

\* The first state is one of the queue.
LEMMA InitQueue == Init => Abstract!Init
  BY DEF Init, Abstract!Init

\* Every step is one of the queue, or leaves it as it is.
LEMMA NextQueue == Inv /\ Inv' /\ [Next]_vars => [Abstract!Next]_(Abstract!qvars)
  <1> SUFFICES ASSUME Inv, Inv', [Next]_vars PROVE [Abstract!Next]_(Abstract!qvars) OBVIOUS
  <1>0. bytes \in Bytes /\ bytes' \in Bytes /\ loop.left \in 0 .. MaxOp /\ MaxOp \in Nat
        /\ written \in Nat /\ crash \in BOOLEAN /\ crash' \in BOOLEAN
    BY SizesAssumption DEF Inv
  <1>1. CASE clear
    <2>1. cleared' = TRUE /\ bytes' = [mBuffer |-> << >>, mReadIndex |-> 0, mWriteIndex |-> 0]
          /\ UNCHANGED <<written, out, crash>>
      BY <1>1 DEF clear
    <2>2. Readable(bytes') = << >>
      <3>1. Readable(bytes') = SubSeq(<< >>, 0 + 1, 0) BY <2>1 DEF Readable
      <3>2. 0 + 1 \in Int /\ 0 \in Int /\ 0 < 0 + 1 OBVIOUS
      <3> QED BY <3>1, <3>2, SubSeqEmpty
    <2>3. Abstract!Clear BY <2>1, <2>2 DEF Abstract!Clear, Readable
    <2> QED BY <2>3 DEF Abstract!Next
  <1>2. CASE ~cleared /\ ~clear
    <2>1. cleared' = cleared
      BY <1>2 DEF Next, Undefined, Write, Read, FixSize, WriteStream, ReadStream,
                  NotConnected, vars
    <2>2. Abstract!Unknown BY <1>2, <2>1 DEF Abstract!Unknown
    <2> QED BY <2>2 DEF Abstract!Next
  <1>3. CASE cleared /\ ~clear
    <2> USE <1>3
    <2>0. InBounds(bytes) /\ ~crash BY DEF Inv
    <2>a. bytes.mReadIndex \in Nat /\ bytes.mWriteIndex \in Nat BY <1>0 DEF Bytes
    <2>1. CASE Undefined BY <2>0, <2>1 DEF Undefined
    <2>2. ASSUME NEW size \in 0 .. MaxOp, Write(size) PROVE Abstract!Put(size)
      <3> DEFINE b == IF WriteableSize(bytes) < size THEN MakeSpace(bytes, size) ELSE bytes
                 new == [i \in 1 .. size |-> written + i]
                 t == Store(b, new)
      <3>1. /\ written + size <= MaxBytes
            /\ bytes' = [t EXCEPT !.mWriteIndex = @ + size]
            /\ written' = written + size
            /\ UNCHANGED <<cleared, out>>
        BY <2>2 DEF Write
      <3>2. size \in Nat BY <1>0
      <3>3. b \in Bytes /\ InBounds(b) /\ size <= WriteableSize(b) /\ Readable(b) = Readable(bytes)
        <4>1. CASE WriteableSize(bytes) < size
          BY <1>0, <2>0, <3>2, <4>1, SpaceIsMade, SpaceKeepsBytes
        <4>2. CASE ~(WriteableSize(bytes) < size)
          <5>1. Len(bytes.mBuffer) \in Nat BY <1>0, LenProperties DEF Bytes
          <5> QED BY <1>0, <2>0, <2>a, <3>2, <4>2, <5>1 DEF WriteableSize
        <4> QED BY <4>1, <4>2
      <3>4. new \in [1 .. size -> Nat] BY <1>0, <3>2
      <3> HIDE DEF b, new
      <3>5. /\ t \in Bytes /\ t.mReadIndex = b.mReadIndex /\ t.mWriteIndex = b.mWriteIndex
        BY <3>2, <3>3, <3>4, Stored
      <3>6. SubSeq(t.mBuffer, b.mReadIndex + 1, b.mWriteIndex + size) = Readable(bytes) \o new
        BY <3>2, <3>3, <3>4, StoredBytes
      <3> HIDE DEF t
      <3>7. /\ bytes'.mBuffer = t.mBuffer /\ bytes'.mReadIndex = b.mReadIndex
            /\ bytes'.mWriteIndex = b.mWriteIndex + size
        BY <3>1, <3>5 DEF Bytes
      <3>8. Readable(bytes') = Readable(bytes) \o new BY <3>6, <3>7 DEF Readable
      <3>9. crash' = crash BY <1>0, <2>0, <3>1 DEF Inv
      <3> QED BY <3>1, <3>8, <3>9 DEF Abstract!Put, Readable, new
    <2>3. ASSUME NEW size \in 0 .. MaxOp, Read(size) PROVE Abstract!Get(size)
      <3>1. /\ out' = SubSeq(bytes.mBuffer, bytes.mReadIndex + 1, bytes.mReadIndex + Real(bytes, size))
            /\ bytes' = [bytes EXCEPT !.mReadIndex = @ + Real(bytes, size)]
            /\ UNCHANGED <<cleared, written, crash>>
        BY <2>3 DEF Read
      <3>2. Readable(bytes') = SubSeq(bytes.mBuffer, bytes.mReadIndex + Real(bytes, size) + 1, bytes.mWriteIndex)
        BY <1>0, <3>1 DEF Readable, Bytes
      <3>3. size \in Nat /\ 0 \in Nat /\ 0 <= Real(bytes, size)
        <4>1. size \in Nat BY <1>0
        <4> QED BY <2>0, <2>a, <4>1 DEF Real, ReadableSize, InBounds
      <3>4. out' = Abstract!Take(size) /\ Readable(bytes') = Abstract!Rest(size)
        BY <1>0, <2>0, <3>1, <3>2, <3>3, TakenBytes DEF Abstract!Take, Abstract!Rest
      <3> QED BY <3>1, <3>4 DEF Abstract!Get, Readable
    <2>4. ASSUME NEW op \in {"read", "write"}, NEW length \in 1 .. MaxOp, FixSize(op, length)
          PROVE  UNCHANGED (Abstract!qvars)
      BY <2>4 DEF FixSize, Abstract!qvars, Readable
    <2>5. CASE WriteStream
      <3> DEFINE n == Real(bytes, loop.left)
      <3>1. PICK k \in 0 .. n :
              /\ out' = SubSeq(bytes.mBuffer, bytes.mReadIndex + 1, bytes.mReadIndex + k)
              /\ bytes' = [bytes EXCEPT !.mReadIndex = @ + n]
        BY <2>5 DEF WriteStream
      <3>2. UNCHANGED <<cleared, written, crash>> BY <2>5 DEF WriteStream
      <3>3. Readable(bytes') = SubSeq(bytes.mBuffer, bytes.mReadIndex + n + 1, bytes.mWriteIndex)
        BY <1>0, <3>1 DEF Readable, Bytes
      <3>4. loop.left \in Nat /\ k \in Nat /\ k <= n
        <4>1. loop.left \in Nat BY <1>0
        <4>2. n \in Nat BY <2>0, <2>a, <4>1 DEF Real, ReadableSize, InBounds
        <4> QED BY <4>1, <4>2
      <3> DEFINE len == Len(Readable(bytes))
                 take == IF loop.left > len THEN len ELSE loop.left
      <3>5. /\ n = take /\ Readable(bytes') = SubSeq(Readable(bytes), take + 1, len)
            /\ out' = SubSeq(SubSeq(Readable(bytes), 1, take), 1, k)
            /\ Len(SubSeq(Readable(bytes), 1, take)) = take
        <4> DEFINE r == bytes.mReadIndex
                   x == Readable(bytes)
        <4>1. /\ n = take
              /\ SubSeq(bytes.mBuffer, r + n + 1, bytes.mWriteIndex) = SubSeq(x, take + 1, len)
              /\ SubSeq(bytes.mBuffer, r + 1, r + k) = SubSeq(SubSeq(x, 1, take), 1, k)
              /\ Len(SubSeq(x, 1, take)) = take
          BY ONLY <1>0, <2>0, <3>4, TakenBytes
        <4> HIDE DEF take, len, n
        <4> QED BY <3>1, <3>3, <4>1
      <3>6. /\ Readable(bytes') = Abstract!Rest(loop.left)
            /\ out' = SubSeq(Abstract!Take(loop.left), 1, k)
            /\ k \in 0 .. Len(Abstract!Take(loop.left))
        BY <3>4, <3>5 DEF Abstract!Take, Abstract!Rest
      <3>7. Abstract!Send(loop.left) BY <3>2, <3>6 DEF Abstract!Send, Readable
      <3> QED BY <1>0, <3>7 DEF Abstract!Next
    <2>6. CASE ReadStream
      <3> DEFINE b == MakeSpace(bytes, loop.left)
      <3>1. PICK k \in 0 .. loop.left : bytes' = Store(b, [i \in 1 .. k |-> 0])
        BY <2>6 DEF ReadStream
      <3>2. UNCHANGED <<cleared, written, out>> BY <2>6 DEF ReadStream
      <3>3. loop.left \in Nat /\ k \in Nat /\ k <= loop.left BY <1>0
      <3>4. b \in Bytes /\ InBounds(b) /\ loop.left <= WriteableSize(b) /\ Readable(b) = Readable(bytes)
        BY <1>0, <2>0, <3>3, SpaceIsMade, SpaceKeepsBytes
      <3> HIDE DEF b
      <3> DEFINE new == [i \in 1 .. k |-> 0]
      <3>5. new \in [1 .. k -> Nat] OBVIOUS
      <3>6. k <= WriteableSize(b)
        <4>1. Len(b.mBuffer) \in Nat /\ b.mWriteIndex \in Nat BY <3>4, LenProperties DEF Bytes
        <4> QED BY <3>3, <3>4, <4>1 DEF WriteableSize
      <3>7. bytes' = Store(b, new) BY <3>1
      <3> HIDE DEF new
      <3>8. bytes'.mReadIndex = b.mReadIndex /\ bytes'.mWriteIndex = b.mWriteIndex
        BY <3>3, <3>4, <3>5, <3>7, Stored
      <3>9. SubSeq(bytes'.mBuffer, b.mReadIndex + 1, b.mWriteIndex) = Readable(b)
        BY <3>3, <3>4, <3>5, <3>6, <3>7, StoredBytes
      <3>10. Readable(bytes') = Readable(bytes) BY <3>4, <3>8, <3>9 DEF Readable
      <3>11. crash' = crash BY <1>0, <2>0, <3>2 DEF Inv
      <3> QED BY <3>2, <3>10, <3>11 DEF Abstract!qvars, Readable
    <2>7. CASE UNCHANGED vars BY <2>7 DEF vars, Abstract!qvars, Readable
    <2>8. CASE NotConnected BY <2>8 DEF NotConnected, Abstract!qvars, Readable
    <2> QED BY <2>1, <2>2, <2>3, <2>4, <2>5, <2>6, <2>7, <2>8 DEF Next, Abstract!Next
  <1> QED BY <1>1, <1>2, <1>3

\* A ByteArray that was cleared is a queue of bytes, for every size of the
\* buffer, of the head and of the operations: MakeSpace moves, grows and shrinks
\* the buffer under the bytes without losing, repeating or reordering one.
THEOREM ImplementsQueue == Spec => IsQueue
  <1>1. Spec => []Inv BY InitInv, NextInv, PTL DEF Spec
  <1> QED BY <1>1, InitQueue, NextQueue, PTL DEF Spec, IsQueue, Abstract!Spec
=============================================================================
