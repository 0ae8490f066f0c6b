------------------------ MODULE HttpConnectionProofs ------------------------
(***************************************************************************)
(* Theorems about HttpConnection, for any number of threads, connections   *)
(* and requests, any bodies and any size of the buffer.                    *)
(***************************************************************************)
EXTENDS HttpConnection, CommonLemmas

\* A call has a request, and a connection that has not been deleted; only a
\* recvResponse that has returned can have closed it.
Held ==
    \A t \in Threads : th[t].pc # "idle" =>
        /\ th[t].c \in live
        /\ th[t].req \in Reqs
        /\ th[t].pc # "release" => th[t].c \in connected

IInv == TypeOK /\ Held /\ OneOwner /\ TotalExact

-----------------------------------------------------------------------------
(* Tokens and streams.                                                     *)

\* Cutting a stream of tokens gives streams of tokens.
LEMMA CutType ==
    ASSUME NEW S, NEW s \in Seq(S), NEW n \in Int, n <= Len(s)
    PROVE  /\ First(s, n) \in Seq(S)
           /\ n >= 0 => After(s, n) \in Seq(S)
           /\ n >= 0 => Len(First(s, n)) = n
  <1>1. Len(s) \in Nat /\ \A i \in 1 .. Len(s) : s[i] \in S
    BY LenProperties, ElementOfSeq
  <1>2. \A i \in 1 .. n : s[i] \in S
    BY <1>1
  <1>3. SubSeq(s, 1, n) \in Seq(S) /\ Len(SubSeq(s, 1, n)) = IF 1 <= n THEN n - 1 + 1 ELSE 0
    BY <1>2, SubSeqProperties
  <1>4. ASSUME n >= 0 PROVE SubSeq(s, n + 1, Len(s)) \in Seq(S)
    <2>1. n + 1 \in Int /\ Len(s) \in Int /\ \A i \in n + 1 .. Len(s) : s[i] \in S
      BY <1>1, <1>4
    <2> QED BY <2>1, SubSeqProperties
  <1> QED BY <1>3, <1>4 DEF First, After

\* What a read() returns is a nonempty prefix of the stream, not longer than asked.
LEMMA SegmentType ==
    ASSUME TypeOK, NEW c \in Conns, NEW limit \in Nat, NEW s \in Segments(c, limit)
    PROVE  /\ s \in Seq(Tokens)
           /\ Len(s) \in Nat \ {0} /\ Len(s) <= limit
           /\ s[1] \in Tokens
           /\ SubSeq(wire[c], Len(s) + 1, Len(wire[c])) \in Seq(Tokens)
  <1>1. wire[c] \in Seq(Tokens) /\ Len(wire[c]) \in Nat
    BY LenProperties DEF TypeOK
  <1>2. PICK k \in 1 .. Len(wire[c]) : k <= limit /\ s = SubSeq(wire[c], 1, k)
    BY DEF Segments
  <1>3. s \in Seq(Tokens) /\ Len(s) = k
    BY <1>1, <1>2, CutType DEF First
  <1>4. SubSeq(wire[c], Len(s) + 1, Len(wire[c])) \in Seq(Tokens)
    BY <1>1, <1>2, <1>3, CutType DEF After
  <1>5. s[1] \in Tokens
    BY <1>1, <1>2, <1>3, ElementOfSeq
  <1> QED BY <1>1, <1>2, <1>3, <1>4, <1>5

\* The kinds of tokens and what they carry.
LEMMA TokenTypes ==
    /\ \A h \in Heads : h[3] \in 0 .. MaxBody /\ h[1] \in {"length", "chunked"}
    /\ \A x \in Tokens : x[1] = "size" => x[2] \in 0 .. MaxBody
    /\ Heads \subseteq Tokens /\ {End, Cr, Lf} \subseteq Tokens
    /\ \A n \in 0 .. MaxBody : Size(n) \in Tokens
    /\ \A r \in Reqs, i \in 1 .. MaxBody : Byte(r, i) \in Tokens
  <1>1. \A h \in Heads : h[3] \in 0 .. MaxBody /\ h[1] \in {"length", "chunked"}
    BY DEF Heads
  <1>2. ASSUME NEW x \in Tokens, x[1] = "size" PROVE x[2] \in 0 .. MaxBody
    <2>1. CASE x \in Heads BY <1>1, <1>2, <2>1
    <2>2. CASE x \in {End, Cr, Lf} BY <1>2, <2>2 DEF End, Cr, Lf
    <2>3. CASE x \in {Size(n) : n \in 0 .. MaxBody} BY <2>3 DEF Size
    <2>4. CASE x \in {Byte(r, i) : r \in Reqs, i \in 1 .. MaxBody} BY <1>2, <2>4 DEF Byte
    <2> QED BY <2>1, <2>2, <2>3, <2>4 DEF Tokens
  <1> QED BY <1>1, <1>2 DEF Tokens

\* Every answer of a server is a stream of tokens.
LEMMA AnswerType ==
    ASSUME NEW r \in Reqs, NEW a \in LengthAnswers(r) \cup ChunkedAnswers(r)
    PROVE  a \in Seq(Tokens)
  <1>1. ASSUME NEW i \in 1 .. MaxBody + 1, NEW j \in 0 .. MaxBody, i <= j + 1
        PROVE  Body(r, i, j) \in Seq(Tokens)
    <2>1. j - i + 1 \in Nat BY <1>1, BoundsAssumption
    <2>2. \A k \in 1 .. j - i + 1 : Byte(r, i + k - 1) \in Tokens
      BY <1>1, TokenTypes, BoundsAssumption
    <2> QED BY <2>1, <2>2 DEF Body
  <1>2. /\ \A n \in 0 .. MaxBody : <<ByLength(r, n), End>> \in Seq(Tokens)
        /\ \A n \in 0 .. MaxBody : <<Chunked(r, n), End>> \in Seq(Tokens)
        /\ \A n \in 0 .. MaxBody : <<Size(n)>> \in Seq(Tokens)
        /\ CrLf \in Seq(Tokens) /\ <<>> \in Seq(Tokens)
    BY TokenTypes DEF ByLength, Chunked, Heads, CrLf
  <1>3. CASE a \in LengthAnswers(r)
    <2>1. PICK n \in 0 .. MaxBody : a = InOnePiece(r, n) \/ a = InOnePiece(r, n) \o CrLf
      <3>1. 1 .. MaxBody \subseteq 0 .. MaxBody OBVIOUS
      <3> QED BY <1>3, <3>1 DEF LengthAnswers
    <2>2. 1 \in 1 .. MaxBody + 1 /\ 1 <= n + 1
      BY BoundsAssumption
    <2>3. <<ByLength(r, n), End>> \in Seq(Tokens) /\ Body(r, 1, n) \in Seq(Tokens)
      BY <1>1, <1>2, <2>2
    <2>4. InOnePiece(r, n) \in Seq(Tokens)
      BY <2>3, ConcatProperties DEF InOnePiece
    <2> QED BY <1>2, <2>1, <2>4, ConcatProperties
  <1>4. CASE a \in ChunkedAnswers(r)
    <2>1. PICK n \in 0 .. MaxBody : \E k \in 0 .. n : a = InChunks(r, n, k)
      BY <1>4 DEF ChunkedAnswers
    <2>0. PICK cut \in 0 .. n : a = InChunks(r, n, cut)
      BY <2>1
    <2> DEFINE one == IF cut = 0 THEN <<>> ELSE <<Size(cut)>> \o Body(r, 1, cut) \o CrLf
               two == IF cut = n THEN <<>>
                      ELSE <<Size(n - cut)>> \o Body(r, cut + 1, n) \o CrLf
    <2>2. n \in 0 .. MaxBody /\ cut \in 0 .. MaxBody /\ cut <= n
      BY BoundsAssumption
    <2>3. one \in Seq(Tokens)
      <3>1. 1 \in 1 .. MaxBody + 1 /\ 1 <= cut + 1 BY <2>2, BoundsAssumption
      <3>2. <<Size(cut)>> \in Seq(Tokens) /\ Body(r, 1, cut) \in Seq(Tokens)
        BY <1>1, <1>2, <2>2, <3>1
      <3> QED BY <1>2, <3>2, ConcatProperties
    <2>4. two \in Seq(Tokens)
      <3>1. cut + 1 \in 1 .. MaxBody + 1 /\ n - cut \in 0 .. MaxBody /\ cut + 1 <= n + 1
        BY <2>2, BoundsAssumption
      <3>2. <<Size(n - cut)>> \in Seq(Tokens) /\ Body(r, cut + 1, n) \in Seq(Tokens)
        BY <1>1, <1>2, <2>2, <3>1
      <3> QED BY <1>2, <3>2, ConcatProperties
    <2>5. <<Chunked(r, n), End>> \in Seq(Tokens) /\ <<Size(0)>> \in Seq(Tokens)
      BY <1>2, <2>2, BoundsAssumption
    <2>6. a = <<Chunked(r, n), End>> \o one \o two \o <<Size(0)>> \o CrLf
      BY <2>0 DEF InChunks
    <2> HIDE DEF one, two
    <2> QED BY <1>2, <2>3, <2>4, <2>5, <2>6, ConcatProperties
  <1> QED BY <1>3, <1>4

-----------------------------------------------------------------------------
(* Steps inside a call.                                                    *)

\* Thread t stays in its call: the connection, the request and whether the
\* connection is the pool's are what they were.
Moves(t) ==
    /\ th' \in [Threads -> Call]
    /\ \A u \in Threads \ {t} : th'[u] = th[u]
    /\ th[t].pc # "idle" /\ th'[t].pc # "idle"
    /\ th'[t].pooled = th[t].pooled /\ th'[t].c = th[t].c /\ th'[t].req = th[t].req
    /\ th'[t].pc # "release" => th[t].pc # "release"

\* The fields of a call.
LEMMA CallFields ==
    ASSUME NEW x \in Call
    PROVE  /\ x.pc \in {"idle", "send", "release"} \cup Reading
           /\ x.pooled \in BOOLEAN /\ x.c \in Conns \cup {NoConn}
           /\ x.req \in Reqs \cup {NoReq} /\ x.head \in Fields
           /\ x.data \in Seq(Tokens) /\ x.body \in Seq(Tokens)
           /\ x.left \in Nat /\ x.done \in BOOLEAN /\ x.ok \in BOOLEAN
  BY DEF Call

\* The calls, with new values in t's of the fields that recvResponse changes.
Update(t, pc, head, data, body, left, done, ok) ==
    [th EXCEPT ![t] = [th[t] EXCEPT !.pc = pc, !.head = head, !.data = data, !.body = body,
                                    !.left = left, !.done = done, !.ok = ok]]

\* Thread t changes only those fields.
LEMMA UpdateMoves ==
    ASSUME TypeOK, NEW t \in Threads, th[t].pc \in Reading \cup {"send"},
           NEW pc \in Reading \cup {"release"}, NEW head \in Fields,
           NEW data \in Seq(Tokens), NEW body \in Seq(Tokens), NEW left \in Nat,
           NEW done \in BOOLEAN, NEW ok \in BOOLEAN,
           th' = Update(t, pc, head, data, body, left, done, ok)
    PROVE  Moves(t) /\ th'[t].pc = pc
  <1>1. th \in [Threads -> Call] /\ th[t] \in Call BY DEF TypeOK
  <1> DEFINE y == [th[t] EXCEPT !.pc = pc, !.head = head, !.data = data, !.body = body,
                                !.left = left, !.done = done, !.ok = ok]
  <1>2. y \in Call BY <1>1 DEF Call
  <1>3. y.pc = pc /\ y.pooled = th[t].pooled /\ y.c = th[t].c /\ y.req = th[t].req
    BY <1>1 DEF Call
  <1> HIDE DEF y
  <1>4. th' = [th EXCEPT ![t] = y] BY DEF y, Update
  <1>5. th' \in [Threads -> Call] /\ th'[t] = y /\ \A u \in Threads \ {t} : th'[u] = th[u]
    BY <1>1, <1>2, <1>4
  <1>6. pc # "idle" /\ th[t].pc # "idle" /\ th[t].pc # "release"
    BY DEF Reading
  <1> QED BY <1>3, <1>5, <1>6 DEF Moves

\* recvResponse returns a response.
LEMMA CompleteMoves ==
    ASSUME TypeOK, NEW t \in Threads, th[t].pc \in Reading,
           NEW head \in Fields, NEW body \in Seq(Tokens),
           Complete(t, head, body)
    PROVE  Moves(t)
  <1>1. th \in [Threads -> Call] /\ th[t] \in Call BY DEF TypeOK
  <1>2. th' = Update(t, "release", head, <<>>, body, 0, th[t].done, TRUE)
    BY <1>1 DEF Complete, Call, Update
  <1>3. th[t].done \in BOOLEAN /\ <<>> \in Seq(Tokens) BY <1>1, CallFields
  <1> QED BY <1>2, <1>3, UpdateMoves

\* recvResponse returns nullptr.
LEMMA FailMoves ==
    ASSUME TypeOK, NEW t \in Threads, th[t].pc \in Reading, Fail(t)
    PROVE  Moves(t) /\ th'[t].pc = "release"
  <1>1. th \in [Threads -> Call] /\ th[t] \in Call BY DEF TypeOK
  <1>2. th' = Update(t, "release", th[t].head, <<>>, <<>>, 0, th[t].done, FALSE)
    BY <1>1 DEF Fail, Call, Update
  <1>3. th[t].done \in BOOLEAN /\ <<>> \in Seq(Tokens) /\ th[t].head \in Fields
    BY <1>1, CallFields
  <1> QED BY <1>2, <1>3, UpdateMoves

\* The header is complete.
LEMMA HeaderDoneMoves ==
    ASSUME TypeOK, NEW t \in Threads, th[t].pc \in Reading,
           NEW head \in Heads \cup LostHeads, NEW rest \in Seq(Tokens),
           HeaderDone(t, head, rest)
    PROVE  Moves(t)
  <1> DEFINE n == IF head[1] = "lost" THEN 0 ELSE head[3]
  <1>1. th \in [Threads -> Call] /\ th[t] \in Call BY DEF TypeOK
  <1>2. /\ th[t].done \in BOOLEAN /\ th[t].ok \in BOOLEAN /\ th[t].body \in Seq(Tokens)
        /\ th[t].data \in Seq(Tokens) /\ th[t].left \in Nat
    BY <1>1, CallFields
  <1>3. Len(rest) \in Nat /\ n \in Nat /\ head \in Fields
    BY LenProperties, TokenTypes DEF Fields, LostHeads
  <1>4. CASE head[1] = "chunked"
    <2>1. th' = Update(t, "size", head, rest, th[t].body, th[t].left, th[t].done, th[t].ok)
      BY <1>1, <1>4 DEF HeaderDone, Call, Update
    <2> QED BY <1>2, <1>3, <2>1, UpdateMoves DEF Reading
  <1>5. CASE head[1] # "chunked" /\ n - Len(rest) <= 0
    <2>1. First(rest, n) \in Seq(Tokens) BY <1>3, <1>5, CutType
    <2>2. Complete(t, head, First(rest, n)) BY <1>5 DEF HeaderDone
    <2> QED BY <1>3, <2>1, <2>2, CompleteMoves
  <1>6. CASE head[1] # "chunked" /\ ~(n - Len(rest) <= 0)
    <2>1. th' = Update(t, "fix", head, th[t].data, rest, n - Len(rest),
                       th[t].done, th[t].ok)
      BY ZenonT(60), <1>1, <1>6 DEF HeaderDone, Call, Update
    <2>2. n - Len(rest) \in Nat BY <1>3, <1>6
    <2> QED BY <1>2, <1>3, <2>1, <2>2, UpdateMoves DEF Reading
  <1> QED BY <1>4, <1>5, <1>6

\* A chunk is complete.
LEMMA ChunkDoneMoves ==
    ASSUME TypeOK, NEW t \in Threads, th[t].pc \in Reading,
           NEW body \in Seq(Tokens), NEW data \in Seq(Tokens), NEW last \in BOOLEAN,
           ChunkDone(t, body, data, last)
    PROVE  Moves(t)
  <1>1. th \in [Threads -> Call] /\ th[t] \in Call BY DEF TypeOK
  <1>2. /\ th[t].done \in BOOLEAN /\ th[t].ok \in BOOLEAN
        /\ th[t].head \in Fields
    BY <1>1, CallFields
  <1>3. CASE last
    BY <1>2, <1>3, CompleteMoves DEF ChunkDone
  <1>4. CASE ~last
    <2>1. th' = Update(t, "size", th[t].head, data, body, 0, th[t].done, th[t].ok)
      BY ZenonT(60), <1>1, <1>4 DEF ChunkDone, Call, Update
    <2> QED BY <1>2, <2>1, UpdateMoves DEF Reading
  <1> QED BY <1>3, <1>4

\* The size line of a chunk is parsed.
LEMMA TakeChunkMoves ==
    ASSUME TypeOK, NEW t \in Threads, th[t].pc \in Reading,
           NEW data \in Seq(Tokens), data # <<>>, IsSize(data[1]), TakeChunk(t, data)
    PROVE  Moves(t)
  <1> DEFINE n == data[1][2]
             rest == Tail(data)
  <1>1. th \in [Threads -> Call] /\ th[t] \in Call BY DEF TypeOK
  <1>2. /\ th[t].ok \in BOOLEAN /\ th[t].body \in Seq(Tokens)
        /\ th[t].head \in Fields
    BY <1>1, CallFields
  <1>3. data[1] \in Tokens /\ rest \in Seq(Tokens) /\ Len(rest) \in Nat
    BY EmptySeq, ElementOfSeq, HeadTailProperties, LenProperties
  <1>4. n \in Nat /\ (n = 0) \in BOOLEAN
    BY <1>3, TokenTypes DEF IsSize
  <1>5. CASE n + 2 <= Len(rest)
    <2>1. ChunkDone(t, th[t].body \o First(rest, n), After(rest, n + 2), n = 0)
      BY <1>5 DEF TakeChunk
    <2>2. First(rest, n) \in Seq(Tokens)
      <3>1. n \in Int /\ n <= Len(rest) BY <1>3, <1>4, <1>5
      <3> QED BY <1>3, <3>1, CutType
    <2>3. After(rest, n + 2) \in Seq(Tokens)
      <3>1. n + 2 \in Int /\ n + 2 >= 0 BY <1>4
      <3> QED BY <1>3, <1>5, <3>1, CutType
    <2>4. th[t].body \o First(rest, n) \in Seq(Tokens) BY <1>2, <2>2, ConcatProperties
    <2> QED BY <1>4, <2>1, <2>3, <2>4, ChunkDoneMoves
  <1>6. CASE ~(n + 2 <= Len(rest))
    <2>1. th' = Update(t, "rest", th[t].head, <<>>, th[t].body \o rest, n - Len(rest) + 2,
                       n = 0, th[t].ok)
      <3>1. th' = [th EXCEPT ![t].pc = "rest", ![t].data = <<>>, ![t].body = @ \o rest,
                             ![t].left = n - Len(rest) + 2, ![t].done = (n = 0)]
        BY <1>6 DEF TakeChunk
      <3> HIDE DEF n, rest
      <3> QED BY ZenonT(60), <1>1, <3>1 DEF Call, Update
    <2>2. n - Len(rest) + 2 \in Nat BY <1>3, <1>4, <1>6
    <2>3. th[t].body \o rest \in Seq(Tokens) /\ <<>> \in Seq(Tokens)
      BY <1>2, <1>3, ConcatProperties
    <2> HIDE DEF n, rest
    <2> QED BY <1>2, <1>4, <2>1, <2>2, <2>3, UpdateMoves DEF Reading
  <1> QED BY <1>5, <1>6

\* What a step inside a call leaves alone: the pool, the connections that exist,
\* and all connections but its own, which it closes only when it returns.
Inside(t) ==
    /\ Moves(t)
    /\ UNCHANGED <<conns_, total_, live, issued, aborted>>
    /\ peer' \subseteq peer /\ torn' \subseteq live
    /\ wire' \in [Conns -> Seq(Tokens)]
    /\ asked' \in [Conns -> Seq(Reqs)]
    /\ \/ connected' = connected
       \/ connected' = connected \ {th[t].c} /\ th'[t].pc = "release"

\* A thread in a call holds a connection and a request.
LEMMA InCall ==
    ASSUME TypeOK, Held, NEW t \in Threads, th[t].pc # "idle"
    PROVE  th[t].c \in Conns /\ th[t].c \in live /\ th[t].req \in Reqs /\ th[t] \in Call
  BY DEF TypeOK, Held

\* A call that fails.
LEMMA FailInside ==
    ASSUME TypeOK, NEW t \in Threads, th[t].pc \in Reading, Fail(t),
           UNCHANGED <<pool, issued, aborted>>
    PROVE  Inside(t)
  <1>1. Moves(t) /\ th'[t].pc = "release" BY FailMoves
  <1>2. Close(th[t].c) BY DEF Fail
  <1>3. <<>> \in Seq(Tokens) /\ <<>> \in Seq(Reqs) OBVIOUS
  <1>4. wire' \in [Conns -> Seq(Tokens)] /\ asked' \in [Conns -> Seq(Reqs)]
    BY <1>2, <1>3 DEF Close, TypeOK
  <1> QED BY <1>1, <1>2, <1>4 DEF Close, Inside, pool, TypeOK

\* A call that reads s.
LEMMA ReadInside ==
    ASSUME TypeOK, NEW t \in Threads, Moves(t), NEW c \in Conns, NEW limit \in Nat,
           NEW s \in Segments(c, limit), Consume(c, s),
           UNCHANGED <<pool, live, issued, aborted>>
    PROVE  Inside(t)
  <1>1. SubSeq(wire[c], Len(s) + 1, Len(wire[c])) \in Seq(Tokens) BY SegmentType
  <1>2. wire' \in [Conns -> Seq(Tokens)] BY <1>1 DEF Consume, TypeOK
  <1> QED BY <1>2 DEF Consume, TypeOK, Inside, pool

\* sendRequest.
LEMMA SendInside ==
    ASSUME TypeOK, Held, NEW t \in Threads, SendRequest(t)
    PROVE  Inside(t)
  <1> DEFINE x == th[t]
  <1>1. x.pc = "send" /\ x.pc # "idle" BY DEF SendRequest
  <1>2. x.c \in Conns /\ x.req \in Reqs /\ x \in Call BY <1>1, InCall
  <1>3. asked' \in [Conns -> Seq(Reqs)]
    <2>1. asked \in [Conns -> Seq(Reqs)] BY DEF TypeOK
    <2>2. Append(asked[x.c], x.req) \in Seq(Reqs) BY <1>2, <2>1, AppendProperties
    <2> QED BY <2>1, <2>2 DEF SendRequest
  <1>4. Moves(t)
    <2>1. th' = Update(t, "head", x.head, x.data, x.body, x.left, x.done, x.ok)
      BY <1>2 DEF SendRequest, Update, TypeOK, Call
    <2>2. /\ x.head \in Fields /\ x.data \in Seq(Tokens)
          /\ x.body \in Seq(Tokens) /\ x.left \in Nat
          /\ x.done \in BOOLEAN /\ x.ok \in BOOLEAN
      BY <1>2, CallFields
    <2> QED BY <1>1, <2>1, <2>2, UpdateMoves DEF Reading
  <1> QED BY <1>3, <1>4 DEF SendRequest, Inside, TypeOK, pool

\* The header loop.
LEMMA HeaderInside ==
    ASSUME TypeOK, Held, NEW t \in Threads, ReadHeader(t)
    PROVE  Inside(t)
  <1> DEFINE x == th[t]
  <1>1. x.pc = "head" /\ x.pc # "idle" /\ x.pc \in Reading BY DEF ReadHeader, Reading
  <1>2. x.c \in Conns /\ x \in Call BY <1>1, InCall
  <1>3. x.head \in Fields BY <1>2, CallFields
  <1>4. PICK s \in Segments(x.c, BuffSize) :
            IF ~Parses(x.head, s) THEN Fail(t)
            ELSE /\ Consume(x.c, s)
                 /\ UNCHANGED live
                 /\ IF x.head # NoHead THEN HeaderDone(t, x.head, After(s, 1))
                    ELSE IF Len(s) = 1 THEN th' = [th EXCEPT ![t].head = s[1]]
                    ELSE HeaderDone(t, s[1], After(s, 2))
    BY DEF ReadHeader
  <1>5. UNCHANGED <<pool, issued, aborted>> BY DEF ReadHeader
  <1>6. BuffSize \in Nat BY BuffSizeAssumption
  <1>7. s \in Seq(Tokens) /\ Len(s) \in Nat \ {0} BY <1>2, <1>6, SegmentType
  <1>8. CASE ~Parses(x.head, s)
    BY <1>1, <1>4, <1>5, <1>8, FailInside
  <1>9. CASE Parses(x.head, s)
    <2>1. Moves(t)
      <3>1. CASE x.head # NoHead
        <4>1. HeaderDone(t, x.head, After(s, 1)) /\ x.head \in Heads \cup LostHeads
          BY <1>3, <1>4, <1>9, <3>1 DEF Fields
        <4>2. After(s, 1) \in Seq(Tokens) BY <1>7, CutType
        <4> QED BY <1>1, <4>1, <4>2, HeaderDoneMoves
      <3>2. CASE x.head = NoHead /\ Len(s) = 1
        <4>1. s[1] \in Fields BY <1>9, <3>2 DEF Parses, Fields
        <4>2. th' = Update(t, "head", s[1], x.data, x.body, x.left, x.done, x.ok)
          BY <1>1, <1>2, <1>4, <1>9, <3>2, ZenonT(30) DEF Update, TypeOK, Call
        <4>3. /\ x.data \in Seq(Tokens) /\ x.body \in Seq(Tokens) /\ x.left \in Nat
              /\ x.done \in BOOLEAN /\ x.ok \in BOOLEAN
          BY <1>2, CallFields
        <4> QED BY <1>1, <4>1, <4>2, <4>3, UpdateMoves DEF Reading
      <3>3. CASE x.head = NoHead /\ Len(s) # 1
        <4>1. HeaderDone(t, s[1], After(s, 2)) /\ s[1] \in Heads
          BY <1>4, <1>9, <3>3 DEF Parses
        <4>2. After(s, 2) \in Seq(Tokens)
          <5>0. Len(s) \in Nat /\ Len(s) # 0 /\ Len(s) # 1 BY <1>7, <3>3, Zenon
          <5>1. \A n \in Nat : n # 0 /\ n # 1 => 2 <= n OBVIOUS
          <5>2. 2 \in Int /\ 2 >= 0 OBVIOUS
          <5>3. 2 <= Len(s) BY <5>0, <5>1, Zenon
          <5> QED BY <1>7, <5>2, <5>3, CutType
        <4> QED BY <1>1, <4>1, <4>2, HeaderDoneMoves
      <3> QED BY <3>1, <3>2, <3>3
    <2> QED BY <1>2, <1>4, <1>5, <1>6, <1>9, <2>1, ReadInside
  <1> QED BY <1>8, <1>9

\* readFixSize.
LEMMA FixSizeInside ==
    ASSUME TypeOK, Held, NEW t \in Threads, ReadFixSize(t)
    PROVE  Inside(t)
  <1> DEFINE x == th[t]
  <1>1. x.pc = "fix" /\ x.pc # "idle" /\ x.pc \in Reading BY DEF ReadFixSize, Reading
  <1>2. x.c \in Conns /\ x \in Call BY <1>1, InCall
  <1>3. /\ x.head \in Fields /\ x.data \in Seq(Tokens)
        /\ x.body \in Seq(Tokens) /\ x.left \in Nat
        /\ x.done \in BOOLEAN /\ x.ok \in BOOLEAN
    BY <1>2, CallFields
  <1>4. PICK s \in Segments(x.c, x.left) :
            /\ Consume(x.c, s)
            /\ IF Len(s) = x.left THEN Complete(t, x.head, x.body \o s)
               ELSE th' = [th EXCEPT ![t].body = @ \o s, ![t].left = @ - Len(s)]
    BY DEF ReadFixSize
  <1>5. s \in Seq(Tokens) /\ Len(s) \in Nat /\ Len(s) <= x.left
    BY <1>2, <1>3, SegmentType
  <1>6. x.body \o s \in Seq(Tokens) BY <1>3, <1>5, ConcatProperties
  <1>7. CASE Len(s) = x.left
    <2>1. Moves(t) BY <1>1, <1>3, <1>4, <1>6, <1>7, CompleteMoves
    <2> QED BY <1>2, <1>3, <1>4, <2>1, ReadInside DEF ReadFixSize
  <1>8. CASE Len(s) # x.left
    <2>1. th' = Update(t, "fix", x.head, x.data, x.body \o s, x.left - Len(s), x.done, x.ok)
      BY <1>1, <1>2, <1>4, <1>8 DEF Update, TypeOK, Call
    <2>2. x.left - Len(s) \in Nat BY <1>3, <1>5
    <2>3. Moves(t) BY ZenonT(60), <1>1, <1>3, <1>6, <2>1, <2>2, UpdateMoves DEF Reading
    <2> QED BY <1>2, <1>3, <1>4, <2>3, ReadInside DEF ReadFixSize
  <1> QED BY <1>7, <1>8

\* The chunk loop, up to a chunk that is not complete in the buffer.
LEMMA ChunkInside ==
    ASSUME TypeOK, Held, NEW t \in Threads, NextChunk(t) \/ ReadChunk(t)
    PROVE  Inside(t)
  <1> DEFINE x == th[t]
  <1>1. x.pc = "size" /\ x.pc # "idle" /\ x.pc \in Reading
    BY DEF NextChunk, ReadChunk, Reading
  <1>2. x.c \in Conns /\ x \in Call BY <1>1, InCall
  <1>3. x.data \in Seq(Tokens) BY <1>2, CallFields
  <1>4. BuffSize \in Nat BY BuffSizeAssumption
  <1>5. UNCHANGED <<pool, issued, aborted>> BY DEF NextChunk, ReadChunk
  <1>6. ASSUME Fail(t) PROVE Inside(t)
    BY <1>1, <1>5, <1>6, FailInside
  <1>7. CASE NextChunk(t)
    <2>1. CASE IsSize(x.data[1])
      <3>1. x.data # <<>> /\ TakeChunk(t, x.data) /\ UNCHANGED <<live, network>>
        BY <1>7, <2>1 DEF NextChunk
      <3>2. Moves(t) BY <1>1, <1>3, <2>1, <3>1, TakeChunkMoves
      <3> QED BY <1>5, <3>1, <3>2 DEF Inside, TypeOK, pool, network
    <2>2. CASE ~IsSize(x.data[1])
      BY <1>6, <1>7, <2>2 DEF NextChunk
    <2> QED BY <2>1, <2>2
  <1>8. CASE ReadChunk(t)
    <2>1. PICK s \in Segments(x.c, BuffSize) :
            IF IsSize(s[1]) THEN Consume(x.c, s) /\ TakeChunk(t, s) /\ UNCHANGED live
                            ELSE Fail(t)
      BY <1>8 DEF ReadChunk
    <2>2. s \in Seq(Tokens) /\ Len(s) \in Nat \ {0} BY <1>2, <1>4, SegmentType
    <2>3. CASE IsSize(s[1])
      <3>1. s # <<>> BY <2>2, EmptySeq
      <3>2. Moves(t) BY <1>1, <2>1, <2>2, <2>3, <3>1, TakeChunkMoves
      <3> QED BY <1>2, <1>4, <1>5, <2>1, <2>3, <3>2, ReadInside
    <2>4. CASE ~IsSize(s[1])
      BY <1>6, <2>1, <2>4
    <2> QED BY <2>3, <2>4
  <1> QED BY <1>7, <1>8

\* The loop that reads the rest of a chunk.
LEMMA RestInside ==
    ASSUME TypeOK, Held, NEW t \in Threads, ReadRest(t)
    PROVE  Inside(t)
  <1> DEFINE x == th[t]
             limit == IF x.left > BuffSize THEN BuffSize ELSE x.left
  <1>1. x.pc = "rest" /\ x.pc # "idle" /\ x.pc \in Reading BY DEF ReadRest, Reading
  <1>2. x.c \in Conns /\ x \in Call BY <1>1, InCall
  <1>3. /\ x.head \in Fields /\ x.data \in Seq(Tokens)
        /\ x.body \in Seq(Tokens) /\ x.left \in Nat
        /\ x.done \in BOOLEAN /\ x.ok \in BOOLEAN
    BY <1>2, CallFields
  <1>4. limit \in Nat /\ limit <= x.left BY <1>3, BuffSizeAssumption
  <1>5. PICK s \in Segments(x.c, limit) :
            /\ Consume(x.c, s)
            /\ IF Len(s) = x.left
                 THEN ChunkDone(t, First(x.body \o s, Len(x.body \o s) - 2), <<>>, x.done)
                 ELSE th' = [th EXCEPT ![t].body = x.body \o s, ![t].left = @ - Len(s)]
    BY DEF ReadRest
  <1> HIDE DEF limit
  <1>6. s \in Seq(Tokens) /\ Len(s) \in Nat /\ Len(s) <= x.left
    <2>1. s \in Seq(Tokens) /\ Len(s) \in Nat /\ Len(s) <= limit
      BY <1>2, <1>4, SegmentType
    <2> QED BY <1>3, <1>4, <2>1
  <1>7. x.body \o s \in Seq(Tokens) /\ Len(x.body \o s) \in Nat
    BY <1>3, <1>6, ConcatProperties, LenProperties
  <1>8. Moves(t)
    <2>1. CASE Len(s) = x.left
      <3>1. First(x.body \o s, Len(x.body \o s) - 2) \in Seq(Tokens)
        <4>1. /\ Len(x.body \o s) - 2 \in Int
              /\ Len(x.body \o s) - 2 <= Len(x.body \o s)
          BY <1>7
        <4> QED BY <1>7, <4>1, CutType
      <3>2. <<>> \in Seq(Tokens) OBVIOUS
      <3> QED BY <1>1, <1>3, <1>5, <2>1, <3>1, <3>2, ChunkDoneMoves
    <2>2. CASE Len(s) # x.left
      <3>1. th' = Update(t, "rest", x.head, x.data, x.body \o s, x.left - Len(s),
                         x.done, x.ok)
        BY <1>1, <1>2, <1>5, <2>2 DEF Update, TypeOK, Call
      <3>2. x.left - Len(s) \in Nat BY <1>3, <1>6
      <3> QED BY ZenonT(60), <1>1, <1>3, <1>7, <3>1, <3>2, UpdateMoves DEF Reading
    <2> QED BY <2>1, <2>2
  <1> QED BY <1>2, <1>4, <1>5, <1>8, ReadInside DEF ReadRest

\* Reads that end inside a line.
LEMMA PartInside ==
    ASSUME TypeOK, Held, NEW t \in Threads, ReadPartOfHeader(t) \/ ReadPartOfSize(t)
    PROVE  Inside(t)
  <1> DEFINE x == th[t]
  <1>1. x.pc \in {"head", "size"} /\ x.pc # "idle" /\ x.pc # "release" /\ x.pc \in Reading
    BY DEF ReadPartOfHeader, ReadPartOfSize, Reading
  <1>2. x.c \in Conns /\ x.c \in live /\ x \in Call /\ th \in [Threads -> Call]
    BY <1>1, InCall DEF TypeOK
  <1>3. /\ UNCHANGED <<conns_, total_, live, issued, aborted, peer, asked, connected>>
        /\ torn' = torn \cup {x.c} /\ wire[x.c] # <<>>
    BY DEF ReadPartOfHeader, ReadPartOfSize, pool
  <1>4. wire \in [Conns -> Seq(Tokens)] /\ wire[x.c] \in Seq(Tokens) BY <1>2 DEF TypeOK
  <1>5. Tail(wire[x.c]) \in Seq(Tokens) /\ wire[x.c][1] \in Tokens
    BY <1>3, <1>4, HeadTailProperties, EmptySeq, ElementOfSeq
  <1>6. CASE ReadPartOfHeader(t)
    <2>1. wire[x.c][1] \in Heads /\ wire[x.c][1][2] \in Reqs /\ wire[x.c][1][3] \in 0 .. MaxBody
      <3>1. wire[x.c][1][1] = "length" BY <1>6 DEF ReadPartOfHeader
      <3>2. wire[x.c][1] \in Heads
        BY <1>5, <3>1 DEF Tokens, End, Cr, Lf, Size, Byte
      <3> QED BY <3>2 DEF Heads
    <2>2. Lost(wire[x.c][1][2], wire[x.c][1][3]) \in Fields
      BY <2>1 DEF Lost, LostHeads, Fields
    <2>3. /\ x.data \in Seq(Tokens) /\ x.body \in Seq(Tokens) /\ x.left \in Nat
          /\ x.done \in BOOLEAN /\ x.ok \in BOOLEAN
      BY <1>2, CallFields
    <2> DEFINE h == Lost(wire[x.c][1][2], wire[x.c][1][3])
    <2>4. th' = [th EXCEPT ![t].head = h] /\ x.pc = "head" BY <1>6 DEF ReadPartOfHeader
    <2> HIDE DEF h
    <2>5. th' = Update(t, "head", h, x.data, x.body, x.left, x.done, x.ok)
      BY <1>2, <2>4 DEF Update, Call
    <2>6. h \in Fields BY <2>2 DEF h
    <2>7. Moves(t) BY <1>1, <2>3, <2>5, <2>6, UpdateMoves DEF Reading
    <2>8. wire' \in [Conns -> Seq(Tokens)]
      BY <1>4, <1>5, <1>6 DEF ReadPartOfHeader
    <2> QED BY <1>2, <1>3, <2>7, <2>8 DEF Inside, TypeOK
  <1>7. CASE ReadPartOfSize(t)
    <2>1. PICK part \in PartsOfSize(wire[x.c][1][2]) :
              wire' = [wire EXCEPT ![x.c] = part \o Tail(@)]
      BY <1>7 DEF ReadPartOfSize
    <2>2. part \in Seq(Tokens)
      <3>1. wire[x.c][1][2] \in 0 .. MaxBody
        BY <1>5, <1>7, TokenTypes DEF ReadPartOfSize, IsSize
      <3>2. CASE part = <<Lf>> BY <3>2, TokenTypes
      <3>3. CASE part # <<Lf>>
        <4>1. PICK m \in LowDigits(wire[x.c][1][2]) : part = <<Size(m)>>
          BY <3>3 DEF PartsOfSize
        <4>2. m \in 0 .. MaxBody BY <3>1, <4>1, BoundsAssumption DEF LowDigits
        <4> QED BY <4>1, <4>2, TokenTypes
      <3> QED BY <3>2, <3>3
    <2>3. part \o Tail(wire[x.c]) \in Seq(Tokens) BY <1>5, <2>2, ConcatProperties
    <2>4. wire' \in [Conns -> Seq(Tokens)] BY <1>4, <2>1, <2>3
    <2>5. th' = th BY <1>7 DEF ReadPartOfSize
    <2>6. Moves(t) BY <1>1, <1>2, <2>5 DEF Moves
    <2> QED BY <1>2, <1>3, <2>4, <2>6 DEF Inside, TypeOK
  <1> QED BY <1>6, <1>7

\* Every step of a thread that neither starts nor ends a call.
LEMMA ProceedsInside ==
    ASSUME TypeOK, Held, NEW t \in Threads, SendRequest(t) \/ Receives(t)
    PROVE  Inside(t)
  <1>1. CASE SendRequest(t) BY <1>1, SendInside
  <1>2. CASE ReadFails(t) BY <1>2, FailInside DEF ReadFails
  <1>3. CASE ReadHeader(t) BY <1>3, HeaderInside
  <1>4. CASE ReadFixSize(t) BY <1>4, FixSizeInside
  <1>5. CASE NextChunk(t) \/ ReadChunk(t) BY <1>5, ChunkInside
  <1>6. CASE ReadRest(t) BY <1>6, RestInside
  <1>7. CASE ReadPartOfHeader(t) \/ ReadPartOfSize(t) BY <1>7, PartInside
  <1> QED BY <1>1, <1>2, <1>3, <1>4, <1>5, <1>6, <1>7 DEF Receives

-----------------------------------------------------------------------------
(* The invariant.                                                          *)

\* One thread takes a step: what becomes of the number of borrowers.
LEMMA BorrowCount ==
    ASSUME NEW t \in Threads, \A u \in Threads \ {t} : th'[u] = th[u]
    PROVE  LET was == th[t].pc # "idle" /\ th[t].pooled
               is  == th'[t].pc # "idle" /\ th'[t].pooled
           IN  /\ Cardinality(Borrowers) \in Nat
               /\ (was <=> is) => Cardinality(Borrowers') = Cardinality(Borrowers)
               /\ was /\ ~is => Cardinality(Borrowers') = Cardinality(Borrowers) - 1
               /\ ~was /\ is => Cardinality(Borrowers') = Cardinality(Borrowers) + 1
  <1> DEFINE was == th[t].pc # "idle" /\ th[t].pooled
             is  == th'[t].pc # "idle" /\ th'[t].pooled
  <1>1. IsFiniteSet(Borrowers) BY ThreadsAssumption, FS_Subset DEF Borrowers
  <1>2. ASSUME was <=> is PROVE Borrowers' = Borrowers
    BY <1>2 DEF Borrowers
  <1>3. ASSUME was, ~is PROVE Cardinality(Borrowers') = Cardinality(Borrowers) - 1
    <2>1. Borrowers' = Borrowers \ {t} /\ t \in Borrowers BY <1>3 DEF Borrowers
    <2> QED BY <1>1, <2>1, FS_RemoveElement
  <1>4. ASSUME ~was, is PROVE Cardinality(Borrowers') = Cardinality(Borrowers) + 1
    <2>1. Borrowers' = Borrowers \cup {t} /\ t \notin Borrowers BY <1>4 DEF Borrowers
    <2> QED BY <1>1, <2>1, FS_AddElement
  <1> QED BY <1>1, <1>2, <1>3, <1>4, FS_CardinalityType

\* A step inside a call keeps the invariant.
LEMMA InsideInv ==
    ASSUME IInv, NEW t \in Threads, Inside(t)
    PROVE  IInv'
  <1>1. /\ th' \in [Threads -> Call] /\ \A u \in Threads \ {t} : th'[u] = th[u]
        /\ th[t].pc # "idle" /\ th'[t].pc # "idle" /\ th'[t].pooled = th[t].pooled
        /\ th'[t].c = th[t].c /\ th'[t].req = th[t].req
        /\ th'[t].pc # "release" => th[t].pc # "release"
    BY DEF Inside, Moves
  <1>2. /\ conns_' = conns_ /\ total_' = total_ /\ live' = live /\ issued' = issued
        /\ aborted' = aborted /\ connected' \subseteq connected
    BY DEF Inside
  <1>3. TypeOK'
    BY <1>1, <1>2 DEF IInv, TypeOK, Inside
  <1>4. ASSUME NEW u \in Threads, u # t, th[u].pc # "idle" PROVE th[u].c # th[t].c
    BY <1>1, <1>4 DEF IInv, OneOwner
  <1>5. Held'
    <2> SUFFICES ASSUME NEW u \in Threads, th'[u].pc # "idle"
                 PROVE  /\ th'[u].c \in live' /\ th'[u].req \in Reqs
                        /\ th'[u].pc # "release" => th'[u].c \in connected'
      BY DEF Held
    <2>1. CASE u = t
      BY <1>1, <1>2, <2>1 DEF IInv, Held, Inside
    <2>2. CASE u # t
      BY <1>1, <1>2, <1>4, <2>2 DEF IInv, Held, Inside
    <2> QED BY <2>1, <2>2
  <1>6. OneOwner'
    <2>1. /\ \A i, j \in DOMAIN conns_' : conns_'[i] = conns_'[j] => i = j
          /\ \A i \in DOMAIN conns_' : conns_'[i] \in connected'
      BY <1>1, <1>2 DEF IInv, OneOwner, Inside
    <2>2. \A u \in Threads : th'[u].c = th[u].c /\ (th'[u].pc # "idle" <=> th[u].pc # "idle")
      BY <1>1
    <2> QED BY <1>2, <2>1, <2>2 DEF IInv, OneOwner
  <1>7. TotalExact'
    <2>1. Cardinality(Borrowers') = Cardinality(Borrowers)
      BY <1>1, BorrowCount
    <2> QED BY <1>2, <2>1 DEF IInv, TotalExact
  <1> QED BY <1>3, <1>5, <1>6, <1>7 DEF IInv

\* Deleting and creating connections leaves the streams streams.
LEMMA RenewType ==
    ASSUME TypeOK, NEW gone, NEW fresh \in SUBSET Conns, Renew(gone, fresh)
    PROVE  /\ live' \subseteq Conns /\ connected' \subseteq live' /\ peer' \subseteq live'
           /\ torn' \subseteq live'
           /\ wire' \in [Conns -> Seq(Tokens)] /\ asked' \in [Conns -> Seq(Reqs)]
  <1>1. <<>> \in Seq(Tokens) /\ <<>> \in Seq(Reqs) OBVIOUS
  <1> QED BY <1>1 DEF Renew, TypeOK

\* A call starts.
LEMMA BeginStarts ==
    ASSUME TypeOK, NEW t \in Threads, NEW c \in Conns, NEW fromPool \in BOOLEAN,
           CanIssue(t), Begin(t, c, fromPool)
    PROVE  /\ th' \in [Threads -> Call] /\ \A u \in Threads \ {t} : th'[u] = th[u]
           /\ th'[t].pc = "send" /\ th'[t].pooled = fromPool /\ th'[t].c = c
           /\ th'[t].req \in Reqs /\ issued' \in 0 .. MaxRequests
  <1> DEFINE y == [Idle EXCEPT !.pc = "send", !.pooled = fromPool, !.c = c, !.req = issued + 1]
  <1>1. issued + 1 \in Reqs /\ issued' \in 0 .. MaxRequests
    BY BoundsAssumption DEF TypeOK, CanIssue, Begin, Reqs
  <1>2. <<>> \in Seq(Tokens) OBVIOUS
  <1>3. y \in Call /\ y.pc = "send" /\ y.pooled = fromPool /\ y.c = c /\ y.req = issued + 1
    BY <1>1, <1>2 DEF Idle, Call, Fields
  <1>4. th' = [th EXCEPT ![t] = y] BY DEF Begin
  <1> HIDE DEF y
  <1> QED BY <1>1, <1>3, <1>4 DEF TypeOK

\* A call ends.
LEMMA EndsIdle ==
    ASSUME TypeOK, NEW t \in Threads, th' = [th EXCEPT ![t] = Idle]
    PROVE  /\ th' \in [Threads -> Call] /\ \A u \in Threads \ {t} : th'[u] = th[u]
           /\ th'[t].pc = "idle"
  <1>1. <<>> \in Seq(Tokens) OBVIOUS
  <1>2. Idle \in Call /\ Idle.pc = "idle"
    BY <1>1 DEF Idle, Call, Fields
  <1> QED BY <1>2 DEF TypeOK

\* Every pooled connection is usable: getConnection takes the first one of the
\* list, and connects only when the list is empty.
LEMMA FirstIsUsable ==
    ASSUME IInv, NEW i, FirstUsable(i)
    PROVE  /\ i = 1 \/ Len(conns_) = 0
           /\ i = Len(conns_) + 1 => conns_ = <<>> /\ Len(conns_) = 0
           /\ i = 1 => Passed(i) = {}
  <1>1. conns_ \in Seq(Conns) /\ Len(conns_) \in Nat /\ DOMAIN conns_ = 1 .. Len(conns_)
    BY LenProperties DEF IInv, TypeOK
  <1>2. \A j \in 1 .. Len(conns_) : Usable(conns_[j])
    BY <1>1, LifetimeAssumption DEF IInv, OneOwner, Usable, TooOld
  <1>3. i \in 1 .. Len(conns_) + 1 /\ \A j \in 1 .. i - 1 : ~Usable(conns_[j])
    BY DEF FirstUsable
  <1>4. i = 1
    <2>1. ASSUME i # 1 PROVE FALSE
      <3>1. 1 \in 1 .. i - 1 /\ 1 \in 1 .. Len(conns_) BY <1>1, <1>3, <2>1
      <3> QED BY <1>2, <1>3, <3>1
    <2> QED BY <2>1
  <1>5. i = Len(conns_) + 1 => Len(conns_) = 0 BY <1>1, <1>4
  <1>6. Len(conns_) = 0 => conns_ = <<>> BY <1>1, EmptySeq
  <1>7. Passed(1) = {} BY DEF Passed
  <1> QED BY <1>4, <1>5, <1>6, <1>7

\* A call starts on a connection c that no thread holds: Held and the third
\* part of OneOwner.
LEMMA StartHeld ==
    ASSUME IInv, NEW t \in Threads, NEW c \in Conns,
           \A u \in Threads \ {t} : th'[u] = th[u], th[t].pc = "idle",
           th'[t].pc = "send", th'[t].c = c, th'[t].req \in Reqs,
           live \subseteq live', connected \subseteq connected',
           c \in live', c \in connected',
           \A u \in Threads : th[u].pc # "idle" => th[u].c # c
    PROVE  /\ Held'
           /\ \A u, v \in Threads :
                th'[u].pc # "idle" /\ th'[v].pc # "idle" /\ th'[u].c = th'[v].c => u = v
  <1>1. Held'
    <2> SUFFICES ASSUME NEW u \in Threads, th'[u].pc # "idle"
                 PROVE  /\ th'[u].c \in live' /\ th'[u].req \in Reqs
                        /\ th'[u].pc # "release" => th'[u].c \in connected'
      BY DEF Held
    <2>1. CASE u = t BY <2>1
    <2>2. CASE u # t BY <2>2 DEF IInv, Held
    <2> QED BY <2>1, <2>2
  <1>2. ASSUME NEW u \in Threads, NEW v \in Threads,
               th'[u].pc # "idle", th'[v].pc # "idle", th'[u].c = th'[v].c
        PROVE  u = v
    <2>1. CASE u = t \/ v = t BY <1>2, <2>1
    <2>2. CASE u # t /\ v # t BY <1>2, <2>2 DEF IInv, OneOwner
    <2> QED BY <2>1, <2>2
  <1> QED BY <1>1, <1>2

\* getConnection takes a connection from the list.
LEMMA TakePooledInv ==
    ASSUME IInv, NEW t \in Threads, TakePooled(t)
    PROVE  IInv'
  <1>1. PICK i \in 1 .. Len(conns_) :
        /\ FirstUsable(i)
        /\ conns_' = SubSeq(conns_, i + 1, Len(conns_))
        /\ total_' = total_ - (i - 1)
        /\ Renew(Passed(i), {})
        /\ Begin(t, conns_[i], TRUE)
    BY DEF TakePooled
  <1>2. TypeOK /\ CanIssue(t) /\ aborted' = aborted BY DEF IInv, TakePooled
  <1>3. conns_ \in Seq(Conns) /\ Len(conns_) \in Nat /\ DOMAIN conns_ = 1 .. Len(conns_)
    BY LenProperties DEF IInv, TypeOK
  <1>4. i = 1 /\ Passed(i) = {}
    <2>1. Len(conns_) # 0 BY <1>3
    <2> QED BY <1>1, <2>1, FirstIsUsable
  <1>5. 1 \in 1 .. Len(conns_) /\ conns_[1] \in Conns BY <1>1, <1>3, <1>4, ElementOfSeq
  <1>6. live' = live /\ connected' = connected BY <1>1, <1>4 DEF Renew
  <1>7. /\ conns_' \in Seq(Conns) /\ Len(conns_') = Len(conns_) - 1
        /\ \A j \in 1 .. Len(conns_) - 1 : conns_'[j] = conns_[j + 1]
        /\ DOMAIN conns_' = 1 .. Len(conns_) - 1
    <2>1. conns_' = SubSeq(conns_, 2, Len(conns_)) BY <1>1, <1>4
    <2>2. 2 \in Int /\ Len(conns_) \in Int /\ \A j \in 2 .. Len(conns_) : conns_[j] \in Conns
      BY <1>3, ElementOfSeq
    <2>3. /\ SubSeq(conns_, 2, Len(conns_)) \in Seq(Conns)
          /\ Len(SubSeq(conns_, 2, Len(conns_)))
                = IF 2 <= Len(conns_) THEN Len(conns_) - 2 + 1 ELSE 0
          /\ \A j \in 1 .. Len(conns_) - 2 + 1 :
                SubSeq(conns_, 2, Len(conns_))[j] = conns_[2 + j - 1]
      BY <2>2, SubSeqProperties
    <2>4. conns_' \in Seq(Conns) /\ Len(conns_') = Len(conns_) - 1
      BY <1>3, <1>5, <2>1, <2>3
    <2>5. ASSUME NEW j \in 1 .. Len(conns_) - 1 PROVE conns_'[j] = conns_[j + 1]
      <3>1. j \in 1 .. Len(conns_) - 2 + 1 /\ 2 + j - 1 = j + 1 BY <1>3
      <3> QED BY <2>1, <2>3, <3>1
    <2> QED BY <2>4, <2>5, LenProperties
  <1>8. /\ th' \in [Threads -> Call] /\ \A u \in Threads \ {t} : th'[u] = th[u]
        /\ th'[t].pc = "send" /\ th'[t].pooled = TRUE /\ th'[t].c = conns_[1]
        /\ th'[t].req \in Reqs /\ issued' \in 0 .. MaxRequests
    BY <1>1, <1>2, <1>4, <1>5, BeginStarts
  <1>9. th[t].pc = "idle" BY <1>2 DEF CanIssue
  <1>10. TypeOK'
    <2>1. /\ live' \subseteq Conns /\ connected' \subseteq live' /\ peer' \subseteq live'
          /\ torn' \subseteq live'
          /\ wire' \in [Conns -> Seq(Tokens)] /\ asked' \in [Conns -> Seq(Reqs)]
      BY <1>1, <1>2, RenewType
    <2>2. total_' \in Int BY <1>1, <1>2, <1>4 DEF TypeOK
    <2> QED BY <1>2, <1>7, <1>8, <2>1, <2>2 DEF TypeOK
  <1>11. \A u \in Threads : th[u].pc # "idle" => th[u].c # conns_[1]
    BY <1>3, <1>5 DEF IInv, OneOwner
  <1>12. conns_[1] \in connected /\ conns_[1] \in live
    BY <1>3, <1>5 DEF IInv, OneOwner, TypeOK
  <1>13. /\ Held'
         /\ \A u, v \in Threads :
              th'[u].pc # "idle" /\ th'[v].pc # "idle" /\ th'[u].c = th'[v].c => u = v
    BY <1>5, <1>6, <1>8, <1>9, <1>11, <1>12, StartHeld
  <1>14. OneOwner'
    <2>1. \A j \in DOMAIN conns_' : j + 1 \in DOMAIN conns_ /\ conns_'[j] = conns_[j + 1]
      BY <1>3, <1>7
    <2>2. \A j, k \in DOMAIN conns_' : conns_'[j] = conns_'[k] => j = k
      <3> SUFFICES ASSUME NEW j \in DOMAIN conns_', NEW k \in DOMAIN conns_',
                          conns_'[j] = conns_'[k]
                   PROVE  j = k
        OBVIOUS
      <3>1. j + 1 = k + 1 BY <2>1 DEF IInv, OneOwner
      <3> QED BY <1>7, <3>1
    <2>3. \A j \in DOMAIN conns_' : conns_'[j] \in connected'
      BY <1>6, <2>1 DEF IInv, OneOwner
    <2>4. ASSUME NEW u \in Threads, th'[u].pc # "idle", NEW j \in DOMAIN conns_'
          PROVE  conns_'[j] # th'[u].c
      <3>1. CASE u = t
        <4>1. j + 1 # 1 BY <1>7
        <4> QED BY <1>3, <1>5, <1>8, <2>1, <3>1, <4>1 DEF IInv, OneOwner
      <3>2. CASE u # t BY <1>8, <2>1, <2>4, <3>2 DEF IInv, OneOwner
      <3> QED BY <3>1, <3>2
    <2> QED BY <1>13, <2>2, <2>3, <2>4 DEF OneOwner
  <1>15. TotalExact'
    <2>1. /\ Cardinality(Borrowers) \in Nat
          /\ Cardinality(Borrowers') = Cardinality(Borrowers) + 1
      BY <1>8, <1>9, BorrowCount
    <2> QED BY <1>1, <1>3, <1>4, <1>7, <2>1 DEF IInv, TotalExact, TypeOK
  <1> QED BY <1>10, <1>13, <1>14, <1>15 DEF IInv

\* A call starts on a connection that has just been made.
LEMMA FreshInv ==
    ASSUME IInv, NEW t \in Threads, NEW c \in Conns \ live, NEW fromPool \in BOOLEAN,
           CanIssue(t), Renew({}, {c}), Begin(t, c, fromPool), conns_' = conns_,
           total_' = total_ + (IF fromPool THEN 1 ELSE 0), aborted' = aborted
    PROVE  IInv'
  <1>1. TypeOK BY DEF IInv
  <1>2. /\ th' \in [Threads -> Call] /\ \A u \in Threads \ {t} : th'[u] = th[u]
        /\ th'[t].pc = "send" /\ th'[t].pooled = fromPool /\ th'[t].c = c
        /\ th'[t].req \in Reqs /\ issued' \in 0 .. MaxRequests
    BY <1>1, BeginStarts
  <1>3. th[t].pc = "idle" BY DEF CanIssue
  <1>4. live' = live \cup {c} /\ connected' = connected \cup {c} BY DEF Renew
  <1>5. TypeOK'
    <2>1. /\ live' \subseteq Conns /\ connected' \subseteq live' /\ peer' \subseteq live'
          /\ torn' \subseteq live'
          /\ wire' \in [Conns -> Seq(Tokens)] /\ asked' \in [Conns -> Seq(Reqs)]
      BY <1>1, RenewType
    <2>2. total_' \in Int BY <1>1 DEF TypeOK
    <2> QED BY <1>1, <1>2, <2>1, <2>2 DEF TypeOK
  <1>6. \A u \in Threads : th[u].pc # "idle" => th[u].c # c
    BY DEF IInv, Held
  <1>7. /\ Held'
        /\ \A u, v \in Threads :
             th'[u].pc # "idle" /\ th'[v].pc # "idle" /\ th'[u].c = th'[v].c => u = v
    BY <1>2, <1>3, <1>4, <1>6, StartHeld
  <1>8. OneOwner'
    <2>1. \A i \in DOMAIN conns_ : conns_[i] # c
      BY <1>1 DEF IInv, OneOwner, TypeOK
    <2>2. ASSUME NEW u \in Threads, th'[u].pc # "idle", NEW j \in DOMAIN conns_'
          PROVE  conns_'[j] # th'[u].c
      <3>1. CASE u = t BY <1>2, <2>1, <3>1
      <3>2. CASE u # t BY <1>2, <2>2, <3>2 DEF IInv, OneOwner
      <3> QED BY <3>1, <3>2
    <2>3. /\ \A i, j \in DOMAIN conns_' : conns_'[i] = conns_'[j] => i = j
          /\ \A i \in DOMAIN conns_' : conns_'[i] \in connected'
      BY <1>4 DEF IInv, OneOwner
    <2> QED BY <1>7, <2>2, <2>3 DEF OneOwner
  <1>9. TotalExact'
    <2>1. Len(conns_) \in Nat BY <1>1, LenProperties DEF TypeOK
    <2>2. CASE fromPool
      <3>1. /\ Cardinality(Borrowers) \in Nat
            /\ Cardinality(Borrowers') = Cardinality(Borrowers) + 1
        BY <1>2, <1>3, <2>2, BorrowCount
      <3> QED BY <1>1, <2>1, <2>2, <3>1 DEF IInv, TotalExact, TypeOK
    <2>3. CASE ~fromPool
      <3>1. /\ Cardinality(Borrowers) \in Nat
            /\ Cardinality(Borrowers') = Cardinality(Borrowers)
        BY <1>2, <1>3, <2>3, BorrowCount
      <3> QED BY <1>1, <2>1, <2>3, <3>1 DEF IInv, TotalExact, TypeOK
    <2> QED BY <2>2, <2>3
  <1> QED BY <1>5, <1>7, <1>8, <1>9 DEF IInv

\* A step that leaves the pool, the connections and the calls alone.
LEMMA QuietInv ==
    ASSUME IInv, TypeOK', UNCHANGED <<conns_, total_, live, connected, th>>
    PROVE  IInv'
  BY DEF IInv, Held, OneOwner, TotalExact, Borrowers

\* A request starts.
LEMMA IssuesInv ==
    ASSUME IInv, NEW t \in Threads, Issues(t)
    PROVE  IInv'
  <1>1. TypeOK BY DEF IInv
  <1>2. CASE TakePooled(t) BY <1>2, TakePooledInv
  <1>3. ASSUME FirstUsable(Len(conns_) + 1)
        PROVE  conns_ = <<>> /\ Len(conns_) = 0 /\ Passed(Len(conns_) + 1) = {}
    <2>1. conns_ = <<>> /\ Len(conns_) = 0 BY <1>3, FirstIsUsable
    <2> QED BY <2>1 DEF Passed
  <1>4. CASE NewPooled(t)
    <2>1. conns_ = <<>> /\ Len(conns_) = 0 /\ Passed(Len(conns_) + 1) = {}
      BY <1>3, <1>4 DEF NewPooled
    <2>2. PICK c \in Conns \ live : Renew({}, {c}) /\ Begin(t, c, TRUE)
      BY <1>4, <2>1 DEF NewPooled
    <2>3. conns_' = conns_ /\ total_' = total_ + 1 /\ aborted' = aborted /\ CanIssue(t)
      BY <1>1, <1>4, <2>1 DEF NewPooled, TypeOK
    <2> QED BY <2>2, <2>3, FreshInv
  <1>5. CASE NewPooledFails(t)
    <2>1. conns_ = <<>> /\ Len(conns_) = 0 /\ Passed(Len(conns_) + 1) = {}
      BY <1>3, <1>5 DEF NewPooledFails
    <2>2. /\ Renew({}, {}) /\ conns_' = conns_ /\ total_' = total_
          /\ th' = th /\ issued' = issued /\ aborted' = TRUE
      <3>1. Renew({}, {}) BY <1>5, <2>1 DEF NewPooledFails
      <3>2. total_' = total_ BY <1>1, <1>5, <2>1 DEF NewPooledFails, TypeOK
      <3>3. conns_' = conns_ BY <1>5, <2>1 DEF NewPooledFails
      <3>4. th' = th /\ issued' = issued /\ aborted' = TRUE
        BY <1>5 DEF NewPooledFails
      <3> QED BY <3>1, <3>2, <3>3, <3>4
    <2>3. live' = live /\ connected' = connected BY <2>2 DEF Renew
    <2>4. TypeOK'
      <3>1. /\ live' \subseteq Conns /\ connected' \subseteq live' /\ peer' \subseteq live'
            /\ torn' \subseteq live'
          /\ torn' \subseteq live'
            /\ wire' \in [Conns -> Seq(Tokens)] /\ asked' \in [Conns -> Seq(Reqs)]
        BY <1>1, <2>2, RenewType
      <3> QED BY <1>1, <2>2, <3>1 DEF TypeOK
    <2> QED BY <2>2, <2>3, <2>4, QuietInv
  <1>6. CASE Connect(t)
    <2>1. PICK c \in Conns \ live : Renew({}, {c}) /\ Begin(t, c, FALSE)
      BY <1>6 DEF Connect
    <2>2. conns_' = conns_ /\ total_' = total_ + 0 /\ aborted' = aborted /\ CanIssue(t)
      BY <1>1, <1>6 DEF Connect, TypeOK, pool
    <2> QED BY <2>1, <2>2, FreshInv
  <1>7. CASE ConnectFails(t)
    <2>1. TypeOK'
      <3>1. issued' \in 0 .. MaxRequests
        BY <1>1, <1>7, BoundsAssumption DEF ConnectFails, CanIssue, TypeOK
      <3> QED BY <1>1, <1>7, <3>1 DEF ConnectFails, TypeOK, pool, network
    <2> QED BY <1>7, <2>1, QuietInv DEF ConnectFails, pool, network
  <1> QED BY <1>2, <1>4, <1>5, <1>6, <1>7 DEF Issues

\* A call returns and its connection c is deleted.
LEMMA DeleteInv ==
    ASSUME IInv, NEW t \in Threads, th[t].pc # "idle", Renew({th[t].c}, {}),
           th' = [th EXCEPT ![t] = Idle], conns_' = conns_,
           total_' = total_ - (IF th[t].pooled THEN 1 ELSE 0),
           UNCHANGED <<issued, aborted>>
    PROVE  IInv'
  <1>1. TypeOK BY DEF IInv
  <1>2. /\ th' \in [Threads -> Call] /\ \A u \in Threads \ {t} : th'[u] = th[u]
        /\ th'[t].pc = "idle"
    BY <1>1, EndsIdle
  <1>3. live' = live \ {th[t].c} /\ connected' = connected \ {th[t].c} BY DEF Renew
  <1>4. TypeOK'
    <2>1. /\ live' \subseteq Conns /\ connected' \subseteq live' /\ peer' \subseteq live'
          /\ torn' \subseteq live'
          /\ wire' \in [Conns -> Seq(Tokens)] /\ asked' \in [Conns -> Seq(Reqs)]
      BY <1>1, RenewType
    <2>2. total_' \in Int BY <1>1 DEF TypeOK
    <2> QED BY <1>1, <1>2, <2>1, <2>2 DEF TypeOK
  <1>5. \A u \in Threads : th'[u].pc # "idle" =>
            u # t /\ th'[u] = th[u] /\ th[u].c # th[t].c
    BY <1>2 DEF IInv, OneOwner
  <1>6. Held'
    BY <1>3, <1>5 DEF IInv, Held
  <1>7. OneOwner'
    <2>1. /\ \A i, j \in DOMAIN conns_' : conns_'[i] = conns_'[j] => i = j
          /\ \A i \in DOMAIN conns_' : conns_'[i] \in connected'
      BY <1>3 DEF IInv, OneOwner
    <2> QED BY <1>5, <2>1 DEF IInv, OneOwner
  <1>8. TotalExact'
    <2>1. Len(conns_) \in Nat BY <1>1, LenProperties DEF TypeOK
    <2>2. CASE th[t].pooled
      <3>1. /\ Cardinality(Borrowers) \in Nat
            /\ Cardinality(Borrowers') = Cardinality(Borrowers) - 1
        BY <1>2, <2>2, BorrowCount
      <3> QED BY <1>1, <2>1, <2>2, <3>1 DEF IInv, TotalExact, TypeOK
    <2>3. CASE ~th[t].pooled
      <3>1. /\ Cardinality(Borrowers) \in Nat
            /\ Cardinality(Borrowers') = Cardinality(Borrowers)
        BY <1>2, <2>3, BorrowCount
      <3> QED BY <1>1, <2>1, <2>3, <3>1 DEF IInv, TotalExact, TypeOK
    <2> QED BY <2>2, <2>3
  <1> QED BY <1>4, <1>6, <1>7, <1>8 DEF IInv

\* ReleasePtr puts the connection back.
LEMMA PutBackInv ==
    ASSUME IInv, NEW t \in Threads, th[t].pc # "idle", th[t].pooled, th[t].c \in connected,
           conns_' = Append(conns_, th[t].c), th' = [th EXCEPT ![t] = Idle],
           UNCHANGED <<total_, live, network, issued, aborted>>
    PROVE  IInv'
  <1> DEFINE c == th[t].c
  <1>1. TypeOK BY DEF IInv
  <1>2. /\ th' \in [Threads -> Call] /\ \A u \in Threads \ {t} : th'[u] = th[u]
        /\ th'[t].pc = "idle"
    BY <1>1, EndsIdle
  <1>3. conns_ \in Seq(Conns) /\ Len(conns_) \in Nat /\ DOMAIN conns_ = 1 .. Len(conns_)
    BY <1>1, LenProperties DEF TypeOK
  <1>4. c \in Conns BY <1>1 DEF TypeOK
  <1>5. /\ conns_' \in Seq(Conns) /\ Len(conns_') = Len(conns_) + 1
        /\ DOMAIN conns_' = 1 .. Len(conns_) + 1
        /\ \A i \in 1 .. Len(conns_) : conns_'[i] = conns_[i]
        /\ conns_'[Len(conns_) + 1] = c
    BY <1>3, <1>4, AppendProperties, LenProperties
  <1>6. TypeOK'
    BY <1>1, <1>2, <1>5 DEF TypeOK, network
  <1>7. \A u \in Threads : th'[u].pc # "idle" => u # t /\ th'[u] = th[u] /\ th[u].c # c
    BY <1>2 DEF IInv, OneOwner
  <1>8. Held'
    BY <1>7 DEF IInv, Held, network
  <1>9. \A i \in DOMAIN conns_' : \/ (i \in DOMAIN conns_ /\ conns_'[i] = conns_[i])
                                  \/ (i = Len(conns_) + 1 /\ conns_'[i] = c)
    BY <1>3, <1>5
  <1>10. \A i \in DOMAIN conns_ : conns_[i] # c
    BY DEF IInv, OneOwner
  <1>11. OneOwner'
    <2>1. \A i, j \in DOMAIN conns_' : conns_'[i] = conns_'[j] => i = j
      BY <1>9, <1>10 DEF IInv, OneOwner
    <2>2. \A i \in DOMAIN conns_' : conns_'[i] \in connected'
      BY <1>9 DEF IInv, OneOwner, network
    <2>3. \A u, v \in Threads :
            th'[u].pc # "idle" =>
                /\ \A i \in DOMAIN conns_' : conns_'[i] # th'[u].c
                /\ th'[v].pc # "idle" /\ th'[u].c = th'[v].c => u = v
      BY <1>7, <1>9 DEF IInv, OneOwner
    <2> QED BY <2>1, <2>2, <2>3 DEF OneOwner
  <1>12. TotalExact'
    <2>1. /\ Cardinality(Borrowers) \in Nat
          /\ Cardinality(Borrowers') = Cardinality(Borrowers) - 1
      BY <1>2, BorrowCount
    <2> QED BY <1>1, <1>3, <1>5, <2>1 DEF IInv, TotalExact, TypeOK
  <1> QED BY <1>6, <1>8, <1>11, <1>12 DEF IInv

\* Every step of a thread in a call.
LEMMA ProceedsInv ==
    ASSUME IInv, NEW t \in Threads, Proceeds(t)
    PROVE  IInv'
  <1>1. TypeOK /\ Held BY DEF IInv
  <1>2. CASE SendRequest(t) \/ Receives(t)
    BY <1>1, <1>2, ProceedsInside, InsideInv
  <1>3. CASE ReleasePtr(t)
    <2>1. th[t].pc # "idle" /\ th[t].pooled /\ th' = [th EXCEPT ![t] = Idle]
          /\ UNCHANGED <<issued, aborted>>
      BY <1>3 DEF ReleasePtr
    <2>2. ~(0 + MaxAliveTime >= NowMs) BY LifetimeAssumption
    <2>3. CASE th[t].c \notin connected
      <3>1. Renew({th[t].c}, {}) /\ total_' = total_ - 1 /\ conns_' = conns_
        BY <1>3, <2>3 DEF ReleasePtr
      <3> QED BY <2>1, <3>1, DeleteInv
    <2>4. CASE th[t].c \in connected
      <3>1. conns_' = Append(conns_, th[t].c) /\ UNCHANGED <<total_, live, network>>
        BY <1>3, <2>2, <2>4 DEF ReleasePtr
      <3> QED BY <2>1, <2>4, <3>1, PutBackInv
    <2> QED BY <2>3, <2>4
  <1>4. CASE Destroy(t)
    <2>1. /\ th[t].pc # "idle" /\ ~th[t].pooled /\ th' = [th EXCEPT ![t] = Idle]
          /\ Renew({th[t].c}, {}) /\ conns_' = conns_ /\ UNCHANGED <<issued, aborted>>
      BY <1>4 DEF Destroy, pool
    <2>2. total_' = total_ - 0 BY <1>1, <1>4 DEF Destroy, pool, TypeOK
    <2> QED BY <2>1, <2>2, DeleteInv
  <1> QED BY <1>2, <1>3, <1>4 DEF Proceeds

\* The steps of the server.
LEMMA ServerInv ==
    ASSUME IInv, NEW c \in Conns, Answers(c) \/ ServerCloses(c)
    PROVE  IInv'
  <1>1. TypeOK BY DEF IInv
  <1>2. wire[c] \in Seq(Tokens) /\ asked[c] \in Seq(Reqs) BY <1>1 DEF TypeOK
  <1>3. CASE Answers(c)
    <2>1. asked[c] # <<>> BY <1>3 DEF Answers
    <2>2. asked[c][1] \in Reqs /\ Tail(asked[c]) \in Seq(Reqs)
      BY <1>2, <2>1, EmptySeq, ElementOfSeq, HeadTailProperties
    <2>3. PICK answer \in LengthAnswers(asked[c][1]) \cup ChunkedAnswers(asked[c][1]) :
            wire' = [wire EXCEPT ![c] = @ \o answer]
      BY <1>3 DEF Answers
    <2>4. wire[c] \o answer \in Seq(Tokens)
      BY <1>2, <2>2, AnswerType, ConcatProperties
    <2>5. TypeOK'
      BY <1>1, <1>3, <2>2, <2>3, <2>4 DEF Answers, TypeOK, pool
    <2> QED BY <1>3, <2>5, QuietInv DEF Answers, pool
  <1>4. CASE ServerCloses(c)
    <2>1. <<>> \in Seq(Reqs) OBVIOUS
    <2>2. TypeOK'
      BY <1>1, <1>4, <2>1 DEF ServerCloses, TypeOK, pool
    <2> QED BY <1>4, <2>2, QuietInv DEF ServerCloses, pool
  <1> QED BY <1>3, <1>4

\* The pool starts with no connection and no call.
LEMMA InitInv == Init => IInv
  <1> SUFFICES ASSUME Init PROVE IInv OBVIOUS
  <1>1. Idle \in Call /\ Idle.pc = "idle"
    <2>1. <<>> \in Seq(Tokens) OBVIOUS
    <2> QED BY <2>1 DEF Idle, Call, Fields
  <1>2. \A t \in Threads : th[t].pc = "idle" BY <1>1 DEF Init
  <1>3. TypeOK
    <2>1. <<>> \in Seq(Tokens) /\ <<>> \in Seq(Reqs) /\ <<>> \in Seq(Conns) OBVIOUS
    <2>2. th \in [Threads -> Call] BY <1>1 DEF Init
    <2>3. wire \in [Conns -> Seq(Tokens)] /\ asked \in [Conns -> Seq(Reqs)]
      BY <2>1 DEF Init
    <2>4. conns_ \in Seq(Conns) /\ total_ \in Int /\ issued \in 0 .. MaxRequests
      BY <2>1, BoundsAssumption DEF Init
    <2>5. live \subseteq Conns /\ connected \subseteq live /\ peer \subseteq live
          /\ torn \subseteq live /\ aborted \in BOOLEAN
      BY DEF Init
    <2> QED BY <2>2, <2>3, <2>4, <2>5 DEF TypeOK
  <1>4. Held BY <1>2 DEF Held
  <1>5. OneOwner
    <2>1. DOMAIN conns_ = {} BY DEF Init
    <2> QED BY <1>2, <2>1 DEF OneOwner
  <1>6. TotalExact
    <2>1. Borrowers = {} BY <1>2 DEF Borrowers
    <2>2. Cardinality(Borrowers) = 0 BY <2>1, FS_EmptySet
    <2>3. Len(conns_) = 0 BY DEF Init
    <2> QED BY <2>2, <2>3 DEF Init, TotalExact
  <1> QED BY <1>3, <1>4, <1>5, <1>6 DEF IInv

\* Every step keeps the invariant.
LEMMA NextInv == IInv /\ [Next]_vars => IInv'
  <1> SUFFICES ASSUME IInv, [Next]_vars PROVE IInv' OBVIOUS
  <1>1. CASE UNCHANGED vars
    BY <1>1 DEF vars, IInv, TypeOK, Held, OneOwner, TotalExact, Borrowers
  <1>2. CASE \E t \in Threads : Issues(t) \/ Proceeds(t)
    BY <1>2, IssuesInv, ProceedsInv
  <1>3. CASE \E c \in Conns : Answers(c) \/ ServerCloses(c)
    BY <1>3, ServerInv
  <1>4. CASE Over BY <1>1, <1>4 DEF Over
  <1> QED BY <1>1, <1>2, <1>3, <1>4 DEF Next

\* The inductive invariant of the pool and its calls always holds.
THEOREM Invariance == Spec => []IInv
  BY InitInv, NextInv, PTL DEF Spec

\* recvResponse keeps its variables in their ranges: left, the number of bytes
\* still to read, never goes below 0, for bodies of any length, cut anywhere.
THEOREM TypesCorrect == Spec => []TypeOK
  <1>1. IInv => TypeOK BY DEF IInv
  <1> QED BY <1>1, Invariance, PTL

\* getConnection and ReleasePtr never give a connection to two threads and
\* never keep one that is in use, closed or deleted.
THEOREM PoolOwnership == Spec => []OneOwner
  <1>1. IInv => OneOwner BY DEF IInv
  <1> QED BY <1>1, Invariance, PTL

\* total_ is the number of connections that are pooled or borrowed.
THEOREM PoolCount == Spec => []TotalExact
  <1>1. IInv => TotalExact BY DEF IInv
  <1> QED BY <1>1, Invariance, PTL

-----------------------------------------------------------------------------
(* What recvResponse does with the stream.  First the streams: a buffer or *)
(* what is left on the wire is described by its place in the answer.       *)

\* s is the answer S from behind place a up to place b.
IsPart(s, S, a, b) ==
    /\ s \in Seq(Tokens) /\ a \in Nat /\ b \in Nat /\ a <= b
    /\ Len(s) = b - a
    /\ \A i \in 1 .. b - a : s[i] = S[a + i]

\* s has n tokens, of which those up to place lim are the first bytes of r.
Bytes(s, r, n, lim) ==
    /\ s \in Seq(Tokens) /\ n \in Nat /\ lim \in Nat
    /\ Len(s) = n
    /\ \A i \in 1 .. n : i <= lim => s[i] = Byte(r, i)

\* A part of a part.
LEMMA PartCut ==
    ASSUME NEW s, NEW S, NEW a, NEW b, NEW k \in Nat, IsPart(s, S, a, b), k <= b - a
    PROVE  IsPart(SubSeq(s, 1, k), S, a, a + k) /\ IsPart(SubSeq(s, k + 1, Len(s)), S, a + k, b)
  <1>1. /\ s \in Seq(Tokens) /\ a \in Nat /\ b \in Nat /\ a <= b /\ Len(s) = b - a
        /\ \A i \in 1 .. b - a : s[i] = S[a + i]
    BY DEF IsPart
  <1>2. \A i \in 1 .. b - a : s[i] \in Tokens BY <1>1, ElementOfSeq
  <1>3. IsPart(SubSeq(s, 1, k), S, a, a + k)
    <2>1. 1 \in Int /\ k \in Int /\ \A i \in 1 .. k : s[i] \in Tokens BY <1>1, <1>2
    <2>2. /\ SubSeq(s, 1, k) \in Seq(Tokens)
          /\ Len(SubSeq(s, 1, k)) = IF 1 <= k THEN k - 1 + 1 ELSE 0
          /\ \A i \in 1 .. k - 1 + 1 : SubSeq(s, 1, k)[i] = s[1 + i - 1]
      BY <2>1, SubSeqProperties
    <2>3. Len(SubSeq(s, 1, k)) = (a + k) - a /\ a + k \in Nat /\ a <= a + k BY <1>1, <2>2
    <2>4. ASSUME NEW i \in 1 .. (a + k) - a PROVE SubSeq(s, 1, k)[i] = S[a + i]
      <3>1. i \in 1 .. k - 1 + 1 /\ 1 + i - 1 = i /\ i \in 1 .. b - a BY <1>1
      <3> QED BY <1>1, <2>2, <3>1
    <2> QED BY <1>1, <2>2, <2>3, <2>4 DEF IsPart
  <1>4. IsPart(SubSeq(s, k + 1, Len(s)), S, a + k, b)
    <2>1. k + 1 \in Int /\ Len(s) \in Int /\ \A i \in k + 1 .. Len(s) : s[i] \in Tokens
      BY <1>1, <1>2
    <2>2. /\ SubSeq(s, k + 1, Len(s)) \in Seq(Tokens)
          /\ Len(SubSeq(s, k + 1, Len(s))) = IF k + 1 <= Len(s) THEN Len(s) - (k + 1) + 1 ELSE 0
          /\ \A i \in 1 .. Len(s) - (k + 1) + 1 :
               SubSeq(s, k + 1, Len(s))[i] = s[(k + 1) + i - 1]
      BY <2>1, SubSeqProperties
    <2>3. Len(SubSeq(s, k + 1, Len(s))) = b - (a + k) /\ a + k \in Nat /\ a + k <= b
      BY <1>1, <2>2
    <2>4. ASSUME NEW i \in 1 .. b - (a + k)
          PROVE  SubSeq(s, k + 1, Len(s))[i] = S[(a + k) + i]
      <3>1. /\ i \in 1 .. Len(s) - (k + 1) + 1 /\ (k + 1) + i - 1 = k + i
            /\ k + i \in 1 .. b - a /\ a + (k + i) = (a + k) + i
        BY <1>1
      <3>2. SubSeq(s, k + 1, Len(s))[i] = s[k + i] BY <2>2, <3>1
      <3>3. s[k + i] = S[a + (k + i)] BY <1>1, <3>1
      <3> QED BY <3>1, <3>2, <3>3
    <2> QED BY <1>1, <2>2, <2>3, <2>4 DEF IsPart
  <1> QED BY <1>3, <1>4

\* A part without its first token.
LEMMA PartTail ==
    ASSUME NEW s, NEW S, NEW a, NEW b, IsPart(s, S, a, b), s # <<>>
    PROVE  IsPart(Tail(s), S, a + 1, b) /\ s[1] = S[a + 1] /\ a < b
  <1>1. /\ s \in Seq(Tokens) /\ a \in Nat /\ b \in Nat /\ a <= b /\ Len(s) = b - a
        /\ \A i \in 1 .. b - a : s[i] = S[a + i]
    BY DEF IsPart
  <1>2. a < b BY <1>1, EmptySeq
  <1>3. /\ Tail(s) \in Seq(Tokens) /\ Len(Tail(s)) = Len(s) - 1
        /\ \A i \in 1 .. Len(Tail(s)) : Tail(s)[i] = s[i + 1]
    BY <1>1, HeadTailProperties
  <1>4. ASSUME NEW i \in 1 .. b - (a + 1) PROVE Tail(s)[i] = S[(a + 1) + i]
    <2>1. i \in 1 .. Len(Tail(s)) /\ i + 1 \in 1 .. b - a /\ a + (i + 1) = (a + 1) + i
      BY <1>1, <1>2, <1>3
    <2>2. s[i + 1] = S[a + (i + 1)] BY <1>1, <2>1
    <2> QED BY <1>3, <2>1, <2>2
  <1>5. Len(Tail(s)) = b - (a + 1) /\ a + 1 \in Nat /\ a + 1 <= b BY <1>1, <1>2, <1>3
  <1>6. s[1] = S[a + 1] BY <1>1, <1>2
  <1> QED BY <1>1, <1>2, <1>3, <1>4, <1>5, <1>6 DEF IsPart

\* The empty part, and the whole.
LEMMA PartEnds ==
    ASSUME NEW s, NEW S, NEW a, NEW b, IsPart(s, S, a, b)
    PROVE  s = <<>> <=> a = b
  <1>1. s \in Seq(Tokens) /\ a \in Nat /\ b \in Nat /\ a <= b /\ Len(s) = b - a
    BY DEF IsPart
  <1> QED BY <1>1, EmptySeq

\* A body with more bytes.
LEMMA BytesMore ==
    ASSUME NEW body, NEW r, NEW n, NEW lim, Bytes(body, r, n, lim),
           NEW s, NEW S, NEW a, NEW b, IsPart(s, S, a, b),
           \A i \in 1 .. b - a : n + i <= lim => S[a + i] = Byte(r, n + i)
    PROVE  Bytes(body \o s, r, n + (b - a), lim)
  <1>1. /\ s \in Seq(Tokens) /\ a \in Nat /\ b \in Nat /\ a <= b /\ Len(s) = b - a
        /\ \A i \in 1 .. b - a : s[i] = S[a + i]
    BY DEF IsPart
  <1>2. /\ body \in Seq(Tokens) /\ n \in Nat /\ lim \in Nat /\ Len(body) = n
        /\ \A i \in 1 .. n : i <= lim => body[i] = Byte(r, i)
    BY DEF Bytes
  <1>3. /\ body \o s \in Seq(Tokens) /\ Len(body \o s) = Len(body) + Len(s)
        /\ \A i \in 1 .. Len(body) + Len(s) :
             (body \o s)[i] = IF i <= Len(body) THEN body[i] ELSE s[i - Len(body)]
    BY <1>1, <1>2, ConcatProperties
  <1>4. Len(body \o s) = n + (b - a) /\ n + (b - a) \in Nat BY <1>1, <1>2, <1>3
  <1>5. ASSUME NEW i \in 1 .. n + (b - a), i <= lim PROVE (body \o s)[i] = Byte(r, i)
    <2>1. (body \o s)[i] = IF i <= n THEN body[i] ELSE s[i - n] BY <1>1, <1>2, <1>3
    <2>2. CASE i <= n
      <3>1. i \in 1 .. n BY <1>2, <2>2
      <3> QED BY <1>2, <1>5, <2>1, <2>2, <3>1
    <2>3. CASE ~(i <= n)
      <3>1. i - n \in 1 .. b - a /\ n + (i - n) = i BY <1>1, <1>2, <2>3
      <3>2. s[i - n] = S[a + (i - n)] BY <1>1, <3>1
      <3>3. S[a + (i - n)] = Byte(r, n + (i - n)) BY <1>5, <3>1
      <3> QED BY <2>1, <2>3, <3>1, <3>2, <3>3
    <2> QED BY <2>2, <2>3
  <1> QED BY <1>2, <1>3, <1>4, <1>5 DEF Bytes

\* A body cut back, and one whose limit changes where it has no bytes.
LEMMA BytesCut ==
    ASSUME NEW body, NEW r, NEW n, NEW lim, Bytes(body, r, n, lim), lim <= n
    PROVE  Bytes(SubSeq(body, 1, lim), r, lim, lim)
  <1>1. /\ body \in Seq(Tokens) /\ n \in Nat /\ lim \in Nat /\ Len(body) = n
        /\ \A i \in 1 .. n : i <= lim => body[i] = Byte(r, i)
    BY DEF Bytes
  <1>2. 1 \in Int /\ lim \in Int /\ \A i \in 1 .. lim : body[i] \in Tokens
    BY <1>1, ElementOfSeq
  <1>3. /\ SubSeq(body, 1, lim) \in Seq(Tokens)
        /\ Len(SubSeq(body, 1, lim)) = IF 1 <= lim THEN lim - 1 + 1 ELSE 0
        /\ \A i \in 1 .. lim - 1 + 1 : SubSeq(body, 1, lim)[i] = body[1 + i - 1]
    BY <1>2, SubSeqProperties
  <1>4. Len(SubSeq(body, 1, lim)) = lim BY <1>1, <1>3
  <1>5. ASSUME NEW i \in 1 .. lim PROVE SubSeq(body, 1, lim)[i] = Byte(r, i)
    <2>1. i \in 1 .. lim - 1 + 1 /\ 1 + i - 1 = i /\ i \in 1 .. n /\ i <= lim BY <1>1
    <2> QED BY <1>1, <1>3, <2>1
  <1> QED BY <1>1, <1>3, <1>4, <1>5 DEF Bytes

\* The limit does not matter when no byte lies behind it.
LEMMA BytesLimit ==
    ASSUME NEW body, NEW r, NEW n, NEW lim \in Nat, Bytes(body, r, n, n)
    PROVE  Bytes(body, r, n, lim)
  BY DEF Bytes

\* A body that has all bytes is what the server sent.
LEMMA BytesBody ==
    ASSUME NEW body, NEW r, NEW n, Bytes(body, r, n, n)
    PROVE  body = Body(r, 1, n)
  <1>1. /\ body \in Seq(Tokens) /\ n \in Nat /\ Len(body) = n
        /\ \A i \in 1 .. n : body[i] = Byte(r, i)
    BY DEF Bytes
  <1>2. body \in [1 .. n -> Tokens] BY <1>1, LenProperties
  <1>3. n - 1 + 1 = n /\ \A k \in 1 .. n : 1 + k - 1 = k BY <1>1
  <1>4. Body(r, 1, n) = [k \in 1 .. n |-> Byte(r, k)] BY <1>3 DEF Body
  <1> QED BY <1>1, <1>2, <1>4

-----------------------------------------------------------------------------
(* The shapes of an answer.                                                *)

\* Behind place a of S come bytes m + 1 .. m + n of the body of r.
ByteRun(S, a, r, m, n) == \A i \in 1 .. n : S[a + i] = Byte(r, m + i)

\* The header fields, the end of the header, n bytes, and perhaps a CRLF.
IsLength(S, r, n) ==
    /\ ByteRun(S, 2, r, 0, n)
    /\ \/ Len(S) = n + 2
       \/ Len(S) = n + 4 /\ S[n + 3] = Cr /\ S[n + 4] = Lf

\* Behind place q of S comes a chunk of z bytes, the first of them byte m + 1.
IsPiece(S, q, z, r, m) ==
    S[q + 1] = Size(z) /\ q + z + 3 <= Len(S) /\ ByteRun(S, q + 1, r, m, z)

\* at says behind which places of S chunks start, and how many bytes of the body
\* come before.  The chunk at q has z bytes; an empty chunk is the last one.
IsChunk(S, r, n, at, q, z) ==
    /\ z \in Nat
    /\ IsPiece(S, q, z, r, at[q])
    /\ z = 0 => at[q] = n /\ Len(S) = q + 3
    /\ z # 0 => q + z + 3 \in DOMAIN at /\ at[q + z + 3] = at[q] + z
IsChunks(S, r, n, at) ==
    /\ 2 \in DOMAIN at /\ at[2] = 0
    /\ \A q \in DOMAIN at : /\ q \in Nat /\ at[q] \in Nat
                            /\ \E z : IsChunk(S, r, n, at, q, z)

\* S is an answer with header fields h.
Shape(S, h, at) ==
    /\ h \in Heads /\ S \in Seq(Tokens) /\ Len(S) >= 2
    /\ S[1] = h /\ S[2] = End
    /\ h[1] = "length" => IsLength(S, h[2], h[3])
    /\ h[1] = "chunked" => IsChunks(S, h[2], h[3], at)

\* What two streams one after the other hold.
LEMMA Joined ==
    ASSUME NEW s \in Seq(Tokens), NEW v \in Seq(Tokens)
    PROVE  /\ s \o v \in Seq(Tokens) /\ Len(s \o v) = Len(s) + Len(v)
           /\ Len(s) \in Nat /\ Len(v) \in Nat
           /\ \A i \in 1 .. Len(s) : (s \o v)[i] = s[i]
           /\ \A i \in 1 .. Len(v) : (s \o v)[Len(s) + i] = v[i]
  <1>1. Len(s) \in Nat /\ Len(v) \in Nat BY LenProperties
  <1>2. /\ s \o v \in Seq(Tokens) /\ Len(s \o v) = Len(s) + Len(v)
        /\ \A i \in 1 .. Len(s) + Len(v) : (s \o v)[i] =
                    IF i <= Len(s) THEN s[i] ELSE v[i - Len(s)]
    BY ConcatProperties
  <1>3. ASSUME NEW i \in 1 .. Len(s) PROVE (s \o v)[i] = s[i]
    <2>1. i \in 1 .. Len(s) + Len(v) /\ i <= Len(s) BY <1>1
    <2> QED BY <1>2, <2>1
  <1>4. ASSUME NEW i \in 1 .. Len(v) PROVE (s \o v)[Len(s) + i] = v[i]
    <2>1. Len(s) + i \in 1 .. Len(s) + Len(v) /\ ~(Len(s) + i <= Len(s))
          /\ (Len(s) + i) - Len(s) = i
      BY <1>1
    <2> QED BY <1>2, <2>1
  <1> QED BY <1>1, <1>2, <1>3, <1>4

\* The bytes of a body.
LEMMA BodyBytes ==
    ASSUME NEW r \in Reqs, NEW m \in Nat, NEW z \in Nat, m + z <= MaxBody
    PROVE  /\ Body(r, m + 1, m + z) \in Seq(Tokens) /\ Len(Body(r, m + 1, m + z)) = z
           /\ \A i \in 1 .. z : Body(r, m + 1, m + z)[i] = Byte(r, m + i)
  <1>1. (m + z) - (m + 1) + 1 = z /\ \A i \in 1 .. z : (m + 1) + i - 1 = m + i
    OBVIOUS
  <1>2. Body(r, m + 1, m + z) = [i \in 1 .. z |-> Byte(r, m + i)] BY <1>1 DEF Body
  <1>3. \A i \in 1 .. z : Byte(r, m + i) \in Tokens
    <2>1. \A i \in 1 .. z : m + i \in 1 .. MaxBody BY BoundsAssumption
    <2> QED BY <2>1, TokenTypes
  <1> QED BY <1>2, <1>3, IsASeq

\* U is the stream T with a chunk of z bytes behind it, the first of them byte m + 1.
Grown(U, T, r, m, z) ==
    /\ T \in Seq(Tokens) /\ r \in Reqs /\ m \in Nat /\ z \in Nat /\ m + z <= MaxBody
    /\ U = T \o (<<Size(z)>> \o Body(r, m + 1, m + z) \o CrLf)

\* The chunk is behind T, and T is as it was.
LEMMA PieceMade ==
    ASSUME NEW U, NEW T, NEW r, NEW m, NEW z, Grown(U, T, r, m, z)
    PROVE  /\ U \in Seq(Tokens) /\ Len(U) = Len(T) + (z + 3)
           /\ \A x \in 1 .. Len(T) : U[x] = T[x]
           /\ IsPiece(U, Len(T), z, r, m)
  <1> USE DEF Grown
  <1> DEFINE b == Body(r, m + 1, m + z)
             d == <<Size(z)>> \o b
             e == d \o CrLf
  <1>0. Len(T) \in Nat BY LenProperties
  <1>1. /\ <<Size(z)>> \in Seq(Tokens) /\ CrLf \in Seq(Tokens)
        /\ Len(<<Size(z)>>) = 1 /\ Len(CrLf) = 2 /\ <<Size(z)>>[1] = Size(z)
    <2>1. z \in 0 .. MaxBody BY BoundsAssumption
    <2> QED BY <2>1, TokenTypes DEF CrLf
  <1>2. b \in Seq(Tokens) /\ Len(b) = z /\ \A x \in 1 .. z : b[x] = Byte(r, m + x)
    BY BodyBytes
  <1> HIDE DEF b
  <1>3. /\ d \in Seq(Tokens) /\ Len(d) = z + 1 /\ d[1] = Size(z)
        /\ \A x \in 1 .. z : d[1 + x] = Byte(r, m + x)
    <2>1. /\ d \in Seq(Tokens) /\ Len(d) = 1 + z
          /\ \A x \in 1 .. 1 : d[x] = <<Size(z)>>[x]
          /\ \A x \in 1 .. z : d[1 + x] = b[x]
      BY <1>1, <1>2, Joined
    <2> QED BY <1>1, <1>2, <2>1
  <1> HIDE DEF d
  <1>4. /\ e \in Seq(Tokens) /\ Len(e) = z + 3 /\ e[1] = Size(z)
        /\ \A x \in 1 .. z : e[1 + x] = Byte(r, m + x)
    <2>0. /\ d \o CrLf \in Seq(Tokens) /\ Len(d \o CrLf) = Len(d) + Len(CrLf)
          /\ \A x \in 1 .. Len(d) : (d \o CrLf)[x] = d[x]
      BY <1>1, <1>3, Joined
    <2>1. /\ e \in Seq(Tokens) /\ Len(e) = (z + 1) + 2
          /\ \A x \in 1 .. z + 1 : e[x] = d[x]
      BY <1>1, <1>3, <2>0
    <2>2. 1 \in 1 .. z + 1 /\ \A x \in 1 .. z : 1 + x \in 1 .. z + 1 OBVIOUS
    <2> QED BY <1>3, <2>1, <2>2
  <1> HIDE DEF e
  <1>8. U = T \o e BY DEF e, d, b
  <1>5. /\ U \in Seq(Tokens) /\ Len(U) = Len(T) + (z + 3)
        /\ \A x \in 1 .. Len(T) : U[x] = T[x]
        /\ \A x \in 1 .. z + 3 : U[Len(T) + x] = e[x]
    <2>1. /\ T \o e \in Seq(Tokens) /\ Len(T \o e) = Len(T) + Len(e)
          /\ \A x \in 1 .. Len(T) : (T \o e)[x] = T[x]
          /\ \A x \in 1 .. Len(e) : (T \o e)[Len(T) + x] = e[x]
      BY <1>4, Joined
    <2> QED BY <1>4, <1>8, <2>1
  <1>6. IsPiece(U, Len(T), z, r, m)
    <2>1. U[Len(T) + 1] = Size(z) BY <1>4, <1>5
    <2>2. Len(T) + z + 3 <= Len(U) BY <1>0, <1>5
    <2>3. ASSUME NEW x \in 1 .. z PROVE U[(Len(T) + 1) + x] = Byte(r, m + x)
      <3>1. 1 + x \in 1 .. z + 3 /\ Len(T) + (1 + x) = (Len(T) + 1) + x BY <1>0
      <3>2. U[Len(T) + (1 + x)] = e[1 + x] BY <1>5, <3>1
      <3> QED BY <1>4, <3>1, <3>2
    <2> QED BY <2>1, <2>2, <2>3 DEF IsPiece, ByteRun
  <1> QED BY <1>5, <1>6

\* A chunk stays where it is when more is sent.
LEMMA PieceKept ==
    ASSUME NEW T, NEW U, NEW q \in Nat, NEW z \in Nat, NEW r, NEW m, IsPiece(T, q, z, r, m),
           Len(T) \in Nat, Len(U) \in Nat, Len(T) <= Len(U), \A i \in 1 .. Len(T) : U[i] = T[i]
    PROVE  IsPiece(U, q, z, r, m)
  <1>1. /\ T[q + 1] = Size(z) /\ q + z + 3 <= Len(T)
        /\ \A i \in 1 .. z : T[(q + 1) + i] = Byte(r, m + i)
    BY DEF IsPiece, ByteRun
  <1>2. q + 1 \in 1 .. Len(T) /\ \A i \in 1 .. z : (q + 1) + i \in 1 .. Len(T) BY <1>1
  <1>3. q + z + 3 <= Len(U) BY <1>1
  <1>4. U[q + 1] = Size(z) BY <1>1, <1>2
  <1>5. \A i \in 1 .. z : U[(q + 1) + i] = Byte(r, m + i) BY <1>1, <1>2
  <1> QED BY <1>3, <1>4, <1>5 DEF IsPiece, ByteRun

\* The chunk of size 0 behind the stream T ends an answer.
LEMMA LastPiece ==
    ASSUME NEW T \in Seq(Tokens), NEW r \in Reqs, NEW n
    PROVE  LET U == (T \o <<Size(0)>>) \o CrLf
           IN  /\ U \in Seq(Tokens) /\ Len(U) = Len(T) + 3
               /\ \A i \in 1 .. Len(T) : U[i] = T[i]
               /\ IsPiece(U, Len(T), 0, r, n)
  <1> DEFINE d == T \o <<Size(0)>>
             U == d \o CrLf
  <1>0. Len(T) \in Nat BY LenProperties
  <1>1. /\ <<Size(0)>> \in Seq(Tokens) /\ CrLf \in Seq(Tokens)
        /\ Len(<<Size(0)>>) = 1 /\ Len(CrLf) = 2 /\ <<Size(0)>>[1] = Size(0)
    <2>1. 0 \in 0 .. MaxBody BY BoundsAssumption
    <2> QED BY <2>1, TokenTypes DEF CrLf
  <1>2. /\ d \in Seq(Tokens) /\ Len(d) = Len(T) + 1 /\ d[Len(T) + 1] = Size(0)
        /\ \A i \in 1 .. Len(T) : d[i] = T[i]
    BY <1>1, Joined
  <1> HIDE DEF d
  <1>3. /\ U \in Seq(Tokens) /\ Len(U) = Len(d) + 2 /\ \A i \in 1 .. Len(d) : U[i] = d[i]
    <2>1. /\ d \o CrLf \in Seq(Tokens) /\ Len(d \o CrLf) = Len(d) + Len(CrLf)
          /\ \A i \in 1 .. Len(d) : (d \o CrLf)[i] = d[i]
      BY <1>1, <1>2, Joined
    <2> QED BY <1>1, <2>1
  <1> HIDE DEF U
  <1>4. Len(U) = Len(T) + 3 /\ U[Len(T) + 1] = Size(0) /\ \A i \in 1 .. Len(T) : U[i] = T[i]
    <2>1. Len(T) + 1 \in 1 .. Len(d) /\ \A i \in 1 .. Len(T) : i \in 1 .. Len(d)
      BY <1>0, <1>2
    <2> QED BY <1>0, <1>2, <1>3, <2>1
  <1>5. IsPiece(U, Len(T), 0, r, n) BY <1>0, <1>4 DEF IsPiece, ByteRun
  <1> QED BY <1>3, <1>4, <1>5 DEF U, d

\* An answer with a content-length.
LEMMA LengthShape ==
    ASSUME NEW r \in Reqs, NEW a \in LengthAnswers(r)
    PROVE  \E h : h[2] = r /\ \A at : Shape(a, h, at)
  <1>1. PICK n \in 0 .. MaxBody : a = InOnePiece(r, n) \/ a = InOnePiece(r, n) \o CrLf
    <2>1. 1 .. MaxBody \subseteq 0 .. MaxBody OBVIOUS
    <2> QED BY <2>1 DEF LengthAnswers
  <1> DEFINE h == ByLength(r, n)
             f == <<h, End>>
             b == Body(r, 1, n)
             u == InOnePiece(r, n)
  <1>2. h \in Heads /\ h[1] = "length" /\ h[2] = r /\ h[3] = n
    BY DEF ByLength, Heads
  <1>3. n \in Nat /\ n <= MaxBody /\ 0 \in Nat /\ 0 + 1 = 1 /\ 0 + n = n BY BoundsAssumption
  <1>4. b \in Seq(Tokens) /\ Len(b) = n /\ \A i \in 1 .. n : b[i] = Byte(r, 0 + i)
    <2>1. /\ Body(r, 0 + 1, 0 + n) \in Seq(Tokens) /\ Len(Body(r, 0 + 1, 0 + n)) = n
          /\ \A i \in 1 .. n : Body(r, 0 + 1, 0 + n)[i] = Byte(r, 0 + i)
      BY <1>3, BodyBytes
    <2> QED BY <1>3, <2>1
  <1> HIDE DEF h, b
  <1>5. f \in Seq(Tokens) /\ Len(f) = 2 /\ f[1] = h /\ f[2] = End
    BY <1>2, TokenTypes
  <1> HIDE DEF f
  <1>6. /\ u \in Seq(Tokens) /\ Len(u) = n + 2 /\ u[1] = h /\ u[2] = End
        /\ ByteRun(u, 2, r, 0, n)
    <2>1. u = f \o b BY DEF f, b, h, InOnePiece
    <2>2. /\ f \o b \in Seq(Tokens) /\ Len(f \o b) = Len(f) + Len(b)
          /\ \A i \in 1 .. Len(f) : (f \o b)[i] = f[i]
          /\ \A i \in 1 .. Len(b) : (f \o b)[Len(f) + i] = b[i]
      BY <1>4, <1>5, Joined
    <2>3. Len(f) + Len(b) = n + 2 /\ 1 \in 1 .. Len(f) /\ 2 \in 1 .. Len(f) BY <1>3, <1>4, <1>5
    <2>4. u \in Seq(Tokens) /\ Len(u) = n + 2 /\ u[1] = h /\ u[2] = End
      BY <1>5, <2>1, <2>2, <2>3
    <2>5. \A i \in 1 .. n : u[2 + i] = Byte(r, 0 + i) BY <1>4, <1>5, <2>1, <2>2
    <2> QED BY <2>4, <2>5 DEF ByteRun
  <1> HIDE DEF u
  <1>7. CASE a = u
    <2>1. IsLength(a, r, n) /\ Len(a) >= 2 BY <1>3, <1>6, <1>7 DEF IsLength
    <2> QED BY <1>2, <1>6, <1>7, <2>1 DEF Shape
  <1>8. CASE a = u \o CrLf
    <2>1. CrLf \in Seq(Tokens) /\ Len(CrLf) = 2 /\ CrLf[1] = Cr /\ CrLf[2] = Lf
      BY TokenTypes DEF CrLf
    <2>2. /\ u \o CrLf \in Seq(Tokens) /\ Len(u \o CrLf) = Len(u) + Len(CrLf)
          /\ \A i \in 1 .. Len(u) : (u \o CrLf)[i] = u[i]
          /\ \A i \in 1 .. Len(CrLf) : (u \o CrLf)[Len(u) + i] = CrLf[i]
      BY <1>6, <2>1, Joined
    <2>3. /\ 1 \in 1 .. Len(u) /\ 2 \in 1 .. Len(u) /\ \A i \in 1 .. n : 2 + i \in 1 .. Len(u)
          /\ 1 \in 1 .. Len(CrLf) /\ 2 \in 1 .. Len(CrLf)
          /\ Len(u) + 1 = n + 3 /\ Len(u) + 2 = n + 4 /\ Len(u) + Len(CrLf) = n + 4
          /\ n + 4 >= 2
      BY <1>3, <1>6, <2>1
    <2>4. a \in Seq(Tokens) /\ Len(a) = n + 4 /\ a[1] = h /\ a[2] = End /\ Len(a) >= 2
      BY <1>6, <1>8, <2>2, <2>3
    <2>5. a[n + 3] = Cr /\ a[n + 4] = Lf BY <1>8, <2>1, <2>2, <2>3
    <2>6. ByteRun(a, 2, r, 0, n) BY <1>6, <1>8, <2>2, <2>3 DEF ByteRun
    <2>7. IsLength(a, r, n) BY <2>4, <2>5, <2>6 DEF IsLength
    <2> QED BY <1>2, <2>4, <2>7 DEF Shape
  <1> QED BY <1>1, <1>7, <1>8 DEF u

\* The header of a chunked answer.
LEMMA ChunkedHead ==
    ASSUME NEW r \in Reqs, NEW n \in 0 .. MaxBody
    PROVE  /\ Chunked(r, n) \in Heads /\ Chunked(r, n)[1] = "chunked"
           /\ Chunked(r, n)[2] = r /\ Chunked(r, n)[3] = n
           /\ <<Chunked(r, n), End>> \in Seq(Tokens) /\ Len(<<Chunked(r, n), End>>) = 2
           /\ <<Chunked(r, n), End>>[1] = Chunked(r, n) /\ <<Chunked(r, n), End>>[2] = End
  <1>1. /\ Chunked(r, n) \in Heads /\ Chunked(r, n)[1] = "chunked"
        /\ Chunked(r, n)[2] = r /\ Chunked(r, n)[3] = n
    BY DEF Chunked, Heads
  <1> QED BY <1>1, TokenTypes

\* A chunked answer with one chunk, or none.
LEMMA OneChunkShape ==
    ASSUME NEW r \in Reqs, NEW n \in 0 .. MaxBody, NEW a, NEW T,
           \/ n = 0 /\ T = <<Chunked(r, n), End>>
           \/ n > 0 /\ T = <<Chunked(r, n), End>> \o (<<Size(n)>> \o Body(r, 1, n) \o CrLf),
           a = (T \o <<Size(0)>>) \o CrLf
    PROVE  \E at : Shape(a, Chunked(r, n), at)
  <1> DEFINE h == Chunked(r, n)
             f == <<h, End>>
  <1>1. /\ h \in Heads /\ h[1] = "chunked" /\ h[2] = r /\ h[3] = n
        /\ f \in Seq(Tokens) /\ Len(f) = 2 /\ f[1] = h /\ f[2] = End
    BY ChunkedHead
  <1>2. n \in Nat /\ n <= MaxBody /\ 0 \in Nat /\ 0 + 1 = 1 /\ 0 + n = n BY BoundsAssumption
  <1>3. CASE n = 0
    <2>1. T = f BY <1>3
    <2> HIDE DEF h, f
    <2>2. /\ a \in Seq(Tokens) /\ Len(a) = Len(f) + 3 /\ \A i \in 1 .. Len(f) : a[i] = f[i]
          /\ IsPiece(a, Len(f), 0, r, 0)
      BY <1>1, <2>1, LastPiece
    <2>3. Len(a) = 5 /\ a[1] = h /\ a[2] = End /\ IsPiece(a, 2, 0, r, 0)
      BY <1>1, <2>2
    <2> DEFINE at == [q \in {2} |-> 0]
    <2>4. IsChunk(a, r, n, at, 2, 0) BY <1>3, <2>3 DEF IsChunk
    <2>5. IsChunks(a, r, n, at) BY <2>4 DEF IsChunks
    <2>6. Shape(a, h, at) BY <1>1, <2>2, <2>3, <2>5 DEF Shape
    <2> QED BY <2>6 DEF h
  <1>4. CASE n > 0
    <2>1. T = f \o (<<Size(n)>> \o Body(r, 1, n) \o CrLf) BY <1>2, <1>4
    <2> HIDE DEF h, f
    <2>2. /\ T \in Seq(Tokens) /\ Len(T) = Len(f) + (n + 3)
          /\ \A i \in 1 .. Len(f) : T[i] = f[i]
          /\ IsPiece(T, Len(f), n, r, 0)
      <3>1. Grown(T, f, r, 0, n) BY <1>1, <1>2, <2>1 DEF Grown
      <3> QED BY ONLY <3>1, PieceMade
    <2>3. /\ Len(T) = n + 5 /\ T[1] = h /\ T[2] = End /\ IsPiece(T, 2, n, r, 0)
      BY <1>1, <1>2, <2>2
    <2>4. /\ a \in Seq(Tokens) /\ Len(a) = Len(T) + 3 /\ \A i \in 1 .. Len(T) : a[i] = T[i]
          /\ IsPiece(a, Len(T), 0, r, n)
      BY <2>2, LastPiece
    <2>5. /\ Len(a) = n + 8 /\ a[1] = h /\ a[2] = End /\ IsPiece(a, n + 5, 0, r, n)
      BY <1>2, <2>3, <2>4
    <2>6. IsPiece(a, 2, n, r, 0)
      <3>1. Len(T) \in Nat /\ Len(a) \in Nat /\ Len(T) <= Len(a) /\ 2 \in Nat
        BY <1>2, <2>3, <2>5
      <3> QED BY <1>2, <2>3, <2>4, <3>1, PieceKept
    <2> DEFINE at == [q \in {2, n + 5} |-> IF q = 2 THEN 0 ELSE n]
    <2>7. /\ DOMAIN at = {2, n + 5} /\ at[2] = 0 /\ at[n + 5] = n /\ n + 5 \in Nat
          /\ 2 + n + 3 = n + 5 /\ n + 8 = (n + 5) + 3 /\ n # 0
      BY <1>2, <1>4
    <2> HIDE DEF at
    <2>8. IsChunk(a, r, n, at, 2, n) BY <1>2, <2>6, <2>7 DEF IsChunk
    <2>9. IsChunk(a, r, n, at, n + 5, 0) BY <2>5, <2>7 DEF IsChunk
    <2>10. IsChunks(a, r, n, at) BY ONLY <1>2, <2>7, <2>8, <2>9 DEF IsChunks
    <2>11. Shape(a, h, at) BY <1>1, <1>2, <2>4, <2>5, <2>10 DEF Shape
    <2> QED BY <2>11 DEF h
  <1> QED BY <1>2, <1>3, <1>4

\* A chunked answer with two chunks, cut behind byte k.
LEMMA TwoChunksShape ==
    ASSUME NEW r \in Reqs, NEW n \in 0 .. MaxBody, NEW k \in 1 .. n, k < n, NEW a, NEW T, NEW U,
           T = <<Chunked(r, n), End>> \o (<<Size(k)>> \o Body(r, 1, k) \o CrLf),
           U = T \o (<<Size(n - k)>> \o Body(r, k + 1, n) \o CrLf),
           a = (U \o <<Size(0)>>) \o CrLf
    PROVE  \E at : Shape(a, Chunked(r, n), at)
  <1> DEFINE h == Chunked(r, n)
             f == <<h, End>>
  <1>1. /\ h \in Heads /\ h[1] = "chunked" /\ h[2] = r /\ h[3] = n
        /\ f \in Seq(Tokens) /\ Len(f) = 2 /\ f[1] = h /\ f[2] = End
    BY ChunkedHead
  <1>2. /\ n \in Nat /\ n <= MaxBody /\ k \in Nat /\ 0 \in Nat /\ 0 + 1 = 1 /\ 0 + k = k
        /\ k + (n - k) = n /\ n - k \in Nat /\ k <= MaxBody
    BY BoundsAssumption
  <1>3. T = f \o (<<Size(k)>> \o Body(r, 1, k) \o CrLf) OBVIOUS
  <1> HIDE DEF h, f
  <1>5. /\ T \in Seq(Tokens) /\ Len(T) = Len(f) + (k + 3)
        /\ \A i \in 1 .. Len(f) : T[i] = f[i]
        /\ IsPiece(T, Len(f), k, r, 0)
    <2>1. Grown(T, f, r, 0, k) BY <1>1, <1>2, <1>3 DEF Grown
    <2> QED BY ONLY <2>1, PieceMade
  <1>6. Len(T) = k + 5 /\ T[1] = h /\ T[2] = End /\ IsPiece(T, 2, k, r, 0)
    BY <1>1, <1>2, <1>5
  <1>7. /\ U \in Seq(Tokens) /\ Len(U) = Len(T) + ((n - k) + 3)
        /\ \A i \in 1 .. Len(T) : U[i] = T[i]
        /\ IsPiece(U, Len(T), n - k, r, k)
    <2>1. Grown(U, T, r, k, n - k) BY <1>2, <1>5 DEF Grown
    <2> QED BY ONLY <2>1, PieceMade
  <1>8. /\ Len(U) = n + 8 /\ U[1] = h /\ U[2] = End /\ IsPiece(U, k + 5, n - k, r, k)
    <2>1. 1 \in 1 .. Len(T) /\ 2 \in 1 .. Len(T) BY ONLY <1>2, <1>6
    <2>2. (k + 5) + ((n - k) + 3) = n + 8 BY ONLY <1>2
    <2> QED BY ONLY <1>6, <1>7, <2>1, <2>2
  <1>9. /\ a \in Seq(Tokens) /\ Len(a) = Len(U) + 3 /\ \A i \in 1 .. Len(U) : a[i] = U[i]
        /\ IsPiece(a, Len(U), 0, r, n)
    BY <1>7, LastPiece
  <1>10. Len(a) = n + 11 /\ a[1] = h /\ a[2] = End /\ IsPiece(a, n + 8, 0, r, n)
    <2>1. 1 \in 1 .. Len(U) /\ 2 \in 1 .. Len(U) /\ (n + 8) + 3 = n + 11 BY ONLY <1>2, <1>8
    <2> QED BY ONLY <1>8, <1>9, <2>1
  <1>11. /\ Len(T) \in Nat /\ Len(U) \in Nat /\ Len(a) \in Nat /\ Len(T) <= Len(U)
         /\ Len(U) <= Len(a) /\ 2 \in Nat /\ k + 5 \in Nat
    BY <1>2, <1>6, <1>8, <1>10
  <1>12. IsPiece(U, 2, k, r, 0) BY <1>2, <1>6, <1>7, <1>11, PieceKept
  <1>13. IsPiece(a, 2, k, r, 0) BY ZenonT(60), <1>2, <1>9, <1>11, <1>12, PieceKept
  <1>14. IsPiece(a, k + 5, n - k, r, k) BY <1>2, <1>8, <1>9, <1>11, PieceKept
  <1> DEFINE at == [q \in {2, k + 5, n + 8} |-> IF q = 2 THEN 0 ELSE IF q = k + 5 THEN k ELSE n]
  <1>15. /\ DOMAIN at = {2, k + 5, n + 8} /\ at[2] = 0 /\ at[k + 5] = k /\ at[n + 8] = n
         /\ 2 + k + 3 = k + 5 /\ (k + 5) + (n - k) + 3 = n + 8 /\ n + 11 = (n + 8) + 3
         /\ n + 8 \in Nat /\ k # 0 /\ n - k # 0 /\ 0 + k = k
    BY <1>2
  <1> HIDE DEF at
  <1>16. IsChunk(a, r, n, at, 2, k) BY <1>2, <1>13, <1>15 DEF IsChunk
  <1>17. IsChunk(a, r, n, at, k + 5, n - k) BY <1>2, <1>14, <1>15 DEF IsChunk
  <1>18. IsChunk(a, r, n, at, n + 8, 0) BY <1>10, <1>15 DEF IsChunk
  <1>19. IsChunks(a, r, n, at) BY <1>2, <1>11, <1>15, <1>16, <1>17, <1>18 DEF IsChunks
  <1>20. Shape(a, h, at) BY SMTT(30), <1>1, <1>2, <1>9, <1>10, <1>19 DEF Shape
  <1> QED BY <1>20 DEF h

\* Every answer of the server to r has one of the shapes.
LEMMA AnswerShape ==
    ASSUME NEW r \in Reqs, NEW a \in LengthAnswers(r) \cup ChunkedAnswers(r)
    PROVE  \E h, at : h[2] = r /\ Shape(a, h, at)
  <1>1. CASE a \in LengthAnswers(r) BY <1>1, LengthShape
  <1>2. CASE a \in ChunkedAnswers(r)
    <2>1. PICK n \in 0 .. MaxBody : \E k \in 0 .. n : a = InChunks(r, n, k)
      BY <1>2 DEF ChunkedAnswers
    <2>2. PICK k \in 0 .. n : a = InChunks(r, n, k) BY <2>1
    <2> DEFINE f == <<Chunked(r, n), End>>
               one == <<Size(k)>> \o Body(r, 1, k) \o CrLf
               two == <<Size(n - k)>> \o Body(r, k + 1, n) \o CrLf
    <2>3. a = f \o (IF k = 0 THEN <<>> ELSE one) \o (IF k = n THEN <<>> ELSE two)
                \o <<Size(0)>> \o CrLf
      BY <2>2 DEF InChunks
    <2>4. f \in Seq(Tokens) /\ Chunked(r, n)[2] = r BY ChunkedHead
    <2>5. \E at : Shape(a, Chunked(r, n), at)
      <3>1. f \o <<>> = f BY <2>4, ConcatEmptySeq
      <3>2. CASE k = 0 /\ n = 0
        <4>1. a = (f \o <<Size(0)>>) \o CrLf BY <2>3, <3>1, <3>2
        <4> QED BY <3>2, <4>1, OneChunkShape
      <3>3. CASE k = 0 /\ n > 0
        <4>1. k + 1 = 1 /\ n - k = n /\ k # n BY <3>3
        <4>2. a = ((f \o (<<Size(n)>> \o Body(r, 1, n) \o CrLf)) \o <<Size(0)>>) \o CrLf
          BY <2>3, <3>1, <3>3, <4>1
        <4> QED BY <3>3, <4>2, OneChunkShape
      <3>4. CASE k = n /\ n > 0
        <4>1. one \in Seq(Tokens)
          <5>1. /\ n \in Nat /\ n <= MaxBody /\ 0 \in Nat /\ 0 + 1 = 1 /\ 0 + n = n
                /\ n \in 0 .. MaxBody
            BY BoundsAssumption
          <5>2. Body(r, 1, n) \in Seq(Tokens)
            <6>1. Body(r, 0 + 1, 0 + n) \in Seq(Tokens) BY <5>1, BodyBytes
            <6> QED BY <5>1, <6>1
          <5>3. <<Size(n)>> \in Seq(Tokens) /\ CrLf \in Seq(Tokens) BY <5>1, TokenTypes DEF CrLf
          <5> QED BY <3>4, <5>2, <5>3, ConcatProperties
        <4>2. f \o one \in Seq(Tokens) BY <2>4, <4>1, ConcatProperties
        <4>3. (f \o one) \o <<>> = f \o one BY <4>2, ConcatEmptySeq
        <4>4. k # 0 BY <3>4
        <4>5. a = ((f \o one) \o <<Size(0)>>) \o CrLf BY <2>3, <3>4, <4>3, <4>4
        <4> QED BY <3>4, <4>5, OneChunkShape
      <3>5. CASE k \in 1 .. n /\ k < n
        <4>1. k # 0 /\ k # n BY <3>5
        <4>2. a = ((f \o one) \o two) \o <<Size(0)>> \o CrLf BY <2>3, <4>1
        <4> QED BY <3>5, <4>2, TwoChunksShape
      <3> QED BY <3>2, <3>3, <3>4, <3>5
    <2> QED BY <2>4, <2>5
  <1> QED BY <1>1, <1>2

-----------------------------------------------------------------------------
(* Where recvResponse is in an answer: w is what is left on the wire, r    *)
(* the request, h the header fields.                                       *)

\* Nothing but a CRLF from behind a body, or a part of one.
Aligned(w) == w \in {<<>>, CrLf, <<Lf>>}

\* The header fields have been read.
AtHead(w, r, h) ==
    h[2] = r /\ \E S, at : Shape(S, h, at) /\ IsPart(w, S, 1, Len(S))

\* readFixSize has m bytes of the body, and left bytes are missing.
AtBody(w, r, h, body, left) ==
    /\ h[2] = r /\ h[1] = "length"
    /\ \E S, at, m : /\ Shape(S, h, at) /\ IsPart(w, S, 2 + m, Len(S)) /\ Bytes(body, r, m, m)
                     /\ left \in Nat /\ left > 0 /\ left = h[3] - m

\* A chunk starts behind place q, and the buffer holds what comes up to place p.
AtSize(w, r, h, body, data) ==
    /\ h[2] = r /\ h[1] = "chunked"
    /\ \E S, at, q, p : /\ Shape(S, h, at) /\ q \in DOMAIN at
                        /\ IsPart(data, S, q, p) /\ IsPart(w, S, p, Len(S))
                        /\ Bytes(body, r, at[q], at[q])

\* The chunk behind place q has z bytes and has been read up to place p.
InPiece(S, r, n, at, q, z, p, body, left) ==
    /\ q \in DOMAIN at /\ IsChunk(S, r, n, at, q, z)
    /\ p \in Nat /\ q + 1 <= p /\ p <= q + z + 2 /\ left = q + z + 3 - p
    /\ Bytes(body, r, at[q] + (p - q - 1), at[q] + z)
AtPiece(w, r, h, body, left, z) ==
    /\ h[2] = r /\ h[1] = "chunked"
    /\ \E S, at, q, p : /\ Shape(S, h, at) /\ IsPart(w, S, p, Len(S))
                        /\ InPiece(S, r, h[3], at, q, z, p, body, left)
AtRest(w, r, h, body, left, done) ==
    \E z : AtPiece(w, r, h, body, left, z) /\ (done <=> z = 0)

\* A read() takes the first k tokens, s, off the wire w and leaves v.
Reads(w, k, s, v) ==
    /\ k \in Nat /\ k <= Len(w)
    /\ s = SubSeq(w, 1, k) /\ v = SubSeq(w, k + 1, Len(w))

\* The response is complete.
AtEnd(w, r, h, body) == h[2] = r /\ Bytes(body, r, h[3], h[3]) /\ Aligned(w)

\* What is left behind a body with a content-length.
LEMMA BehindBody ==
    ASSUME NEW S, NEW r, NEW n \in Nat, IsLength(S, r, n), NEW w, NEW p,
           IsPart(w, S, p, Len(S)), p >= n + 2
    PROVE  Aligned(w)
  <1>1. /\ w \in Seq(Tokens) /\ p \in Nat /\ p <= Len(S) /\ Len(S) \in Nat
        /\ Len(w) = Len(S) - p /\ \A i \in 1 .. Len(S) - p : w[i] = S[p + i]
    BY DEF IsPart
  <1>2. CASE Len(S) = p
    <2>1. Len(w) = 0 BY <1>1, <1>2
    <2> QED BY <1>1, <2>1, EmptySeq DEF Aligned
  <1>3. CASE Len(S) # p
    <2>1. Len(S) = n + 4 /\ S[n + 3] = Cr /\ S[n + 4] = Lf
      <3>1. Len(S) # n + 2 BY <1>1, <1>3
      <3> QED BY <3>1 DEF IsLength
    <2>2. CASE p = n + 2
      <3>1. Len(w) = 2 /\ p + 1 = n + 3 /\ p + 2 = n + 4 /\ Len(S) - p = 2 BY <1>1, <2>1, <2>2
      <3>2. w[1] = Cr /\ w[2] = Lf BY <1>1, <2>1, <3>1
      <3>3. CrLf \in Seq(Tokens) /\ Len(CrLf) = 2 /\ CrLf[1] = Cr /\ CrLf[2] = Lf
        BY TokenTypes DEF CrLf
      <3>4. \A i \in 1 .. Len(w) : w[i] = CrLf[i] BY <3>1, <3>2, <3>3
      <3>5. w = CrLf BY <1>1, <3>1, <3>3, <3>4, SeqEqual
      <3> QED BY <3>5 DEF Aligned
    <2>3. CASE p = n + 3
      <3>1. Len(w) = 1 /\ p + 1 = n + 4 /\ Len(S) - p = 1 BY <1>1, <2>1, <2>3
      <3>2. w[1] = Lf BY <1>1, <2>1, <3>1
      <3>3. w = <<w[1]>> BY <1>1, <3>1
      <3> QED BY <3>2, <3>3 DEF Aligned
    <2> QED BY <1>1, <1>3, <2>1, <2>2, <2>3
  <1> QED BY <1>2, <1>3

\* Bytes of an answer with a content-length, from the start of the body.
LEMMA BodyPart ==
    ASSUME NEW S, NEW r, NEW n \in Nat, ByteRun(S, 2, r, 0, n), NEW body, NEW m,
           Bytes(body, r, m, m), NEW s, NEW a, NEW b, IsPart(s, S, a, b), a = 2 + m,
           m + (b - a) <= n
    PROVE  Bytes(body \o s, r, m + (b - a), m + (b - a))
  <1>1. m \in Nat /\ a \in Nat /\ b \in Nat /\ a <= b BY DEF Bytes, IsPart
  <1>2. ASSUME NEW i \in 1 .. b - a PROVE S[a + i] = Byte(r, m + i)
    <2>1. m + i \in 1 .. n /\ a + i = 2 + (m + i) /\ 0 + (m + i) = m + i BY <1>1
    <2>2. S[2 + (m + i)] = Byte(r, 0 + (m + i)) BY <2>1 DEF ByteRun
    <2> QED BY <2>1, <2>2
  <1>3. PICK e \in Nat : e = m + (b - a) BY <1>1
  <1>4. Bytes(body, r, m, e) BY <1>3, BytesLimit
  <1>5. Bytes(body \o s, r, m + (b - a), e) BY <1>2, <1>4, BytesMore
  <1> QED BY <1>3, <1>5

\* An empty body.
LEMMA NoBytes ==
    ASSUME NEW r PROVE Bytes(<<>>, r, 0, 0)
  <1>1. <<>> \in Seq(Tokens) /\ Len(<<>>) = 0 OBVIOUS
  <1> QED BY <1>1 DEF Bytes

\* The end of the header has been read, and rest behind it.
LEMMA HeaderEnds ==
    ASSUME NEW S, NEW r, NEW h, NEW at, Shape(S, h, at), h[2] = r, NEW rest, NEW w, NEW p,
           IsPart(rest, S, 2, p), IsPart(w, S, p, Len(S))
    PROVE  /\ h[1] = "chunked" => AtSize(w, r, h, <<>>, rest)
           /\ h[1] # "chunked" /\ h[3] - Len(rest) <= 0 => AtEnd(w, r, h, First(rest, h[3]))
           /\ h[1] # "chunked" /\ ~(h[3] - Len(rest) <= 0) =>
                AtBody(w, r, h, rest, h[3] - Len(rest))
  <1>1. h \in Heads BY DEF Shape
  <1>2. h[3] \in Nat /\ h[1] \in {"length", "chunked"} BY <1>1, TokenTypes, BoundsAssumption
  <1>3. p \in Nat /\ 2 <= p /\ rest \in Seq(Tokens) /\ Len(rest) = p - 2 BY DEF IsPart
  <1>4. CASE h[1] = "chunked"
    <2>1. 2 \in DOMAIN at /\ at[2] = 0 BY <1>4 DEF Shape, IsChunks
    <2>2. Bytes(<<>>, r, at[2], at[2]) BY <2>1, NoBytes
    <2>3. AtSize(w, r, h, <<>>, rest) BY <1>4, <2>1, <2>2 DEF AtSize
    <2> QED BY <1>4, <2>3
  <1>5. CASE h[1] # "chunked"
    <2>1. h[1] = "length" BY <1>2, <1>5
    <2>2. IsLength(S, r, h[3]) BY <2>1 DEF Shape
    <2>3. ByteRun(S, 2, r, 0, h[3]) BY <2>2 DEF IsLength
    <2>4. CASE h[3] - Len(rest) <= 0
      <3>1. h[3] <= p - 2 /\ p >= h[3] + 2 BY <1>2, <1>3, <2>4
      <3>2. Aligned(w) BY <1>2, <2>2, <3>1, BehindBody
      <3>3. Bytes(First(rest, h[3]), r, h[3], h[3])
        <4>1. IsPart(SubSeq(rest, 1, h[3]), S, 2, 2 + h[3]) BY <1>2, <3>1, PartCut
        <4>2. PICK s : s = SubSeq(rest, 1, h[3]) OBVIOUS
        <4>3. \A i \in 1 .. h[3] : s[i] = Byte(r, i)
          <5>1. (2 + h[3]) - 2 = h[3] /\ \A i \in 1 .. h[3] : 0 + i = i BY <1>2
          <5>2. \A i \in 1 .. h[3] : s[i] = S[2 + i] BY <4>1, <4>2, <5>1 DEF IsPart
          <5> QED BY <2>3, <5>1, <5>2 DEF ByteRun
        <4>4. s \in Seq(Tokens) /\ Len(s) = h[3]
          <5>1. (2 + h[3]) - 2 = h[3] BY <1>2
          <5> QED BY <4>1, <4>2, <5>1 DEF IsPart
        <4>5. Bytes(s, r, h[3], h[3]) BY <1>2, <4>3, <4>4 DEF Bytes
        <4> QED BY <4>2, <4>5 DEF First
      <3> QED BY <1>5, <2>4, <3>2, <3>3 DEF AtEnd
    <2>5. CASE ~(h[3] - Len(rest) <= 0)
      <3>1. PICK m \in Nat : m = Len(rest) BY <1>3
      <3>2. p = 2 + m /\ h[3] - m \in Nat /\ h[3] - m > 0 /\ m <= h[3] BY <1>2, <1>3, <2>5, <3>1
      <3>3. Bytes(rest, r, m, m)
        <4>1. p - 2 = m /\ \A i \in 1 .. m : i \in 1 .. h[3] /\ 0 + i = i BY <1>2, <3>1, <3>2
        <4>2. \A i \in 1 .. m : rest[i] = S[2 + i] BY <4>1 DEF IsPart
        <4>3. \A i \in 1 .. m : rest[i] = Byte(r, i) BY <2>3, <4>1, <4>2 DEF ByteRun
        <4> QED BY <1>3, <3>1, <4>3 DEF Bytes
      <3>4. IsPart(w, S, 2 + m, Len(S)) BY <3>2
      <3>5. AtBody(w, r, h, rest, h[3] - m) BY <2>1, <3>2, <3>3, <3>4 DEF AtBody
      <3> QED BY <1>5, <2>5, <3>1, <3>5
    <2> QED BY <1>5, <2>4, <2>5
  <1> QED BY <1>4, <1>5

\* readFixSize reads k bytes.
LEMMA BodyRead ==
    ASSUME NEW w, NEW r, NEW h, NEW body, NEW left, AtBody(w, r, h, body, left),
           NEW k \in Nat, k <= Len(w), k <= left, NEW s, s = SubSeq(w, 1, k)
    PROVE  /\ k = left => AtEnd(SubSeq(w, k + 1, Len(w)), r, h, body \o s)
           /\ k # left => AtBody(SubSeq(w, k + 1, Len(w)), r, h, body \o s, left - k)
  <1>1. PICK S, at, m : /\ Shape(S, h, at) /\ IsPart(w, S, 2 + m, Len(S)) /\ Bytes(body, r, m, m)
                        /\ left \in Nat /\ left > 0 /\ left = h[3] - m
    BY DEF AtBody
  <1>2. h[2] = r /\ h[1] = "length" BY DEF AtBody
  <1>3. h \in Heads BY <1>1 DEF Shape
  <1>4. PICK n \in Nat : n = h[3] BY <1>3, TokenTypes, BoundsAssumption
  <1>5. m \in Nat BY <1>1 DEF Bytes
  <1>6. Len(S) \in Nat /\ Len(w) = Len(S) - (2 + m) BY <1>1 DEF IsPart
  <1>7. PICK a \in Nat : a = 2 + m BY <1>5
  <1>8. IsLength(S, r, n) BY <1>1, <1>2, <1>4 DEF Shape
  <1>9. ByteRun(S, 2, r, 0, n) BY <1>8 DEF IsLength
  <1> DEFINE v == SubSeq(w, k + 1, Len(w))
  <1>10. IsPart(s, S, a, a + k) /\ IsPart(v, S, a + k, Len(S))
    <2>1. k <= Len(S) - a /\ IsPart(w, S, a, Len(S)) BY <1>1, <1>6, <1>7
    <2> QED BY <2>1, PartCut
  <1> HIDE DEF v
  <1>11. /\ (a + k) - a = k /\ m + k <= n /\ left = n - m /\ a + k = 2 + (m + k)
    BY <1>1, <1>4, <1>5, <1>7
  <1>12. Bytes(body \o s, r, m + k, m + k)
    <2>1. m + ((a + k) - a) <= n BY <1>11
    <2>2. Bytes(body \o s, r, m + ((a + k) - a), m + ((a + k) - a))
      BY <1>1, <1>7, <1>9, <1>10, <2>1, BodyPart
    <2> QED BY <1>11, <2>2
  <1>13. CASE k = left
    <2>1. m + k = n /\ a + k >= n + 2 BY <1>5, <1>11, <1>13
    <2>2. Aligned(v) BY <1>8, <1>10, <2>1, BehindBody
    <2>3. AtEnd(v, r, h, body \o s) BY <1>2, <1>4, <1>12, <2>1, <2>2 DEF AtEnd
    <2> QED BY <1>13, <2>3 DEF v
  <1>14. CASE k # left
    <2>1. left - k \in Nat /\ left - k > 0 /\ left - k = h[3] - (m + k)
      BY <1>1, <1>4, <1>5, <1>14
    <2>2. IsPart(v, S, 2 + (m + k), Len(S)) BY <1>10, <1>11
    <2>3. AtBody(v, r, h, body \o s, left - k)
      BY <1>1, <1>2, <1>12, <2>1, <2>2 DEF AtBody
    <2> QED BY <1>14, <2>3 DEF v
  <1> QED BY <1>13, <1>14

\* A buffer filled from the wire when a chunk starts.
LEMMA SizeRead ==
    ASSUME NEW w, NEW r, NEW h, NEW body, AtSize(w, r, h, body, <<>>),
           NEW k \in Nat, k <= Len(w), NEW s, s = SubSeq(w, 1, k)
    PROVE  AtSize(SubSeq(w, k + 1, Len(w)), r, h, body, s)
  <1>1. PICK S, at, q, p : /\ Shape(S, h, at) /\ q \in DOMAIN at
                           /\ IsPart(<<>>, S, q, p) /\ IsPart(w, S, p, Len(S))
                           /\ Bytes(body, r, at[q], at[q])
    BY DEF AtSize
  <1>2. q = p BY <1>1, PartEnds
  <1>3. Len(w) = Len(S) - p BY <1>1 DEF IsPart
  <1>4. IsPart(s, S, p, p + k) /\ IsPart(SubSeq(w, k + 1, Len(w)), S, p + k, Len(S))
    BY <1>1, <1>3, PartCut
  <1>5. h[2] = r /\ h[1] = "chunked" BY DEF AtSize
  <1> QED BY <1>1, <1>2, <1>4, <1>5 DEF AtSize

\* Tokens of a chunk, its CRLF included, behind what has been read of it.
LEMMA PieceBytes ==
    ASSUME NEW S, NEW q \in Nat, NEW z \in Nat, NEW r, NEW m \in Nat, IsPiece(S, q, z, r, m),
           NEW p \in Nat, q + 1 <= p, NEW body, Bytes(body, r, m + (p - q - 1), m + z),
           NEW s, NEW e, IsPart(s, S, p, e)
    PROVE  Bytes(body \o s, r, m + (e - q - 1), m + z)
  <1>1. e \in Nat /\ p <= e BY DEF IsPart
  <1>2. PICK n \in Nat : n = m + (p - q - 1) OBVIOUS
  <1>3. PICK lim \in Nat : lim = m + z OBVIOUS
  <1>4. ASSUME NEW i \in 1 .. e - p, n + i <= lim PROVE S[p + i] = Byte(r, n + i)
    <2>1. PICK j : j = (p - q - 1) + i OBVIOUS
    <2>2. j \in 1 .. z /\ p + i = (q + 1) + j /\ n + i = m + j
      BY <1>1, <1>2, <1>3, <1>4, <2>1
    <2>3. S[(q + 1) + j] = Byte(r, m + j) BY <2>2 DEF IsPiece, ByteRun
    <2> QED BY <2>2, <2>3
  <1>5. Bytes(body, r, n, lim) BY <1>2, <1>3
  <1>6. Bytes(body \o s, r, n + (e - p), lim) BY ONLY <1>4, <1>5, BytesMore, IsPart(s, S, p, e)
  <1>7. n + (e - p) = m + (e - q - 1) BY <1>1, <1>2
  <1> QED BY <1>3, <1>6, <1>7

\* Behind a chunk that is complete comes the next one, or nothing.
LEMMA BehindChunk ==
    ASSUME NEW S, NEW r, NEW h, NEW at, Shape(S, h, at), h[2] = r, h[1] = "chunked",
           NEW q, NEW z, q \in DOMAIN at, IsChunk(S, r, h[3], at, q, z), NEW w, NEW p,
           IsPart(w, S, p, Len(S)), NEW data, IsPart(data, S, q + z + 3, p), NEW body,
           Bytes(body, r, at[q] + z, at[q] + z)
    PROVE  /\ z = 0 => AtEnd(w, r, h, body)
           /\ z # 0 => AtSize(w, r, h, body, data)
  <1>1. q \in Nat /\ at[q] \in Nat /\ z \in Nat BY DEF Shape, IsChunks, IsChunk
  <1>2. p \in Nat /\ q + z + 3 <= p /\ p <= Len(S) /\ Len(S) \in Nat BY DEF IsPart
  <1>3. CASE z = 0
    <2>1. at[q] = h[3] /\ Len(S) = q + 3 BY <1>3 DEF IsChunk
    <2>2. at[q] + z = h[3] /\ p = Len(S) BY <1>1, <1>2, <1>3, <2>1
    <2>3. w = <<>> BY <2>2, PartEnds
    <2> QED BY <1>3, <2>2, <2>3 DEF AtEnd, Aligned
  <1>4. CASE z # 0
    <2>1. q + z + 3 \in DOMAIN at /\ at[q + z + 3] = at[q] + z BY <1>4 DEF IsChunk
    <2>2. PICK e : e = q + z + 3 OBVIOUS
    <2>3. e \in DOMAIN at /\ IsPart(data, S, e, p) /\ Bytes(body, r, at[e], at[e])
      BY <2>1, <2>2
    <2> QED BY <1>4, <2>3 DEF AtSize
  <1> QED BY <1>3, <1>4

\* The size line of a chunk is parsed.
LEMMA ChunkTaken ==
    ASSUME NEW w, NEW r, NEW h, NEW body, NEW data, AtSize(w, r, h, body, data), data # <<>>,
           NEW z, z = data[1][2], NEW rest, rest = Tail(data)
    PROVE  /\ z \in Nat /\ Len(rest) \in Nat
           /\ z + 2 <= Len(rest) /\ z = 0 => AtEnd(w, r, h, body \o First(rest, z))
           /\ z + 2 <= Len(rest) /\ z # 0 =>
                AtSize(w, r, h, body \o First(rest, z), After(rest, z + 2))
           /\ ~(z + 2 <= Len(rest)) =>
                AtPiece(w, r, h, body \o rest, z - Len(rest) + 2, z)
  <1>1. PICK S, at, q, p : /\ Shape(S, h, at) /\ q \in DOMAIN at
                           /\ IsPart(data, S, q, p) /\ IsPart(w, S, p, Len(S))
                           /\ Bytes(body, r, at[q], at[q])
    BY DEF AtSize
  <1>2. h[2] = r /\ h[1] = "chunked" BY DEF AtSize
  <1>3. IsChunks(S, r, h[3], at) BY <1>1, <1>2 DEF Shape
  <1>4. q \in Nat /\ at[q] \in Nat /\ \E y : IsChunk(S, r, h[3], at, q, y)
    BY <1>1, <1>3 DEF IsChunks
  <1>5. PICK y : IsChunk(S, r, h[3], at, q, y) BY <1>4
  <1>6. IsPart(rest, S, q + 1, p) /\ data[1] = S[q + 1] /\ q < p BY <1>1, PartTail
  <1>7. y \in Nat /\ IsPiece(S, q, y, r, at[q]) BY <1>5 DEF IsChunk
  <1>8. z = y
    <2>1. S[q + 1] = Size(y) BY <1>7 DEF IsPiece
    <2> QED BY <1>6, <2>1 DEF Size
  <1>9. z \in Nat /\ IsPiece(S, q, z, r, at[q]) /\ IsChunk(S, r, h[3], at, q, z)
    BY <1>5, <1>7, <1>8
  <1>10. PICK m \in Nat : m = at[q] BY <1>4
  <1>11. PICK b \in Nat : b = q + 1 BY <1>4
  <1>12. p \in Nat /\ b <= p /\ Len(rest) = p - b /\ Len(rest) \in Nat
    BY <1>6, <1>11 DEF IsPart
  <1>13. Bytes(body, r, m + (b - q - 1), m + z)
    <2>1. m + (b - q - 1) = m BY <1>4, <1>11
    <2>2. PICK lim \in Nat : lim = m + z BY <1>9
    <2>3. Bytes(body, r, m, lim) BY <1>1, <1>10, BytesLimit
    <2> QED BY <2>1, <2>2, <2>3
  <1>14. CASE z + 2 <= Len(rest)
    <2>1. IsPart(First(rest, z), S, b, b + z)
      <3>1. z <= p - b BY <1>9, <1>12, <1>14
      <3> QED BY <1>6, <1>9, <1>11, <3>1, PartCut DEF First
    <2>2. Bytes(body \o First(rest, z), r, m + z, m + z)
      <3>1. PICK e \in Nat : e = b + z BY <1>9
      <3>2. IsPart(First(rest, z), S, b, e) /\ q + 1 <= b BY <1>4, <1>11, <2>1, <3>1
      <3>3. Bytes(body \o First(rest, z), r, m + (e - q - 1), m + z)
        BY <1>4, <1>9, <1>10, <1>13, <3>2, PieceBytes
      <3>4. m + (e - q - 1) = m + z
        <4>1. q \in Nat /\ z \in Nat BY <1>4, <1>9
        <4> QED BY ONLY <1>10, <1>11, <3>1, <4>1
      <3> QED BY <3>3, <3>4
    <2>3. IsPart(After(rest, z + 2), S, q + z + 3, p)
      <3>1. PICK k \in Nat : k = z + 2 BY <1>9
      <3>2. k <= p - b BY <1>12, <1>14, <3>1
      <3>3. IsPart(SubSeq(rest, k + 1, Len(rest)), S, b + k, p) BY <1>6, <1>11, <3>2, PartCut
      <3>4. b + k = q + z + 3 BY SMTT(30), <1>4, <1>9, <1>11, <3>1
      <3> QED BY <3>1, <3>3, <3>4 DEF After
    <2>4. Bytes(body \o First(rest, z), r, at[q] + z, at[q] + z) BY <1>10, <2>2
    <2>5. /\ z = 0 => AtEnd(w, r, h, body \o First(rest, z))
          /\ z # 0 => AtSize(w, r, h, body \o First(rest, z), After(rest, z + 2))
      BY <1>1, <1>2, <1>9, <2>3, <2>4, BehindChunk
    <2> QED BY <1>9, <1>12, <1>14, <2>5
  <1>15. CASE ~(z + 2 <= Len(rest))
    <2>1. Bytes(body \o rest, r, m + (p - q - 1), m + z)
      <3>1. IsPart(rest, S, b, p) /\ q + 1 <= b BY <1>4, <1>6, <1>11
      <3> QED BY <1>4, <1>9, <1>10, <1>13, <3>1, PieceBytes
    <2>2. PICK left : left = z - Len(rest) + 2 OBVIOUS
    <2>3. q + 1 <= p /\ p <= q + z + 2 /\ left = q + z + 3 - p
      BY SMTT(30), <1>4, <1>9, <1>11, <1>12, <1>15, <2>2
    <2>4. InPiece(S, r, h[3], at, q, z, p, body \o rest, left)
      BY <1>1, <1>9, <1>10, <1>12, <2>1, <2>3 DEF InPiece
    <2>5. AtPiece(w, r, h, body \o rest, left, z)
      BY <1>1, <1>2, <2>4 DEF AtPiece
    <2> QED BY <1>9, <1>12, <1>15, <2>2, <2>5
  <1> QED BY <1>14, <1>15

\* The loop that reads the rest of a chunk gets k tokens.
LEMMA RestRead ==
    ASSUME NEW w, NEW r, NEW h, NEW body, NEW left, NEW z, AtPiece(w, r, h, body, left, z),
           NEW k, NEW s, NEW v, Reads(w, k, s, v), k <= left,
           NEW cut, cut = First(body \o s, Len(body \o s) - 2)
    PROVE  /\ k = left /\ z = 0 => AtEnd(v, r, h, cut)
           /\ k = left /\ z # 0 => AtSize(v, r, h, cut, <<>>)
           /\ k # left => AtPiece(v, r, h, body \o s, left - k, z)
  <1>0. k \in Nat /\ k <= Len(w) /\ s = SubSeq(w, 1, k) /\ v = SubSeq(w, k + 1, Len(w))
    BY DEF Reads
  <1>1. PICK S, at, q, p : /\ Shape(S, h, at) /\ IsPart(w, S, p, Len(S))
                           /\ InPiece(S, r, h[3], at, q, z, p, body, left)
    BY DEF AtPiece
  <1>2. h[2] = r /\ h[1] = "chunked" BY DEF AtPiece
  <1>3. /\ q \in DOMAIN at /\ IsChunk(S, r, h[3], at, q, z)
        /\ p \in Nat /\ q + 1 <= p /\ p <= q + z + 2 /\ left = q + z + 3 - p
        /\ Bytes(body, r, at[q] + (p - q - 1), at[q] + z)
    BY <1>1 DEF InPiece
  <1>4. q \in Nat /\ at[q] \in Nat BY <1>1, <1>2, <1>3 DEF Shape, IsChunks
  <1>5. z \in Nat /\ IsPiece(S, q, z, r, at[q]) BY <1>3 DEF IsChunk
  <1>6. PICK m \in Nat : m = at[q] BY <1>4
  <1>7. PICK e \in Nat : e = p + k BY <1>0, <1>3
  <1>8. IsPart(s, S, p, e) /\ IsPart(v, S, e, Len(S))
    <2>1. k <= Len(S) - p BY <1>0, <1>1 DEF IsPart
    <2> QED BY <1>0, <1>1, <1>7, <2>1, PartCut
  <1>9. Bytes(body \o s, r, m + (e - q - 1), m + z)
    BY <1>3, <1>4, <1>5, <1>6, <1>8, PieceBytes
  <1>10. /\ q \in Nat /\ z \in Nat /\ p \in Nat /\ q + 1 <= p /\ p <= q + z + 2
         /\ left = q + z + 3 - p
    BY <1>3, <1>4, <1>5
  <1>11. CASE k = left
    <2>1. e = q + z + 3 /\ m + (e - q - 1) = m + z + 2 BY ONLY <1>6, <1>7, <1>11, <1>10
    <2>2. PICK lim \in Nat : lim = m + z BY <1>5
    <2>3. Len(body \o s) - 2 = lim BY <1>9, <2>1, <2>2 DEF Bytes
    <2>4. Bytes(cut, r, lim, lim)
      <3>1. PICK n \in Nat : n = lim + 2 OBVIOUS
      <3>2. Bytes(body \o s, r, n, lim) /\ lim <= n BY <1>9, <2>1, <2>2, <3>1
      <3>3. Bytes(SubSeq(body \o s, 1, lim), r, lim, lim) BY <3>2, BytesCut
      <3> QED BY <2>3, <3>3 DEF First
    <2>5. IsPart(<<>>, S, q + z + 3, e)
      <3>1. <<>> \in Seq(Tokens) /\ Len(<<>>) = 0 OBVIOUS
      <3> QED BY <2>1, <3>1 DEF IsPart
    <2>6. Bytes(cut, r, at[q] + z, at[q] + z) BY <1>6, <2>2, <2>4
    <2>7. /\ z = 0 => AtEnd(v, r, h, cut)
          /\ z # 0 => AtSize(v, r, h, cut, <<>>)
      BY <1>1, <1>2, <1>3, <1>8, <2>5, <2>6, BehindChunk
    <2> QED BY <1>1, <1>11, <2>7
  <1>12. CASE k # left
    <2>1. /\ q + 1 <= e /\ e <= q + z + 2 /\ left - k = q + z + 3 - e
      BY ONLY <1>7, <1>10, <1>12, <1>0, k <= left
    <2>2. InPiece(S, r, h[3], at, q, z, e, body \o s, left - k)
      BY <1>3, <1>6, <1>9, <2>1 DEF InPiece
    <2>3. AtPiece(v, r, h, body \o s, left - k, z)
      BY <1>1, <1>2, <1>8, <2>2 DEF AtPiece
    <2> QED BY <1>12, <2>3
  <1> QED BY <1>11, <1>12

-----------------------------------------------------------------------------
(* The streams and the calls.                                              *)

\* No response starts like this.
Stale(w) == w # <<>> /\ w[1] \notin Heads

\* Before the first token of a header: the server has the request r, or has lost
\* it, or its answer is on the wire and nothing else; behind left-over bytes, on
\* which the parser will fail, anything may come.
Waits(w, a, r) ==
    \/ a \in {<<>>, <<r>>} /\ (w = <<>> \/ Stale(w))
    \/ a = <<>> /\ \E h, at : h[2] = r /\ Shape(w, h, at)

\* A call x, with w on the wire of its connection and a asked on it; C are the
\* connections that are open.
Receiving(x, w, a, C) ==
    /\ x.pc = "send" => x.head = NoHead /\ x.body = <<>> /\ a = <<>> /\ Aligned(w)
    /\ x.pc = "head" /\ x.head = NoHead => x.body = <<>> /\ Waits(w, a, x.req)
    /\ x.pc = "head" /\ x.head # NoHead => x.body = <<>> /\ a = <<>> /\ AtHead(w, x.req, x.head)
    /\ x.pc = "fix" => a = <<>> /\ AtBody(w, x.req, x.head, x.body, x.left)
    /\ x.pc = "size" => a = <<>> /\ AtSize(w, x.req, x.head, x.body, x.data)
    /\ x.pc = "rest" => a = <<>> /\ AtRest(w, x.req, x.head, x.body, x.left, x.done)
    /\ x.pc = "release" /\ x.ok => a = <<>> /\ AtEnd(w, x.req, x.head, x.body)
    /\ x.pc = "release" /\ ~x.ok => a = <<>> /\ x.c \notin C

\* Every call is where its stream is, unless the parser has lost a part of it.
Streams ==
    \A t \in Threads : th[t].pc # "idle" /\ th[t].c \notin torn =>
        Receiving(th[t], wire[th[t].c], asked[th[t].c], connected)

\* A connection that does not exist carries nothing.
Unused == \A c \in Conns \ live : wire[c] = <<>> /\ asked[c] = <<>>

\* Somebody waits for an answer that is due.
Awaited ==
    \A c \in Conns \ torn : asked[c] # <<>> => \E t \in Threads : th[t].pc # "idle" /\ th[t].c = c

SInv == Streams /\ Unused /\ Awaited /\ PooledAligned

\* The calls with the fields of t's replaced.
LEMMA UpdateFields ==
    ASSUME TypeOK, NEW t \in Threads, NEW pc, NEW head, NEW data, NEW body, NEW left,
           NEW done, NEW ok, th' = Update(t, pc, head, data, body, left, done, ok)
    PROVE  /\ th'[t].pc = pc /\ th'[t].head = head /\ th'[t].data = data /\ th'[t].body = body
           /\ th'[t].left = left /\ th'[t].done = done /\ th'[t].ok = ok
           /\ th'[t].c = th[t].c /\ th'[t].req = th[t].req
  <1>1. th \in [Threads -> Call] /\ th[t] \in Call BY DEF TypeOK
  <1> DEFINE y == [th[t] EXCEPT !.pc = pc, !.head = head, !.data = data, !.body = body,
                                !.left = left, !.done = done, !.ok = ok]
  <1>2. /\ y.pc = pc /\ y.head = head /\ y.data = data /\ y.body = body
        /\ y.left = left /\ y.done = done /\ y.ok = ok
        /\ y.c = th[t].c /\ y.req = th[t].req
    BY <1>1 DEF Call
  <1> HIDE DEF y
  <1>3. th' = [th EXCEPT ![t] = y] BY DEF y, Update
  <1>4. th'[t] = y BY <1>1, <1>3
  <1> QED BY <1>2, <1>4

\* A step of t in its call that touches no other connection keeps the streams.
Alone(t) ==
    \A c \in Conns : c # th[t].c =>
        /\ wire'[c] = wire[c] /\ asked'[c] = asked[c]
        /\ (c \in connected' <=> c \in connected) /\ (c \in torn' <=> c \in torn)
LEMMA AloneKeeps ==
    ASSUME IInv, SInv, NEW t \in Threads, Inside(t), Alone(t),
           th[t].c \notin torn' => Receiving(th'[t], wire'[th[t].c], asked'[th[t].c], connected')
    PROVE  SInv'
  <1>1. /\ \A u \in Threads \ {t} : th'[u] = th[u]
        /\ th[t].pc # "idle" /\ th'[t].pc # "idle" /\ th'[t].c = th[t].c
        /\ conns_' = conns_ /\ live' = live
    BY DEF Inside, Moves
  <1>2. th[t].c \in live /\ \A u \in Threads \ {t} : th[u].pc # "idle" =>
                th[u].c # th[t].c /\ th[u].c \in Conns
    BY <1>1 DEF IInv, Held, OneOwner, TypeOK
  <1>3. Streams'
    <2> SUFFICES ASSUME NEW u \in Threads, th'[u].pc # "idle", th'[u].c \notin torn'
                 PROVE  Receiving(th'[u], wire'[th'[u].c], asked'[th'[u].c], connected')
      BY DEF Streams
    <2>1. CASE u = t BY <1>1, <2>1
    <2>2. CASE u # t
      <3>1. th'[u] = th[u] /\ th[u].pc # "idle" BY <1>1, <2>2
      <3>2. PICK x : x = th[u] OBVIOUS
      <3>3. x.c \in Conns /\ x.c # th[t].c BY <1>2, <2>2, <3>1, <3>2
      <3>4. /\ wire'[x.c] = wire[x.c] /\ asked'[x.c] = asked[x.c]
            /\ x.c \in connected' <=> x.c \in connected
            /\ x.c \in torn' <=> x.c \in torn
        BY <3>3 DEF Alone
      <3>5. Receiving(x, wire[x.c], asked[x.c], connected)
        BY <3>1, <3>2, <3>4 DEF SInv, Streams
      <3>6. Receiving(x, wire'[x.c], asked'[x.c], connected')
        BY <3>4, <3>5 DEF Receiving
      <3> QED BY <3>1, <3>2, <3>6
    <2> QED BY <2>1, <2>2
  <1>4. Unused'
    <2>1. \A c \in Conns \ live : c # th[t].c BY <1>2
    <2> QED BY <1>1, <2>1 DEF Unused, SInv, Alone
  <1>5. Awaited'
    <2> SUFFICES ASSUME NEW c \in Conns \ torn', asked'[c] # <<>>
                 PROVE  \E u \in Threads : th'[u].pc # "idle" /\ th'[u].c = c
      BY DEF Awaited
    <2>1. CASE c = th[t].c BY <1>1, <2>1
    <2>2. CASE c # th[t].c
      <3>1. asked[c] # <<>> /\ c \in Conns \ torn BY <2>2 DEF Alone
      <3>2. PICK u \in Threads : th[u].pc # "idle" /\ th[u].c = c BY <3>1 DEF SInv, Awaited
      <3> QED BY <1>1, <2>2, <3>2
    <2> QED BY <2>1, <2>2
  <1>6. PooledAligned'
    <2>1. ASSUME NEW i \in DOMAIN conns_
          PROVE  conns_[i] \in Conns /\ conns_[i] # th[t].c
      BY <1>1 DEF IInv, OneOwner, TypeOK
    <2> QED BY <1>1, <2>1 DEF PooledAligned, SInv, Alone
  <1> QED BY <1>3, <1>4, <1>5, <1>6 DEF SInv

\* A call that fails closes its connection.
LEMMA FailKeeps ==
    ASSUME IInv, NEW t \in Threads, th[t].pc \in Reading, Fail(t)
    PROVE  Alone(t) /\ Receiving(th'[t], wire'[th[t].c], asked'[th[t].c], connected')
  <1>1. TypeOK /\ Held /\ th[t].pc # "idle" BY DEF IInv, Reading
  <1>2. th[t] \in Call /\ th[t].c \in Conns BY <1>1, InCall
  <1>3. th' = Update(t, "release", th[t].head, <<>>, <<>>, 0, th[t].done, FALSE)
    BY <1>1, <1>2 DEF Fail, Call, Update, TypeOK
  <1>4. th'[t].pc = "release" /\ ~th'[t].ok /\ th'[t].c = th[t].c
    <2>1. PICK head, data, left, done, ok :
            ok = FALSE /\ th' = Update(t, "release", head, data, data, left, done, ok)
      BY <1>3
    <2>2. th'[t].pc = "release" /\ th'[t].ok = ok /\ th'[t].c = th[t].c
      BY <1>1, <2>1, UpdateFields
    <2> QED BY <2>1, <2>2, Zenon
  <1>5. Close(th[t].c) BY DEF Fail
  <1>6. Alone(t) BY <1>1, <1>5 DEF Close, Alone, TypeOK
  <1>7. asked'[th[t].c] = <<>> /\ th[t].c \notin connected'
    BY <1>1, <1>2, <1>5 DEF Close, TypeOK
  <1> QED BY <1>4, <1>6, <1>7 DEF Receiving

\* What a read() of s leaves, and that it touches no other connection.
LEMMA ConsumeAlone ==
    ASSUME TypeOK, NEW t \in Threads, th[t].c \in Conns, NEW limit \in Nat,
           NEW s \in Segments(th[t].c, limit), Consume(th[t].c, s)
    PROVE  /\ Alone(t) /\ connected' = connected /\ asked'[th[t].c] = asked[th[t].c]
           /\ Len(s) \in Nat /\ Len(s) # 0 /\ Len(s) <= Len(wire[th[t].c]) /\ Len(s) <= limit
           /\ s = SubSeq(wire[th[t].c], 1, Len(s))
           /\ wire'[th[t].c] = SubSeq(wire[th[t].c], Len(s) + 1, Len(wire[th[t].c]))
           /\ s \in Seq(Tokens) /\ s # <<>> /\ s[1] = wire[th[t].c][1] /\ wire[th[t].c] # <<>>
  <1> DEFINE c == th[t].c
  <1>1. PICK w : w = wire[c] OBVIOUS
  <1>2. w \in Seq(Tokens) /\ Len(w) \in Nat BY <1>1, LenProperties DEF TypeOK
  <1>3. PICK k \in 1 .. Len(w) : k <= limit /\ s = SubSeq(w, 1, k)
    BY <1>1 DEF Segments
  <1>4. IsPart(w, w, 0, Len(w)) BY <1>2 DEF IsPart
  <1>5. k \in Nat /\ k <= Len(w) - 0 /\ 1 <= k BY <1>2
  <1>6. IsPart(s, w, 0, 0 + k) BY <1>3, <1>4, <1>5, PartCut
  <1>7. s \in Seq(Tokens) /\ Len(s) = k /\ s[1] = w[1]
    <2>1. 0 + k - 0 = k /\ 1 \in 1 .. 0 + k - 0 /\ 0 + 1 = 1 BY <1>5
    <2> QED BY <1>6, <2>1 DEF IsPart
  <1>8. s # <<>> /\ w # <<>> BY <1>2, <1>5, <1>7, EmptySeq
  <1>9. wire'[c] = SubSeq(w, Len(s) + 1, Len(w)) BY <1>1 DEF Consume, TypeOK
  <1>10. Alone(t) BY DEF Alone, Consume, TypeOK
  <1>11. connected' = connected /\ asked'[c] = asked[c] BY DEF Consume
  <1> QED BY SMTT(30), <1>1, <1>3, <1>5, <1>7, <1>8, <1>9, <1>10, <1>11

\* A CRLF that is left over is no header.
LEMMA AlignedStale ==
    ASSUME NEW w, Aligned(w)
    PROVE  w = <<>> \/ Stale(w)
  <1>1. Cr \notin Heads /\ Lf \notin Heads BY DEF Cr, Lf, Heads
  <1>2. CrLf # <<>> /\ CrLf[1] = Cr /\ <<Lf>> # <<>> /\ <<Lf>>[1] = Lf BY DEF CrLf
  <1> QED BY <1>1, <1>2 DEF Aligned, Stale

\* sendRequest.
LEMMA SendKeeps ==
    ASSUME IInv, Streams, NEW t \in Threads, th[t].c \notin torn, SendRequest(t)
    PROVE  Alone(t) /\ Receiving(th'[t], wire'[th[t].c], asked'[th[t].c], connected')
  <1> DEFINE x == th[t]
  <1>1. TypeOK /\ Held /\ x.pc = "send" /\ x.pc # "idle" BY DEF IInv, SendRequest
  <1>2. x \in Call /\ x.c \in Conns BY <1>1, InCall
  <1>3. PICK done, ok : th' = Update(t, "head", x.head, x.data, x.body, x.left, done, ok)
    <2>1. th' = Update(t, "head", x.head, x.data, x.body, x.left, x.done, x.ok)
      BY <1>2 DEF SendRequest, Update, TypeOK, Call
    <2> QED BY <2>1
  <1>4. /\ th'[t].pc = "head" /\ th'[t].head = x.head /\ th'[t].body = x.body
        /\ th'[t].req = x.req
    BY <1>1, <1>3, UpdateFields
  <1>5. Receiving(x, wire[x.c], asked[x.c], connected) BY <1>1 DEF Streams
  <1>6. x.head = NoHead /\ x.body = <<>> /\ asked[x.c] = <<>> /\ Aligned(wire[x.c])
    BY <1>1, <1>5 DEF Receiving
  <1>7. wire' = wire BY DEF SendRequest
  <1>8. asked'[x.c] \in {<<>>, <<x.req>>} /\ \A c \in Conns : c # x.c => asked'[c] = asked[c]
    <2>1. asked \in [Conns -> Seq(Reqs)] BY <1>1 DEF TypeOK
    <2>2. Append(<<>>, x.req) = <<x.req>> OBVIOUS
    <2> QED BY <1>2, <1>6, <2>1, <2>2 DEF SendRequest
  <1>9. wire[x.c] = <<>> \/ Stale(wire[x.c]) BY <1>6, AlignedStale
  <1>10. Waits(wire'[x.c], asked'[x.c], x.req) BY <1>7, <1>8, <1>9 DEF Waits
  <1>11. Alone(t) BY <1>7, <1>8 DEF Alone, SendRequest
  <1> QED BY <1>4, <1>6, <1>10, <1>11 DEF Receiving

\* The response is complete.
LEMMA CompleteKeeps ==
    ASSUME TypeOK, NEW t \in Threads, NEW head, NEW body, Complete(t, head, body),
           NEW w, NEW C, AtEnd(w, th[t].req, head, body)
    PROVE  Receiving(th'[t], w, <<>>, C)
  <1>1. th \in [Threads -> Call] /\ th[t] \in Call BY DEF TypeOK
  <1>2. th' = Update(t, "release", head, <<>>, body, 0, th[t].done, TRUE)
    BY <1>1 DEF Complete, Call, Update
  <1>3. PICK data, left, done, ok :
            ok = TRUE /\ th' = Update(t, "release", head, data, body, left, done, ok)
    BY <1>2
  <1>4. /\ th'[t].pc = "release" /\ th'[t].ok = ok /\ th'[t].head = head
        /\ th'[t].body = body /\ th'[t].req = th[t].req
    <2>1. th' = Update(t, "release", head, data, body, left, done, ok) BY <1>3, Zenon
    <2> QED BY ONLY TypeOK, t \in Threads, <2>1, UpdateFields
  <1>5. th'[t].ok BY <1>3, <1>4, Zenon
  <1> QED BY <1>4, <1>5 DEF Receiving

\* The header is complete.
LEMMA HeaderDoneKeeps ==
    ASSUME TypeOK, NEW t \in Threads, th[t].body = <<>>, NEW h, NEW rest, HeaderDone(t, h, rest),
           NEW S, NEW at, Shape(S, h, at), h[2] = th[t].req, NEW w, NEW p,
           IsPart(rest, S, 2, p), IsPart(w, S, p, Len(S)), NEW C
    PROVE  Receiving(th'[t], w, <<>>, C)
  <1> DEFINE x == th[t]
  <1>1. th \in [Threads -> Call] /\ th[t] \in Call BY DEF TypeOK
  <1>2. /\ h[1] = "chunked" => AtSize(w, x.req, h, <<>>, rest)
        /\ h[1] # "chunked" /\ h[3] - Len(rest) <= 0 => AtEnd(w, x.req, h, First(rest, h[3]))
        /\ h[1] # "chunked" /\ ~(h[3] - Len(rest) <= 0) =>
                AtBody(w, x.req, h, rest, h[3] - Len(rest))
    BY HeaderEnds
  <1>0. h[1] # "lost" BY DEF Shape, Heads
  <1>3. CASE h[1] = "chunked"
    <2>1. th' = Update(t, "size", h, rest, x.body, x.left, x.done, x.ok)
      BY <1>0, <1>1, <1>3 DEF HeaderDone, Call, Update
    <2>2. PICK left, done, ok : th' = Update(t, "size", h, rest, <<>>, left, done, ok)
      BY <2>1
    <2>3. /\ th'[t].pc = "size" /\ th'[t].head = h /\ th'[t].data = rest
          /\ th'[t].body = <<>> /\ th'[t].req = x.req
      BY <2>2, UpdateFields
    <2> QED BY <1>2, <1>3, <2>3 DEF Receiving
  <1>4. CASE h[1] # "chunked" /\ h[3] - Len(rest) <= 0
    <2>1. Complete(t, h, First(rest, h[3])) BY <1>0, <1>4 DEF HeaderDone
    <2> QED BY <1>2, <1>4, <2>1, CompleteKeeps
  <1>5. CASE h[1] # "chunked" /\ ~(h[3] - Len(rest) <= 0)
    <2>1. th' = Update(t, "fix", h, x.data, rest, h[3] - Len(rest), x.done, x.ok)
      BY ZenonT(60), <1>0, <1>1, <1>5 DEF HeaderDone, Call, Update
    <2>2. PICK data, left, done, ok : left = h[3] - Len(rest)
                                /\ th' = Update(t, "fix", h, data, rest, left, done, ok)
      BY <2>1
    <2>3. /\ th'[t].pc = "fix" /\ th'[t].head = h /\ th'[t].left = left
          /\ th'[t].body = rest /\ th'[t].req = x.req
      BY <2>2, UpdateFields
    <2>4. AtBody(w, x.req, h, rest, left) BY <1>2, <1>5, <2>2
    <2> QED BY <2>3, <2>4 DEF Receiving
  <1> QED BY <1>3, <1>4, <1>5

\* A chunk is complete.
LEMMA ChunkDoneKeeps ==
    ASSUME TypeOK, NEW t \in Threads, NEW body, NEW data, NEW last, NEW w, NEW C,
           ChunkDone(t, body, data, last),
           last => AtEnd(w, th[t].req, th[t].head, body),
           ~last => AtSize(w, th[t].req, th[t].head, body, data)
    PROVE  Receiving(th'[t], w, <<>>, C)
  <1> DEFINE x == th[t]
  <1>1. th \in [Threads -> Call] /\ th[t] \in Call BY DEF TypeOK
  <1>2. CASE last
    <2>1. Complete(t, x.head, body) BY <1>2 DEF ChunkDone
    <2> QED BY <1>2, <2>1, CompleteKeeps
  <1>3. CASE ~last
    <2>1. th' = Update(t, "size", x.head, data, body, 0, x.done, x.ok)
      BY ZenonT(60), <1>1, <1>3 DEF ChunkDone, Call, Update
    <2>2. PICK left, done, ok : th' = Update(t, "size", x.head, data, body, left, done, ok)
      BY <2>1
    <2>3. /\ th'[t].pc = "size" /\ th'[t].head = x.head /\ th'[t].data = data
          /\ th'[t].body = body /\ th'[t].req = x.req
      BY <2>2, UpdateFields
    <2> QED BY <1>3, <2>3 DEF Receiving
  <1> QED BY <1>2, <1>3

\* The size line of a chunk is parsed.
LEMMA TakeChunkKeeps ==
    ASSUME TypeOK, NEW t \in Threads, NEW data, data # <<>>, NEW w, NEW C, TakeChunk(t, data),
           AtSize(w, th[t].req, th[t].head, th[t].body, data)
    PROVE  Receiving(th'[t], w, <<>>, C)
  <1> DEFINE x == th[t]
  <1>1. th \in [Threads -> Call] /\ th[t] \in Call BY DEF TypeOK
  <1>2. PICK z, rest : z = data[1][2] /\ rest = Tail(data) OBVIOUS
  <1>3. /\ z \in Nat /\ Len(rest) \in Nat
        /\ z + 2 <= Len(rest) /\ z = 0 => AtEnd(w, x.req, x.head, x.body \o First(rest, z))
        /\ z + 2 <= Len(rest) /\ z # 0 =>
                AtSize(w, x.req, x.head, x.body \o First(rest, z), After(rest, z + 2))
        /\ ~(z + 2 <= Len(rest)) =>
                AtPiece(w, x.req, x.head, x.body \o rest, z - Len(rest) + 2, z)
    BY <1>2, ChunkTaken
  <1>4. CASE z + 2 <= Len(rest)
    <2>1. ChunkDone(t, x.body \o First(rest, z), After(rest, z + 2), z = 0)
      BY <1>2, <1>4 DEF TakeChunk
    <2> QED BY <1>3, <1>4, <2>1, ChunkDoneKeeps
  <1>5. CASE ~(z + 2 <= Len(rest))
    <2>1. PICK left : left = z - Len(rest) + 2 OBVIOUS
    <2>2. th' = [th EXCEPT ![t].pc = "rest", ![t].data = <<>>, ![t].body = @ \o rest,
                           ![t].left = left, ![t].done = (z = 0)]
      BY <1>2, <1>5, <2>1 DEF TakeChunk
    <2>3. th' = Update(t, "rest", x.head, <<>>, x.body \o rest, left, z = 0, x.ok)
      BY <1>1, <2>2 DEF Call, Update
    <2>4. PICK done, ok : (done <=> z = 0) /\
                    th' = Update(t, "rest", x.head, <<>>, x.body \o rest, left, done, ok)
      BY <2>3
    <2>5. /\ th'[t].pc = "rest" /\ th'[t].head = x.head /\ th'[t].left = left
          /\ th'[t].body = x.body \o rest /\ th'[t].req = x.req /\ th'[t].done = done
      <3>1. th' = Update(t, "rest", x.head, <<>>, x.body \o rest, left, done, ok)
        BY <2>4, Zenon
      <3>2. PICK head, buffer, body :
                head = x.head /\ body = x.body \o rest
                /\ th' = Update(t, "rest", head, buffer, body, left, done, ok)
        BY <3>1, Zenon
      <3>3. th' = Update(t, "rest", head, buffer, body, left, done, ok) BY <3>2, Zenon
      <3>4. /\ th'[t].pc = "rest" /\ th'[t].head = head /\ th'[t].left = left
            /\ th'[t].body = body /\ th'[t].req = th[t].req /\ th'[t].done = done
        BY ONLY TypeOK, t \in Threads, <3>3, UpdateFields
      <3> QED BY <3>2, <3>4, Zenon
    <2>6. AtPiece(w, x.req, x.head, x.body \o rest, left, z) BY <1>3, <1>5, <2>1
    <2>7. AtRest(w, x.req, x.head, x.body \o rest, left, done) BY <2>4, <2>6 DEF AtRest
    <2> QED BY <2>5, <2>7 DEF Receiving
  <1> QED BY <1>4, <1>5

\* The header loop.
LEMMA HeaderKeeps ==
    ASSUME IInv, Streams, NEW t \in Threads, th[t].c \notin torn, ReadHeader(t)
    PROVE  Alone(t) /\ Receiving(th'[t], wire'[th[t].c], asked'[th[t].c], connected')
  <1> DEFINE x == th[t]
  <1>1. TypeOK /\ Held /\ x.pc = "head" /\ x.pc # "idle" /\ x.pc \in Reading
    BY DEF IInv, ReadHeader, Reading
  <1>2. x \in Call /\ x.c \in Conns BY <1>1, InCall
  <1>3. PICK s \in Segments(x.c, BuffSize) :
            IF ~Parses(x.head, s) THEN Fail(t)
            ELSE /\ Consume(x.c, s)
                 /\ UNCHANGED live
                 /\ IF x.head # NoHead THEN HeaderDone(t, x.head, After(s, 1))
                    ELSE IF Len(s) = 1 THEN th' = [th EXCEPT ![t].head = s[1]]
                    ELSE HeaderDone(t, s[1], After(s, 2))
    BY DEF ReadHeader
  <1>4. Receiving(x, wire[x.c], asked[x.c], connected) BY <1>1 DEF Streams
  <1>5. CASE ~Parses(x.head, s) BY <1>1, <1>3, <1>5, FailKeeps
  <1>6. CASE Parses(x.head, s)
    <2>1. PICK w : w = wire[x.c] OBVIOUS
    <2>2. PICK k : k = Len(s) OBVIOUS
    <2>3. BuffSize \in Nat /\ Consume(x.c, s) BY <1>3, <1>6, BuffSizeAssumption
    <2>4. /\ Alone(t) /\ connected' = connected /\ asked'[x.c] = asked[x.c]
          /\ k \in Nat /\ k # 0 /\ k <= Len(w) /\ s = SubSeq(w, 1, k)
          /\ wire'[x.c] = SubSeq(w, k + 1, Len(w))
          /\ s \in Seq(Tokens) /\ s # <<>> /\ s[1] = w[1] /\ w # <<>>
      BY <1>1, <1>2, <2>1, <2>2, <2>3, ConsumeAlone
    <2>5. PICK v : v = wire'[x.c] OBVIOUS
    <2>6. ASSUME NEW S, NEW a \in Nat, IsPart(w, S, a, Len(S))
          PROVE  /\ IsPart(s, S, a, a + k) /\ IsPart(v, S, a + k, Len(S))
                 /\ \A i \in Nat : i <= k => IsPart(After(s, i), S, a + i, a + k)
      <3>1. Len(w) = Len(S) - a BY <2>6 DEF IsPart
      <3>2. k <= Len(S) - a BY <2>4, <3>1
      <3>3. IsPart(s, S, a, a + k) /\ IsPart(v, S, a + k, Len(S))
        BY <2>4, <2>5, <2>6, <3>2, PartCut
      <3>4. ASSUME NEW i \in Nat, i <= k PROVE IsPart(After(s, i), S, a + i, a + k)
        <4>1. PICK b \in Nat : b = a + k BY <2>4
        <4>2. IsPart(s, S, a, b) /\ i <= b - a BY <2>4, <3>3, <3>4, <4>1
        <4>3. IsPart(SubSeq(s, i + 1, Len(s)), S, a + i, b) BY <4>2, PartCut
        <4> QED BY <4>1, <4>3 DEF After
      <3> QED BY <3>3, <3>4
    <2>7. CASE x.head # NoHead
      <3>1. x.body = <<>> /\ asked[x.c] = <<>> /\ AtHead(w, x.req, x.head)
        BY <1>1, <1>4, <2>1, <2>7 DEF Receiving
      <3>2. PICK S, at : x.head[2] = x.req /\ Shape(S, x.head, at) /\ IsPart(w, S, 1, Len(S))
        BY <3>1 DEF AtHead
      <3>3. HeaderDone(t, x.head, After(s, 1)) BY <1>3, <1>6, <2>7
      <3>4. PICK p : p = 1 + k OBVIOUS
      <3>5. IsPart(After(s, 1), S, 2, p) /\ IsPart(v, S, p, Len(S))
        <4>1. 1 \in Nat /\ 1 <= k /\ 1 + 1 = 2 BY <2>4
        <4>2. IsPart(After(s, 1), S, 1 + 1, 1 + k) /\ IsPart(v, S, 1 + k, Len(S))
          BY <2>6, <3>2, <4>1
        <4> QED BY <3>4, <4>1, <4>2
      <3>6. Receiving(th'[t], v, <<>>, connected')
        BY <1>1, <3>1, <3>2, <3>3, <3>5, HeaderDoneKeeps
      <3> QED BY <2>4, <2>5, <3>1, <3>6
    <2>8. CASE x.head = NoHead
      <3>1. s[1] \in Heads BY <1>6, <2>8 DEF Parses
      <3>2. x.body = <<>> /\ Waits(w, asked[x.c], x.req)
        BY <1>1, <1>4, <2>1, <2>8 DEF Receiving
      <3>3. asked[x.c] = <<>> /\ \E h, at : h[2] = x.req /\ Shape(w, h, at)
        BY <2>4, <3>1, <3>2 DEF Waits, Stale
      <3>4. PICK h, at : h[2] = x.req /\ Shape(w, h, at) BY <3>3
      <3>5. h = s[1] /\ w \in Seq(Tokens) BY <2>4, <3>4 DEF Shape
      <3>6. IsPart(w, w, 0, Len(w)) BY <3>5, LenProperties DEF IsPart
      <3>7. CASE k = 1
        <4>1. th' = [th EXCEPT ![t].head = s[1]] BY <1>3, <1>6, <2>2, <2>8, <3>7
        <4>2. th' = Update(t, "head", h, x.data, x.body, x.left, x.done, x.ok)
          BY <1>1, <1>2, <3>5, <4>1 DEF Update, TypeOK, Call
        <4>3. PICK data, left, done, ok : th' = Update(t, "head", h, data, <<>>, left, done, ok)
          BY <3>2, <4>2
        <4>4. th'[t].pc = "head" /\ th'[t].head = h /\ th'[t].body = <<>> /\ th'[t].req = x.req
          BY ONLY <1>1, t \in Threads, <4>3, UpdateFields
        <4>5. IsPart(v, w, 1, Len(w))
          <5>1. 0 \in Nat /\ 0 + k = 1 BY <3>7
          <5> QED BY <2>6, <3>6, <5>1
        <4>6. AtHead(v, x.req, h) BY <3>4, <4>5 DEF AtHead
        <4>7. h # NoHead BY <3>1, <3>5 DEF NoHead, Heads
        <4>8. Receiving(th'[t], v, <<>>, connected') BY <4>4, <4>6, <4>7 DEF Receiving
        <4> QED BY <2>4, <2>5, <3>3, <4>8
      <3>8. CASE k # 1
        <4>1. HeaderDone(t, h, After(s, 2)) BY <1>3, <1>6, <2>2, <2>8, <3>5, <3>8
        <4>2. IsPart(After(s, 2), w, 2, k) /\ IsPart(v, w, k, Len(w))
          <5>1. 0 \in Nat /\ 0 + k = k /\ 2 \in Nat /\ 2 <= k /\ 0 + 2 = 2 BY <2>4, <3>8
          <5>2. IsPart(After(s, 2), w, 0 + 2, 0 + k) /\ IsPart(v, w, 0 + k, Len(w))
            BY <2>6, <3>6, <5>1
          <5> QED BY <5>1, <5>2
        <4>3. Receiving(th'[t], v, <<>>, connected')
          BY <1>1, <3>2, <3>4, <4>1, <4>2, HeaderDoneKeeps
        <4> QED BY <2>4, <2>5, <3>3, <4>3
      <3> QED BY <3>7, <3>8
    <2> QED BY <2>7, <2>8
  <1> QED BY <1>5, <1>6

\* readFixSize.
LEMMA FixSizeKeeps ==
    ASSUME IInv, Streams, NEW t \in Threads, th[t].c \notin torn, ReadFixSize(t)
    PROVE  Alone(t) /\ Receiving(th'[t], wire'[th[t].c], asked'[th[t].c], connected')
  <1> DEFINE x == th[t]
  <1>1. TypeOK /\ Held /\ x.pc = "fix" /\ x.pc # "idle" BY DEF IInv, ReadFixSize
  <1>2. x \in Call /\ x.c \in Conns BY <1>1, InCall
  <1>3. x.left \in Nat BY <1>2, CallFields
  <1>4. PICK s \in Segments(x.c, x.left) :
            /\ Consume(x.c, s)
            /\ IF Len(s) = x.left THEN Complete(t, x.head, x.body \o s)
               ELSE th' = [th EXCEPT ![t].body = @ \o s, ![t].left = @ - Len(s)]
    BY DEF ReadFixSize
  <1>5. PICK w, k : w = wire[x.c] /\ k = Len(s) OBVIOUS
  <1>6. /\ Alone(t) /\ connected' = connected /\ asked'[x.c] = asked[x.c]
        /\ k \in Nat /\ k <= Len(w) /\ k <= x.left /\ s = SubSeq(w, 1, k)
        /\ wire'[x.c] = SubSeq(w, k + 1, Len(w))
    BY <1>1, <1>2, <1>3, <1>4, <1>5, ConsumeAlone
  <1>7. Receiving(x, w, asked[x.c], connected) BY <1>1, <1>5 DEF Streams
  <1>8. asked[x.c] = <<>> /\ AtBody(w, x.req, x.head, x.body, x.left)
    BY <1>1, <1>7 DEF Receiving
  <1>9. PICK v : v = wire'[x.c] OBVIOUS
  <1>10. /\ k = x.left => AtEnd(v, x.req, x.head, x.body \o s)
         /\ k # x.left => AtBody(v, x.req, x.head, x.body \o s, x.left - k)
    BY <1>6, <1>8, <1>9, BodyRead
  <1>11. CASE k = x.left
    <2>1. Complete(t, x.head, x.body \o s) BY <1>4, <1>5, <1>11
    <2>2. Receiving(th'[t], v, <<>>, connected') BY <1>1, <1>10, <1>11, <2>1, CompleteKeeps
    <2> QED BY <1>6, <1>8, <1>9, <2>2
  <1>12. CASE k # x.left
    <2>1. PICK body, left : body = x.body \o s /\ left = x.left - k OBVIOUS
    <2>2. th' = [th EXCEPT ![t].body = body, ![t].left = left]
      BY <1>2, <1>4, <1>5, <1>12, <2>1 DEF TypeOK, Call
    <2>3. th' = Update(t, "fix", x.head, x.data, body, left, x.done, x.ok)
      BY <1>1, <1>2, <2>2 DEF Update, TypeOK, Call
    <2>4. PICK head, data, done, ok : /\ head = x.head
                                      /\ th' = Update(t, "fix", head, data, body, left, done, ok)
      BY <2>3
    <2>5. /\ th'[t].pc = "fix" /\ th'[t].head = head /\ th'[t].left = left
          /\ th'[t].body = body /\ th'[t].req = th[t].req
      BY ONLY <1>1, t \in Threads, <2>4, UpdateFields
    <2>6. AtBody(v, x.req, head, body, left) BY <1>10, <1>12, <2>1, <2>4
    <2>7. Receiving(th'[t], v, <<>>, connected') BY <2>5, <2>6 DEF Receiving
    <2> QED BY <1>6, <1>8, <1>9, <2>7
  <1> QED BY <1>11, <1>12

\* The chunk loop, up to a chunk that is not complete in the buffer.
LEMMA ChunkKeeps ==
    ASSUME IInv, Streams, NEW t \in Threads, th[t].c \notin torn, NextChunk(t) \/ ReadChunk(t)
    PROVE  Alone(t) /\ Receiving(th'[t], wire'[th[t].c], asked'[th[t].c], connected')
  <1> DEFINE x == th[t]
  <1>1. TypeOK /\ Held /\ x.pc = "size" /\ x.pc # "idle" /\ x.pc \in Reading
    BY DEF IInv, NextChunk, ReadChunk, Reading
  <1>2. x \in Call /\ x.c \in Conns BY <1>1, InCall
  <1>3. PICK w : w = wire[x.c] OBVIOUS
  <1>4. Receiving(x, w, asked[x.c], connected) BY <1>1, <1>3 DEF Streams
  <1>5. asked[x.c] = <<>> /\ AtSize(w, x.req, x.head, x.body, x.data)
    BY <1>1, <1>4 DEF Receiving
  <1>6. CASE Fail(t) BY <1>1, <1>6, FailKeeps
  <1>7. CASE NextChunk(t) /\ ~Fail(t)
    <2>1. x.data # <<>> /\ TakeChunk(t, x.data) /\ UNCHANGED <<live, network>>
      BY <1>7 DEF NextChunk
    <2>2. Receiving(th'[t], w, <<>>, connected') BY <1>1, <1>5, <2>1, TakeChunkKeeps
    <2>3. wire' = wire /\ asked' = asked /\ connected' = connected /\ torn' = torn
      BY <2>1 DEF network
    <2>4. Alone(t) BY <2>3 DEF Alone
    <2> QED BY <1>3, <1>5, <2>2, <2>3, <2>4
  <1>8. CASE ReadChunk(t) /\ ~Fail(t)
    <2>1. PICK s \in Segments(x.c, BuffSize) : Consume(x.c, s) /\ TakeChunk(t, s)
      BY <1>8 DEF ReadChunk
    <2>2. PICK k : k = Len(s) OBVIOUS
    <2>3. BuffSize \in Nat BY BuffSizeAssumption
    <2>4. /\ Alone(t) /\ connected' = connected /\ asked'[x.c] = asked[x.c]
          /\ k \in Nat /\ k <= Len(w) /\ s = SubSeq(w, 1, k) /\ s # <<>>
          /\ wire'[x.c] = SubSeq(w, k + 1, Len(w))
      BY <1>1, <1>2, <1>3, <2>1, <2>2, <2>3, ConsumeAlone
    <2>5. PICK v : v = wire'[x.c] OBVIOUS
    <2>6. x.data = <<>> BY <1>8 DEF ReadChunk
    <2>7. AtSize(v, x.req, x.head, x.body, s) BY <1>5, <2>4, <2>5, <2>6, SizeRead
    <2>8. Receiving(th'[t], v, <<>>, connected') BY <1>1, <2>1, <2>4, <2>7, TakeChunkKeeps
    <2> QED BY <1>5, <2>4, <2>5, <2>8
  <1> QED BY <1>6, <1>7, <1>8

\* The loop that reads the rest of a chunk.
LEMMA RestKeeps ==
    ASSUME IInv, Streams, NEW t \in Threads, th[t].c \notin torn, ReadRest(t)
    PROVE  Alone(t) /\ Receiving(th'[t], wire'[th[t].c], asked'[th[t].c], connected')
  <1> DEFINE x == th[t]
             limit == IF x.left > BuffSize THEN BuffSize ELSE x.left
  <1>1. TypeOK /\ Held /\ x.pc = "rest" /\ x.pc # "idle" BY DEF IInv, ReadRest
  <1>2. x \in Call /\ x.c \in Conns BY <1>1, InCall
  <1>3. x.left \in Nat BY <1>2, CallFields
  <1>4. limit \in Nat /\ limit <= x.left BY <1>3, BuffSizeAssumption
  <1>5. PICK s \in Segments(x.c, limit) :
            /\ Consume(x.c, s)
            /\ IF Len(s) = x.left
                 THEN ChunkDone(t, First(x.body \o s, Len(x.body \o s) - 2), <<>>, x.done)
                 ELSE th' = [th EXCEPT ![t].body = x.body \o s, ![t].left = @ - Len(s)]
    BY DEF ReadRest
  <1> HIDE DEF limit
  <1>6. PICK w, k : w = wire[x.c] /\ k = Len(s) OBVIOUS
  <1>7. /\ Alone(t) /\ connected' = connected /\ asked'[x.c] = asked[x.c]
        /\ k \in Nat /\ k <= Len(w) /\ k <= limit /\ s = SubSeq(w, 1, k)
        /\ wire'[x.c] = SubSeq(w, k + 1, Len(w))
    BY <1>1, <1>2, <1>4, <1>5, <1>6, ConsumeAlone
  <1>8. k <= x.left BY <1>3, <1>4, <1>7
  <1>9. Receiving(x, w, asked[x.c], connected) BY <1>1, <1>6 DEF Streams
  <1>10. asked[x.c] = <<>> /\ AtRest(w, x.req, x.head, x.body, x.left, x.done)
    BY <1>1, <1>9 DEF Receiving
  <1>11. PICK v, cut : /\ v = wire'[x.c]
                       /\ cut = First(x.body \o s, Len(x.body \o s) - 2)
    OBVIOUS
  <1>12. PICK z : AtPiece(w, x.req, x.head, x.body, x.left, z) /\ (x.done <=> z = 0)
    BY <1>10 DEF AtRest
  <1>13. /\ k = x.left /\ z = 0 => AtEnd(v, x.req, x.head, cut)
         /\ k = x.left /\ z # 0 => AtSize(v, x.req, x.head, cut, <<>>)
         /\ k # x.left => AtPiece(v, x.req, x.head, x.body \o s, x.left - k, z)
    <2>1. Reads(w, k, s, v) BY <1>7, <1>11 DEF Reads
    <2> QED BY <1>8, <1>11, <1>12, <2>1, RestRead
  <1>14. CASE k = x.left
    <2>1. ChunkDone(t, cut, <<>>, x.done) BY <1>5, <1>6, <1>11, <1>14
    <2>2. /\ x.done => AtEnd(v, x.req, x.head, cut)
          /\ ~x.done => AtSize(v, x.req, x.head, cut, <<>>)
      BY <1>13, <1>14, <1>12
    <2>3. Receiving(th'[t], v, <<>>, connected') BY <1>1, <2>1, <2>2, ChunkDoneKeeps
    <2> QED BY <1>7, <1>10, <1>11, <2>3
  <1>15. CASE k # x.left
    <2>1. PICK body, left : body = x.body \o s /\ left = x.left - k OBVIOUS
    <2>2. th' = [th EXCEPT ![t].body = body, ![t].left = left]
      BY <1>2, <1>5, <1>6, <1>15, <2>1 DEF TypeOK, Call
    <2>3. th' = Update(t, "rest", x.head, x.data, body, left, x.done, x.ok)
      BY <1>1, <1>2, <2>2 DEF Update, TypeOK, Call
    <2>4. PICK head, data, done, ok : /\ head = x.head /\ done = x.done
                                      /\ th' = Update(t, "rest", head, data, body, left, done, ok)
      BY <2>3
    <2>5. th' = Update(t, "rest", head, data, body, left, done, ok) BY <2>4, Zenon
    <2>6. /\ th'[t].pc = "rest" /\ th'[t].head = head /\ th'[t].left = left
          /\ th'[t].body = body /\ th'[t].req = th[t].req /\ th'[t].done = done
      BY ONLY <1>1, t \in Threads, <2>5, UpdateFields
    <2>7. AtRest(v, x.req, head, body, left, done)
      <3>1. AtPiece(v, x.req, head, body, left, z) BY <1>13, <1>15, <2>1, <2>4
      <3> QED BY <1>12, <2>4, <3>1, Zenon DEF AtRest
    <2>8. Receiving(th'[t], v, <<>>, connected') BY <2>6, <2>7 DEF Receiving
    <2> QED BY <1>7, <1>10, <1>11, <2>8
  <1> QED BY <1>14, <1>15

\* A step in a call touches no connection but its own, and one that is not torn
\* behind it was not torn before.
LEMMA InsideAlone ==
    ASSUME IInv, NEW t \in Threads, SendRequest(t) \/ Receives(t)
    PROVE  /\ Alone(t)
           /\ th[t].c \notin torn' =>
                th[t].c \notin torn /\ ~ReadPartOfHeader(t) /\ ~ReadPartOfSize(t)
  <1>1. TypeOK BY DEF IInv
  <1>2. ASSUME torn' = torn \cup {th[t].c} PROVE th[t].c \in torn' BY <1>2
  <1>3. ASSUME Fail(t) PROVE Alone(t) /\ torn' = torn
    BY <1>1, <1>3 DEF Fail, Close, Alone, TypeOK
  <1>4. ASSUME NEW s, Consume(th[t].c, s) PROVE Alone(t) /\ torn' = torn
    BY <1>1, <1>4 DEF Consume, Alone, TypeOK
  <1>5. ASSUME UNCHANGED network PROVE Alone(t) /\ torn' = torn
    BY <1>5 DEF network, Alone
  <1>6. CASE SendRequest(t)
    <2>1. Alone(t) /\ torn' = torn
      BY <1>1, <1>6 DEF SendRequest, Alone, TypeOK
    <2>2. th[t].pc = "send" BY <1>6 DEF SendRequest
    <2> QED BY <2>1, <2>2 DEF ReadPartOfHeader, ReadPartOfSize
  <1>7. CASE ReadPartOfHeader(t) \/ ReadPartOfSize(t)
    <2>1. torn' = torn \cup {th[t].c} BY <1>7 DEF ReadPartOfHeader, ReadPartOfSize
    <2>2. Alone(t) BY <1>1, <1>7, <2>1 DEF ReadPartOfHeader, ReadPartOfSize, Alone, TypeOK
    <2> QED BY <2>1, <2>2
  <1>8. CASE Receives(t) /\ ~ReadPartOfHeader(t) /\ ~ReadPartOfSize(t)
    <2>1. CASE ReadFails(t) BY <1>3, <1>8, <2>1 DEF ReadFails
    <2>2. CASE ReadHeader(t) BY <1>3, <1>4, <1>8, <2>2 DEF ReadHeader
    <2>3. CASE ReadFixSize(t) BY <1>4, <1>8, <2>3 DEF ReadFixSize
    <2>4. CASE NextChunk(t) BY <1>3, <1>5, <1>8, <2>4 DEF NextChunk
    <2>5. CASE ReadChunk(t) BY <1>3, <1>4, <1>8, <2>5 DEF ReadChunk
    <2>6. CASE ReadRest(t) BY <1>4, <1>8, <2>6 DEF ReadRest
    <2> QED BY <1>8, <2>1, <2>2, <2>3, <2>4, <2>5, <2>6 DEF Receives
  <1> QED BY <1>6, <1>7, <1>8

\* Every step of a thread that neither starts nor ends a call.
LEMMA InsideStreams ==
    ASSUME IInv, SInv, NEW t \in Threads, SendRequest(t) \/ Receives(t)
    PROVE  SInv'
  <1>1. TypeOK /\ Held /\ Streams BY DEF IInv, SInv
  <1>2. Inside(t) BY <1>1, ProceedsInside
  <1>3. /\ Alone(t)
        /\ th[t].c \notin torn' =>
             th[t].c \notin torn /\ ~ReadPartOfHeader(t) /\ ~ReadPartOfSize(t)
    BY InsideAlone
  <1>4. ASSUME th[t].c \notin torn'
        PROVE  Receiving(th'[t], wire'[th[t].c], asked'[th[t].c], connected')
    <2>0. th[t].c \notin torn /\ ~ReadPartOfHeader(t) /\ ~ReadPartOfSize(t) BY <1>3, <1>4
    <2>1. CASE SendRequest(t) BY <1>1, <2>0, <2>1, SendKeeps
    <2>2. CASE ReadFails(t) BY <2>2, FailKeeps DEF ReadFails
    <2>3. CASE ReadHeader(t) BY <1>1, <2>0, <2>3, HeaderKeeps
    <2>4. CASE ReadFixSize(t) BY <1>1, <2>0, <2>4, FixSizeKeeps
    <2>5. CASE NextChunk(t) \/ ReadChunk(t) BY <1>1, <2>0, <2>5, ChunkKeeps
    <2>6. CASE ReadRest(t) BY <1>1, <2>0, <2>6, RestKeeps
    <2> QED BY <2>0, <2>1, <2>2, <2>3, <2>4, <2>5, <2>6 DEF Receives
  <1> QED BY <1>2, <1>3, <1>4, AloneKeeps

-----------------------------------------------------------------------------
(* The starts and the ends of calls, and the server.                       *)

\* The calls of other threads, when nothing happens on their connections.
LEMMA OthersKeep ==
    ASSUME IInv, Streams, NEW t \in Threads, NEW c, \A u \in Threads \ {t} : th'[u] = th[u],
           \A u \in Threads \ {t} : th[u].pc # "idle" => th[u].c # c,
           \A d \in Conns : d # c => /\ wire'[d] = wire[d] /\ asked'[d] = asked[d]
                                     /\ d \in connected' <=> d \in connected
                                     /\ d \in torn' <=> d \in torn
    PROVE  \A u \in Threads \ {t} : th'[u].pc # "idle" /\ th'[u].c \notin torn' =>
                Receiving(th'[u], wire'[th'[u].c], asked'[th'[u].c], connected')
  <1> SUFFICES ASSUME NEW u \in Threads \ {t}, th'[u].pc # "idle", th'[u].c \notin torn'
               PROVE  Receiving(th'[u], wire'[th'[u].c], asked'[th'[u].c], connected')
    OBVIOUS
  <1>1. PICK x : x = th[u] /\ th'[u] = x BY Zenon
  <1>2. x.pc # "idle" /\ x.c # c BY <1>1
  <1>3. x.c \in Conns BY <1>1, <1>2 DEF IInv, Held, TypeOK
  <1>4. /\ wire'[x.c] = wire[x.c] /\ asked'[x.c] = asked[x.c]
        /\ x.c \in connected' <=> x.c \in connected
        /\ x.c \in torn' <=> x.c \in torn
    BY <1>2, <1>3
  <1>5. Receiving(x, wire[x.c], asked[x.c], connected) BY <1>1, <1>2, <1>4 DEF Streams
  <1>6. Receiving(x, wire'[x.c], asked'[x.c], connected')
    BY ONLY <1>4, <1>5 DEF Receiving
  <1> QED BY <1>1, <1>6

\* A call starts with an empty response.
LEMMA BeginFields ==
    ASSUME TypeOK, NEW t \in Threads, NEW c, NEW fromPool, Begin(t, c, fromPool)
    PROVE  th'[t].head = NoHead /\ th'[t].body = <<>>
  <1> DEFINE y == [Idle EXCEPT !.pc = "send", !.pooled = fromPool, !.c = c, !.req = issued + 1]
  <1>1. y.head = NoHead /\ y.body = <<>> BY DEF Idle
  <1>2. th' = [th EXCEPT ![t] = y] BY DEF Begin
  <1> HIDE DEF y
  <1> QED BY <1>1, <1>2 DEF TypeOK

\* A call that starts on a connection c with nothing but a left-over CRLF on it.
LEMMA BeginStreams ==
    ASSUME IInv, SInv, NEW t \in Threads, th[t].pc = "idle", NEW c \in Conns,
           th'[t].pc = "send" /\ th'[t].c = c /\ th'[t].head = NoHead /\ th'[t].body = <<>>,
           \A u \in Threads \ {t} : th'[u] = th[u] /\ (th[u].pc # "idle" => th[u].c # c),
           c \notin torn => asked[c] = <<>> /\ Aligned(wire[c]), torn' = torn,
           \A d \in Conns : wire'[d] = wire[d] /\ asked'[d] = asked[d],
           \A d \in Conns : d # c => (d \in connected' <=> d \in connected)
    PROVE  Streams' /\ Awaited'
  <1>1. Streams'
    <2>1. \A u \in Threads \ {t} : th'[u].pc # "idle" /\ th'[u].c \notin torn' =>
                Receiving(th'[u], wire'[th'[u].c], asked'[th'[u].c], connected')
      <3>1. \A d \in Conns : d # c => /\ wire'[d] = wire[d] /\ asked'[d] = asked[d]
                                      /\ d \in connected' <=> d \in connected
                                      /\ d \in torn' <=> d \in torn
        OBVIOUS
      <3>2. /\ Streams /\ \A u \in Threads \ {t} : th'[u] = th[u]
            /\ \A u \in Threads \ {t} : th[u].pc # "idle" => th[u].c # c
        BY DEF SInv
      <3> HIDE DEF IInv
      <3> QED BY ONLY IInv, t \in Threads, <3>1, <3>2, OthersKeep
    <2>2. c \notin torn' => Receiving(th'[t], wire'[c], asked'[c], connected')
      BY DEF Receiving
    <2> QED BY <2>1, <2>2 DEF Streams
  <1>2. Awaited'
    <2> SUFFICES ASSUME NEW d \in Conns \ torn', asked'[d] # <<>>
                 PROVE  \E u \in Threads : th'[u].pc # "idle" /\ th'[u].c = d
      BY DEF Awaited
    <2>1. PICK u \in Threads : th[u].pc # "idle" /\ th[u].c = d BY DEF SInv, Awaited
    <2> QED BY <2>1
  <1> QED BY <1>1, <1>2

\* A call starts on a connection that has just been made.
LEMMA FreshStreams ==
    ASSUME IInv, SInv, NEW t \in Threads, NEW c \in Conns \ live, NEW fromPool \in BOOLEAN,
           CanIssue(t), Renew({}, {c}), Begin(t, c, fromPool), conns_' = conns_
    PROVE  SInv'
  <1>1. TypeOK /\ th[t].pc = "idle" BY DEF IInv, CanIssue
  <1>2. /\ \A u \in Threads \ {t} : th'[u] = th[u]
        /\ th'[t].pc = "send" /\ th'[t].c = c
    BY <1>1, BeginStarts
  <1>3. th'[t].head = NoHead /\ th'[t].body = <<>> BY <1>1, BeginFields
  <1>4. /\ \A d \in Conns : wire'[d] = wire[d] /\ asked'[d] = asked[d]
        /\ connected' = connected \cup {c} /\ live' = live \cup {c} /\ torn' = torn
    BY DEF Renew
  <1>5. \A u \in Threads \ {t} : th[u].pc # "idle" => th[u].c # c BY DEF IInv, Held
  <1>6. asked[c] = <<>> /\ Aligned(wire[c]) BY DEF SInv, Unused, Aligned
  <1>7. Streams' /\ Awaited' BY <1>1, <1>2, <1>3, <1>4, <1>5, <1>6, BeginStreams
  <1>8. Unused' BY <1>4 DEF SInv, Unused
  <1>9. PooledAligned'
    <2>1. \A i \in DOMAIN conns_ : conns_[i] \in Conns BY <1>1 DEF IInv, OneOwner, TypeOK
    <2> QED BY <1>4, <2>1 DEF SInv, PooledAligned
  <1> QED BY <1>7, <1>8, <1>9 DEF SInv

\* getConnection takes a connection from the pool.
LEMMA TakePooledStreams ==
    ASSUME IInv, SInv, NEW t \in Threads, TakePooled(t)
    PROVE  SInv'
  <1>1. TypeOK /\ CanIssue(t) /\ th[t].pc = "idle" BY DEF IInv, TakePooled, CanIssue
  <1>2. PICK i \in 1 .. Len(conns_) :
        /\ FirstUsable(i)
        /\ conns_' = SubSeq(conns_, i + 1, Len(conns_))
        /\ Renew(Passed(i), {})
        /\ Begin(t, conns_[i], TRUE)
    BY DEF TakePooled
  <1>3. /\ conns_ \in Seq(Conns) /\ Len(conns_) \in Nat /\ DOMAIN conns_ = 1 .. Len(conns_)
        /\ \A j \in 1 .. Len(conns_) : conns_[j] \in Conns
    BY <1>1, LenProperties, ElementOfSeq DEF TypeOK
  <1>4. i = 1 /\ Passed(i) = {}
    <2>1. Len(conns_) # 0 BY <1>3
    <2> QED BY <1>2, <2>1, FirstIsUsable
  <1>5. PICK c \in Conns : c = conns_[i] BY <1>3
  <1>6. /\ \A u \in Threads \ {t} : th'[u] = th[u]
        /\ th'[t].pc = "send" /\ th'[t].c = c
    BY <1>1, <1>2, <1>5, BeginStarts
  <1>7. th'[t].head = NoHead /\ th'[t].body = <<>> BY <1>1, <1>2, BeginFields
  <1>8. /\ \A d \in Conns : wire'[d] = wire[d] /\ asked'[d] = asked[d]
        /\ connected' = connected /\ live' = live /\ torn' = torn
    BY <1>2, <1>4 DEF Renew
  <1>9. \A u \in Threads \ {t} : th[u].pc # "idle" => th[u].c # c
    BY <1>3, <1>5 DEF IInv, OneOwner
  <1>10. c \notin torn => asked[c] = <<>> /\ Aligned(wire[c])
    BY <1>3, <1>5 DEF SInv, PooledAligned, Aligned
  <1>11. Streams' /\ Awaited' BY <1>1, <1>6, <1>7, <1>8, <1>9, <1>10, BeginStreams
  <1>12. Unused' BY <1>8 DEF SInv, Unused
  <1>13. PooledAligned'
    <2>1. ASSUME NEW j \in DOMAIN conns_' PROVE \E e \in DOMAIN conns_ : conns_'[j] = conns_[e]
      <3>1. \A e \in 2 .. Len(conns_) : conns_[e] \in Conns BY <1>3
      <3>2. /\ conns_' \in Seq(Conns)
            /\ Len(conns_') = IF 2 <= Len(conns_) THEN Len(conns_) - 2 + 1 ELSE 0
            /\ \A e \in 1 .. Len(conns_) - 2 + 1 : conns_'[e] = conns_[2 + e - 1]
        <4>1. conns_' = SubSeq(conns_, 2, Len(conns_)) BY <1>2, <1>4
        <4> QED BY <1>3, <3>1, <4>1, SubSeqProperties
      <3>3. j \in 1 .. Len(conns_') BY <3>2, LenProperties
      <3>4. j \in 1 .. Len(conns_) - 2 + 1 /\ 2 + j - 1 \in 1 .. Len(conns_)
        <4>0. PICK n \in Nat : n = Len(conns_) BY <1>3
        <4>1. PICK m : n = Len(conns_) /\ m = Len(conns_') BY <4>0
        <4>2. m = (IF 2 <= n THEN n - 2 + 1 ELSE 0) /\ j \in 1 .. m BY <3>2, <3>3, <4>1
        <4>3. j \in 1 .. n - 2 + 1 /\ 2 + j - 1 \in 1 .. n BY ONLY <4>2, n \in Nat
        <4> QED BY <4>1, <4>3
      <3> QED BY <1>3, <3>2, <3>4
    <2>2. \A e \in DOMAIN conns_ : conns_[e] \in Conns BY <1>3
    <2> QED BY <1>8, <2>1, <2>2 DEF SInv, PooledAligned
  <1> QED BY <1>11, <1>12, <1>13 DEF SInv

\* A step after which the streams, the pool and the calls are what they were.
LEMMA QuietStreams ==
    ASSUME IInv, SInv, th' = th, conns_' = conns_, live' = live, connected' = connected,
           torn' = torn,
           \A d \in Conns : wire'[d] = wire[d] /\ asked'[d] = asked[d]
    PROVE  SInv'
  <1>1. \A t \in Threads : th[t].pc # "idle" => th[t].c \in Conns
    BY DEF IInv, Held, TypeOK
  <1>2. \A i \in DOMAIN conns_ : conns_[i] \in Conns BY DEF IInv, OneOwner, TypeOK
  <1>3. Streams' BY <1>1 DEF SInv, Streams
  <1>4. Unused' /\ Awaited' BY DEF SInv, Unused, Awaited
  <1>5. PooledAligned' BY <1>2 DEF SInv, PooledAligned
  <1> QED BY <1>3, <1>4, <1>5 DEF SInv

\* A request starts.
LEMMA IssuesStreams ==
    ASSUME IInv, SInv, NEW t \in Threads, Issues(t)
    PROVE  SInv'
  <1>1. ASSUME FirstUsable(Len(conns_) + 1)
        PROVE  conns_ = <<>> /\ Passed(Len(conns_) + 1) = {}
    <2>1. conns_ = <<>> /\ Len(conns_) = 0 BY <1>1, FirstIsUsable
    <2> QED BY <2>1 DEF Passed
  <1>2. CASE TakePooled(t) BY <1>2, TakePooledStreams
  <1>3. CASE NewPooled(t)
    <2>1. conns_ = <<>> /\ Passed(Len(conns_) + 1) = {} BY <1>1, <1>3 DEF NewPooled
    <2>2. PICK c \in Conns \ live : Renew({}, {c}) /\ Begin(t, c, TRUE)
      BY <1>3, <2>1 DEF NewPooled
    <2>3. conns_' = conns_ /\ CanIssue(t) BY <1>3, <2>1 DEF NewPooled
    <2> QED BY <2>2, <2>3, FreshStreams
  <1>4. CASE NewPooledFails(t)
    <2>1. conns_ = <<>> /\ Passed(Len(conns_) + 1) = {} BY <1>1, <1>4 DEF NewPooledFails
    <2>2. Renew({}, {}) /\ conns_' = conns_ /\ th' = th BY <1>4, <2>1 DEF NewPooledFails
    <2>3. /\ live' = live /\ connected' = connected /\ torn' = torn
          /\ \A d \in Conns : wire'[d] = wire[d] /\ asked'[d] = asked[d]
      BY <2>2 DEF Renew
    <2> QED BY <2>2, <2>3, QuietStreams
  <1>5. CASE Connect(t)
    <2>1. PICK c \in Conns \ live : Renew({}, {c}) /\ Begin(t, c, FALSE) BY <1>5 DEF Connect
    <2>2. conns_' = conns_ /\ CanIssue(t) BY <1>5 DEF Connect, pool
    <2> QED BY <2>1, <2>2, FreshStreams
  <1>6. CASE ConnectFails(t)
    BY <1>6, QuietStreams DEF ConnectFails, pool, network
  <1> QED BY <1>2, <1>3, <1>4, <1>5, <1>6 DEF Issues

\* A call ends: its connection c is deleted, or carries no answer that is due.
LEMMA EndStreams ==
    ASSUME IInv, SInv, NEW t \in Threads, th[t].pc # "idle", th' = [th EXCEPT ![t] = Idle],
           th[t].c \notin torn' => asked'[th[t].c] = <<>>,
           \A d \in Conns : d # th[t].c => /\ wire'[d] = wire[d] /\ asked'[d] = asked[d]
                                           /\ d \in connected' <=> d \in connected
                                           /\ d \in torn' <=> d \in torn
    PROVE  Streams' /\ Awaited'
  <1> DEFINE c == th[t].c
  <1>1. TypeOK BY DEF IInv
  <1>2. /\ \A u \in Threads \ {t} : th'[u] = th[u]
        /\ th'[t].pc = "idle"
    BY <1>1, EndsIdle
  <1>3. \A u \in Threads \ {t} : th[u].pc # "idle" => th[u].c # c BY DEF IInv, OneOwner
  <1>4. Streams'
    <2>1. \A u \in Threads \ {t} : th'[u].pc # "idle" /\ th'[u].c \notin torn' =>
                Receiving(th'[u], wire'[th'[u].c], asked'[th'[u].c], connected')
      BY <1>2, <1>3, OthersKeep, ZenonT(30) DEF SInv
    <2> QED BY <1>2, <2>1 DEF Streams
  <1>5. Awaited'
    <2> SUFFICES ASSUME NEW d \in Conns \ torn', asked'[d] # <<>>
                 PROVE  \E u \in Threads : th'[u].pc # "idle" /\ th'[u].c = d
      BY DEF Awaited
    <2>1. d # c OBVIOUS
    <2>2. PICK u \in Threads : th[u].pc # "idle" /\ th[u].c = d BY <2>1 DEF SInv, Awaited
    <2> QED BY <1>2, <2>1, <2>2
  <1> QED BY <1>4, <1>5

\* A call ends and its connection is deleted.
LEMMA DeleteStreams ==
    ASSUME IInv, SInv, NEW t \in Threads, th[t].pc # "idle", Renew({th[t].c}, {}),
           th' = [th EXCEPT ![t] = Idle], conns_' = conns_
    PROVE  SInv'
  <1>1. PICK c : c = th[t].c OBVIOUS
  <1>2. c \in Conns BY <1>1 DEF IInv, Held, TypeOK
  <1>3. /\ \A d \in Conns : d # c => /\ wire'[d] = wire[d] /\ asked'[d] = asked[d]
                                     /\ d \in connected' <=> d \in connected
                                     /\ d \in torn' <=> d \in torn
        /\ wire'[c] = <<>> /\ asked'[c] = <<>> /\ live' = live \ {c}
    BY <1>1, <1>2 DEF Renew
  <1>4. Streams' /\ Awaited' BY <1>1, <1>3, EndStreams
  <1>5. Unused' BY <1>3 DEF SInv, Unused
  <1>6. PooledAligned'
    <2>1. \A i \in DOMAIN conns_ : conns_[i] \in Conns /\ conns_[i] # c
      BY <1>1 DEF IInv, OneOwner, TypeOK
    <2> QED BY <1>3, <2>1 DEF SInv, PooledAligned
  <1> QED BY <1>4, <1>5, <1>6 DEF SInv

\* ReleasePtr puts the connection back: recvResponse has not closed it, so it has
\* read a whole response, unless it has lost a part of a line.
LEMMA PutBackStreams ==
    ASSUME IInv, SInv, NEW t \in Threads, th[t].pc = "release", th[t].c \in connected,
           conns_' = Append(conns_, th[t].c), th' = [th EXCEPT ![t] = Idle],
           UNCHANGED <<live, network>>
    PROVE  SInv'
  <1>1. PICK c : c = th[t].c OBVIOUS
  <1>2. TypeOK /\ th[t].pc # "idle" BY DEF IInv
  <1>3. c \in Conns BY <1>1 DEF IInv, TypeOK
  <1>4. /\ wire' = wire /\ asked' = asked /\ connected' = connected /\ live' = live
        /\ torn' = torn
    BY DEF network
  <1>5. ASSUME c \notin torn PROVE asked[c] = <<>> /\ Aligned(wire[c])
    <2>1. Receiving(th[t], wire[c], asked[c], connected) BY <1>1, <1>2, <1>5 DEF SInv, Streams
    <2>2. th[t].ok BY <2>1 DEF Receiving
    <2> QED BY <2>1, <2>2 DEF Receiving, AtEnd
  <1>6. Streams' /\ Awaited' BY <1>1, <1>2, <1>4, <1>5, EndStreams
  <1>7. Unused' BY <1>4 DEF SInv, Unused
  <1>8. PooledAligned'
    <2>1. conns_ \in Seq(Conns) /\ Len(conns_) \in Nat /\ DOMAIN conns_ = 1 .. Len(conns_)
      BY <1>2, LenProperties DEF TypeOK
    <2>2. /\ DOMAIN conns_' = 1 .. Len(conns_) + 1
          /\ \A i \in 1 .. Len(conns_) : conns_'[i] = conns_[i]
          /\ conns_'[Len(conns_) + 1] = c
      BY <1>1, <1>3, <2>1, AppendProperties, LenProperties
    <2>3. \A i \in DOMAIN conns_' : \/ (i \in DOMAIN conns_ /\ conns_'[i] = conns_[i])
                                    \/ conns_'[i] = c
      BY <2>1, <2>2
    <2> QED BY <1>4, <1>5, <2>3 DEF SInv, PooledAligned, Aligned
  <1> QED BY <1>6, <1>7, <1>8 DEF SInv

\* Every step of a thread in a call.
LEMMA ProceedsStreams ==
    ASSUME IInv, SInv, NEW t \in Threads, Proceeds(t)
    PROVE  SInv'
  <1>1. CASE SendRequest(t) \/ Receives(t) BY <1>1, InsideStreams
  <1>2. CASE ReleasePtr(t)
    <2>1. th[t].pc = "release" /\ th[t].pc # "idle" /\ th' = [th EXCEPT ![t] = Idle]
      BY <1>2 DEF ReleasePtr
    <2>2. ~(0 + MaxAliveTime >= NowMs) BY LifetimeAssumption
    <2>3. CASE th[t].c \notin connected
      BY <1>2, <2>1, <2>3, DeleteStreams DEF ReleasePtr
    <2>4. CASE th[t].c \in connected
      BY <1>2, <2>1, <2>2, <2>4, PutBackStreams DEF ReleasePtr
    <2> QED BY <2>3, <2>4
  <1>3. CASE Destroy(t)
    BY <1>3, DeleteStreams DEF Destroy, pool
  <1> QED BY <1>1, <1>2, <1>3 DEF Proceeds

\* The server forgets a request that it has not answered.
LEMMA ForgetKeeps ==
    ASSUME NEW x, NEW w, NEW a, NEW C, Receiving(x, w, a, C)
    PROVE  Receiving(x, w, <<>>, C)
  <1>1. Waits(w, a, x.req) => Waits(w, <<>>, x.req) BY DEF Waits
  <1> QED BY <1>1 DEF Receiving

\* The answer arrives: the call that waits for it finds it on the wire, or
\* behind bytes that its parser will refuse.
LEMMA AnswerKeeps ==
    ASSUME NEW x, NEW w \in Seq(Tokens), NEW a, NEW C, Receiving(x, w, a, C), a # <<>>,
           x.pc \in {"send", "release"} \cup Reading, x.ok \in BOOLEAN,
           x.req \in Reqs, NEW r, r = a[1],
           NEW answer, answer \in LengthAnswers(r) \cup ChunkedAnswers(r)
    PROVE  Tail(a) = <<>> /\ Receiving(x, w \o answer, <<>>, C)
  <1>1. x.pc = "head" /\ x.head = NoHead
    <2>1. CASE x.pc = "release"
      <3>1. CASE x.ok BY <2>1, <3>1 DEF Receiving
      <3>2. CASE ~x.ok BY <2>1, <3>2 DEF Receiving
      <3> QED BY <3>1, <3>2
    <2>2. CASE x.pc # "release" BY <2>2 DEF Receiving, Reading
    <2> QED BY <2>1, <2>2
  <1>2. x.body = <<>> /\ Waits(w, a, x.req) BY <1>1 DEF Receiving
  <1>3. a = <<x.req>> /\ (w = <<>> \/ Stale(w)) BY <1>2 DEF Waits
  <1>4. Tail(a) = <<>> /\ r = x.req BY <1>3
  <1>5. answer \in Seq(Tokens) BY <1>4, AnswerType
  <1>6. Waits(w \o answer, <<>>, x.req)
    <2>1. CASE w = <<>>
      <3>1. w \o answer = answer BY <1>5, <2>1, ConcatEmptySeq
      <3>2. \E h, at : h[2] = x.req /\ Shape(answer, h, at) BY <1>4, AnswerShape
      <3> QED BY <3>1, <3>2 DEF Waits
    <2>2. CASE Stale(w)
      <3>1. /\ w \o answer \in Seq(Tokens) /\ Len(w \o answer) = Len(w) + Len(answer)
            /\ Len(w) \in Nat /\ Len(answer) \in Nat
            /\ \A i \in 1 .. Len(w) : (w \o answer)[i] = w[i]
        BY <1>5, Joined
      <3>2. Len(w) # 0 BY <2>2, EmptySeq DEF Stale
      <3>3. 1 \in 1 .. Len(w) /\ Len(w) + Len(answer) # 0 BY <3>1, <3>2
      <3>4. (w \o answer)[1] = w[1] /\ w \o answer # <<>> BY <3>1, <3>3, EmptySeq
      <3>5. Stale(w \o answer) BY <2>2, <3>4 DEF Stale
      <3> QED BY <3>5 DEF Waits
    <2> QED BY <1>3, <2>1, <2>2
  <1> QED BY <1>1, <1>2, <1>4, <1>6 DEF Receiving

\* The steps of the server.
LEMMA ServerStreams ==
    ASSUME IInv, SInv, NEW c \in Conns, Answers(c) \/ ServerCloses(c)
    PROVE  SInv'
  <1>1. /\ TypeOK /\ th' = th /\ conns_' = conns_ /\ live' = live /\ connected' = connected
        /\ c \in live /\ torn' = torn
    BY DEF IInv, Answers, ServerCloses, pool, TypeOK
  <1>2. \A d \in Conns : d # c => wire'[d] = wire[d] /\ asked'[d] = asked[d]
    BY <1>1 DEF Answers, ServerCloses, TypeOK
  <1>3. ASSUME NEW u \in Threads, th[u].pc # "idle", th[u].c = c, c \notin torn
        PROVE  asked'[c] = <<>> /\ Receiving(th[u], wire'[c], <<>>, connected)
    <2>1. Receiving(th[u], wire[c], asked[c], connected) BY <1>3 DEF SInv, Streams
    <2>2. CASE ServerCloses(c)
      <3>1. wire' = wire /\ asked'[c] = <<>> BY <1>1, <2>2 DEF ServerCloses, TypeOK
      <3> QED BY <2>1, <3>1, ForgetKeeps
    <2>3. CASE Answers(c)
      <3>1. PICK w, a : w = wire[c] /\ a = asked[c] OBVIOUS
      <3>2. PICK r : r = a[1] OBVIOUS
      <3>3. w \in Seq(Tokens) /\ a # <<>> BY <1>1, <2>3, <3>1 DEF TypeOK, Answers
      <3>4. PICK answer \in LengthAnswers(r) \cup ChunkedAnswers(r) :
                wire' = [wire EXCEPT ![c] = @ \o answer]
        BY <2>3, <3>1, <3>2 DEF Answers
      <3>5. wire'[c] = w \o answer /\ asked'[c] = Tail(a)
        BY <1>1, <2>3, <3>1, <3>4 DEF Answers, TypeOK
      <3>6. PICK x : x = th[u] OBVIOUS
      <3>7. /\ x.pc \in {"send", "release"} \cup Reading /\ x.ok \in BOOLEAN /\ x.req \in Reqs
        <4>1. x \in Call BY <1>1, <3>6 DEF TypeOK
        <4>2. x.pc \in {"idle", "send", "release"} \cup Reading /\ x.ok \in BOOLEAN
          BY <4>1, CallFields
        <4>3. x.req \in Reqs /\ x.pc # "idle" BY <1>3, <3>6 DEF IInv, Held
        <4> QED BY <4>2, <4>3
      <3>8. Receiving(x, w, a, connected) BY <2>1, <3>1, <3>6
      <3>9. Tail(a) = <<>> /\ Receiving(x, w \o answer, <<>>, connected)
        BY ONLY <3>2, <3>3, <3>4, <3>7, <3>8, AnswerKeeps
      <3> QED BY <3>5, <3>6, <3>9
    <2> QED BY <2>2, <2>3
  <1>4. Streams'
    <2> SUFFICES ASSUME NEW u \in Threads, th[u].pc # "idle", th[u].c \notin torn
                 PROVE  Receiving(th[u], wire'[th[u].c], asked'[th[u].c], connected)
      BY <1>1 DEF Streams
    <2>1. CASE th[u].c = c BY <1>3, <2>1
    <2>2. CASE th[u].c # c
      <3>1. th[u].c \in Conns BY DEF IInv, Held, TypeOK
      <3> QED BY <1>2, <2>2, <3>1 DEF SInv, Streams
    <2> QED BY <2>1, <2>2
  <1>5. Unused' BY <1>1, <1>2 DEF SInv, Unused
  <1>6. Awaited'
    <2> SUFFICES ASSUME NEW d \in Conns \ torn, asked'[d] # <<>>
                 PROVE  \E u \in Threads : th[u].pc # "idle" /\ th[u].c = d
      BY <1>1 DEF Awaited
    <2>1. CASE d # c BY <1>2, <2>1 DEF SInv, Awaited
    <2>2. CASE d = c
      <3>1. Answers(c)
        <4>1. ServerCloses(c) => asked'[c] = <<>> BY <1>1 DEF ServerCloses, TypeOK
        <4> QED BY <2>2, <4>1
      <3>2. asked[c] # <<>> BY <3>1 DEF Answers
      <3> QED BY <2>2, <3>2 DEF SInv, Awaited
    <2> QED BY <2>1, <2>2
  <1>7. PooledAligned'
    <2> SUFFICES ASSUME NEW i \in DOMAIN conns_, conns_[i] \notin torn
                 PROVE  asked'[conns_[i]] = <<>> /\ wire'[conns_[i]] \in {<<>>, CrLf, <<Lf>>}
      BY <1>1 DEF PooledAligned
    <2>1. conns_[i] \in Conns BY DEF IInv, OneOwner, TypeOK
    <2>2. asked[conns_[i]] = <<>> /\ wire[conns_[i]] \in {<<>>, CrLf, <<Lf>>}
      BY DEF SInv, PooledAligned
    <2>3. CASE conns_[i] # c BY <1>2, <2>1, <2>2, <2>3
    <2>4. CASE conns_[i] = c
      <3>1. ServerCloses(c) BY <2>2, <2>4 DEF Answers
      <3>2. wire' = wire /\ asked'[c] = <<>> BY <1>1, <3>1 DEF ServerCloses, TypeOK
      <3> QED BY <2>2, <2>4, <3>2
    <2> QED BY <2>3, <2>4
  <1> QED BY <1>4, <1>5, <1>6, <1>7 DEF SInv

\* The streams start empty.
LEMMA InitStreams == Init => SInv
  <1> SUFFICES ASSUME Init PROVE SInv OBVIOUS
  <1>1. \A t \in Threads : th[t].pc = "idle"
    <2>1. Idle.pc = "idle" BY DEF Idle
    <2> QED BY <2>1 DEF Init
  <1>2. Streams BY <1>1 DEF Streams
  <1>3. Unused /\ Awaited BY DEF Init, Unused, Awaited
  <1>4. PooledAligned BY DEF Init, PooledAligned
  <1> QED BY <1>2, <1>3, <1>4 DEF SInv

\* Every step keeps them.
LEMMA NextStreams == IInv /\ SInv /\ [Next]_vars => SInv'
  <1> SUFFICES ASSUME IInv, SInv, [Next]_vars PROVE SInv' OBVIOUS
  <1>1. CASE UNCHANGED vars
    BY <1>1, QuietStreams DEF vars
  <1>2. CASE \E t \in Threads : Issues(t) \/ Proceeds(t)
    BY <1>2, IssuesStreams, ProceedsStreams
  <1>3. CASE \E c \in Conns : Answers(c) \/ ServerCloses(c)
    BY <1>3, ServerStreams
  <1>4. CASE Over BY <1>1, <1>4 DEF Over
  <1> QED BY <1>1, <1>2, <1>3, <1>4 DEF Next

\* Every call is where its stream is.
THEOREM StreamsInvariance == Spec => []SInv
  BY InitStreams, NextStreams, Invariance, PTL DEF Spec

\* A response that recvResponse returns is the answer to the request of its call
\* and has the body the server sent, for every length of a body and either
\* framing, unless a read on its connection has ended inside a content-length or
\* a size line.
THEOREM ResponsesMatch == Spec => []ResponseMatches
  <1>1. SInv => ResponseMatches
    <2> SUFFICES ASSUME SInv, NEW t \in Threads, th[t].pc = "release", th[t].ok,
                        th[t].c \notin torn
                 PROVE  /\ th[t].head[2] = th[t].req
                        /\ th[t].body = Body(th[t].req, 1, th[t].head[3])
      BY DEF ResponseMatches
    <2>1. Receiving(th[t], wire[th[t].c], asked[th[t].c], connected) BY DEF SInv, Streams
    <2>2. AtEnd(wire[th[t].c], th[t].req, th[t].head, th[t].body) BY <2>1 DEF Receiving
    <2>3. /\ th[t].head[2] = th[t].req
          /\ Bytes(th[t].body, th[t].req, th[t].head[3], th[t].head[3])
      BY <2>2 DEF AtEnd
    <2> QED BY <2>3, BytesBody
  <1> QED BY <1>1, StreamsInvariance, PTL

\* A connection that ReleasePtr puts back has nothing on it but a left-over CRLF,
\* unless a read on it has ended inside a content-length or a size line.
THEOREM PoolAligned == Spec => []PooledAligned
  <1>1. SInv => PooledAligned BY DEF SInv
  <1> QED BY <1>1, StreamsInvariance, PTL
=============================================================================
