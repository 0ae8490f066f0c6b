-------------------------- MODULE HttpConnection --------------------------
(***************************************************************************)
(* The HTTP client of qslary, http/HttpConnection.{h,cc}: threads that     *)
(* issue requests, each over a connection of its own (DoRequest) or one    *)
(* borrowed from a shared HttpConnectionPool (doRequest), and              *)
(* recvResponse, which cuts a response out of the byte stream.             *)
(*                                                                         *)
(* A stream is a sequence of tokens: the header fields that carry the      *)
(* length or announce chunks, the end of the header, a chunk size line,    *)
(* one byte of a body, and the CR and LF behind a body or a chunk.  recv   *)
(* returns any nonempty prefix of what the peer has sent.  Where it ends   *)
(* between two tokens the parser goes on from there; where it ends inside  *)
(* the content-length line or a size line the parser loses the first half  *)
(* of that line (ReadPartOfHeader, ReadPartOfSize).  No byte of a body     *)
(* starts like a status line or a size line, which matters only behind     *)
(* such a loss.  The server is external: it answers in order, with any     *)
(* body, in either framing, with or without the CRLF that                  *)
(* HttpResponse::dump puts behind a body, as late as it likes or never,    *)
(* and closes when it likes.                                               *)
(***************************************************************************)
EXTENDS Integers, Sequences, FiniteSets

CONSTANTS
    Threads,      \* threads of the client program
    Conns,        \* HttpConnection objects that can exist at a time
    BuffSize,     \* buff_size of recvResponse
    Radix,        \* of the digits of a size line: 16
    MaxAliveTime, \* maxAliveTime_, a uint32_t
    NowMs,        \* GetCurrentMs(); it only has to be compared with a lifetime
    MaxBody,      \* bound: bytes of a body
    MaxRequests   \* bound: requests issued altogether

ASSUME ThreadsAssumption == IsFiniteSet(Threads)
ASSUME ConnsAssumption == Conns \subseteq Nat \ {0}
ASSUME BuffSizeAssumption == BuffSize \in Nat \ {0}
ASSUME RadixAssumption == Radix \in Nat \ {0, 1}
ASSUME LifetimeAssumption ==
    MaxAliveTime \in Nat /\ NowMs \in Nat /\ MaxAliveTime < NowMs
ASSUME BoundsAssumption == MaxBody \in Nat /\ MaxRequests \in Nat

VARIABLES
    conns_,    \* the pooled connections, a list
    total_,    \* the pool's counter
    live,      \* connections that have been created and not deleted
    connected, \* those of them whose socket has isConnected_
    peer,      \* those of them the server has not closed
    wire,      \* tokens the server has sent on a connection and nobody has read
    asked,     \* requests the server has received on it and not answered
    torn,      \* connections on which the first half of a line has been lost
    th,        \* the call each thread is in
    issued,    \* requests issued so far
    aborted    \* an assert(false) has ended the program

vars == <<conns_, total_, live, connected, peer, wire, asked, torn, th, issued, aborted>>
pool == <<conns_, total_>>
network == <<connected, peer, wire, asked, torn>>
-----------------------------------------------------------------------------
(* Tokens and the streams that answer a request.                           *)

Reqs == 1 .. MaxRequests
NoReq == 0
NoHead == <<"none", NoReq, 0>>
ByLength(r, n) == <<"length", r, n>>     \* header fields with content-length n
Chunked(r, n) == <<"chunked", r, n>>     \* transfer-encoding, n bytes in all
Lost(r, n) == <<"lost", r, n>>           \* content-length n, not stored
End == <<"end">>
Size(n) == <<"size", n>>
Byte(r, i) == <<"byte", r, i>>
Cr == <<"cr">>
Lf == <<"lf">>
CrLf == <<Cr, Lf>>

Heads == {"length", "chunked"} \X Reqs \X (0 .. MaxBody)
LostHeads == {"lost"} \X Reqs \X (0 .. MaxBody)
Fields == Heads \cup LostHeads \cup {NoHead}
Tokens == Heads \cup {End, Cr, Lf} \cup {Size(n) : n \in 0 .. MaxBody}
                \cup {Byte(r, i) : r \in Reqs, i \in 1 .. MaxBody}

\* Bytes i .. j of the answer to request r.
Body(r, i, j) == [k \in 1 .. j - i + 1 |-> Byte(r, i + k - 1)]

\* HttpResponse::dump, and servers that leave out its CRLF behind the body.
InOnePiece(r, n) == <<ByLength(r, n), End>> \o Body(r, 1, n)
LengthAnswers(r) ==
    {InOnePiece(r, n) : n \in 0 .. MaxBody} \cup {InOnePiece(r, n) \o CrLf : n \in 1 .. MaxBody}

\* A server that sends n bytes in chunks, cut behind byte k.
InChunks(r, n, k) ==
    <<Chunked(r, n), End>>
        \o (IF k = 0 THEN <<>> ELSE <<Size(k)>> \o Body(r, 1, k) \o CrLf)
        \o (IF k = n THEN <<>> ELSE <<Size(n - k)>> \o Body(r, k + 1, n) \o CrLf)
        \o <<Size(0)>> \o CrLf
ChunkedAnswers(r) == UNION {{InChunks(r, n, k) : k \in 0 .. n} : n \in 0 .. MaxBody}
-----------------------------------------------------------------------------
(* The state of a thread: where recvResponse is, and its local variables.  *)

NoConn == 0
Reading == {"head", "fix", "size", "rest"}   \* blocked in read()
Call == [pc : {"idle", "send", "release"} \cup Reading,
         pooled : BOOLEAN, c : Conns \cup {NoConn}, req : Reqs \cup {NoReq},
         head : Fields, data : Seq(Tokens), body : Seq(Tokens),
         left : Nat, done : BOOLEAN, ok : BOOLEAN]
Idle == [pc |-> "idle", pooled |-> FALSE, c |-> NoConn, req |-> NoReq, head |-> NoHead,
         data |-> <<>>, body |-> <<>>, left |-> 0, done |-> FALSE, ok |-> FALSE]

TypeOK ==
    /\ conns_ \in Seq(Conns)
    /\ total_ \in Int
    /\ live \subseteq Conns /\ connected \subseteq live /\ peer \subseteq live
    /\ torn \subseteq live
    /\ wire \in [Conns -> Seq(Tokens)]
    /\ asked \in [Conns -> Seq(Reqs)]
    /\ th \in [Threads -> Call]
    /\ issued \in 0 .. MaxRequests
    /\ aborted \in BOOLEAN

\* HttpConnectionPool: no connection yet.
Init ==
    /\ conns_ = <<>> /\ total_ = 0
    /\ live = {} /\ connected = {} /\ peer = {} /\ torn = {}
    /\ wire = [c \in Conns |-> <<>>]
    /\ asked = [c \in Conns |-> <<>>]
    /\ th = [t \in Threads |-> Idle]
    /\ issued = 0 /\ aborted = FALSE
-----------------------------------------------------------------------------
(* Connections.                                                            *)

\* The connections gone are deleted, ~SockStream closing the sockets they own,
\* and those in fresh are created on a socket that has just connected.
Renew(gone, fresh) ==
    /\ live' = (live \ gone) \cup fresh
    /\ connected' = (connected \ gone) \cup fresh
    /\ peer' = (peer \ gone) \cup fresh
    /\ torn' = torn \ gone
    /\ wire' = [c \in Conns |-> IF c \in gone THEN <<>> ELSE wire[c]]
    /\ asked' = [c \in Conns |-> IF c \in gone THEN <<>> ELSE asked[c]]

\* SockStream::close: what is unread on the socket is gone, and nobody will
\* read what the server has still to answer.
Close(c) ==
    /\ connected' = connected \ {c}
    /\ peer' = peer \ {c}
    /\ wire' = [wire EXCEPT ![c] = <<>>]
    /\ asked' = [asked EXCEPT ![c] = <<>>]
    /\ UNCHANGED <<live, torn>>

\* A call for the next request starts on connection c.
Begin(t, c, fromPool) ==
    /\ issued' = issued + 1
    /\ th' = [th EXCEPT ![t] = [Idle EXCEPT !.pc = "send", !.pooled = fromPool,
                                            !.c = c, !.req = issued + 1]]

CanIssue(t) == th[t].pc = "idle" /\ issued < MaxRequests /\ ~aborted

\* create_time is 0 for every connection and nothing sets it.
TooOld == 0 + MaxAliveTime > NowMs
Usable(c) == c \in connected /\ ~TooOld

\* The first usable connection of the list is at i; Len(conns_) + 1: none is.
FirstUsable(i) ==
    /\ i \in 1 .. Len(conns_) + 1
    /\ \A j \in 1 .. i - 1 : ~Usable(conns_[j])
    /\ i <= Len(conns_) => Usable(conns_[i])
Passed(i) == {conns_[j] : j \in 1 .. i - 1}

\* getConnection under mutex_, up to the connection it takes from the list:
\* the ones before it are deleted.
TakePooled(t) ==
    /\ CanIssue(t)
    /\ \E i \in 1 .. Len(conns_) :
        /\ FirstUsable(i)
        /\ conns_' = SubSeq(conns_, i + 1, Len(conns_))
        /\ total_' = total_ - (i - 1)
        /\ Renew(Passed(i), {})
        /\ Begin(t, conns_[i], TRUE)
    /\ UNCHANGED aborted

\* getConnection finds none, deletes what it popped and connects.
NewPooled(t) ==
    /\ CanIssue(t)
    /\ FirstUsable(Len(conns_) + 1)
    /\ conns_' = <<>>
    /\ total_' = total_ - Len(conns_) + 1
    /\ \E c \in Conns \ live :
        /\ Renew(Passed(Len(conns_) + 1), {c})
        /\ Begin(t, c, TRUE)
    /\ UNCHANGED aborted

\* connect() fails, getConnection returns nullptr and doRequest asserts; or the
\* name has no address, and addrs[0] of an empty vector reads from nullptr.
NewPooledFails(t) ==
    /\ CanIssue(t)
    /\ FirstUsable(Len(conns_) + 1)
    /\ conns_' = <<>>
    /\ total_' = total_ - Len(conns_)
    /\ Renew(Passed(Len(conns_) + 1), {})
    /\ aborted' = TRUE
    /\ UNCHANGED <<th, issued>>

\* HttpConnection::DoRequest connects; CONNECTION_FALID if that fails.
Connect(t) ==
    /\ CanIssue(t)
    /\ \E c \in Conns \ live : Renew({}, {c}) /\ Begin(t, c, FALSE)
    /\ UNCHANGED <<pool, aborted>>

ConnectFails(t) ==
    /\ CanIssue(t)
    /\ issued' = issued + 1
    /\ UNCHANGED <<pool, live, network, th, aborted>>

\* sendRequest: it returns the size of the request whether or not it was
\* sent; one written to a connection the server has closed is lost.
SendRequest(t) ==
    LET c == th[t].c
    IN  /\ th[t].pc = "send" /\ ~aborted
        /\ asked' = IF c \in peer THEN [asked EXCEPT ![c] = Append(@, th[t].req)] ELSE asked
        /\ th' = [th EXCEPT ![t].pc = "head"]
        /\ UNCHANGED <<pool, live, connected, peer, wire, torn, issued, aborted>>
-----------------------------------------------------------------------------
(* recvResponse.  Every read() of it can return 0 or -1: the server has    *)
(* closed, or the timeout set with setRecvTimeout has passed.              *)

\* What one read() of at most limit bytes on c can return.
Segments(c, limit) ==
    {SubSeq(wire[c], 1, k) : k \in {k \in 1 .. Len(wire[c]) : k <= limit}}
Consume(c, s) ==
    /\ wire' = [wire EXCEPT ![c] = SubSeq(@, Len(s) + 1, Len(@))]
    /\ UNCHANGED <<connected, peer, asked, torn>>
First(s, n) == SubSeq(s, 1, n)
After(s, n) == SubSeq(s, n + 1, Len(s))

\* The response is complete.  Bytes of the buffer behind it are dropped.
Complete(t, head, body) ==
    th' = [th EXCEPT ![t].pc = "release", ![t].ok = TRUE, ![t].head = head,
                     ![t].body = body, ![t].data = <<>>, ![t].left = 0]

\* A faulty variant: length > 0 is not tested again behind the copy.
HeaderDoneNoTest(t, head, rest) ==
    IF head[1] = "chunked"
      THEN th' = [th EXCEPT ![t].pc = "size", ![t].head = head, ![t].data = rest]
      ELSE th' = [th EXCEPT ![t].pc = "fix", ![t].head = head, ![t].body = rest,
                            ![t].left = head[3] - Len(rest)]

\* The header is complete and the buffer holds rest behind it.
HeaderDone(t, head, rest) ==
    LET length == IF head[1] = "lost" THEN 0 ELSE head[3]
        left == length - Len(rest)
    IN  IF head[1] = "chunked"
          THEN th' = [th EXCEPT ![t].pc = "size", ![t].head = head, ![t].data = rest]
        ELSE IF left <= 0
          THEN Complete(t, head, First(rest, length))
          ELSE th' = [th EXCEPT ![t].pc = "fix", ![t].head = head,
                                ![t].body = rest, ![t].left = left]

\* A faulty variant: nullptr is returned without a close().
FailKeepsOpen(t) ==
    /\ UNCHANGED <<live, network>>
    /\ th' = [th EXCEPT ![t].pc = "release", ![t].ok = FALSE, ![t].data = <<>>,
                        ![t].body = <<>>, ![t].left = 0]

\* close() and return nullptr.
Fail(t) ==
    /\ Close(th[t].c)
    /\ th' = [th EXCEPT ![t].pc = "release", ![t].ok = FALSE, ![t].data = <<>>,
                        ![t].body = <<>>, ![t].left = 0]

\* A faulty variant: a read() that returns 0 or -1 is repeated.
ReadFailsRepeats(t) ==
    /\ th[t].pc \in Reading /\ th[t].data = <<>> /\ ~aborted
    /\ UNCHANGED vars

\* read() returns 0 or -1: the server has closed, or the timeout has passed
\* although an answer may be on its way.
ReadFails(t) ==
    /\ th[t].pc \in Reading /\ th[t].data = <<>> /\ ~aborted
    /\ Fail(t)
    /\ UNCHANGED <<pool, issued, aborted>>

\* The parser accepts s: the fields, then the end of the header.  (Left-over
\* bytes of an earlier chunk that read as a size line make it expect another
\* one behind them, which is not there: close() and nullptr as well.)
Parses(head, s) == IF head = NoHead THEN s[1] \in Heads ELSE s[1] = End

\* The loop that reads the header.  The parser consumes everything it is
\* given until the header ends; bytes that no response starts with, such as
\* a CRLF left over from the previous body, are an error.
ReadHeader(t) ==
    LET c == th[t].c
    IN  /\ th[t].pc = "head" /\ ~aborted
        /\ \E s \in Segments(c, BuffSize) :
            IF ~Parses(th[t].head, s) THEN Fail(t)
            ELSE /\ Consume(c, s)
                 /\ UNCHANGED live
                 /\ IF th[t].head # NoHead THEN HeaderDone(t, th[t].head, After(s, 1))
                    ELSE IF Len(s) = 1 THEN th' = [th EXCEPT ![t].head = s[1]]
                    ELSE HeaderDone(t, s[1], After(s, 2))
        /\ UNCHANGED <<pool, issued, aborted>>

\* The read ends inside the content-length line.  execute() stays in its state
\* and forgets where the field began: at the end of the line on_response_http_field
\* gets an empty name and stores nothing.  (The same cut does not harm a
\* transfer-encoding line, which sets a flag; behind one inside the version the
\* call ends as in ReadFails.)
ReadPartOfHeader(t) ==
    LET c == th[t].c
        h == wire[c][1]
    IN  /\ th[t].pc = "head" /\ th[t].head = NoHead /\ ~aborted
        /\ wire[c] # <<>> /\ h[1] = "length"
        /\ wire' = [wire EXCEPT ![c] = Tail(@)]
        /\ torn' = torn \cup {c}
        /\ th' = [th EXCEPT ![t].head = Lost(h[2], h[3])]
        /\ UNCHANGED <<pool, live, connected, peer, asked, issued, aborted>>

\* readFixSize: the rest of a body with a content-length.
ReadFixSize(t) ==
    LET c == th[t].c
    IN  /\ th[t].pc = "fix" /\ ~aborted
        /\ \E s \in Segments(c, th[t].left) :
            /\ Consume(c, s)
            /\ IF Len(s) = th[t].left
                 THEN Complete(t, th[t].head, th[t].body \o s)
                 ELSE th' = [th EXCEPT ![t].body = @ \o s, ![t].left = @ - Len(s)]
        /\ UNCHANGED <<pool, live, issued, aborted>>

\* A chunk has been taken over into body; data is what the buffer still holds.
ChunkDone(t, body, data, last) ==
    IF last THEN Complete(t, th[t].head, body)
            ELSE th' = [th EXCEPT ![t].pc = "size", ![t].body = body, ![t].data = data,
                                  ![t].left = 0]

\* data starts with the size line of a chunk, of content_len bytes and a CRLF:
\* they are in the buffer, or the buffer is emptied and the rest is read.
TakeChunk(t, data) ==
    LET content_len == data[1][2]
        last == content_len = 0
        rest == Tail(data)
    IN  IF content_len + 2 <= Len(rest)
          THEN ChunkDone(t, th[t].body \o First(rest, content_len),
                         After(rest, content_len + 2), last)
          ELSE th' = [th EXCEPT ![t].pc = "rest", ![t].data = <<>>, ![t].body = @ \o rest,
                                ![t].left = content_len - Len(rest) + 2, ![t].done = last]

IsSize(token) == token[1] = "size"

\* The buffer holds bytes behind the previous chunk: they are parsed first.
NextChunk(t) ==
    /\ th[t].pc = "size" /\ th[t].data # <<>> /\ ~aborted
    /\ IF IsSize(th[t].data[1]) THEN TakeChunk(t, th[t].data) /\ UNCHANGED <<live, network>>
                                ELSE Fail(t)
    /\ UNCHANGED <<pool, issued, aborted>>

\* The buffer is empty: read, then parse.
ReadChunk(t) ==
    LET c == th[t].c
    IN  /\ th[t].pc = "size" /\ th[t].data = <<>> /\ ~aborted
        /\ \E s \in Segments(c, BuffSize) :
            IF IsSize(s[1]) THEN Consume(c, s) /\ TakeChunk(t, s) /\ UNCHANGED live
                            ELSE Fail(t)
        /\ UNCHANGED <<pool, issued, aborted>>

\* What is left of the size line of n bytes without its first digits: the line
\* of another size, or no more than its end, with which no size line starts.
LowDigits(n) == {m \in 0 .. n - 1 : \E k \in 1 .. n : Radix^k <= n /\ m = n % Radix^k}
PartsOfSize(n) == {<<Size(m)>> : m \in LowDigits(n)} \cup {<<Lf>>}

\* The read ends inside a size line.  execute() consumes the part, the loop reads
\* again and execute() starts anew, so that what follows is parsed as a line of
\* its own.  (Whatever the same read returned before the part has been taken
\* over first, as if read on its own.)
ReadPartOfSize(t) ==
    LET c == th[t].c
    IN  /\ th[t].pc = "size" /\ th[t].data = <<>> /\ ~aborted
        /\ wire[c] # <<>> /\ IsSize(wire[c][1])
        /\ \E part \in PartsOfSize(wire[c][1][2]) :
                wire' = [wire EXCEPT ![c] = part \o Tail(@)]
        /\ torn' = torn \cup {c}
        /\ UNCHANGED <<pool, live, connected, peer, asked, th, issued, aborted>>

\* A faulty variant: the CRLF stays in the body.
ReadRestNoResize(t) ==
    LET c == th[t].c
        body(s) == th[t].body \o s
    IN  /\ th[t].pc = "rest" /\ ~aborted
        /\ \E s \in Segments(c, IF th[t].left > BuffSize THEN BuffSize ELSE th[t].left) :
            /\ Consume(c, s)
            /\ IF Len(s) = th[t].left
                 THEN ChunkDone(t, body(s), <<>>, th[t].done)
                 ELSE th' = [th EXCEPT ![t].body = body(s), ![t].left = @ - Len(s)]
        /\ UNCHANGED <<pool, live, issued, aborted>>

\* The loop that reads left bytes, the CRLF behind the chunk included, and the
\* resize that cuts the CRLF off again.
ReadRest(t) ==
    LET c == th[t].c
        body(s) == th[t].body \o s
    IN  /\ th[t].pc = "rest" /\ ~aborted
        /\ \E s \in Segments(c, IF th[t].left > BuffSize THEN BuffSize ELSE th[t].left) :
            /\ Consume(c, s)
            /\ IF Len(s) = th[t].left
                 THEN ChunkDone(t, First(body(s), Len(body(s)) - 2), <<>>, th[t].done)
                 ELSE th' = [th EXCEPT ![t].body = body(s), ![t].left = @ - Len(s)]
        /\ UNCHANGED <<pool, live, issued, aborted>>
-----------------------------------------------------------------------------
(* The end of a call: the last shared_ptr to the connection goes.          *)

\* Faulty variants: total_ is not decremented; isConnected() is not tested.
ReleasePtrForgets(t) ==
    LET c == th[t].c
    IN  /\ th[t].pc = "release" /\ th[t].pooled /\ ~aborted
        /\ IF c \notin connected
             THEN Renew({c}, {}) /\ UNCHANGED conns_
             ELSE conns_' = Append(conns_, c) /\ UNCHANGED <<live, network>>
        /\ th' = [th EXCEPT ![t] = Idle]
        /\ UNCHANGED <<total_, issued, aborted>>
ReleasePtrAlways(t) ==
    /\ th[t].pc = "release" /\ th[t].pooled /\ ~aborted
    /\ conns_' = Append(conns_, th[t].c)
    /\ th' = [th EXCEPT ![t] = Idle]
    /\ UNCHANGED <<total_, live, network, issued, aborted>>

\* ReleasePtr puts a connection back unless it has been closed.
ReleasePtr(t) ==
    LET c == th[t].c
    IN  /\ th[t].pc = "release" /\ th[t].pooled /\ ~aborted
        /\ IF c \notin connected \/ 0 + MaxAliveTime >= NowMs
             THEN /\ Renew({c}, {})
                  /\ total_' = total_ - 1
                  /\ UNCHANGED conns_
             ELSE /\ conns_' = Append(conns_, c)
                  /\ UNCHANGED <<total_, live, network>>
        /\ th' = [th EXCEPT ![t] = Idle]
        /\ UNCHANGED <<issued, aborted>>

\* DoRequest returns and destroys the connection it made.
Destroy(t) ==
    /\ th[t].pc = "release" /\ ~th[t].pooled /\ ~aborted
    /\ Renew({th[t].c}, {})
    /\ th' = [th EXCEPT ![t] = Idle]
    /\ UNCHANGED <<pool, issued, aborted>>
-----------------------------------------------------------------------------
(* The server.                                                             *)

Answers(c) ==
    /\ c \in peer /\ asked[c] # <<>> /\ ~aborted
    /\ asked' = [asked EXCEPT ![c] = Tail(@)]
    /\ \E answer \in LengthAnswers(asked[c][1]) \cup ChunkedAnswers(asked[c][1]) :
            wire' = [wire EXCEPT ![c] = @ \o answer]
    /\ UNCHANGED <<pool, live, connected, peer, torn, th, issued, aborted>>

\* What it has sent can still be read.
ServerCloses(c) ==
    /\ c \in peer /\ ~aborted
    /\ peer' = peer \ {c}
    /\ asked' = [asked EXCEPT ![c] = <<>>]
    /\ UNCHANGED <<pool, live, connected, wire, torn, th, issued, aborted>>

Over ==
    /\ aborted \/ (issued = MaxRequests /\ \A t \in Threads : th[t].pc = "idle")
    /\ UNCHANGED vars

Receives(t) ==
    \/ ReadFails(t) \/ ReadHeader(t) \/ ReadPartOfHeader(t) \/ ReadFixSize(t)
    \/ NextChunk(t) \/ ReadChunk(t) \/ ReadPartOfSize(t) \/ ReadRest(t)
Proceeds(t) == SendRequest(t) \/ Receives(t) \/ ReleasePtr(t) \/ Destroy(t)
Issues(t) ==
    \/ TakePooled(t) \/ NewPooled(t) \/ NewPooledFails(t)
    \/ Connect(t) \/ ConnectFails(t)

Next ==
    \/ \E t \in Threads : Issues(t) \/ Proceeds(t)
    \/ \E c \in Conns : Answers(c) \/ ServerCloses(c)
    \/ Over

\* A thread in a call is scheduled; a recv ends when its timeout has passed.
Fairness == \A t \in Threads : WF_vars(Proceeds(t))
Spec == Init /\ [][Next]_vars /\ Fairness
-----------------------------------------------------------------------------
(* Properties.                                                             *)

\* A response that recvResponse returns is the answer to the request of this
\* call, with the body the server sent, whatever the framing and whatever calls
\* on the connection timed out before, and although the reads may have cut the
\* stream within the body, its CRLFs and between the lines.  The one exception
\* is a connection on which a read has ended inside a content-length or a size
\* line: recvResponse may then return a shorter body and report no error.
ResponseMatches ==
    \A t \in Threads :
        th[t].pc = "release" /\ th[t].ok /\ th[t].c \notin torn =>
            /\ th[t].head[2] = th[t].req
            /\ th[t].body = Body(th[t].req, 1, th[t].head[3])

\* A connection that goes back to the pool owes nobody an answer, and the only
\* bytes left on it are a CRLF from behind the last body: the next call starts
\* at the start of its own response.  The exception is again a connection on
\* which a read has ended inside a content-length or a size line: the rest of
\* the body may be left on it.
PooledAligned ==
    \A i \in DOMAIN conns_ :
        conns_[i] \notin torn =>
            /\ asked[conns_[i]] = <<>>
            /\ wire[conns_[i]] \in {<<>>, CrLf, <<Lf>>}

\* Threads that hold a connection of the pool.
Borrowers == {t \in Threads : th[t].pc # "idle" /\ th[t].pooled}

\* total_ counts the connections that are pooled or borrowed, although
\* ReleasePtr changes it outside of mutex_.
TotalExact == total_ = Len(conns_) + Cardinality(Borrowers)

\* No connection is in the list twice, in the list and in use, or in use by two
\* threads, and one in the list has not been deleted or closed.
OneOwner ==
    /\ \A i, j \in DOMAIN conns_ : conns_[i] = conns_[j] => i = j
    /\ \A i \in DOMAIN conns_ : conns_[i] \in connected
    /\ \A t, u \in Threads :
        th[t].pc # "idle" =>
            /\ \A i \in DOMAIN conns_ : conns_[i] # th[t].c
            /\ th[u].pc # "idle" /\ th[t].c = th[u].c => t = u

\* Every call returns, whatever the server does, unless an assert ends the
\* program.
CallsReturn == \A t \in Threads : th[t].pc # "idle" ~> (th[t].pc = "idle" \/ aborted)
=============================================================================
