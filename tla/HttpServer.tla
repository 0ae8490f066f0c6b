----------------------------- MODULE HttpServer -----------------------------
(***************************************************************************)
(* An HTTP server: TcpServer (bind, start, startAccept, stop), the sockets *)
(* it accepts with their FdContexts, HttpServer::handleClient, HttpSession *)
(* and ServletDispatch, with the clients at the other end.  Hooks are off, *)
(* as Scheduler::run leaves them: a call blocks its thread, close() leaves *)
(* the FdContext behind, and accept() always asks for one.                 *)
(*                                                                         *)
(* Requests travel as tokens: the request line, the end of the header with *)
(* what its fields say, and the bytes of the body.  A read may end behind  *)
(* any token, and within the request line or a field, which is then lost.  *)
(* A response is two tokens long.                                          *)
(***************************************************************************)
EXTENDS Naturals, Sequences, FiniteSets, FiniteSetsExt, Functions

CONSTANTS
  AcceptThreads,   \* threads of accept_worker_
  WorkThreads,     \* threads of worker_
  Listeners,       \* the sockets that calls of bind() make
  Conns,           \* connections, the numbers 1 .. n
  Pipelining,      \* those whose client does not wait for an answer
  KeepAlive,       \* keepAlive_
  MaxStarts,       \* calls of start()
  MaxTasks,        \* tasks that wait for accept_worker_ when stop() is called
  MaxRequests,     \* requests of all clients
  Lengths,         \* of the bodies
  BufSize          \* buff_size of recvRequest, in tokens

ASSUME ThreadsAssumption == IsFiniteSet(AcceptThreads)
ASSUME ConnsAssumption == IsFiniteSet(Conns) /\ Conns = 1 .. Cardinality(Conns)
ASSUME BoundsAssumption == Lengths \in SUBSET Nat /\ BufSize \in Nat

VARIABLES
  isStop_, sockets_,
  starts,          \* how often start() was called
  bound,           \* listeners that bind() has made
  listening,       \* listeners whose Socket has a descriptor
  globals,         \* whether the dispatcher has global servlets
  acceptTasks,     \* pendingFunctors_ of accept_worker_
  acceptor,        \* what each of its threads does
  late,            \* clients accepted since stop()
  workTasks,       \* pendingFunctors_ of worker_: handleClient of a connection
  contexts,        \* descriptors that have an FdContext in the table
  conn,            \* every connection
  worker,          \* what each thread of worker_ does
  crash            \* "no", or how the process ended

server  == <<isStop_, sockets_, starts, bound, listening, late>>
vars    == <<server, globals, acceptTasks, acceptor, workTasks, contexts, conn, worker, crash>>

\* The tokens of the n-th request of a client.
Request(n, len) ==
  <<[kind |-> "line", req |-> n], [kind |-> "end", req |-> n, len |-> len]>>
  \o [i \in 1 .. len |-> [kind |-> "byte", req |-> n, at |-> i]]
Response(n) == <<[req |-> n, part |-> 1], [req |-> n, part |-> 2]>>

NewConn == [at |-> "none", listener |-> "none", fd |-> 0, nonblock |-> FALSE,
            toServer |-> << >>, sent |-> << >>, got |-> << >>, torn |-> {}, closed |-> FALSE]
NewWorker == [pc |-> "idle", conn |-> 0, parsed |-> "start", req |-> 0,
              len |-> 0, body |-> << >>, out |-> << >>]

Init ==
  /\ isStop_ = TRUE /\ sockets_ = {} /\ starts = 0 /\ bound = {} /\ listening = {}
  /\ globals = FALSE /\ acceptTasks = << >> /\ late = 0
  /\ acceptor = [t \in AcceptThreads |-> <<"idle">>]
  /\ workTasks = << >> /\ contexts = {}
  /\ conn = [c \in Conns |-> NewConn]
  /\ worker = [t \in WorkThreads |-> NewWorker]
  /\ crash = "no"

Alive == crash = "no"

-----------------------------------------------------------------------------
(* The program that owns the server. *)

\* bind(addr): a socket whose address could not be bound listens all the same,
\* on a port that the kernel chooses, and only a failed listen() leaves it out.
\* A server that runs, or has been stopped, may be bound again: the new socket is
\* served from the next start() on.
Bind(l) ==
  /\ Alive /\ l \notin bound
  /\ bound' = bound \cup {l}
  /\ sockets_' = sockets_ \cup {l}
  /\ listening' = listening \cup {l}
  /\ UNCHANGED <<isStop_, starts, late, globals, acceptTasks, acceptor, workTasks, contexts, conn,
                 worker, crash>>

\* addGlobalServlet and delGlobalServlet.  (Whether addServlet has made its path
\* known is up to each request.)  The dispatcher has no lock: a program sets it
\* up before it starts the server.
SetGlobals ==
  /\ Alive /\ starts = 0
  /\ globals' = ~globals
  /\ UNCHANGED <<server, acceptTasks, acceptor, workTasks, contexts, conn, worker, crash>>

Start ==
  /\ Alive /\ starts < MaxStarts
  /\ isStop_
  /\ isStop_' = FALSE
  /\ starts' = starts + 1
  /\ late' = 0
  /\ \E order \in [1 .. Cardinality(sockets_) -> sockets_] :
       /\ \A i, j \in DOMAIN order : order[i] = order[j] => i = j
       /\ acceptTasks' = acceptTasks \o [i \in DOMAIN order |-> <<"accept", order[i]>>]
  /\ UNCHANGED <<sockets_, bound, listening, globals, acceptor, workTasks, contexts, conn, worker, crash>>

\* stop(), of a stopped server too: every call adds a task that closes the sockets.
Stop ==
  /\ Alive /\ Len(acceptTasks) < MaxTasks
  /\ isStop_' = TRUE
  /\ late' = IF isStop_ THEN late ELSE 0
  /\ acceptTasks' = Append(acceptTasks, <<"close">>)
  /\ UNCHANGED <<sockets_, starts, bound, listening, globals, acceptor, workTasks, contexts, conn, worker,
                 crash>>

-----------------------------------------------------------------------------
(* The threads of accept_worker_. *)

\* A thread takes the next task: an accept loop, or the closing of the sockets.
TakeTask(t) ==
  /\ Alive /\ acceptor[t] = <<"idle">> /\ acceptTasks # << >>
  /\ acceptTasks' = Tail(acceptTasks)
  /\ IF Head(acceptTasks) = <<"close">>
       THEN /\ listening' = listening \ sockets_
            /\ sockets_' = {}
            /\ UNCHANGED acceptor
       ELSE /\ acceptor' = [acceptor EXCEPT ![t] = <<"test", Head(acceptTasks)[2]>>]
            /\ UNCHANGED <<listening, sockets_>>
  /\ UNCHANGED <<isStop_, starts, bound, late, globals, workTasks, contexts, conn, worker, crash>>

\* A faulty variant: while (true).
TestStopIgnores(t) ==
  /\ Alive /\ acceptor[t][1] = "test"
  /\ LET l == acceptor[t][2] IN
       acceptor' = [acceptor EXCEPT ![t] = IF l \in listening THEN <<"accept", l>> ELSE <<"idle">>]
  /\ UNCHANGED <<server, globals, acceptTasks, workTasks, contexts, conn, worker, crash>>

\* while (isStop_ == false), and the call of accept(): on a closed socket it
\* fails at once, on an open one it holds on to the socket while it blocks.
TestStop(t) ==
  /\ Alive /\ acceptor[t][1] = "test"
  /\ LET l == acceptor[t][2] IN
       acceptor' = [acceptor EXCEPT ![t] = IF isStop_ THEN <<"idle">>
                                           ELSE IF l \in listening THEN <<"accept", l>> ELSE <<"test", l>>]
  /\ UNCHANGED <<server, globals, acceptTasks, workTasks, contexts, conn, worker, crash>>

UsedFds == {conn[c].fd : c \in {d \in Conns : conn[d].at \in {"queued", "served"}}}
LowestFd == Min({n \in 1 .. Cardinality(Conns) : n \notin UsedFds})

\* accept() returns a connection.  getFdContext(fd, true) makes a new context,
\* and with it the socket non-blocking, only if the table has none for this
\* number.  handleClient of the connection is given to worker_.
Accept(t, c) ==
  /\ Alive /\ acceptor[t][1] = "accept"
  /\ conn[c].at = "backlog" /\ conn[c].listener = acceptor[t][2]
  /\ conn' = [conn EXCEPT ![c] = [@ EXCEPT !.at = "queued", !.fd = LowestFd,
                                            !.nonblock = LowestFd \notin contexts]]
  /\ contexts' = contexts \cup {LowestFd}
  /\ workTasks' = Append(workTasks, c)
  /\ acceptor' = [acceptor EXCEPT ![t] = <<"test", acceptor[t][2]>>]
  /\ late' = IF isStop_ THEN late + 1 ELSE late
  /\ UNCHANGED <<isStop_, sockets_, starts, bound, listening, globals, acceptTasks, worker, crash>>

-----------------------------------------------------------------------------
(* The threads of worker_: handleClient. *)

TakeClient(t) ==
  /\ Alive /\ worker[t].pc = "idle" /\ workTasks # << >>
  /\ worker' = [worker EXCEPT ![t] = [NewWorker EXCEPT !.pc = "header", !.conn = Head(workTasks)]]
  /\ conn' = [conn EXCEPT ![Head(workTasks)].at = "served"]
  /\ workTasks' = Tail(workTasks)
  /\ UNCHANGED <<server, globals, acceptTasks, acceptor, contexts, crash>>

Mine(t) == conn[worker[t].conn]
Unmoved == <<server, globals, acceptTasks, acceptor, workTasks, contexts>>

\* recv() of at most max tokens takes n of them.
Received(t, max) == 1 .. Min({max, Len(Mine(t).toServer)})
Consume(t, n) ==
  conn' = [conn EXCEPT ![worker[t].conn].toServer = SubSeq(@, n + 1, Len(@))]

\* recv() gives nothing: the client has closed, the socket does not block, or
\* the receive timeout of a blocking one has passed.  recvRequest closes the
\* socket and returns nullptr, and handleClient fails its assertion.
ReadFails(t) ==
  /\ Alive /\ worker[t].pc \in {"header", "body"}
  /\ Mine(t).toServer = << >>
  /\ crash' = "assert"
  /\ UNCHANGED <<Unmoved, conn, worker>>

\* What the parser makes of the tokens of one read: the token that ends the
\* header, or why there is none.
Expected(state) == IF state = "start" THEN "line" ELSE "end"
Parse(state, tokens) ==
  LET bad == \/ tokens[1].kind # Expected(state)
             \/ state = "start" /\ Len(tokens) > 1 /\ tokens[2].kind # "end"
  IN IF bad THEN "error" ELSE IF state = "start" /\ Len(tokens) = 1 THEN "line" ELSE "finished"

\* A faulty variant: the whole buffer is taken for the body.
BodyInBufferAll(rest, len) == rest

\* What remains of the body after the read that ended the header; the tokens of
\* the buffer behind the body are forgotten.
BodyInBuffer(rest, len) == SubSeq(rest, 1, Min({Len(rest), len}))

\* What the parser has stored after the request line, and after the header.
LineRead(w, line) == [w EXCEPT !.parsed = "line", !.req = line.req]
HeaderRead(w, end, body) ==
  [w EXCEPT !.pc = IF Len(body) < end.len THEN "body" ELSE "handle",
            !.len = end.len, !.body = body]

\* The first loop of recvRequest.
ReadHeader(t) ==
  /\ Alive /\ worker[t].pc = "header"
  /\ \E n \in Received(t, BufSize) :
       LET tokens == SubSeq(Mine(t).toServer, 1, n)
           outcome == Parse(worker[t].parsed, tokens)
           end  == IF worker[t].parsed = "start" THEN 2 ELSE 1
           body == BodyInBuffer(SubSeq(tokens, end + 1, n), tokens[end].len)
       IN /\ Consume(t, n)
          /\ \/ /\ outcome = "error"
                /\ crash' = "assert"
                /\ UNCHANGED worker
             \/ /\ outcome = "line"
                /\ worker' = [worker EXCEPT ![t] = LineRead(worker[t], tokens[1])]
                /\ UNCHANGED crash
             \/ /\ outcome = "finished"
                /\ worker' = [worker EXCEPT ![t] = HeaderRead(
                     IF worker[t].parsed = "start" THEN LineRead(worker[t], tokens[1]) ELSE worker[t],
                     tokens[end], body)]
                /\ UNCHANGED crash
  /\ UNCHANGED Unmoved

\* A read ends within the request line, whose marks are reset at the next call: a
\* method or a version without its beginning is an error, and recvRequest returns
\* nullptr.  (Of a path the rest is stored, which may be known or not.)
ReadPartOfLine(t) ==
  /\ Alive /\ worker[t].pc = "header" /\ worker[t].parsed = "start"
  /\ Mine(t).toServer # << >> /\ Mine(t).toServer[1].kind = "line"
  /\ crash' = "assert"
  /\ UNCHANGED <<Unmoved, conn, worker>>

\* A read ends within a field of the header: the rest has lost its name, or the
\* beginning of it, and is not stored.  Without its Content-Length a request has
\* no body.  (Without its Connection field it asks for a close, which any may.)
Torn(k, n) == [k EXCEPT !.toServer[1].len = 0, !.torn = k.torn \cup {n}]
ReadPartOfHeader(t) ==
  /\ Alive /\ worker[t].pc = "header" /\ worker[t].parsed = "line"
  /\ Mine(t).toServer # << >> /\ Mine(t).toServer[1].kind = "end" /\ Mine(t).toServer[1].len > 0
  /\ conn' = [conn EXCEPT ![worker[t].conn] = Torn(Mine(t), worker[t].req)]
  /\ UNCHANGED <<Unmoved, worker, crash>>

\* readFixSize for the rest of the body.
BodyRead(w, tokens) ==
  [w EXCEPT !.body = w.body \o tokens,
            !.pc = IF Len(w.body) + Len(tokens) = w.len THEN "handle" ELSE "body"]
ReadBody(t) ==
  /\ Alive /\ worker[t].pc = "body"
  /\ \E n \in Received(t, worker[t].len - Len(worker[t].body)) :
       /\ Consume(t, n)
       /\ worker' = [worker EXCEPT ![t] = BodyRead(worker[t], SubSeq(Mine(t).toServer, 1, n))]
  /\ UNCHANGED <<Unmoved, crash>>

\* ServletDispatch::handle.  For a path without an exact match the loop over the
\* global servlets reads through an end iterator: anything may happen.
Dispatch(t) ==
  /\ Alive /\ worker[t].pc = "handle"
  /\ \/ /\ worker' = [worker EXCEPT ![t] = [@ EXCEPT !.pc = "write", !.out = Response(worker[t].req)]]
        /\ UNCHANGED crash
     \/ /\ globals
        /\ crash' = "undefined"
        /\ UNCHANGED worker
  /\ UNCHANGED <<Unmoved, conn>>

\* A faulty variant: every send() starts at the beginning of the response.
WriteFromStart(t) ==
  /\ Alive /\ worker[t].pc = "write" /\ worker[t].out # << >>
  /\ \E n \in 1 .. Len(worker[t].out) :
       /\ worker' = [worker EXCEPT ![t].out = SubSeq(@, n + 1, Len(@))]
       /\ conn' = [conn EXCEPT ![worker[t].conn].got = @ \o SubSeq(Response(worker[t].req), 1, n)]
  /\ UNCHANGED <<Unmoved, crash>>

\* writeFixSize of sendResponse: send() takes some of the tokens.  What is
\* written to a client that has closed is lost.
Write(t) ==
  /\ Alive /\ worker[t].pc = "write" /\ worker[t].out # << >>
  /\ \E n \in 1 .. Len(worker[t].out) :
       /\ worker' = [worker EXCEPT ![t].out = SubSeq(@, n + 1, Len(@))]
       /\ conn' = [conn EXCEPT ![worker[t].conn].got =
                     IF Mine(t).closed THEN @ ELSE @ \o SubSeq(worker[t].out, 1, n)]
  /\ UNCHANGED <<Unmoved, crash>>

\* send() fails: a non-blocking socket is full, which sendResponse does not tell
\* its caller; or the client has closed, and SIGPIPE ends the process.
WriteFails(t) ==
  /\ Alive /\ worker[t].pc = "write" /\ worker[t].out # << >>
  /\ \/ /\ Mine(t).nonblock
        /\ worker' = [worker EXCEPT ![t].out = << >>]
        /\ UNCHANGED crash
     \/ /\ Mine(t).closed
        /\ crash' = "sigpipe"
        /\ UNCHANGED worker
  /\ UNCHANGED <<Unmoved, conn>>

\* A faulty variant: the session is closed and the loop goes on.
FinishNoBreak(t) ==
  /\ Alive /\ worker[t].pc = "write" /\ worker[t].out = << >>
  /\ worker' = [worker EXCEPT ![t] = [NewWorker EXCEPT !.pc = "header", !.conn = worker[t].conn]]
  /\ \E at \in {"served", "done"} : conn' = [conn EXCEPT ![worker[t].conn].at = at]
  /\ UNCHANGED <<Unmoved, crash>>

\* The end of the loop of handleClient: session->close(), or the next request if
\* the server keeps connections and this request has asked for it.
Finish(t) ==
  /\ Alive /\ worker[t].pc = "write" /\ worker[t].out = << >>
  /\ \/ /\ worker' = [worker EXCEPT ![t] = NewWorker]
        /\ conn' = [conn EXCEPT ![worker[t].conn].at = "done"]
     \/ /\ KeepAlive
        /\ worker' = [worker EXCEPT ![t] = [NewWorker EXCEPT !.pc = "header", !.conn = worker[t].conn]]
        /\ UNCHANGED conn
  /\ UNCHANGED <<Unmoved, crash>>

-----------------------------------------------------------------------------
(* The clients. *)

\* A client connects as long as the kernel still knows the listening socket.
Open(l) == l \in listening \/ \E t \in AcceptThreads : acceptor[t] = <<"accept", l>>
Connect(c, l) ==
  /\ Alive /\ conn[c].at = "none" /\ Open(l)
  /\ \A d \in Conns : d < c => conn[d].at # "none"
  /\ conn' = [conn EXCEPT ![c] = [@ EXCEPT !.at = "backlog", !.listener = l]]
  /\ UNCHANGED <<Unmoved, worker, crash>>

Answered(c) == Len(conn[c].got) = 2 * Len(conn[c].sent)

Sent(k, len) ==
  [k EXCEPT !.sent = Append(k.sent, len), !.toServer = k.toServer \o Request(Len(k.sent) + 1, len)]

\* A client sends a request, if it pipelines even before the last answer.
Send(c) ==
  /\ Alive /\ conn[c].at \in {"backlog", "queued", "served"} /\ ~conn[c].closed
  /\ SumFunction([d \in Conns |-> Len(conn[d].sent)]) < MaxRequests
  /\ c \in Pipelining \/ Answered(c)
  /\ \E len \in Lengths : conn' = [conn EXCEPT ![c] = Sent(conn[c], len)]
  /\ UNCHANGED <<Unmoved, worker, crash>>

ClientCloses(c) ==
  /\ Alive /\ conn[c].at \in {"backlog", "queued", "served"} /\ ~conn[c].closed
  /\ conn' = [conn EXCEPT ![c].closed = TRUE]
  /\ UNCHANGED <<Unmoved, worker, crash>>

-----------------------------------------------------------------------------

Work(t) ==
  \/ TakeClient(t) \/ ReadHeader(t) \/ ReadPartOfLine(t) \/ ReadPartOfHeader(t) \/ ReadBody(t)
  \/ ReadFails(t) \/ Dispatch(t) \/ Write(t) \/ WriteFails(t) \/ Finish(t)

Next ==
  \/ \E l \in Listeners : Bind(l)
  \/ SetGlobals
  \/ Start
  \/ Stop
  \/ \E t \in AcceptThreads : TakeTask(t) \/ TestStop(t)
  \/ \E t \in AcceptThreads, c \in Conns : Accept(t, c)
  \/ \E t \in WorkThreads : Work(t)
  \/ \E c \in Conns, l \in Listeners : Connect(c, l)
  \/ \E c \in Conns : Send(c) \/ ClientCloses(c)

Spec == Init /\ [][Next]_vars

-----------------------------------------------------------------------------

\* A request reaches the dispatcher with its own body, whole and in order,
\* however the reads have divided it from the header, from itself and from what
\* is behind it; with none at all, and never with part of one, if a read has
\* ended within its Content-Length line.
BodyExact ==
  \A t \in WorkThreads : worker[t].pc = "handle" =>
     LET n == worker[t].req IN
     /\ worker[t].len = IF n \in Mine(t).torn THEN 0 ELSE Mine(t).sent[n]
     /\ worker[t].body = [i \in 1 .. worker[t].len |-> [kind |-> "byte", req |-> n, at |-> i]]

\* A client that waits for each answer gets the answers in the order of its
\* requests and nothing else; one that does not wait may lose requests (what is
\* in the buffer behind a body is forgotten), but no answer comes twice or out
\* of order.
AnswersInOrder ==
  \A c \in Conns :
    LET got == conn[c].got IN
    /\ c \notin Pipelining =>
         \A i \in DOMAIN got : got[i] = [req |-> (i + 1) \div 2, part |-> 1 + ((i + 1) % 2)]
    /\ \A i, j \in DOMAIN got : i < j =>
         \/ got[i].req < got[j].req
         \/ got[i].req = got[j].req /\ got[i].part < got[j].part

\* A connection has one handler, from accept() to close(), and no two open
\* connections share a descriptor, although numbers and contexts are reused.
OneHandler ==
  /\ \A c \in Conns :
       /\ Cardinality({i \in DOMAIN workTasks : workTasks[i] = c}) = (IF conn[c].at = "queued" THEN 1 ELSE 0)
       /\ Cardinality({t \in WorkThreads : worker[t].conn = c}) = (IF conn[c].at = "served" THEN 1 ELSE 0)
  /\ \A c, d \in Conns :
       c # d /\ {conn[c].at, conn[d].at} \subseteq {"queued", "served"} => conn[c].fd # conn[d].fd

\* After stop() every accept loop lets in at most the one client it was already
\* waiting for, even if stop() could not wake it up.
StopBounded == isStop_ => late <= Cardinality(AcceptThreads)
=============================================================================
