--------------------------- MODULE HttpServerProofs ---------------------------
(***************************************************************************)
(* Theorems about HttpServer, for any number of accepting and of working   *)
(* threads, listeners, connections and requests, bodies of any length and  *)
(* any size of the buffer.                                                 *)
(***************************************************************************)
EXTENDS HttpServer, CommonLemmas, WellFoundedInduction

Lines == [kind : {"line"}, req : Nat]
Ends == [kind : {"end"}, req : Nat, len : Nat]
Byte(n, i) == [kind |-> "byte", req |-> n, at |-> i]
Bytes == [kind : {"byte"}, req : Nat, at : Nat]
Tokens == Lines \cup Ends \cup Bytes
Answers == [req : Nat, part : {1, 2}]

ConnType == [at : {"none", "backlog", "queued", "served", "done"}, listener : Listeners \cup {"none"},
             fd : Nat, nonblock : BOOLEAN, toServer : Seq(Tokens), sent : Seq(Nat),
             got : Seq(Answers), torn : SUBSET Nat, closed : BOOLEAN]
WorkerType == [pc : {"idle", "header", "body", "handle", "write"}, conn : Conns \cup {0},
               parsed : {"start", "line"}, req : Nat, len : Nat,
               body : Seq(Tokens), out : Seq(Answers)]

Types == /\ conn \in [Conns -> ConnType]
         /\ worker \in [WorkThreads -> WorkerType]
         /\ workTasks \in Seq(Conns)

-----------------------------------------------------------------------------
(* The invariant. *)

\* The stream to the server: a request line is followed by the end of its header,
\* and that by the whole body, or by what is taken for none if the length is
\* torn; the requests come in order.  It may begin anywhere.
Sound(q, sent, torn) ==
  /\ \A p \in DOMAIN q :
       /\ q[p].req \in 1 .. Len(sent)
       /\ q[p].kind = "line" =>
            /\ q[p].req \notin torn
            /\ p < Len(q) /\ q[p + 1].kind = "end" /\ q[p + 1].req = q[p].req
       /\ q[p].kind = "end" =>
            /\ q[p].len = sent[q[p].req] \/ (q[p].req \in torn /\ q[p].len = 0)
            /\ p + q[p].len <= Len(q)
            /\ \A i \in 1 .. q[p].len : q[p + i] = Byte(q[p].req, i)
  /\ \A p, r \in DOMAIN q : p < r /\ q[p].kind = "line" /\ q[r].kind = "line" => q[p].req < q[r].req

Ascending(got) ==
  \A i, j \in DOMAIN got : i < j =>
    \/ got[i].req < got[j].req
    \/ got[i].req = got[j].req /\ got[i].part < got[j].part

InTurn(got) == \A i \in DOMAIN got : got[i] = [req |-> (i + 1) \div 2, part |-> 1 + ((i + 1) % 2)]

ConnOk(k, waits) ==
  /\ Sound(k.toServer, k.sent, k.torn) /\ k.torn \subseteq 1 .. Len(k.sent)
  /\ Ascending(k.got) /\ \A i \in DOMAIN k.got : k.got[i].req <= Len(k.sent)
  /\ waits => InTurn(k.got)

\* All answers so far are to earlier requests than the n-th, and all that is left
\* in the stream is of later ones.
Below(got, n) == \A i \in DOMAIN got : got[i].req < n
Later(q, n) == \A p \in DOMAIN q : q[p].kind = "line" => n < q[p].req

\* Between two requests.  A client that waits has one request under way, or none;
\* behind a torn one the stream may begin with its body, which is an error.
Between(k, waits) ==
  /\ \A i \in DOMAIN k.got : Later(k.toServer, k.got[i].req)
  /\ waits => \A p \in DOMAIN k.toServer : k.toServer[p].kind = "line" =>
       k.toServer[p].req = Len(k.sent) /\ Len(k.got) = 2 * (Len(k.sent) - 1)

\* In the n-th request.
Within(k, n, waits) ==
  /\ n \in 1 .. Len(k.sent) /\ Below(k.got, n) /\ Later(k.toServer, n)
  /\ waits => n = Len(k.sent) /\ Len(k.got) = 2 * (n - 1)

\* The last tokens of the n-th answer; the answers when o of its tokens are left.
PartOf(out, n) == Len(out) <= 2 /\ \A i \in DOMAIN out : out[i] = [req |-> n, part |-> (2 - Len(out)) + i]
Upto(got, n, o) ==
  \A i \in DOMAIN got :
    \/ got[i].req < n
    \/ got[i].req = n /\ got[i].part <= 2 - o

\* The n-th answer is being written, and out is what is left of it.
Writing(k, n, out, waits) ==
  /\ n \in 1 .. Len(k.sent) /\ Later(k.toServer, n)
  /\ PartOf(out, n) /\ Upto(k.got, n, Len(out))
  /\ waits => IF out = << >> THEN Between(k, waits)
              ELSE n = Len(k.sent) /\ (~k.closed => Len(k.got) = 2 * n - Len(out))

BodyOf(w) == w.body = [i \in 1 .. w.len |-> Byte(w.req, i)]

Serves(w, k, waits) ==
  /\ w.pc = "header" /\ w.parsed = "start" => Between(k, waits)
  /\ w.pc = "header" /\ w.parsed = "line" =>
       /\ Within(k, w.req, waits)
       /\ k.toServer # << >> /\ k.toServer[1].kind = "end" /\ k.toServer[1].req = w.req
       /\ w.req \in k.torn => k.toServer[1].len = 0
  /\ w.pc = "body" =>
       LET have == Len(w.body) IN
       /\ Within(k, w.req, waits)
       /\ w.req \notin k.torn /\ w.len = k.sent[w.req] /\ have < w.len
       /\ \A i \in 1 .. have : w.body[i] = Byte(w.req, i)
       /\ w.len - have <= Len(k.toServer)
       /\ \A i \in 1 .. w.len - have : k.toServer[i] = Byte(w.req, have + i)
  /\ w.pc = "handle" =>
       /\ Within(k, w.req, waits)
       /\ w.len = (IF w.req \in k.torn THEN 0 ELSE k.sent[w.req]) /\ BodyOf(w)
  /\ w.pc = "write" => Writing(k, w.req, w.out, waits)

Waits(c) == c \notin Pipelining

\* Every connection that was accepted and not closed has one handler, queued or
\* at work, and a descriptor of its own.
Owners ==
  /\ \A t \in WorkThreads : worker[t].pc = "idle" <=> worker[t].conn = 0
  /\ \A t \in WorkThreads : worker[t].conn # 0 => conn[worker[t].conn].at = "served"
  /\ \A t, u \in WorkThreads : worker[t].conn = worker[u].conn /\ worker[t].conn # 0 => t = u
  /\ \A c \in Conns : conn[c].at = "served" => \E t \in WorkThreads : worker[t].conn = c
Queue ==
  /\ \A i \in DOMAIN workTasks : conn[workTasks[i]].at = "queued"
  /\ \A i, j \in DOMAIN workTasks : workTasks[i] = workTasks[j] => i = j
  /\ \A c \in Conns : conn[c].at = "queued" => \E i \in DOMAIN workTasks : workTasks[i] = c
Taken(c) == conn[c].at \in {"queued", "served"}
Descriptors ==
  /\ \A c \in Conns : Taken(c) => conn[c].fd \in 1 .. Cardinality(Conns)
  /\ \A c, d \in Conns : c # d /\ Taken(c) /\ Taken(d) => conn[c].fd # conn[d].fd

Streams == \A c \in Conns : ConnOk(conn[c], Waits(c))
Waiting == \A c \in Conns : conn[c].at \in {"none", "backlog", "queued"} => Between(conn[c], Waits(c))
Serving == \A t \in WorkThreads : worker[t].pc # "idle" => Serves(worker[t], Mine(t), Waits(worker[t].conn))

OInv == Types /\ Owners /\ Queue /\ Descriptors
IInv == OInv /\ Streams /\ Waiting /\ Serving

\* stop(): the accept loops that still wait for a client, and those that have
\* had one since.
StillAccepting == [t \in AcceptThreads |-> acceptor[t][1]]
LateInv == /\ late \in Nat /\ isStop_ \in BOOLEAN /\ DOMAIN acceptor = AcceptThreads
           /\ isStop_ => late + HowMany(AcceptThreads, StillAccepting, {"accept"}) <= Cardinality(AcceptThreads)

-----------------------------------------------------------------------------
(* After stop(). *)

\* A step of one accept loop changes the count by at most one, and one that
\* leaves the loops alone does not change it.
LEMMA AcceptingMove ==
  ASSUME NEW t \in AcceptThreads, \A u \in AcceptThreads \ {t} : acceptor'[u] = acceptor[u]
  PROVE  LET h == HowMany(AcceptThreads, StillAccepting, {"accept"})
             k == HowMany(AcceptThreads, StillAccepting', {"accept"})
         IN /\ h \in Nat /\ k \in Nat
            /\ acceptor[t][1] # "accept" /\ acceptor'[t][1] # "accept" => k = h
            /\ acceptor[t][1] = "accept" /\ acceptor'[t][1] # "accept" => k = h - 1
  <1>1. \A u \in AcceptThreads \ {t} : StillAccepting'[u] = StillAccepting[u]
    BY DEF StillAccepting
  <1>2. StillAccepting[t] = acceptor[t][1] /\ StillAccepting'[t] = acceptor'[t][1]
    BY DEF StillAccepting
  <1> QED BY <1>1, <1>2, ThreadsAssumption, CountType, MoveCount

LEMMA LateInit == Init => LateInv
  <1> SUFFICES ASSUME Init PROVE LateInv
    OBVIOUS
  <1>1. {t \in AcceptThreads : StillAccepting[t] \in {"accept"}} = {}
    BY DEF Init, StillAccepting
  <1>2. HowMany(AcceptThreads, StillAccepting, {"accept"}) = 0
    BY <1>1, FS_EmptySet, Zenon DEF HowMany
  <1> QED BY <1>2, ThreadsAssumption, FS_CardinalityType DEF Init, LateInv

LEMMA LateNext == LateInv /\ [Next]_vars => LateInv'
  <1> DEFINE h == HowMany(AcceptThreads, StillAccepting, {"accept"})
             N == Cardinality(AcceptThreads)
  <1> SUFFICES ASSUME LateInv, [Next]_vars PROVE LateInv'
    OBVIOUS
  <1>1. N \in Nat /\ h \in Nat /\ h <= N
    <2>1. {t \in AcceptThreads : StillAccepting[t] \in {"accept"}} \in SUBSET AcceptThreads
      OBVIOUS
    <2> QED BY <2>1, ThreadsAssumption, FS_CardinalityType, FS_Subset DEF HowMany
  <1>2. ASSUME UNCHANGED <<isStop_, late, acceptor>> PROVE LateInv'
    BY <1>2 DEF LateInv, StillAccepting
  <1>3. ASSUME Start PROVE LateInv'
    BY <1>3 DEF Start, LateInv
  <1>4. ASSUME Stop PROVE LateInv'
    <2>1. StillAccepting' = StillAccepting
      BY <1>4 DEF Stop, StillAccepting
    <2> QED BY <2>1, <1>1, <1>4 DEF Stop, LateInv
  <1>5. ASSUME NEW t \in AcceptThreads, TakeTask(t) \/ TestStop(t) PROVE LateInv'
    <2>1. UNCHANGED <<isStop_, late>>
      BY <1>5 DEF TakeTask, TestStop, server
    <2>2. CASE acceptor' = acceptor
      BY <1>2, <2>1, <2>2
    <2>3. CASE acceptor' # acceptor
      <3>1. acceptor[t][1] # "accept"
        BY <1>5 DEF TakeTask, TestStop
      <3>2. PICK a : acceptor' = [acceptor EXCEPT ![t] = a] /\ (isStop_ => a[1] # "accept")
        <4>1. CASE TakeTask(t)
          <5>1. acceptor' = [acceptor EXCEPT ![t] = <<"test", Head(acceptTasks)[2]>>]
            BY <4>1, <2>3 DEF TakeTask
          <5>2. <<"test", Head(acceptTasks)[2]>>[1] # "accept"
            OBVIOUS
          <5> QED BY <5>1, <5>2, Zenon
        <4>2. CASE TestStop(t)
          <5>1. PICK a : /\ acceptor' = [acceptor EXCEPT ![t] = a]
                         /\ a = IF isStop_ THEN <<"idle">>
                                ELSE IF acceptor[t][2] \in listening THEN <<"accept", acceptor[t][2]>>
                                ELSE <<"test", acceptor[t][2]>>
            BY <4>2 DEF TestStop
          <5>2. isStop_ => a[1] # "accept"
            BY <5>1
          <5> QED BY <5>1, <5>2, Zenon
        <4> QED BY <1>5, <4>1, <4>2
      <3>3. /\ DOMAIN acceptor' = AcceptThreads
            /\ \A u \in AcceptThreads \ {t} : acceptor'[u] = acceptor[u]
            /\ acceptor'[t] = a
        BY <3>2 DEF LateInv
      <3> QED BY <3>1, <3>2, <3>3, <2>1, <1>1, AcceptingMove DEF LateInv
    <2> QED BY <2>2, <2>3
  <1>6. ASSUME NEW t \in AcceptThreads, NEW c \in Conns, Accept(t, c) PROVE LateInv'
    <2>1. /\ acceptor[t][1] = "accept" /\ isStop_' = isStop_
          /\ acceptor' = [acceptor EXCEPT ![t] = <<"test", acceptor[t][2]>>]
          /\ late' = IF isStop_ THEN late + 1 ELSE late
      BY <1>6 DEF Accept
    <2>2. /\ DOMAIN acceptor' = AcceptThreads
          /\ \A u \in AcceptThreads \ {t} : acceptor'[u] = acceptor[u]
          /\ acceptor'[t][1] = "test"
      BY <2>1 DEF LateInv
    <2> QED BY <2>1, <2>2, <1>1, AcceptingMove DEF LateInv
  <1>7. CASE UNCHANGED vars
    BY <1>2, <1>7 DEF vars, server
  <1>8. CASE \E l \in Listeners : Bind(l)
    BY <1>2, <1>8 DEF Bind
  <1>9. CASE SetGlobals
    BY <1>2, <1>9 DEF SetGlobals, server
  <1>10. ASSUME NEW t \in WorkThreads, Work(t) PROVE LateInv'
    <2>1. UNCHANGED <<isStop_, late, acceptor>>
      BY <1>10 DEF Work, TakeClient, ReadHeader, ReadPartOfLine, ReadPartOfHeader, ReadBody, ReadFails, Dispatch, Write, WriteFails, Finish,
                   Unmoved, server
    <2> QED BY <1>2, <2>1
  <1>11. ASSUME NEW c \in Conns, Send(c) \/ ClientCloses(c) \/ \E l \in Listeners : Connect(c, l) PROVE LateInv'
    BY <1>2, <1>11 DEF Connect, Send, ClientCloses, Unmoved, server
  <1> QED
    BY <1>3, <1>4, <1>5, <1>6, <1>7, <1>8, <1>9, <1>10, <1>11 DEF Next

\* After stop() no accept loop lets in more than the one client that it was
\* already waiting for, for any number of accepting threads.
THEOREM StopLetsFewIn == Spec => []StopBounded
  <1>1. LateInv => StopBounded
    <2> SUFFICES ASSUME LateInv, isStop_ PROVE late <= Cardinality(AcceptThreads)
      BY DEF StopBounded
    <2>1. Cardinality(AcceptThreads) \in Nat /\ HowMany(AcceptThreads, StillAccepting, {"accept"}) \in Nat
      BY ThreadsAssumption, FS_CardinalityType, CountType
    <2> QED BY <2>1 DEF LateInv
  <1> QED BY <1>1, LateInit, LateNext, PTL DEF Spec
-----------------------------------------------------------------------------
(* One handler for every connection. *)

\* A nonempty set of numbers has a least one, which is what Min chooses.
LEMMA MinExists ==
  ASSUME NEW T \in SUBSET Nat, T # {}
  PROVE  Min(T) \in T /\ \A y \in T : Min(T) <= y
  <1> DEFINE Less == {ss \in Nat \X Nat : ss[1] < ss[2]}
  <1>1. IsWellFoundedOn(Less, Nat)
    BY NatLessThanWellFounded, Zenon DEF OpToRel
  <1>2. PICK x \in T : \A y \in T : ~(<<y, x>> \in Less)
    BY <1>1, WFMin, Zenon
  <1>3. ASSUME NEW y \in T PROVE x <= y
    <2>1. y \in Nat /\ x \in Nat
      OBVIOUS
    <2>2. y < x => <<y, x>> \in Less
      BY <2>1
    <2> QED BY <1>2, <2>1, <2>2
  <1> QED BY <1>3, Zenon DEF Min

\* While a connection is in the backlog there is a number for it: LowestFd is one
\* that no accepted connection has.
LEMMA LowestIsFree ==
  ASSUME OInv, NEW c \in Conns, ~Taken(c)
  PROVE  LowestFd \in 1 .. Cardinality(Conns) /\ \A d \in Conns : Taken(d) => conn[d].fd # LowestFd
  <1> DEFINE N == Cardinality(Conns)
             D == {d \in Conns : conn[d].at \in {"queued", "served"}}
             T == {n \in 1 .. N : n \notin UsedFds}
  <1>1. N \in Nat /\ IsFiniteSet(Conns) /\ IsFiniteSet(1 .. N) /\ Cardinality(1 .. N) = N
    BY ConnsAssumption, FS_CardinalityType, Zenon
  <1>2. IsFiniteSet(D) /\ Cardinality(D) \in Nat /\ Cardinality(D) < N
    <2>1. D \in SUBSET (Conns \ {c})
      BY DEF Taken
    <2>2. IsFiniteSet(Conns \ {c}) /\ Cardinality(Conns \ {c}) = N - 1
      BY <1>1, FS_RemoveElement
    <2> QED BY <1>1, <2>1, <2>2, FS_Subset, FS_CardinalityType
  <1>3. T # {}
    <2> SUFFICES ASSUME T = {} PROVE FALSE
      OBVIOUS
    <2> DEFINE g == [n \in 1 .. N |-> CHOOSE d \in D : conn[d].fd = n]
    <2>1. \A n \in 1 .. N : \E d \in D : conn[d].fd = n
      BY DEF UsedFds
    <2>2. \A n \in 1 .. N : g[n] \in D /\ conn[g[n]].fd = n
      BY <2>1
    <2>3. g \in [1 .. N -> D]
      BY <2>2
    <2> HIDE DEF g, D
    <2>4. PICK x \in 1 .. N, y \in 1 .. N : x # y /\ g[x] = g[y]
      BY <1>1, <1>2, <2>3, FS_PigeonHole
    <2> QED BY <2>2, <2>4
  <1>4. LowestFd \in T
    <2>1. T \in SUBSET Nat
      BY <1>1
    <2> QED BY <1>3, <2>1, MinExists, Zenon DEF LowestFd
  <1> QED BY <1>4 DEF UsedFds, Taken
-----------------------------------------------------------------------------
(* What the steps of a handler do to its own record and to its connection's. *)

\* The handler of t becomes w, its connection k, and nothing else moves.
Moves(t, w, k) ==
  /\ worker' = [worker EXCEPT ![t] = w]
  /\ conn' = [conn EXCEPT ![worker[t].conn] = k]
  /\ workTasks' = workTasks

LEMMA MinOfTwo ==
  ASSUME NEW a \in Int, NEW b \in Int
  PROVE  Min({a, b}) = IF a <= b THEN a ELSE b
  <1>1. CASE a <= b
    <2>1. \A x \in {a, b} : (\A y \in {a, b} : x <= y) => x = a
      BY <1>1
    <2>2. \A y \in {a, b} : a <= y
      BY <1>1
    <2>3. Min({a, b}) = a
      BY <2>1, <2>2, Zenon DEF Min
    <2> QED BY <1>1, <2>3
  <1>2. CASE ~(a <= b)
    <2>1. \A x \in {a, b} : (\A y \in {a, b} : x <= y) => x = b
      BY <1>2
    <2>2. \A y \in {a, b} : b <= y
      BY <1>2
    <2>3. Min({a, b}) = b
      BY <2>1, <2>2, Zenon DEF Min
    <2> QED BY <1>2, <2>3
  <1> QED BY <1>1, <1>2

\* The records of a handler at work.
LEMMA AtWork ==
  ASSUME OInv, NEW t \in WorkThreads, worker[t].pc # "idle"
  PROVE  /\ worker[t] \in WorkerType /\ worker[t].conn \in Conns
         /\ Mine(t) \in ConnType /\ Mine(t).at = "served"
         /\ Mine(t).toServer \in Seq(Tokens) /\ Len(Mine(t).toServer) \in Nat
  <1>1. worker[t] \in WorkerType /\ worker[t].conn # 0
    BY DEF OInv, Types, Owners
  <1>2. worker[t].conn \in Conns /\ conn[worker[t].conn].at = "served"
    BY <1>1 DEF OInv, Owners, WorkerType
  <1>3. Mine(t) \in ConnType
    BY <1>2 DEF OInv, Types, Mine
  <1>4. Mine(t).toServer \in Seq(Tokens)
    BY <1>3 DEF ConnType
  <1> QED BY <1>1, <1>2, <1>3, <1>4, LenProperties DEF Mine

\* recv() takes some tokens from the front.
LEMMA ReceivedFront ==
  ASSUME OInv, NEW t \in WorkThreads, worker[t].pc # "idle", NEW max \in Int, NEW n \in Received(t, max)
  PROVE  n \in 1 .. Len(Mine(t).toServer) /\ n <= max
  <1>1. Len(Mine(t).toServer) \in Int
    BY AtWork
  <1>2. Min({max, Len(Mine(t).toServer)}) = IF max <= Len(Mine(t).toServer) THEN max ELSE Len(Mine(t).toServer)
    BY <1>1, MinOfTwo
  <1> QED BY <1>1, <1>2 DEF Received

\* The front and the rest of a sequence.
LEMMA Cut ==
  ASSUME NEW S, NEW q \in Seq(S), NEW n \in 0 .. Len(q)
  PROVE  /\ SubSeq(q, 1, n) \in Seq(S) /\ Len(SubSeq(q, 1, n)) = n
         /\ \A i \in 1 .. n : SubSeq(q, 1, n)[i] = q[i]
         /\ SubSeq(q, n + 1, Len(q)) \in Seq(S) /\ Len(SubSeq(q, n + 1, Len(q))) = Len(q) - n
         /\ \A i \in 1 .. Len(q) - n : SubSeq(q, n + 1, Len(q))[i] = q[n + i]
  <1>1. Len(q) \in Nat /\ \A i \in 1 .. Len(q) : q[i] \in S
    BY LenProperties, ElementOfSeq
  <1>2. 1 \in Int /\ n \in Int /\ \A i \in 1 .. n : q[i] \in S
    BY <1>1
  <1>3. /\ SubSeq(q, 1, n) \in Seq(S) /\ Len(SubSeq(q, 1, n)) = (IF 1 <= n THEN n - 1 + 1 ELSE 0)
        /\ \A i \in 1 .. n - 1 + 1 : SubSeq(q, 1, n)[i] = q[1 + i - 1]
    BY <1>2, SubSeqProperties
  <1>4. n + 1 \in Int /\ Len(q) \in Int /\ \A i \in n + 1 .. Len(q) : q[i] \in S
    BY <1>1
  <1>5. /\ SubSeq(q, n + 1, Len(q)) \in Seq(S)
        /\ Len(SubSeq(q, n + 1, Len(q))) = (IF n + 1 <= Len(q) THEN Len(q) - (n + 1) + 1 ELSE 0)
        /\ \A i \in 1 .. Len(q) - (n + 1) + 1 : SubSeq(q, n + 1, Len(q))[i] = q[n + 1 + i - 1]
    BY <1>4, SubSeqProperties
  <1> QED BY <1>1, <1>3, <1>5
-----------------------------------------------------------------------------

Consumed(k, n) == [k EXCEPT !.toServer = SubSeq(k.toServer, n + 1, Len(k.toServer))]

\* The three outcomes of a read of n tokens.
HeaderFails(w, q, n, w2) ==
  /\ w2 = w
  /\ q[1].kind # Expected(w.parsed) \/ (w.parsed = "start" /\ n > 1 /\ q[2].kind # "end")
HeaderLine(w, q, n, w2) ==
  /\ w.parsed = "start" /\ n = 1 /\ q[1].kind = "line"
  /\ w2 = LineRead(w, q[1])
HeaderEnds(w, q, n, w2) ==
  \E e \in {1, 2}, body \in Seq(Tokens) :
    /\ e = (IF w.parsed = "start" THEN 2 ELSE 1) /\ e <= n
    /\ w.parsed = "start" => q[1].kind = "line"
    /\ q[e].kind = "end"
    /\ Len(body) = IF n - e <= q[e].len THEN n - e ELSE q[e].len
    /\ \A i \in 1 .. Len(body) : body[i] = q[e + i]
    /\ w2 = HeaderRead(IF w.parsed = "start" THEN LineRead(w, q[1]) ELSE w, q[e], body)

\* The part of the body that was read with the header.
LEMMA BodyCut ==
  ASSUME NEW q \in Seq(Tokens), NEW n \in 1 .. Len(q), NEW e \in 1 .. n, q[e] \in Ends
  PROVE  LET tokens == SubSeq(q, 1, n)
             body == BodyInBuffer(SubSeq(tokens, e + 1, n), tokens[e].len)
         IN /\ body \in Seq(Tokens)
            /\ Len(body) = IF n - e <= q[e].len THEN n - e ELSE q[e].len
            /\ \A i \in 1 .. Len(body) : body[i] = q[e + i]
  <1> DEFINE tokens == SubSeq(q, 1, n)
             rest == SubSeq(tokens, e + 1, n)
             L == q[e].len
             m == Min({Len(rest), L})
  <1>1. Len(q) \in Nat /\ n \in 0 .. Len(q) /\ n \in Nat /\ e \in Nat
    BY LenProperties
  <1>2. /\ tokens \in Seq(Tokens) /\ Len(tokens) = n /\ \A i \in 1 .. n : tokens[i] = q[i]
    BY <1>1, Cut
  <1> HIDE DEF tokens
  <1>3. e \in 0 .. Len(tokens)
    BY <1>1, <1>2
  <1>4. rest \in Seq(Tokens) /\ Len(rest) = n - e /\ \A i \in 1 .. n - e : rest[i] = tokens[e + i]
    BY <1>2, <1>3, Cut
  <1> HIDE DEF rest
  <1>5. L \in Nat
    BY DEF Ends
  <1>6. m = IF n - e <= L THEN n - e ELSE L
    <2>1. Len(rest) \in Int /\ L \in Int
      BY <1>1, <1>4, <1>5
    <2>2. m = IF Len(rest) <= L THEN Len(rest) ELSE L
      BY <2>1, MinOfTwo
    <2> QED BY <2>2, <1>4
  <1>7. m \in 0 .. Len(rest)
    BY <1>1, <1>4, <1>5, <1>6
  <1>8. SubSeq(rest, 1, m) \in Seq(Tokens) /\ Len(SubSeq(rest, 1, m)) = m
        /\ \A i \in 1 .. m : SubSeq(rest, 1, m)[i] = rest[i]
    BY <1>4, <1>7, Cut
  <1>9. \A i \in 1 .. m : SubSeq(rest, 1, m)[i] = q[e + i]
    BY <1>1, <1>2, <1>4, <1>5, <1>6, <1>8
  <1>10. tokens[e] = q[e] /\ BodyInBuffer(rest, L) = SubSeq(rest, 1, m)
    BY <1>1, <1>2 DEF BodyInBuffer
  <1> QED BY <1>6, <1>8, <1>9, <1>10 DEF tokens, rest

LEMMA ReadHeaderMoves ==
  ASSUME OInv, NEW t \in WorkThreads, ReadHeader(t)
  PROVE  \E n \in 1 .. Len(Mine(t).toServer) : \E w2 :
           /\ Moves(t, w2, Consumed(Mine(t), n))
           /\ \/ HeaderFails(worker[t], Mine(t).toServer, n, w2)
              \/ HeaderLine(worker[t], Mine(t).toServer, n, w2)
              \/ HeaderEnds(worker[t], Mine(t).toServer, n, w2)
  <1> DEFINE w == worker[t]
             q == Mine(t).toServer
             end == IF w.parsed = "start" THEN 2 ELSE 1
             Tok(n) == SubSeq(q, 1, n)
             Bod(n) == BodyInBuffer(SubSeq(Tok(n), end + 1, n), Tok(n)[end].len)
  <1>0. w.pc = "header"
    BY DEF ReadHeader
  <1>1. PICK n \in Received(t, BufSize) :
          /\ Consume(t, n)
          /\ \/ Parse(w.parsed, Tok(n)) = "error" /\ worker' = worker
             \/ Parse(w.parsed, Tok(n)) = "line" /\ worker' = [worker EXCEPT ![t] = LineRead(w, Tok(n)[1])]
             \/ /\ Parse(w.parsed, Tok(n)) = "finished"
                /\ worker' = [worker EXCEPT ![t] = HeaderRead(
                     IF w.parsed = "start" THEN LineRead(w, Tok(n)[1]) ELSE w, Tok(n)[end], Bod(n))]
    BY Zenon DEF ReadHeader
  <1>2. /\ w \in WorkerType /\ worker[t].conn \in Conns /\ Mine(t) \in ConnType
        /\ q \in Seq(Tokens) /\ Len(q) \in Nat
    BY <1>0, AtWork
  <1>3. n \in 1 .. Len(q)
    BY <1>0, ReceivedFront, BoundsAssumption
  <1>4. conn' = [conn EXCEPT ![worker[t].conn] = Consumed(Mine(t), n)] /\ workTasks' = workTasks
    BY <1>1 DEF Consume, Consumed, Mine, ReadHeader, Unmoved
  <1>5. Tok(n) \in Seq(Tokens) /\ Len(Tok(n)) = n /\ \A i \in 1 .. n : Tok(n)[i] = q[i]
    BY <1>2, <1>3, Cut
  <1>6. Tok(n)[1] = q[1] /\ (n > 1 => Tok(n)[2] = q[2])
    BY <1>5, <1>3, <1>2
  <1>7. CASE Parse(w.parsed, Tok(n)) = "error" /\ worker' = worker
    <2>1. HeaderFails(w, q, n, w)
      BY <1>7, <1>2, <1>5, <1>6 DEF HeaderFails, Parse
    <2>2. worker' = [worker EXCEPT ![t] = w]
      BY <1>7 DEF OInv, Types
    <2> QED BY <1>3, <1>4, <2>1, <2>2, Zenon DEF Moves
  <1>8. CASE /\ Parse(w.parsed, Tok(n)) = "line" /\ worker' = [worker EXCEPT ![t] = LineRead(w, Tok(n)[1])]
    <2>1. HeaderLine(w, q, n, LineRead(w, q[1]))
      BY <1>8, <1>2, <1>5, <1>6 DEF HeaderLine, Parse, Expected
    <2>2. worker' = [worker EXCEPT ![t] = LineRead(w, q[1])]
      BY <1>8, <1>6, Zenon
    <2> QED BY <1>3, <1>4, <2>1, <2>2, Zenon DEF Moves
  <1>9. CASE /\ Parse(w.parsed, Tok(n)) = "finished"
             /\ worker' = [worker EXCEPT ![t] = HeaderRead(
                     IF w.parsed = "start" THEN LineRead(w, Tok(n)[1]) ELSE w, Tok(n)[end], Bod(n))]
    <2>1. /\ end \in {1, 2} /\ end <= n
          /\ w.parsed = "start" => q[1].kind = "line"
          /\ q[end].kind = "end" /\ q[end] = Tok(n)[end]
      BY <1>9, <1>2, <1>3, <1>5, <1>6 DEF Parse, Expected
    <2>2. q[end] \in Ends
      <3>1. q[end] \in Tokens
        BY <2>1, <1>2, <1>3, ElementOfSeq
      <3> QED BY <2>1, <3>1 DEF Tokens, Lines, Ends, Bytes
    <2>3. /\ Bod(n) \in Seq(Tokens)
          /\ Len(Bod(n)) = IF n - end <= q[end].len THEN n - end ELSE q[end].len
          /\ \A i \in 1 .. Len(Bod(n)) : Bod(n)[i] = q[end + i]
      BY <2>1, <2>2, <1>2, <1>3, BodyCut
    <2> DEFINE w2 == HeaderRead(IF w.parsed = "start" THEN LineRead(w, q[1]) ELSE w, q[end], Bod(n))
    <2>4. HeaderEnds(w, q, n, w2)
      BY <2>1, <2>3, Zenon DEF HeaderEnds
    <2>5. worker' = [worker EXCEPT ![t] = w2]
      BY <1>9, <1>6, <2>1, Zenon
    <2> QED BY <1>3, <1>4, <2>4, <2>5, Zenon DEF Moves
  <1> QED BY <1>1, <1>7, <1>8, <1>9
\* readFixSize: k tokens more of the body.
LEMMA ReadBodyMoves ==
  ASSUME OInv, NEW t \in WorkThreads, ReadBody(t)
  PROVE  \E n \in 1 .. Len(Mine(t).toServer) :
           /\ n <= worker[t].len - Len(worker[t].body)
           /\ Moves(t, BodyRead(worker[t], SubSeq(Mine(t).toServer, 1, n)), Consumed(Mine(t), n))
  <1>0. worker[t].pc = "body"
    BY DEF ReadBody
  <1>1. worker[t] \in WorkerType /\ worker[t].len \in Nat /\ Len(worker[t].body) \in Nat
    BY <1>0, AtWork, LenProperties DEF WorkerType
  <1>2. PICK n \in Received(t, worker[t].len - Len(worker[t].body)) :
          /\ Consume(t, n)
          /\ worker' = [worker EXCEPT ![t] = BodyRead(worker[t], SubSeq(Mine(t).toServer, 1, n))]
    BY Zenon DEF ReadBody
  <1>3. n \in 1 .. Len(Mine(t).toServer) /\ n <= worker[t].len - Len(worker[t].body)
    BY <1>0, <1>1, ReceivedFront
  <1>4. conn' = [conn EXCEPT ![worker[t].conn] = Consumed(Mine(t), n)] /\ workTasks' = workTasks
    BY <1>2 DEF Consume, Consumed, Mine, ReadBody, Unmoved
  <1> QED BY <1>2, <1>3, <1>4, Zenon DEF Moves

\* The rest changes one field or two.
Answering(w) == [w EXCEPT !.pc = "write", !.out = Response(w.req)]
Sends(w, n) == [w EXCEPT !.out = SubSeq(w.out, n + 1, Len(w.out))]
Gets(k, out, n) == [k EXCEPT !.got = IF k.closed THEN k.got ELSE k.got \o SubSeq(out, 1, n)]

LEMMA AnswerMoves ==
  ASSUME OInv, NEW t \in WorkThreads
  PROVE  /\ Dispatch(t) => \/ UNCHANGED <<conn, worker, workTasks>>
                           \/ Moves(t, Answering(worker[t]), Mine(t))
         /\ Write(t) => \E n \in 1 .. Len(worker[t].out) :
                           Moves(t, Sends(worker[t], n), Gets(Mine(t), worker[t].out, n))
         /\ WriteFails(t) => \/ UNCHANGED <<conn, worker, workTasks>>
                             \/ Moves(t, [worker[t] EXCEPT !.out = << >>], Mine(t))
         /\ Finish(t) => \/ Moves(t, NewWorker, [Mine(t) EXCEPT !.at = "done"])
                         \/ Moves(t, [NewWorker EXCEPT !.pc = "header", !.conn = worker[t].conn], Mine(t))
  <1>1. ASSUME conn' = conn, worker[t].pc # "idle" PROVE conn' = [conn EXCEPT ![worker[t].conn] = Mine(t)]
    BY <1>1, AtWork DEF OInv, Types, Mine
  <1>2. Dispatch(t) => \/ UNCHANGED <<conn, worker, workTasks>>
                       \/ Moves(t, Answering(worker[t]), Mine(t))
    BY <1>1 DEF Dispatch, Moves, Answering, Unmoved
  <1>3. Write(t) => \E n \in 1 .. Len(worker[t].out) :
                           Moves(t, Sends(worker[t], n), Gets(Mine(t), worker[t].out, n))
    BY DEF Write, Moves, Sends, Gets, Mine, Unmoved
  <1>4. WriteFails(t) => \/ UNCHANGED <<conn, worker, workTasks>>
                         \/ Moves(t, [worker[t] EXCEPT !.out = << >>], Mine(t))
    BY <1>1 DEF WriteFails, Moves, Unmoved
  <1>5. Finish(t) => \/ Moves(t, NewWorker, [Mine(t) EXCEPT !.at = "done"])
                     \/ Moves(t, [NewWorker EXCEPT !.pc = "header", !.conn = worker[t].conn], Mine(t))
    BY <1>1 DEF Finish, Moves, Mine, Unmoved
  <1> QED BY <1>2, <1>3, <1>4, <1>5
-----------------------------------------------------------------------------

\* A handler keeps its connection and the connection its descriptor, or both are
\* done with each other.
Proper(t, w, k) ==
  /\ w \in WorkerType /\ k \in ConnType
  /\ \/ w.pc # "idle" /\ w.conn = worker[t].conn /\ k.at = "served" /\ k.fd = Mine(t).fd
     \/ w.pc = "idle" /\ w.conn = 0 /\ k.at = "done"

LEMMA ProperStep ==
  ASSUME OInv, NEW t \in WorkThreads, worker[t].pc # "idle", NEW w, NEW k, Moves(t, w, k), Proper(t, w, k)
  PROVE  OInv'
  <1> DEFINE c == worker[t].conn
  <1>1. c \in Conns /\ c # 0 /\ conn[c].at = "served" /\ Mine(t) = conn[c]
    <2>1. c # 0
      BY DEF OInv, Owners
    <2> QED BY <2>1, AtWork DEF Mine
  <1>2. /\ worker' = [worker EXCEPT ![t] = w] /\ conn' = [conn EXCEPT ![c] = k] /\ workTasks' = workTasks
        /\ w \in WorkerType /\ k \in ConnType
    BY DEF Moves, Proper
  <1>3. \/ w.pc # "idle" /\ w.conn = c /\ k.at = "served" /\ k.fd = conn[c].fd
        \/ w.pc = "idle" /\ w.conn = 0 /\ k.at = "done"
    BY <1>1 DEF Proper
  <1> HIDE DEF c
  <1>4. Types'
    BY <1>1, <1>2 DEF OInv, Types
  <1>5. /\ DOMAIN worker = WorkThreads /\ DOMAIN conn = Conns /\ workTasks \in Seq(Conns)
        /\ \A i \in DOMAIN workTasks : workTasks[i] \in Conns
    BY ElementOfSeq, LenProperties DEF OInv, Types
  <1>6. Owners'
    <2>1. \A u \in WorkThreads \ {t} : worker[u].conn # c
      BY <1>1 DEF OInv, Owners, c
    <2> QED BY <1>1, <1>2, <1>3, <1>5, <2>1 DEF OInv, Owners, c
  <1>7. Queue'
    BY <1>1, <1>2, <1>3, <1>5 DEF OInv, Queue
  <1>8. Descriptors'
    BY <1>1, <1>2, <1>3, <1>5 DEF OInv, Descriptors, Taken
  <1> QED BY <1>4, <1>6, <1>7, <1>8 DEF OInv

\* Reading leaves a connection what it is.
LEMMA ConsumedType ==
  ASSUME NEW k \in ConnType, NEW n \in 1 .. Len(k.toServer)
  PROVE  /\ Consumed(k, n) \in ConnType
         /\ Consumed(k, n).at = k.at /\ Consumed(k, n).fd = k.fd /\ Consumed(k, n).sent = k.sent
         /\ Consumed(k, n).got = k.got /\ Consumed(k, n).closed = k.closed /\ Consumed(k, n).torn = k.torn
         /\ Consumed(k, n).toServer = SubSeq(k.toServer, n + 1, Len(k.toServer))
         /\ Consumed(k, n).toServer \in Seq(Tokens) /\ Len(Consumed(k, n).toServer) = Len(k.toServer) - n
         /\ \A i \in 1 .. Len(k.toServer) - n : Consumed(k, n).toServer[i] = k.toServer[n + i]
  <1>1. k.toServer \in Seq(Tokens) /\ Len(k.toServer) \in Nat
    BY LenProperties DEF ConnType
  <1>2. n \in 0 .. Len(k.toServer)
    BY <1>1
  <1>3. /\ SubSeq(k.toServer, n + 1, Len(k.toServer)) \in Seq(Tokens)
        /\ Len(SubSeq(k.toServer, n + 1, Len(k.toServer))) = Len(k.toServer) - n
        /\ \A i \in 1 .. Len(k.toServer) - n : SubSeq(k.toServer, n + 1, Len(k.toServer))[i] = k.toServer[n + i]
    BY <1>1, <1>2, Cut
  <1>4. Consumed(k, n) \in ConnType
    BY <1>3 DEF Consumed, ConnType
  <1>5. /\ Consumed(k, n).at = k.at /\ Consumed(k, n).fd = k.fd /\ Consumed(k, n).sent = k.sent
        /\ Consumed(k, n).got = k.got /\ Consumed(k, n).closed = k.closed /\ Consumed(k, n).torn = k.torn
        /\ Consumed(k, n).toServer = SubSeq(k.toServer, n + 1, Len(k.toServer))
    BY DEF Consumed, ConnType
  <1> QED BY <1>3, <1>4, <1>5

\* A lost length changes the first token only, and stays one.
LEMMA TornType ==
  ASSUME NEW k \in ConnType, NEW n \in Nat, k.toServer # << >>, k.toServer[1].kind = "end"
  PROVE  LET j == Torn(k, n) IN
         /\ j \in ConnType /\ j.at = k.at /\ j.fd = k.fd /\ j.sent = k.sent /\ j.got = k.got /\ j.closed = k.closed
         /\ j.torn = k.torn \cup {n}
         /\ j.toServer \in Seq(Tokens) /\ Len(j.toServer) = Len(k.toServer) /\ 1 \in 1 .. Len(k.toServer)
         /\ j.toServer[1].kind = "end" /\ j.toServer[1].req = k.toServer[1].req /\ j.toServer[1].len = 0
         /\ \A i \in 2 .. Len(k.toServer) : j.toServer[i] = k.toServer[i]
  <1> DEFINE q == k.toServer
             e == [q[1] EXCEPT !.len = 0]
             r == [q EXCEPT ![1] = e]
  <1>1. q \in Seq(Tokens) /\ Len(q) \in Nat /\ 1 \in 1 .. Len(q)
    BY EmptySeq, LenProperties DEF ConnType
  <1>2. q[1] \in Ends
    <2>1. q[1] \in Tokens
      BY <1>1, ElementOfSeq
    <2> QED BY <2>1 DEF Tokens, Lines, Ends, Bytes
  <1>3. e \in Ends /\ e.kind = "end" /\ e.req = q[1].req /\ e.len = 0
    BY <1>2 DEF Ends
  <1>4. e \in Tokens
    BY <1>3 DEF Tokens
  <1> HIDE DEF e
  <1>5. r \in Seq(Tokens) /\ Len(r) = Len(q) /\ r[1] = e /\ \A i \in 2 .. Len(q) : r[i] = q[i]
    BY <1>1, <1>4, ExceptSeq
  <1>6. Torn(k, n) = [k EXCEPT !.toServer = r, !.torn = k.torn \cup {n}]
    BY DEF Torn, e, ConnType
  <1> HIDE DEF r
  <1>7. k.torn \cup {n} \in SUBSET Nat
    BY DEF ConnType
  <1> QED BY <1>1, <1>3, <1>5, <1>6, <1>7, ZenonT(30) DEF ConnType

\* The records that the parser and the reader of the body leave.
LEMMA LineReadType ==
  ASSUME NEW w \in WorkerType, NEW l \in Lines
  PROVE  LET v == LineRead(w, l) IN
         /\ v \in WorkerType /\ v.pc = w.pc /\ v.conn = w.conn /\ v.parsed = "line" /\ v.req = l.req
  BY DEF WorkerType, Lines, LineRead

LEMMA HeaderReadType ==
  ASSUME NEW w \in WorkerType, NEW e \in Ends, NEW b \in Seq(Tokens)
  PROVE  LET v == HeaderRead(w, e, b) IN
         /\ v \in WorkerType /\ v.conn = w.conn /\ v.req = w.req /\ v.len = e.len /\ v.body = b
         /\ v.pc = IF Len(b) < e.len THEN "body" ELSE "handle"
  BY DEF WorkerType, Ends, HeaderRead

LEMMA BodyReadType ==
  ASSUME NEW w \in WorkerType, NEW b \in Seq(Tokens)
  PROVE  LET v == BodyRead(w, b) IN
         /\ v \in WorkerType /\ v.conn = w.conn /\ v.req = w.req /\ v.len = w.len
         /\ v.body = w.body \o b
         /\ v.pc = IF Len(w.body) + Len(b) = w.len THEN "handle" ELSE "body"
  <1>1. w.body \o b \in Seq(Tokens)
    BY ConcatProperties DEF WorkerType
  <1> QED BY <1>1 DEF WorkerType, BodyRead

LEMMA ResponseType ==
  ASSUME NEW n \in Nat
  PROVE  /\ Response(n) \in Seq(Answers) /\ Len(Response(n)) = 2
         /\ Response(n)[1] = [req |-> n, part |-> 1] /\ Response(n)[2] = [req |-> n, part |-> 2]
  BY DEF Response, Answers
\* Which of them a step of handleClient leaves.
LEMMA HeaderProper ==
  ASSUME OInv, NEW t \in WorkThreads, worker[t].pc = "header", NEW n \in 1 .. Len(Mine(t).toServer), NEW w,
         \/ HeaderFails(worker[t], Mine(t).toServer, n, w)
         \/ HeaderLine(worker[t], Mine(t).toServer, n, w)
         \/ HeaderEnds(worker[t], Mine(t).toServer, n, w)
  PROVE  Proper(t, w, Consumed(Mine(t), n))
  <1> DEFINE q == Mine(t).toServer
             v == worker[t]
  <1>1. v \in WorkerType /\ Mine(t) \in ConnType /\ Mine(t).at = "served" /\ q \in Seq(Tokens) /\ Len(q) \in Nat
    BY AtWork
  <1>2. /\ Consumed(Mine(t), n) \in ConnType /\ Consumed(Mine(t), n).at = "served"
        /\ Consumed(Mine(t), n).fd = Mine(t).fd
    BY <1>1, ConsumedType
  <1>3. \A i \in 1 .. n : q[i] \in Tokens
    BY <1>1, ElementOfSeq
  <1>4. \A x \in Tokens : (x.kind = "line" => x \in Lines) /\ (x.kind = "end" => x \in Ends)
    BY DEF Tokens, Lines, Ends, Bytes
  <1>5. w \in WorkerType /\ w.pc # "idle" /\ w.conn = v.conn
    <2>1. CASE HeaderFails(v, q, n, w)
      BY <2>1, <1>1 DEF HeaderFails
    <2>2. CASE HeaderLine(v, q, n, w)
      <3>1. w = LineRead(v, q[1]) /\ q[1] \in Lines
        BY <2>2, <1>3, <1>4 DEF HeaderLine
      <3> QED BY <3>1, <1>1, LineReadType
    <2>3. CASE HeaderEnds(v, q, n, w)
      <3>1. PICK e \in {1, 2}, body \in Seq(Tokens) :
              /\ e = (IF v.parsed = "start" THEN 2 ELSE 1) /\ e <= n
              /\ v.parsed = "start" => q[1].kind = "line"
              /\ q[e].kind = "end"
              /\ w = HeaderRead(IF v.parsed = "start" THEN LineRead(v, q[1]) ELSE v, q[e], body)
        BY <2>3, Zenon DEF HeaderEnds
      <3>2. q[e] \in Ends /\ (v.parsed = "start" => q[1] \in Lines)
        BY <3>1, <1>3, <1>4
      <3>3. PICK u \in WorkerType : u = (IF v.parsed = "start" THEN LineRead(v, q[1]) ELSE v) /\ u.conn = v.conn
        BY <3>2, <1>1, LineReadType
      <3>4. w = HeaderRead(u, q[e], body)
        BY <3>1, <3>3, Zenon
      <3> QED BY <3>2, <3>3, <3>4, HeaderReadType
    <2> QED BY <2>1, <2>2, <2>3
  <1> QED BY <1>2, <1>5 DEF Proper

LEMMA BodyProper ==
  ASSUME OInv, NEW t \in WorkThreads, worker[t].pc = "body", NEW n \in 1 .. Len(Mine(t).toServer)
  PROVE  Proper(t, BodyRead(worker[t], SubSeq(Mine(t).toServer, 1, n)), Consumed(Mine(t), n))
  <1>1. /\ worker[t] \in WorkerType /\ Mine(t) \in ConnType /\ Mine(t).at = "served"
        /\ Mine(t).toServer \in Seq(Tokens) /\ Len(Mine(t).toServer) \in Nat
    BY AtWork
  <1>2. n \in 0 .. Len(Mine(t).toServer)
    BY <1>1
  <1>3. SubSeq(Mine(t).toServer, 1, n) \in Seq(Tokens)
    BY <1>1, <1>2, Cut
  <1> QED BY <1>1, <1>3, BodyReadType, ConsumedType DEF Proper

LEMMA GetsType ==
  ASSUME NEW w \in WorkerType, NEW k \in ConnType, NEW n \in 1 .. Len(w.out)
  PROVE  /\ Sends(w, n) \in WorkerType /\ Sends(w, n).pc = w.pc /\ Sends(w, n).conn = w.conn
         /\ Gets(k, w.out, n) \in ConnType /\ Gets(k, w.out, n).at = k.at /\ Gets(k, w.out, n).fd = k.fd
  <1>1. w.out \in Seq(Answers) /\ Len(w.out) \in Nat /\ k.got \in Seq(Answers)
    BY LenProperties DEF WorkerType, ConnType
  <1>2. n \in 0 .. Len(w.out)
    BY <1>1
  <1>3. SubSeq(w.out, 1, n) \in Seq(Answers) /\ SubSeq(w.out, n + 1, Len(w.out)) \in Seq(Answers)
    BY <1>1, <1>2, Cut
  <1>4. k.got \o SubSeq(w.out, 1, n) \in Seq(Answers)
    BY <1>1, <1>3, ConcatProperties
  <1>5. Sends(w, n) \in WorkerType /\ Sends(w, n).pc = w.pc /\ Sends(w, n).conn = w.conn
    BY <1>3 DEF Sends, WorkerType
  <1>6. Gets(k, w.out, n) \in ConnType /\ Gets(k, w.out, n).at = k.at /\ Gets(k, w.out, n).fd = k.fd
    BY <1>1, <1>4 DEF Gets, ConnType
  <1> QED BY <1>5, <1>6

LEMMA AnswerProper ==
  ASSUME OInv, NEW t \in WorkThreads, worker[t].pc # "idle"
  PROVE  /\ Proper(t, Answering(worker[t]), Mine(t))
         /\ \A n \in 1 .. Len(worker[t].out) : Proper(t, Sends(worker[t], n), Gets(Mine(t), worker[t].out, n))
         /\ Proper(t, [worker[t] EXCEPT !.out = << >>], Mine(t))
         /\ Proper(t, NewWorker, [Mine(t) EXCEPT !.at = "done"])
         /\ Proper(t, [NewWorker EXCEPT !.pc = "header", !.conn = worker[t].conn], Mine(t))
  <1>1. worker[t] \in WorkerType /\ Mine(t) \in ConnType /\ Mine(t).at = "served" /\ worker[t].conn \in Conns
    BY AtWork
  <1>2. Proper(t, Answering(worker[t]), Mine(t))
    <2>1. Response(worker[t].req) \in Seq(Answers)
      BY <1>1, ResponseType DEF WorkerType
    <2> QED BY <1>1, <2>1 DEF Proper, Answering, WorkerType
  <1>3. ASSUME NEW n \in 1 .. Len(worker[t].out)
        PROVE  Proper(t, Sends(worker[t], n), Gets(Mine(t), worker[t].out, n))
    BY <1>1, GetsType DEF Proper
  <1>4. Proper(t, [worker[t] EXCEPT !.out = << >>], Mine(t))
    BY <1>1, EmptySeq DEF Proper, WorkerType
  <1>5. Proper(t, NewWorker, [Mine(t) EXCEPT !.at = "done"])
    BY <1>1, EmptySeq DEF Proper, WorkerType, ConnType, NewWorker
  <1>6. Proper(t, [NewWorker EXCEPT !.pc = "header", !.conn = worker[t].conn], Mine(t))
    BY <1>1, EmptySeq DEF Proper, WorkerType, NewWorker
  <1> QED BY <1>2, <1>3, <1>4, <1>5, <1>6

\* A read that ends within a line.
LEMMA TearMoves ==
  ASSUME OInv, NEW t \in WorkThreads, ReadPartOfHeader(t)
  PROVE  /\ worker[t].pc = "header" /\ worker[t].parsed = "line" /\ worker[t].req \in Nat
         /\ Mine(t).toServer # << >> /\ Mine(t).toServer[1].kind = "end"
         /\ Moves(t, worker[t], Torn(Mine(t), worker[t].req))
         /\ Proper(t, worker[t], Torn(Mine(t), worker[t].req))
  <1>1. /\ worker[t].pc = "header" /\ worker[t].parsed = "line"
        /\ Mine(t).toServer # << >> /\ Mine(t).toServer[1].kind = "end"
    BY DEF ReadPartOfHeader
  <1>2. /\ worker[t] \in WorkerType /\ Mine(t) \in ConnType /\ Mine(t).at = "served" /\ worker[t].req \in Nat
        /\ worker \in [WorkThreads -> WorkerType]
    BY <1>1, AtWork DEF OInv, Types, WorkerType
  <1>3. worker' = [worker EXCEPT ![t] = worker[t]]
    BY <1>2 DEF ReadPartOfHeader
  <1>4. Moves(t, worker[t], Torn(Mine(t), worker[t].req))
    BY <1>3 DEF ReadPartOfHeader, Moves, Unmoved
  <1>5. Proper(t, worker[t], Torn(Mine(t), worker[t].req))
    BY <1>1, <1>2, TornType DEF Proper
  <1> QED BY <1>1, <1>2, <1>4, <1>5
-----------------------------------------------------------------------------
(* The steps of the clients and of the queue. *)

\* The client of c changes its connection to k.
ClientMoves(c, k) ==
  /\ conn' = [conn EXCEPT ![c] = k]
  /\ UNCHANGED <<worker, workTasks>>

\* A request, token by token.
LEMMA RequestTokens ==
  ASSUME NEW n \in Nat, NEW len \in Nat
  PROVE  LET r == Request(n, len) IN
         /\ r \in Seq(Tokens) /\ Len(r) = 2 + len
         /\ r[1] = [kind |-> "line", req |-> n]
         /\ r[2] = [kind |-> "end", req |-> n, len |-> len]
         /\ \A i \in 1 .. len : r[2 + i] = Byte(n, i)
  <1> DEFINE a == <<[kind |-> "line", req |-> n],
                    [kind |-> "end", req |-> n, len |-> len]>>
             b == [i \in 1 .. len |-> Byte(n, i)]
  <1>1. a \in Seq(Tokens) /\ Len(a) = 2
    BY DEF Tokens, Lines, Ends
  <1>2. \A i \in 1 .. len : Byte(n, i) \in Tokens
    BY DEF Byte, Tokens, Bytes
  <1>3. b \in Seq(Tokens) /\ Len(b) = len /\ \A i \in 1 .. len : b[i] = Byte(n, i)
    BY <1>2, IsASeq
  <1>4. /\ a \o b \in Seq(Tokens) /\ Len(a \o b) = Len(a) + Len(b)
        /\ \A i \in 1 .. Len(a) + Len(b) : (a \o b)[i] = IF i <= Len(a) THEN a[i] ELSE b[i - Len(a)]
    BY <1>1, <1>3, ConcatProperties
  <1>5. /\ a[1] = [kind |-> "line", req |-> n]
        /\ a[2] = [kind |-> "end", req |-> n, len |-> len]
    OBVIOUS
  <1>6. Request(n, len) = a \o b
    BY DEF Request, Byte
  <1> HIDE DEF a, b
  <1> QED BY <1>1, <1>3, <1>4, <1>5, <1>6

\* j is k with a request more, of len bytes.
OneMore(j, k, len) ==
  /\ k \in ConnType /\ len \in Nat
  /\ j = Sent(k, len)

LEMMA SentTokens ==
  ASSUME NEW k, NEW len, NEW j, OneMore(j, k, len)
  PROVE  /\ j \in ConnType /\ j.at = k.at /\ j.fd = k.fd /\ j.got = k.got /\ j.closed = k.closed
         /\ j.torn = k.torn /\ j.sent = Append(k.sent, len)
         /\ j.toServer = k.toServer \o Request(Len(k.sent) + 1, len)
  <1>0. k \in ConnType /\ len \in Nat /\ j = Sent(k, len)
    BY DEF OneMore
  <1>1. Append(k.sent, len) \in Seq(Nat) /\ Len(k.sent) \in Nat
    BY <1>0, AppendProperties, LenProperties DEF ConnType
  <1>2. Request(Len(k.sent) + 1, len) \in Seq(Tokens)
    <2>1. PICK m \in Nat : m = Len(k.sent) + 1
      BY <1>1
    <2>2. Request(m, len) \in Seq(Tokens)
      BY <1>0, RequestTokens
    <2> QED BY <2>1, <2>2
  <1>3. k.toServer \o Request(Len(k.sent) + 1, len) \in Seq(Tokens)
    BY <1>0, <1>2, ConcatProperties DEF ConnType
  <1>4. /\ j \in ConnType /\ j.at = k.at /\ j.fd = k.fd /\ j.got = k.got /\ j.closed = k.closed
        /\ j.torn = k.torn /\ j.sent = Append(k.sent, len)
        /\ j.toServer = k.toServer \o Request(Len(k.sent) + 1, len)
    BY <1>0, <1>1, <1>3 DEF Sent, ConnType
  <1> QED BY <1>4

LEMMA SentType ==
  ASSUME NEW k, NEW len, NEW j, OneMore(j, k, len)
  PROVE  j \in ConnType /\ j.at = k.at /\ j.fd = k.fd /\ j.got = k.got /\ j.closed = k.closed
  BY SentTokens, ZenonT(30)

LEMMA ClientTypes ==
  ASSUME OInv, NEW c \in Conns
  PROVE  /\ \A l \in Listeners : Connect(c, l) => ClientMoves(c, [conn[c] EXCEPT !.at = "backlog", !.listener = l])
         /\ Send(c) => \E len \in Lengths : \E j : OneMore(j, conn[c], len) /\ ClientMoves(c, j)
         /\ ClientCloses(c) => ClientMoves(c, [conn[c] EXCEPT !.closed = TRUE])
  <1>1. ASSUME NEW l \in Listeners, Connect(c, l)
        PROVE  ClientMoves(c, [conn[c] EXCEPT !.at = "backlog", !.listener = l])
    BY <1>1 DEF Connect, ClientMoves, Unmoved
  <1>2. ASSUME Send(c)
        PROVE  \E len \in Lengths : \E j : OneMore(j, conn[c], len) /\ ClientMoves(c, j)
    <2>1. PICK len \in Lengths :
            conn' = [conn EXCEPT ![c] = Sent(conn[c], len)]
      BY <1>2, Zenon DEF Send
    <2>2. UNCHANGED <<worker, workTasks>>
      BY <1>2 DEF Send, Unmoved
    <2>3. len \in Nat /\ conn[c] \in ConnType
      BY BoundsAssumption DEF OInv, Types
    <2> QED BY <2>1, <2>2, <2>3, Zenon DEF ClientMoves, OneMore
  <1>3. ASSUME ClientCloses(c) PROVE ClientMoves(c, [conn[c] EXCEPT !.closed = TRUE])
    BY <1>3 DEF ClientCloses, ClientMoves, Unmoved
  <1> QED BY <1>1, <1>2, <1>3

\* A client does not change who serves it.
LEMMA ClientStep ==
  ASSUME OInv, NEW c \in Conns, NEW k \in ConnType, ClientMoves(c, k),
         \/ k.at = conn[c].at /\ k.fd = conn[c].fd
         \/ conn[c].at = "none" /\ k.at = "backlog"
  PROVE  OInv'
  <1>1. conn' = [conn EXCEPT ![c] = k] /\ worker' = worker /\ workTasks' = workTasks
    BY DEF ClientMoves
  <1>2. DOMAIN conn = Conns /\ \A i \in DOMAIN workTasks : workTasks[i] \in Conns
    BY ElementOfSeq, LenProperties DEF OInv, Types
  <1>3. \A t \in WorkThreads : worker[t].conn # 0 => worker[t].conn \in Conns
    BY DEF OInv, Types, WorkerType
  <1>4. Types'
    BY <1>1 DEF OInv, Types
  <1>5. Owners'
    BY <1>1, <1>2, <1>3 DEF OInv, Owners
  <1>6. Queue'
    BY <1>1, <1>2 DEF OInv, Queue
  <1>7. Descriptors'
    BY <1>1, <1>2 DEF OInv, Descriptors, Taken
  <1> QED BY <1>4, <1>5, <1>6, <1>7 DEF OInv

\* accept() gives the connection a free number and queues its handler.
Accepted(k, fd, nonblock) == [k EXCEPT !.at = "queued", !.fd = fd, !.nonblock = nonblock]

LEMMA AcceptStep ==
  ASSUME OInv, NEW t \in AcceptThreads, NEW c \in Conns, Accept(t, c)
  PROVE  OInv' /\ \E k \in ConnType :
           /\ conn' = [conn EXCEPT ![c] = k] /\ worker' = worker
           /\ k.at = "queued" /\ k.toServer = conn[c].toServer /\ k.sent = conn[c].sent
           /\ k.got = conn[c].got /\ k.closed = conn[c].closed /\ k.torn = conn[c].torn /\ conn[c].at = "backlog"
  <1>1. /\ conn[c].at = "backlog" /\ worker' = worker /\ workTasks' = Append(workTasks, c)
        /\ conn' = [conn EXCEPT ![c] = [conn[c] EXCEPT !.at = "queued", !.fd = LowestFd,
                                            !.nonblock = LowestFd \notin contexts]]
    BY DEF Accept
  <1>2. LowestFd \in 1 .. Cardinality(Conns) /\ \A d \in Conns : Taken(d) => conn[d].fd # LowestFd
    BY <1>1, LowestIsFree DEF Taken
  <1>3. LowestFd \in Nat
    BY <1>2, ConnsAssumption, FS_CardinalityType
  <1>4. PICK k \in ConnType : /\ conn' = [conn EXCEPT ![c] = k]
                              /\ k.at = "queued" /\ k.fd = LowestFd
                              /\ k.toServer = conn[c].toServer /\ k.sent = conn[c].sent
                              /\ k.got = conn[c].got /\ k.closed = conn[c].closed /\ k.torn = conn[c].torn
    <2>1. PICK nonblock \in BOOLEAN : nonblock = (LowestFd \notin contexts)
      OBVIOUS
    <2>2. conn[c] \in ConnType
      BY DEF OInv, Types
    <2> DEFINE k == Accepted(conn[c], LowestFd, nonblock)
    <2>3. k \in ConnType /\ k.at = "queued" /\ k.fd = LowestFd
          /\ k.toServer = conn[c].toServer /\ k.sent = conn[c].sent
          /\ k.got = conn[c].got /\ k.closed = conn[c].closed /\ k.torn = conn[c].torn
      BY <1>3, <2>2 DEF Accepted, ConnType
    <2>4. conn' = [conn EXCEPT ![c] = k]
      BY <1>1, <2>1, Zenon DEF Accepted
    <2> HIDE DEF k
    <2> QED BY <2>3, <2>4
  <1>5. /\ workTasks \in Seq(Conns) /\ Len(workTasks) \in Nat /\ DOMAIN workTasks = 1 .. Len(workTasks)
        /\ workTasks' \in Seq(Conns) /\ DOMAIN workTasks' = 1 .. Len(workTasks) + 1
        /\ \A i \in 1 .. Len(workTasks) : workTasks'[i] = workTasks[i] /\ workTasks[i] \in Conns
        /\ workTasks'[Len(workTasks) + 1] = c
    BY <1>1, AppendProperties, LenProperties, ElementOfSeq DEF OInv, Types
  <1>6. \A i \in DOMAIN workTasks : workTasks[i] # c
    BY <1>1 DEF OInv, Queue
  <1>7. DOMAIN conn = Conns /\ \A u \in WorkThreads : worker[u].conn # 0 => worker[u].conn \in Conns /\ worker[u].conn # c
    BY <1>1 DEF OInv, Types, WorkerType, Owners
  <1>8. Types'
    BY <1>1, <1>4, <1>5 DEF OInv, Types
  <1>9. Owners'
    BY <1>1, <1>4, <1>7 DEF OInv, Owners
  <1>10. Queue'
    BY <1>4, <1>5, <1>6, <1>7 DEF OInv, Queue
  <1>11. Descriptors'
    BY <1>1, <1>2, <1>4, <1>7 DEF OInv, Descriptors, Taken
  <1> QED BY <1>1, <1>4, <1>8, <1>9, <1>10, <1>11 DEF OInv

\* A handler takes the first connection of the queue.
LEMMA TakeClientStep ==
  ASSUME OInv, NEW t \in WorkThreads, TakeClient(t)
  PROVE  OInv' /\ \E c \in Conns, k \in ConnType, w \in WorkerType :
           /\ conn' = [conn EXCEPT ![c] = k] /\ worker' = [worker EXCEPT ![t] = w]
           /\ conn[c].at = "queued" /\ k.at = "served" /\ k.toServer = conn[c].toServer
           /\ k.sent = conn[c].sent /\ k.got = conn[c].got /\ k.closed = conn[c].closed /\ k.torn = conn[c].torn
           /\ w.pc = "header" /\ w.parsed = "start" /\ w.conn = c /\ worker[t].pc = "idle"
  <1> DEFINE c == Head(workTasks)
             w == [NewWorker EXCEPT !.pc = "header", !.conn = c]
             k == [conn[c] EXCEPT !.at = "served"]
  <1>1. /\ worker[t].pc = "idle" /\ workTasks # << >>
        /\ worker' = [worker EXCEPT ![t] = w] /\ conn' = [conn EXCEPT ![c] = k]
        /\ workTasks' = Tail(workTasks)
    BY DEF TakeClient
  <1>2. /\ workTasks \in Seq(Conns) /\ Len(workTasks) \in Nat \ {0} /\ DOMAIN workTasks = 1 .. Len(workTasks)
        /\ c \in Conns /\ c = workTasks[1] /\ workTasks' \in Seq(Conns)
        /\ DOMAIN workTasks' = 1 .. Len(workTasks) - 1
        /\ \A i \in 1 .. Len(workTasks) - 1 : workTasks'[i] = workTasks[i + 1]
    BY <1>1, HeadTailProperties, LenProperties, EmptySeq DEF OInv, Types
  <1>3. conn[c].at = "queued"
    BY <1>2 DEF OInv, Queue
  <1>4. /\ k \in ConnType /\ k.at = "served" /\ k.toServer = conn[c].toServer /\ k.fd = conn[c].fd
        /\ k.sent = conn[c].sent /\ k.got = conn[c].got /\ k.closed = conn[c].closed /\ k.torn = conn[c].torn
    <2>1. conn[c] \in ConnType
      BY <1>2 DEF OInv, Types
    <2> QED BY ONLY <2>1 DEF ConnType
  <1>5. w \in WorkerType /\ w.pc = "header" /\ w.parsed = "start" /\ w.conn = c
    BY <1>2, EmptySeq DEF NewWorker, WorkerType
  <1>6. c # 0
    BY <1>2, ConnsAssumption, FS_CardinalityType
  <1> HIDE DEF c, k, w
  <1>7. /\ DOMAIN conn = Conns /\ DOMAIN worker = WorkThreads
        /\ \A u \in WorkThreads : worker[u].conn # 0 => worker[u].conn \in Conns /\ worker[u].conn # c
    BY <1>3 DEF OInv, Types, WorkerType, Owners
  <1>8. Types'
    BY <1>1, <1>2, <1>4, <1>5 DEF OInv, Types
  <1>9. Owners'
    <2>1. worker'[t] = w /\ \A u \in WorkThreads \ {t} : worker'[u] = worker[u]
      BY <1>1, <1>7
    <2>2. conn'[c] = k /\ \A d \in Conns \ {c} : conn'[d] = conn[d]
      BY <1>1, <1>2, <1>7
    <2>3. worker[t].conn = 0
      BY <1>1 DEF OInv, Owners
    <2>4. \A u \in WorkThreads : worker'[u].pc = "idle" <=> worker'[u].conn = 0
      BY <2>1, <1>5, <1>6 DEF OInv, Owners
    <2>5. \A u \in WorkThreads : worker'[u].conn # 0 => conn'[worker'[u].conn].at = "served"
      BY <2>1, <2>2, <1>4, <1>5, <1>7 DEF OInv, Owners
    <2>6. \A u, v \in WorkThreads : worker'[u].conn = worker'[v].conn /\ worker'[u].conn # 0 => u = v
      BY <2>1, <1>5, <1>6, <1>7 DEF OInv, Owners
    <2>7. \A d \in Conns : conn'[d].at = "served" => \E u \in WorkThreads : worker'[u].conn = d
      <3> SUFFICES ASSUME NEW d \in Conns, d # c, conn'[d].at = "served"
                   PROVE  \E u \in WorkThreads : worker'[u].conn = d
        BY <2>1, <1>5
      <3>1. PICK u \in WorkThreads : worker[u].conn = d
        BY <2>2 DEF OInv, Owners
      <3>2. u # t
        BY <3>1, <2>3, ConnsAssumption, FS_CardinalityType
      <3> QED BY <3>1, <3>2, <2>1
    <2> QED BY <2>4, <2>5, <2>6, <2>7 DEF Owners
  <1>10. Queue'
    <2>1. \A i \in DOMAIN workTasks' : workTasks'[i] # c /\ workTasks'[i] \in Conns /\ workTasks'[i] = workTasks[i + 1]
              /\ i + 1 \in DOMAIN workTasks
      BY <1>2, ElementOfSeq DEF OInv, Queue
    <2>2. \A i, j \in DOMAIN workTasks' : workTasks'[i] = workTasks'[j] => i = j
      BY <1>2, <2>1 DEF OInv, Queue
    <2>3. \A i \in DOMAIN workTasks' : conn'[workTasks'[i]].at = "queued"
      BY <1>1, <1>7, <2>1 DEF OInv, Queue
    <2>4. ASSUME NEW d \in Conns, conn'[d].at = "queued" PROVE \E i \in DOMAIN workTasks' : workTasks'[i] = d
      <3>1. d # c /\ conn[d].at = "queued"
        BY <2>4, <1>1, <1>2, <1>4, <1>7
      <3>2. PICK i \in DOMAIN workTasks : workTasks[i] = d
        BY <3>1 DEF OInv, Queue
      <3>3. i # 1 /\ i - 1 \in DOMAIN workTasks' /\ workTasks'[i - 1] = workTasks[i]
        BY <3>1, <3>2, <1>2
      <3> QED BY <3>2, <3>3
    <2> QED BY <2>2, <2>3, <2>4 DEF Queue
  <1>11. Descriptors'
    BY <1>1, <1>2, <1>3, <1>4, <1>7 DEF OInv, Descriptors, Taken
  <1> QED BY <1>1, <1>2, <1>3, <1>4, <1>5, <1>8, <1>9, <1>10, <1>11 DEF OInv
-----------------------------------------------------------------------------

LEMMA OInit == Init => OInv
  <1> SUFFICES ASSUME Init PROVE OInv
    OBVIOUS
  <1>1. NewConn \in ConnType /\ NewConn.at = "none"
    BY EmptySeq DEF NewConn, ConnType
  <1>2. NewWorker \in WorkerType /\ NewWorker.pc = "idle" /\ NewWorker.conn = 0
    BY EmptySeq DEF NewWorker, WorkerType
  <1>3. workTasks = << >> /\ workTasks \in Seq(Conns) /\ DOMAIN workTasks = {}
    BY EmptySeq DEF Init
  <1>4. \A c \in Conns : conn[c] = NewConn
    BY DEF Init
  <1>5. \A t \in WorkThreads : worker[t] = NewWorker
    BY DEF Init
  <1>6. Types
    BY <1>1, <1>2, <1>3 DEF Init, Types
  <1> HIDE DEF Init
  <1> QED BY <1>1, <1>2, <1>3, <1>4, <1>5, <1>6 DEF OInv, Owners, Queue, Descriptors, Taken

\* Steps that do not touch the connections.
LEMMA ElsewhereSteps ==
  ASSUME \/ UNCHANGED vars \/ (\E l \in Listeners : Bind(l)) \/ SetGlobals \/ Start \/ Stop
         \/ \E t \in AcceptThreads : TakeTask(t) \/ TestStop(t)
  PROVE  UNCHANGED <<conn, worker, workTasks>>
  BY DEF vars, server, Bind, SetGlobals, Start, Stop, TakeTask, TestStop

LEMMA OUnchanged ==
  ASSUME OInv, UNCHANGED <<conn, worker, workTasks>> PROVE OInv'
  BY DEF OInv, Types, Owners, Queue, Descriptors, Taken

LEMMA OWork ==
  ASSUME OInv, NEW t \in WorkThreads, Work(t) PROVE OInv'
  <1>1. CASE TakeClient(t)
    BY <1>1, TakeClientStep
  <1>2. CASE ReadHeader(t)
    <2>0. PICK n \in 1 .. Len(Mine(t).toServer) : \E w :
           /\ Moves(t, w, Consumed(Mine(t), n))
           /\ \/ HeaderFails(worker[t], Mine(t).toServer, n, w)
              \/ HeaderLine(worker[t], Mine(t).toServer, n, w)
              \/ HeaderEnds(worker[t], Mine(t).toServer, n, w)
      BY <1>2, ReadHeaderMoves
    <2>1. PICK w :
           /\ Moves(t, w, Consumed(Mine(t), n))
           /\ \/ HeaderFails(worker[t], Mine(t).toServer, n, w)
              \/ HeaderLine(worker[t], Mine(t).toServer, n, w)
              \/ HeaderEnds(worker[t], Mine(t).toServer, n, w)
      BY <2>0
    <2>2. worker[t].pc = "header"
      BY <1>2 DEF ReadHeader
    <2> QED BY <2>1, <2>2, HeaderProper, ProperStep
  <1>3. CASE ReadBody(t)
    <2>1. worker[t].pc = "body"
      BY <1>3 DEF ReadBody
    <2> QED BY <1>3, <2>1, ReadBodyMoves, BodyProper, ProperStep
  <1>4. CASE ReadFails(t) \/ ReadPartOfLine(t)
    BY <1>4, OUnchanged DEF ReadFails, ReadPartOfLine, Unmoved
  <1>6. CASE ReadPartOfHeader(t)
    BY <1>6, TearMoves, ProperStep
  <1>5. CASE Dispatch(t) \/ Write(t) \/ WriteFails(t) \/ Finish(t)
    <2>1. worker[t].pc # "idle"
      BY <1>5 DEF Dispatch, Write, WriteFails, Finish
    <2>2. CASE Dispatch(t)
      BY <2>1, <2>2, AnswerMoves, AnswerProper, ProperStep, OUnchanged
    <2>3. CASE Write(t)
      BY <2>1, <2>3, AnswerMoves, AnswerProper, ProperStep
    <2>4. CASE WriteFails(t)
      BY <2>1, <2>4, AnswerMoves, AnswerProper, ProperStep, OUnchanged
    <2>5. CASE Finish(t)
      BY <2>1, <2>5, AnswerMoves, AnswerProper, ProperStep
    <2> QED BY <1>5, <2>2, <2>3, <2>4, <2>5
  <1> QED BY <1>1, <1>2, <1>3, <1>4, <1>5, <1>6 DEF Work

LEMMA OClient ==
  ASSUME OInv, NEW c \in Conns, Send(c) \/ ClientCloses(c) \/ \E l \in Listeners : Connect(c, l)
  PROVE  OInv'
  <1>1. conn[c] \in ConnType
    BY DEF OInv, Types
  <1>2. ASSUME NEW l \in Listeners, Connect(c, l) PROVE OInv'
    <2>1. ClientMoves(c, [conn[c] EXCEPT !.at = "backlog", !.listener = l]) /\ conn[c].at = "none"
      BY <1>2, ClientTypes DEF Connect
    <2>2. /\ [conn[c] EXCEPT !.at = "backlog", !.listener = l] \in ConnType
          /\ [conn[c] EXCEPT !.at = "backlog", !.listener = l].at = "backlog"
      BY <1>1 DEF ConnType
    <2> QED BY <2>1, <2>2, ClientStep
  <1>3. ASSUME Send(c) PROVE OInv'
    <2>0. PICK len \in Lengths : \E j : OneMore(j, conn[c], len) /\ ClientMoves(c, j)
      BY <1>3, ClientTypes
    <2>1. PICK j : OneMore(j, conn[c], len) /\ ClientMoves(c, j)
      BY <2>0
    <2>2. PICK k : k = conn[c] /\ OneMore(j, k, len)
      BY <2>1
    <2>3. j \in ConnType /\ j.at = k.at /\ j.fd = k.fd
      BY ONLY <2>2, SentType
    <2> QED BY ONLY <2>1, <2>2, <2>3, ClientStep, OInv, c \in Conns
  <1>4. ASSUME ClientCloses(c) PROVE OInv'
    <2>1. ClientMoves(c, [conn[c] EXCEPT !.closed = TRUE])
      BY <1>4, ClientTypes
    <2>2. /\ [conn[c] EXCEPT !.closed = TRUE] \in ConnType /\ [conn[c] EXCEPT !.closed = TRUE].at = conn[c].at
          /\ [conn[c] EXCEPT !.closed = TRUE].fd = conn[c].fd
      BY <1>1 DEF ConnType
    <2> QED BY <2>1, <2>2, ClientStep
  <1> QED BY <1>2, <1>3, <1>4

LEMMA ONext == OInv /\ [Next]_vars => OInv'
  <1> SUFFICES ASSUME OInv, [Next]_vars PROVE OInv'
    OBVIOUS
  <1> QED BY ElsewhereSteps, OUnchanged, AcceptStep, OWork, OClient DEF Next

\* Whatever the threads of both schedulers, the clients, stop() and start() do, a
\* connection has exactly one handler between accept() and close(), and open
\* connections have different descriptors.
THEOREM ConnectionsHaveOneHandler == Spec => []OneHandler
  <1>1. OInv => OneHandler
    <2> SUFFICES ASSUME OInv PROVE OneHandler
      OBVIOUS
    <2>1. ASSUME NEW c \in Conns
          PROVE  Cardinality({i \in DOMAIN workTasks : workTasks[i] = c}) = (IF conn[c].at = "queued" THEN 1 ELSE 0)
      <3> DEFINE S == {i \in DOMAIN workTasks : workTasks[i] = c}
      <3>1. CASE conn[c].at = "queued"
        <4>1. PICK i \in DOMAIN workTasks : workTasks[i] = c
          BY <3>1 DEF OInv, Queue
        <4>2. S = {i}
          BY <4>1 DEF OInv, Queue
        <4> QED BY <3>1, <4>2, FS_Singleton
      <3>2. CASE conn[c].at # "queued"
        <4>1. S = {}
          BY <3>2 DEF OInv, Queue
        <4> QED BY <3>2, <4>1, FS_EmptySet
      <3> QED BY <3>1, <3>2
    <2>2. ASSUME NEW c \in Conns
          PROVE  Cardinality({t \in WorkThreads : worker[t].conn = c}) = (IF conn[c].at = "served" THEN 1 ELSE 0)
      <3> DEFINE S == {t \in WorkThreads : worker[t].conn = c}
      <3>0. c # 0
        BY ConnsAssumption, FS_CardinalityType
      <3>1. CASE conn[c].at = "served"
        <4>1. PICK t \in WorkThreads : worker[t].conn = c
          BY <3>1 DEF OInv, Owners
        <4>2. S = {t}
          BY <3>0, <4>1 DEF OInv, Owners
        <4> QED BY <3>1, <4>2, FS_Singleton
      <3>2. CASE conn[c].at # "served"
        <4>1. S = {}
          BY <3>0, <3>2 DEF OInv, Owners
        <4> QED BY <3>2, <4>1, FS_EmptySet
      <3> QED BY <3>1, <3>2
    <2>3. \A c, d \in Conns :
            c # d /\ {conn[c].at, conn[d].at} \subseteq {"queued", "served"} => conn[c].fd # conn[d].fd
      BY DEF OInv, Descriptors, Taken
    <2> QED BY <2>1, <2>2, <2>3 DEF OneHandler
  <1> QED BY <1>1, OInit, ONext, PTL DEF Spec
-----------------------------------------------------------------------------
(* Streams of tokens. *)

\* r is q without its first n tokens.
IsRest(r, q, n) ==
  /\ r \in Seq(Tokens) /\ DOMAIN r = 1 .. Len(r) /\ Len(r) \in Nat
  /\ q \in Seq(Tokens) /\ DOMAIN q = 1 .. Len(q) /\ Len(q) \in Nat
  /\ n \in 0 .. Len(q) /\ Len(r) = Len(q) - n
  /\ \A i \in 1 .. Len(q) - n : r[i] = q[n + i]

LEMMA ConsumedRest ==
  ASSUME NEW k \in ConnType, NEW n \in 1 .. Len(k.toServer)
  PROVE  /\ IsRest(Consumed(k, n).toServer, k.toServer, n)
         /\ Consumed(k, n).sent = k.sent /\ Consumed(k, n).got = k.got /\ Consumed(k, n).closed = k.closed
         /\ Consumed(k, n).torn = k.torn
  <1>1. k.toServer \in Seq(Tokens) /\ Consumed(k, n).toServer \in Seq(Tokens)
    BY ConsumedType DEF ConnType
  <1>2. /\ Len(k.toServer) \in Nat /\ DOMAIN k.toServer = 1 .. Len(k.toServer)
        /\ Len(Consumed(k, n).toServer) \in Nat
        /\ DOMAIN Consumed(k, n).toServer = 1 .. Len(Consumed(k, n).toServer)
    BY <1>1, LenProperties
  <1>3. /\ Consumed(k, n).sent = k.sent /\ Consumed(k, n).got = k.got /\ Consumed(k, n).closed = k.closed
        /\ Consumed(k, n).torn = k.torn
        /\ Len(Consumed(k, n).toServer) = Len(k.toServer) - n
        /\ \A i \in 1 .. Len(k.toServer) - n : Consumed(k, n).toServer[i] = k.toServer[n + i]
    BY ConsumedType
  <1>4. n \in 0 .. Len(k.toServer)
    BY <1>2
  <1> QED BY <1>1, <1>2, <1>3, <1>4 DEF IsRest

\* What was true of the whole stream is true of its rest.
LEMMA SoundRest ==
  ASSUME NEW r, NEW q, NEW n, NEW sent, NEW torn, IsRest(r, q, n), Sound(q, sent, torn)
  PROVE  Sound(r, sent, torn)
  <1>1. \A p \in DOMAIN r : n + p \in DOMAIN q /\ r[p] = q[n + p]
    BY DEF IsRest
  <1>2. Len(q) \in Nat /\ Len(r) \in Nat /\ n \in Nat /\ Len(r) = Len(q) - n
        /\ DOMAIN r = 1 .. Len(r) /\ DOMAIN q = 1 .. Len(q)
    BY DEF IsRest
  <1>3. ASSUME NEW p \in DOMAIN r
        PROVE  /\ r[p].req \in 1 .. Len(sent)
               /\ r[p].kind = "line" => /\ r[p].req \notin torn
                                         /\ p < Len(r) /\ r[p + 1].kind = "end" /\ r[p + 1].req = r[p].req
    <2>1. n + p \in DOMAIN q /\ r[p] = q[n + p]
      BY <1>1
    <2>2. /\ q[n + p].req \in 1 .. Len(sent)
          /\ q[n + p].kind = "line" => /\ q[n + p].req \notin torn /\ n + p < Len(q) /\ q[(n + p) + 1].kind = "end"
                                       /\ q[(n + p) + 1].req = q[n + p].req
      BY <2>1 DEF Sound
    <2>3. p < Len(r) => r[p + 1] = q[(n + p) + 1]
      <3>1. p < Len(r) => p + 1 \in DOMAIN r /\ n + (p + 1) = (n + p) + 1
        BY <1>2
      <3> QED BY <3>1, <1>1
    <2> QED BY <1>2, <2>1, <2>2, <2>3
  <1>4. ASSUME NEW p \in DOMAIN r, r[p].kind = "end"
        PROVE  /\ r[p].len = sent[r[p].req] \/ (r[p].req \in torn /\ r[p].len = 0)
               /\ p + r[p].len <= Len(r)
               /\ \A i \in 1 .. r[p].len : r[p + i] = Byte(r[p].req, i)
    <2>1. n + p \in DOMAIN q /\ r[p] = q[n + p] /\ q[n + p].kind = "end"
      BY <1>1, <1>4
    <2>2. /\ q[n + p].len = sent[q[n + p].req] \/ (q[n + p].req \in torn /\ q[n + p].len = 0)
          /\ (n + p) + q[n + p].len <= Len(q)
          /\ \A i \in 1 .. q[n + p].len : q[(n + p) + i] = Byte(q[n + p].req, i)
      BY <2>1 DEF Sound
    <2>3. q[n + p].len \in Nat
      <3>1. q[n + p] \in Tokens
        BY <2>1, <1>2, ElementOfSeq DEF IsRest
      <3> QED BY <3>1, <2>1 DEF Tokens, Lines, Ends, Bytes
    <2>4. ASSUME NEW i \in 1 .. r[p].len PROVE r[p + i] = Byte(r[p].req, i)
      <3>1. p + i \in DOMAIN r /\ n + (p + i) = (n + p) + i
        <4>1. PICK L \in Nat : L = r[p].len /\ (n + p) + L <= Len(q) /\ i \in 1 .. L
          BY <2>1, <2>2, <2>3
        <4>2. p \in Nat
          BY <1>2
        <4> QED BY ONLY <4>1, <4>2, <1>2, L \in Nat
      <3> QED BY <3>1, <1>1, <2>1, <2>2
    <2> QED BY <1>2, <2>1, <2>2, <2>3, <2>4
  <1>5. \A p, s \in DOMAIN r : p < s /\ r[p].kind = "line" /\ r[s].kind = "line" => r[p].req < r[s].req
    BY <1>1, <1>2 DEF Sound
  <1> QED BY <1>3, <1>4, <1>5 DEF Sound

LEMMA LaterRest ==
  ASSUME NEW r, NEW q, NEW n, NEW m, IsRest(r, q, n), Later(q, m)
  PROVE  Later(r, m)
  BY DEF Later, IsRest

\* Behind a request line there are only later ones.
LEMMA LaterBehindLine ==
  ASSUME NEW r, NEW q, NEW n \in Nat \ {0}, NEW sent, NEW torn,
         IsRest(r, q, n), Sound(q, sent, torn), q[1].kind = "line"
  PROVE  Later(r, q[1].req)
  <1> SUFFICES ASSUME NEW p \in DOMAIN r, r[p].kind = "line" PROVE q[1].req < r[p].req
    BY DEF Later
  <1>1. 1 \in DOMAIN q /\ n + p \in DOMAIN q /\ 1 < n + p /\ r[p] = q[n + p]
    BY DEF IsRest
  <1> QED BY <1>1 DEF Sound

\* The stream q and its requests sent become x and l with one request more.
IsMore(x, l, q, sent, len) ==
  /\ q \in Seq(Tokens) /\ Len(q) \in Nat /\ DOMAIN q = 1 .. Len(q) /\ Len(sent) \in Nat /\ len \in Nat
  /\ x \in Seq(Tokens) /\ DOMAIN x = 1 .. Len(q) + 2 + len /\ Len(x) = Len(q) + 2 + len
  /\ \A i \in 1 .. Len(q) : x[i] = q[i]
  /\ x[Len(q) + 1].kind = "line" /\ x[Len(q) + 1].req = Len(sent) + 1
  /\ x[Len(q) + 2].kind = "end" /\ x[Len(q) + 2].req = Len(sent) + 1 /\ x[Len(q) + 2].len = len
  /\ \A i \in 1 .. len : x[Len(q) + 2 + i] = Byte(Len(sent) + 1, i)
  /\ Len(l) = Len(sent) + 1 /\ l[Len(sent) + 1] = len
  /\ \A i \in 1 .. Len(sent) : l[i] = sent[i]

LEMMA SentMore ==
  ASSUME NEW k, NEW len, NEW j, OneMore(j, k, len)
  PROVE  IsMore(j.toServer, j.sent, k.toServer, k.sent, len)
  <1>0. k \in ConnType /\ len \in Nat
    BY DEF OneMore
  <1> DEFINE q == k.toServer
             sent == k.sent
             r == Request(Len(sent) + 1, len)
  <1>1. q \in Seq(Tokens) /\ sent \in Seq(Nat)
    BY <1>0 DEF ConnType
  <1>2. Len(q) \in Nat /\ DOMAIN q = 1 .. Len(q) /\ Len(sent) \in Nat
    BY <1>1, LenProperties
  <1>3. j.toServer = q \o r /\ j.sent = Append(sent, len)
    BY SentTokens
  <1>4. PICK m \in Nat : m = Len(sent) + 1
    BY <1>2
  <1>5. /\ r \in Seq(Tokens) /\ Len(r) = 2 + len
        /\ r[1] = [kind |-> "line", req |-> m]
        /\ r[2] = [kind |-> "end", req |-> m, len |-> len]
        /\ \A i \in 1 .. len : r[2 + i] = Byte(m, i)
    <2>1. r = Request(m, len)
      BY <1>4
    <2> QED BY <2>1, <1>0, RequestTokens
  <1>6. /\ q \o r \in Seq(Tokens) /\ Len(q \o r) = Len(q) + Len(r)
        /\ \A i \in 1 .. Len(q) + Len(r) : (q \o r)[i] = IF i <= Len(q) THEN q[i] ELSE r[i - Len(q)]
    BY <1>1, <1>5, ConcatProperties
  <1>7. /\ Len(Append(sent, len)) = Len(sent) + 1 /\ Append(sent, len)[Len(sent) + 1] = len
        /\ \A i \in 1 .. Len(sent) : Append(sent, len)[i] = sent[i]
    BY <1>0, <1>1, AppendProperties
  <1>8. DOMAIN (q \o r) = 1 .. Len(q \o r)
    BY <1>6, LenProperties
  <1> HIDE DEF q, sent, r
  <1>9. \A i \in 1 .. len : (q \o r)[Len(q) + 2 + i] = Byte(m, i)
    <2> SUFFICES ASSUME NEW i \in 1 .. len PROVE (q \o r)[Len(q) + 2 + i] = Byte(m, i)
      OBVIOUS
    <2>1. Len(q) + 2 + i \in 1 .. Len(q) + Len(r) /\ ~(Len(q) + 2 + i <= Len(q)) /\ (Len(q) + 2 + i) - Len(q) = 2 + i
      BY <1>0, <1>2, <1>5
    <2> QED BY <2>1, <1>5, <1>6
  <1>10. /\ (q \o r)[Len(q) + 1] = r[1] /\ (q \o r)[Len(q) + 2] = r[2]
         /\ \A i \in 1 .. Len(q) : (q \o r)[i] = q[i]
    BY <1>0, <1>2, <1>5, <1>6
  <1>11. /\ r[1].kind = "line" /\ r[1].req = m
         /\ r[2].kind = "end" /\ r[2].req = m /\ r[2].len = len
    BY <1>5
  <1>12. /\ Len(q \o r) = Len(q) + 2 + len /\ DOMAIN (q \o r) = 1 .. Len(q) + 2 + len
         /\ (q \o r)[Len(q) + 1].kind = "line" /\ (q \o r)[Len(q) + 1].req = Len(sent) + 1
         /\ (q \o r)[Len(q) + 2].kind = "end" /\ (q \o r)[Len(q) + 2].req = Len(sent) + 1
         /\ (q \o r)[Len(q) + 2].len = len
         /\ \A i \in 1 .. len : (q \o r)[Len(q) + 2 + i] = Byte(Len(sent) + 1, i)
    BY <1>0, <1>2, <1>4, <1>5, <1>6, <1>8, <1>9, <1>10, <1>11
  <1>13. IsMore(q \o r, Append(sent, len), q, sent, len)
    BY <1>0, <1>1, <1>2, <1>6, <1>7, <1>10, <1>12 DEF IsMore
  <1> QED
    BY <1>3, <1>13, Zenon DEF q, sent

LEMMA SoundMore ==
  ASSUME NEW x, NEW l, NEW q, NEW sent, NEW len, NEW torn, IsMore(x, l, q, sent, len),
         Sound(q, sent, torn), torn \subseteq 1 .. Len(sent)
  PROVE  Sound(x, l, torn)
  <1> DEFINE N == Len(q)
  <1>1. /\ N \in Nat /\ Len(sent) \in Nat /\ len \in Nat /\ DOMAIN q = 1 .. N
        /\ DOMAIN x = 1 .. N + 2 + len /\ Len(x) = N + 2 + len /\ Len(l) = Len(sent) + 1
    BY DEF IsMore
  <1>2. \A p \in 1 .. N : x[p] = q[p] /\ q[p].req \in 1 .. Len(sent)
    BY <1>1 DEF IsMore, Sound
  <1>3. /\ x[N + 1].kind = "line" /\ x[N + 1].req = Len(sent) + 1
        /\ x[N + 2].kind = "end" /\ x[N + 2].req = Len(sent) + 1 /\ x[N + 2].len = len /\ l[Len(sent) + 1] = len
        /\ \A i \in 1 .. len : x[N + 2 + i] = Byte(Len(sent) + 1, i)
        /\ \A i \in 1 .. Len(sent) : l[i] = sent[i]
    BY DEF IsMore
  <1>4. \A p \in DOMAIN x : p > N + 2 => x[p].kind = "byte" /\ x[p].req = Len(sent) + 1
    <2> SUFFICES ASSUME NEW p \in DOMAIN x, p > N + 2 PROVE x[p].kind = "byte" /\ x[p].req = Len(sent) + 1
      OBVIOUS
    <2>1. PICK i \in 1 .. len : p = N + 2 + i
      <3>1. p - (N + 2) \in 1 .. len /\ p = N + 2 + (p - (N + 2))
        BY <1>1
      <3> QED BY <3>1
    <2>2. x[p] = Byte(Len(sent) + 1, i)
      BY <2>1, <1>3
    <2> QED BY <2>2 DEF Byte
  <1> HIDE DEF N
  <1>5. ASSUME NEW p \in DOMAIN x PROVE x[p].req \in 1 .. Len(l)
    <2>1. p <= N \/ p = N + 1 \/ p = N + 2 \/ p > N + 2
      BY <1>1
    <2> QED BY <2>1, <1>1, <1>2, <1>3, <1>4
  <1>6. ASSUME NEW p \in DOMAIN x, x[p].kind = "line"
        PROVE  /\ x[p].req \notin torn
               /\ p < Len(x) /\ x[p + 1].kind = "end" /\ x[p + 1].req = x[p].req
    <2>1. CASE p <= N
      <3>1. p \in 1 .. N /\ q[p].kind = "line"
        BY <1>1, <1>2, <1>6, <2>1
      <3>2. q[p].req \notin torn /\ p < N /\ q[p + 1].kind = "end" /\ q[p + 1].req = q[p].req
        BY <3>1, <1>1 DEF Sound, N
      <3>3. p + 1 \in 1 .. N
        BY <3>1, <3>2, <1>1
      <3> QED BY <3>1, <3>2, <3>3, <1>1, <1>2
    <2>2. CASE p = N + 1
      BY <2>2, <1>1, <1>3
    <2>3. CASE p > N + 1
      BY <2>3, <1>1, <1>3, <1>4, <1>6, SMTT(30)
    <2> QED BY <2>1, <2>2, <2>3, <1>1
  <1>7. ASSUME NEW p \in DOMAIN x, x[p].kind = "end"
        PROVE  /\ x[p].len = l[x[p].req] \/ (x[p].req \in torn /\ x[p].len = 0)
               /\ p + x[p].len <= Len(x)
               /\ \A i \in 1 .. x[p].len : x[p + i] = Byte(x[p].req, i)
    <2>1. CASE p <= N
      <3>1. p \in 1 .. N /\ q[p].kind = "end" /\ x[p] = q[p] /\ q[p].req \in 1 .. Len(sent)
        BY <1>1, <1>2, <1>7, <2>1
      <3>2. q[p].len \in Nat
        <4>1. q[p] \in Tokens
          BY <3>1, ElementOfSeq DEF IsMore, N
        <4> QED BY <4>1, <3>1 DEF Tokens, Lines, Ends, Bytes
      <3>3. /\ q[p].len = sent[q[p].req] \/ (q[p].req \in torn /\ q[p].len = 0)
            /\ p + q[p].len <= N
            /\ \A i \in 1 .. q[p].len : q[p + i] = Byte(q[p].req, i)
        BY <3>1, <1>1 DEF Sound, N
      <3>4. \A i \in 1 .. q[p].len : p + i \in 1 .. N
        BY <3>1, <3>2, <3>3, <1>1
      <3> QED BY <3>1, <3>2, <3>3, <3>4, <1>1, <1>2, <1>3
    <2>2. CASE p = N + 2
      BY <2>2, <1>1, <1>3
    <2>3. CASE p = N + 1 \/ p > N + 2
      BY <2>3, <1>3, <1>4, <1>7
    <2> QED BY <2>1, <2>2, <2>3, <1>1
  <1>8. ASSUME NEW p \in DOMAIN x, NEW r \in DOMAIN x, p < r, x[p].kind = "line", x[r].kind = "line"
        PROVE  x[p].req < x[r].req
    <2>1. r <= N \/ r = N + 1
      BY <1>1, <1>3, <1>4, <1>8
    <2>2. CASE r <= N
      <3>1. p \in 1 .. N /\ r \in 1 .. N
        BY <2>2, <1>1, <1>8
      <3> QED BY <3>1, <1>1, <1>2, <1>8 DEF Sound
    <2>3. CASE r = N + 1
      <3>1. p \in 1 .. N
        BY <2>3, <1>1, <1>8
      <3> QED BY <3>1, <2>3, <1>1, <1>2, <1>3
    <2> QED BY <2>1, <2>2, <2>3
  <1> QED BY <1>5, <1>6, <1>7, <1>8 DEF Sound

LEMMA LaterMore ==
  ASSUME NEW x, NEW l, NEW q, NEW sent, NEW len, IsMore(x, l, q, sent, len), NEW n \in Nat, Later(q, n), n <= Len(sent)
  PROVE  Later(x, n)
  <1> SUFFICES ASSUME NEW p \in DOMAIN x, x[p].kind = "line" PROVE n < x[p].req
    BY DEF Later
  <1>1. Len(q) \in Nat /\ Len(sent) \in Nat /\ len \in Nat /\ DOMAIN x = 1 .. Len(q) + 2 + len /\ DOMAIN q = 1 .. Len(q)
    BY DEF IsMore
  <1>2. CASE p <= Len(q)
    <2>1. p \in 1 .. Len(q) /\ x[p] = q[p]
      BY <1>1, <1>2 DEF IsMore
    <2> QED BY <2>1, <1>1 DEF Later
  <1>3. CASE p = Len(q) + 1
    BY <1>1, <1>3 DEF IsMore
  <1>4. CASE p = Len(q) + 2
    BY <1>4 DEF IsMore
  <1>5. CASE p > Len(q) + 2
    <2>1. PICK i \in 1 .. len : p = Len(q) + 2 + i
      <3>1. p - (Len(q) + 2) \in 1 .. len /\ p = Len(q) + 2 + (p - (Len(q) + 2))
        BY <1>1, <1>5
      <3> QED BY <3>1
    <2>2. x[p] = Byte(Len(sent) + 1, i)
      BY <2>1 DEF IsMore
    <2>3. x[p].kind = "byte"
      BY <2>2 DEF Byte
    <2> QED BY <2>3
  <1> QED BY <1>1, <1>2, <1>3, <1>4, <1>5
-----------------------------------------------------------------------------
(* What the steps of one handler do to the promises about its connection. *)

LEMMA ConnFacts ==
  ASSUME NEW k \in ConnType
  PROVE  /\ k.toServer \in Seq(Tokens) /\ Len(k.toServer) \in Nat /\ DOMAIN k.toServer = 1 .. Len(k.toServer)
         /\ k.got \in Seq(Answers) /\ Len(k.got) \in Nat /\ DOMAIN k.got = 1 .. Len(k.got)
         /\ k.sent \in Seq(Nat) /\ Len(k.sent) \in Nat
         /\ \A i \in DOMAIN k.got : k.got[i] \in Answers /\ k.got[i].req \in Nat
         /\ \A i \in 1 .. Len(k.sent) : k.sent[i] \in Nat
  <1>1. k.toServer \in Seq(Tokens) /\ k.got \in Seq(Answers) /\ k.sent \in Seq(Nat)
    BY DEF ConnType
  <1>2. /\ Len(k.toServer) \in Nat /\ DOMAIN k.toServer = 1 .. Len(k.toServer)
        /\ Len(k.got) \in Nat /\ DOMAIN k.got = 1 .. Len(k.got) /\ Len(k.sent) \in Nat
    BY <1>1, LenProperties
  <1>3. (\A i \in DOMAIN k.got : k.got[i] \in Answers) /\ \A i \in 1 .. Len(k.sent) : k.sent[i] \in Nat
    BY <1>1, <1>2, ElementOfSeq
  <1> QED BY <1>1, <1>2, <1>3 DEF Answers

LEMMA ConsumedOk ==
  ASSUME NEW k \in ConnType, NEW n \in 1 .. Len(k.toServer), NEW b \in BOOLEAN, ConnOk(k, b)
  PROVE  ConnOk(Consumed(k, n), b)
  <1>1. /\ IsRest(Consumed(k, n).toServer, k.toServer, n)
        /\ Consumed(k, n).sent = k.sent /\ Consumed(k, n).got = k.got /\ Consumed(k, n).torn = k.torn
    BY ConsumedRest
  <1>2. Sound(Consumed(k, n).toServer, k.sent, k.torn)
    BY <1>1, SoundRest DEF ConnOk
  <1> QED BY <1>1, <1>2 DEF ConnOk

\* What is between two requests stays there when the stream gets shorter.
LEMMA BetweenRest ==
  ASSUME NEW k, NEW j, NEW n, NEW b, IsRest(j.toServer, k.toServer, n), j.got = k.got, j.sent = k.sent, Between(k, b)
  PROVE  Between(j, b)
  <1>1. \A i \in DOMAIN j.got : Later(j.toServer, j.got[i].req)
    BY LaterRest DEF Between
  <1>2. \A p \in DOMAIN j.toServer : n + p \in DOMAIN k.toServer /\ j.toServer[p] = k.toServer[n + p]
    BY DEF IsRest
  <1> QED BY <1>1, <1>2 DEF Between

\* An answer to the last request that was read, or its last answer, is behind it.
LEMMA DoneBetween ==
  ASSUME NEW k \in ConnType, NEW n \in Nat, NEW b, Sound(k.toServer, k.sent, k.torn), Later(k.toServer, n),
         \A i \in DOMAIN k.got : k.got[i].req <= n, b => n = Len(k.sent)
  PROVE  Between(k, b)
  <1>1. \A p \in DOMAIN k.toServer : k.toServer[p].req \in 1 .. Len(k.sent) /\ k.toServer[p].req \in Nat
    BY ConnFacts DEF Sound
  <1>2. ASSUME NEW i \in DOMAIN k.got PROVE Later(k.toServer, k.got[i].req)
    <2>1. k.got[i].req \in Nat /\ k.got[i].req <= n
      BY ConnFacts
    <2>2. PICK g \in Nat : g = k.got[i].req /\ g <= n
      BY <2>1
    <2>3. Later(k.toServer, g)
      BY <1>1, <2>2 DEF Later
    <2> QED BY <2>2, <2>3
  <1>3. ASSUME b, NEW p \in DOMAIN k.toServer, k.toServer[p].kind = "line" PROVE FALSE
    <2>1. n < k.toServer[p].req /\ n = Len(k.sent)
      BY <1>3 DEF Later
    <2> QED BY <2>1, <1>1
  <1> QED BY <1>2, <1>3 DEF Between

\* The parser refuses what it has read, which is not the beginning of a request.
LEMMA HeaderFailsLocal ==
  ASSUME NEW w \in WorkerType, NEW k \in ConnType, NEW b \in BOOLEAN, ConnOk(k, b), Serves(w, k, b),
         w.pc = "header", NEW n \in 1 .. Len(k.toServer), HeaderFails(w, k.toServer, n, w)
  PROVE  Serves(w, Consumed(k, n), b)
  <1> DEFINE q == k.toServer
             j == Consumed(k, n)
  <1>1. Len(q) \in Nat /\ DOMAIN q = 1 .. Len(q) /\ 1 \in DOMAIN q
    BY ConnFacts
  <1>2. IsRest(j.toServer, q, n) /\ j.got = k.got /\ j.sent = k.sent
    BY ConsumedRest
  <1>3. w.parsed = "start"
    BY DEF HeaderFails, Serves, Expected, WorkerType
  <1>4. Between(k, b)
    BY <1>3 DEF Serves
  <1>5. Between(j, b)
    BY <1>2, <1>4, BetweenRest
  <1> QED BY <1>3, <1>5 DEF Serves

\* The request line alone was read.
LEMMA HeaderLineLocal ==
  ASSUME NEW w \in WorkerType, NEW k \in ConnType, NEW b \in BOOLEAN, ConnOk(k, b), Serves(w, k, b),
         w.pc = "header", NEW v, Len(k.toServer) \in Nat \ {0}, HeaderLine(w, k.toServer, 1, v)
  PROVE  Serves(v, Consumed(k, 1), b)
  <1> DEFINE q == k.toServer
             j == Consumed(k, 1)
             m == q[1].req
  <1>1. /\ Len(q) \in Nat /\ DOMAIN q = 1 .. Len(q) /\ 1 \in DOMAIN q /\ q # << >>
        /\ Len(k.sent) \in Nat /\ \A i \in 1 .. Len(k.sent) : k.sent[i] \in Nat
    BY ConnFacts
  <1>2. 1 \in 1 .. Len(q)
    BY <1>1
  <1>3. IsRest(j.toServer, q, 1) /\ j.got = k.got /\ j.sent = k.sent /\ j.torn = k.torn
    BY <1>2, ConsumedRest
  <1>4. w.parsed = "start" /\ q[1].kind = "line" /\ v = LineRead(w, q[1])
    BY DEF HeaderLine
  <1>5. q[1] \in Lines
    <2>1. q[1] \in Tokens
      BY <1>2, ElementOfSeq, ConnFacts
    <2> QED BY <1>4, <2>1 DEF Tokens, Lines, Ends, Bytes
  <1>6. v.pc = "header" /\ v.parsed = "line" /\ v.req = m
    BY <1>4, <1>5, LineReadType
  <1>7. Between(k, b)
    BY <1>4 DEF Serves
  <1>8. m \in 1 .. Len(k.sent) /\ m \notin k.torn /\ 1 < Len(q) /\ q[2].kind = "end" /\ q[2].req = m
    BY <1>1, <1>4 DEF ConnOk, Sound
  <1>9. Below(k.got, m)
    BY <1>1, <1>4, <1>7 DEF Between, Later, Below
  <1>10. Later(j.toServer, m)
    BY <1>3, <1>4, LaterBehindLine DEF ConnOk
  <1>11. Len(j.toServer) = Len(q) - 1 /\ j.toServer[1] = q[2] /\ j.toServer # << >>
    BY <1>1, <1>3, <1>8 DEF IsRest
  <1>12. b => m = Len(k.sent) /\ Len(k.got) = 2 * (m - 1)
    BY <1>1, <1>4, <1>7 DEF Between
  <1> HIDE DEF m, j
  <1>14. Within(j, m, b)
    BY <1>3, <1>8, <1>9, <1>10, <1>12 DEF Within
  <1>15. Serves(v, j, b)
    BY <1>3, <1>6, <1>8, <1>11, <1>14 DEF Serves
  <1> QED BY <1>15 DEF j
\* A whole body.
LEMMA WholeBody ==
  ASSUME NEW body \in Seq(Tokens), NEW m \in Nat, Len(body) \in Nat,
         \A i \in 1 .. Len(body) : body[i] = Byte(m, i)
  PROVE  body = [i \in 1 .. Len(body) |-> Byte(m, i)]
  <1>1. body \in [1 .. Len(body) -> Tokens]
    BY LenProperties
  <1> QED BY <1>1

\* The header of the m-th request ends with the e-th of n tokens that were read.
EndAt(w, q, n, e, m) ==
  /\ e \in {1, 2} /\ e = (IF w.parsed = "start" THEN 2 ELSE 1) /\ e <= n
  /\ w.parsed = "start" => q[1].kind = "line"
  /\ q[e].kind = "end"
  /\ m = (IF w.parsed = "start" THEN q[1].req ELSE w.req)
\* The length that the parser finds in the m-th request of k.
Said(k, m) == IF m \in k.torn THEN 0 ELSE k.sent[m]
\* What is then known of the stream q and of its rest r.
BehindHeader(k, q, r, e, m, len, b) ==
  /\ m \in 1 .. Len(k.sent) /\ q[e] \in Ends /\ q[e].len = len /\ len \in Nat
  /\ len = Said(k, m)
  /\ Below(k.got, m) /\ Later(r, m)
  /\ e + len <= Len(q) /\ \A i \in 1 .. len : q[e + i] = Byte(m, i)
  /\ b => m = Len(k.sent) /\ Len(k.got) = 2 * (m - 1)

LEMMA HeaderEndFacts ==
  ASSUME NEW w \in WorkerType, NEW k \in ConnType, NEW b \in BOOLEAN, ConnOk(k, b), Serves(w, k, b),
         w.pc = "header", NEW n \in 1 .. Len(k.toServer), NEW e, NEW m, EndAt(w, k.toServer, n, e, m)
  PROVE  BehindHeader(k, k.toServer, Consumed(k, n).toServer, e, m, Said(k, m), b)
  <1> DEFINE q == k.toServer
  <1>0. /\ e \in {1, 2} /\ e = (IF w.parsed = "start" THEN 2 ELSE 1) /\ e <= n
        /\ w.parsed = "start" => q[1].kind = "line"
        /\ q[e].kind = "end"
        /\ m = (IF w.parsed = "start" THEN q[1].req ELSE w.req)
    BY DEF EndAt
  <1>1. /\ Len(q) \in Nat /\ DOMAIN q = 1 .. Len(q) /\ 1 \in DOMAIN q /\ e \in DOMAIN q /\ q # << >>
        /\ Len(k.sent) \in Nat /\ \A i \in 1 .. Len(k.sent) : k.sent[i] \in Nat
    BY <1>0, ConnFacts
  <1>2. IsRest(Consumed(k, n).toServer, q, n) /\ n \in Nat \ {0}
    BY ConsumedRest
  <1>3. q[e] \in Ends
    <2>1. q[e] \in Tokens
      BY <1>1, ElementOfSeq, ConnFacts
    <2> QED BY <1>0, <2>1 DEF Tokens, Lines, Ends, Bytes
  <1>4. Sound(q, k.sent, k.torn)
    BY DEF ConnOk
  <1>5. /\ q[e].req \in 1 .. Len(k.sent) /\ e + q[e].len <= Len(q)
        /\ q[e].len = k.sent[q[e].req] \/ (q[e].req \in k.torn /\ q[e].len = 0)
        /\ \A i \in 1 .. q[e].len : q[e + i] = Byte(q[e].req, i)
    BY <1>0, <1>1, <1>4 DEF Sound
  <1>6. q[e].req = m
    <2>1. CASE w.parsed = "start"
      BY <1>0, <1>1, <1>4, <2>1 DEF Sound
    <2>2. CASE w.parsed = "line"
      BY <1>0, <2>2 DEF Serves
    <2> QED BY <2>1, <2>2 DEF WorkerType
  <1>7. Below(k.got, m)
    <2>1. CASE w.parsed = "start"
      BY <1>0, <1>1, <2>1 DEF Serves, Between, Later, Below
    <2>2. CASE w.parsed = "line"
      BY <1>0, <2>2 DEF Serves, Within
    <2> QED BY <2>1, <2>2 DEF WorkerType
  <1>8. Later(Consumed(k, n).toServer, m)
    <2>1. CASE w.parsed = "start"
      BY <1>0, <1>2, <1>4, <2>1, LaterBehindLine
    <2>2. CASE w.parsed = "line"
      <3>1. Later(q, m)
        BY <1>0, <2>2 DEF Serves, Within
      <3> QED BY <1>2, <3>1, LaterRest
    <2> QED BY <2>1, <2>2 DEF WorkerType
  <1>9. b => m = Len(k.sent) /\ Len(k.got) = 2 * (m - 1)
    <2>1. CASE w.parsed = "start"
      BY <1>0, <1>1, <2>1 DEF Serves, Between
    <2>2. CASE w.parsed = "line"
      BY <1>0, <1>1, <2>2 DEF Serves, Within
    <2> QED BY <2>1, <2>2 DEF WorkerType
  <1>10. q[e].len = Said(k, m)
    <2>1. CASE w.parsed = "start"
      <3>1. m \notin k.torn
        BY <1>0, <1>1, <1>4, <2>1 DEF Sound
      <3> QED BY <1>5, <1>6, <3>1 DEF Said
    <2>2. CASE w.parsed = "line"
      <3>1. m \in k.torn => q[e].len = 0
        BY <1>0, <2>2 DEF Serves
      <3> QED BY <1>5, <1>6, <3>1 DEF Said
    <2> QED BY <2>1, <2>2 DEF WorkerType
  <1>11. q[e].len \in Nat
    BY <1>3 DEF Ends
  <1> QED BY <1>0, <1>1, <1>3, <1>5, <1>6, <1>7, <1>8, <1>9, <1>10, <1>11 DEF BehindHeader

LEMMA HeaderEndsLocal ==
  ASSUME NEW w \in WorkerType, NEW k \in ConnType, NEW b \in BOOLEAN, ConnOk(k, b), Serves(w, k, b),
         w.pc = "header", NEW n \in 1 .. Len(k.toServer), NEW v, HeaderEnds(w, k.toServer, n, v)
  PROVE  Serves(v, Consumed(k, n), b)
  <1> DEFINE q == k.toServer
             j == Consumed(k, n)
  <1>1. PICK e \in {1, 2}, body \in Seq(Tokens) :
          /\ e = (IF w.parsed = "start" THEN 2 ELSE 1) /\ e <= n
          /\ w.parsed = "start" => q[1].kind = "line"
          /\ q[e].kind = "end"
          /\ Len(body) = IF n - e <= q[e].len THEN n - e ELSE q[e].len
          /\ \A i \in 1 .. Len(body) : body[i] = q[e + i]
          /\ v = HeaderRead(IF w.parsed = "start" THEN LineRead(w, q[1]) ELSE w, q[e], body)
    BY Zenon DEF HeaderEnds
  <1>2. PICK m : m = (IF w.parsed = "start" THEN q[1].req ELSE w.req)
    OBVIOUS
  <1>3. PICK len : len = Said(k, m) /\ BehindHeader(k, q, j.toServer, e, m, len, b)
    <2>1. EndAt(w, q, n, e, m)
      BY <1>1, <1>2, Zenon DEF EndAt
    <2>2. BehindHeader(k, q, j.toServer, e, m, Said(k, m), b)
      BY <2>1, HeaderEndFacts
    <2> QED BY <2>2
  <1>4. /\ m \in 1 .. Len(k.sent) /\ q[e] \in Ends /\ q[e].len = len /\ len \in Nat
        /\ Below(k.got, m) /\ Later(j.toServer, m)
        /\ e + len <= Len(q) /\ \A i \in 1 .. len : q[e + i] = Byte(m, i)
        /\ b => m = Len(k.sent) /\ Len(k.got) = 2 * (m - 1)
    BY <1>3 DEF BehindHeader
  <1>5. /\ Len(q) \in Nat /\ Len(k.sent) \in Nat /\ m \in Nat
    BY <1>4, ConnFacts
  <1>6. IsRest(j.toServer, q, n) /\ j.got = k.got /\ j.sent = k.sent /\ j.torn = k.torn
    BY ConsumedRest
  <1>7. PICK u \in WorkerType : /\ u = (IF w.parsed = "start" THEN LineRead(w, q[1]) ELSE w)
                                /\ u.req = m
    <2>1. CASE w.parsed = "start"
      <3>1. q[1] \in Tokens
        BY <1>5, ElementOfSeq, ConnFacts
      <3>2. q[1] \in Lines
        BY <1>1, <2>1, <3>1 DEF Tokens, Lines, Ends, Bytes
      <3> QED BY <1>2, <2>1, <3>2, LineReadType
    <2>2. CASE w.parsed # "start"
      BY <1>2, <2>2
    <2> QED BY <2>1, <2>2
  <1>8. /\ v.req = m /\ v.len = len /\ v.body = body
        /\ v.pc = IF Len(body) < len THEN "body" ELSE "handle"
    <2>1. v = HeaderRead(u, q[e], body)
      BY <1>1, <1>7, Zenon
    <2> QED BY <2>1, <1>4, <1>7, HeaderReadType
  <1>9. Len(body) \in Nat /\ Len(body) = IF n - e <= len THEN n - e ELSE len
    BY <1>1, <1>4, LenProperties
  <1>10. \A i \in 1 .. Len(body) : body[i] = Byte(m, i)
    <2> SUFFICES ASSUME NEW i \in 1 .. Len(body) PROVE body[i] = Byte(m, i)
      OBVIOUS
    <2>1. i \in 1 .. len
      BY ONLY <1>4, <1>9, n \in Nat, e \in Nat, i \in 1 .. Len(body)
    <2>2. body[i] = q[e + i]
      BY <1>1
    <2> QED BY <2>1, <2>2, <1>4
  <1>11. /\ Len(j.toServer) = Len(q) - n /\ \A i \in 1 .. Len(q) - n : j.toServer[i] = q[n + i]
         /\ n \in Nat /\ e \in Nat
    BY <1>6 DEF IsRest
  <1> HIDE DEF q, j
  <1>a. PICK a \in Nat, Q \in Nat : a = Len(body) /\ Q = Len(q)
    BY <1>5, <1>9
  <1>12. CASE Len(body) < len
    <2>1. Len(body) = n - e /\ len - Len(body) <= Len(j.toServer)
      BY <1>4, <1>5, <1>9, <1>11, <1>12
    <2>2. \A i \in 1 .. len - Len(body) : j.toServer[i] = Byte(m, Len(body) + i)
      <3> SUFFICES ASSUME NEW i \in 1 .. len - Len(body) PROVE j.toServer[i] = Byte(m, Len(body) + i)
        OBVIOUS
      <3>1. /\ i \in 1 .. Len(q) - n /\ Len(body) + i \in 1 .. len /\ n + i = e + (Len(body) + i)
        <4>1. a = n - e /\ e + len <= Q /\ i \in 1 .. len - a /\ e \in Nat /\ n \in Nat /\ len \in Nat
          BY <2>1, <1>a, <1>4, <1>11
        <4>2. i \in 1 .. Q - n /\ a + i \in 1 .. len /\ n + i = e + (a + i)
          BY ONLY <4>1, a \in Nat, Q \in Nat
        <4> QED BY <4>2, <1>a
      <3> QED BY <3>1, <1>4, <1>11
    <2>3. m \notin k.torn /\ len = k.sent[m]
      BY <1>3, <1>9, <1>12 DEF Said
    <2>4. Within(j, m, b)
      BY <1>4, <1>6 DEF Within
    <2>5. v.pc = "body"
      BY <1>8, <1>12
    <2>6. Serves(v, j, b)
      BY <2>1, <2>2, <2>3, <2>4, <2>5, <1>6, <1>8, <1>10, <1>12 DEF Serves
    <2> QED BY <2>6 DEF j
  <1>13. CASE ~(Len(body) < len)
    <2>1. Len(body) = len /\ len <= n - e
      BY <1>4, <1>5, <1>9, <1>11, <1>13
    <2>2. body = [i \in 1 .. len |-> Byte(m, i)]
      BY <2>1, <1>5, <1>9, <1>10, WholeBody
    <2>5. Within(j, m, b)
      BY <1>4, <1>6 DEF Within
    <2>6. v.pc = "handle"
      BY <1>8, <1>13
    <2>7. Serves(v, j, b)
      BY <2>2, <2>5, <2>6, <1>3, <1>6, <1>8 DEF Serves, BodyOf, Said
    <2> QED BY <2>7 DEF j
  <1> QED BY <1>12, <1>13

\* More of the body.
LEMMA BodyLocal ==
  ASSUME NEW w \in WorkerType, NEW k \in ConnType, NEW b \in BOOLEAN, ConnOk(k, b), Serves(w, k, b),
         w.pc = "body", NEW n \in 1 .. Len(k.toServer), n <= w.len - Len(w.body)
  PROVE  Serves(BodyRead(w, SubSeq(k.toServer, 1, n)), Consumed(k, n), b)
  <1> DEFINE q == k.toServer
             j == Consumed(k, n)
             x == SubSeq(q, 1, n)
             v == BodyRead(w, x)
             m == w.req
             len == w.len
  <1>1. /\ q \in Seq(Tokens) /\ Len(q) \in Nat /\ n \in 0 .. Len(q) /\ n \in Nat
        /\ w.body \in Seq(Tokens) /\ len \in Nat /\ m \in Nat
    BY ConnFacts DEF WorkerType
  <1>2. Len(w.body) \in Nat
    BY <1>1, LenProperties
  <1>3. x \in Seq(Tokens) /\ Len(x) = n /\ \A i \in 1 .. n : x[i] = q[i]
    BY <1>1, Cut
  <1>4. /\ v.req = m /\ v.len = len /\ v.body = w.body \o x
        /\ v.pc = IF Len(w.body) + n = len THEN "handle" ELSE "body"
    <2> HIDE DEF x
    <2>1. /\ v.req = m /\ v.len = len /\ v.body = w.body \o x
          /\ v.pc = IF Len(w.body) + Len(x) = len THEN "handle" ELSE "body"
      BY <1>3, BodyReadType
    <2> QED BY <1>3, <2>1
  <1>5. IsRest(j.toServer, q, n) /\ j.got = k.got /\ j.sent = k.sent /\ j.torn = k.torn
    BY ConsumedRest
  <1>6. /\ Within(k, m, b) /\ m \notin k.torn /\ len = k.sent[m] /\ Len(w.body) < len
        /\ \A i \in 1 .. Len(w.body) : w.body[i] = Byte(m, i)
        /\ len - Len(w.body) <= Len(q)
        /\ \A i \in 1 .. len - Len(w.body) : q[i] = Byte(m, Len(w.body) + i)
    BY DEF Serves
  <1>7. /\ w.body \o x \in Seq(Tokens) /\ Len(w.body \o x) = Len(w.body) + n
        /\ \A i \in 1 .. Len(w.body) + n :
             (w.body \o x)[i] = IF i <= Len(w.body) THEN w.body[i] ELSE x[i - Len(w.body)]
    BY <1>1, <1>3, ConcatProperties
  <1>8. n <= len - Len(w.body)
    OBVIOUS
  <1> HIDE DEF q, j, x, v, m, len
  <1>a. PICK a \in Nat, Q \in Nat, L \in Nat : a = Len(w.body) /\ Q = Len(q) /\ L = len
    BY <1>1, <1>2
  <1>9. \A i \in 1 .. Len(w.body) + n : (w.body \o x)[i] = Byte(m, i)
    <2> SUFFICES ASSUME NEW i \in 1 .. Len(w.body) + n PROVE (w.body \o x)[i] = Byte(m, i)
      OBVIOUS
    <2>1. CASE i <= Len(w.body)
      BY <2>1, <1>2, <1>6, <1>7
    <2>2. CASE ~(i <= Len(w.body))
      <3>1. PICK c \in 1 .. n : i = Len(w.body) + c /\ c = i - Len(w.body)
        <4>1. i - a \in 1 .. n /\ i = a + (i - a)
          BY ONLY <2>2, <1>1, <1>a, i \in 1 .. Len(w.body) + n
        <4> QED BY <4>1, <1>a
      <3>2. c \in 1 .. len - Len(w.body)
        BY ONLY <1>1, <1>2, <1>8, c \in 1 .. n
      <3>3. (w.body \o x)[i] = x[c]
        BY <2>2, <3>1, <1>7
      <3>4. x[c] = q[c] /\ q[c] = Byte(m, Len(w.body) + c)
        BY <3>2, <1>3, <1>6
      <3> QED BY <3>1, <3>3, <3>4
    <2> QED BY <2>1, <2>2
  <1>10. /\ Len(j.toServer) = Len(q) - n /\ \A i \in 1 .. Len(q) - n : j.toServer[i] = q[n + i]
    BY <1>5 DEF IsRest
  <1>11. Later(j.toServer, m)
    BY <1>5, <1>6, LaterRest DEF Within, q
  <1>12. Within(j, m, b)
    BY <1>5, <1>6, <1>11 DEF Within
  <1>13. CASE Len(w.body) + n = len
    <2>1. w.body \o x = [i \in 1 .. len |-> Byte(m, i)]
      <3>1. PICK y \in Seq(Tokens) : y = w.body \o x
        BY <1>7
      <3>2. Len(y) = len /\ Len(y) \in Nat /\ \A i \in 1 .. Len(y) : y[i] = Byte(m, i)
        BY <3>1, <1>1, <1>7, <1>9, <1>13
      <3> QED BY <3>1, <3>2, <1>1, WholeBody
    <2>3. Serves(v, j, b)
      BY <2>1, <1>4, <1>5, <1>6, <1>12, <1>13 DEF Serves, BodyOf
    <2> QED BY <2>3 DEF v, j, x, q
  <1>14. CASE Len(w.body) + n # len
    <2>1. Len(w.body) + n < len /\ len - (Len(w.body) + n) <= Len(j.toServer)
      <3>1. a + n # L /\ n <= L - a /\ L - a <= Q
        BY <1>a, <1>6, <1>8, <1>14
      <3>2. a + n < L /\ L - (a + n) <= Q - n
        BY ONLY <3>1, <1>1, a \in Nat, Q \in Nat, L \in Nat
      <3> QED BY <3>2, <1>a, <1>10
    <2>2. \A i \in 1 .. len - (Len(w.body) + n) : j.toServer[i] = Byte(m, (Len(w.body) + n) + i)
      <3> SUFFICES ASSUME NEW i \in 1 .. len - (Len(w.body) + n)
                   PROVE  j.toServer[i] = Byte(m, (Len(w.body) + n) + i)
        OBVIOUS
      <3>1. /\ i \in 1 .. Len(q) - n /\ n + i \in 1 .. len - Len(w.body)
            /\ Len(w.body) + (n + i) = (Len(w.body) + n) + i
        <4>1. i \in 1 .. L - (a + n) /\ L - a <= Q
          BY <1>a, <1>6
        <4>2. i \in 1 .. Q - n /\ n + i \in 1 .. L - a /\ a + (n + i) = (a + n) + i
          BY ONLY <4>1, <1>1, a \in Nat, Q \in Nat, L \in Nat
        <4> QED BY <4>2, <1>a
      <3> QED BY <3>1, <1>6, <1>10
    <2>3. v.pc = "body"
      BY <1>4, <1>14
    <2>4. Serves(v, j, b)
      BY <2>1, <2>2, <2>3, <1>4, <1>5, <1>6, <1>7, <1>9, <1>12 DEF Serves
    <2> QED BY <2>4 DEF v, j, x, q
  <1> QED BY <1>13, <1>14

\* A read has ended within the Content-Length line: the first token says 0, the
\* others and their requests are what they were.
LEMMA TornLocal ==
  ASSUME NEW w \in WorkerType, NEW k \in ConnType, NEW b \in BOOLEAN, ConnOk(k, b), Serves(w, k, b),
         w.pc = "header", w.parsed = "line"
  PROVE  ConnOk(Torn(k, w.req), b) /\ Serves(w, Torn(k, w.req), b)
  <1>1. PICK n \in Nat : n = w.req
    BY DEF WorkerType
  <1>2. PICK j : j = Torn(k, n)
    OBVIOUS
  <1> DEFINE q == k.toServer
             x == j.toServer
  <1>3. Within(k, n, b) /\ q # << >> /\ q[1].kind = "end" /\ q[1].req = n
    BY <1>1 DEF Serves
  <1>4. /\ j.sent = k.sent /\ j.got = k.got /\ j.closed = k.closed /\ j.torn = k.torn \cup {n}
        /\ x \in Seq(Tokens) /\ Len(x) = Len(q) /\ 1 \in 1 .. Len(q)
        /\ x[1].kind = "end" /\ x[1].req = n /\ x[1].len = 0
        /\ \A i \in 2 .. Len(q) : x[i] = q[i]
    BY <1>2, <1>3, TornType
  <1>5. Len(q) \in Nat /\ DOMAIN q = 1 .. Len(q) /\ DOMAIN x = 1 .. Len(q) /\ x # << >> /\ Len(k.sent) \in Nat
    BY <1>4, ConnFacts, LenProperties, EmptySeq
  <1>6. Sound(q, k.sent, k.torn) /\ k.torn \subseteq 1 .. Len(k.sent) /\ n \in 1 .. Len(k.sent) /\ Later(q, n)
    BY <1>3 DEF ConnOk, Within
  <1> HIDE DEF q, x
  <1>7. ASSUME NEW p \in DOMAIN x, p # 1
        PROVE  /\ p \in 2 .. Len(q) /\ x[p] = q[p] /\ p \in DOMAIN q
               /\ \A i \in Nat : p + i <= Len(q) => x[p + i] = q[p + i]
    <2>1. p \in 2 .. Len(q) /\ p \in DOMAIN q
      BY <1>5, <1>7
    <2>2. ASSUME NEW i \in Nat, p + i <= Len(q) PROVE x[p + i] = q[p + i]
      <3>1. p + i \in 2 .. Len(q)
        BY <1>5, <2>1, <2>2
      <3> QED BY <1>4, <3>1
    <2> QED BY <1>4, <2>1, <2>2
  <1>8. Later(x, n)
    <2> SUFFICES ASSUME NEW p \in DOMAIN x, x[p].kind = "line" PROVE n < x[p].req
      BY DEF Later
    <2>1. p # 1
      BY <1>4
    <2> QED BY <2>1, <1>6, <1>7 DEF Later
  <1>9. Sound(x, j.sent, j.torn)
    <2>1. ASSUME NEW p \in DOMAIN x PROVE x[p].req \in 1 .. Len(j.sent)
      <3>1. CASE p = 1
        BY <3>1, <1>4, <1>6
      <3>2. CASE p # 1
        BY <3>2, <1>4, <1>6, <1>7 DEF Sound
      <3> QED BY <3>1, <3>2
    <2>2. ASSUME NEW p \in DOMAIN x, x[p].kind = "line"
          PROVE  /\ x[p].req \notin j.torn
                 /\ p < Len(x) /\ x[p + 1].kind = "end" /\ x[p + 1].req = x[p].req
      <3>1. p # 1
        BY <2>2, <1>4
      <3>2. x[p] = q[p] /\ p \in DOMAIN q /\ q[p].kind = "line"
        BY <2>2, <3>1, <1>7
      <3>3. q[p].req \notin k.torn /\ p < Len(q) /\ q[p + 1].kind = "end" /\ q[p + 1].req = q[p].req
        BY <3>2, <1>6 DEF Sound
      <3>4. x[p + 1] = q[p + 1]
        <4>1. p + 1 <= Len(q) /\ 1 \in Nat
          BY <3>2, <3>3, <1>5
        <4> QED BY <4>1, <3>1, <1>7
      <3>5. x[p].req # n
        <4>1. n < x[p].req
          BY <2>2, <1>8 DEF Later
        <4> QED BY <4>1
      <3> QED BY <3>2, <3>3, <3>4, <3>5, <1>4
    <2>3. ASSUME NEW p \in DOMAIN x, x[p].kind = "end"
          PROVE  /\ x[p].len = j.sent[x[p].req] \/ (x[p].req \in j.torn /\ x[p].len = 0)
                 /\ p + x[p].len <= Len(x)
                 /\ \A i \in 1 .. x[p].len : x[p + i] = Byte(x[p].req, i)
      <3>1. CASE p = 1
        BY <3>1, <1>4, <1>5
      <3>2. CASE p # 1
        <4>1. x[p] = q[p] /\ p \in DOMAIN q /\ q[p].kind = "end"
          BY <2>3, <3>2, <1>7
        <4>2. /\ q[p].len = k.sent[q[p].req] \/ (q[p].req \in k.torn /\ q[p].len = 0)
              /\ p + q[p].len <= Len(q)
              /\ \A i \in 1 .. q[p].len : q[p + i] = Byte(q[p].req, i)
          BY <4>1, <1>6 DEF Sound
        <4>3. q[p].len \in Nat
          <5>1. q[p] \in Tokens
            BY <4>1, <1>5, ConnFacts, ElementOfSeq DEF q
          <5> QED BY <5>1, <4>1 DEF Tokens, Lines, Ends, Bytes
        <4>4. ASSUME NEW i \in 1 .. q[p].len PROVE x[p + i] = q[p + i]
          <5>1. i \in Nat /\ p + i <= Len(q)
            <6>1. PICK L \in Nat : L = q[p].len /\ p + L <= Len(q) /\ i \in 1 .. L
              BY <4>2, <4>3
            <6>2. p \in Nat /\ Len(q) \in Nat
              BY <1>5
            <6> QED BY ONLY <6>1, <6>2, L \in Nat
          <5> QED BY <5>1, <3>2, <1>7
        <4> QED BY <4>1, <4>2, <4>4, <1>4
      <3> QED BY <3>1, <3>2
    <2>4. ASSUME NEW p \in DOMAIN x, NEW r \in DOMAIN x, p < r, x[p].kind = "line", x[r].kind = "line"
          PROVE  x[p].req < x[r].req
      <3>1. p # 1 /\ r # 1
        BY <2>4, <1>4
      <3>2. x[p] = q[p] /\ x[r] = q[r] /\ p \in DOMAIN q /\ r \in DOMAIN q
        BY <3>1, <1>7
      <3> QED BY <2>4, <3>2, <1>6 DEF Sound
    <2> QED BY <2>1, <2>2, <2>3, <2>4 DEF Sound
  <1>10. ConnOk(j, b)
    BY <1>4, <1>6, <1>9 DEF ConnOk, x
  <1>11. Within(j, n, b)
    BY <1>3, <1>4, <1>8 DEF Within, x
  <1>12. Serves(w, j, b)
    BY <1>1, <1>4, <1>5, <1>11 DEF Serves, x
  <1> QED BY <1>1, <1>2, <1>10, <1>12

\* ServletDispatch::handle has made the response.
LEMMA AnsweringLocal ==
  ASSUME NEW w \in WorkerType, NEW k \in ConnType, NEW b \in BOOLEAN, Serves(w, k, b), w.pc = "handle"
  PROVE  Serves(Answering(w), k, b)
  <1>1. PICK m \in Nat : m = w.req
    BY DEF WorkerType
  <1>2. Answering(w).pc = "write" /\ Answering(w).req = m /\ Answering(w).out = Response(m)
    BY <1>1 DEF Answering, WorkerType
  <1>3. /\ Len(Response(m)) = 2 /\ DOMAIN Response(m) = 1 .. 2 /\ Response(m) # << >>
        /\ Response(m)[1] = [req |-> m, part |-> 1] /\ Response(m)[2] = [req |-> m, part |-> 2]
    BY ResponseType, LenProperties DEF Response
  <1>4. Within(k, m, b)
    BY <1>1 DEF Serves
  <1>5. PartOf(Response(m), m)
    BY <1>3 DEF PartOf
  <1>6. b => m = Len(k.sent) /\ Len(k.got) = 2 * m - Len(Response(m))
    <2>1. b => m = Len(k.sent) /\ Len(k.got) = 2 * (m - 1)
      BY <1>4 DEF Within
    <2> QED BY <1>3, <2>1
  <1>7. Writing(k, m, Response(m), b)
    BY <1>3, <1>4, <1>5, <1>6 DEF Writing, Within, Below, Upto
  <1> QED BY <1>2, <1>7 DEF Serves

\* A request and the end of an answer in the numbering of a client that waits.
LEMMA TurnOf ==
  ASSUME NEW n \in Nat \ {0}, NEW o \in 0 .. 2, NEW c \in 1 .. o, NEW i \in Nat, i = (2 * n - o) + c
  PROVE  (i + 1) \div 2 = n /\ 1 + ((i + 1) % 2) = (2 - o) + c
  <1>1. i + 1 = 2 * n \/ i + 1 = 2 * n + 1
    OBVIOUS
  <1>2. CASE i + 1 = 2 * n
    <2>1. (2 * n) \div 2 = n /\ (2 * n) % 2 = 0 /\ (2 - o) + c = 1
      BY <1>2
    <2> QED BY <1>2, <2>1
  <1>3. CASE i + 1 = 2 * n + 1
    <2>1. (2 * n + 1) \div 2 = n /\ (2 * n + 1) % 2 = 1 /\ (2 - o) + c = 2
      BY <1>3
    <2> QED BY <1>3, <2>1
  <1> QED BY <1>1, <1>2, <1>3

\* send() takes p tokens of out: r is left, and the answers g become h.
IsSent(h, r, g, out, p) ==
  /\ Len(g) \in Nat /\ DOMAIN g = 1 .. Len(g) /\ Len(out) \in Nat /\ DOMAIN out = 1 .. Len(out)
  /\ p \in 1 .. Len(out)
  /\ Len(r) = Len(out) - p /\ DOMAIN r = 1 .. Len(out) - p /\ \A i \in 1 .. Len(out) - p : r[i] = out[p + i]
  /\ Len(h) = Len(g) + p /\ DOMAIN h = 1 .. Len(g) + p
  /\ \A i \in 1 .. Len(g) : h[i] = g[i]
  /\ \A i \in 1 .. p : h[Len(g) + i] = out[i]

LEMMA SendsTokens ==
  ASSUME NEW w \in WorkerType, NEW k \in ConnType, NEW p \in 1 .. Len(w.out)
  PROVE  /\ Sends(w, p).pc = w.pc /\ Sends(w, p).req = w.req
         /\ LET j == Gets(k, w.out, p) IN
            /\ j.toServer = k.toServer /\ j.sent = k.sent /\ j.closed = k.closed /\ j.torn = k.torn
            /\ k.closed => j.got = k.got
            /\ \E h : IsSent(h, Sends(w, p).out, k.got, w.out, p) /\ (~k.closed => j.got = h)
  <1> DEFINE j == Gets(k, w.out, p)
             h == k.got \o SubSeq(w.out, 1, p)
  <1>1. /\ w.out \in Seq(Answers) /\ Len(w.out) \in Nat /\ DOMAIN w.out = 1 .. Len(w.out)
        /\ k.got \in Seq(Answers) /\ Len(k.got) \in Nat /\ DOMAIN k.got = 1 .. Len(k.got)
    BY LenProperties DEF WorkerType, ConnType
  <1>2. p \in 0 .. Len(w.out) /\ p \in Nat
    BY <1>1
  <1>3. PICK x : x = SubSeq(w.out, 1, p)
    OBVIOUS
  <1>4. PICK r : r = SubSeq(w.out, p + 1, Len(w.out))
    OBVIOUS
  <1>5. /\ x \in Seq(Answers) /\ Len(x) = p /\ \A i \in 1 .. p : x[i] = w.out[i]
        /\ r \in Seq(Answers) /\ Len(r) = Len(w.out) - p /\ \A i \in 1 .. Len(w.out) - p : r[i] = w.out[p + i]
    BY <1>1, <1>2, <1>3, <1>4, Cut
  <1>6. DOMAIN r = 1 .. Len(w.out) - p
    BY <1>5, LenProperties
  <1>7. /\ h \in Seq(Answers) /\ Len(h) = Len(k.got) + p
        /\ \A i \in 1 .. Len(k.got) + p : h[i] = IF i <= Len(k.got) THEN k.got[i] ELSE x[i - Len(k.got)]
    BY <1>1, <1>3, <1>5, ConcatProperties
  <1>8. DOMAIN h = 1 .. Len(k.got) + p
    BY <1>7, LenProperties
  <1>9. /\ Sends(w, p).pc = w.pc /\ Sends(w, p).req = w.req /\ Sends(w, p).out = r
    BY <1>4 DEF Sends, WorkerType
  <1>10. /\ j.toServer = k.toServer /\ j.sent = k.sent /\ j.closed = k.closed /\ j.torn = k.torn
         /\ k.closed => j.got = k.got
         /\ ~k.closed => j.got = h
    BY DEF Gets, ConnType
  <1> HIDE DEF h, j
  <1>11. \A i \in 1 .. Len(k.got) : h[i] = k.got[i]
    BY <1>1, <1>2, <1>7
  <1>12. \A i \in 1 .. p : h[Len(k.got) + i] = w.out[i]
    <2> SUFFICES ASSUME NEW i \in 1 .. p PROVE h[Len(k.got) + i] = w.out[i]
      OBVIOUS
    <2>1. /\ Len(k.got) + i \in 1 .. Len(k.got) + p /\ ~(Len(k.got) + i <= Len(k.got))
          /\ (Len(k.got) + i) - Len(k.got) = i
      BY <1>1, <1>2
    <2>2. h[Len(k.got) + i] = x[i]
      BY <2>1, <1>7
    <2> QED BY <2>2, <1>5
  <1>13. IsSent(h, r, k.got, w.out, p)
    BY <1>1, <1>5, <1>6, <1>7, <1>8, <1>11, <1>12 DEF IsSent
  <1> QED BY <1>9, <1>10, <1>13 DEF j

NatGot(g) == \A i \in DOMAIN g : g[i].req \in Nat /\ g[i].part \in Nat

LEMMA SentPart ==
  ASSUME NEW h, NEW r, NEW g, NEW out, NEW p, IsSent(h, r, g, out, p), NEW n \in Nat \ {0}, PartOf(out, n)
  PROVE  PartOf(r, n) /\ Len(out) \in 1 .. 2
  <1>1. /\ Len(out) \in Nat /\ DOMAIN out = 1 .. Len(out) /\ p \in 1 .. Len(out)
        /\ Len(r) = Len(out) - p /\ DOMAIN r = 1 .. Len(out) - p /\ \A i \in 1 .. Len(out) - p : r[i] = out[p + i]
    BY DEF IsSent
  <1>2. Len(out) \in 1 .. 2 /\ Len(r) <= 2
    BY <1>1 DEF PartOf
  <1>3. ASSUME NEW i \in DOMAIN r PROVE r[i] = [req |-> n, part |-> (2 - Len(r)) + i]
    <2>1. p + i \in DOMAIN out /\ r[i] = out[p + i]
      BY <1>1
    <2>2. out[p + i] = [req |-> n, part |-> (2 - Len(out)) + (p + i)]
      BY <2>1 DEF PartOf
    <2>3. (2 - Len(out)) + (p + i) = (2 - Len(r)) + i
      BY <1>1
    <2> QED BY <2>1, <2>2, <2>3
  <1> QED BY <1>2, <1>3 DEF PartOf

\* The answers stay in order, and in turn for a client that waits.
LEMMA SentAscending ==
  ASSUME NEW h, NEW r, NEW g, NEW out, NEW p, IsSent(h, r, g, out, p), NEW n \in Nat \ {0}, PartOf(out, n),
         Upto(g, n, Len(out)), NatGot(g), Ascending(g)
  PROVE  /\ Ascending(h) /\ Upto(h, n, Len(r))
         /\ InTurn(g) /\ Len(g) = 2 * n - Len(out) => InTurn(h)
  <1> DEFINE G == Len(g)
             o == Len(out)
  <1>1. /\ G \in Nat /\ o \in 1 .. 2 /\ p \in 1 .. o /\ DOMAIN g = 1 .. G /\ DOMAIN h = 1 .. G + p
        /\ DOMAIN out = 1 .. o /\ Len(r) = o - p
        /\ \A i \in 1 .. G : h[i] = g[i]
    <2>1. o \in 1 .. 2
      BY SentPart
    <2> QED BY <2>1 DEF IsSent
  <1>2. \A i \in 1 .. p : h[G + i] = [req |-> n, part |-> (2 - o) + i]
    <2> SUFFICES ASSUME NEW i \in 1 .. p PROVE h[G + i] = [req |-> n, part |-> (2 - o) + i]
      OBVIOUS
    <2>1. h[G + i] = out[i] /\ i \in DOMAIN out
      BY <1>1 DEF IsSent
    <2> QED BY <2>1 DEF PartOf
  <1> HIDE DEF G, o
  <1>3. \A i \in DOMAIN h : i > G => \E c \in 1 .. p : i = G + c
    <2> SUFFICES ASSUME NEW i \in DOMAIN h, i > G PROVE \E c \in 1 .. p : i = G + c
      OBVIOUS
    <2>1. i - G \in 1 .. p /\ i = G + (i - G)
      BY <1>1
    <2> QED BY <2>1
  <1>4. ASSUME NEW i \in DOMAIN h, NEW c \in 1 .. p, i = G + c
        PROVE  h[i].req = n /\ h[i].part = (2 - o) + c
    <2>1. h[i] = [req |-> n, part |-> (2 - o) + c]
      BY <1>2, <1>4
    <2> QED BY <2>1
  <1>5. ASSUME NEW i \in DOMAIN h, i <= G
        PROVE  /\ i \in DOMAIN g /\ h[i] = g[i] /\ g[i].req \in Nat /\ g[i].part \in Nat
               /\ g[i].req < n \/ (g[i].req = n /\ g[i].part <= 2 - o)
    <2>1. i \in DOMAIN g /\ h[i] = g[i]
      BY <1>1, <1>5
    <2> QED BY <2>1 DEF NatGot, Upto, o
  <1>6. Upto(h, n, Len(r))
    <2> SUFFICES ASSUME NEW i \in DOMAIN h
                 PROVE  \/ h[i].req < n
                        \/ h[i].req = n /\ h[i].part <= 2 - Len(r)
      BY DEF Upto
    <2>1. CASE i <= G
      BY <1>1, <1>5, <2>1
    <2>2. CASE i > G
      <3>1. PICK c \in 1 .. p : i = G + c
        BY <1>3, <2>2
      <3>2. h[i].req = n /\ h[i].part = (2 - o) + c
        BY <1>4, <3>1
      <3>3. (2 - o) + c <= 2 - Len(r)
        BY <1>1
      <3> QED BY <3>2, <3>3
    <2> QED BY <1>1, <2>1, <2>2
  <1>7. Ascending(h)
    <2> SUFFICES ASSUME NEW i \in DOMAIN h, NEW j \in DOMAIN h, i < j
                 PROVE  h[i].req < h[j].req \/ (h[i].req = h[j].req /\ h[i].part < h[j].part)
      BY DEF Ascending
    <2>1. CASE j <= G
      <3>1. i <= G
        BY <1>1, <2>1
      <3> QED BY <1>5, <2>1, <3>1 DEF Ascending
    <2>2. CASE j > G
      <3>1. PICK c \in 1 .. p : j = G + c
        BY <1>3, <2>2
      <3>2. h[j].req = n /\ h[j].part = (2 - o) + c
        BY <1>4, <3>1
      <3>3. CASE i <= G
        BY <1>1, <1>5, <3>2, <3>3
      <3>4. CASE i > G
        <4>1. PICK d \in 1 .. p : i = G + d
          BY <1>3, <3>4
        <4>2. h[i].req = n /\ h[i].part = (2 - o) + d
          BY <1>4, <4>1
        <4>3. d < c
          BY <1>1, <3>1, <4>1
        <4> QED BY <1>1, <3>2, <4>2, <4>3
      <3> QED BY <1>1, <3>3, <3>4
    <2> QED BY <1>1, <2>1, <2>2
  <1>8. ASSUME InTurn(g), G = 2 * n - o PROVE InTurn(h)
    <2> SUFFICES ASSUME NEW i \in DOMAIN h
                 PROVE  h[i] = [req |-> (i + 1) \div 2, part |-> 1 + ((i + 1) % 2)]
      BY DEF InTurn
    <2>1. CASE i <= G
      BY <1>5, <1>8, <2>1 DEF InTurn
    <2>2. CASE i > G
      <3>1. PICK c \in 1 .. p : i = G + c
        BY <1>3, <2>2
      <3>2. o \in 0 .. 2 /\ c \in 1 .. o /\ i \in Nat /\ i = (2 * n - o) + c
        BY <1>1, <1>8, <3>1
      <3>3. (i + 1) \div 2 = n /\ 1 + ((i + 1) % 2) = (2 - o) + c
        BY <3>2, TurnOf
      <3>4. h[i] = [req |-> n, part |-> (2 - o) + c]
        BY <1>2, <3>1
      <3> QED BY <3>3, <3>4
    <2> QED BY <1>1, <2>1, <2>2
  <1> QED BY <1>6, <1>7, <1>8 DEF G, o

\* A stream that is empty is between two requests.
LEMMA EmptyBetween ==
  ASSUME NEW k, NEW b, k.toServer = << >>
  PROVE  Between(k, b)
  <1>1. DOMAIN k.toServer = {}
    BY EmptySeq
  <1> QED BY <1>1 DEF Between, Later

\* The fields of a connection that its stream is made of.
SameStream(j, k) == j.toServer = k.toServer /\ j.sent = k.sent /\ j.got = k.got /\ j.torn = k.torn

LEMMA SameOk ==
  ASSUME NEW j, NEW k, NEW b, SameStream(j, k)
  PROVE  /\ ConnOk(k, b) => ConnOk(j, b)
         /\ Between(k, b) => Between(j, b)
  BY DEF SameStream, ConnOk, Between

\* writeFixSize has sent p tokens more.
LEMMA WriteLocal ==
  ASSUME NEW w \in WorkerType, NEW k \in ConnType, NEW b \in BOOLEAN, ConnOk(k, b), Serves(w, k, b),
         w.pc = "write", NEW p \in 1 .. Len(w.out)
  PROVE  /\ ConnOk(Gets(k, w.out, p), b)
         /\ Serves(Sends(w, p), Gets(k, w.out, p), b)
  <1> DEFINE j == Gets(k, w.out, p)
             v == Sends(w, p)
             n == w.req
             out == w.out
             r == v.out
  <1>1. /\ v.pc = "write" /\ v.req = n /\ j.toServer = k.toServer /\ j.sent = k.sent /\ j.closed = k.closed /\ j.torn = k.torn
        /\ k.closed => j.got = k.got
    BY SendsTokens
  <1>2. PICK h : IsSent(h, r, k.got, out, p) /\ (~k.closed => j.got = h)
    BY SendsTokens
  <1>3. Writing(k, n, out, b)
    BY DEF Serves
  <1>4. /\ n \in 1 .. Len(k.sent) /\ Len(k.sent) \in Nat /\ n \in Nat \ {0} /\ Later(k.toServer, n)
        /\ PartOf(out, n) /\ Upto(k.got, n, Len(out))
    BY <1>3, ConnFacts DEF Writing
  <1>5. /\ Len(k.got) \in Nat /\ DOMAIN k.got = 1 .. Len(k.got) /\ NatGot(k.got)
    BY ConnFacts DEF NatGot, Answers
  <1>6. /\ Sound(k.toServer, k.sent, k.torn) /\ k.torn \subseteq 1 .. Len(k.sent)
        /\ Ascending(k.got) /\ \A i \in DOMAIN k.got : k.got[i].req <= Len(k.sent)
        /\ b => InTurn(k.got)
    BY DEF ConnOk
  <1>7. PartOf(r, n) /\ Len(out) \in 1 .. 2
    BY <1>2, <1>4, SentPart
  <1>8. /\ Ascending(h) /\ Upto(h, n, Len(r))
        /\ InTurn(k.got) /\ Len(k.got) = 2 * n - Len(out) => InTurn(h)
    BY <1>2, <1>4, <1>5, <1>6, SentAscending
  <1>9. Len(r) = Len(out) - p /\ Len(h) = Len(k.got) + p /\ p \in 1 .. Len(out)
    BY <1>2 DEF IsSent
  <1>10. out # << >>
    BY <1>7, EmptySeq
  <1>11. b => n = Len(k.sent) /\ (~k.closed => Len(k.got) = 2 * n - Len(out))
    BY <1>3, <1>10 DEF Writing
  <1> HIDE DEF j, v, n, out, r
  <1>12. Ascending(j.got) /\ Upto(j.got, n, Len(r)) /\ (b => InTurn(j.got))
    <2>1. CASE k.closed
      <3>1. Upto(k.got, n, Len(r))
        <4> SUFFICES ASSUME NEW i \in DOMAIN k.got
                     PROVE  \/ k.got[i].req < n
                            \/ k.got[i].req = n /\ k.got[i].part <= 2 - Len(r)
          BY DEF Upto
        <4>1. \/ k.got[i].req < n
              \/ k.got[i].req = n /\ k.got[i].part <= 2 - Len(out)
          BY <1>4 DEF Upto
        <4>2. k.got[i].part \in Nat
          BY <1>5 DEF NatGot
        <4> QED BY <4>1, <4>2, <1>7, <1>9
      <3> QED BY <2>1, <3>1, <1>1, <1>6
    <2>2. CASE ~k.closed
      BY <2>2, <1>2, <1>6, <1>8, <1>11
    <2> QED BY <2>1, <2>2
  <1>13. \A i \in DOMAIN j.got : j.got[i].req <= Len(j.sent)
    <2>1. CASE k.closed
      BY <2>1, <1>1, <1>6
    <2>2. CASE ~k.closed
      <3> SUFFICES ASSUME NEW i \in DOMAIN j.got PROVE j.got[i].req <= Len(k.sent)
        BY <1>1
      <3>1. j.got[i].req < n \/ j.got[i].req = n
        BY <1>12 DEF Upto
      <3>2. j.got[i].req \in Nat
        <4>1. j \in ConnType
          BY GetsType DEF j
        <4> QED BY <4>1, ConnFacts
      <3> QED BY <3>1, <3>2, <1>4
    <2> QED BY <2>1, <2>2
  <1>14. ConnOk(j, b)
    BY <1>1, <1>6, <1>12, <1>13 DEF ConnOk
  <1>15. b => IF r = << >> THEN Between(j, b)
              ELSE n = Len(j.sent) /\ (~j.closed => Len(j.got) = 2 * n - Len(r))
    <2> SUFFICES ASSUME b
                 PROVE  /\ Between(j, b)
                        /\ n = Len(j.sent) /\ (~j.closed => Len(j.got) = 2 * n - Len(r))
      OBVIOUS
    <2>1. n = Len(j.sent)
      BY <1>1, <1>11
    <2>2. Between(j, b)
      <3>1. j \in ConnType /\ Sound(j.toServer, j.sent, j.torn) /\ Later(j.toServer, n)
        BY <1>1, <1>4, <1>6, GetsType DEF j
      <3>2. \A i \in DOMAIN j.got : j.got[i].req <= n
        BY <2>1, <1>13
      <3> QED BY <2>1, <3>1, <3>2, <1>4, DoneBetween
    <2>3. ~j.closed => Len(j.got) = 2 * n - Len(r)
      <3>1. PICK g \in Nat, o \in Nat, m \in Nat : g = Len(k.got) /\ o = Len(out) /\ m = n
        BY <1>4, <1>5, <1>7
      <3>2. ~j.closed => Len(j.got) = g + p /\ g = 2 * m - o
        BY <3>1, <1>1, <1>2, <1>9, <1>11
      <3>3. Len(r) = o - p /\ p \in 1 .. o
        BY <3>1, <1>9
      <3>4. g = 2 * m - o => g + p = 2 * m - (o - p)
        BY <3>3
      <3> QED BY <3>1, <3>2, <3>3, <3>4
    <2> QED BY <2>1, <2>2, <2>3
  <1>16. Writing(j, n, r, b)
    BY <1>1, <1>4, <1>7, <1>12, <1>15 DEF Writing
  <1>17. Serves(v, j, b)
    BY <1>1, <1>16 DEF Serves, r
  <1> QED BY <1>14, <1>17 DEF j, v, out

\* send() has failed on a non-blocking socket, and the answer is given up.
LEMMA WriteFailsLocal ==
  ASSUME NEW w \in WorkerType, NEW k \in ConnType, NEW b \in BOOLEAN, ConnOk(k, b), Serves(w, k, b),
         w.pc = "write", w.out # << >>
  PROVE  Serves([w EXCEPT !.out = << >>], k, b)
  <1> DEFINE v == [w EXCEPT !.out = << >>]
  <1>1. v.pc = "write" /\ v.req = w.req /\ v.out = << >>
    BY DEF WorkerType
  <1>2. Writing(k, w.req, w.out, b)
    BY DEF Serves
  <1>3. PartOf(<< >>, w.req)
    BY EmptySeq DEF PartOf
  <1>4. Upto(k.got, w.req, Len(<< >>))
    <2> SUFFICES ASSUME NEW i \in DOMAIN k.got
                 PROVE  \/ k.got[i].req < w.req
                        \/ k.got[i].req = w.req /\ k.got[i].part <= 2
      BY DEF Upto
    <2>1. k.got[i].part <= 2
      <3>1. k.got[i] \in Answers
        BY ConnFacts
      <3> QED BY <3>1 DEF Answers
    <2> QED BY <1>2, <2>1 DEF Writing, Upto
  <1>5. b => Between(k, b)
    <2> SUFFICES ASSUME b PROVE Between(k, b)
      OBVIOUS
    <2>1. PICK n \in Nat : n = w.req /\ n = Len(k.sent) /\ Later(k.toServer, n)
      BY <1>2 DEF Writing, WorkerType
    <2>2. Sound(k.toServer, k.sent, k.torn) /\ \A i \in DOMAIN k.got : k.got[i].req <= n
      BY <2>1 DEF ConnOk
    <2> QED BY <2>1, <2>2, DoneBetween
  <1>6. Writing(k, w.req, << >>, b)
    BY <1>2, <1>3, <1>4, <1>5 DEF Writing
  <1> HIDE DEF v
  <1>7. Serves(v, k, b)
    BY <1>1, <1>6 DEF Serves
  <1> QED BY <1>7 DEF v

\* The loop of handleClient begins again.
LEMMA FinishLocal ==
  ASSUME NEW w \in WorkerType, NEW k \in ConnType, NEW b \in BOOLEAN, Serves(w, k, b),
         w.pc = "write", w.out = << >>, NEW v, v.pc = "header", v.parsed = "start"
  PROVE  Serves(v, k, b)
  <1>1. Writing(k, w.req, << >>, b)
    BY DEF Serves
  <1>2. ASSUME ~b PROVE Between(k, b)
    <2>1. ASSUME NEW i \in DOMAIN k.got PROVE Later(k.toServer, k.got[i].req)
      <3> SUFFICES ASSUME NEW p \in DOMAIN k.toServer, k.toServer[p].kind = "line"
                   PROVE  k.got[i].req < k.toServer[p].req
        BY DEF Later
      <3>1. k.got[i].req <= w.req /\ k.got[i].req \in Nat /\ w.req \in Nat
        <4>1. k.got[i].req < w.req \/ k.got[i].req = w.req
          BY <1>1 DEF Writing, Upto
        <4>2. k.got[i].req \in Nat /\ w.req \in Nat
          BY ConnFacts DEF WorkerType
        <4> QED BY ONLY <4>1, <4>2
      <3>2. w.req < k.toServer[p].req
        BY <1>1 DEF Writing, Later
      <3>3. k.toServer[p].req \in Nat
        <4>1. k.toServer[p] \in Tokens
          BY ConnFacts, ElementOfSeq
        <4> QED BY <4>1 DEF Tokens, Lines, Ends, Bytes
      <3> QED BY <3>1, <3>2, <3>3
    <2> QED BY <1>2, <2>1 DEF Between
  <1>3. ASSUME b PROVE Between(k, b)
    BY <1>1, <1>3 DEF Writing
  <1> QED BY <1>2, <1>3 DEF Serves

\* A client that waits sends its next request.
LEMMA SendBetween ==
  ASSUME NEW k \in ConnType, NEW b \in BOOLEAN, ConnOk(k, b), Between(k, b), NEW x, NEW l, NEW len,
         IsMore(x, l, k.toServer, k.sent, len), b => Len(k.got) = 2 * Len(k.sent),
         NEW j, j.toServer = x, j.sent = l, j.got = k.got
  PROVE  Between(j, b)
  <1> DEFINE q == k.toServer
             s == Len(k.sent)
  <1>1. s \in Nat /\ Len(q) \in Nat /\ q \in Seq(Tokens)
    BY ConnFacts
  <1>2. ASSUME NEW i \in DOMAIN k.got PROVE Later(x, k.got[i].req)
    <2>1. k.got[i].req \in Nat /\ k.got[i].req <= Len(k.sent) /\ Later(k.toServer, k.got[i].req)
      BY ConnFacts DEF ConnOk, Between
    <2>2. PICK m \in Nat : m = k.got[i].req
      BY <2>1
    <2>3. Later(x, m)
      BY <2>1, <2>2, LaterMore
    <2> QED BY <2>2, <2>3
  <1>3. ASSUME b, NEW p \in DOMAIN x, x[p].kind = "line"
        PROVE  x[p].req = Len(l) /\ Len(k.got) = 2 * (Len(l) - 1)
    <2>1. Len(k.got) = 2 * s
      BY <1>3
    <2>2. Later(q, s)
      <3> SUFFICES ASSUME NEW i \in DOMAIN q, q[i].kind = "line" PROVE FALSE
        BY DEF Later
      <3>1. Len(k.got) = 2 * (s - 1)
        BY <1>3 DEF Between
      <3> QED BY <1>1, <2>1, <3>1
    <2>3. Later(x, s)
      BY <1>1, <2>2, LaterMore
    <2>4. Sound(x, l, k.torn) /\ Len(l) = s + 1
      BY SoundMore, ZenonT(30) DEF ConnOk, IsMore
    <2>5. s < x[p].req /\ x[p].req \in 1 .. s + 1
      BY <2>3, <2>4, <1>3 DEF Later, Sound
    <2> QED BY <2>1, <2>4, <2>5, <1>1
  <1> QED BY <1>2, <1>3 DEF Between

LEMMA SendOk ==
  ASSUME NEW k \in ConnType, NEW b \in BOOLEAN, ConnOk(k, b), NEW x, NEW l, NEW len,
         IsMore(x, l, k.toServer, k.sent, len), NEW j, j.toServer = x, j.sent = l, j.got = k.got, j.torn = k.torn
  PROVE  ConnOk(j, b)
  <1>1. Sound(x, l, k.torn)
    BY SoundMore DEF ConnOk
  <1>2. Len(l) = Len(k.sent) + 1 /\ Len(k.sent) \in Nat
    BY DEF IsMore
  <1>3. ASSUME NEW i \in DOMAIN k.got PROVE k.got[i].req <= Len(l)
    <2>1. k.got[i].req \in Nat /\ k.got[i].req <= Len(k.sent)
      BY ConnFacts DEF ConnOk
    <2> QED BY <2>1, <1>2
  <1>4. k.torn \subseteq 1 .. Len(l)
    BY <1>2 DEF ConnOk
  <1> QED BY <1>1, <1>3, <1>4 DEF ConnOk

\* A request that is sent while the handler is busy with an earlier one.
LEMMA SendServes ==
  ASSUME NEW w \in WorkerType, NEW k \in ConnType, NEW b \in BOOLEAN, ConnOk(k, b), Serves(w, k, b),
         NEW x, NEW l, NEW len, IsMore(x, l, k.toServer, k.sent, len), b => Len(k.got) = 2 * Len(k.sent),
         ~k.closed, NEW j, j.toServer = x, j.sent = l, j.got = k.got, j.closed = k.closed, j.torn = k.torn
  PROVE  Serves(w, j, b)
  <1> DEFINE q == k.toServer
             s == Len(k.sent)
             n == w.req
  <1>1. s \in Nat /\ Len(q) \in Nat /\ q \in Seq(Tokens) /\ n \in Nat
    BY ConnFacts DEF WorkerType
  <1>2. /\ Len(l) = s + 1 /\ (\A i \in 1 .. s : l[i] = k.sent[i]) /\ \A i \in 1 .. Len(q) : x[i] = q[i]
        /\ len \in Nat /\ Len(x) = Len(q) + 2 + len
    BY DEF IsMore
  <1>3. Between(k, b) => Between(j, b)
    BY SendBetween
  <1>4. ASSUME Within(k, n, b)
        PROVE  n \in 1 .. s /\ l[n] = k.sent[n] /\ Within(j, n, b)
    <2>1. n \in 1 .. s /\ Below(k.got, n) /\ Later(q, n)
      BY <1>4 DEF Within
    <2>2. ~b
      <3> SUFFICES ASSUME b PROVE FALSE
        OBVIOUS
      <3>1. Len(k.got) = 2 * (n - 1) /\ n = s
        BY <1>4 DEF Within
      <3>2. Len(k.got) = 2 * s
        OBVIOUS
      <3> QED BY <1>1, <3>1, <3>2
    <2>3. Later(x, n)
      BY <1>1, <2>1, LaterMore
    <2>4. n \in 1 .. Len(l)
      BY <1>1, <1>2, <2>1
    <2>5. Within(j, n, b)
      BY <2>1, <2>2, <2>3, <2>4 DEF Within
    <2> QED BY <2>1, <2>5, <1>2
  <1> HIDE DEF q, s, n
  <1>5. CASE w.pc = "header" /\ w.parsed = "start"
    BY <1>3, <1>5 DEF Serves
  <1>6. CASE w.pc = "header" /\ w.parsed = "line"
    <2>1. /\ Within(k, n, b) /\ q # << >> /\ q[1].kind = "end" /\ q[1].req = n
          /\ n \in k.torn => q[1].len = 0
      BY <1>6 DEF Serves, q, n
    <2>2. Within(j, n, b)
      BY <1>4, <2>1
    <2>3. 1 \in 1 .. Len(q)
      BY <1>1, <2>1, EmptySeq
    <2>4. x[1] = q[1] /\ Len(x) # 0
      BY <1>1, <1>2, <2>3
    <2>5. x # << >>
      BY <2>4, EmptySeq
    <2> QED BY <1>6, <2>1, <2>2, <2>4, <2>5 DEF Serves, n
  <1>7. CASE w.pc = "body"
    <2>1. /\ Within(k, n, b) /\ n \notin k.torn /\ w.len = k.sent[n] /\ Len(w.body) < w.len
          /\ \A i \in 1 .. Len(w.body) : w.body[i] = Byte(n, i)
          /\ w.len - Len(w.body) <= Len(q)
          /\ \A i \in 1 .. w.len - Len(w.body) : q[i] = Byte(n, Len(w.body) + i)
      BY <1>7 DEF Serves, q, n
    <2>2. Within(j, n, b) /\ w.len = j.sent[n]
      BY <1>4, <2>1
    <2>3. PICK a \in Int : a = w.len - Len(w.body)
      BY LenProperties DEF WorkerType
    <2>4. a <= Len(x) /\ \A i \in 1 .. a : x[i] = q[i]
      BY <1>1, <1>2, <2>1, <2>3
    <2> QED BY <1>7, <2>1, <2>2, <2>3, <2>4 DEF Serves, n
  <1>8. CASE w.pc = "handle"
    <2>1. Within(k, n, b) /\ w.len = (IF n \in k.torn THEN 0 ELSE k.sent[n]) /\ BodyOf(w)
      BY <1>8 DEF Serves, n
    <2>2. Within(j, n, b) /\ j.sent[n] = k.sent[n]
      BY <1>4, <2>1
    <2> QED BY <1>8, <2>1, <2>2 DEF Serves, n
  <1>9. CASE w.pc = "write"
    <2>1. /\ n \in 1 .. s /\ Later(q, n) /\ PartOf(w.out, n) /\ Upto(k.got, n, Len(w.out))
          /\ b => IF w.out = << >> THEN Between(k, b)
                  ELSE n = s /\ Len(k.got) = 2 * n - Len(w.out)
      BY <1>9 DEF Serves, Writing, q, n, s
    <2>2. n \in 1 .. Len(l)
      BY <1>1, <1>2, <2>1
    <2>3. Later(x, n)
      BY <1>1, <2>1, LaterMore DEF q, s
    <2>4. b => w.out = << >>
      <3> SUFFICES ASSUME b, w.out # << >> PROVE FALSE
        OBVIOUS
      <3>1. n = s /\ Len(k.got) = 2 * n - Len(w.out) /\ Len(k.got) = 2 * s
        BY <2>1 DEF s
      <3>2. PICK o \in Nat \ {0} : o = Len(w.out)
        BY EmptySeq, LenProperties DEF WorkerType
      <3>3. 2 * s = 2 * s - o
        BY <3>1, <3>2
      <3>4. o \in Nat \ {0} /\ s \in Nat
        BY <1>1
      <3> QED BY ONLY <3>3, <3>4
    <2>5. b => Between(j, b)
      BY <1>3, <2>1, <2>4
    <2>6. Writing(j, n, w.out, b)
      BY <2>1, <2>2, <2>3, <2>4, <2>5 DEF Writing
    <2> QED BY <1>9, <2>6 DEF Serves, n
  <1> QED BY <1>5, <1>6, <1>7, <1>8, <1>9 DEF WorkerType, Serves

\* A client that closes its end sends and gets nothing more.
LEMMA CloseServes ==
  ASSUME NEW w, NEW k, NEW b \in BOOLEAN, Serves(w, k, b), NEW j, SameStream(j, k), j.closed = TRUE
  PROVE  Serves(w, j, b)
  <1>1. Between(k, b) => Between(j, b)
    BY SameOk
  <1>2. \A n : Within(k, n, b) => Within(j, n, b)
    BY DEF Within, SameStream
  <1>3. \A n, out : Writing(k, n, out, b) => Writing(j, n, out, b)
    BY <1>1 DEF Writing, SameStream
  <1> QED BY <1>1, <1>2, <1>3 DEF Serves, SameStream
-----------------------------------------------------------------------------
(* From one connection to all of them. *)

\* A step of one handler leaves the other connections alone.
LEMMA HandlerStep ==
  ASSUME IInv, NEW t \in WorkThreads, worker[t].pc # "idle", NEW w, NEW k, Moves(t, w, k), Proper(t, w, k),
         ConnOk(k, Waits(worker[t].conn)), w.pc # "idle" => Serves(w, k, Waits(worker[t].conn))
  PROVE  IInv'
  <1> DEFINE c == worker[t].conn
  <1>1. OInv'
    BY ProperStep DEF IInv
  <1>2. OInv /\ Streams /\ Waiting /\ Serving
    BY DEF IInv
  <1>3. c \in Conns /\ c # 0
    BY <1>2, AtWork DEF OInv, Owners
  <1>4. DOMAIN conn = Conns /\ DOMAIN worker = WorkThreads
    BY <1>2 DEF OInv, Types
  <1>5. /\ conn'[c] = k /\ \A d \in Conns \ {c} : conn'[d] = conn[d]
        /\ worker'[t] = w /\ \A u \in WorkThreads \ {t} : worker'[u] = worker[u]
    BY <1>3, <1>4 DEF Moves
  <1>6. /\ k.at \in {"served", "done"} /\ (w.pc # "idle" => w.conn = c)
    BY DEF Proper
  <1>7. \A u \in WorkThreads \ {t} : worker[u].pc # "idle" => worker[u].conn \in Conns \ {c}
    BY <1>2, <1>3, AtWork DEF OInv, Owners
  <1> HIDE DEF c
  <1>8. Streams'
    <2> SUFFICES ASSUME NEW d \in Conns PROVE ConnOk(conn'[d], Waits(d))
      BY DEF Streams, Waits
    <2> QED BY <1>2, <1>5 DEF Streams, c
  <1>9. Waiting'
    <2> SUFFICES ASSUME NEW d \in Conns, conn'[d].at \in {"none", "backlog", "queued"} PROVE Between(conn'[d], Waits(d))
      BY DEF Waiting, Waits
    <2>1. d # c
      BY <1>3, <1>5, <1>6
    <2> QED BY <1>2, <1>5, <2>1 DEF Waiting
  <1>10. Serving'
    <2> SUFFICES ASSUME NEW u \in WorkThreads, worker'[u].pc # "idle"
                 PROVE  Serves(worker'[u], conn'[worker'[u].conn], Waits(worker'[u].conn))
      BY DEF Serving, Mine, Waits
    <2>1. CASE u = t
      BY <2>1, <1>5, <1>6 DEF c
    <2>2. CASE u # t
      <3>1. worker'[u] = worker[u] /\ worker[u].conn \in Conns \ {c}
        BY <2>2, <1>5, <1>7
      <3>2. conn'[worker[u].conn] = conn[worker[u].conn]
        BY <3>1, <1>5
      <3> QED BY <3>1, <3>2, <1>2 DEF Serving, Mine
    <2> QED BY <2>1, <2>2
  <1> QED BY <1>1, <1>8, <1>9, <1>10 DEF IInv

\* Neither does a step of one client, or the arrival of its connection.
LEMMA ConnectionStep ==
  ASSUME IInv, OInv', NEW c \in Conns, NEW k, conn' = [conn EXCEPT ![c] = k], worker' = worker,
         ConnOk(k, Waits(c)), k.at \in {"none", "backlog", "queued"} => Between(k, Waits(c)),
         \A t \in WorkThreads : worker[t].pc # "idle" /\ worker[t].conn = c => Serves(worker[t], k, Waits(c))
  PROVE  IInv'
  <1>1. OInv /\ Streams /\ Waiting /\ Serving
    BY DEF IInv
  <1>2. DOMAIN conn = Conns
    BY <1>1 DEF OInv, Types
  <1>3. conn'[c] = k /\ \A d \in Conns \ {c} : conn'[d] = conn[d]
    BY <1>2
  <1>4. Streams'
    <2> SUFFICES ASSUME NEW d \in Conns PROVE ConnOk(conn'[d], Waits(d))
      BY DEF Streams, Waits
    <2> QED BY <1>1, <1>3 DEF Streams
  <1>5. Waiting'
    <2> SUFFICES ASSUME NEW d \in Conns, conn'[d].at \in {"none", "backlog", "queued"} PROVE Between(conn'[d], Waits(d))
      BY DEF Waiting, Waits
    <2> QED BY <1>1, <1>3 DEF Waiting
  <1>6. Serving'
    <2> SUFFICES ASSUME NEW u \in WorkThreads, worker[u].pc # "idle"
                 PROVE  Serves(worker[u], conn'[worker[u].conn], Waits(worker[u].conn))
      BY DEF Serving, Mine, Waits
    <2>1. worker[u].conn \in Conns
      BY <1>1, AtWork
    <2>2. CASE worker[u].conn = c
      BY <2>2, <1>3
    <2>3. CASE worker[u].conn # c
      <3>1. conn'[worker[u].conn] = conn[worker[u].conn]
        BY <1>3, <2>1, <2>3
      <3> QED BY <3>1, <1>1 DEF Serving, Mine
    <2> QED BY <2>2, <2>3
  <1> QED BY <1>4, <1>5, <1>6 DEF IInv

LEMMA IInit == Init => IInv
  <1> SUFFICES ASSUME Init PROVE IInv
    OBVIOUS
  <1>1. OInv
    BY OInit
  <1>2. \A c \in Conns : conn[c] = NewConn
    BY DEF Init
  <1>3. \A t \in WorkThreads : worker[t].pc = "idle"
    BY DEF Init, NewWorker
  <1>4. NewConn.toServer = << >> /\ NewConn.got = << >> /\ NewConn.sent = << >> /\ NewConn.torn = {}
    BY DEF NewConn
  <1>5. DOMAIN << >> = {}
    BY EmptySeq
  <1>6. ASSUME NEW b PROVE ConnOk(NewConn, b) /\ Between(NewConn, b)
    BY <1>4, <1>5, EmptyBetween DEF ConnOk, Sound, Ascending, InTurn
  <1> HIDE DEF Init
  <1> QED BY <1>1, <1>2, <1>3, <1>6 DEF IInv, Streams, Waiting, Serving

LEMMA IUnchanged ==
  ASSUME IInv, UNCHANGED <<conn, worker, workTasks>> PROVE IInv'
  <1>1. OInv'
    BY OUnchanged DEF IInv
  <1>2. Streams' /\ Waiting'
    BY DEF IInv, Streams, Waiting, Waits
  <1>3. Serving'
    BY DEF IInv, Serving, Mine, Waits
  <1> QED BY <1>1, <1>2, <1>3 DEF IInv

LEMMA IWork ==
  ASSUME IInv, NEW t \in WorkThreads, Work(t) PROVE IInv'
  <1> DEFINE b == Waits(worker[t].conn)
  <1>1. OInv /\ Streams /\ Waiting /\ Serving
    BY DEF IInv
  <1>2. b \in BOOLEAN
    BY DEF Waits
  <1>3. ASSUME worker[t].pc # "idle"
        PROVE  /\ worker[t] \in WorkerType /\ Mine(t) \in ConnType
               /\ ConnOk(Mine(t), b) /\ Serves(worker[t], Mine(t), b)
    BY <1>1, <1>3, AtWork DEF Streams, Serving, Mine
  <1> HIDE DEF b
  <1>4. CASE TakeClient(t)
    <2>1. PICK c \in Conns, k \in ConnType, w \in WorkerType :
           /\ conn' = [conn EXCEPT ![c] = k] /\ worker' = [worker EXCEPT ![t] = w]
           /\ conn[c].at = "queued" /\ k.at = "served" /\ k.toServer = conn[c].toServer
           /\ k.sent = conn[c].sent /\ k.got = conn[c].got /\ k.closed = conn[c].closed /\ k.torn = conn[c].torn
           /\ w.pc = "header" /\ w.parsed = "start" /\ w.conn = c /\ worker[t].pc = "idle"
      BY <1>1, <1>4, TakeClientStep
    <2>2. OInv'
      BY <1>1, <1>4, TakeClientStep
    <2>3. DOMAIN conn = Conns /\ DOMAIN worker = WorkThreads
      BY <1>1 DEF OInv, Types
    <2>4. /\ conn'[c] = k /\ \A d \in Conns \ {c} : conn'[d] = conn[d]
          /\ worker'[t] = w /\ \A u \in WorkThreads \ {t} : worker'[u] = worker[u]
      BY <2>1, <2>3
    <2>5. ConnOk(k, Waits(c)) /\ Between(k, Waits(c))
      <3>1. SameStream(k, conn[c])
        BY <2>1 DEF SameStream
      <3>2. ConnOk(conn[c], Waits(c)) /\ Between(conn[c], Waits(c))
        BY <1>1, <2>1 DEF Streams, Waiting
      <3> QED BY <3>1, <3>2, SameOk
    <2>6. Serves(w, k, Waits(c))
      BY <2>1, <2>5 DEF Serves
    <2>7. Streams'
      <3> SUFFICES ASSUME NEW d \in Conns PROVE ConnOk(conn'[d], Waits(d))
        BY DEF Streams, Waits
      <3> QED BY <1>1, <2>4, <2>5 DEF Streams
    <2>8. Waiting'
      <3> SUFFICES ASSUME NEW d \in Conns, conn'[d].at \in {"none", "backlog", "queued"} PROVE Between(conn'[d], Waits(d))
        BY DEF Waiting, Waits
      <3> QED BY <1>1, <2>4, <2>5 DEF Waiting
    <2>9. Serving'
      <3> SUFFICES ASSUME NEW u \in WorkThreads, worker'[u].pc # "idle"
                   PROVE  Serves(worker'[u], conn'[worker'[u].conn], Waits(worker'[u].conn))
        BY DEF Serving, Mine, Waits
      <3>1. CASE u = t
        BY <3>1, <2>1, <2>4, <2>6
      <3>2. CASE u # t
        <4>1. worker'[u] = worker[u] /\ worker[u].conn \in Conns /\ conn[worker[u].conn].at = "served"
          BY <3>2, <2>4, <1>1, AtWork DEF Mine
        <4>2. conn'[worker[u].conn] = conn[worker[u].conn]
          BY <4>1, <2>1, <2>4
        <4> QED BY <4>1, <4>2, <1>1 DEF Serving, Mine
      <3> QED BY <3>1, <3>2
    <2> QED BY <2>2, <2>7, <2>8, <2>9 DEF IInv
  <1>5. CASE ReadHeader(t)
    <2>1. worker[t].pc = "header" /\ worker[t].pc # "idle"
      BY <1>5 DEF ReadHeader
    <2>0. PICK n \in 1 .. Len(Mine(t).toServer) : \E w :
           /\ Moves(t, w, Consumed(Mine(t), n))
           /\ \/ HeaderFails(worker[t], Mine(t).toServer, n, w)
              \/ HeaderLine(worker[t], Mine(t).toServer, n, w)
              \/ HeaderEnds(worker[t], Mine(t).toServer, n, w)
      BY <1>1, <1>5, ReadHeaderMoves
    <2>2. PICK w :
           /\ Moves(t, w, Consumed(Mine(t), n))
           /\ \/ HeaderFails(worker[t], Mine(t).toServer, n, w)
              \/ HeaderLine(worker[t], Mine(t).toServer, n, w)
              \/ HeaderEnds(worker[t], Mine(t).toServer, n, w)
      BY <2>0
    <2>3. Proper(t, w, Consumed(Mine(t), n))
      BY <1>1, <2>1, <2>2, HeaderProper
    <2>4. ConnOk(Consumed(Mine(t), n), b)
      BY <1>2, <1>3, <2>1, ConsumedOk
    <2>5. Serves(w, Consumed(Mine(t), n), b)
      <3>1. CASE HeaderFails(worker[t], Mine(t).toServer, n, w)
        <4>1. w = worker[t]
          BY <3>1 DEF HeaderFails
        <4> QED BY <4>1, <3>1, <1>2, <1>3, <2>1, HeaderFailsLocal
      <3>2. CASE HeaderLine(worker[t], Mine(t).toServer, n, w)
        <4>1. n = 1 /\ Len(Mine(t).toServer) \in Nat \ {0}
          BY <3>2, <1>3, <2>1, ConnFacts DEF HeaderLine
        <4> QED BY <4>1, <3>2, <1>2, <1>3, <2>1, HeaderLineLocal
      <3>3. CASE HeaderEnds(worker[t], Mine(t).toServer, n, w)
        BY <3>3, <1>2, <1>3, <2>1, HeaderEndsLocal
      <3> QED BY <2>2, <3>1, <3>2, <3>3
    <2> QED BY <2>1, <2>2, <2>3, <2>4, <2>5, HandlerStep DEF b
  <1>6. CASE ReadBody(t)
    <2>1. worker[t].pc = "body" /\ worker[t].pc # "idle"
      BY <1>6 DEF ReadBody
    <2>2. PICK n \in 1 .. Len(Mine(t).toServer) :
           /\ n <= worker[t].len - Len(worker[t].body)
           /\ Moves(t, BodyRead(worker[t], SubSeq(Mine(t).toServer, 1, n)), Consumed(Mine(t), n))
      BY <1>1, <1>6, ReadBodyMoves
    <2>3. Proper(t, BodyRead(worker[t], SubSeq(Mine(t).toServer, 1, n)), Consumed(Mine(t), n))
      BY <1>1, <2>1, BodyProper
    <2>4. ConnOk(Consumed(Mine(t), n), b)
      BY <1>2, <1>3, <2>1, ConsumedOk
    <2>5. Serves(BodyRead(worker[t], SubSeq(Mine(t).toServer, 1, n)), Consumed(Mine(t), n), b)
      BY <1>2, <1>3, <2>1, <2>2, BodyLocal
    <2> QED BY <2>1, <2>2, <2>3, <2>4, <2>5, HandlerStep DEF b
  <1>7. CASE ReadFails(t) \/ ReadPartOfLine(t)
    BY <1>7, IUnchanged DEF ReadFails, ReadPartOfLine, Unmoved
  <1>12. CASE ReadPartOfHeader(t)
    <2>1. PICK k : k = Torn(Mine(t), worker[t].req)
      OBVIOUS
    <2>2. /\ worker[t].pc = "header" /\ worker[t].pc # "idle" /\ worker[t].parsed = "line"
          /\ Moves(t, worker[t], k) /\ Proper(t, worker[t], k)
      BY <1>1, <1>12, <2>1, TearMoves
    <2>3. ConnOk(k, b) /\ Serves(worker[t], k, b)
      BY <1>2, <1>3, <2>1, <2>2, TornLocal
    <2> QED BY ONLY IInv, <2>2, <2>3, HandlerStep, t \in WorkThreads DEF b
  <1>8. CASE Dispatch(t)
    <2>1. worker[t].pc = "handle" /\ worker[t].pc # "idle"
      BY <1>8 DEF Dispatch
    <2>2. CASE Moves(t, Answering(worker[t]), Mine(t))
      <3>1. Proper(t, Answering(worker[t]), Mine(t))
        BY <1>1, <2>1, AnswerProper
      <3>2. Serves(Answering(worker[t]), Mine(t), b)
        BY <1>2, <1>3, <2>1, AnsweringLocal
      <3> QED BY <1>3, <2>1, <2>2, <3>1, <3>2, HandlerStep DEF b
    <2> QED BY <1>1, <1>8, <2>2, AnswerMoves, IUnchanged
  <1>9. CASE Write(t)
    <2>1. worker[t].pc = "write" /\ worker[t].pc # "idle"
      BY <1>9 DEF Write
    <2>2. PICK n \in 1 .. Len(worker[t].out) :
            Moves(t, Sends(worker[t], n), Gets(Mine(t), worker[t].out, n))
      BY <1>1, <1>9, AnswerMoves
    <2>3. Proper(t, Sends(worker[t], n), Gets(Mine(t), worker[t].out, n))
      BY <1>1, <2>1, AnswerProper
    <2>4. /\ ConnOk(Gets(Mine(t), worker[t].out, n), b)
          /\ Serves(Sends(worker[t], n), Gets(Mine(t), worker[t].out, n), b)
      BY <1>2, <1>3, <2>1, WriteLocal
    <2> QED BY <2>1, <2>2, <2>3, <2>4, HandlerStep DEF b
  <1>10. CASE WriteFails(t)
    <2>1. worker[t].pc = "write" /\ worker[t].pc # "idle" /\ worker[t].out # << >>
      BY <1>10 DEF WriteFails
    <2>2. CASE Moves(t, [worker[t] EXCEPT !.out = << >>], Mine(t))
      <3>1. PICK v : v = [worker[t] EXCEPT !.out = << >>]
        OBVIOUS
      <3>2. Proper(t, v, Mine(t))
        BY <1>1, <2>1, <3>1, AnswerProper
      <3>3. Serves(v, Mine(t), b)
        BY <1>2, <1>3, <2>1, <3>1, WriteFailsLocal
      <3>4. Moves(t, v, Mine(t))
        BY <2>2, <3>1
      <3> QED BY ONLY IInv, <1>3, <2>1, <3>2, <3>3, <3>4, HandlerStep DEF b
    <2> QED BY <1>1, <1>10, <2>2, AnswerMoves, IUnchanged
  <1>11. CASE Finish(t)
    <2>1. worker[t].pc = "write" /\ worker[t].pc # "idle" /\ worker[t].out = << >>
      BY <1>11 DEF Finish
    <2>2. CASE Moves(t, NewWorker, [Mine(t) EXCEPT !.at = "done"])
      <3>1. PICK k : k = [Mine(t) EXCEPT !.at = "done"]
        OBVIOUS
      <3>2. Proper(t, NewWorker, k) /\ Moves(t, NewWorker, k) /\ NewWorker.pc = "idle"
        BY <1>1, <2>1, <2>2, <3>1, AnswerProper DEF NewWorker
      <3>3. SameStream(k, Mine(t))
        BY <3>1, <1>3, <2>1 DEF SameStream, ConnType
      <3>4. ConnOk(k, b)
        BY <1>3, <2>1, <3>3, SameOk
      <3> QED BY ONLY IInv, <2>1, <3>2, <3>4, HandlerStep, t \in WorkThreads DEF b
    <2>3. CASE Moves(t, [NewWorker EXCEPT !.pc = "header", !.conn = worker[t].conn], Mine(t))
      <3>1. PICK v : v = [NewWorker EXCEPT !.pc = "header", !.conn = worker[t].conn]
        OBVIOUS
      <3>2. Proper(t, v, Mine(t)) /\ Moves(t, v, Mine(t))
        BY <1>1, <2>1, <2>3, <3>1, AnswerProper
      <3>3. v.pc = "header" /\ v.parsed = "start"
        BY <3>1 DEF NewWorker
      <3>4. Serves(v, Mine(t), b)
        BY <1>2, <1>3, <2>1, <3>3, FinishLocal
      <3> QED BY ONLY IInv, <1>3, <2>1, <3>2, <3>4, HandlerStep, t \in WorkThreads DEF b
    <2> QED BY <1>1, <1>11, <2>2, <2>3, AnswerMoves
  <1> QED BY <1>4, <1>5, <1>6, <1>7, <1>8, <1>9, <1>10, <1>11, <1>12 DEF Work

LEMMA IClient ==
  ASSUME IInv, NEW c \in Conns, Send(c) \/ ClientCloses(c) \/ \E l \in Listeners : Connect(c, l)
  PROVE  IInv'
  <1> DEFINE b == Waits(c)
             k == conn[c]
  <1>1. OInv /\ Streams /\ Waiting /\ Serving
    BY DEF IInv
  <1>2. b \in BOOLEAN /\ k \in ConnType /\ ConnOk(k, b)
    BY <1>1 DEF Waits, Streams, OInv, Types
  <1>3. OInv'
    BY <1>1, OClient
  <1>4. k.at \in {"none", "backlog", "queued"} => Between(k, b)
    BY <1>1 DEF Waiting
  <1>5. \A t \in WorkThreads : worker[t].pc # "idle" /\ worker[t].conn = c =>
            worker[t] \in WorkerType /\ Serves(worker[t], k, b)
    BY <1>1, AtWork DEF Serving, Mine
  <1> HIDE DEF b, k
  <1>6. ASSUME NEW l \in Listeners, Connect(c, l) PROVE IInv'
    <2>1. ClientMoves(c, [k EXCEPT !.at = "backlog", !.listener = l]) /\ k.at = "none"
      BY <1>1, <1>6, ClientTypes DEF Connect, k
    <2>2. PICK j : j = [k EXCEPT !.at = "backlog", !.listener = l]
      OBVIOUS
    <2>3. SameStream(j, k)
      BY <1>2, <2>2 DEF SameStream, ConnType
    <2>4. ConnOk(j, b) /\ Between(j, b)
      BY <1>2, <1>4, <2>1, <2>3, SameOk
    <2>5. \A t \in WorkThreads : worker[t].pc # "idle" => worker[t].conn # c
      BY <1>1, <2>1, AtWork DEF Mine, k
    <2>6. conn' = [conn EXCEPT ![c] = j] /\ worker' = worker
      BY <2>1, <2>2 DEF ClientMoves
    <2> QED BY ONLY IInv, c \in Conns, <1>3, <2>4, <2>5, <2>6, ConnectionStep DEF b
  <1>7. ASSUME Send(c) PROVE IInv'
    <2>0. PICK len \in Lengths : \E j : OneMore(j, k, len) /\ ClientMoves(c, j)
      BY <1>1, <1>7, ClientTypes DEF k
    <2>1. PICK j : OneMore(j, k, len) /\ ClientMoves(c, j)
      BY <2>0
    <2>4. IsMore(j.toServer, j.sent, k.toServer, k.sent, len)
      BY <2>1, SentMore
    <2>5. j.at = k.at /\ j.got = k.got /\ j.closed = k.closed /\ j.torn = k.torn
      BY <2>1, SentTokens, ZenonT(30)
    <2>6. ~k.closed /\ (b => Len(k.got) = 2 * Len(k.sent))
      BY <1>7 DEF Send, Answered, k, b, Waits
    <2>7. ConnOk(j, b)
      BY <1>2, <2>4, <2>5, SendOk
    <2>8. j.at \in {"none", "backlog", "queued"} => Between(j, b)
      BY <1>2, <1>4, <2>4, <2>5, <2>6, SendBetween
    <2>9. ASSUME NEW t \in WorkThreads, worker[t].pc # "idle", worker[t].conn = c PROVE Serves(worker[t], j, b)
      <3>1. worker[t] \in WorkerType /\ Serves(worker[t], k, b)
        BY <1>5, <2>9
      <3> QED BY <3>1, <1>2, <2>4, <2>5, <2>6, SendServes
    <2>10. conn' = [conn EXCEPT ![c] = j] /\ worker' = worker
      BY <2>1 DEF ClientMoves
    <2> QED BY ONLY IInv, c \in Conns, <1>3, <2>7, <2>8, <2>9, <2>10, ConnectionStep DEF b
  <1>8. ASSUME ClientCloses(c) PROVE IInv'
    <2>1. ClientMoves(c, [k EXCEPT !.closed = TRUE])
      BY <1>1, <1>8, ClientTypes DEF k
    <2>2. PICK j : j = [k EXCEPT !.closed = TRUE]
      OBVIOUS
    <2>3. SameStream(j, k) /\ j.at = k.at /\ j.closed = TRUE
      BY <1>2, <2>2 DEF SameStream, ConnType
    <2>4. ConnOk(j, b) /\ (j.at \in {"none", "backlog", "queued"} => Between(j, b))
      BY <1>2, <1>4, <2>3, SameOk
    <2>5. ASSUME NEW t \in WorkThreads, worker[t].pc # "idle", worker[t].conn = c PROVE Serves(worker[t], j, b)
      BY <1>2, <1>5, <2>3, <2>5, CloseServes
    <2>6. conn' = [conn EXCEPT ![c] = j] /\ worker' = worker
      BY <2>1, <2>2 DEF ClientMoves
    <2> QED BY ONLY IInv, c \in Conns, <1>3, <2>4, <2>5, <2>6, ConnectionStep DEF b
  <1> QED BY <1>6, <1>7, <1>8

LEMMA IAccept ==
  ASSUME IInv, NEW t \in AcceptThreads, NEW c \in Conns, Accept(t, c) PROVE IInv'
  <1>1. OInv /\ Streams /\ Waiting
    BY DEF IInv
  <1>2. OInv'
    BY <1>1, AcceptStep
  <1>3. PICK k \in ConnType :
          /\ conn' = [conn EXCEPT ![c] = k] /\ worker' = worker
          /\ k.at = "queued" /\ k.toServer = conn[c].toServer /\ k.sent = conn[c].sent
          /\ k.got = conn[c].got /\ k.closed = conn[c].closed /\ k.torn = conn[c].torn /\ conn[c].at = "backlog"
    BY <1>1, AcceptStep
  <1>4. SameStream(k, conn[c])
    BY <1>3 DEF SameStream
  <1>5. ConnOk(k, Waits(c)) /\ Between(k, Waits(c))
    BY <1>1, <1>3, <1>4, SameOk DEF Streams, Waiting
  <1>6. \A u \in WorkThreads : worker[u].pc # "idle" => worker[u].conn # c
    BY <1>1, <1>3, AtWork DEF Mine
  <1> QED BY <1>2, <1>3, <1>5, <1>6, ConnectionStep

LEMMA INext == IInv /\ [Next]_vars => IInv'
  <1> SUFFICES ASSUME IInv, [Next]_vars PROVE IInv'
    OBVIOUS
  <1> QED BY ElsewhereSteps, IUnchanged, IAccept, IWork, IClient DEF Next

\* However the reads divide header, body and what a client has sent behind them,
\* recvRequest gives the dispatcher the body of the request, whole and in order;
\* and none at all if a read has ended within the Content-Length line.
THEOREM DispatcherGetsWholeBody == Spec => []BodyExact
  <1>1. IInv => BodyExact
    <2> SUFFICES ASSUME IInv, NEW t \in WorkThreads, worker[t].pc = "handle"
                 PROVE  /\ worker[t].len = IF worker[t].req \in Mine(t).torn THEN 0 ELSE Mine(t).sent[worker[t].req]
                        /\ worker[t].body = [i \in 1 .. worker[t].len |->
                                                [kind |-> "byte", req |-> worker[t].req, at |-> i]]
      BY DEF BodyExact
    <2>1. Serves(worker[t], Mine(t), Waits(worker[t].conn))
      BY DEF IInv, Serving
    <2> QED BY <2>1 DEF Serves, BodyOf, Byte
  <1> QED BY <1>1, IInit, INext, PTL DEF Spec

\* Whatever the interleaving of the threads and the clients, and however the
\* answers are cut by send(), no answer comes twice or out of order, and a client
\* that waits for each answer gets exactly the answers to its requests in turn.
THEOREM AnswersComeInOrder == Spec => []AnswersInOrder
  <1>1. IInv => AnswersInOrder
    <2> SUFFICES ASSUME IInv, NEW c \in Conns
                 PROVE  /\ c \notin Pipelining => InTurn(conn[c].got)
                        /\ Ascending(conn[c].got)
      BY DEF AnswersInOrder, InTurn, Ascending
    <2> QED BY DEF IInv, Streams, ConnOk, Waits
  <1> QED BY <1>1, IInit, INext, PTL DEF Spec
=============================================================================
