# A TLA+ verification of qslary

qslary is a C++ server framework: fibers on a pool of threads, an epoll-based I/O
manager with timers on top of it, hooks that turn blocking system calls into
suspensions of a fiber, and a TCP/HTTP stack.  This directory holds TLA+ modules for its
core, TLC configurations that check them on small instances, and proofs that TLAPS checks
for all instances.  Paths below are relative to `src/qslary/`.

    tlc -workers 2 -config SchedulerSafety.cfg MCScheduler     # a run
    tlapm SchedulerProofs.tla                                  # a proof

The build is `-O0 -g` with assertions on (`CMakeLists.txt`), so a failing `assert` ends the
process; the modules model it as a value of the variable `crash` (`aborted` in HttpConnection), after
which nothing happens any more.

## 1. Inventory

| Part | State | Operations | What makes it correct |
|---|---|---|---|
| Fiber (`base/Fiber`) | `state_`, context, stack, callback | `swapIn`, `swapOut`, `YieldToReady`, `YieldToHold`, `FiberRun`, `reset`, destructor | only a suspended fiber is entered, by one thread at a time; the asserted states are the actual ones |
| Scheduler (`net/Scheduler`) | `pendingFunctors_` under `mutex_`; atomic counters of active and idle threads; `autoStop_`, `clean_` | `start`, `scheduler` (callback, range, fiber), `run`, `Idle`, `IsClean`, `stop` | no callback is lost, `stop` returns and leaves nothing behind |
| TimerManger (`net/Timer`) | two ordered sets of the same `Timer` objects, the timerfd, the round in progress | `addTimer`, `cancel`, `handleRead`, `getExpired`, `reset`, destructor | sets agree, timers are not lost, revived, early or leaked; the timerfd is armed in time |
| IOManager (`net/IOManager`) | epoll set, eventfd, `mFdGroups`, and all of its two base classes | `AddReadEvent`, `AddWriteEvent`, `Cancel*`, `DelFileDesc`, `Wakeup`, `Idle`, `ProcessFdEvent`, `TriggerEvent` | an event or a scheduled callback reaches a worker; the workers do not block each other |
| Hook (`base/Hook`) | per-thread switch, `s_connect_timeout` | `sleep` etc., `do_io`, `connect_with_timeout`, `accept`, `close`, `fcntl`, `ioctl`, `setsockopt` | a hooked call behaves like the blocking one, with its timeout |
| FdManager (`net/FdManager`) | table of `FdContext` under a reader-writer lock | `getFdContext`, `delFdContext`, `init`, timeouts | one context per open descriptor, agreeing with the kernel |
| Socket, TcpServer | descriptor, connected flag; listening sockets, `isStop_` | `connect`, `accept`, `close`, `bind`, `start`, `startAccept`, `stop` | stopping ends the accept loops and closes each socket once |
| Config (`base/Config`) | value and listeners under a reader-writer lock; the map of variables | `setValue`, `addListener`, `delListener`, `lookup`, `loadFromYaml` | not modelled, see section 6 |
| Thread, CountDownLatch, Condition, Mutex | thread id, latch count, holder | `start`, `runInThread`, `join`, `wait`, `countDown` | the creator sees the id before it goes on; nobody waits for ever |
| EventLoop, EventLoopThread, Channel, EPollPoller | `pendingFunctors_`, flags, channel index | `loop`, `quit`, `queueInLoop`, `doPendingFunctors`, `updateChannel`, `removeChannel`, `startLoop` | cannot be compiled, see section 6 |
| HttpConnection and its pool | free connections and their number; the buffer of a response | `DoRequest`, `doRequest`, `getConnection`, `ReleasePtr`, `sendRequest`, `recvResponse` | a connection has one user, the count is right, a response is the answer to its request |
| HttpSession, HttpServer, Servlet | the buffer of a request; the servlets by path | `recvRequest`, `sendResponse`, `handleClient`, `handle` | each request of a session is answered once and in order; a peer that closes ends only its own session |
| ByteArray, Stream, SockStream | buffer and two indices | `Read`, `Write`, `MakeSpace`, `readFixSize`, `writeFixSize` | bytes come out once and in order |
| Logger | loggers, appenders, file | `log`, `reopen`, `setFormatter` | no message is lost, no lock cycle |
| Generated parsers, HttpParser (`http/http_*_parser.cc`, `http/HttpParser`) | automaton state, marks into the buffer of the current read, framing flags | `*_parser_execute` once per read, callbacks, `*_is_finished` | where the reads end does not change what is parsed |
| URI (`net/uri`) | none that lasts | `URI::Create` | a string is split as RFC 3986 says, or refused |
| Address, Http messages, utilities | none that lasts | conversions | text processing |

How they interact.  An `IOManager` *is* a `Scheduler` and a `TimerManger`.  Its workers run
`Scheduler::run`; a worker that finds no fiber enters its idle fiber, which for an
`IOManager` is `IOManager::Idle`: `epoll_wait` on one epoll set shared by all workers.  An event makes
`TriggerEvent` schedule a callback; the timerfd's callback is
`TimerManger::handleRead`, which runs as an ordinary fiber and calls the timers' callbacks.
The HTTP client does not use the scheduler: its calls block the thread they are made in, with a
receive timeout on the socket.
The `sleep` hooks set a timer that hands the sleeping fiber back to `scheduler(Fiber::ptr)`.

What is hard here: the counters and fiber states that `run` touches outside the mutex;
a fiber handed back before it has finished yielding; identifiers of timers whose memory is
reused; callbacks that change the queue that is running them; several workers told of
the same level-triggered event; the decision whether a wake-up is needed; responses
that arrive in arbitrary pieces, late, or after their caller has given up; parsers that are
left in the middle of a line; descriptor numbers that another thread gets while the library still
knows their past; a buffer that moves, grows and shrinks under its indices.
The list `hazards` of PROJECT.json gives each with its line, and the properties
aimed at it.

## 2. The modules

| Module | Contents |
|---|---|
| `Scheduler` | Scheduler with its fibers and the sleep hooks |
| `TimerService`, `TimerManger` | a timer service without addresses and sets, and the timer queue with its timerfd that implements it |
| `IOManager` | workers, clients and kernel around one epoll set |
| `HttpConnection` | the HTTP client, its connection pool, and a server it talks to |
| `HttpServer` | TcpServer, HttpServer, HttpSession and the dispatcher, with the clients |
| `Automaton`, `ResponseGrammar`, `RequestGrammar`, `UriGrammar` | the three generated automata as sets of rules |
| `Parsers` | the automata at work, read by read, with the callbacks of `HttpParser.cc` and the actions of `uri.rl` |
| `ByteQueue`, `ByteArray` | a queue of bytes, and the ByteArray with its streams that implements it |
| `FdManager` | the table of descriptors, the hooks that keep it and the kernel |
| `MC...` | each of these for TLC, with the inputs of `Parsers` and symmetry sets where they are sound |
| `SchedulerProofs`, `TimerMangerProofs`, `IOManagerProofs`, `HttpConnectionProofs`, `HttpServerProofs`, `ByteArrayProofs`, `FdManagerProofs`, `CommonLemmas` | theorems and lemmas |

**Scheduler.**  What a thread does under `mutex_` is one step; each access outside it is
another.  A worker's `pc` is its place in `run()`: the scan (`ScanTake`, `ScanNone`), the
increment of `activeThreadCount_` after the mutex was released (`Activate`), `SwapIn`, the
callback (`Spawn`, `YieldToReady`, `YieldToHold`, `Sleep`, `FiberRunEnds`), `SwapOut`, the
decrement, the two tests of the fiber's state, `SetHold` (line 158) or `Reschedule` (line
155), and the idle fiber.  `YieldTo` sets the state and `SwapOut` saves the
context in two steps, because a fiber in state HOLD is visible to other workers in between.
`ctx` says where the machine context is; entering one that is on another CPU or
has ended is undefined, and the model stops there (`staleContext`).  A READY fiber is not
queued again: the code schedules its `cb_` in a new fiber, and so does `Reschedule`.
`DropAsserts` is the destructor of a fiber whose last reference `doing.reset()` drops.
`sleep` acts only in threads with `set_hook_enable(true)`, which is what a caller of the
hooks has to do; `MaxSleeps = 0` is a program without it.

**TimerManger.**  Times are numbers, a tick is the 100 microseconds that
`howMuchTimeFromNow` uses as its minimum.  A `Timer` object lives at an address that
`AddTimer` picks among the free ones, so an address is reused while old `TimerId`s are still
held; `Cancel` takes any identifier ever handed out.  `handleRead` is `HandleRead` (read,
`getExpired`), one `RunNext` per callback in the order of the set, and `FinishRead` (`reset`);
between these the callbacks call `AddTimer` and `Cancel` and the clock moves.
`CallbackThrows` is an exception that leaves `handleRead`.  Callbacks do not suspend
themselves: a second `handleRead` inside the first is listed as a hazard and not modelled.
`TimerService` is the promise: a timer is a number, a time and a period, `Stop` ends the timer with its number and
no other, a round `Collect`s what is due, makes each call in the order of the times, and its recurring timers come back
at its `Finish`.  `Service` is the refinement mapping: an entry of a set stands for the object at its address
(`Entry`), a round's timers are those to be called and those called, and `cancelingTimers_` counts
only for the timers of the round (`Cancelling`).

**IOManager.**  The two base classes are reduced to what matters between threads.  A task
runs to its end; `handleRead` reads the timerfd and may arm it again.  The epoll set,
`mFdGroups`, the eventfd and `idleThreadCount_` are as in the code; `AddReadEvent` is three steps (epoll set, flag,
callback), because `Idle()` reads them without the mutex.  The data race on the
`std::map` itself is not modelled; an event for a removed group is (`nullGroup`).
`DelFileDesc` erases the entry of the map and never deletes the `FdCallback`, so the pointer that a worker
in `TriggerEvent` has looked up stays good: the erased group is kept for that worker (`held`, `Mine`).
`Wakeup()` is a test and then a write, by clients and by workers.  `epoll_wait` returns all
that is ready at that moment, or -1 when a signal arrives (`Interrupted`); 64 slots are never exceeded by these instances.

**HttpConnection.**  A stream is a sequence of tokens: the header fields that say how the body
is framed, the end of the header, a chunk size line, one byte of a body, a CR or an LF.
`read` takes any nonempty prefix of what has arrived, up to the size that is asked for, or
fails; a response may thus be cut between any two tokens.  A cut inside a line is an action of its own, because
the parser forgets the first half of the line.  Behind `ReadPartOfHeader` the content-length field is lost
and the body is taken to be empty; behind `ReadPartOfSize` `execute(..., true)` starts anew, and what is left of the size line is read as one of
its own: its last digits in base `Radix` (16 in the code, 2 in the run, where two digits then
fit into a small size), or only its end, which is an error.  `torn` remembers on which connections this happened.
The bytes of a body are assumed not to look like a status or a size line.  `ReadHeader`, `ReadFixSize`,
`NextChunk`, `ReadChunk` and `ReadRest` are the reads of `recvResponse` with everything the
code does until its next one: what is parsed, what is kept in the buffer, which branch the number
of bytes behind the chunk takes.  Every one of them can fail (`ReadFails`: the server has
closed, or the timeout has passed while the answer is on its way); the code then closes the
connection and returns `nullptr`.  `getConnection` is one step, because it holds `mutex_`
throughout: `TakePooled`, `NewPooled` (none was left, it connects) and `NewPooledFails`, after which
`doRequest` runs into `assert(false)` (or, if the name has no address, `getConnection` itself reads from an empty vector).  `ReleasePtr` is the deleter of the shared pointer.  The age test compares a
`create_time` that is 0 for every connection with the present time, and so never removes
one.  The server is external: it answers in order, in either framing, with or without the CRLF
that `HttpResponse::dump` puts behind a body, at any time or never, and closes at any time;
a request written to a connection it has closed is lost.

**HttpServer.**  The accept pool and the work pool are lists of tasks and sets of threads.  `bind` may be called at any
time, also on a server that runs or was stopped, and makes each listener once (`bound`).  `stop`, which may be called any number
of times (up to `MaxTasks` waiting tasks), only sets `isStop_` and puts the closing of the sockets into the list of the accept pool, whose threads are inside
`startAccept`; `TestStop`, `Accept` and its failure are the loop, in which an `accept` that
has begun holds on to the socket.  Hooks are off in the pools' threads, as `Scheduler::run` leaves
them: calls block their thread, and `close` does not remove the `FdContext`.  A worker runs `handleClient` from `recvRequest`
(one read per step, the header, then the body by what the buffer held) to `sendResponse` (any part per
write) and the `close`.  A read that ends within the request line or a field is `ReadPartOfLine` and `ReadPartOfHeader`: a request line without
its beginning is an error, and a request without its Content-Length has no body, so that the bytes of
its body are parsed as the next request (`torn`).  Whether the path has a servlet and whether the
session is to be closed is chosen where it matters.  `recvRequest` returning `nullptr` runs into the assertion of
`handleClient` (`http/HttpServer.cc:31`), and a dispatcher with a global servlet but no match into undefined
behaviour (`http/Servlet.cc:75`): both end the process in the model, whatever kept it from
being reached in the tests.

**Parsers.**  Ragel has compiled each grammar into some ten thousand lines of `switch`.  A grammar module
gives the automaton back as rules: a state, a set of input *pieces*, the next state, and the
actions in the order in which the `tr` label runs them.  A piece is a character, or a run of
characters inside which the automaton behaves in one way (half of a keyword, a group of an
address).  A family of states that the generated code repeats is one parameterised set of rules:
the groups of an IPv6 address, and in the URI the two copies with and without a scheme.  That every
automaton is deterministic is an assumption TLC evaluates (`GrammarsAssumption`).  `Read` performs one transition
with its callbacks; `NextRead` is the return of `*_parser_execute` and its next call, which sets
`mark`, `field_start` and `field_len` back to 0, keeps the state, and does not touch `query_start`.
For a size line (`SizeLines`) the next call also starts the automaton anew (`Again`, `http/HttpParser.cc:186`).
In states 121 to 123 of the response automaton `execute` returns without having
finished (`Returned`): `recvResponse` reads on, and the grammar goes on from there.  `marks.body` is `body_start`, which may then lie beyond the read
that follows: the assertion at `http/http_response_parser.cc:3297` (`"assert"`).

**ByteArray.**  The constructor leaves both indices unset, so `Init` takes any; an
operation on indices that make no sense is undefined (`Undefined`).  `Write`, `Read`, `MakeSpace`
(which resizes, possibly to fewer bytes, or moves the readable ones) and the loops of `readFixSize`
and `writeFixSize` over a socket are as in the code, including that a short `send` has already
taken its bytes off the array, that nobody moves `mWriteIndex` after a `recv`, and that an operation on a stream
without a connection returns at once (`NotConnected`).
`ByteQueue` is the promise; `Abstract` is the refinement mapping (the queue is what lies between
the indices).

**FdManager.**  `getFdContext` is its two critical sections, `close` with hooks is
`delFdContext` and then the system call, and the kernel gives a closed number to the next
caller of any thread.  `fcntl` and `ioctl` act on the context and the kernel as in the code.  A call that
would block either fails and suspends the fiber (`held`), or stops the thread in the kernel.

## 3. The runs

| Run | Checks |
|---|---|
| `scheduler_safety` | `NothingLost`, `CompleteAtStop`, `CountersExact`, `NoCrash`, `SwapInFindsSuspended`, `NoOvertaking`: 2 workers, up to 2 callbacks and 4 fibers, one YieldToReady, 2 sleeps, `stop` at any time |
| `scheduler_liveness` | `StopReturns`, `EveryFiberStarts` under weak fairness, no sleeps |
| `scheduler_yield_assert` | violated: the assertion of `YieldToHold` |
| `timer_queue` | `SetsAgree`, `ExpiredExist`, `TimerfdArmed`, `NoTimerLost`, `CancelIsFinal`, `NoLeak`, and that TimerManger implements `TimerService` (`IsTimerService`): 3 timers at 2 addresses, periods 1 and 2, 4 ticks |
| `iomanager` | `SomeWorkerRuns`, `IdleExact`, and under weak fairness `ReadyIsServed`, `TimerIsServed`, `EventRunsTasks`: 2 workers, 1 descriptor, every client operation |
| `iomanager_timerfd_assert` | violated: the assertion of `readTimerfd` |
| `iomanager_lost_wakeup` | violated: what the tests expect of `scheduler(cb)` |
| `http_client` | `ResponseMatches`, `PooledAligned`, `TotalExact`, `OneOwner`, `CallsReturn`: 2 threads, 2 connections, 2 requests, bodies of up to 2 bytes, a buffer of 3, reads that end behind any token or within a line |
| `http_server` | `BodyExact`, `AnswersInOrder`, `OneHandler`, `StopBounded`: 1 accepting and 2 working threads, 2 clients of which one pipelines, 2 requests with bodies of 0 or 2 bytes, a buffer of 3 tokens, reads that end behind any token or within a line, two starts, 2 waiting tasks |
| `parsers` | `MessageExact`, `FramingExact`, `UriExact`: responses of up to 5 lines, requests of up to 4 and size lines, in 2 reads cut anywhere and more behind an early return of `execute`; URIs of up to 4 pieces behind 3 starts, bracketed addresses in full |
| `byte_array` | `StaysInBounds`, and that ByteArray implements `ByteQueue` (`IsQueue`): a buffer of 3, a head of 2, 5 bytes, operations of up to 3 |
| `fd_manager` | `UserViewExact`, `HookedNeverBlocks`: 2 threads with hooks and one without, 3 descriptor numbers |

Every property of a passing run is paired in PROJECT.json with a faulty variant of a
modelled definition that violates it; the variants stand next to the originals and are
marked *faulty variant*.

Bounds.  Two workers are what every race of these modules needs: one that acts and one that
interferes; the proofs cover more.  Two callbacks with four fibers allow a callback to be
scheduled by another, restarted by YieldToReady, and slept in, at the same time.  Three
timers at two addresses force one reuse of an address while the old identifier can still be
cancelled.  In the I/O manager two changes (registrations, cancellations, expirations, arrivals of data, interrupted waits), and any
deletions beside them, are enough to have a descriptor registered, ready and deleted in any order with one task or the timer.
In the HTTP client two requests are one that leaves a connection behind and one that takes
it over, or two at the same time; a body of two bytes comes in one chunk or two, and a buffer
of three tokens ends inside the header, inside a chunk, between its CR and LF, and behind it.  In base 2 a
size of two has two digits, so that its line can be torn between them.
In the HTTP server, two connections are a pipelining client and a patient one, or a descriptor number
and its reuse, each with a working thread of its own; a body of two bytes lies in the buffer of the header
as a whole, by half or not at all; two starts are a restart while the first accept loop is still in `accept`, and two tasks a closing behind it.
The two working threads are interchangeable.  Of a process that has ended the view keeps only how: the step that ends it changes nothing
that a property reads.  The lines
of `MCParsers` hold each header that the response grammar knows, on one line, folded, unindented and
as a look-alike, and for requests each form of a target; one cut shows what is forgotten at the
end of a read, since a further one starts from the same marks.  Where `execute` returns early there is another read in any case; five lines
are an empty framing header, the blank line that stops the parser, what is read behind it, and another blank line.  A URI of four pieces
behind its start reaches each part in each order, and an address in brackets counts as three whatever its
length.  In ByteArray the sizes are chosen such that both branches of `MakeSpace`, a
resize that shrinks, and overlapping moves in both directions happen; the proofs cover all
sizes.  Three descriptors and three threads are one whose number is being reused, one in use, and a thread that
interferes.

Deadlock is checked for Scheduler, TimerManger and HttpConnection, where only an explicit end (`Over`) may stay still, and for FdManager.
In IOManager it is not: workers in `epoll_wait` with nothing to report do wait for ever.  Nor in HttpServer, Parsers
and ByteArray, where the process may have ended, or the bounded input has been used up.

Fairness.  Only weak fairness of threads: a worker, or a thread in the middle of an
operation, that can take its next step takes it, because all are preemptively scheduled and mutexes are
held for a few instructions.  Nothing is assumed of clients (nobody must call `stop`), of timers or of the arrival
of data.  A callback ends because its steps are bounded.  In `iomanager` a
worker that loses the race for the eventfd stays blocked in `read` until the next write, and
the properties hold nevertheless, because the winner goes on.  In `http_client` a thread inside a
call goes on because a `recv` returns when its timeout has passed; nothing is assumed of the server,
nor that the program issues another request.  HttpServer states no liveness: `accept` waits without a
timeout for a client that may never come, and a read that finds nothing, at once or when the receive timeout of the
accepted socket has passed (`net/TcpServer.cc:84`), ends in the assertion of `handleClient`.

Findings, each with its run and its lines in PROJECT.json:

* A sleeping fiber that its timer hands back early can run on a second worker while the first
  still stores HOLD into it; its next yield fails an assertion.
* With two workers one expiration of the timerfd can lead to two calls of `handleRead`; the
  second read fails an assertion.
* `Wakeup` sends nothing when a worker is idle, but an idle worker sits in `epoll_wait` and
  looks at the list only after an event: a callback scheduled into an idle
  `IOManager` waits for an unrelated event.  `EventRunsTasks` shows that any expiration of the
  timer makes up for it.

What the properties leave out, because the code does it and no line of the repository says otherwise:

* A field that two reads share is delivered from the start of the second read
  (`MessageExact` exempts that line and no other), and a request's query that starts late in one read and ends
  early in the next makes the parser throw (`MessageExact` says that nothing else does).
* For the client this means that behind a read that ends within the content-length line, or between the digits of a chunk
  size, `recvResponse` returns an empty or shorter body as a success, and the connection goes back to the pool with the rest of
  it.  `ResponseMatches` and `PooledAligned` speak of the connections where this has not happened (`torn`).  For the
  server it means a request without its body, whose body is then taken for a request and ends the process; `BodyExact`
  says exactly that, and `AnswersInOrder` holds nevertheless.
* A response in which an empty content-length or transfer-encoding is followed by the blank line is not finished there: the client reads
  on, takes what follows for the value of the field, or fails the assertion on `body_start`.  `FramingExact` says what the
  flags are then, and that the assertion fails behind such a line only.
* User information whose password starts with a digit is truncated to that password by `URI::Create`, and a URI with a
  scheme and an empty port makes it throw (`UriExact` states both exactly).
* A `FdContext` that a `close` without hooks left behind makes a later socket with the same number
  stay blocking, and `ioctl(FIONBIO)` with 0 makes a hooked thread block in the kernel (`stale`
  and `byIoctl` of FdManager).
* A peer that closes its connection ends the server's process through the assertion of `handleClient`;
  the properties of HttpServer are about what happens until then.
* Until `clear` is called a ByteArray works on unset indices.

## 4. The proofs

| Module | Theorem | States |
|---|---|---|
| `SchedulerProofs` | `TypesCorrect`, `CountersCorrect` | `TypeOK`, `CountersExact` |
| | `NoCallbackLost`, `StopIsComplete` | `NothingLost`, `CompleteAtStop` |
| | `SwapInAssertHolds`, `NoCrashWithoutSleep` | `SwapInFindsSuspended`, `NoCrash` |
| | `FirstComeFirstServed` | `NoOvertaking` |
| | `EndedNeverEntered` | `EndedStaysOut`: an ended fiber is in no list, with no timer and not about to be entered |
| `TimerMangerProofs` | `TypesCorrect`, `QueueConsistent`, `ExpiredAlive` | `TypeOK`, `SetsAgree`, `ExpiredExist` |
| | `CancelExact`, `CancelFinal` | `NoTimerLost`, `CancelIsFinal` |
| | `ArmedInTime`, `NothingLeaks` | `TimerfdArmed`, `NoLeak` |
| | `NoCallbackEarly` | `NeverEarly`, an action property |
| | `ImplementsService` | `IsTimerService`: TimerManger implements TimerService |
| `IOManagerProofs` | `TypesCorrect` | `TypeOK` |
| | `NotAllBlocked`, `IdleCountCorrect` | `SomeWorkerRuns`, `IdleExact` |
| | `TimerfdReadAlone` | `ReadTimerfdSucceeds`, with one worker and no client that sets the timerfd again |
| | `LookupFindsGroup` | only `DelFileDesc` leads to `crash = "nullGroup"` |
| `HttpConnectionProofs` | `TypesCorrect` | `TypeOK`: no read asks for a negative number of bytes |
| | `PoolOwnership`, `PoolCount` | `OneOwner`, `TotalExact` |
| | `ResponsesMatch`, `PoolAligned` | `ResponseMatches`, `PooledAligned` |
| `HttpServerProofs` | `StopLetsFewIn`, `ConnectionsHaveOneHandler` | `StopBounded`, `OneHandler` |
| | `DispatcherGetsWholeBody`, `AnswersComeInOrder` | `BodyExact`, `AnswersInOrder` |
| `ByteArrayProofs` | `StaysInside` | `StaysInBounds` |
| | `ImplementsQueue` | `IsQueue`: ByteArray implements ByteQueue |
| `FdManagerProofs` | `UserSeesOwnFlags`, `LibrarySocketsDoNotBlock` | `UserViewExact`, `HookedNeverBlocks` |

They hold for every finite non-empty set of workers, every number of fibers, timers,
addresses, descriptors, ticks, connections and requests, and every size of body, buffer, head and operation; the assumptions are the named `ASSUME`s of the modules (a non-empty finite set of workers, as the
constructor asserts; numeric addresses, positive periods; the two special descriptors are
none of the clients'; finitely many threads and connections of the HTTP client and server; descriptors are numbers;
the time in milliseconds since 1970 exceeds a pool's 32-bit lifetime).

*Scheduler.*  `CompleteAtStop` is not inductive: a worker exits on `IsClean` and one more
empty scan, and another worker may add work in between.  The invariant adds `Known` (what
the list, the timers and the workers name exists), `Entered` (a fiber once entered never is INIT
again), `Phases` (no idle fiber ends before `stop` set both flags, a worker has left only if its own has
ended) and `SomeoneScans`: as long as a new fiber waits in the list, some worker will scan
again.  The latter holds because whoever adds a fiber is a worker that scans afterwards, or the
owner before `stop`.  `CountersExact` is proved by
counting: one worker moves, and the counter changes by what the two places say
(`CommonLemmas`).  The assertion of `swapIn` is about a worker that stores HOLD into a fiber which
a timer has meanwhile handed to another one.  It holds because there is one ticket to a fiber
(`OneTicket`): it is in the list once, or with one timer, or with one worker that may enter it, and a
worker on its way out of it has no ticket; so nobody else makes it EXEC between the scan
and `swapIn` (`Suspended`).  `NoCrash` needs more and holds only while nobody has
slept: then no two workers have the same fiber at all, and `Stage` relates the place of a
worker in `run()` to the state and the context of its fiber.
`NoOvertaking` is inductive together with `Entered`: a fiber that comes back through a timer is not INIT, so it is under no
obligation, and the scan accepts every INIT fiber, so that only what stands before it or the fiber itself can
be taken.  `EndedStaysOut` is where the ticket pays off once more.  The worker that a fiber left earlier
may store HOLD over its TERM, and the scan accepts a fiber in HOLD; but FiberRun ends on a worker
that has the ticket (`OneTicket`), and nobody is given another one, because only a worker inside the
fiber sets a timer for it (`OnOneCpu`).

*TimerManger.*  `IInv` is `TypeOK`, `SetsAgree`, `ExpiredExist`, `CancelIsFinal`, `NoTimerLost` and
`IdsUnique` (a sequence number never names two addresses, a live object has an identifier that was handed out),
`Rounds` (what a round knows of its timers, in particular that a cancelled one is in
`cancelingTimers_`), `Covered` (the timerfd covers every timer except those a running round
will arm for) and `Owned` (each object is in the queue, in a round or abandoned).  With `IdsUnique`, a stale identifier
cannot hit the timer that has taken over its address.
For the refinement the same fact makes the mapping injective on what is alive (`EntryKey`): an entry is determined by the number
of its timer, so removing a pair from the two sets removes one timer of the service (`EntriesMinus`), and
a change of the heap at one address leaves the other timers as they were (`EntriesKept`).  Each action then is
one of the service: `Cancel` is always `Stop`, also of a number that no timer has any more, and the reads of the clock
between `getExpired` and `reset` do not matter, because a round is dated at its start.

*IOManager.*  Blocking is not a matter of one state: after the eventfd was emptied, the invariant must
say that somebody has not been told of it (`SomebodyNotTold`), and that a worker is told
once per round (`ToldOnce`).  The types rest on `EventTypes`: a worker in `TriggerEvent` has never got the
event of the eventfd, for which `mFdGroups` has no entry, and the test for the timerfd
precedes the look at the callbacks.  What a worker still points to after `DelFileDesc` has its type as well (`MineType`).
Two theorems say when a crash that the module does reach cannot happen.  For `TimerfdReadAlone`, `OneReport` follows an expiration: it
is with the worker's events, in `TriggerEvent`, in the list, or taken from it, in one of these only, and
the timerfd stays readable until the read.  For `LookupFindsGroup`, `Found`: a descriptor in the epoll set or among the events
that a worker still has to process has its `FdCallback`.

*HttpConnection.*  `OneOwner` needs `Held`: a call holds a connection that exists and, until
it returns, is open; otherwise a new connection could be one that a thread still uses.  The
steps of `recvResponse` are shown once and for all to stay inside their call (`Inside`): they
leave the pool alone and close nothing but their own connection.  `OneOwner` in turn makes
every pooled connection usable (`FirstIsUsable`): `getConnection` takes the first one, and
its loop never deletes any.
For `ResponseMatches` an answer is described by what it is (`Shape`): a header, and then the bytes of
the body and possibly CRLF, or chunks, where a function on the places of the stream tells how many bytes
of the body precede a chunk.  The server's answers (one piece, or one to three chunks) are shown to have this shape by adding
one chunk at a time.  `Receiving` says for each place of `recvResponse` which part of the answer is
on the wire, which is in the buffer and which in the body (`AtHead`, `AtBody`, `AtSize`, `AtRest`, `AtEnd`): together
they are the whole answer, to the request of this call, as long as no line was torn on its connection.  A tear changes the
wire of that connection only, which is then out of the invariant's scope until it is deleted; the types and the ownership do not depend on it.  A call that fails closes its connection,
so only `AtEnd` leads to the pool, which is `PooledAligned`; and a call that finds
left-over bytes there runs into a parse error (`Stale`), not into another call's answer.

*HttpServer.*  `StopBounded` counts: what has been let in since `stop` and the loops still inside `accept`
together are at most the accepting threads (`LateInv`).  `OneHandler` needs that a connection is served or queued exactly if a
thread or an entry of the list has it (`Owners`, `Queue`), and that a number is given to a new connection only when no open
one has it (`Descriptors`).  On top of these `Sound` describes a stream by its
neighbouring tokens: the bytes of a body stand in order behind the end of their header, which says how many there are, or that there is none if it was
torn.  `Serves` says what a thread at each place of `handleClient` has taken of it: the tokens of one request in order,
the rest of them next, and behind those only later requests.  An answer is shown to be due by counting request lines, not bytes, so that bytes which a torn
line has left on the stream do not matter.  Of a client that waits for its answers more is known
(`waits`): no request line follows the one that is being served, and what it has received is the answers
to those before.  A pipelining client may lose requests, when one read takes more than one of them;
`Later` and `Upto` are what remains true of it.

*ByteArray.*  `SpaceIsMade` shows that `MakeSpace` leaves the indices in bounds and the room that it was
asked for; without `kPreHeadSize` in its test it would not.  `Inv` adds that a stream operation in progress has sane indices, cleared
or not.  For the refinement `SpaceKeepsBytes`, `StoredBytes` and `TakenBytes` say what happens to the
bytes between the indices when the buffer is moved, resized, written to and read from; each operation is
then a step of the queue, `FixSize` and a read from the socket are stuttering steps, and what
precedes `clear` is `Unknown`.  The lemmas on windows of sequences (`Window`,
`SameWindow`, `SubWindow`, `LongerWindow`) carry all the index arithmetic.

*FdManager.*  A thread is in a call only for a number that it has opened itself (`CallsOwn`), so that the two
critical sections of `getFdContext` never meet another creator of the same context, and a number
between `delFdContext` and the system call `close` is not given away.  Only a close without
hooks leaves a context to a closed number (`ClosedClean`, `StaleHasCtx`).  `FlagsAgree` then relates
the context, the kernel's flag and what the user asked for, except while the number is being closed.

Only model-checked: liveness (`StopReturns`, `EveryFiberStarts`, `ReadyIsServed`,
`TimerIsServed`, `EventRunsTasks`, `CallsReturn`), which is out of this prover's reach; and
`MessageExact`, `FramingExact` and `UriExact` of Parsers, which compare what the automata compute from a whole text
with a reference: that would take an induction over the text, for which the provers have no rule.

## 5. Plan

Every invariant of the runs but those of Parsers, and every safety property stated as a specification
(`IsQueue`, `IsTimerService`), is now a theorem.  What is left, in this order:

1. For Parsers, the facts about single transitions that need no induction: what `NextRead` forgets and
   keeps, and that the marks stay inside the buffer of the read.
2. An abstract specification of Scheduler.  It can promise less than one would like: with sleeps `SetHold` may
   overwrite READY, so that a callback which asked to be run again is parked instead, and an abstract pool has to
   allow that.  `NothingLost`, `NoOvertaking` and `EndedStaysOut` say what remains.
3. A round of TimerManger that another one interrupts, once `handleRead` may suspend itself.

## 6. Not modelled

* `~IOManager` calls `stop()`, which joins workers whose idle fiber has no exit
  (`net/IOManager.cc:134`): it never returns, so there is nothing to model after it.
* `handleRead` and `addTimer` by several threads at once: TimerManger has no lock, and its steps are those of one thread at a time (a second
  `handleRead` beside or inside the first is a hazard without a property).  Data races inside `std::map`, also of `TcpServer::bind` with the
  closing task on `sockets_`; allocation failure; errors of `epoll_ctl` other than EEXIST; `~TcpServer`.
* `pendingEventCount_` only decides `IOManager::IsClean`, which no code path of an
  `IOManager` calls (its `Idle` does not).
* In `HttpConnection` and `HttpServer` a torn line has the effect that it has on the parser, but the texts themselves, and what a torn name
  or target is stored as, are the subject of `Parsers`.
* EventLoop and EventLoopThread with Channel, Poller and EPollPoller: left over from before IOManager.  They are not in `LIB_SRC`, and
  cannot be compiled (`net/EventLoop.cc:49` calls `TimerManger(this)`, `net/Timer.h:55` declares
  `TimerManger()`), so that there is no behaviour to be faithful to.
* `connect_with_timeout`: `AddWriteEvent` returns a boolean that is compared with 0, so that it falls
  through to `getsockopt` without waiting; `setsockopt` stores a timeout; `do_io` registers a null
  callback, so that its fiber is not resumed (hazard at `base/Hook.cc:143`).
* States 9-30 and 229-252 of the URI automaton, which only the character code 2 leads to.
* Config: `setValue` tells the listeners before it stores the value, with the lock
  released in between; nothing in the repository says in which order concurrent changes are
  told, and the rest is conversion by yaml-cpp.
* Thread, Mutex, Condition, CountDownLatch: wrappers of the pthread calls; a critical section is one
  step of every module, and a thread begins where `start` has returned.
* Logger, Address, message records, Timestamp's formatting and the utilities: text, files and getters.
