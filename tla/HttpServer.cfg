SPECIFICATION Spec
CONSTANTS
  AcceptThreads = {a1}
  WorkThreads = {w1, w2}
  Listeners = {l1}
  Conns = {1, 2}
  Pipelining = {2}
  KeepAlive = TRUE
  MaxStarts = 2
  MaxTasks = 2
  MaxRequests = 2
  Lengths = {0, 2}
  BufSize = 3
SYMMETRY Symmetry
VIEW View
INVARIANTS BodyExact AnswersInOrder OneHandler StopBounded
CHECK_DEADLOCK FALSE
