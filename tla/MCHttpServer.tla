---------------------------- MODULE MCHttpServer ----------------------------
(* HttpServer for TLC: the threads of worker_ are alike.                   *)
EXTENDS HttpServer, TLC

Symmetry == Permutations(WorkThreads)

\* A process that has ended takes no more steps: how it ended is all that is left.
View == IF Alive THEN <<vars>> ELSE <<crash>>
=============================================================================
