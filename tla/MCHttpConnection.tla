-------------------------- MODULE MCHttpConnection --------------------------
(* HttpConnection for TLC: two threads that share a pool.                  *)
EXTENDS HttpConnection
=============================================================================
