---------------------------- MODULE MCByteArray ----------------------------
(* ByteArray for TLC.                                                      *)
EXTENDS ByteArray
=============================================================================
