---------------------------- MODULE MCIOManager ----------------------------
(* IOManager for TLC.                                                      *)
EXTENDS IOManager
=============================================================================
