---------------------------- MODULE MCLogStream ----------------------------
(* An instance of the log store for TLC.                                   *)
EXTENDS LogStream
=============================================================================
