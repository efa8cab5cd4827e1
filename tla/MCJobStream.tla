---------------------------- MODULE MCJobStream ----------------------------
(* One stream, opened and closed any number of times; streams share nothing *)
(* but the log and the row, which they only read.                           *)
EXTENDS JobStream
=============================================================================
