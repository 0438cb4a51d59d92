-------------------------- MODULE MCSequentialQueue --------------------------
(* Constants for TLC: a queue of three slots and two distinct letters      *)
(* besides '\0' make head and tail wrap at every offset.                   *)
EXTENDS SequentialQueue

MCByte == {"x", "y", "NUL"}
=============================================================================
