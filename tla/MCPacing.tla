------------------------------- MODULE MCPacing -------------------------------
(* An int of 80 values, just enough for the 39 dots of the longest run(), and an    *)
(* unsigned long of twice as many: both wrap several times before a state repeats. *)
EXTENDS Pacing
===============================================================================
