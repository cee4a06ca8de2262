----------------------------- MODULE MCInterrupts -----------------------------
(* The interrupt flags are booleans: TLC visits the whole state space. *)
EXTENDS Interrupts
===============================================================================
