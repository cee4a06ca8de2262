----------------------------- MODULE MCFrameClock -----------------------------
(* The clock with the geometry of the NES, every dot of two frames, and a program that *)
(* may access the registers at each of them.                                           *)
EXTENDS StatusPolling
===============================================================================
