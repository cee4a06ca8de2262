------------------------------ MODULE MCPPURegs ------------------------------
(* Two bytes set or clear every field of the temporary address. *)
EXTENDS PPURegs
===============================================================================
