----------------------------- MODULE MCBackground -----------------------------
(* Whole lines, few of them.  The scroll positions are the corners of the nametables, *)
(* the last row of a nametable and the rows of its attributes.                        *)
EXTENDS Background
===============================================================================
