------------------------------ MODULE MCEmulator ------------------------------
(* Small frames: a frame is longer than the 39 dots of the longest run(), and v-blank *)
(* lasts the 42 dots that the NMI handler may take to be entered.                     *)
EXTENDS Emulator
===============================================================================
