------------------------------- MODULE FrameLoop -------------------------------
(***************************************************************************)
(* What the main loop promises to whoever looks at the window: pictures    *)
(* are shown one v-blank apart, and a request to quit ends the program     *)
(* after the picture in progress.                                          *)
(*                                                                         *)
(* It is an abstract specification: no CPU, no PPU, no counters.  Emulator *)
(* implements it.                                                          *)
(***************************************************************************)
EXTENDS Naturals

VARIABLES
    phase,      \* "poll", "frame", "draw" or "exited"
    running,    \* mainloop() goes on
    quit,       \* the user has quit the debugger
    vblanks     \* v-blanks since the last picture was shown

vars == <<phase, running, quit, vblanks>>

Init == phase = "poll" /\ running = TRUE /\ quit = FALSE /\ vblanks = 0

\* Events are handled.  Closing the window still renders a last picture; after the
\* debugger has quit nothing is rendered.
Poll ==
    /\ phase = "poll"
    /\ running' \in IF quit THEN {FALSE} ELSE {running, FALSE}
    /\ phase' = IF quit THEN "draw" ELSE "frame"
    /\ UNCHANGED <<quit, vblanks>>

\* The debugger's prompt may come up while a picture is in progress.
Quit ==
    /\ phase = "frame" /\ ~quit
    /\ quit' = TRUE
    /\ UNCHANGED <<phase, running, vblanks>>

VBlank ==
    /\ phase = "frame" /\ vblanks = 0
    /\ vblanks' = 1
    /\ UNCHANGED <<phase, running, quit>>

FrameDone ==
    /\ phase = "frame" /\ vblanks = 1
    /\ phase' = "draw"
    /\ UNCHANGED <<running, quit, vblanks>>

Draw ==
    /\ phase = "draw"
    /\ phase' = IF running THEN "poll" ELSE "exited"
    /\ vblanks' = 0
    /\ UNCHANGED <<running, quit>>

Next == Poll \/ Quit \/ VBlank \/ FrameDone \/ Draw

\* The loop never stops by itself; nobody has to quit.
Fairness == WF_vars(Poll) /\ WF_vars(VBlank) /\ WF_vars(FrameDone) /\ WF_vars(Draw)

Spec == Init /\ [][Next]_vars /\ Fairness
===============================================================================
