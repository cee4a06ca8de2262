--------------------------------- MODULE Bus ---------------------------------
(***************************************************************************)
(* Core::Bus as operators on a record: lookup gives every address the id   *)
(* of an area, tab the handler of every id, which is a name instead of two *)
(* functions, and assigned the ids in use.                                 *)
(*                                                                         *)
(* reset() allocates lookup and does not clear it: a cell that no area has *)
(* been mapped to is UNSET, and a comparison with it may go either way.    *)
(***************************************************************************)
EXTENDS Integers, FiniteSetsExt

CONSTANT TABSIZ

ASSUME TABSIZAssumption == TABSIZ \in Nat \ {0}

UNSET == -1
NO_HANDLER == "empty"

reset(size) ==
    [lookup   |-> [a \in 0 .. size - 1 |-> UNSET],
     tab      |-> [id \in 0 .. TABSIZ - 1 |-> NO_HANDLER],
     assigned |-> {}]

\* Faulty variant: the area includes its end.
map_end_included(b, start, end, handler) ==
    LET id == Min(0 .. TABSIZ - 1 \ b.assigned)
    IN  [lookup   |-> [a \in DOMAIN b.lookup |->
                          IF start <= a /\ a <= end THEN id ELSE b.lookup[a]],
         tab      |-> [b.tab EXCEPT ![id] = handler],
         assigned |-> b.assigned \cup {id}]

\* An area from start up to end gets the lowest id that is free.  No bus has so many
\* areas that none is.
map(b, start, end, handler) ==
    LET id == Min(0 .. TABSIZ - 1 \ b.assigned)
    IN  [lookup   |-> [a \in DOMAIN b.lookup |->
                          IF start <= a /\ a < end THEN id ELSE b.lookup[a]],
         tab      |-> [b.tab EXCEPT ![id] = handler],
         assigned |-> b.assigned \cup {id}]

\* What lookup[a] == id can be found to be.
compare(b, a, id) == IF b.lookup[a] = UNSET THEN BOOLEAN ELSE {b.lookup[a] = id}

\* The buses that remap() may leave: it gives the area from start up to end another
\* handler, unless it finds the area to begin earlier or to end earlier.
remap(b, start, end, handler) ==
    LET id == b.lookup[start]
        earlier == IF start = 0 THEN {FALSE} ELSE compare(b, start - 1, id)
        same == compare(b, end - 1, id)
    IN  (IF TRUE \in earlier \/ FALSE \in same THEN {b} ELSE {})
        \cup (IF FALSE \in earlier /\ TRUE \in same
              THEN {[b EXCEPT !.tab[id] = handler]} ELSE {})

\* The handler that read() and write() call.
decode(b, addr) == b.tab[b.lookup[addr]]
===============================================================================
