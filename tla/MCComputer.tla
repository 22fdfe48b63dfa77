----------------------------- MODULE MCComputer ------------------------------
(* Values of the computer's constants for TLC. *)
EXTENDS Computer

CONSTANTS
    run1, run2,   \* agent runs
    h, s1         \* a human, a screen

OneScreen == {s1}
Anywhere == [o \in Owners |-> None]
=============================================================================
