------------------------------ MODULE MCHandoff ------------------------------
(* Values of the handoff's constants for TLC.                              *)
EXTENDS Handoff

\* Everything but a participant that refuses to stop.
StartFaults == {"spawn", "activate", "crash"}
\* Everything but a participant that refuses to start.
StopFaults == {"spawn", "quiesce", "crash"}
=============================================================================
