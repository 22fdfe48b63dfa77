------------------------------- MODULE MCEvents -------------------------------
(* Values of the constants of Events for TLC.                              *)
EXTENDS Events

CONSTANTS
    e1, e2,   \* event ids
    jobs,     \* a consumer
    p1, p2    \* processes

Everything == [c \in Consumers |-> Ids]
FromStart  == [c \in Consumers |-> "beginning"]
OneTick    == [n \in 1..MaxAttempts |-> 1]
=============================================================================
