------------------------------ MODULE MCIngress ------------------------------
(* Values of the constants of Ingress for TLC.                             *)
EXTENDS Ingress

CONSTANTS m1, m2   \* messages

OneSender == [m \in Messages |-> 1]
=============================================================================
