------------------------------ MODULE MCKernel ------------------------------
(* Values of the kernel manager's constants for TLC.                       *)
EXTENDS Kernel

CONSTANTS first, second   \* calls of execute
=============================================================================
