--------------------------- MODULE MCStateBackup ---------------------------
(* Values of the constants of backup and restore for TLC.                  *)
EXTENDS StateBackup, TLC

CONSTANTS one, two  \* process ids

\* The id of a process that died is given to another one.
Births == one :> 3 @@ two :> 1
=============================================================================
