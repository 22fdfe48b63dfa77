----------------------------- MODULE MCSessionJobs -----------------------------
(* Values of the session jobs' constants for TLC.                          *)
EXTENDS SessionJobs, TLC

CONSTANTS r1, r2, home

OneRequest == {r1}
TwoRequests == {r1, r2}
OneSession == {home}
NoSessions == {}
RequestSymmetry == Permutations({r1, r2})
=============================================================================
