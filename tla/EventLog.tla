------------------------------- MODULE EventLog -------------------------------
(***************************************************************************)
(* What plugins/events promises its producers and durable consumers        *)
(* (docs/architecture/adr/0028-events-plugin.md): a log of which a prefix  *)
(* may be forgotten, and for every consumer a position that moves over     *)
(* what it wants in the order of the log, one event at a time, past an     *)
(* event only after a delivery of that very event succeeded or after its   *)
(* budget of deliveries is used up.                                        *)
(***************************************************************************)
EXTENDS Integers, Sequences

CONSTANTS
    Ids,          \* ids producers give their events
    Consumers,    \* durable consumers
    Wanted,       \* per consumer, the ids whose type its filter matches
    StartAt,      \* per consumer, "beginning" or "latest"
    MaxAttempts   \* retry.maxAttempts

VARIABLES
    log,          \* every event published so far
    gone,         \* how many of them were forgotten
    pos,          \* per consumer, the last event it is done with, or Absent
    tries,        \* per consumer and event, the deliveries begun
    fate          \* per consumer and event, how its delivery ended

vars == <<log, gone, pos, tries, fate>>

Absent == -1
Kept == gone + 1 .. Len(log)

\* What a consumer still has to be given; the next of them.
Due(c) == {n \in Kept : pos[c] # Absent /\ n > pos[c] /\ log[n] \in Wanted[c]}
IsNext(c, n) == n \in Due(c) /\ \A m \in Due(c) : n <= m

Init ==
    /\ log = <<>> /\ gone = 0
    /\ pos = [c \in Consumers |-> Absent]
    /\ tries = [c \in Consumers |-> <<>>]
    /\ fate = [c \in Consumers |-> <<>>]

\* An id is in the log at most once, as long as it is remembered.
Append1(id) ==
    /\ \A n \in Kept : log[n] # id
    /\ log' = Append(log, id)
    /\ tries' = [c \in Consumers |-> Append(tries[c], 0)]
    /\ fate' = [c \in Consumers |-> Append(fate[c], "open")]
    /\ UNCHANGED <<gone, pos>>

Join(c) ==
    /\ pos[c] = Absent
    /\ pos' = [pos EXCEPT ![c] = IF StartAt[c] = "beginning" \/ Kept = {} THEN 0 ELSE Len(log)]
    /\ UNCHANGED <<log, gone, tries, fate>>

\* A delivery begins for every consumer of C.
Deliver(C) ==
    /\ C # {}
    /\ tries' = [c \in Consumers |-> [n \in DOMAIN tries[c] |->
                    IF c \in C /\ IsNext(c, n) THEN tries[c][n] + 1 ELSE tries[c][n]]]
    /\ \A c \in C : Due(c) # {}
    /\ UNCHANGED <<log, gone, pos, fate>>

Pass(c, n, outcome) ==
    /\ IsNext(c, n)
    /\ pos' = [pos EXCEPT ![c] = n]
    /\ fate' = [fate EXCEPT ![c][n] = outcome]
    /\ UNCHANGED <<log, gone, tries>>

Succeed(c) == \E n \in Due(c) : tries[c][n] > 0 /\ Pass(c, n, "success")
GiveUp(c) == \E n \in Due(c) : tries[c][n] >= MaxAttempts /\ Pass(c, n, "dead-letter")

\* The consumer asks for the events after n once more.
Rewind(c, n) ==
    /\ pos[c] # Absent /\ n < pos[c]
    /\ pos' = [pos EXCEPT ![c] = n]
    /\ fate' = [fate EXCEPT ![c] = [m \in DOMAIN @ |-> IF m > n THEN "open" ELSE @[m]]]
    /\ UNCHANGED <<log, gone, tries>>

\* Retention forgets only what no consumer still needs.
Forget(n) ==
    /\ n \in Kept
    /\ \A c \in Consumers : pos[c] # Absent => n <= pos[c]
    /\ gone' = n
    /\ tries' = [c \in Consumers |-> [m \in DOMAIN tries[c] |-> IF m <= n THEN 0 ELSE tries[c][m]]]
    /\ fate' = [c \in Consumers |-> [m \in DOMAIN fate[c] |-> IF m <= n THEN "open" ELSE fate[c][m]]]
    /\ UNCHANGED <<log, pos>>

Next ==
    \/ \E id \in Ids : Append1(id)
    \/ \E C \in SUBSET Consumers : Deliver(C)
    \/ \E c \in Consumers : \/ Join(c) \/ Succeed(c) \/ GiveUp(c)
                            \/ \E n \in 0..Len(log) : Rewind(c, n)
    \/ \E n \in 1..Len(log) : Forget(n)

Spec == Init /\ [][Next]_vars
=============================================================================
