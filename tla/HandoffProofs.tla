---------------------------- MODULE HandoffProofs ----------------------------
(***************************************************************************)
(* Single ownership of the participants when predecessors retire their     *)
(* successor before they resume, for any number of handoffs, participants, *)
(* crashes and failed activations.                                         *)
(*                                                                         *)
(* The argument follows the custodian: the one process that may hold       *)
(* participants.  Custody passes to the successor with the release and     *)
(* comes back when the predecessor has seen the successor's end.  Every    *)
(* other process stands aside: it holds nothing and will take nothing.     *)
(*                                                                         *)
(* A second part follows a takeover from the release of the predecessor to *)
(* its acceptance and beyond: what stands accepted is complete.            *)
(*                                                                         *)
(* The part after it is about both flows, and about predecessors that      *)
(* resume first and participants that refuse to stop as well: it follows   *)
(* the process in charge, and shows that the service survives every        *)
(* handoff.                                                                *)
(***************************************************************************)
EXTENDS Handoff, WellFoundedInduction, TLAPS

-----------------------------------------------------------------------------
(* Extrema.                                                                *)

\* A non-empty set of naturals has a minimum.
LEMMA MinOfNaturals ==
    ASSUME NEW S \in SUBSET Nat, S # {}
    PROVE  Min(S) \in S /\ \A y \in S : Min(S) <= y
<1> DEFINE R == OpToRel(<, Nat)
<1>1. IsWellFoundedOn(R, Nat)
  BY NatLessThanWellFounded
<1>2. \A x, y \in Nat : x < y => <<x, y>> \in R
  BY DEF OpToRel
<1> HIDE DEF R
<1>3. PICK x \in S : \A y \in S : <<y, x>> \notin R
  BY <1>1, WFMin
<1>4. \A y \in S : ~(y < x)
  BY <1>2, <1>3
<1>5. \A y \in S : x <= y
  BY <1>4
<1> QED
  BY <1>5 DEF Min

\* A non-empty set of naturals that is bounded above has a maximum: its least
\* upper bound.
LEMMA MaxOfBounded ==
    ASSUME NEW bound \in Nat, NEW S \in SUBSET (0 .. bound), S # {}
    PROVE  Max(S) \in S /\ \A y \in S : y <= Max(S)
<1> DEFINE Above == {u \in Nat : \A y \in S : y <= u}
           least == Min(Above)
<1>1. least \in Nat /\ (\A y \in S : y <= least) /\ \A u \in Above : least <= u
  <2>1. bound \in Above /\ Above \in SUBSET Nat
    OBVIOUS
  <2> QED
    BY <2>1, MinOfNaturals
<1> HIDE DEF least
<1>2. least \in S
  <2>1. SUFFICES ASSUME least \notin S
                 PROVE  FALSE
    OBVIOUS
  <2>2. \A y \in S : y \in Nat /\ y < least
    BY <1>1, <2>1
  <2>3. PICK z \in S : z \in Nat /\ z < least
    BY <2>2
  <2>4. least - 1 \in Nat /\ \A y \in S : y <= least - 1
    <3> HIDE DEF Above
    <3>1. least \in Nat
      BY <1>1
    <3> QED
      BY <2>2, <2>3, <3>1
  <2> QED
    BY <1>1, <2>4
<1> QED
  BY <1>1, <1>2 DEF Max

\* The handoffs the proof is about: those of the self-improvement flow, one at
\* a time in each process, whose participants may refuse to start but not to
\* stop.
RetireFirst == /\ Flows \subseteq {"mission"}
               /\ Serial
               /\ "quiesce" \notin FaultKinds

Driving(r) == ~Settled(r)

\* The predecessor of r has let go and not yet got back.
Passing(r) == /\ handoff[r].holds
              /\ handoff[r].ctl \in {"waiting", "retiring", "reaping"}
              /\ Running(handoff[r].pred)

\* Why a process stands aside: it has ended; it is a successor that was not
\* released; it handed over, and waits for its successor or for its end.
Unreleased(p) == /\ p \in Handoffs
                 /\ proc[p].pc \in {"boot", "waiting", "cleaning", "exiting"}
                 /\ handoff[p].phase \notin {"quiesced", "accepted"}
LetGo(p) == /\ proc[p].pc = "owner"
            /\ \E q \in Handoffs : handoff[q].pred = p /\ Passing(q)
Leaving(p) == /\ proc[p].pc = "owner"
              /\ proc[p].life = "terminating"
              /\ \A q \in Handoffs : handoff[q].pred = p =>
                                         handoff[q].ctl \in {"none", "settled"}

Aside(p) == /\ proc[p].active = {}
            /\ ~Running(p) \/ Unreleased(p) \/ LetGo(p) \/ Leaving(p)

Custodian(c) == /\ c \in Processes
                /\ \A p \in Processes : p # c => Aside(p)
                /\ \A r \in Handoffs : Passing(r) => r = c

\* What a predecessor's progress says of its record and its coordinator call.
\* "h" is the handoff, "P" its predecessor.
Orderly(h) ==
    /\ (h.ctl = "none" <=> h.phase = "none")
    /\ h.ctl # "none" => h.flow = "mission"
    /\ h.ctl # "restoring"
    /\ h.ctl = "waiting" => h.holds
    /\ h.ctl \in {"launching", "replying", "quiescing"} => ~h.holds
    /\ h.ctl = "launching" => h.phase \in {"launching", "ready", "failed"}
    /\ h.ctl = "quiescing" => h.call.op = "quiesce" /\ ~h.call.bad
    /\ h.ctl = "resuming" => h.call.op = "resume"

\* What a process's life and progress say of its coordinator.
Composed(P) ==
    /\ P.life \notin {"up", "terminating"} => P.active = {}
    /\ P.active \cap P.quiesced = {}
    /\ P.pc \in {"boot", "waiting", "activating"} => P.quiesced = {}
    /\ P.pc = "cleaning" => P.call.op = "quiesce" /\ ~P.call.bad
    /\ P.pc = "activating" => P.call.op \in {"activate", "undo"}

\* How a handoff relates to the two processes.
Linked(r) ==
    /\ handoff[r].ctl = "none" => proc[r].life = "unborn"
    /\ handoff[r].ctl # "none" => proc[handoff[r].pred].life # "unborn"
    /\ Driving(r) => /\ proc[handoff[r].pred].pc = "owner"
                     /\ handoff[r].pred \in Handoffs => Settled(handoff[r].pred)
    /\ handoff[r].ctl = "quiescing" =>
           proc[handoff[r].pred].active \subseteq handoff[r].call.todo

OneAtATime ==
    \A q, r \in Handoffs :
        Driving(q) /\ Driving(r) /\ handoff[q].pred = handoff[r].pred => q = r

Shape == /\ TypeOK
         /\ \A r \in Handoffs : Orderly(handoff[r]) /\ Linked(r)
         /\ \A p \in Processes : Composed(proc[p])
         /\ OneAtATime

IInv == Shape /\ \E c \in Processes : Custodian(c)

-----------------------------------------------------------------------------
(* Consequences of the invariant.                                          *)

\* A predecessor in a handoff that has not let go is the custodian.
LEMMA DriverIsCustodian ==
    ASSUME Shape, NEW c, Custodian(c),
           NEW r \in Handoffs, Driving(r), ~Passing(r)
    PROVE  handoff[r].pred = c
<1> DEFINE p == handoff[r].pred
<1>1. p \in Processes /\ Running(p) /\ proc[p].pc = "owner"
         /\ handoff[r].ctl \notin {"none", "settled"}
  BY DEF Shape, TypeOK, HandoffRecord, Linked, Driving, Settled
<1>2. SUFFICES ASSUME p # c PROVE FALSE
  OBVIOUS
<1>3. Aside(p)
  BY <1>1, <1>2 DEF Custodian
<1>4. ~Unreleased(p)
  BY <1>1 DEF Unreleased
<1>5. ~Leaving(p)
  BY <1>1 DEF Leaving
<1>6. ~LetGo(p)
  <2>1. SUFFICES ASSUME NEW q \in Handoffs, handoff[q].pred = p, Passing(q)
                 PROVE  FALSE
    BY DEF LetGo
  <2>2. Driving(q)
    BY <2>1 DEF Passing, Driving, Settled
  <2>3. q = r
    BY <2>1, <2>2 DEF Shape, OneAtATime
  <2> QED
    BY <2>1, <2>3
<1> QED
  BY <1>1, <1>3, <1>4, <1>5, <1>6 DEF Aside

\* No handoff is its own predecessor's.
LEMMA NotItsOwnPredecessor ==
    ASSUME Shape, NEW r \in Handoffs, Driving(r)
    PROVE  handoff[r].pred # r
BY DEF Shape, Linked, Driving

LEMMA PassingIsDriving ==
    ASSUME NEW r \in Handoffs, Passing(r)
    PROVE  Driving(r)
BY DEF Passing, Driving, Settled

\* A process stays aside when neither it nor its handoffs change in a way
\* that matters.
LEMMA StaysAside ==
    ASSUME NEW p \in Processes, Aside(p), proc'[p] = proc[p],
           p \in Handoffs =>
               \/ handoff'[p].phase = handoff[p].phase
               \/ handoff'[p].phase \notin {"quiesced", "accepted"},
           \A q \in Handoffs : handoff[q].pred = p /\ Passing(q) =>
               handoff'[q].pred = p /\ Passing(q)',
           \A q \in Handoffs : handoff'[q].pred = p =>
               \/ handoff'[q].ctl \in {"none", "settled"}
               \/ handoff[q].pred = p /\ handoff[q].ctl \notin {"none", "settled"}
    PROVE  Aside(p)'
<1>1. proc'[p].active = {}
  BY DEF Aside
<1>2. CASE ~Running(p)
  BY <1>1, <1>2 DEF Aside, Running
<1>3. CASE Unreleased(p)
  BY <1>1, <1>3 DEF Aside, Unreleased
<1>4. CASE LetGo(p)
  BY <1>1, <1>4 DEF Aside, LetGo
<1>5. CASE Leaving(p)
  BY <1>1, <1>5 DEF Aside, Leaving
<1> QED
  BY <1>2, <1>3, <1>4, <1>5 DEF Aside

-----------------------------------------------------------------------------
(* A step of the predecessor that changes only its handoff.                *)

LEMMA PredecessorStep ==
    ASSUME Shape, NEW c, Custodian(c), NEW r \in Handoffs, Driving(r),
           NEW h \in HandoffRecord,
           handoff' = [handoff EXCEPT ![r] = h], proc' = proc,
           disk' \in Processes, faults' \in Nat,
           Orderly(h), h.ctl # "none", h.pred = handoff[r].pred,
           h.phase \in {"quiesced", "accepted"} => h.phase = handoff[r].phase,
           Passing(r) <=> h.holds /\ h.ctl \in {"waiting", "retiring", "reaping"},
           h.ctl = "quiescing" => h.call.todo = Participants
    PROVE  IInv'
<1>1. handoff \in [Handoffs -> HandoffRecord] /\ proc \in [Processes -> ProcessRecord]
  BY DEF Shape, TypeOK
<1>2. handoff'[r] = h /\ \A q \in Handoffs : q # r => handoff'[q] = handoff[q]
  BY <1>1
<1>3. TypeOK'
  BY <1>1 DEF TypeOK
<1>4. \A p : Running(p)' <=> Running(p)
  BY DEF Running
<1>5. \A q \in Handoffs : Settled(q) => Settled(q)'
  BY <1>2, <1>4 DEF Settled, Driving
<1>6. \A q \in Handoffs : Driving(q)' => Driving(q)
  BY <1>5 DEF Driving
<1>7. \A q \in Handoffs : handoff'[q].pred = handoff[q].pred
  BY <1>2
<1>8. \A q \in Handoffs : Passing(q)' <=> Passing(q)
  <2>1. Running(handoff[r].pred)
    BY DEF Driving, Settled
  <2> QED
    BY <1>2, <1>4, <2>1 DEF Passing
<1>9. ASSUME NEW q \in Handoffs PROVE (Orderly(handoff[q]) /\ Linked(q))'
  <2>1. Orderly(handoff'[q])
    BY <1>2 DEF Shape
  <2>2. proc[handoff[r].pred].active \subseteq Participants
    BY <1>1 DEF HandoffRecord, ProcessRecord
  <2>3. Linked(q)
    BY DEF Shape
  <2>4. handoff[q].ctl # "none" \/ q # r
    BY DEF Driving, Settled
  <2>5. Linked(q)'
    <3>1. CASE q = r
      BY <1>2, <1>5, <1>6, <1>7, <2>2, <2>3, <2>4, <3>1 DEF Linked
    <3>2. CASE q # r
      BY <1>2, <1>5, <1>6, <1>7, <2>3, <3>2 DEF Linked
    <3> QED
      BY <3>1, <3>2
  <2> QED
    BY <2>1, <2>5
<1>10. OneAtATime'
  BY <1>6, <1>7 DEF Shape, OneAtATime
<1>11. Shape'
  <2>1. \A p \in Processes : Composed(proc'[p])
    BY DEF Shape
  <2> QED
    BY <1>3, <1>9, <1>10, <2>1 DEF Shape
<1>12. ASSUME NEW p \in Processes, p # c PROVE Aside(p)'
  <2>1. Aside(p)
    BY <1>12 DEF Custodian
  <2>2. handoff[r].ctl \notin {"none", "settled"}
    BY DEF Driving, Settled
  <2>3. p \in Handoffs => \/ handoff'[p].phase = handoff[p].phase
                          \/ handoff'[p].phase \notin {"quiesced", "accepted"}
    BY <1>2
  <2>4. \A q \in Handoffs : handoff'[q].pred = p =>
               \/ handoff'[q].ctl \in {"none", "settled"}
               \/ handoff[q].pred = p /\ handoff[q].ctl \notin {"none", "settled"}
    BY <1>2, <2>2
  <2> QED
    BY <1>7, <1>8, <2>1, <2>3, <2>4, StaysAside
<1>13. Custodian(c)'
  <2>1. c \in Processes /\ \A q \in Handoffs : Passing(q) => q = c
    BY DEF Custodian
  <2> QED
    BY <1>8, <1>12, <2>1 DEF Custodian
<1>14. \E d \in Processes : Custodian(d)'
  BY <1>13 DEF Custodian
<1> QED
  BY <1>11, <1>14 DEF IInv

\* The coordinator's calls as they start.
LEMMA CallShape ==
    ASSUME NEW op \in {"quiesce", "resume", "activate"}
    PROVE  /\ Call(op) \in Coordination
           /\ Call(op).op = op
           /\ Call(op).todo = Participants
           /\ Call(op).newly = {}
           /\ ~Call(op).bad
BY DEF Call, NoCall, Coordination

\* A handoff under way is a mission's.
LEMMA DrivenByMission ==
    ASSUME Shape, NEW r \in Handoffs, NEW s, At(r, s), s \notin {"none", "settled"}
    PROVE  /\ handoff[r] \in HandoffRecord
           /\ handoff \in [Handoffs -> HandoffRecord]
           /\ proc \in [Processes -> ProcessRecord]
           /\ disk \in Processes /\ faults \in Nat
           /\ Orderly(handoff[r])
           /\ handoff[r].flow = "mission"
           /\ handoff[r].ctl = s
           /\ Driving(r)
BY DEF Shape, TypeOK, At, Orderly, Driving, Settled

\* The step a mission takes after a failure: it retires the successor.
LEMMA AfterMissionFailure ==
    ASSUME NEW h \in HandoffRecord, h.flow = "mission"
    PROVE  /\ AfterFailure(h) \in HandoffRecord
           /\ AfterFailure(h).ctl = "retiring"
           /\ AfterFailure(h).phase = h.phase
           /\ AfterFailure(h).pred = h.pred
           /\ AfterFailure(h).flow = h.flow
           /\ AfterFailure(h).holds = h.holds
<1> DEFINE g == [h EXCEPT !.ctl = "retiring"]
<1>1. g \in HandoffRecord /\ g.ctl = "retiring" /\ g.phase = h.phase /\ g.pred = h.pred
        /\ g.flow = h.flow /\ g.holds = h.holds
  BY DEF HandoffRecord
<1>2. AfterFailure(h) = [g EXCEPT !.call = NoCall]
  BY DEF AfterFailure
<1>3. NoCall \in Coordination
  BY DEF NoCall, Coordination
<1> HIDE DEF g
<1> QED
  BY <1>1, <1>2, <1>3 DEF HandoffRecord

\* A fault keeps the count a natural number.
LEMMA FaultCount ==
    ASSUME faults \in Nat, NEW kind, Fault(kind) \/ Pay(kind) \/ UNCHANGED faults
    PROVE  faults' \in Nat
BY DEF Fault, Pay

\* The steps in which a mission's predecessor only moves on.
LEMMA PredecessorMovesOn ==
    ASSUME RetireFirst, Shape, NEW c, Custodian(c), NEW r \in Handoffs,
           \/ SpawnFails(r) \/ LaunchReady(r) \/ LaunchFails(r)
           \/ Proceed(r) \/ Withdraw(r) \/ TakeoverFails(r) \/ Resumed(r)
           \/ Reaped(r) /\ ~handoff[r].holds
    PROVE  IInv'
<1>1. CASE SpawnFails(r)
  <2> DEFINE h == [handoff[r] EXCEPT !.phase = "failed"]
             g == [h EXCEPT !.ctl = "settled"]
  <2>1. At(r, "launching") /\ proc' = proc /\ disk' = disk /\ Fault("spawn")
    BY <1>1 DEF SpawnFails
  <2>2. handoff' = [handoff EXCEPT ![r] = Unlaunched(h)]
    BY <1>1 DEF SpawnFails
  <2>3. Orderly(handoff[r]) /\ handoff[r].ctl = "launching" /\ handoff[r].flow = "mission"
    BY <2>1, DrivenByMission
  <2>4. handoff[r] \in HandoffRecord /\ Driving(r) /\ disk \in Processes /\ faults \in Nat
    BY <2>1, DrivenByMission
  <2>5. h \in HandoffRecord /\ h.flow = "mission" /\ h.phase = "failed"
          /\ h.pred = handoff[r].pred /\ h.holds = handoff[r].holds
    BY <2>3, <2>4 DEF HandoffRecord
  <2> HIDE DEF h
  <2>6. Unlaunched(h) = g
    BY <2>5 DEF Unlaunched
  <2>7. g \in HandoffRecord /\ g.ctl = "settled" /\ g.flow = "mission" /\ g.phase = "failed"
          /\ g.pred = handoff[r].pred
    BY <2>5 DEF HandoffRecord
  <2> HIDE DEF g
  <2>8. ~Passing(r)
    BY <2>3 DEF Passing
  <2>9. Orderly(g)
    BY <2>7 DEF Orderly
  <2>10. faults' \in Nat
    BY <2>1, <2>4, FaultCount
  <2> QED
    BY <2>1, <2>2, <2>4, <2>6, <2>7, <2>8, <2>9, <2>10, PredecessorStep
<1>2. CASE LaunchReady(r)
  <2> DEFINE h == [handoff[r] EXCEPT !.ctl = "replying"]
  <2>1. At(r, "launching") /\ proc' = proc /\ disk' = disk /\ faults' = faults
          /\ handoff' = [handoff EXCEPT ![r] = h]
    BY <1>2 DEF LaunchReady
  <2>2. Orderly(handoff[r]) /\ handoff[r].ctl = "launching" /\ handoff[r].flow = "mission"
    BY <2>1, DrivenByMission
  <2>3. handoff[r] \in HandoffRecord /\ Driving(r) /\ disk' \in Processes /\ faults' \in Nat
    BY <2>1, DrivenByMission
  <2>4. h \in HandoffRecord /\ h.ctl = "replying" /\ h.flow = "mission"
          /\ h.phase = handoff[r].phase /\ h.pred = handoff[r].pred /\ ~h.holds
    BY <2>2, <2>3 DEF HandoffRecord, Orderly
  <2>5. handoff[r].phase # "none"
    BY <2>2 DEF Orderly
  <2> HIDE DEF h
  <2>6. ~Passing(r) /\ Orderly(h)
    BY <2>2, <2>4, <2>5 DEF Passing, Orderly
  <2> QED
    BY <2>1, <2>3, <2>4, <2>6, PredecessorStep
<1>3. CASE LaunchFails(r)
  <2> DEFINE h == [handoff[r] EXCEPT !.phase =
                      IF handoff[r].phase = "launching" THEN "failed" ELSE handoff[r].phase]
             g == [h EXCEPT !.ctl = "settled"]
  <2>1. At(r, "launching") /\ proc' = proc /\ disk' = disk /\ faults' = faults
    BY <1>3 DEF LaunchFails
  <2>2. handoff' = [handoff EXCEPT ![r] = Unlaunched(h)]
    BY <1>3 DEF LaunchFails
  <2>3. Orderly(handoff[r]) /\ handoff[r].ctl = "launching" /\ handoff[r].flow = "mission"
    BY <2>1, DrivenByMission
  <2>4. handoff[r] \in HandoffRecord /\ Driving(r) /\ disk' \in Processes /\ faults' \in Nat
    BY <2>1, DrivenByMission
  <2>5. h \in HandoffRecord /\ h.flow = "mission" /\ h.phase \in {"ready", "failed"}
          /\ h.pred = handoff[r].pred
    BY <2>3, <2>4 DEF HandoffRecord, Orderly
  <2> HIDE DEF h
  <2>6. Unlaunched(h) = g
    BY <2>5 DEF Unlaunched
  <2>7. g \in HandoffRecord /\ g.ctl = "settled" /\ g.flow = "mission"
          /\ g.phase \in {"ready", "failed"} /\ g.pred = handoff[r].pred
    BY <2>5 DEF HandoffRecord
  <2> HIDE DEF g
  <2>8. ~Passing(r) /\ Orderly(g)
    BY <2>3, <2>7 DEF Passing, Orderly
  <2> QED
    BY <2>1, <2>2, <2>4, <2>6, <2>7, <2>8, PredecessorStep
<1>4. CASE Proceed(r)
  <2> DEFINE h == [handoff[r] EXCEPT !.ctl = "quiescing"]
             g == [h EXCEPT !.call = Call("quiesce")]
  <2>1. At(r, "replying") /\ proc' = proc /\ disk' = disk /\ faults' = faults
          /\ handoff' = [handoff EXCEPT ![r].ctl = "quiescing", ![r].call = Call("quiesce")]
    BY <1>4 DEF Proceed
  <2>2. Orderly(handoff[r]) /\ handoff[r].ctl = "replying" /\ handoff[r].flow = "mission"
    BY <2>1, DrivenByMission
  <2>3. handoff[r] \in HandoffRecord /\ Driving(r) /\ disk' \in Processes /\ faults' \in Nat
          /\ handoff \in [Handoffs -> HandoffRecord]
    BY <2>1, DrivenByMission
  <2>4. handoff' = [handoff EXCEPT ![r] = g]
    BY <2>1, <2>3
  <2>5. h \in HandoffRecord /\ h.ctl = "quiescing" /\ h.flow = "mission"
          /\ h.phase = handoff[r].phase /\ h.pred = handoff[r].pred /\ ~h.holds
    BY <2>2, <2>3 DEF HandoffRecord, Orderly
  <2>6. handoff[r].phase # "none"
    BY <2>2 DEF Orderly
  <2> HIDE DEF h
  <2>7. g \in HandoffRecord /\ g.ctl = "quiescing" /\ g.flow = "mission"
          /\ g.phase = handoff[r].phase /\ g.pred = handoff[r].pred /\ ~g.holds
          /\ g.call = Call("quiesce")
    BY <2>5, CallShape DEF HandoffRecord
  <2> HIDE DEF g
  <2>8. ~Passing(r) /\ Orderly(g)
    BY <2>2, <2>6, <2>7, CallShape DEF Passing, Orderly
  <2> QED
    BY <2>1, <2>3, <2>4, <2>7, <2>8, CallShape, PredecessorStep
<1>5. CASE Withdraw(r)
  <2> DEFINE g == AfterFailure(handoff[r])
  <2>1. At(r, "replying") /\ proc' = proc /\ disk' = disk /\ faults' = faults
          /\ handoff' = [handoff EXCEPT ![r] = g]
    BY <1>5 DEF Withdraw
  <2>2. Orderly(handoff[r]) /\ handoff[r].ctl = "replying" /\ handoff[r].flow = "mission"
    BY <2>1, DrivenByMission
  <2>3. handoff[r] \in HandoffRecord /\ Driving(r) /\ disk' \in Processes /\ faults' \in Nat
    BY <2>1, DrivenByMission
  <2>4. g \in HandoffRecord /\ g.ctl = "retiring" /\ g.phase = handoff[r].phase
          /\ g.pred = handoff[r].pred /\ g.flow = "mission" /\ g.holds = handoff[r].holds
    BY <2>2, <2>3, AfterMissionFailure
  <2> HIDE DEF g
  <2>5. ~Passing(r) /\ Orderly(g) /\ ~g.holds
    BY <2>2, <2>4 DEF Passing, Orderly
  <2> QED
    BY <2>1, <2>3, <2>4, <2>5, PredecessorStep
<1>6. CASE TakeoverFails(r)
  <2> DEFINE h == [handoff[r] EXCEPT !.phase =
                      IF handoff[r].phase = "accepted" THEN handoff[r].phase ELSE "failed"]
             g == AfterFailure(h)
  <2>1. At(r, "waiting") /\ proc' = proc /\ disk' = disk /\ faults' = faults
          /\ handoff' = [handoff EXCEPT ![r] = g]
    BY <1>6 DEF TakeoverFails
  <2>2. Orderly(handoff[r]) /\ handoff[r].ctl = "waiting" /\ handoff[r].flow = "mission"
    BY <2>1, DrivenByMission
  <2>3. handoff[r] \in HandoffRecord /\ Driving(r) /\ disk' \in Processes /\ faults' \in Nat
    BY <2>1, DrivenByMission
  <2>4. h \in HandoffRecord /\ h.flow = "mission" /\ h.pred = handoff[r].pred
          /\ h.holds = handoff[r].holds /\ h.phase \in {"accepted", "failed"}
          /\ (h.phase = "accepted" => handoff[r].phase = "accepted")
    BY <2>2, <2>3 DEF HandoffRecord
  <2> HIDE DEF h
  <2>5. g \in HandoffRecord /\ g.ctl = "retiring" /\ g.phase = h.phase
          /\ g.pred = handoff[r].pred /\ g.flow = "mission" /\ g.holds = handoff[r].holds
    BY <2>4, AfterMissionFailure
  <2> HIDE DEF g
  <2>6. Orderly(g) /\ handoff[r].holds /\ Running(handoff[r].pred)
    BY <2>1, <2>2, <2>4, <2>5 DEF Orderly, At
  <2>7. Passing(r)
    BY <2>2, <2>6 DEF Passing
  <2> QED
    BY <2>1, <2>3, <2>4, <2>5, <2>6, <2>7, PredecessorStep
<1>7. CASE Resumed(r)
  <2> DEFINE e == [handoff[r] EXCEPT !.ctl = "settled"]
             h == [e EXCEPT !.holds = handoff[r].call.bad]
             g == [h EXCEPT !.call = NoCall]
  <2>1. At(r, "resuming") /\ proc' = proc /\ disk' = disk /\ faults' = faults
    BY <1>7 DEF Resumed
  <2>2. Orderly(handoff[r]) /\ handoff[r].ctl = "resuming" /\ handoff[r].flow = "mission"
    BY <2>1, DrivenByMission
  <2>3. handoff[r] \in HandoffRecord /\ Driving(r) /\ disk' \in Processes /\ faults' \in Nat
          /\ handoff \in [Handoffs -> HandoffRecord]
    BY <2>1, DrivenByMission
  <2>4. handoff' = [handoff EXCEPT ![r] = g]
    BY <1>7, <2>2, <2>3 DEF Resumed
  <2>5. e \in HandoffRecord /\ e.ctl = "settled" /\ e.flow = "mission"
          /\ e.phase = handoff[r].phase /\ e.pred = handoff[r].pred
    BY <2>2, <2>3 DEF HandoffRecord
  <2>6. handoff[r].call.bad \in BOOLEAN
    BY <2>3 DEF HandoffRecord, Coordination
  <2>7. handoff[r].phase # "none"
    BY <2>2 DEF Orderly
  <2> HIDE DEF e
  <2>8. h \in HandoffRecord /\ h.ctl = "settled" /\ h.flow = "mission"
          /\ h.phase = handoff[r].phase /\ h.pred = handoff[r].pred
    BY <2>5, <2>6 DEF HandoffRecord
  <2> HIDE DEF h
  <2>9. NoCall \in Coordination
    BY DEF NoCall, Coordination
  <2>10. g \in HandoffRecord /\ g.ctl = "settled" /\ g.flow = "mission"
          /\ g.phase = handoff[r].phase /\ g.pred = handoff[r].pred
    BY <2>8, <2>9 DEF HandoffRecord
  <2> HIDE DEF g
  <2>11. ~Passing(r) /\ Orderly(g)
    BY <2>2, <2>7, <2>10 DEF Passing, Orderly
  <2> QED
    BY <2>1, <2>3, <2>4, <2>10, <2>11, PredecessorStep
<1>8. CASE Reaped(r) /\ ~handoff[r].holds
  <2> DEFINE g == [handoff[r] EXCEPT !.ctl = "settled"]
  <2>1. At(r, "reaping") /\ proc' = proc /\ disk' = disk /\ faults' = faults
    BY <1>8 DEF Reaped
  <2>2. Orderly(handoff[r]) /\ handoff[r].ctl = "reaping" /\ handoff[r].flow = "mission"
    BY <2>1, DrivenByMission
  <2>3. handoff[r] \in HandoffRecord /\ Driving(r) /\ disk' \in Processes /\ faults' \in Nat
    BY <2>1, DrivenByMission
  <2>4. handoff' = [handoff EXCEPT ![r] = g]
    BY <1>8, <2>2 DEF Reaped
  <2>5. g \in HandoffRecord /\ g.ctl = "settled" /\ g.flow = "mission"
          /\ g.phase = handoff[r].phase /\ g.pred = handoff[r].pred
    BY <2>2, <2>3 DEF HandoffRecord
  <2>6. handoff[r].phase # "none"
    BY <2>2 DEF Orderly
  <2> HIDE DEF g
  <2>7. ~Passing(r) /\ Orderly(g)
    BY <1>8, <2>5, <2>6 DEF Passing, Orderly
  <2> QED
    BY <2>1, <2>3, <2>4, <2>5, <2>7, PredecessorStep
<1> QED
  BY <1>1, <1>2, <1>3, <1>4, <1>5, <1>6, <1>7, <1>8

-----------------------------------------------------------------------------
(* A step of the successor: its own progress and the phase of its record.  *)

LEMMA SuccessorStep ==
    ASSUME Shape, NEW c, Custodian(c), NEW r \in Handoffs, Running(r), proc[r].pc # "owner",
           NEW P \in ProcessRecord, proc' = [proc EXCEPT ![r] = P],
           P.life = proc[r].life, Composed(P),
           NEW h \in HandoffRecord, handoff' = [handoff EXCEPT ![r] = h],
           h.ctl = handoff[r].ctl, h.pred = handoff[r].pred,
           h.holds = handoff[r].holds, h.call = handoff[r].call, Orderly(h),
           disk' \in Processes, faults' \in Nat,
           r # c => /\ P.active = {}
                    /\ P.pc \in {"boot", "waiting", "cleaning", "exiting"}
                    /\ h.phase \notin {"quiesced", "accepted"}
    PROVE  IInv'
<1>1. /\ handoff \in [Handoffs -> HandoffRecord]
      /\ proc \in [Processes -> ProcessRecord]
      /\ r \in Processes
  BY DEF Shape, TypeOK, Handoffs, Processes
<1>2. handoff'[r] = h /\ \A q \in Handoffs : q # r => handoff'[q] = handoff[q]
  BY <1>1
<1>3. proc'[r] = P /\ \A p \in Processes : p # r => proc'[p] = proc[p]
  BY <1>1
<1>4. TypeOK'
  BY <1>1 DEF TypeOK
<1>5. \A p \in Processes : /\ (Running(p)' <=> Running(p))
                            /\ proc'[p].life = proc[p].life
  BY <1>3 DEF Running
<1>6. \A q \in Handoffs : /\ handoff'[q].pred = handoff[q].pred
                           /\ handoff'[q].ctl = handoff[q].ctl
                           /\ handoff'[q].holds = handoff[q].holds
                           /\ handoff'[q].call = handoff[q].call
  BY <1>2
<1>7. \A q \in Handoffs : handoff[q].pred \in Processes /\ q \in Processes
  BY <1>1 DEF HandoffRecord, Handoffs, Processes
<1>8. \A q \in Handoffs : Settled(q)' <=> Settled(q)
  BY <1>5, <1>6, <1>7 DEF Settled
<1>9. \A q \in Handoffs : Driving(q)' <=> Driving(q)
  BY <1>8 DEF Driving
<1>10. \A q \in Handoffs : Passing(q)' <=> Passing(q)
  BY <1>5, <1>6, <1>7 DEF Passing
<1>11. ASSUME NEW q \in Handoffs PROVE (Orderly(handoff[q]) /\ Linked(q))'
  <2>0. PICK p \in Processes : p = handoff[q].pred
    BY <1>7
  <2>1. Orderly(handoff'[q])
    BY <1>2 DEF Shape
  <2>2. Linked(q) /\ Composed(proc[p])
    BY <2>0 DEF Shape
  <2>3. Driving(q) => p # r
    BY <2>0, <2>2 DEF Linked
  <2>4. handoff[q].ctl = "quiescing" => p # r
    BY <2>0, <2>3 DEF Driving, Settled
  <2>5. p # r => proc'[p] = proc[p]
    BY <1>3
  <2>6. p = handoff'[q].pred
    BY <1>6, <2>0
  <2>7. handoff'[q].ctl = "none" => proc'[q].life = "unborn"
    BY <1>5, <1>6, <1>7, <2>2 DEF Linked
  <2>8. handoff'[q].ctl # "none" => proc'[p].life # "unborn"
    BY <1>5, <1>6, <2>0, <2>2 DEF Linked
  <2>9. Driving(q)' => proc'[p].pc = "owner" /\ (p \in Handoffs => Settled(p)')
    BY <1>8, <1>9, <2>0, <2>2, <2>3, <2>5 DEF Linked
  <2>10. handoff'[q].ctl = "quiescing" => proc'[p].active \subseteq handoff'[q].call.todo
    BY <1>6, <2>0, <2>2, <2>4, <2>5 DEF Linked
  <2>11. Linked(q)'
    BY <2>6, <2>7, <2>8, <2>9, <2>10 DEF Linked
  <2> QED
    BY <2>1, <2>11
<1>12. OneAtATime'
  BY <1>6, <1>9 DEF Shape, OneAtATime
<1>13. Shape'
  <2>1. \A p \in Processes : Composed(proc'[p])
    BY <1>3 DEF Shape
  <2> QED
    BY <1>4, <1>11, <1>12, <2>1 DEF Shape
<1>14. ASSUME NEW p \in Processes, p # c PROVE Aside(p)'
  <2>1. CASE p # r
    <3>1. Aside(p)
      BY <1>14 DEF Custodian
    <3>2. proc'[p] = proc[p] /\ (p \in Handoffs => handoff'[p].phase = handoff[p].phase)
      BY <1>2, <1>3, <2>1
    <3> QED
      BY <1>6, <1>10, <3>1, <3>2, StaysAside
  <2>2. CASE p = r
    <3>1. P.active = {} /\ P.pc \in {"boot", "waiting", "cleaning", "exiting"}
            /\ h.phase \notin {"quiesced", "accepted"}
      BY <1>14, <2>2
    <3>2. Unreleased(r)'
      BY <1>2, <1>3, <3>1 DEF Unreleased
    <3> QED
      BY <1>3, <2>2, <3>1, <3>2 DEF Aside
  <2> QED
    BY <2>1, <2>2
<1>15. Custodian(c)'
  <2>1. c \in Processes /\ \A q \in Handoffs : Passing(q) => q = c
    BY DEF Custodian
  <2> QED
    BY <1>10, <1>14, <2>1 DEF Custodian
<1>16. \E d \in Processes : Custodian(d)'
  BY <1>15 DEF Custodian
<1> QED
  BY <1>13, <1>16 DEF IInv

\* What the invariant says of a successor on its way.
LEMMA OnItsWay ==
    ASSUME RetireFirst, Shape, NEW c, Custodian(c), NEW r \in Handoffs, NEW s,
           Starts(r, s), s # "owner"
    PROVE  /\ handoff \in [Handoffs -> HandoffRecord] /\ handoff[r] \in HandoffRecord
           /\ proc \in [Processes -> ProcessRecord] /\ proc[r] \in ProcessRecord
           /\ disk \in Processes /\ faults \in Nat
           /\ Running(r) /\ proc[r].pc = s
           /\ Orderly(handoff[r]) /\ handoff[r].ctl # "none" /\ handoff[r].flow = "mission"
           /\ Composed(proc[r])
           /\ r # c => proc[r].active = {} /\ Unreleased(r)
<1>1. r \in Processes
  BY DEF Handoffs, Processes
<1>2. Running(r) /\ proc[r].pc = s /\ proc[r].life # "unborn"
  BY DEF Starts, Running
<1>3. Orderly(handoff[r]) /\ Linked(r) /\ Composed(proc[r])
  BY <1>1 DEF Shape
<1>4. handoff[r].ctl # "none" /\ handoff[r].flow = "mission"
  BY <1>2, <1>3 DEF Linked, Orderly
<1>5. r # c => proc[r].active = {} /\ Unreleased(r)
  BY <1>1, <1>2 DEF Custodian, Aside, LetGo, Leaving
<1> QED
  BY <1>1, <1>2, <1>3, <1>4, <1>5 DEF Shape, TypeOK

\* The error path leaves everything but the coordinator call in place.
LEMMA CleaningShape ==
    ASSUME NEW P \in ProcessRecord
    PROVE  /\ Cleaning(P) \in ProcessRecord
           /\ Cleaning(P).pc = "cleaning"
           /\ Cleaning(P).life = P.life
           /\ Cleaning(P).active = P.active
           /\ Cleaning(P).config = P.config
           /\ Composed(P) => Composed(Cleaning(P))
<1> DEFINE Q == [P EXCEPT !.pc = "cleaning"]
           R == [Q EXCEPT !.call = Call("quiesce")]
<1>1. Cleaning(P) = R
  BY DEF Cleaning
<1>2. /\ Q \in ProcessRecord /\ Q.pc = "cleaning" /\ Q.life = P.life
      /\ Q.active = P.active /\ Q.quiesced = P.quiesced /\ Q.config = P.config
  BY DEF ProcessRecord
<1> HIDE DEF Q
<1>3. /\ R \in ProcessRecord /\ R.pc = "cleaning" /\ R.life = P.life
      /\ R.active = P.active /\ R.quiesced = P.quiesced /\ R.call = Call("quiesce")
      /\ R.config = P.config
  BY <1>2, CallShape DEF ProcessRecord
<1> HIDE DEF R
<1>4. Composed(P) => Composed(R)
  BY <1>3, CallShape DEF Composed
<1> QED
  BY <1>1, <1>3, <1>4

\* The steps of a successor's startup outside the coordinator's walk.
LEMMA SuccessorMovesOn ==
    ASSUME RetireFirst, Shape, NEW c, Custodian(c), NEW r \in Handoffs,
           \/ Ready(r) \/ BootFails(r) \/ TakeOver(r) \/ ReleaseFails(r)
           \/ ActivateFails(r) \/ Accept(r) \/ Reject(r)
    PROVE  IInv'
<1>1. CASE Ready(r)
  <2> DEFINE h == [handoff[r] EXCEPT !.phase = "ready"]
             P == [proc[r] EXCEPT !.pc = "waiting"]
  <2>1. Starts(r, "boot") /\ handoff[r].phase = "launching" /\ disk' = disk /\ faults' = faults
          /\ handoff' = [handoff EXCEPT ![r] = h] /\ proc' = [proc EXCEPT ![r] = P]
    BY <1>1 DEF Ready
  <2>2. /\ handoff[r] \in HandoffRecord /\ proc[r] \in ProcessRecord
        /\ disk \in Processes /\ faults \in Nat
        /\ Running(r) /\ proc[r].pc = "boot"
        /\ Orderly(handoff[r]) /\ handoff[r].ctl # "none" /\ Composed(proc[r])
        /\ r # c => proc[r].active = {}
    BY <2>1, OnItsWay
  <2>3. /\ h \in HandoffRecord /\ h.phase = "ready" /\ h.ctl = handoff[r].ctl
        /\ h.pred = handoff[r].pred /\ h.flow = handoff[r].flow
        /\ h.holds = handoff[r].holds /\ h.call = handoff[r].call
    BY <2>2 DEF HandoffRecord
  <2>4. /\ P \in ProcessRecord /\ P.pc = "waiting" /\ P.life = proc[r].life
        /\ P.active = proc[r].active /\ P.quiesced = proc[r].quiesced
    BY <2>2 DEF ProcessRecord
  <2> HIDE DEF h, P
  <2>5. Orderly(h)
    BY <2>2, <2>3 DEF Orderly
  <2>6. Composed(P)
    BY <2>2, <2>4 DEF Composed
  <2> QED
    BY <2>1, <2>2, <2>3, <2>4, <2>5, <2>6, SuccessorStep
<1>2. CASE BootFails(r)
  <2> DEFINE P == [proc[r] EXCEPT !.pc = "exiting"]
  <2>1. Starts(r, "boot") /\ handoff' = handoff /\ disk' = disk /\ faults' = faults
    BY <1>2 DEF BootFails
  <2>2. /\ handoff \in [Handoffs -> HandoffRecord]
        /\ handoff[r] \in HandoffRecord /\ proc[r] \in ProcessRecord
        /\ disk \in Processes /\ faults \in Nat
        /\ Running(r) /\ proc[r].pc = "boot" /\ handoff[r].flow = "mission"
        /\ Orderly(handoff[r]) /\ handoff[r].ctl # "none" /\ Composed(proc[r])
        /\ r # c => proc[r].active = {} /\ Unreleased(r)
    BY <2>1, OnItsWay
  <2>3. proc' = [proc EXCEPT ![r] = P]
    BY <1>2, <2>2 DEF BootFails
  <2>4. handoff' = [handoff EXCEPT ![r] = handoff[r]]
    BY <2>1, <2>2
  <2>5. /\ P \in ProcessRecord /\ P.pc = "exiting" /\ P.life = proc[r].life
        /\ P.active = proc[r].active /\ P.quiesced = proc[r].quiesced
    BY <2>2 DEF ProcessRecord
  <2> HIDE DEF P
  <2>6. Composed(P)
    BY <2>2, <2>5 DEF Composed
  <2>7. r # c => handoff[r].phase \notin {"quiesced", "accepted"}
    BY <2>2 DEF Unreleased
  <2> QED
    BY <2>1, <2>2, <2>3, <2>4, <2>5, <2>6, <2>7, SuccessorStep
<1>3. CASE TakeOver(r)
  <2> DEFINE Q == [proc[r] EXCEPT !.pc = "activating"]
             P == [Q EXCEPT !.call = Call("activate")]
  <2>1. Starts(r, "waiting") /\ handoff' = handoff /\ disk' = disk /\ faults' = faults
          /\ handoff[r].phase \in {"quiesced", "accepted"}
          /\ proc' = [proc EXCEPT ![r].pc = "activating", ![r].call = Call("activate")]
    BY <1>3 DEF TakeOver
  <2>2. /\ handoff \in [Handoffs -> HandoffRecord]
        /\ handoff[r] \in HandoffRecord /\ proc[r] \in ProcessRecord
        /\ proc \in [Processes -> ProcessRecord]
        /\ disk \in Processes /\ faults \in Nat
        /\ Running(r) /\ proc[r].pc = "waiting"
        /\ Orderly(handoff[r]) /\ handoff[r].ctl # "none" /\ Composed(proc[r])
        /\ r # c => Unreleased(r)
    BY <2>1, OnItsWay
  <2>3. r = c
    BY <2>1, <2>2 DEF Unreleased
  <2>4. proc' = [proc EXCEPT ![r] = P]
    BY <2>1, <2>2
  <2>5. handoff' = [handoff EXCEPT ![r] = handoff[r]]
    BY <2>1, <2>2
  <2>6. /\ Q \in ProcessRecord /\ Q.pc = "activating" /\ Q.life = proc[r].life
        /\ Q.active = proc[r].active /\ Q.quiesced = proc[r].quiesced
    BY <2>2 DEF ProcessRecord
  <2> HIDE DEF Q
  <2>7. /\ P \in ProcessRecord /\ P.pc = "activating" /\ P.life = proc[r].life
        /\ P.active = proc[r].active /\ P.quiesced = proc[r].quiesced
        /\ P.call = Call("activate")
    BY <2>6, CallShape DEF ProcessRecord
  <2> HIDE DEF P
  <2>8. Composed(P)
    BY <2>2, <2>7, CallShape DEF Composed
  <2> QED
    BY <2>1, <2>2, <2>3, <2>4, <2>5, <2>7, <2>8, SuccessorStep, ZenonT(40)
<1>4. CASE ReleaseFails(r)
  <2> DEFINE h == [handoff[r] EXCEPT !.phase = "failed"]
             P == Cleaning(proc[r])
  <2>1. Starts(r, "waiting") /\ disk' = disk /\ faults' = faults
          /\ handoff' = [handoff EXCEPT ![r] = h] /\ proc' = [proc EXCEPT ![r] = P]
    BY <1>4 DEF ReleaseFails
  <2>2. /\ handoff[r] \in HandoffRecord /\ proc[r] \in ProcessRecord
        /\ disk \in Processes /\ faults \in Nat
        /\ Running(r) /\ proc[r].pc = "waiting"
        /\ Orderly(handoff[r]) /\ handoff[r].ctl # "none" /\ Composed(proc[r])
        /\ r # c => proc[r].active = {}
    BY <2>1, OnItsWay
  <2>3. /\ h \in HandoffRecord /\ h.phase = "failed" /\ h.ctl = handoff[r].ctl
        /\ h.pred = handoff[r].pred /\ h.flow = handoff[r].flow
        /\ h.holds = handoff[r].holds /\ h.call = handoff[r].call
    BY <2>2 DEF HandoffRecord
  <2>4. /\ P \in ProcessRecord /\ P.pc = "cleaning" /\ P.life = proc[r].life
        /\ P.active = proc[r].active /\ Composed(P)
    BY <2>2, CleaningShape
  <2> HIDE DEF h, P
  <2>5. Orderly(h)
    BY <2>2, <2>3 DEF Orderly
  <2> QED
    BY <2>1, <2>2, <2>3, <2>4, <2>5, SuccessorStep
<1>5. CASE ActivateFails(r)
  <2> DEFINE P == Cleaning(proc[r])
  <2>1. Starts(r, "activating") /\ handoff' = handoff /\ disk' = disk /\ faults' = faults
          /\ proc' = [proc EXCEPT ![r] = P]
    BY <1>5 DEF ActivateFails
  <2>2. /\ handoff \in [Handoffs -> HandoffRecord]
        /\ handoff[r] \in HandoffRecord /\ proc[r] \in ProcessRecord
        /\ disk \in Processes /\ faults \in Nat
        /\ Running(r) /\ proc[r].pc = "activating"
        /\ Orderly(handoff[r]) /\ Composed(proc[r])
        /\ r # c => Unreleased(r)
    BY <2>1, OnItsWay
  <2>3. r = c
    BY <2>2 DEF Unreleased
  <2>4. handoff' = [handoff EXCEPT ![r] = handoff[r]]
    BY <2>1, <2>2
  <2>5. P \in ProcessRecord /\ P.life = proc[r].life /\ Composed(P)
    BY <2>2, CleaningShape
  <2> HIDE DEF P
  <2> QED
    BY <2>1, <2>2, <2>3, <2>4, <2>5, SuccessorStep
<1>6. CASE Accept(r)
  <2> DEFINE h == [handoff[r] EXCEPT !.phase =
                      IF handoff[r].phase = "quiesced" THEN "accepted" ELSE handoff[r].phase]
             Q == [proc[r] EXCEPT !.pc = "owner"]
             R == [Q EXCEPT !.call = NoCall]
             P == IF handoff[r].phase = "quiesced" THEN R ELSE Cleaning(proc[r])
  <2>1. Starts(r, "activating") /\ disk' = disk /\ faults' = faults
          /\ handoff' = [handoff EXCEPT ![r] = h]
    BY <1>6 DEF Accept
  <2>2. /\ handoff[r] \in HandoffRecord /\ proc[r] \in ProcessRecord
        /\ disk \in Processes /\ faults \in Nat
        /\ Running(r) /\ proc[r].pc = "activating"
        /\ Orderly(handoff[r]) /\ Composed(proc[r])
        /\ r # c => Unreleased(r)
    BY <2>1, OnItsWay
  <2>3. r = c
    BY <2>2 DEF Unreleased
  <2>4. proc' = [proc EXCEPT ![r] = P]
    BY <1>6 DEF Accept
  <2>5. /\ h \in HandoffRecord /\ h.ctl = handoff[r].ctl
        /\ h.phase = IF handoff[r].phase = "quiesced" THEN "accepted" ELSE handoff[r].phase
        /\ h.pred = handoff[r].pred /\ h.flow = handoff[r].flow
        /\ h.holds = handoff[r].holds /\ h.call = handoff[r].call
    BY <2>2 DEF HandoffRecord
  <2> HIDE DEF h
  <2>6. Orderly(h)
    BY <2>2, <2>5 DEF Orderly
  <2>7. /\ Q \in ProcessRecord /\ Q.pc = "owner" /\ Q.life = proc[r].life
        /\ Q.active = proc[r].active /\ Q.quiesced = proc[r].quiesced
    BY <2>2 DEF ProcessRecord
  <2> HIDE DEF Q
  <2>8. NoCall \in Coordination
    BY DEF NoCall, Coordination
  <2>9. /\ R \in ProcessRecord /\ R.pc = "owner" /\ R.life = proc[r].life
        /\ R.active = proc[r].active /\ R.quiesced = proc[r].quiesced
    BY <2>7, <2>8 DEF ProcessRecord
  <2> HIDE DEF R
  <2>10. Composed(R)
    BY <2>2, <2>9 DEF Composed
  <2>11. P \in ProcessRecord /\ P.life = proc[r].life /\ Composed(P)
    BY <2>2, <2>9, <2>10, CleaningShape
  <2> HIDE DEF P
  <2> QED
    BY <2>1, <2>2, <2>3, <2>4, <2>5, <2>6, <2>11, SuccessorStep
<1>7. CASE Reject(r)
  <2> DEFINE h == [handoff[r] EXCEPT !.phase =
                      IF /\ handoff[r].phase \in {"ready", "quiesced"}
                         /\ handoff[r].flow = "settings" => ~proc[r].call.bad
                      THEN "failed" ELSE handoff[r].phase]
             Q == [proc[r] EXCEPT !.pc = "exiting"]
             P == [Q EXCEPT !.call = NoCall]
  <2>1. Starts(r, "cleaning") /\ disk' = disk /\ faults' = faults
          /\ handoff' = [handoff EXCEPT ![r] = h]
          /\ proc' = [proc EXCEPT ![r].pc = "exiting", ![r].call = NoCall]
    BY <1>7 DEF Reject
  <2>2. /\ handoff[r] \in HandoffRecord /\ proc[r] \in ProcessRecord
        /\ proc \in [Processes -> ProcessRecord]
        /\ disk \in Processes /\ faults \in Nat
        /\ Running(r) /\ proc[r].pc = "cleaning"
        /\ Orderly(handoff[r]) /\ handoff[r].ctl # "none" /\ Composed(proc[r])
        /\ r # c => proc[r].active = {} /\ Unreleased(r)
    BY <2>1, OnItsWay
  <2>3. proc' = [proc EXCEPT ![r] = P]
    BY <2>1, <2>2
  <2>4. /\ h \in HandoffRecord /\ h.ctl = handoff[r].ctl
        /\ h.phase \in {handoff[r].phase, "failed"}
        /\ h.pred = handoff[r].pred /\ h.flow = handoff[r].flow
        /\ h.holds = handoff[r].holds /\ h.call = handoff[r].call
    BY <2>2 DEF HandoffRecord
  <2> HIDE DEF h
  <2>5. Orderly(h)
    BY <2>2, <2>4 DEF Orderly
  <2>6. /\ Q \in ProcessRecord /\ Q.pc = "exiting" /\ Q.life = proc[r].life
        /\ Q.active = proc[r].active /\ Q.quiesced = proc[r].quiesced
    BY <2>2 DEF ProcessRecord
  <2> HIDE DEF Q
  <2>7. NoCall \in Coordination
    BY DEF NoCall, Coordination
  <2>8. /\ P \in ProcessRecord /\ P.pc = "exiting" /\ P.life = proc[r].life
        /\ P.active = proc[r].active /\ P.quiesced = proc[r].quiesced
    BY <2>6, <2>7 DEF ProcessRecord
  <2> HIDE DEF P
  <2>9. Composed(P)
    BY <2>2, <2>8 DEF Composed
  <2>10. r # c => h.phase \notin {"quiesced", "accepted"}
    BY <2>2, <2>4 DEF Unreleased
  <2> QED
    BY <2>1, <2>2, <2>3, <2>4, <2>5, <2>8, <2>9, <2>10, SuccessorStep, ZenonT(40)
<1> QED
  BY <1>1, <1>2, <1>3, <1>4, <1>5, <1>6, <1>7

-----------------------------------------------------------------------------
(* The end of a process, in an orderly way or not.                         *)

LEMMA EndShape ==
    ASSUME NEW P \in ProcessRecord, NEW how \in {"exited", "crashed"}
    PROVE  /\ Ended(P, how) \in ProcessRecord
           /\ Ended(P, how).life = how
           /\ Ended(P, how).active = {}
           /\ Ended(P, how).pc = P.pc
           /\ Composed(P) => Composed(Ended(P, how))
<1> DEFINE Q == [P EXCEPT !.life = how]
           R == [Q EXCEPT !.active = {}]
<1>1. Ended(P, how) = R
  BY DEF Ended
<1>2. /\ Q \in ProcessRecord /\ Q.life = how /\ Q.pc = P.pc
      /\ Q.quiesced = P.quiesced /\ Q.call = P.call
  BY DEF ProcessRecord
<1> HIDE DEF Q
<1>3. /\ R \in ProcessRecord /\ R.life = how /\ R.pc = P.pc /\ R.active = {}
      /\ R.quiesced = P.quiesced /\ R.call = P.call
  BY <1>2 DEF ProcessRecord
<1> HIDE DEF R
<1>4. Composed(P) => Composed(R)
  BY <1>3 DEF Composed
<1> QED
  BY <1>1, <1>3, <1>4

LEMMA DeathStep ==
    ASSUME Shape, NEW c, Custodian(c), NEW x \in Processes, Running(x),
           NEW how \in {"exited", "crashed"},
           proc' = [proc EXCEPT ![x] = Ended(proc[x], how)],
           handoff' = handoff, disk' = disk, faults' \in Nat
    PROVE  IInv'
<1> DEFINE Q == Ended(proc[x], how)
<1>1. /\ handoff \in [Handoffs -> HandoffRecord]
      /\ proc \in [Processes -> ProcessRecord]
      /\ disk \in Processes
      /\ Composed(proc[x])
  BY DEF Shape, TypeOK
<1>2. /\ Q \in ProcessRecord /\ Q.life \notin {"up", "terminating", "unborn"}
      /\ Q.active = {} /\ Q.pc = proc[x].pc /\ Composed(Q)
  BY <1>1, EndShape
<1>3. proc' = [proc EXCEPT ![x] = Q]
  OBVIOUS
<1> HIDE DEF Q
<1>4. proc'[x] = Q /\ \A p \in Processes : p # x => proc'[p] = proc[p]
  BY <1>1, <1>3
<1>5. TypeOK'
  BY <1>1, <1>2, <1>3 DEF TypeOK
<1>6. /\ ~Running(x)'
      /\ \A p \in Processes : p # x => (Running(p)' <=> Running(p))
  BY <1>2, <1>4 DEF Running
<1>7. \A q \in Handoffs : handoff[q].pred \in Processes /\ q \in Processes
  BY <1>1 DEF HandoffRecord, Handoffs, Processes
<1>8. \A q \in Handoffs : Settled(q) => Settled(q)'
  BY <1>6, <1>7 DEF Settled
<1>9. \A q \in Handoffs : Driving(q)' => Driving(q) /\ handoff[q].pred # x
  BY <1>6, <1>8 DEF Driving, Settled
<1>10. \A q \in Handoffs : Passing(q)' <=> Passing(q) /\ handoff[q].pred # x
  BY <1>6, <1>7 DEF Passing
<1>11. ASSUME NEW q \in Handoffs PROVE (Orderly(handoff[q]) /\ Linked(q))'
  <2>1. PICK p \in Processes : p = handoff[q].pred
    BY <1>7
  <2>2. Linked(q) /\ Orderly(handoff'[q])
    BY DEF Shape
  <2>3. proc[x].life # "unborn"
    BY DEF Running
  <2>4. handoff'[q].ctl = "none" => proc'[q].life = "unborn"
    BY <1>4, <1>7, <2>2, <2>3 DEF Linked
  <2>5. handoff'[q].ctl # "none" => proc'[p].life # "unborn"
    BY <1>2, <1>4, <2>1, <2>2 DEF Linked
  <2>6. Driving(q)' => proc'[p].pc = "owner" /\ (p \in Handoffs => Settled(p)')
    BY <1>4, <1>8, <1>9, <2>1, <2>2 DEF Linked
  <2>7. handoff'[q].ctl = "quiescing" => proc'[p].active \subseteq handoff'[q].call.todo
    BY <1>2, <1>4, <2>1, <2>2 DEF Linked
  <2>8. Linked(q)'
    BY <2>1, <2>4, <2>5, <2>6, <2>7 DEF Linked
  <2> QED
    BY <2>2, <2>8
<1>12. OneAtATime'
  BY <1>9 DEF Shape, OneAtATime
<1>13. Shape'
  <2>1. \A p \in Processes : Composed(proc'[p])
    BY <1>2, <1>4 DEF Shape
  <2> QED
    BY <1>5, <1>11, <1>12, <2>1 DEF Shape
<1>14. ASSUME NEW p \in Processes, p # c PROVE Aside(p)'
  <2>1. CASE p = x
    BY <1>2, <1>4, <1>6, <2>1 DEF Aside
  <2>2. CASE p # x
    <3>1. Aside(p)
      BY <1>14 DEF Custodian
    <3>2. \A q \in Handoffs : handoff[q].pred = p /\ Passing(q) => Passing(q)'
      BY <1>10, <2>2
    <3> QED
      BY <1>4, <2>2, <3>1, <3>2, StaysAside
  <2> QED
    BY <2>1, <2>2
<1>15. Custodian(c)'
  <2>1. c \in Processes /\ \A q \in Handoffs : Passing(q) => q = c
    BY DEF Custodian
  <2> QED
    BY <1>10, <1>14, <2>1 DEF Custodian
<1>16. \E d \in Processes : Custodian(d)'
  BY <1>15 DEF Custodian
<1> QED
  BY <1>13, <1>16 DEF IInv

LEMMA ProcessEnds ==
    ASSUME Shape, NEW c, Custodian(c), NEW p \in Processes, Exit(p) \/ Crash(p)
    PROVE  IInv'
<1>1. Running(p)
  BY DEF Exit, Crash, Starts, Running
<1>2. faults \in Nat
  BY DEF Shape, TypeOK
<1>3. CASE Exit(p)
  BY <1>1, <1>2, <1>3, DeathStep DEF Exit
<1>4. CASE Crash(p)
  <2>1. faults' \in Nat
    BY <1>2, <1>4, FaultCount DEF Crash
  <2> QED
    BY <1>1, <1>4, <2>1, DeathStep DEF Crash
<1> QED
  BY <1>3, <1>4

-----------------------------------------------------------------------------
(* The coordinator's walk over the participants.                           *)

\* The participant a call visits next is one it still has to visit; a call
\* that stops participants takes the highest, another the lowest.
LEMMA VisitedEligible ==
    ASSUME NEW k \in Coordination, NEW P \in ProcessRecord, Eligible(k, P) # {}
    PROVE  /\ Visited(k, P) \in Eligible(k, P)
           /\ Visited(k, P) \in Participants
           /\ Stops(k) => \A y \in Eligible(k, P) : y <= Visited(k, P)
           /\ ~Stops(k) => \A y \in Eligible(k, P) : Visited(k, P) <= y
<1>1. Eligible(k, P) \subseteq k.todo
  BY DEF Eligible
<1>2. k.todo \subseteq Participants
  BY DEF Coordination
<1>3. /\ ParticipantCount \in Nat
      /\ Eligible(k, P) \in SUBSET (0 .. ParticipantCount)
      /\ Eligible(k, P) \in SUBSET Nat
  BY <1>1, <1>2, HandoffAssumption DEF Participants
<1>4. CASE Stops(k)
  <2>1. Visited(k, P) = Max(Eligible(k, P))
    BY <1>4 DEF Visited
  <2>2. /\ Max(Eligible(k, P)) \in Eligible(k, P)
        /\ \A y \in Eligible(k, P) : y <= Max(Eligible(k, P))
    BY <1>3, MaxOfBounded
  <2> QED
    BY <1>1, <1>2, <1>4, <2>1, <2>2
<1>5. CASE ~Stops(k)
  <2>1. Visited(k, P) = Min(Eligible(k, P))
    BY <1>5 DEF Visited
  <2>2. /\ Min(Eligible(k, P)) \in Eligible(k, P)
        /\ \A y \in Eligible(k, P) : Min(Eligible(k, P)) <= y
    BY <1>3, MinOfNaturals
  <2> QED
    BY <1>1, <1>2, <1>5, <2>1, <2>2
<1> QED
  BY <1>4, <1>5

\* What a participant that obeys changes.
LEMMA ObeyedShape ==
    ASSUME NEW k \in Coordination, NEW P \in ProcessRecord, NEW x \in Participants
    PROVE  /\ Obeyed(k, P, x) \in ProcessRecord
           /\ Obeyed(k, P, x).life = P.life
           /\ Obeyed(k, P, x).pc = P.pc
           /\ Obeyed(k, P, x).call = P.call
           /\ Obeyed(k, P, x).config = P.config
           /\ Obeyed(k, P, x).active =
                  IF Stops(k) THEN P.active \ {x} ELSE P.active \cup {x}
           /\ Obeyed(k, P, x).quiesced =
                  CASE k.op = "quiesce"               -> P.quiesced \cup {x}
                    [] k.op \in {"restore", "resume"} -> P.quiesced \ {x}
                    [] OTHER                          -> P.quiesced
           /\ k.op = "activate" =>
                  Obeyed(k, P, x).activated = P.activated \cup {x}
<1> DEFINE active == IF Stops(k) THEN P.active \ {x} ELSE P.active \cup {x}
           quiesced == CASE k.op = "quiesce"               -> P.quiesced \cup {x}
                         [] k.op \in {"restore", "resume"} -> P.quiesced \ {x}
                         [] OTHER                          -> P.quiesced
           activated == CASE k.op = "activate" -> P.activated \cup {x}
                          [] k.op = "undo"     -> P.activated \ {x}
                          [] OTHER             -> P.activated
           Q == [P EXCEPT !.active = active]
           R == [Q EXCEPT !.quiesced = quiesced]
           S == [R EXCEPT !.activated = activated]
<1>1. Obeyed(k, P, x) = S
  BY DEF Obeyed, ProcessRecord
<1>2. active \subseteq Participants /\ quiesced \subseteq Participants
        /\ activated \subseteq Participants
  BY DEF ProcessRecord
<1> HIDE DEF active, quiesced, activated
<1>3. /\ Q \in ProcessRecord /\ Q.life = P.life /\ Q.pc = P.pc /\ Q.call = P.call
      /\ Q.config = P.config
      /\ Q.active = active
  BY <1>2 DEF ProcessRecord
<1> HIDE DEF Q
<1>4. /\ R \in ProcessRecord /\ R.life = P.life /\ R.pc = P.pc /\ R.call = P.call
      /\ R.config = P.config
      /\ R.active = active /\ R.quiesced = quiesced
  BY <1>2, <1>3 DEF ProcessRecord
<1> HIDE DEF R
<1>5. /\ S \in ProcessRecord /\ S.life = P.life /\ S.pc = P.pc /\ S.call = P.call
      /\ S.config = P.config
      /\ S.active = active /\ S.quiesced = quiesced /\ S.activated = activated
  BY <1>2, <1>4 DEF ProcessRecord
<1> HIDE DEF S
<1>6. Obeyed(k, P, x) \in ProcessRecord /\ Obeyed(k, P, x).life = P.life
        /\ Obeyed(k, P, x).pc = P.pc /\ Obeyed(k, P, x).call = P.call
        /\ Obeyed(k, P, x).active = active /\ Obeyed(k, P, x).quiesced = quiesced
        /\ Obeyed(k, P, x).config = P.config /\ Obeyed(k, P, x).activated = activated
  BY <1>1, <1>5
<1> QED
  BY <1>6 DEF active, quiesced, activated

\* One step of a call in which nothing refuses to stop.
LEMMA OutcomeShape ==
    ASSUME NEW k \in Coordination, NEW P \in ProcessRecord, NEW o \in Outcomes(k, P),
           P.active \cap P.quiesced = {}, o.fault # "quiesce",
           k.op \in {"quiesce", "resume", "activate", "undo"},
           k.op = "quiesce" => ~k.bad,
           k.op \in {"activate", "undo"} => P.quiesced = {}
    PROVE  /\ o.call \in Coordination
           /\ o.proc \in ProcessRecord
           /\ o.proc.life = P.life /\ o.proc.pc = P.pc
           /\ o.proc.active \cap o.proc.quiesced = {}
           /\ k.op \in {"quiesce", "resume"} => o.call.op = k.op
           /\ k.op = "quiesce" => ~o.call.bad
           /\ k.op \in {"activate", "undo"} =>
                  o.call.op \in {"activate", "undo"} /\ o.proc.quiesced = {}
           /\ k.op = "quiesce" => o.proc.active \subseteq P.active
           /\ k.op = "quiesce" /\ P.active \subseteq k.todo =>
                  o.proc.active \subseteq o.call.todo
<1>1. Eligible(k, P) # {}
  BY DEF Outcomes
<1>2. PICK x : x = Visited(k, P)
  OBVIOUS
<1>3. x \in Eligible(k, P) /\ x \in Participants
        /\ (Stops(k) => \A y \in Eligible(k, P) : y <= x)
  BY <1>1, <1>2, VisitedEligible
<1>4. /\ k.todo \subseteq Participants /\ k.newly \subseteq Participants
      /\ Later(k, x) \subseteq k.todo
  BY DEF Coordination, Later
<1> DEFINE newly == IF k.op \in {"quiesce", "activate"} THEN k.newly \cup {x} ELSE k.newly
           walk == [k EXCEPT !.todo = Later(k, x)]
           done == [walk EXCEPT !.newly = newly]
           undo == [k EXCEPT !.op = "undo"]
           back == [undo EXCEPT !.todo = k.newly]
           hurt == [walk EXCEPT !.bad = TRUE]
<1>5. walk \in Coordination /\ walk.op = k.op /\ walk.todo = Later(k, x) /\ walk.bad = k.bad
  BY <1>4 DEF Coordination
<1>6. newly \subseteq Participants
  BY <1>3, <1>4
<1>7. undo \in Coordination /\ undo.op = "undo"
  BY DEF Coordination
<1>8. \/ o.call = done /\ o.proc = Obeyed(k, P, x)
      \/ k.op = "activate" /\ o.call = back /\ o.proc = P
      \/ k.op = "resume" /\ o.call = hurt /\ o.proc = P
  BY <1>1, <1>2 DEF Outcomes, Refused, Stops, Coordination
<1> HIDE DEF walk, newly, undo
<1>9. done \in Coordination /\ done.op = k.op /\ done.todo = Later(k, x) /\ done.bad = k.bad
  BY <1>5, <1>6 DEF Coordination
<1>10. back \in Coordination /\ back.op = "undo"
  BY <1>4, <1>7 DEF Coordination
<1>11. hurt \in Coordination /\ hurt.op = k.op
  BY <1>5 DEF Coordination
<1> HIDE DEF done, back, hurt
<1>12. CASE o.call = done /\ o.proc = Obeyed(k, P, x)
  <2> DEFINE R == Obeyed(k, P, x)
  <2>1. /\ R \in ProcessRecord /\ R.life = P.life /\ R.pc = P.pc
        /\ R.active = IF Stops(k) THEN P.active \ {x} ELSE P.active \cup {x}
        /\ R.quiesced = CASE k.op = "quiesce"               -> P.quiesced \cup {x}
                           [] k.op \in {"restore", "resume"} -> P.quiesced \ {x}
                           [] OTHER                          -> P.quiesced
    BY <1>3, ObeyedShape
  <2> HIDE DEF R
  <2>2. R.active \cap R.quiesced = {}
    BY <2>1 DEF Stops
  <2>3. k.op \in {"activate", "undo"} => R.quiesced = {}
    BY <2>1
  <2>4. k.op = "quiesce" => R.active = P.active \ {x}
    BY <2>1 DEF Stops
  <2>5. ASSUME k.op = "quiesce", P.active \subseteq k.todo, NEW y \in R.active
        PROVE  y \in Later(k, x)
    <3>1. y \in k.todo /\ y # x /\ y \in Eligible(k, P) /\ Stops(k)
      BY <2>4, <2>5 DEF Eligible, Stops
    <3>2. y <= x /\ y \in Int /\ x \in Int
      BY <1>3, <1>4, <3>1 DEF Participants
    <3>3. y < x
      BY <3>1, <3>2
    <3> QED
      BY <3>1, <3>3 DEF Later
  <2> QED
    BY <1>9, <1>12, <2>1, <2>2, <2>3, <2>4, <2>5 DEF R
<1>13. CASE k.op = "activate" /\ o.call = back /\ o.proc = P
  BY <1>10, <1>13
<1>14. CASE k.op = "resume" /\ o.call = hurt /\ o.proc = P
  BY <1>11, <1>14
<1> QED
  BY <1>8, <1>12, <1>13, <1>14

\* The successor's steps through its coordinator.
LEMMA SuccessorWalks ==
    ASSUME RetireFirst, Shape, NEW c, Custodian(c), NEW r \in Handoffs, SuccessorCall(r)
    PROVE  IInv'
<1>1. PICK o \in Outcomes(proc[r].call, proc[r]) :
          /\ Pay(o.fault)
          /\ proc' = [proc EXCEPT ![r] = [o.proc EXCEPT !.call = o.call]]
  BY DEF SuccessorCall
<1>2. /\ Starts(r, "activating") \/ Starts(r, "cleaning")
      /\ handoff' = handoff /\ disk' = disk
  BY DEF SuccessorCall
<1>3. PICK s \in {"activating", "cleaning"} : Starts(r, s)
  BY <1>2
<1>4. /\ handoff \in [Handoffs -> HandoffRecord] /\ handoff[r] \in HandoffRecord
      /\ proc[r] \in ProcessRecord /\ disk \in Processes /\ faults \in Nat
      /\ Running(r) /\ proc[r].pc = s
      /\ Orderly(handoff[r]) /\ Composed(proc[r])
      /\ r # c => proc[r].active = {} /\ Unreleased(r)
  BY <1>3, OnItsWay
<1>5. o.fault # "quiesce"
  BY <1>1 DEF Pay, Fault, RetireFirst
<1>6. proc[r].call \in Coordination
  BY <1>4 DEF ProcessRecord
<1>7. /\ proc[r].active \cap proc[r].quiesced = {}
      /\ s = "activating" => proc[r].call.op \in {"activate", "undo"} /\ proc[r].quiesced = {}
      /\ s = "cleaning" => proc[r].call.op = "quiesce" /\ ~proc[r].call.bad
  BY <1>4 DEF Composed
<1>8. /\ o.call \in Coordination /\ o.proc \in ProcessRecord
      /\ o.proc.life = proc[r].life /\ o.proc.pc = s
      /\ o.proc.active \cap o.proc.quiesced = {}
      /\ s = "activating" => o.call.op \in {"activate", "undo"} /\ o.proc.quiesced = {}
      /\ s = "cleaning" => /\ o.call.op = "quiesce" /\ ~o.call.bad
                           /\ o.proc.active \subseteq proc[r].active
  BY <1>3, <1>4, <1>5, <1>6, <1>7, OutcomeShape
<1> DEFINE P == [o.proc EXCEPT !.call = o.call]
<1>9. /\ P \in ProcessRecord /\ P.life = proc[r].life /\ P.pc = s
      /\ P.active = o.proc.active /\ P.quiesced = o.proc.quiesced /\ P.call = o.call
  BY <1>8 DEF ProcessRecord
<1>10. proc' = [proc EXCEPT ![r] = P]
  BY <1>1
<1> HIDE DEF P
<1>11. P.life \in {"up", "terminating"}
  BY <1>4, <1>9 DEF Running
<1>12. Composed(P)
  BY <1>8, <1>9, <1>11, <1>3 DEF Composed
<1>13. handoff' = [handoff EXCEPT ![r] = handoff[r]]
  BY <1>2, <1>4
<1>14. faults' \in Nat
  BY <1>1, <1>4, FaultCount
<1>15. r # c => /\ P.active = {} /\ P.pc = "cleaning"
                /\ handoff[r].phase \notin {"quiesced", "accepted"}
  BY <1>3, <1>4, <1>8, <1>9 DEF Unreleased
<1>16. proc[r].pc # "owner"
  BY <1>3, <1>4
<1> QED
  BY <1>2, <1>4, <1>9, <1>10, <1>12, <1>13, <1>14, <1>15, <1>16, SuccessorStep

-----------------------------------------------------------------------------
(* Steps of the predecessor that also change a process or move custody.    *)

\* Such a step keeps the shape of the state, whichever process x it changes.
LEMMA ShapePreserved ==
    ASSUME Shape, NEW r \in Handoffs, Driving(r), NEW x \in Processes,
           NEW h \in HandoffRecord, handoff' = [handoff EXCEPT ![r] = h],
           NEW P \in ProcessRecord, proc' = [proc EXCEPT ![x] = P],
           disk' \in Processes, faults' \in Nat, Orderly(h), Composed(P),
           P.pc = proc[x].pc, (P.life = "unborn" <=> proc[x].life = "unborn"),
           (P.life \in {"up", "terminating"} <=> Running(x)),
           h.pred = handoff[r].pred, h.ctl # "none",
           h.ctl = "quiescing" => x = handoff[r].pred /\ P.active \subseteq h.call.todo,
           P.active \subseteq proc[x].active \/ x = handoff[r].pred
    PROVE  /\ Shape'
           /\ \A p \in Processes : (Running(p)' <=> Running(p))
           /\ handoff'[r] = h /\ \A q \in Handoffs : q # r => handoff'[q] = handoff[q]
           /\ proc'[x] = P /\ \A p \in Processes : p # x => proc'[p] = proc[p]
<1>1. /\ handoff \in [Handoffs -> HandoffRecord]
      /\ proc \in [Processes -> ProcessRecord]
  BY DEF Shape, TypeOK
<1>2. handoff'[r] = h /\ \A q \in Handoffs : q # r => handoff'[q] = handoff[q]
  BY <1>1
<1>3. proc'[x] = P /\ \A p \in Processes : p # x => proc'[p] = proc[p]
  BY <1>1
<1>4. TypeOK'
  BY <1>1 DEF TypeOK
<1>5. \A p \in Processes : /\ (Running(p)' <=> Running(p))
                            /\ (proc'[p].life = "unborn" <=> proc[p].life = "unborn")
                            /\ proc'[p].pc = proc[p].pc
  BY <1>3 DEF Running
<1>6. \A q \in Handoffs : handoff'[q].pred = handoff[q].pred
  BY <1>2
<1>7. \A q \in Handoffs : handoff[q].pred \in Processes /\ q \in Processes
  BY <1>1 DEF HandoffRecord, Handoffs, Processes
<1>8. Running(handoff[r].pred) /\ handoff[r].ctl \notin {"none", "settled"}
  BY DEF Driving, Settled
<1>9. \A q \in Handoffs : Settled(q) => Settled(q)'
  BY <1>2, <1>5, <1>6, <1>7, <1>8 DEF Settled
<1>10. \A q \in Handoffs : Driving(q)' => Driving(q)
  BY <1>9 DEF Driving
<1>11. ASSUME NEW q \in Handoffs PROVE (Orderly(handoff[q]) /\ Linked(q))'
  <2>1. PICK p \in Processes : p = handoff[q].pred
    BY <1>7
  <2>2. Linked(q) /\ Orderly(handoff'[q])
    BY <1>2 DEF Shape
  <2>3. p = handoff'[q].pred
    BY <1>6, <2>1
  <2>4. handoff'[q].ctl = "none" => proc'[q].life = "unborn"
    BY <1>2, <1>5, <1>7, <2>2 DEF Linked
  <2>5. handoff'[q].ctl # "none" => proc'[p].life # "unborn"
    BY <1>2, <1>5, <1>8, <2>1, <2>2 DEF Linked
  <2>6. Driving(q)' => proc'[p].pc = "owner" /\ (p \in Handoffs => Settled(p)')
    BY <1>5, <1>9, <1>10, <2>1, <2>2 DEF Linked
  <2>7. handoff'[q].ctl = "quiescing" => proc'[p].active \subseteq handoff'[q].call.todo
    <3>1. CASE q = r
      BY <1>2, <1>3, <2>1, <3>1
    <3>2. CASE q # r /\ p # x
      BY <1>2, <1>3, <2>1, <2>2, <3>2 DEF Linked
    <3>3. CASE q # r /\ p = x /\ P.active \subseteq proc[x].active
      BY <1>2, <1>3, <2>1, <2>2, <3>3 DEF Linked
    <3>4. CASE q # r /\ p = x /\ x = handoff[r].pred
      <4>1. SUFFICES ASSUME handoff[q].ctl = "quiescing" PROVE FALSE
        BY <1>2, <3>4
      <4>2. Driving(q)
        BY <1>8, <2>1, <3>4, <4>1 DEF Driving, Settled
      <4> QED
        BY <2>1, <3>4, <4>2 DEF Shape, OneAtATime
    <3> QED
      BY <3>1, <3>2, <3>3, <3>4
  <2>8. Linked(q)'
    BY <2>3, <2>4, <2>5, <2>6, <2>7 DEF Linked
  <2> QED
    BY <2>2, <2>8
<1>12. OneAtATime'
  BY <1>6, <1>10 DEF Shape, OneAtATime
<1>13. Shape'
  <2>1. \A p \in Processes : Composed(proc'[p])
    BY <1>3 DEF Shape
  <2> QED
    BY <1>4, <1>11, <1>12, <2>1 DEF Shape
<1> QED
  BY <1>2, <1>3, <1>5, <1>13

\* What a predecessor under way knows of the two processes.
LEMMA Pair ==
    ASSUME RetireFirst, Shape, NEW r \in Handoffs, NEW s, At(r, s), s \notin {"none", "settled"}
    PROVE  /\ handoff[r].pred \in Processes /\ r \in Processes
           /\ handoff[r].pred # r /\ Running(handoff[r].pred)
           /\ proc[handoff[r].pred] \in ProcessRecord
           /\ proc[handoff[r].pred].pc = "owner"
           /\ Composed(proc[handoff[r].pred])
           /\ Linked(r)
           /\ \A q \in Handoffs : handoff[q].pred = handoff[r].pred /\ q # r =>
                  handoff[q].ctl \in {"none", "settled"}
           /\ \A q \in Handoffs : q = handoff[r].pred => ~Passing(q)
<1>1. Driving(r) /\ handoff[r] \in HandoffRecord
  BY DrivenByMission
<1>2. handoff[r].pred \in Processes /\ r \in Processes
  BY <1>1 DEF HandoffRecord, Handoffs, Processes
<1>3. Linked(r) /\ Composed(proc[handoff[r].pred]) /\ proc[handoff[r].pred] \in ProcessRecord
  BY <1>2 DEF Shape, TypeOK
<1>4. Running(handoff[r].pred)
  BY DEF At
<1>5. \A q \in Handoffs : handoff[q].pred = handoff[r].pred /\ q # r =>
                  handoff[q].ctl \in {"none", "settled"}
  BY <1>1, <1>4 DEF Shape, OneAtATime, Driving, Settled
<1>6. \A q \in Handoffs : q = handoff[r].pred => ~Passing(q)
  BY <1>1, <1>3, PassingIsDriving DEF Linked, Driving
<1> QED
  BY <1>1, <1>2, <1>3, <1>4, <1>5, <1>6, NotItsOwnPredecessor DEF Linked

\* One step of the predecessor's coordinator: it is the custodian.
LEMMA PredecessorWalks ==
    ASSUME RetireFirst, Shape, NEW c, Custodian(c), NEW r \in Handoffs, PredecessorCall(r)
    PROVE  IInv'
<1>1. PICK p : p = handoff[r].pred
  OBVIOUS
<1>2. PICK o \in Outcomes(handoff[r].call, proc[p]) :
          /\ Pay(o.fault)
          /\ handoff' = [handoff EXCEPT ![r].call = o.call]
          /\ proc' = [proc EXCEPT ![p] = o.proc]
  BY <1>1 DEF PredecessorCall
<1>3. PICK s \in {"quiescing", "resuming"} : At(r, s)
  BY DEF PredecessorCall
<1>4. /\ handoff \in [Handoffs -> HandoffRecord] /\ handoff[r] \in HandoffRecord
      /\ disk \in Processes /\ faults \in Nat
      /\ Orderly(handoff[r]) /\ handoff[r].ctl = s /\ Driving(r)
  BY <1>3, DrivenByMission
<1>5. /\ p \in Processes /\ p # r /\ proc[p] \in ProcessRecord /\ proc[p].pc = "owner"
      /\ Composed(proc[p]) /\ Linked(r) /\ Running(p)
  BY <1>1, <1>3, Pair
<1>6. p = c
  BY <1>1, <1>3, <1>4, DriverIsCustodian DEF Passing
<1>7. o.fault # "quiesce"
  BY <1>2 DEF Pay, Fault, RetireFirst
<1>8. /\ handoff[r].call \in Coordination
      /\ s = "quiescing" => /\ handoff[r].call.op = "quiesce" /\ ~handoff[r].call.bad
                            /\ proc[p].active \subseteq handoff[r].call.todo
      /\ s = "resuming" => handoff[r].call.op = "resume"
      /\ proc[p].active \cap proc[p].quiesced = {}
  BY <1>1, <1>4, <1>5 DEF HandoffRecord, Orderly, Linked, Composed
<1>9. /\ o.call \in Coordination /\ o.proc \in ProcessRecord
      /\ o.proc.life = proc[p].life /\ o.proc.pc = proc[p].pc
      /\ o.proc.active \cap o.proc.quiesced = {}
      /\ s = "quiescing" => /\ o.call.op = "quiesce" /\ ~o.call.bad
                            /\ o.proc.active \subseteq o.call.todo
      /\ s = "resuming" => o.call.op = "resume"
  BY <1>3, <1>5, <1>7, <1>8, OutcomeShape
<1> DEFINE h == [handoff[r] EXCEPT !.call = o.call]
<1>10. /\ h \in HandoffRecord /\ h.call = o.call /\ h.ctl = s
       /\ h.phase = handoff[r].phase /\ h.pred = p /\ h.flow = handoff[r].flow
       /\ h.holds = handoff[r].holds
  BY <1>1, <1>4, <1>9 DEF HandoffRecord
<1>11. handoff' = [handoff EXCEPT ![r] = h]
  BY <1>2
<1> HIDE DEF h
<1>12. Orderly(h)
  BY <1>3, <1>4, <1>9, <1>10 DEF Orderly
<1>13. o.proc.life \in {"up", "terminating"} /\ proc[p].life # "unborn" /\ o.proc.life # "unborn"
  BY <1>5, <1>9 DEF Running
<1>14. Composed(o.proc)
  BY <1>5, <1>9, <1>13 DEF Composed
<1>15. disk' \in Processes /\ faults' \in Nat
  BY <1>2, <1>4, FaultCount DEF PredecessorCall
<1>16. h.ctl = "quiescing" => o.proc.active \subseteq h.call.todo
  BY <1>9, <1>10
<1>17. /\ Shape'
       /\ \A x \in Processes : (Running(x)' <=> Running(x))
       /\ handoff'[r] = h /\ \A q \in Handoffs : q # r => handoff'[q] = handoff[q]
       /\ \A x \in Processes : x # p => proc'[x] = proc[x]
  <2>1. h.ctl # "none" /\ h.pred = handoff[r].pred /\ p = handoff[r].pred
    BY <1>1, <1>3, <1>10
  <2> QED
    BY <1>2, <1>4, <1>5, <1>9, <1>10, <1>11, <1>12, <1>13, <1>14, <1>15, <1>16, <2>1,
       ShapePreserved, ZenonT(40)
<1>18. \A q \in Handoffs : handoff'[q].pred = handoff[q].pred /\ handoff'[q].ctl = handoff[q].ctl
          /\ handoff'[q].holds = handoff[q].holds /\ handoff'[q].phase = handoff[q].phase
  BY <1>1, <1>4, <1>10, <1>17
<1>19. \A q \in Handoffs : handoff[q].pred \in Processes
  BY <1>4 DEF HandoffRecord
<1>20. \A q \in Handoffs : (Passing(q)' <=> Passing(q))
  BY <1>17, <1>18, <1>19 DEF Passing
<1>21. ASSUME NEW x \in Processes, x # c PROVE Aside(x)'
  <2>1. Aside(x)
    BY <1>21 DEF Custodian
  <2>2. proc'[x] = proc[x]
    BY <1>6, <1>17, <1>21
  <2> QED
    BY <1>18, <1>20, <2>1, <2>2, StaysAside
<1>22. c \in Processes /\ \A q \in Handoffs : Passing(q)' => q = c
  BY <1>20 DEF Custodian
<1>23. Custodian(c)'
  BY <1>21, <1>22 DEF Custodian
<1>24. \E d \in Processes : Custodian(d)'
  BY <1>22, <1>23
<1> QED
  BY <1>17, <1>24 DEF IInv

\* releaseForTakeover: everything is stopped, and custody passes on.
LEMMA CustodyPasses ==
    ASSUME RetireFirst, Shape, NEW c, Custodian(c), NEW r \in Handoffs, Release(r)
    PROVE  IInv'
<1>1. PICK p : p = handoff[r].pred
  OBVIOUS
<1>2. At(r, "quiescing") /\ Returned(handoff[r].call, proc[p])
        /\ proc' = proc /\ disk' = disk /\ faults' = faults
  BY <1>1 DEF Release
<1>3. /\ handoff \in [Handoffs -> HandoffRecord] /\ handoff[r] \in HandoffRecord
      /\ proc \in [Processes -> ProcessRecord]
      /\ disk \in Processes /\ faults \in Nat
      /\ Orderly(handoff[r]) /\ handoff[r].ctl = "quiescing" /\ Driving(r)
      /\ handoff[r].flow = "mission"
  BY <1>2, DrivenByMission
<1>4. /\ p \in Processes /\ r \in Processes /\ p # r
      /\ proc[p] \in ProcessRecord /\ proc[p].pc = "owner"
      /\ Composed(proc[p]) /\ Linked(r) /\ Running(p)
      /\ \A q \in Handoffs : q = p => ~Passing(q)
  BY <1>1, <1>2, Pair
<1>5. p = c
  BY <1>1, <1>3, DriverIsCustodian DEF Passing
<1>6. proc[p].active = {}
  <2>1. proc[p].active \subseteq handoff[r].call.todo
    BY <1>1, <1>3, <1>4 DEF Linked
  <2>2. handoff[r].call.todo \ proc[p].quiesced = {}
    BY <1>2, <1>3 DEF Returned, Eligible, Orderly
  <2> QED
    BY <1>4, <2>1, <2>2 DEF Composed
<1>7. PICK h \in HandoffRecord :
          /\ handoff' = [handoff EXCEPT ![r] = h]
          /\ h.ctl \in {"waiting", "retiring"} /\ h.holds /\ h.pred = p
          /\ h.flow = "mission" /\ h.phase # "none"
  <2>1. CASE handoff[r].phase = "failed"
    <3> DEFINE g == [handoff[r] EXCEPT !.holds = TRUE]
    <3>1. handoff' = [handoff EXCEPT ![r] = AfterFailure(g)]
      BY <2>1 DEF Release
    <3>2. g \in HandoffRecord /\ g.holds /\ g.pred = p /\ g.flow = "mission"
            /\ g.phase = "failed"
      BY <1>1, <1>3, <2>1 DEF HandoffRecord
    <3> HIDE DEF g
    <3> QED
      BY <3>1, <3>2, AfterMissionFailure, ZenonT(40)
  <2>2. CASE handoff[r].phase # "failed"
    <3> DEFINE a == [handoff[r] EXCEPT !.phase = "quiesced"]
               b == [a EXCEPT !.ctl = "waiting"]
               d == [b EXCEPT !.holds = TRUE]
               e == [d EXCEPT !.call = NoCall]
    <3>1. handoff' = [handoff EXCEPT ![r] = e]
      BY <2>2 DEF Release
    <3>2. a \in HandoffRecord /\ a.pred = p /\ a.flow = "mission" /\ a.phase = "quiesced"
      BY <1>1, <1>3 DEF HandoffRecord
    <3> HIDE DEF a
    <3>3. b \in HandoffRecord /\ b.pred = p /\ b.flow = "mission" /\ b.phase = "quiesced"
            /\ b.ctl = "waiting"
      BY <3>2 DEF HandoffRecord
    <3> HIDE DEF b
    <3>4. d \in HandoffRecord /\ d.pred = p /\ d.flow = "mission" /\ d.phase = "quiesced"
            /\ d.ctl = "waiting" /\ d.holds
      BY <3>3 DEF HandoffRecord
    <3> HIDE DEF d
    <3>5. NoCall \in Coordination
      BY DEF NoCall, Coordination
    <3>6. e \in HandoffRecord /\ e.pred = p /\ e.flow = "mission" /\ e.phase = "quiesced"
            /\ e.ctl = "waiting" /\ e.holds
      BY <3>4, <3>5 DEF HandoffRecord
    <3> HIDE DEF e
    <3> QED
      BY <3>1, <3>6
  <2> QED
    BY <2>1, <2>2
<1>8. Orderly(h)
  BY <1>7 DEF Orderly
<1>9. proc' = [proc EXCEPT ![p] = proc[p]] /\ disk' \in Processes /\ faults' \in Nat
  BY <1>2, <1>3
<1>10. /\ Shape'
       /\ \A x \in Processes : (Running(x)' <=> Running(x))
       /\ handoff'[r] = h /\ \A q \in Handoffs : q # r => handoff'[q] = handoff[q]
  <2>1. h.ctl # "none" /\ h.ctl # "quiescing" /\ h.pred = handoff[r].pred
    BY <1>1, <1>7
  <2>2. (proc[p].life \in {"up", "terminating"} <=> Running(p))
    BY DEF Running
  <2> QED
    BY <1>3, <1>4, <1>7, <1>8, <1>9, <2>1, <2>2, ShapePreserved
<1>11. Passing(r)'
  BY <1>4, <1>7, <1>10 DEF Passing
<1>12. \A q \in Handoffs : q # r => (Passing(q)' <=> Passing(q))
  <2>1. \A q \in Handoffs : handoff[q].pred \in Processes
    BY <1>3 DEF HandoffRecord
  <2> QED
    BY <1>10, <2>1 DEF Passing
<1>13. \A q \in Handoffs : Passing(q)' => q = r
  BY <1>4, <1>5, <1>12 DEF Custodian
<1>14. ASSUME NEW x \in Processes, x # r PROVE Aside(x)'
  <2>1. CASE x = p
    <3>1. LetGo(p)'
      BY <1>2, <1>4, <1>7, <1>10, <1>11 DEF LetGo
    <3> QED
      BY <1>2, <1>6, <2>1, <3>1 DEF Aside
  <2>2. CASE x # p
    <3>1. Aside(x)
      BY <1>5, <2>2 DEF Custodian
    <3>2. x \in Handoffs => handoff'[x].phase = handoff[x].phase
      BY <1>10, <1>14
    <3>3. \A q \in Handoffs : handoff[q].pred = x /\ Passing(q) =>
               handoff'[q].pred = x /\ Passing(q)'
      BY <1>1, <1>10, <1>12, <2>2
    <3>4. \A q \in Handoffs : handoff'[q].pred = x =>
               \/ handoff'[q].ctl \in {"none", "settled"}
               \/ handoff[q].pred = x /\ handoff[q].ctl \notin {"none", "settled"}
      BY <1>7, <1>10, <2>2
    <3> QED
      BY <1>2, <3>1, <3>2, <3>3, <3>4, StaysAside
  <2> QED
    BY <2>1, <2>2
<1>15. Custodian(r)'
  BY <1>4, <1>13, <1>14 DEF Custodian
<1>16. \E d \in Processes : Custodian(d)'
  BY <1>4, <1>15
<1> QED
  BY <1>10, <1>16 DEF IInv

\* The successor is gone, and custody comes back.
LEMMA CustodyReturns ==
    ASSUME RetireFirst, Shape, NEW c, Custodian(c), NEW r \in Handoffs,
           Reaped(r), handoff[r].holds
    PROVE  IInv'
<1>1. PICK p : p = handoff[r].pred
  OBVIOUS
<1>2. At(r, "reaping") /\ ~Running(r)
        /\ proc' = proc /\ disk' = disk /\ faults' = faults
  BY <1>1 DEF Reaped
<1>3. /\ handoff \in [Handoffs -> HandoffRecord] /\ handoff[r] \in HandoffRecord
      /\ proc \in [Processes -> ProcessRecord]
      /\ disk \in Processes /\ faults \in Nat
      /\ Orderly(handoff[r]) /\ handoff[r].ctl = "reaping" /\ Driving(r)
      /\ handoff[r].flow = "mission"
  BY <1>2, DrivenByMission
<1>4. /\ p \in Processes /\ r \in Processes /\ p # r
      /\ proc[p] \in ProcessRecord /\ Composed(proc[p]) /\ Running(p)
  BY <1>1, <1>2, Pair
<1>5. Passing(r) /\ r = c
  BY <1>1, <1>3, <1>4 DEF Passing, Custodian
<1> DEFINE g == [handoff[r] EXCEPT !.ctl = "resuming"]
           h == [g EXCEPT !.call = Call("resume")]
<1>6. handoff' = [handoff EXCEPT ![r] = h]
  BY <1>3 DEF Reaped
<1>7. /\ g \in HandoffRecord /\ g.ctl = "resuming" /\ g.pred = p /\ g.flow = "mission"
      /\ g.phase = handoff[r].phase
  BY <1>1, <1>3 DEF HandoffRecord
<1> HIDE DEF g
<1>8. /\ h \in HandoffRecord /\ h.ctl = "resuming" /\ h.pred = p /\ h.flow = "mission"
      /\ h.phase = handoff[r].phase /\ h.call = Call("resume")
  BY <1>7, CallShape DEF HandoffRecord
<1> HIDE DEF h
<1>9. Orderly(h)
  BY <1>3, <1>8, CallShape DEF Orderly
<1>10. proc' = [proc EXCEPT ![p] = proc[p]] /\ disk' \in Processes /\ faults' \in Nat
  BY <1>2, <1>3
<1>11. /\ Shape'
       /\ \A x \in Processes : (Running(x)' <=> Running(x))
       /\ handoff'[r] = h /\ \A q \in Handoffs : q # r => handoff'[q] = handoff[q]
  <2>1. (proc[p].life \in {"up", "terminating"} <=> Running(p))
    BY DEF Running
  <2>2. h.ctl # "none" /\ h.ctl # "quiescing" /\ h.pred = handoff[r].pred
    BY <1>1, <1>8
  <2> QED
    BY <1>3, <1>4, <1>6, <1>8, <1>9, <1>10, <2>1, <2>2, ShapePreserved
<1>12. \A q \in Handoffs : ~Passing(q)'
  <2>1. ~Passing(r)'
    BY <1>8, <1>11 DEF Passing
  <2>2. \A q \in Handoffs : handoff[q].pred \in Processes
    BY <1>3 DEF HandoffRecord
  <2>3. \A q \in Handoffs : q # r => (Passing(q)' <=> Passing(q))
    BY <1>11, <2>2 DEF Passing
  <2>4. \A q \in Handoffs : q # r => ~Passing(q)
    BY <1>5 DEF Custodian
  <2> QED
    BY <2>1, <2>3, <2>4
<1>13. ASSUME NEW x \in Processes, x # p PROVE Aside(x)'
  <2>1. CASE x = r
    <3>1. Composed(proc[r])
      BY <1>4 DEF Shape
    <3>2. proc[r].active = {}
      BY <1>2, <3>1 DEF Composed, Running
    <3> QED
      BY <1>2, <1>4, <1>11, <2>1, <3>2 DEF Aside
  <2>2. CASE x # r
    <3>1. Aside(x)
      BY <1>5, <2>2 DEF Custodian
    <3>2. x \in Handoffs => handoff'[x].phase = handoff[x].phase
      BY <1>11, <2>2
    <3>3. \A q \in Handoffs : ~(handoff[q].pred = x /\ Passing(q))
      BY <1>1, <1>5, <1>13 DEF Custodian
    <3>4. \A q \in Handoffs : handoff'[q].pred = x =>
               \/ handoff'[q].ctl \in {"none", "settled"}
               \/ handoff[q].pred = x /\ handoff[q].ctl \notin {"none", "settled"}
      BY <1>8, <1>11, <1>13
    <3> QED
      BY <1>2, <3>1, <3>2, <3>3, <3>4, StaysAside
  <2> QED
    BY <2>1, <2>2
<1>14. Custodian(p)'
  BY <1>4, <1>12, <1>13 DEF Custodian
<1>15. \E d \in Processes : Custodian(d)'
  BY <1>4, <1>14
<1> QED
  BY <1>11, <1>15 DEF IInv

\* The takeover was accepted: the predecessor leaves, the successor keeps
\* custody.
LEMMA PredecessorLeaves ==
    ASSUME RetireFirst, Shape, NEW c, Custodian(c), NEW r \in Handoffs, Stop(r)
    PROVE  IInv'
<1>1. PICK p : p = handoff[r].pred
  OBVIOUS
<1> DEFINE h == [handoff[r] EXCEPT !.ctl = "settled"]
           P == [proc[p] EXCEPT !.life = "terminating"]
<1>2. At(r, "waiting") /\ handoff' = [handoff EXCEPT ![r] = h]
        /\ proc' = [proc EXCEPT ![p] = P] /\ disk' = disk /\ faults' = faults
  BY <1>1 DEF Stop
<1>3. /\ handoff \in [Handoffs -> HandoffRecord] /\ handoff[r] \in HandoffRecord
      /\ disk \in Processes /\ faults \in Nat
      /\ Orderly(handoff[r]) /\ handoff[r].ctl = "waiting" /\ Driving(r)
      /\ handoff[r].flow = "mission"
  BY <1>2, DrivenByMission
<1>4. /\ p \in Processes /\ r \in Processes /\ p # r
      /\ proc[p] \in ProcessRecord /\ proc[p].pc = "owner"
      /\ Composed(proc[p]) /\ Running(p)
      /\ \A q \in Handoffs : handoff[q].pred = p /\ q # r =>
              handoff[q].ctl \in {"none", "settled"}
  BY <1>1, <1>2, Pair
<1>5. Passing(r) /\ r = c
  BY <1>1, <1>3, <1>4 DEF Passing, Custodian, Orderly
<1>6. proc[p].active = {}
  BY <1>4, <1>5 DEF Custodian, Aside
<1>7. /\ h \in HandoffRecord /\ h.ctl = "settled" /\ h.pred = p /\ h.flow = "mission"
      /\ h.phase = handoff[r].phase
  BY <1>1, <1>3 DEF HandoffRecord
<1>8. /\ P \in ProcessRecord /\ P.life = "terminating" /\ P.pc = proc[p].pc
      /\ P.active = {} /\ P.quiesced = proc[p].quiesced /\ P.call = proc[p].call
  BY <1>4, <1>6 DEF ProcessRecord
<1> HIDE DEF h, P
<1>9. Orderly(h) /\ Composed(P)
  BY <1>3, <1>4, <1>7, <1>8 DEF Orderly, Composed
<1>10. /\ Shape'
       /\ \A x \in Processes : (Running(x)' <=> Running(x))
       /\ handoff'[r] = h /\ \A q \in Handoffs : q # r => handoff'[q] = handoff[q]
       /\ proc'[p] = P /\ \A x \in Processes : x # p => proc'[x] = proc[x]
  <2>1. (P.life = "unborn" <=> proc[p].life = "unborn")
          /\ (P.life \in {"up", "terminating"} <=> Running(p))
    BY <1>4, <1>8 DEF Running
  <2>2. h.ctl # "none" /\ h.ctl # "quiescing" /\ h.pred = handoff[r].pred
          /\ P.active \subseteq proc[p].active
    BY <1>1, <1>7, <1>8
  <2>3. disk' \in Processes /\ faults' \in Nat
    BY <1>2, <1>3
  <2> QED
    BY <1>2, <1>3, <1>4, <1>7, <1>8, <1>9, <2>1, <2>2, <2>3, ShapePreserved, ZenonT(40)
<1>11. \A q \in Handoffs : ~Passing(q)'
  <2>1. ~Passing(r)'
    BY <1>7, <1>10 DEF Passing
  <2>2. \A q \in Handoffs : handoff[q].pred \in Processes
    BY <1>3 DEF HandoffRecord
  <2>3. \A q \in Handoffs : q # r => (Passing(q)' <=> Passing(q))
    BY <1>10, <2>2 DEF Passing
  <2>4. \A q \in Handoffs : q # r => ~Passing(q)
    BY <1>5 DEF Custodian
  <2> QED
    BY <2>1, <2>3, <2>4
<1>12. ASSUME NEW x \in Processes, x # r PROVE Aside(x)'
  <2>1. CASE x = p
    <3>1. \A q \in Handoffs : handoff'[q].pred = p => handoff'[q].ctl \in {"none", "settled"}
      BY <1>4, <1>7, <1>10
    <3>2. Leaving(p)'
      BY <1>4, <1>8, <1>10, <3>1 DEF Leaving
    <3> QED
      BY <1>8, <1>10, <2>1, <3>2 DEF Aside
  <2>2. CASE x # p
    <3>1. Aside(x)
      BY <1>5, <1>12 DEF Custodian
    <3>2. proc'[x] = proc[x] /\ (x \in Handoffs => handoff'[x].phase = handoff[x].phase)
      BY <1>10, <1>12, <2>2
    <3>3. \A q \in Handoffs : ~(handoff[q].pred = x /\ Passing(q))
      BY <1>1, <1>5, <2>2 DEF Custodian
    <3>4. \A q \in Handoffs : handoff'[q].pred = x =>
               \/ handoff'[q].ctl \in {"none", "settled"}
               \/ handoff[q].pred = x /\ handoff[q].ctl \notin {"none", "settled"}
      BY <1>7, <1>10
    <3> QED
      BY <3>1, <3>2, <3>3, <3>4, StaysAside
  <2> QED
    BY <2>1, <2>2
<1>13. Custodian(r)'
  BY <1>4, <1>11, <1>12 DEF Custodian
<1>14. \E d \in Processes : Custodian(d)'
  BY <1>4, <1>13
<1> QED
  BY <1>10, <1>14 DEF IInv

\* retireReplacement: custody stays until the successor is gone.
LEMMA SuccessorRetired ==
    ASSUME RetireFirst, Shape, NEW c, Custodian(c), NEW r \in Handoffs, Retire(r)
    PROVE  IInv'
<1>1. PICK p : p = handoff[r].pred
  OBVIOUS
<1> DEFINE g == [handoff[r] EXCEPT !.phase = "failed"]
           h == [g EXCEPT !.ctl = "reaping"]
           P == [proc[r] EXCEPT !.life =
                    IF proc[r].life = "up" THEN "terminating" ELSE proc[r].life]
<1>2. /\ At(r, "retiring")
      /\ handoff' = [handoff EXCEPT ![r].phase = "failed", ![r].ctl = "reaping"]
      /\ proc' = [proc EXCEPT ![r].life = IF @ = "up" THEN "terminating" ELSE @]
      /\ disk' = disk /\ faults' = faults
  BY DEF Retire
<1>3. /\ handoff \in [Handoffs -> HandoffRecord] /\ handoff[r] \in HandoffRecord
      /\ proc \in [Processes -> ProcessRecord]
      /\ disk \in Processes /\ faults \in Nat
      /\ Orderly(handoff[r]) /\ handoff[r].ctl = "retiring" /\ Driving(r)
      /\ handoff[r].flow = "mission"
  BY <1>2, DrivenByMission
<1>4. /\ p \in Processes /\ r \in Processes /\ p # r /\ Running(p)
  BY <1>1, <1>2, Pair
<1>5. proc[r] \in ProcessRecord /\ Composed(proc[r])
  BY <1>3, <1>4 DEF Shape
<1>6. handoff' = [handoff EXCEPT ![r] = h] /\ proc' = [proc EXCEPT ![r] = P]
  BY <1>2, <1>3, <1>4
<1>7. /\ g \in HandoffRecord /\ g.phase = "failed" /\ g.pred = p /\ g.flow = "mission"
      /\ g.holds = handoff[r].holds
  BY <1>1, <1>3 DEF HandoffRecord
<1> HIDE DEF g
<1>8. /\ h \in HandoffRecord /\ h.ctl = "reaping" /\ h.pred = p /\ h.flow = "mission"
      /\ h.phase = "failed" /\ h.holds = handoff[r].holds
  BY <1>7 DEF HandoffRecord
<1>9. /\ P \in ProcessRecord /\ P.pc = proc[r].pc /\ P.active = proc[r].active
      /\ P.quiesced = proc[r].quiesced /\ P.call = proc[r].call
      /\ P.life = IF proc[r].life = "up" THEN "terminating" ELSE proc[r].life
  BY <1>5 DEF ProcessRecord
<1> HIDE DEF h, P
<1>10. Orderly(h) /\ Composed(P)
  BY <1>5, <1>8, <1>9 DEF Orderly, Composed
<1>11. /\ Shape'
       /\ \A x \in Processes : (Running(x)' <=> Running(x))
       /\ handoff'[r] = h /\ \A q \in Handoffs : q # r => handoff'[q] = handoff[q]
       /\ proc'[r] = P /\ \A x \in Processes : x # r => proc'[x] = proc[x]
  <2>1. (P.life = "unborn" <=> proc[r].life = "unborn")
          /\ (P.life \in {"up", "terminating"} <=> Running(r))
    BY <1>9 DEF Running
  <2>2. h.ctl # "none" /\ h.ctl # "quiescing" /\ h.pred = handoff[r].pred
          /\ P.active \subseteq proc[r].active
    BY <1>1, <1>8, <1>9
  <2>3. disk' \in Processes /\ faults' \in Nat
    BY <1>2, <1>3
  <2> QED
    BY <1>3, <1>4, <1>6, <1>8, <1>9, <1>10, <2>1, <2>2, <2>3, ShapePreserved
<1>12. \A q \in Handoffs : handoff'[q].pred = handoff[q].pred /\ handoff[q].pred \in Processes
  BY <1>1, <1>3, <1>8, <1>11 DEF HandoffRecord
<1>13. \A q \in Handoffs : (Passing(q)' <=> Passing(q))
  BY <1>1, <1>3, <1>8, <1>11, <1>12 DEF Passing
<1>14. ASSUME NEW x \in Processes, x # c PROVE Aside(x)'
  <2>1. Aside(x)
    BY <1>14 DEF Custodian
  <2>2. CASE x # r
    <3>1. proc'[x] = proc[x] /\ (x \in Handoffs => handoff'[x].phase = handoff[x].phase)
      BY <1>11, <2>2
    <3>2. \A q \in Handoffs : handoff'[q].pred = x =>
               \/ handoff'[q].ctl \in {"none", "settled"}
               \/ handoff[q].pred = x /\ handoff[q].ctl \notin {"none", "settled"}
      BY <1>3, <1>11, <1>12
    <3> QED
      BY <1>12, <1>13, <2>1, <3>1, <3>2, StaysAside
  <2>3. CASE x = r
    <3>1. proc'[r].active = {}
      BY <1>9, <1>11, <2>1, <2>3 DEF Aside
    <3>2. CASE ~Running(r)
      BY <1>4, <1>11, <2>3, <3>1, <3>2 DEF Aside
    <3>3. CASE Unreleased(r)
      BY <1>8, <1>9, <1>11, <2>3, <3>1, <3>3 DEF Aside, Unreleased
    <3>4. CASE LetGo(r)
      BY <1>9, <1>11, <1>12, <1>13, <2>3, <3>1, <3>4 DEF Aside, LetGo
    <3>5. CASE Leaving(r)
      <4>1. \A q \in Handoffs : handoff'[q].pred = r => q # r
        BY <1>1, <1>4, <1>12
      <4>2. \A q \in Handoffs : handoff'[q].pred = r =>
                                    handoff'[q].ctl \in {"none", "settled"}
        BY <1>11, <1>12, <3>5, <4>1 DEF Leaving
      <4>3. Leaving(r)'
        BY <1>9, <1>11, <3>5, <4>2 DEF Leaving
      <4> QED
        BY <2>3, <3>1, <4>3 DEF Aside
    <3> QED
      BY <2>1, <2>3, <3>2, <3>3, <3>4, <3>5 DEF Aside
  <2> QED
    BY <2>2, <2>3
<1>15. c \in Processes /\ \A q \in Handoffs : Passing(q)' => q = c
  BY <1>13 DEF Custodian
<1>16. Custodian(c)'
  BY <1>14, <1>15 DEF Custodian
<1>17. \E d \in Processes : Custodian(d)'
  BY <1>15, <1>16
<1> QED
  BY <1>11, <1>17 DEF IInv

-----------------------------------------------------------------------------
(* The start of a handoff.                                                 *)

\* Only the custodian begins one.
LEMMA HandoffBegins ==
    ASSUME RetireFirst, Shape, NEW c, Custodian(c),
           NEW r \in Handoffs, NEW p \in Processes, NEW f \in Flows, Begin(r, p, f)
    PROVE  IInv'
<1>1. /\ handoff[r].phase = "none" /\ proc[p].life = "up" /\ proc[p].pc = "owner"
      /\ p \in Handoffs => Settled(p)
      /\ \A q \in Handoffs : handoff[q].pred = p => Settled(q)
      /\ f = "mission" /\ proc' = proc /\ faults' = faults /\ disk' = disk
  BY DEF Begin, RetireFirst
<1>2. /\ handoff \in [Handoffs -> HandoffRecord]
      /\ proc \in [Processes -> ProcessRecord]
      /\ disk \in Processes /\ faults \in Nat
  BY DEF Shape, TypeOK
<1>3. Orderly(handoff[r]) /\ Linked(r)
  BY DEF Shape
<1>4. handoff[r].ctl = "none" /\ proc[r].life = "unborn" /\ p # r /\ Running(p) /\ ~Running(r)
  BY <1>1, <1>3 DEF Orderly, Linked, Running
<1> DEFINE a == [Unused EXCEPT !.phase = "launching"]
           b == [a EXCEPT !.pred = p]
           d == [b EXCEPT !.flow = f]
           e == [d EXCEPT !.ctl = "launching"]
           h == [e EXCEPT !.previous = disk]
<1>5. handoff' = [handoff EXCEPT ![r] = h]
  BY DEF Begin, Unused
<1>6. a \in HandoffRecord /\ a.phase = "launching" /\ ~a.holds
  <2>1. 0 \in Processes
    BY HandoffAssumption DEF Processes
  <2> QED
    BY <2>1 DEF Unused, HandoffRecord, NoCall, Coordination
<1> HIDE DEF a
<1>7. b \in HandoffRecord /\ b.phase = "launching" /\ ~b.holds /\ b.pred = p
  BY <1>6 DEF HandoffRecord
<1> HIDE DEF b
<1>8. d \in HandoffRecord /\ d.phase = "launching" /\ ~d.holds /\ d.pred = p /\ d.flow = "mission"
  BY <1>1, <1>7 DEF HandoffRecord
<1> HIDE DEF d
<1>9. e \in HandoffRecord /\ e.phase = "launching" /\ ~e.holds /\ e.pred = p /\ e.flow = "mission"
        /\ e.ctl = "launching"
  BY <1>8 DEF HandoffRecord
<1> HIDE DEF e
<1>10. h \in HandoffRecord /\ h.phase = "launching" /\ ~h.holds /\ h.pred = p /\ h.flow = "mission"
        /\ h.ctl = "launching"
  BY <1>2, <1>9 DEF HandoffRecord
<1> HIDE DEF h
<1>11. handoff'[r] = h /\ \A q \in Handoffs : q # r => handoff'[q] = handoff[q]
  BY <1>2, <1>5
<1>12. TypeOK'
  BY <1>1, <1>2, <1>5, <1>10 DEF TypeOK
<1>13. \A x : (Running(x)' <=> Running(x))
  BY <1>1 DEF Running
<1>14. \A q \in Handoffs : q # r => /\ (Settled(q)' <=> Settled(q))
                                    /\ (Driving(q)' <=> Driving(q))
                                    /\ (Passing(q)' <=> Passing(q))
  BY <1>11, <1>13 DEF Settled, Driving, Passing
<1>15. ~Passing(r) /\ ~Passing(r)'
  BY <1>4, <1>10, <1>11 DEF Passing
<1>16. ASSUME NEW q \in Handoffs PROVE (Orderly(handoff[q]) /\ Linked(q))'
  <2>1. CASE q = r
    <3>1. Orderly(h)
      BY <1>10 DEF Orderly
    <3>2. p \in Handoffs => Settled(p)'
      BY <1>1, <1>4, <1>14
    <3>3. Linked(r)'
      BY <1>1, <1>10, <1>11, <3>2 DEF Linked
    <3> QED
      BY <1>11, <2>1, <3>1, <3>3
  <2>2. CASE q # r
    <3>1. Orderly(handoff[q]) /\ Linked(q)
      BY DEF Shape
    <3>2. handoff'[q] = handoff[q]
      BY <1>11, <2>2
    <3>3. Driving(q) => handoff[q].pred # r
      BY <1>4 DEF Driving, Settled
    <3>4. Driving(q)' => (handoff[q].pred \in Handoffs => Settled(handoff[q].pred)')
      BY <1>14, <2>2, <3>1, <3>2, <3>3 DEF Linked
    <3>5. Linked(q)'
      BY <1>1, <1>14, <2>2, <3>1, <3>2, <3>4 DEF Linked
    <3> QED
      BY <3>1, <3>2, <3>5
  <2> QED
    BY <2>1, <2>2
<1>17. OneAtATime'
  <2>1. \A q \in Handoffs : q # r /\ Driving(q)' => handoff'[q].pred # p /\ Driving(q)
    BY <1>1, <1>11, <1>14 DEF Driving
  <2> QED
    BY <1>10, <1>11, <2>1 DEF Shape, OneAtATime
<1>18. Shape'
  <2>1. \A x \in Processes : Composed(proc'[x])
    BY <1>1 DEF Shape
  <2> QED
    BY <1>12, <1>16, <1>17, <2>1 DEF Shape
<1>19. p = c
  <2>1. ~Unreleased(p) /\ ~Leaving(p)
    BY <1>1 DEF Unreleased, Leaving
  <2>2. ~LetGo(p)
    BY <1>1, PassingIsDriving DEF LetGo, Driving
  <2> QED
    BY <1>4, <2>1, <2>2 DEF Custodian, Aside
<1>20. ASSUME NEW x \in Processes, x # c PROVE Aside(x)'
  <2>1. Aside(x)
    BY <1>20 DEF Custodian
  <2>2. x \in Handoffs => \/ handoff'[x].phase = handoff[x].phase
                          \/ handoff'[x].phase \notin {"quiesced", "accepted"}
    BY <1>10, <1>11
  <2>3. \A q \in Handoffs : handoff[q].pred = x /\ Passing(q) =>
             handoff'[q].pred = x /\ Passing(q)'
    BY <1>11, <1>14, <1>15
  <2>4. \A q \in Handoffs : handoff'[q].pred = x =>
             \/ handoff'[q].ctl \in {"none", "settled"}
             \/ handoff[q].pred = x /\ handoff[q].ctl \notin {"none", "settled"}
    BY <1>10, <1>11, <1>19, <1>20
  <2> QED
    BY <1>1, <2>1, <2>2, <2>3, <2>4, StaysAside
<1>21. c \in Processes /\ \A q \in Handoffs : Passing(q)' => q = c
  BY <1>14, <1>15 DEF Custodian
<1>22. Custodian(c)'
  BY <1>20, <1>21 DEF Custodian
<1>23. \E y \in Processes : Custodian(y)'
  BY <1>21, <1>22
<1> QED
  BY <1>18, <1>23 DEF IInv

\* The new process holds nothing and was not released.
LEMMA SuccessorBorn ==
    ASSUME RetireFirst, Shape, NEW c, Custodian(c), NEW r \in Handoffs, Spawn(r)
    PROVE  IInv'
<1>1. PICK p : p = handoff[r].pred
  OBVIOUS
<1> DEFINE Q == [Unborn EXCEPT !.life = "up"]
           P == [Q EXCEPT !.config = disk]
<1>2. At(r, "launching") /\ proc[r].life = "unborn" /\ proc' = [proc EXCEPT ![r] = P]
        /\ handoff' = handoff /\ disk' = disk /\ faults' = faults
  BY DEF Spawn, Unborn
<1>3. /\ handoff \in [Handoffs -> HandoffRecord]
      /\ proc \in [Processes -> ProcessRecord]
      /\ disk \in Processes /\ faults \in Nat
      /\ Orderly(handoff[r]) /\ handoff[r].ctl = "launching" /\ Driving(r)
  BY <1>2, DrivenByMission
<1>4. /\ p \in Processes /\ r \in Processes /\ p # r
  BY <1>1, <1>2, Pair
<1>5. p = c
  BY <1>1, <1>3, DriverIsCustodian DEF Passing
<1>6. /\ Q \in ProcessRecord /\ Q.life = "up" /\ Q.pc = "boot"
      /\ Q.active = {} /\ Q.quiesced = {}
  <2>1. 0 \in Processes
    BY HandoffAssumption DEF Processes
  <2> QED
    BY <2>1 DEF Unborn, ProcessRecord, NoCall, Coordination
<1> HIDE DEF Q
<1>7. /\ P \in ProcessRecord /\ P.life = "up" /\ P.pc = "boot"
      /\ P.active = {} /\ P.quiesced = {}
  BY <1>3, <1>6 DEF ProcessRecord
<1> HIDE DEF P
<1>8. proc'[r] = P /\ \A x \in Processes : x # r => proc'[x] = proc[x]
  BY <1>2, <1>3, <1>4
<1>9. TypeOK'
  BY <1>2, <1>3, <1>7 DEF TypeOK
<1>10. \A q \in Handoffs : handoff[q].pred \in Processes /\ q \in Processes
  BY <1>3 DEF HandoffRecord, Handoffs, Processes
<1>11. \A x \in Processes : x # r => (Running(x)' <=> Running(x))
  BY <1>8 DEF Running
<1>12. \A q \in Handoffs : handoff[q].pred = r => handoff[q].ctl = "none"
  BY <1>2 DEF Shape, Linked
<1>13. \A q \in Handoffs : /\ (Settled(q)' <=> Settled(q))
                           /\ (Driving(q)' <=> Driving(q))
                           /\ (Passing(q)' <=> Passing(q))
  BY <1>2, <1>10, <1>11, <1>12 DEF Settled, Driving, Passing
<1>14. ASSUME NEW q \in Handoffs PROVE (Orderly(handoff[q]) /\ Linked(q))'
  <2>1. PICK x \in Processes : x = handoff[q].pred
    BY <1>10
  <2>2. Orderly(handoff[q]) /\ Linked(q)
    BY DEF Shape
  <2>3. handoff[q].ctl = "none" => proc'[q].life = "unborn"
    BY <1>3, <1>8, <1>10, <2>2 DEF Linked
  <2>4. handoff[q].ctl # "none" => x # r
    BY <1>12, <2>1
  <2>5. Driving(q) => x # r
    BY <2>4 DEF Driving, Settled
  <2>6. handoff[q].ctl # "none" => proc'[x].life # "unborn"
    BY <1>8, <2>1, <2>2, <2>4 DEF Linked
  <2>7. Driving(q)' => proc'[x].pc = "owner" /\ (x \in Handoffs => Settled(x)')
    BY <1>8, <1>13, <2>1, <2>2, <2>5 DEF Linked
  <2>8. handoff[q].ctl = "quiescing" => proc'[x].active \subseteq handoff[q].call.todo
    BY <1>8, <2>1, <2>2, <2>4 DEF Linked
  <2>9. Linked(q)'
    BY <1>2, <2>1, <2>3, <2>6, <2>7, <2>8 DEF Linked
  <2> QED
    BY <1>2, <2>2, <2>9
<1>15. OneAtATime'
  BY <1>2, <1>13 DEF Shape, OneAtATime
<1>16. Shape'
  <2>1. Composed(P)
    BY <1>7 DEF Composed
  <2>2. \A x \in Processes : Composed(proc'[x])
    BY <1>8, <2>1 DEF Shape
  <2> QED
    BY <1>9, <1>14, <1>15, <2>2 DEF Shape
<1>17. ASSUME NEW x \in Processes, x # c PROVE Aside(x)'
  <2>1. CASE x = r
    <3>1. Unreleased(r)'
      BY <1>2, <1>3, <1>7, <1>8 DEF Unreleased, Orderly
    <3> QED
      BY <1>7, <1>8, <2>1, <3>1 DEF Aside
  <2>2. CASE x # r
    <3>1. Aside(x) /\ proc'[x] = proc[x]
      BY <1>8, <1>17, <2>2 DEF Custodian
    <3> QED
      BY <1>2, <1>13, <3>1, StaysAside
  <2> QED
    BY <2>1, <2>2
<1>18. c \in Processes /\ \A q \in Handoffs : Passing(q)' => q = c
  BY <1>13 DEF Custodian
<1>19. Custodian(c)'
  BY <1>17, <1>18 DEF Custodian
<1>20. \E y \in Processes : Custodian(y)'
  BY <1>18, <1>19
<1> QED
  BY <1>16, <1>20 DEF IInv

-----------------------------------------------------------------------------
(* The theorems.                                                           *)

\* Process 0 is the first custodian.
LEMMA InitIInv ==
    ASSUME Init
    PROVE  IInv
<1>1. 0 \in Processes
  BY HandoffAssumption DEF Processes
<1>2. Unused \in HandoffRecord /\ Unborn \in ProcessRecord
  BY <1>1 DEF Unused, Unborn, HandoffRecord, ProcessRecord, NoCall, Coordination
<1> DEFINE a == [Unborn EXCEPT !.life = "up"]
           b == [a EXCEPT !.pc = "owner"]
           d == [b EXCEPT !.active = Participants]
<1>3. a \in ProcessRecord /\ a.life = "up" /\ a.quiesced = {}
  BY <1>2 DEF ProcessRecord, Unborn
<1> HIDE DEF a
<1>4. b \in ProcessRecord /\ b.life = "up" /\ b.quiesced = {} /\ b.pc = "owner"
  BY <1>3 DEF ProcessRecord
<1> HIDE DEF b
<1>5. d \in ProcessRecord /\ d.life = "up" /\ d.quiesced = {} /\ d.pc = "owner"
  BY <1>4 DEF ProcessRecord
<1>6. proc = [p \in Processes |-> IF p = 0 THEN d ELSE Unborn]
  <2>1. d = [Unborn EXCEPT !.life = "up", !.pc = "owner", !.active = Participants]
    BY DEF Unborn, a, b
  <2> QED
    BY <2>1 DEF Init
<1> HIDE DEF d
<1>7. TypeOK
  BY <1>1, <1>2, <1>5, <1>6 DEF Init, TypeOK
<1>8. \A r \in Handoffs : handoff[r] = Unused /\ proc[r] = Unborn
  BY <1>6, HandoffAssumption DEF Init, Handoffs, Processes
<1>9. \A r \in Handoffs : Orderly(handoff[r]) /\ ~Driving(r) /\ ~Passing(r) /\ Linked(r)
  BY <1>8 DEF Unused, Unborn, Orderly, Driving, Settled, Passing, Linked
<1>10. \A p \in Processes : Composed(proc[p])
  BY <1>5, <1>6 DEF Composed, Unborn
<1>11. Shape
  BY <1>7, <1>9, <1>10 DEF Shape, OneAtATime
<1>12. \A p \in Processes : p # 0 => Aside(p)
  BY <1>6 DEF Aside, Running, Unborn
<1>13. Custodian(0)
  BY <1>1, <1>9, <1>12 DEF Custodian
<1> QED
  BY <1>1, <1>11, <1>13 DEF IInv

LEMMA NextIInv ==
    ASSUME RetireFirst, IInv, [Next]_vars
    PROVE  IInv'
<1>1. Shape
  BY DEF IInv
<1>2. PICK c \in Processes : Custodian(c)
  BY DEF IInv
<1>3. CASE \E r \in Handoffs, p \in Processes, f \in Flows : Begin(r, p, f)
  BY <1>1, <1>2, <1>3, HandoffBegins
<1>4. ASSUME NEW r \in Handoffs, Predecessor(r) PROVE IInv'
  <2>1. ~QuiesceFails(r)
    <3>1. SUFFICES ASSUME QuiesceFails(r) PROVE FALSE
      OBVIOUS
    <3>2. handoff[r].call.op = "quiesce"
      BY <1>1, <3>1, DrivenByMission DEF QuiesceFails, Orderly
    <3> QED
      BY <3>1, <3>2 DEF QuiesceFails, Threw
  <2>2. ~Restore(r)
    BY <1>1, DrivenByMission DEF Restore, Orderly
  <2> QED
    BY <1>1, <1>2, <1>4, <2>1, <2>2, PredecessorMovesOn, PredecessorWalks, CustodyPasses,
       CustodyReturns, PredecessorLeaves, SuccessorRetired, SuccessorBorn DEF Predecessor
<1>5. ASSUME NEW r \in Handoffs, Successor(r) PROVE IInv'
  BY <1>1, <1>2, <1>5, SuccessorMovesOn, SuccessorWalks DEF Successor
<1>6. CASE \E p \in Processes : Exit(p) \/ Crash(p)
  BY <1>1, <1>2, <1>6, ProcessEnds
<1>7. CASE UNCHANGED vars
  BY <1>7 DEF vars, IInv, Shape, TypeOK, Linked, Driving, Settled, Running, OneAtATime,
              Custodian, Aside, Unreleased, LetGo, Leaving, Passing
<1> QED
  BY <1>3, <1>4, <1>5, <1>6, <1>7 DEF Next

\* What custody gives: whatever a process holds, it holds alone.
LEMMA CustodyIsOwnership ==
    ASSUME IInv
    PROVE  SingleOwner
<1>1. PICK c \in Processes : Custodian(c)
  BY DEF IInv
<1> QED
  BY <1>1 DEF Custodian, Aside, SingleOwner

-----------------------------------------------------------------------------
(* Types.                                                                  *)

\* What one step of a call leads to, whatever is refused.
LEMMA OutcomeTypes ==
    ASSUME NEW k \in Coordination, NEW P \in ProcessRecord, NEW o \in Outcomes(k, P)
    PROVE  /\ o.call \in Coordination
           /\ o.proc \in ProcessRecord
           /\ o.proc.life = P.life /\ o.proc.pc = P.pc /\ o.proc.config = P.config
<1> DEFINE x == Visited(k, P)
<1>1. CASE Eligible(k, P) # {}
  <2>1. x \in Participants
    BY <1>1, VisitedEligible
  <2>2. Later(k, x) \subseteq Participants /\ k.newly \subseteq Participants
    BY DEF Later, Coordination
  <2>3. \A Q \in Refused(k, P, x) : Q \in ProcessRecord /\ Q.life = P.life /\ Q.pc = P.pc
                                          /\ Q.config = P.config
    BY <2>1 DEF Refused, ProcessRecord
  <2> DEFINE newly == IF k.op \in {"quiesce", "activate"} THEN k.newly \cup {x} ELSE k.newly
             walk == [k EXCEPT !.todo = Later(k, x)]
             done == [walk EXCEPT !.newly = newly]
             undo == [k EXCEPT !.op = "undo"]
             back == [undo EXCEPT !.todo = k.newly]
             hurt == [walk EXCEPT !.bad = TRUE]
  <2>4. walk \in Coordination /\ undo \in Coordination
    BY <2>2 DEF Coordination
  <2>5. \/ o.call = done /\ o.proc = Obeyed(k, P, x)
        \/ o.call \in {back, hurt} /\ o.proc \in Refused(k, P, x)
    BY <1>1 DEF Outcomes, Coordination
  <2>6. newly \subseteq Participants
    BY <2>1, <2>2
  <2> HIDE DEF walk, undo, newly, x
  <2>7. done \in Coordination /\ back \in Coordination /\ hurt \in Coordination
    BY <2>2, <2>4, <2>6 DEF Coordination
  <2> HIDE DEF done, back, hurt
  <2>8. /\ Obeyed(k, P, x) \in ProcessRecord
        /\ Obeyed(k, P, x).life = P.life /\ Obeyed(k, P, x).pc = P.pc
        /\ Obeyed(k, P, x).config = P.config
    BY <2>1, ObeyedShape
  <2> QED
    BY <2>3, <2>5, <2>7, <2>8
<1>2. CASE Eligible(k, P) = {}
  <2> DEFINE back == [k EXCEPT !.op = "restore"]
  <2>1. back \in Coordination /\ k.newly \subseteq Participants
    BY DEF Coordination
  <2>2. o.call = [back EXCEPT !.todo = k.newly] /\ o.proc = P
    BY <1>2 DEF Outcomes, Coordination
  <2> HIDE DEF back
  <2> QED
    BY <2>1, <2>2 DEF Coordination
<1> QED
  BY <1>1, <1>2

\* Where a handoff goes that failed.
LEMMA FailureTypes ==
    ASSUME NEW h \in HandoffRecord
    PROVE  Unlaunched(h) \in HandoffRecord /\ AfterFailure(h) \in HandoffRecord
<1>1. Call("resume") \in Coordination /\ NoCall \in Coordination
  BY CallShape DEF NoCall, Coordination
<1> QED
  BY <1>1 DEF Unlaunched, AfterFailure, HandoffRecord

LEMMA PredecessorTypes ==
    ASSUME TypeOK, NEW r \in Handoffs, Predecessor(r)
    PROVE  TypeOK'
<1> DEFINE p == handoff[r].pred
<1> USE DEF TypeOK
<1>1. /\ handoff[r] \in HandoffRecord /\ p \in Processes /\ r \in Processes
      /\ proc[p] \in ProcessRecord /\ proc[r] \in ProcessRecord
      /\ handoff[r].call \in Coordination /\ handoff[r].previous \in Processes
  BY DEF HandoffRecord, Handoffs, Processes
<1>2. \A op \in {"quiesce", "resume", "activate"} : Call(op) \in Coordination
  BY CallShape
<1>3. NoCall \in Coordination
  BY DEF NoCall, Coordination
<1>4. CASE Spawn(r)
  <2>1. [Unborn EXCEPT !.life = "up", !.config = disk] \in ProcessRecord
    BY <1>3, HandoffAssumption DEF Unborn, ProcessRecord, Processes
  <2> QED
    BY <1>1, <1>4, <2>1 DEF Spawn
<1>5. CASE SpawnFails(r)
  <2>1. [handoff[r] EXCEPT !.phase = "failed"] \in HandoffRecord
    BY <1>1 DEF HandoffRecord
  <2>2. Unlaunched([handoff[r] EXCEPT !.phase = "failed"]) \in HandoffRecord
    BY <2>1, FailureTypes
  <2> QED
    BY <1>5, <2>2, FaultCount DEF SpawnFails
<1>6. CASE LaunchReady(r)
  BY <1>1, <1>6 DEF LaunchReady, HandoffRecord
<1>7. CASE LaunchFails(r)
  <2> DEFINE h == [handoff[r] EXCEPT !.phase = IF handoff[r].phase = "launching"
                                               THEN "failed" ELSE handoff[r].phase]
  <2>1. h \in HandoffRecord
    BY <1>1 DEF HandoffRecord
  <2>2. handoff' = [handoff EXCEPT ![r] = Unlaunched(h)]
    BY <1>7 DEF LaunchFails
  <2> HIDE DEF h
  <2> QED
    BY <1>7, <2>1, <2>2, FailureTypes DEF LaunchFails
<1>8. CASE Proceed(r)
  BY <1>1, <1>2, <1>8 DEF Proceed, HandoffRecord
<1>9. CASE Withdraw(r) \/ QuiesceFails(r)
  BY <1>1, <1>9, FailureTypes DEF Withdraw, QuiesceFails
<1>10. CASE PredecessorCall(r)
  <2>1. PICK o \in Outcomes(handoff[r].call, proc[p]) :
           /\ Pay(o.fault)
           /\ handoff' = [handoff EXCEPT ![r].call = o.call]
           /\ proc' = [proc EXCEPT ![p] = o.proc]
    BY <1>10 DEF PredecessorCall
  <2>2. o.call \in Coordination /\ o.proc \in ProcessRecord
    BY <1>1, OutcomeTypes
  <2>3. handoff' \in [Handoffs -> HandoffRecord]
    BY <1>1, <2>1, <2>2 DEF HandoffRecord
  <2> QED
    BY <1>1, <1>10, <2>1, <2>2, <2>3, FaultCount DEF PredecessorCall
<1>11. CASE Release(r)
  <2> DEFINE h == [handoff[r] EXCEPT !.holds = TRUE]
             g == [handoff[r] EXCEPT !.phase = "quiesced", !.ctl = "waiting",
                                     !.holds = TRUE, !.call = NoCall]
  <2>1. h \in HandoffRecord /\ g \in HandoffRecord
    BY <1>1, <1>3 DEF HandoffRecord
  <2>2. handoff' = [handoff EXCEPT ![r] = IF handoff[r].phase = "failed"
                                          THEN AfterFailure(h) ELSE g]
    BY <1>11 DEF Release
  <2> HIDE DEF h, g
  <2> QED
    BY <1>11, <2>1, <2>2, FailureTypes DEF Release
<1>12. CASE Stop(r)
  <2>1. handoff' \in [Handoffs -> HandoffRecord]
    BY <1>1, <1>12 DEF Stop, HandoffRecord
  <2>2. proc' \in [Processes -> ProcessRecord]
    BY <1>1, <1>12 DEF Stop, ProcessRecord
  <2> QED
    BY <1>12, <2>1, <2>2 DEF Stop
<1>13. CASE TakeoverFails(r)
  <2> DEFINE h == [handoff[r] EXCEPT !.phase = IF handoff[r].phase = "accepted"
                                               THEN handoff[r].phase ELSE "failed"]
  <2>1. h \in HandoffRecord
    BY <1>1 DEF HandoffRecord
  <2>2. handoff' = [handoff EXCEPT ![r] = AfterFailure(h)]
    BY <1>13 DEF TakeoverFails
  <2> HIDE DEF h
  <2> QED
    BY <1>13, <2>1, <2>2, FailureTypes DEF TakeoverFails
<1>14. CASE Retire(r)
  <2>1. handoff' \in [Handoffs -> HandoffRecord]
    BY <1>1, <1>14 DEF Retire, HandoffRecord
  <2>2. proc' \in [Processes -> ProcessRecord]
    BY <1>1, <1>14 DEF Retire, ProcessRecord
  <2> QED
    BY <1>14, <2>1, <2>2 DEF Retire
<1>15. CASE Reaped(r)
  BY <1>1, <1>2, <1>15 DEF Reaped, HandoffRecord
<1>16. CASE Resumed(r)
  <2>1. handoff[r].call.bad \in BOOLEAN
    BY <1>1 DEF Coordination
  <2> QED
    BY <1>1, <1>3, <1>16, <2>1 DEF Resumed, HandoffRecord
<1>17. CASE Restore(r)
  BY <1>1, <1>17 DEF Restore, HandoffRecord
<1> QED
  BY <1>4, <1>5, <1>6, <1>7, <1>8, <1>9, <1>10, <1>11, <1>12, <1>13, <1>14, <1>15, <1>16,
     <1>17 DEF Predecessor

LEMMA SuccessorTypes ==
    ASSUME TypeOK, NEW r \in Handoffs, Successor(r)
    PROVE  TypeOK'
<1> USE DEF TypeOK
<1>1. /\ handoff[r] \in HandoffRecord /\ r \in Processes
      /\ proc[r] \in ProcessRecord /\ proc[r].call \in Coordination
      /\ Cleaning(proc[r]) \in ProcessRecord
  BY CleaningShape DEF Handoffs, Processes, ProcessRecord
<1>2. Call("activate") \in Coordination /\ NoCall \in Coordination
  BY CallShape DEF NoCall, Coordination
<1>3. CASE Ready(r)
  <2>1. handoff' \in [Handoffs -> HandoffRecord]
    BY <1>1, <1>3 DEF Ready, HandoffRecord
  <2>2. proc' \in [Processes -> ProcessRecord]
    BY <1>1, <1>3 DEF Ready, ProcessRecord
  <2> QED
    BY <1>3, <2>1, <2>2 DEF Ready
<1>4. CASE BootFails(r)
  <2>1. [proc[r] EXCEPT !.pc = "exiting"] \in ProcessRecord
    BY <1>1 DEF ProcessRecord
  <2> QED
    BY <1>1, <1>4, <2>1 DEF BootFails
<1>5. CASE TakeOver(r)
  BY <1>1, <1>2, <1>5 DEF TakeOver, ProcessRecord
<1>6. CASE ReleaseFails(r)
  <2>1. handoff' \in [Handoffs -> HandoffRecord]
    BY <1>1, <1>6 DEF ReleaseFails, HandoffRecord
  <2> QED
    BY <1>1, <1>6, <2>1 DEF ReleaseFails
<1>7. CASE SuccessorCall(r)
  <2>1. PICK o \in Outcomes(proc[r].call, proc[r]) :
           /\ Pay(o.fault)
           /\ proc' = [proc EXCEPT ![r] = [o.proc EXCEPT !.call = o.call]]
    BY <1>7 DEF SuccessorCall
  <2>2. o.call \in Coordination /\ o.proc \in ProcessRecord
    BY <1>1, OutcomeTypes
  <2>3. [o.proc EXCEPT !.call = o.call] \in ProcessRecord
    BY <2>2 DEF ProcessRecord
  <2> QED
    BY <1>1, <1>7, <2>1, <2>3, FaultCount DEF SuccessorCall
<1>8. CASE ActivateFails(r)
  BY <1>1, <1>8 DEF ActivateFails
<1>9. CASE Accept(r)
  <2>1. handoff' \in [Handoffs -> HandoffRecord]
    BY <1>1, <1>9 DEF Accept, HandoffRecord
  <2>2. [proc[r] EXCEPT !.pc = "owner", !.call = NoCall] \in ProcessRecord
    BY <1>1, <1>2 DEF ProcessRecord
  <2> QED
    BY <1>1, <1>9, <2>1, <2>2 DEF Accept
<1>10. CASE Reject(r)
  <2>1. handoff' \in [Handoffs -> HandoffRecord]
    BY <1>1, <1>10 DEF Reject, HandoffRecord
  <2>2. proc' \in [Processes -> ProcessRecord]
    BY <1>1, <1>2, <1>10 DEF Reject, ProcessRecord
  <2> QED
    BY <1>10, <2>1, <2>2 DEF Reject
<1> QED
  BY <1>3, <1>4, <1>5, <1>6, <1>7, <1>8, <1>9, <1>10 DEF Successor

LEMMA NextTypes ==
    ASSUME TypeOK, [Next]_vars
    PROVE  TypeOK'
<1>1. ASSUME NEW r \in Handoffs, NEW p \in Processes, NEW f \in Flows, Begin(r, p, f)
      PROVE  TypeOK'
  <2>1. [Unused EXCEPT !.phase = "launching", !.pred = p, !.flow = f,
                       !.ctl = "launching", !.previous = disk] \in HandoffRecord
    BY DEF TypeOK, Unused, HandoffRecord, NoCall, Coordination
  <2>2. r \in Processes
    BY DEF Handoffs, Processes
  <2> QED
    BY <1>1, <2>1, <2>2 DEF TypeOK, Begin
<1>2. ASSUME NEW p \in Processes, Exit(p) \/ Crash(p)
      PROVE  TypeOK'
  <2>1. \A how \in {"exited", "crashed"} : Ended(proc[p], how) \in ProcessRecord
    BY EndShape DEF TypeOK
  <2> QED
    BY <1>2, <2>1, FaultCount DEF TypeOK, Exit, Crash
<1>3. CASE UNCHANGED vars
  BY <1>3 DEF vars, TypeOK
<1> QED
  BY <1>1, <1>2, <1>3, PredecessorTypes, SuccessorTypes DEF Next

\* The restart record and both sides' bookkeeping keep their types, in both
\* flows and under every fault.
THEOREM TypeCorrect == Spec => []TypeOK
<1>1. Init => TypeOK
  BY InitIInv DEF IInv, Shape
<1>2. TypeOK /\ [Next]_vars => TypeOK'
  BY NextTypes
<1> QED
  BY <1>1, <1>2, PTL DEF Spec

-----------------------------------------------------------------------------
(* Ownership.                                                              *)

\* No participant ever has two active owners: neither a crash, nor a takeover
\* that is refused, late, or given up after it was accepted, makes a process
\* start a participant that another one still runs.
THEOREM OwnershipSafety ==
    ASSUME RetireFirst
    PROVE  Spec => []SingleOwner
<1>1. IInv => SingleOwner
  BY CustodyIsOwnership
<1>2. Init => IInv
  BY InitIInv
<1>3. IInv /\ [Next]_vars => IInv'
  BY NextIInv
<1> QED
  BY <1>1, <1>2, <1>3, PTL DEF Spec

-----------------------------------------------------------------------------
(* Accepted takeovers.                                                     *)

\* A successor's walk: what it has not activated it still has to visit, and
\* what it has activated is active.
Walks(P) ==
    /\ P.pc \in {"boot", "waiting"} => P.activated = {}
    /\ /\ P.life \in {"up", "terminating"}
       /\ P.pc = "activating"
       /\ P.call.op = "activate"
       => /\ Participants \subseteq P.call.todo \cup P.activated
          /\ P.activated \subseteq P.active

\* r owns every participant, or handed over in its turn.
Owns(r) ==
    /\ proc[r].pc = "owner"
    /\ \/ proc[r].active = Participants
       \/ \E q \in Handoffs : handoff[q].pred = r /\ handoff[q].phase # "none"

\* From the release on the predecessor has nothing active and no other handoff,
\* until the record fails: a predecessor that gave up an accepted takeover
\* lets the record fail before it resumes.
Stands(r) ==
    handoff[r].phase \in {"quiesced", "accepted"} =>
        /\ proc[handoff[r].pred].active = {}
        /\ proc[handoff[r].pred].pc = "owner"
        /\ handoff[r].ctl \in {"waiting", "retiring", "settled"}
        /\ handoff[r].phase = "quiesced" => handoff[r].ctl = "waiting"
        /\ handoff[r].ctl = "settled" => proc[handoff[r].pred].life # "up"
        /\ \A q \in Handoffs :
               handoff[q].pred = handoff[r].pred /\ Driving(q) => q = r
        /\ handoff[r].phase = "accepted" /\ Running(r) => Owns(r)

Takeovers == /\ \A r \in Handoffs : Stands(r)
             /\ \A p \in Processes : Walks(proc[p])

\* A step that starts no process and no handoff leaves the predecessors under
\* way among those that were.
LEMMA DrivingShrinks ==
    ASSUME Shape, NEW s \in Handoffs, NEW x \in Processes,
           NEW h \in HandoffRecord, handoff' = [handoff EXCEPT ![s] = h],
           NEW P \in ProcessRecord, proc' = [proc EXCEPT ![x] = P],
           h.pred = handoff[s].pred,
           h.ctl \in {"none", "settled"} \/ handoff[s].ctl \notin {"none", "settled"},
           P.life \in {"up", "terminating"} => Running(x)
    PROVE  /\ handoff'[s] = h /\ \A q \in Handoffs : q # s => handoff'[q] = handoff[q]
           /\ proc'[x] = P /\ \A p \in Processes : p # x => proc'[p] = proc[p]
           /\ \A q \in Handoffs : /\ handoff'[q].pred = handoff[q].pred
                                  /\ handoff[q].pred \in Processes
           /\ \A p \in Processes : Running(p)' => Running(p)
           /\ \A q \in Handoffs : Driving(q)' => Driving(q)
<1>1. /\ handoff \in [Handoffs -> HandoffRecord]
      /\ proc \in [Processes -> ProcessRecord]
  BY DEF Shape, TypeOK
<1>2. handoff'[s] = h /\ \A q \in Handoffs : q # s => handoff'[q] = handoff[q]
  BY <1>1
<1>3. proc'[x] = P /\ \A p \in Processes : p # x => proc'[p] = proc[p]
  BY <1>1
<1>4. \A q \in Handoffs : /\ handoff'[q].pred = handoff[q].pred
                           /\ handoff[q].pred \in Processes
  BY <1>1, <1>2 DEF HandoffRecord
<1>5. \A p \in Processes : Running(p)' => Running(p)
  BY <1>3 DEF Running
<1>6. \A q \in Handoffs :
          handoff'[q].ctl \in {"none", "settled"} \/ handoff[q].ctl \notin {"none", "settled"}
  BY <1>2
<1>7. \A q \in Handoffs : Driving(q)' => Driving(q)
  BY <1>4, <1>5, <1>6 DEF Driving, Settled
<1> QED
  BY <1>2, <1>3, <1>4, <1>5, <1>7

\* The takeovers of the other handoffs stand, whatever a step does to handoff
\* s and process x, if it touches what an owner holds only in its own handoff;
\* so does that of s if the step leaves its progress alone or its record fails.
LEMMA TakeoversStand ==
    ASSUME Shape, Takeovers, NEW s \in Handoffs, NEW x \in Processes,
           NEW h \in HandoffRecord, handoff' = [handoff EXCEPT ![s] = h],
           NEW P \in ProcessRecord, proc' = [proc EXCEPT ![x] = P],
           h.pred = handoff[s].pred,
           handoff[s].phase # "none" => h.phase # "none",
           h.ctl \in {"none", "settled"} \/ handoff[s].ctl \notin {"none", "settled"},
           P.life \in {"up", "terminating"} => Running(x),
           P.life = "up" => proc[x].life = "up",
           proc[x].pc = "owner" =>
               /\ P.pc = "owner"
               /\ \/ P.active = proc[x].active
                  \/ P.active = {} /\ P.life \notin {"up", "terminating"}
                  \/ /\ x = handoff[s].pred
                     /\ Driving(s)
                     /\ handoff[s].phase # "none"
                     /\ handoff[s].ctl \in {"quiescing", "resuming"},
           Walks(P),
           \/ h.phase \notin {"quiesced", "accepted"}
           \/ h.phase = handoff[s].phase /\ h.ctl = handoff[s].ctl
           \/ Stands(s)'
    PROVE  Takeovers'
<1>1. /\ handoff'[s] = h /\ \A q \in Handoffs : q # s => handoff'[q] = handoff[q]
      /\ proc'[x] = P /\ \A p \in Processes : p # x => proc'[p] = proc[p]
      /\ \A q \in Handoffs : /\ handoff'[q].pred = handoff[q].pred
                              /\ handoff[q].pred \in Processes
      /\ \A p \in Processes : Running(p)' => Running(p)
      /\ \A q \in Handoffs : Driving(q)' => Driving(q)
  BY DrivingShrinks
<1>2. \A p \in Processes : Walks(proc'[p])
  BY <1>1 DEF Takeovers
<1>3. \A q \in Handoffs : handoff[q].phase # "none" => handoff'[q].phase # "none"
  BY <1>1
<1>4. ASSUME NEW r \in Handoffs,
             handoff'[r].phase = handoff[r].phase, handoff'[r].ctl = handoff[r].ctl
      PROVE  Stands(r)'
  <2>1. PICK p \in Processes : p = handoff[r].pred /\ p = handoff'[r].pred
    BY <1>1
  <2>2. SUFFICES ASSUME handoff'[r].phase \in {"quiesced", "accepted"}
                 PROVE  Stands(r)'
    BY DEF Stands
  <2>3. /\ proc[p].active = {} /\ proc[p].pc = "owner"
        /\ handoff[r].ctl \in {"waiting", "retiring", "settled"}
        /\ handoff[r].phase = "quiesced" => handoff[r].ctl = "waiting"
        /\ handoff[r].ctl = "settled" => proc[p].life # "up"
        /\ \A q \in Handoffs : handoff[q].pred = p /\ Driving(q) => q = r
        /\ handoff[r].phase = "accepted" /\ Running(r) => Owns(r)
    BY <1>4, <2>1, <2>2 DEF Takeovers, Stands
  <2>4. proc'[p].active = {} /\ proc'[p].pc = "owner"
    BY <1>1, <2>1, <2>3
  <2>5. handoff[r].ctl = "settled" => proc'[p].life # "up"
    BY <1>1, <2>3
  <2>6. \A q \in Handoffs : handoff'[q].pred = p /\ Driving(q)' => q = r
    BY <1>1, <2>3
  <2>7. ASSUME handoff[r].phase = "accepted", Running(r)' PROVE Owns(r)'
    <3>1. r \in Processes
      BY DEF Handoffs, Processes
    <3>2. Owns(r)
      BY <1>1, <2>3, <2>7, <3>1
    <3>3. proc'[r].pc = "owner"
      BY <1>1, <3>1, <3>2 DEF Owns
    <3>4. CASE \E q \in Handoffs : handoff[q].pred = r /\ handoff[q].phase # "none"
      BY <1>1, <1>3, <3>3, <3>4 DEF Owns
    <3>5. CASE proc'[r].active = proc[r].active
      BY <3>2, <3>3, <3>4, <3>5 DEF Owns
    <3>6. CASE proc'[r].active # proc[r].active
      BY <1>1, <2>7, <3>1, <3>2, <3>4, <3>6 DEF Owns, Running
    <3> QED
      BY <3>5, <3>6
  <2> QED
    BY <1>4, <2>1, <2>3, <2>4, <2>5, <2>6, <2>7 DEF Stands
<1>5. ASSUME NEW r \in Handoffs PROVE Stands(r)'
  <2>1. CASE handoff'[r].phase \notin {"quiesced", "accepted"}
    BY <2>1 DEF Stands
  <2>2. CASE handoff'[r].phase = handoff[r].phase /\ handoff'[r].ctl = handoff[r].ctl
    BY <1>4, <2>2
  <2>3. CASE r # s
    BY <1>1, <2>2, <2>3
  <2>4. CASE r = s
    BY <1>1, <2>1, <2>2, <2>4
  <2> QED
    BY <2>3, <2>4
<1> QED
  BY <1>2, <1>5 DEF Takeovers

\* The case of a step of handoff s that changes its record only.
LEMMA RecordMoves ==
    ASSUME Shape, Takeovers, NEW s \in Handoffs, Driving(s),
           NEW h \in HandoffRecord, handoff' = [handoff EXCEPT ![s] = h], proc' = proc,
           h.pred = handoff[s].pred, h.phase # "none",
           \/ h.phase \notin {"quiesced", "accepted"}
           \/ h.phase = handoff[s].phase /\ h.ctl = handoff[s].ctl
           \/ Stands(s)'
    PROVE  Takeovers'
<1>1. PICK x \in Processes : x = handoff[s].pred
  BY DEF Shape, TypeOK, HandoffRecord
<1>2. proc \in [Processes -> ProcessRecord] /\ proc[x] \in ProcessRecord
  BY DEF Shape, TypeOK
<1>3. proc' = [proc EXCEPT ![x] = proc[x]]
  BY <1>2
<1>4. Running(x) /\ handoff[s].ctl \notin {"none", "settled"} /\ Walks(proc[x])
  BY <1>1 DEF Driving, Settled, Takeovers
<1> QED
  BY <1>1, <1>2, <1>3, <1>4, TakeoversStand

\* releaseForTakeover: a release finds everything stopped.
LEMMA ReleaseStands ==
    ASSUME RetireFirst, Shape, Takeovers, NEW s \in Handoffs, Release(s)
    PROVE  Takeovers'
<1> DEFINE x == handoff[s].pred
           k == [handoff[s] EXCEPT !.holds = TRUE]
           a == [handoff[s] EXCEPT !.phase = "quiesced"]
           b == [a EXCEPT !.ctl = "waiting"]
           d == [b EXCEPT !.holds = TRUE]
           g == [d EXCEPT !.call = NoCall]
           h == IF handoff[s].phase = "failed" THEN AfterFailure(k) ELSE g
<1>1. /\ At(s, "quiescing") /\ Returned(handoff[s].call, proc[x])
      /\ handoff' = [handoff EXCEPT ![s] = h] /\ proc' = proc
  BY DEF Release
<1>2. /\ handoff \in [Handoffs -> HandoffRecord] /\ handoff[s] \in HandoffRecord
      /\ Orderly(handoff[s]) /\ handoff[s].ctl = "quiescing" /\ Driving(s)
      /\ handoff[s].flow = "mission"
  BY <1>1, DrivenByMission
<1>3. /\ x \in Processes /\ proc[x].pc = "owner" /\ Composed(proc[x]) /\ Linked(s)
      /\ \A q \in Handoffs : handoff[q].pred = x /\ q # s =>
              handoff[q].ctl \in {"none", "settled"}
  BY <1>1, Pair
<1>4. k \in HandoffRecord /\ k.phase = handoff[s].phase /\ k.pred = x /\ k.flow = "mission"
  BY <1>2 DEF HandoffRecord
<1>5. a \in HandoffRecord /\ a.phase = "quiesced" /\ a.pred = x
  BY <1>2 DEF HandoffRecord
<1> HIDE DEF a, k
<1>6. b \in HandoffRecord /\ b.phase = "quiesced" /\ b.pred = x /\ b.ctl = "waiting"
  BY <1>5 DEF HandoffRecord
<1> HIDE DEF b
<1>7. d \in HandoffRecord /\ d.phase = "quiesced" /\ d.pred = x /\ d.ctl = "waiting"
  BY <1>6 DEF HandoffRecord
<1> HIDE DEF d
<1>8. g \in HandoffRecord /\ g.phase = "quiesced" /\ g.pred = x /\ g.ctl = "waiting"
  <2>1. NoCall \in Coordination
    BY DEF NoCall, Coordination
  <2> QED
    BY <1>7, <2>1 DEF HandoffRecord
<1> HIDE DEF g
<1>9. CASE handoff[s].phase = "failed"
  <2>1. h \in HandoffRecord /\ h.phase = "failed" /\ h.pred = x
    BY <1>4, <1>9, AfterMissionFailure
  <2> HIDE DEF h
  <2> QED
    BY <1>1, <1>2, <2>1, RecordMoves
<1>10. CASE handoff[s].phase # "failed"
  <2>1. h = g
    BY <1>10
  <2>2. proc[x].active = {}
    <3>1. proc[x].active \subseteq handoff[s].call.todo
      BY <1>2, <1>3 DEF Linked
    <3>2. handoff[s].call.op = "quiesce"
      BY <1>2 DEF Orderly
    <3>3. handoff[s].call.todo \ proc[x].quiesced = {}
      BY <1>1, <3>2 DEF Returned, Eligible
    <3> QED
      BY <1>3, <3>1, <3>3 DEF Composed
  <2>3. handoff'[s] = g /\ \A q \in Handoffs : q # s => handoff'[q] = handoff[q]
    BY <1>1, <1>2, <2>1
  <2>4. \A q \in Handoffs : handoff'[q].pred = x /\ Driving(q)' => q = s
    BY <1>3, <2>3 DEF Driving, Settled
  <2>5. Stands(s)'
    BY <1>1, <1>3, <1>8, <2>2, <2>3, <2>4 DEF Stands
  <2> HIDE DEF h
  <2> QED
    BY <1>1, <1>2, <1>8, <2>1, <2>5, RecordMoves
<1> QED
  BY <1>9, <1>10

\* A predecessor that gives up keeps an accepted record accepted.
LEMMA GiveUpStands ==
    ASSUME RetireFirst, Shape, Takeovers, NEW s \in Handoffs, TakeoverFails(s)
    PROVE  Takeovers'
<1> DEFINE phase == IF handoff[s].phase = "accepted" THEN handoff[s].phase ELSE "failed"
           k == [handoff[s] EXCEPT !.phase = phase]
           h == AfterFailure(k)
<1>1. /\ At(s, "waiting") /\ handoff' = [handoff EXCEPT ![s] = h] /\ proc' = proc
  BY DEF TakeoverFails
<1>2. /\ handoff \in [Handoffs -> HandoffRecord] /\ handoff[s] \in HandoffRecord
      /\ handoff[s].ctl = "waiting" /\ Driving(s) /\ handoff[s].flow = "mission"
  BY <1>1, DrivenByMission
<1>3. k \in HandoffRecord /\ k.phase = phase /\ k.pred = handoff[s].pred /\ k.flow = "mission"
  BY <1>2 DEF HandoffRecord
<1> HIDE DEF k
<1>4. h \in HandoffRecord /\ h.phase = phase /\ h.pred = handoff[s].pred /\ h.ctl = "retiring"
  BY <1>3, AfterMissionFailure
<1> HIDE DEF h
<1>5. CASE handoff[s].phase = "accepted"
  <2>1. handoff'[s] = h /\ \A q \in Handoffs : q # s => handoff'[q] = handoff[q]
    BY <1>1, <1>2
  <2>2. /\ \A q \in Handoffs : handoff'[q].pred = handoff[q].pred
        /\ \A q \in Handoffs : handoff[q].phase # "none" => handoff'[q].phase # "none"
        /\ \A q \in Handoffs : Driving(q)' => Driving(q)
    BY <1>1, <1>2, <1>4, <1>5, <2>1 DEF Driving, Settled, Running
  <2>3. Stands(s)
    BY DEF Takeovers
  <2>4. Running(s)' => Owns(s)'
    <3>1. SUFFICES ASSUME Running(s)' PROVE Owns(s)'
      OBVIOUS
    <3>2. Running(s) /\ proc' = proc
      BY <1>1, <3>1 DEF Running
    <3>3. Owns(s)
      BY <1>5, <2>3, <3>2 DEF Stands
    <3> QED
      <4>1. proc'[s] = proc[s]
        BY <3>2
      <4>2. CASE proc[s].active = Participants
        BY <3>3, <4>1, <4>2 DEF Owns
      <4>3. CASE \E q \in Handoffs : handoff[q].pred = s /\ handoff[q].phase # "none"
        <5>1. \E q \in Handoffs : handoff'[q].pred = s /\ handoff'[q].phase # "none"
          BY <2>2, <4>3
        <5> QED
          BY <3>3, <4>1, <5>1 DEF Owns
      <4> QED
        BY <3>3, <4>2, <4>3 DEF Owns
  <2>5. Stands(s)'
    <3>1. /\ proc[handoff[s].pred].active = {} /\ proc[handoff[s].pred].pc = "owner"
          /\ \A q \in Handoffs : handoff[q].pred = handoff[s].pred /\ Driving(q) => q = s
      BY <1>5, <2>3 DEF Stands
    <3>2. handoff'[s].pred = handoff[s].pred /\ handoff'[s].ctl = "retiring"
            /\ handoff'[s].phase = "accepted" /\ proc' = proc
      BY <1>1, <1>4, <1>5, <2>1
    <3>3. \A q \in Handoffs : handoff'[q].pred = handoff[s].pred /\ Driving(q)' => q = s
      BY <2>2, <3>1
    <3> QED
      BY <2>4, <3>1, <3>2, <3>3 DEF Stands
  <2> QED
    BY <1>1, <1>2, <1>4, <1>5, <2>5, RecordMoves
<1>6. CASE handoff[s].phase # "accepted"
  BY <1>1, <1>2, <1>4, <1>6, RecordMoves
<1> QED
  BY <1>5, <1>6

\* The other steps of a predecessor that change its record only.
LEMMA PredecessorStands ==
    ASSUME RetireFirst, Shape, Takeovers, NEW s \in Handoffs,
           \/ SpawnFails(s) \/ LaunchReady(s) \/ LaunchFails(s)
           \/ Proceed(s) \/ Withdraw(s) \/ Reaped(s) \/ Resumed(s)
    PROVE  Takeovers'
<1>1. handoff[s] \in HandoffRecord
  BY DEF Shape, TypeOK
<1>2. CASE SpawnFails(s)
  <2> DEFINE k == [handoff[s] EXCEPT !.phase = "failed"]
             h == [k EXCEPT !.ctl = "settled"]
  <2>1. At(s, "launching") /\ proc' = proc
          /\ handoff' = [handoff EXCEPT ![s] = Unlaunched(k)]
    BY <1>2 DEF SpawnFails
  <2>2. Driving(s) /\ handoff[s].flow = "mission"
    BY <2>1, DrivenByMission
  <2>3. k \in HandoffRecord /\ k.phase = "failed" /\ k.pred = handoff[s].pred
          /\ k.flow = "mission"
    BY <1>1, <2>2 DEF HandoffRecord
  <2> HIDE DEF k
  <2>4. Unlaunched(k) = h /\ h \in HandoffRecord /\ h.phase = "failed"
          /\ h.pred = handoff[s].pred
    BY <2>3 DEF Unlaunched, HandoffRecord
  <2> HIDE DEF h
  <2> QED
    BY <2>1, <2>2, <2>4, RecordMoves
<1>3. CASE LaunchReady(s)
  <2> DEFINE h == [handoff[s] EXCEPT !.ctl = "replying"]
  <2>1. At(s, "launching") /\ proc' = proc /\ handoff[s].phase = "ready"
          /\ handoff' = [handoff EXCEPT ![s] = h]
    BY <1>3 DEF LaunchReady
  <2>2. h \in HandoffRecord /\ h.phase = "ready" /\ h.pred = handoff[s].pred
    BY <1>1, <2>1 DEF HandoffRecord
  <2> HIDE DEF h
  <2> QED
    BY <2>1, <2>2, DrivenByMission, RecordMoves
<1>4. CASE LaunchFails(s)
  <2> DEFINE phase == IF handoff[s].phase = "launching" THEN "failed" ELSE handoff[s].phase
             k == [handoff[s] EXCEPT !.phase = phase]
             h == [k EXCEPT !.ctl = "settled"]
  <2>1. At(s, "launching") /\ proc' = proc
          /\ handoff' = [handoff EXCEPT ![s] = Unlaunched(k)]
    BY <1>4 DEF LaunchFails
  <2>2. Driving(s) /\ handoff[s].flow = "mission" /\ handoff[s].ctl = "launching"
          /\ Orderly(handoff[s])
    BY <2>1, DrivenByMission
  <2>3. phase \in {"ready", "failed"}
    BY <2>2 DEF Orderly
  <2> HIDE DEF phase
  <2>4. k \in HandoffRecord /\ k.phase = phase /\ k.pred = handoff[s].pred
          /\ k.flow = "mission"
    BY <1>1, <2>2, <2>3 DEF HandoffRecord
  <2> HIDE DEF k
  <2>5. Unlaunched(k) = h /\ h \in HandoffRecord /\ h.phase = phase
          /\ h.pred = handoff[s].pred
    BY <2>4 DEF Unlaunched, HandoffRecord
  <2> HIDE DEF h
  <2> QED
    BY <2>1, <2>2, <2>3, <2>5, RecordMoves
<1>5. ASSUME At(s, "replying") \/ At(s, "reaping") \/ At(s, "resuming"), proc' = proc,
             NEW h \in HandoffRecord, handoff' = [handoff EXCEPT ![s] = h],
             h.pred = handoff[s].pred, h.phase = handoff[s].phase
      PROVE  Takeovers'
  <2>1. PICK c \in {"replying", "reaping", "resuming"} : At(s, c)
    BY <1>5
  <2>2. Driving(s) /\ handoff[s].ctl = c /\ Orderly(handoff[s])
    BY <2>1, DrivenByMission
  <2>3. handoff[s].phase \notin {"quiesced", "accepted"} /\ handoff[s].phase # "none"
    BY <2>1, <2>2 DEF Takeovers, Stands, Orderly
  <2> QED
    BY <1>5, <2>2, <2>3, RecordMoves
<1>6. CASE Proceed(s)
  <2> DEFINE k == [handoff[s] EXCEPT !.ctl = "quiescing"]
             h == [k EXCEPT !.call = Call("quiesce")]
  <2>1. At(s, "replying") /\ proc' = proc /\ handoff' = [handoff EXCEPT ![s] = h]
    BY <1>6 DEF Proceed
  <2>2. k \in HandoffRecord /\ k.phase = handoff[s].phase /\ k.pred = handoff[s].pred
    BY <1>1 DEF HandoffRecord
  <2> HIDE DEF k
  <2>3. h \in HandoffRecord /\ h.phase = handoff[s].phase /\ h.pred = handoff[s].pred
    BY <2>2, CallShape DEF HandoffRecord
  <2> HIDE DEF h
  <2> QED
    BY <1>5, <2>1, <2>3
<1>7. CASE Withdraw(s)
  <2> DEFINE h == AfterFailure(handoff[s])
  <2>1. At(s, "replying") /\ proc' = proc /\ handoff' = [handoff EXCEPT ![s] = h]
    BY <1>7 DEF Withdraw
  <2>2. h \in HandoffRecord /\ h.phase = handoff[s].phase /\ h.pred = handoff[s].pred
    BY <1>1, <2>1, DrivenByMission, AfterMissionFailure
  <2> HIDE DEF h
  <2> QED
    BY <1>5, <2>1, <2>2
<1>8. CASE Reaped(s)
  <2> DEFINE k == [handoff[s] EXCEPT !.ctl = "resuming"]
             a == [k EXCEPT !.call = Call("resume")]
             b == [handoff[s] EXCEPT !.ctl = "settled"]
             h == IF handoff[s].holds THEN a ELSE b
  <2>1. At(s, "reaping") /\ proc' = proc
    BY <1>8 DEF Reaped
  <2>2. handoff[s].flow = "mission"
    BY <2>1, DrivenByMission
  <2>3. handoff' = [handoff EXCEPT ![s] = h]
    BY <1>8, <2>2 DEF Reaped
  <2>4. k \in HandoffRecord /\ k.phase = handoff[s].phase /\ k.pred = handoff[s].pred
    BY <1>1 DEF HandoffRecord
  <2> HIDE DEF k
  <2>5. a \in HandoffRecord /\ a.phase = handoff[s].phase /\ a.pred = handoff[s].pred
    BY <2>4, CallShape DEF HandoffRecord
  <2>6. b \in HandoffRecord /\ b.phase = handoff[s].phase /\ b.pred = handoff[s].pred
    BY <1>1 DEF HandoffRecord
  <2> HIDE DEF a, b
  <2>7. h \in HandoffRecord /\ h.phase = handoff[s].phase /\ h.pred = handoff[s].pred
    BY <2>5, <2>6
  <2> HIDE DEF h
  <2> QED
    BY <1>5, <2>1, <2>3, <2>7
<1>9. CASE Resumed(s)
  <2> DEFINE k == [handoff[s] EXCEPT !.ctl = "settled"]
             a == [k EXCEPT !.holds = handoff[s].call.bad]
             h == [a EXCEPT !.call = NoCall]
  <2>1. At(s, "resuming") /\ proc' = proc
    BY <1>9 DEF Resumed
  <2>2. handoff[s].flow = "mission" /\ handoff \in [Handoffs -> HandoffRecord]
    BY <2>1, DrivenByMission
  <2>3. handoff' = [handoff EXCEPT ![s] = h]
    BY <1>9, <2>2 DEF Resumed
  <2>4. k \in HandoffRecord /\ k.phase = handoff[s].phase /\ k.pred = handoff[s].pred
    BY <1>1 DEF HandoffRecord
  <2>5. handoff[s].call.bad \in BOOLEAN
    BY <1>1 DEF HandoffRecord, Coordination
  <2> HIDE DEF k
  <2>6. a \in HandoffRecord /\ a.phase = handoff[s].phase /\ a.pred = handoff[s].pred
    BY <2>4, <2>5 DEF HandoffRecord
  <2> HIDE DEF a
  <2>7. h \in HandoffRecord /\ h.phase = handoff[s].phase /\ h.pred = handoff[s].pred
    <3>1. NoCall \in Coordination
      BY DEF NoCall, Coordination
    <3> QED
      BY <2>6, <3>1 DEF HandoffRecord
  <2> HIDE DEF h
  <2> QED
    BY <1>5, <2>1, <2>3, <2>7
<1> QED
  BY <1>2, <1>3, <1>4, <1>6, <1>7, <1>8, <1>9

\* A launched successor has taken nothing yet.
LEMMA SpawnStands ==
    ASSUME RetireFirst, Shape, Takeovers, NEW s \in Handoffs, Spawn(s)
    PROVE  Takeovers'
<1> DEFINE a == [Unborn EXCEPT !.life = "up"]
           P == [a EXCEPT !.config = disk]
<1>1. /\ At(s, "launching") /\ proc[s].life = "unborn"
      /\ proc' = [proc EXCEPT ![s] = P] /\ handoff' = handoff
  BY DEF Spawn, Unborn
<1>2. /\ Driving(s) /\ handoff[s].ctl = "launching" /\ handoff \in [Handoffs -> HandoffRecord]
      /\ proc \in [Processes -> ProcessRecord] /\ handoff[s].pred \in Processes
      /\ Running(handoff[s].pred)
  BY <1>1, DrivenByMission DEF HandoffRecord, At
<1>3. P.pc = "boot" /\ P.activated = {}
  BY DEF Unborn
<1> HIDE DEF P
<1>4. s \in Processes
  BY DEF Handoffs, Processes
<1>5. proc'[s] = P /\ \A p \in Processes : p # s => proc'[p] = proc[p]
  BY <1>1, <1>2, <1>4
<1>6. \A p \in Processes : Walks(proc'[p])
  BY <1>3, <1>5 DEF Takeovers, Walks
<1>7. \A q \in Handoffs : handoff[q].ctl # "none" =>
          handoff[q].pred \in Processes /\ handoff[q].pred # s
  BY <1>1, <1>2 DEF Shape, Linked, HandoffRecord
<1>8. \A q \in Handoffs : Driving(q)' => Driving(q)
  BY <1>1, <1>5, <1>7 DEF Driving, Settled, Running
<1>9. ASSUME NEW r \in Handoffs, handoff[r].phase \in {"quiesced", "accepted"}
      PROVE  Stands(r)'
  <2>1. Stands(r) /\ r \in Processes
    BY DEF Takeovers, Handoffs, Processes
  <2>2. r # s /\ handoff[r].ctl # "none"
    BY <1>2, <1>9, <2>1 DEF Stands
  <2>3. proc'[handoff[r].pred] = proc[handoff[r].pred] /\ proc'[r] = proc[r]
    BY <1>5, <1>7, <2>1, <2>2
  <2>4. (Running(r)' <=> Running(r)) /\ (Owns(r)' <=> Owns(r))
    BY <1>1, <2>3 DEF Running, Owns
  <2> QED
    BY <1>1, <1>8, <1>9, <2>1, <2>3, <2>4 DEF Stands
<1>10. \A r \in Handoffs : Stands(r)'
  BY <1>1, <1>9 DEF Stands
<1> QED
  BY <1>6, <1>10 DEF Takeovers

\* A predecessor that stops or resumes is not one whose takeover stands.
LEMMA PredecessorWalkStands ==
    ASSUME RetireFirst, Shape, Takeovers, NEW s \in Handoffs, PredecessorCall(s)
    PROVE  Takeovers'
<1>1. PICK p : p = handoff[s].pred
  OBVIOUS
<1>2. PICK o \in Outcomes(handoff[s].call, proc[p]) :
          /\ Pay(o.fault)
          /\ handoff' = [handoff EXCEPT ![s].call = o.call]
          /\ proc' = [proc EXCEPT ![p] = o.proc]
  BY <1>1 DEF PredecessorCall
<1>3. PICK c \in {"quiescing", "resuming"} : At(s, c)
  BY DEF PredecessorCall
<1>4. /\ handoff[s] \in HandoffRecord /\ handoff \in [Handoffs -> HandoffRecord]
      /\ Orderly(handoff[s]) /\ handoff[s].ctl = c /\ Driving(s)
  BY <1>3, DrivenByMission
<1>5. /\ p \in Processes /\ proc[p] \in ProcessRecord /\ proc[p].pc = "owner"
      /\ Composed(proc[p]) /\ Running(p)
  BY <1>1, <1>3, Pair
<1>6. o.fault # "quiesce"
  BY <1>2 DEF Pay, Fault, RetireFirst
<1>7. /\ handoff[s].call \in Coordination
      /\ handoff[s].call.op \in {"quiesce", "resume"}
      /\ handoff[s].call.op = "quiesce" => ~handoff[s].call.bad
      /\ proc[p].active \cap proc[p].quiesced = {}
  BY <1>3, <1>4, <1>5 DEF HandoffRecord, Orderly, Composed
<1>8. /\ o.call \in Coordination /\ o.proc \in ProcessRecord
      /\ o.proc.life = proc[p].life /\ o.proc.pc = "owner"
  BY <1>5, <1>6, <1>7, OutcomeShape
<1> DEFINE h == [handoff[s] EXCEPT !.call = o.call]
<1>9. /\ h \in HandoffRecord /\ h.ctl = c
      /\ h.phase = handoff[s].phase /\ h.pred = p
  BY <1>1, <1>4, <1>8 DEF HandoffRecord
<1>10. handoff' = [handoff EXCEPT ![s] = h]
  BY <1>2
<1> HIDE DEF h
<1>11. Walks(o.proc)
  BY <1>8 DEF Walks
<1>12. handoff[s].phase # "none"
  BY <1>3, <1>4 DEF Orderly
<1>13. /\ handoff[s].ctl \in {"quiescing", "resuming"} /\ handoff[s].ctl \notin {"none", "settled"}
       /\ o.proc.life = "up" => proc[p].life = "up"
       /\ h.pred = handoff[s].pred /\ h.phase = handoff[s].phase /\ h.ctl = handoff[s].ctl
       /\ p = handoff[s].pred
  BY <1>1, <1>3, <1>4, <1>8, <1>9
<1>14. PICK P : P = o.proc
  OBVIOUS
<1>15. /\ P \in ProcessRecord /\ proc' = [proc EXCEPT ![p] = P] /\ P.pc = "owner"
       /\ P.life = "up" => proc[p].life = "up"
       /\ Walks(P)
  BY <1>2, <1>8, <1>11, <1>13, <1>14
<1> QED
  BY <1>4, <1>5, <1>9, <1>10, <1>12, <1>13, <1>15, TakeoversStand

\* A predecessor that leaves owns nothing and drives nothing else.
LEMMA StopStands ==
    ASSUME RetireFirst, Shape, Takeovers, NEW s \in Handoffs, Stop(s)
    PROVE  Takeovers'
<1>0. PICK p : p = handoff[s].pred
  OBVIOUS
<1> DEFINE h == [handoff[s] EXCEPT !.ctl = "settled"]
           P == [proc[p] EXCEPT !.life = "terminating"]
<1>1. /\ At(s, "waiting") /\ handoff[s].phase = "accepted"
      /\ handoff' = [handoff EXCEPT ![s] = h] /\ proc' = [proc EXCEPT ![p] = P]
  BY <1>0 DEF Stop
<1>2. /\ handoff[s] \in HandoffRecord /\ Driving(s) /\ handoff[s].ctl = "waiting"
  BY <1>1, DrivenByMission
<1>3. p \in Processes /\ p # s /\ proc[p] \in ProcessRecord /\ proc[p].pc = "owner" /\ Running(p)
  BY <1>0, <1>1, Pair
<1>4. h \in HandoffRecord /\ h.ctl = "settled" /\ h.phase = "accepted" /\ h.pred = p
  BY <1>0, <1>1, <1>2 DEF HandoffRecord
<1>5. /\ P \in ProcessRecord /\ P.life = "terminating" /\ P.pc = "owner"
      /\ P.active = proc[p].active
  BY <1>3 DEF ProcessRecord
<1> HIDE DEF h, P
<1>6. Walks(P)
  BY <1>5 DEF Walks
<1>7. /\ handoff'[s] = h /\ \A q \in Handoffs : q # s => handoff'[q] = handoff[q]
      /\ proc'[p] = P /\ \A x \in Processes : x # p => proc'[x] = proc[x]
      /\ \A q \in Handoffs : /\ handoff'[q].pred = handoff[q].pred
                              /\ handoff[q].pred \in Processes
      /\ \A q \in Handoffs : Driving(q)' => Driving(q)
  <2>1. /\ handoff' = [handoff EXCEPT ![s] = h] /\ proc' = [proc EXCEPT ![p] = P]
        /\ h.pred = handoff[s].pred /\ h.ctl \in {"none", "settled"}
        /\ P.life \in {"up", "terminating"} => Running(p)
    BY <1>0, <1>1, <1>3, <1>4, <1>5
  <2>2. \A q \in Handoffs : Driving(q)' => Driving(q)
    BY <1>2, <1>3, <1>4, <1>5, <2>1, DrivingShrinks
  <2>3. handoff \in [Handoffs -> HandoffRecord] /\ proc \in [Processes -> ProcessRecord]
    BY DEF Shape, TypeOK
  <2>4. handoff'[s] = h /\ \A q \in Handoffs : q # s => handoff'[q] = handoff[q]
    BY <2>1, <2>3
  <2>5. proc'[p] = P /\ \A x \in Processes : x # p => proc'[x] = proc[x]
    BY <1>3, <2>1, <2>3
  <2>6. \A q \in Handoffs : /\ handoff'[q].pred = handoff[q].pred
                              /\ handoff[q].pred \in Processes
    BY <2>1, <2>3, <2>4 DEF HandoffRecord
  <2> QED
    BY <2>2, <2>4, <2>5, <2>6
<1>8. Stands(s)'
  <2>1. Stands(s) /\ s \in Processes
    BY DEF Takeovers, Handoffs, Processes
  <2>2. /\ proc[p].active = {} /\ proc[p].pc = "owner"
        /\ \A q \in Handoffs : handoff[q].pred = p /\ Driving(q) => q = s
        /\ Running(s) => Owns(s)
    BY <1>0, <1>1, <2>1 DEF Stands
  <2>3. proc'[s] = proc[s]
    BY <1>3, <1>7, <2>1
  <2>4. Running(s)' => Owns(s)'
    <3>1. \A q \in Handoffs : handoff[q].phase # "none" => handoff'[q].phase # "none"
      BY <1>4, <1>7
    <3>2. SUFFICES ASSUME Running(s)' PROVE Owns(s)'
      OBVIOUS
    <3>3. Owns(s)
      BY <2>2, <2>3, <3>2 DEF Running
    <3> QED
      BY <1>7, <2>3, <3>1, <3>3 DEF Owns
  <2>5. \A q \in Handoffs : handoff'[q].pred = p /\ Driving(q)' => q = s
    BY <1>7, <2>2
  <2> QED
    BY <1>4, <1>5, <1>7, <2>2, <2>4, <2>5 DEF Stands
<1> QED
  BY <1>0, <1>1, <1>2, <1>3, <1>4, <1>5, <1>6, <1>8, TakeoversStand

\* A record that fails with the retirement of the successor stands no more.
LEMMA RetireStands ==
    ASSUME RetireFirst, Shape, Takeovers, NEW s \in Handoffs, Retire(s)
    PROVE  Takeovers'
<1> DEFINE k == [handoff[s] EXCEPT !.phase = "failed"]
           h == [k EXCEPT !.ctl = "reaping"]
           life == IF proc[s].life = "up" THEN "terminating" ELSE proc[s].life
           P == [proc[s] EXCEPT !.life = life]
<1>1. /\ At(s, "retiring") /\ handoff' = [handoff EXCEPT ![s] = h]
      /\ proc' = [proc EXCEPT ![s] = P]
  <2>1. handoff \in [Handoffs -> HandoffRecord] /\ proc \in [Processes -> ProcessRecord]
    BY DEF Shape, TypeOK
  <2> QED
    BY <2>1 DEF Retire
<1>2. handoff[s] \in HandoffRecord /\ Driving(s) /\ handoff[s].ctl = "retiring"
  BY <1>1, DrivenByMission
<1>3. s \in Processes /\ proc[s] \in ProcessRecord
  BY DEF Shape, TypeOK, Handoffs, Processes
<1>4. h \in HandoffRecord /\ h.phase = "failed" /\ h.pred = handoff[s].pred
  <2>1. k \in HandoffRecord /\ k.phase = "failed" /\ k.pred = handoff[s].pred
    BY <1>2 DEF HandoffRecord
  <2> HIDE DEF k
  <2> QED
    BY <2>1 DEF HandoffRecord
<1>5. life \in {"unborn", "up", "terminating", "exited", "crashed"} /\ life # "up"
        /\ (life \in {"up", "terminating"} <=> Running(s))
  BY <1>3 DEF ProcessRecord, Running
<1> HIDE DEF life
<1>6. /\ P \in ProcessRecord /\ P.life = life /\ P.pc = proc[s].pc
      /\ P.active = proc[s].active /\ P.activated = proc[s].activated
      /\ P.call = proc[s].call
  BY <1>3, <1>5 DEF ProcessRecord
<1> HIDE DEF h, P
<1>7. Walks(P)
  BY <1>3, <1>5, <1>6 DEF Takeovers, Walks, Running
<1> QED
  BY <1>1, <1>2, <1>3, <1>4, <1>5, <1>6, <1>7, TakeoversStand

\* A successor on its way is no predecessor, and no owner yet.
LEMMA SuccessorMoves ==
    ASSUME Shape, Takeovers, NEW s \in Handoffs, NEW c, Starts(s, c), c # "owner",
           NEW h \in HandoffRecord, handoff' = [handoff EXCEPT ![s] = h],
           h.pred = handoff[s].pred, h.ctl = handoff[s].ctl,
           NEW P \in ProcessRecord, proc' = [proc EXCEPT ![s] = P],
           P.life = proc[s].life, Walks(P),
           \/ h.phase = "failed"
           \/ h.phase = handoff[s].phase
           \/ h.phase # "none" /\ Stands(s)'
    PROVE  Takeovers'
<1>1. s \in Processes /\ proc[s].pc # "owner" /\ Running(s)
  BY DEF Starts, Handoffs, Processes
<1>2. P.life \in {"up", "terminating"} => Running(s)
  BY <1>1
<1>3. h.ctl \in {"none", "settled"} \/ handoff[s].ctl \notin {"none", "settled"}
  OBVIOUS
<1>4. handoff[s].phase # "none" => h.phase # "none"
  OBVIOUS
<1>5. \/ h.phase \notin {"quiesced", "accepted"}
      \/ h.phase = handoff[s].phase /\ h.ctl = handoff[s].ctl
      \/ Stands(s)'
  OBVIOUS
<1> QED
  BY <1>1, <1>2, <1>3, <1>4, <1>5, TakeoversStand

\* One step of an activation keeps the walk whole.
LEMMA ActivationWalks ==
    ASSUME NEW k \in Coordination, k.op = "activate",
           NEW P \in ProcessRecord, P.quiesced = {}, P.active \cap P.quiesced = {},
           Participants \subseteq k.todo \cup P.activated, P.activated \subseteq P.active,
           NEW o \in Outcomes(k, P)
    PROVE  \/ o.call.op = "undo"
           \/ /\ Participants \subseteq o.call.todo \cup o.proc.activated
              /\ o.proc.activated \subseteq o.proc.active
<1>1. Eligible(k, P) # {} /\ Eligible(k, P) = k.todo \ P.activated
  BY DEF Outcomes, Eligible
<1>2. PICK x : x = Visited(k, P)
  OBVIOUS
<1>3. /\ k.todo \in SUBSET Participants
      /\ P.active \in SUBSET Participants /\ P.activated \in SUBSET Participants
  BY DEF Coordination, ProcessRecord
<1>4. /\ x \in Eligible(k, P) /\ x \in Participants /\ ~Stops(k)
      /\ \A y \in Eligible(k, P) : x <= y
  <2>1. x = Min(Eligible(k, P)) /\ ~Stops(k)
    BY <1>2 DEF Visited, Stops
  <2>2. ParticipantCount \in Nat /\ Eligible(k, P) \in SUBSET Nat
    BY <1>1, <1>3, HandoffAssumption DEF Participants
  <2> QED
    BY <1>1, <1>3, <2>1, <2>2, MinOfNaturals
<1>5. \/ o.call = [k EXCEPT !.todo = Later(k, x), !.newly = @ \cup {x}]
         /\ o.proc = Obeyed(k, P, x)
      \/ o.call = [k EXCEPT !.op = "undo", !.todo = k.newly]
  BY <1>1, <1>2 DEF Outcomes
<1>6. CASE o.call = [k EXCEPT !.op = "undo", !.todo = k.newly]
  BY <1>6 DEF Coordination
<1>7. CASE /\ o.call = [k EXCEPT !.todo = Later(k, x), !.newly = @ \cup {x}]
           /\ o.proc = Obeyed(k, P, x)
  <2>1. o.call.todo = Later(k, x)
    BY <1>7 DEF Coordination
  <2>2. /\ o.proc.active = P.active \cup {x}
        /\ o.proc.activated = P.activated \cup {x}
    BY <1>4, <1>7 DEF Obeyed, ProcessRecord, Stops
  <2>3. ASSUME NEW y \in Participants, y \notin o.proc.activated
        PROVE  y \in o.call.todo
    <3>1. y # x /\ y \in k.todo /\ y \in Eligible(k, P)
      BY <1>1, <2>2, <2>3
    <3>2. x <= y /\ x \in Int /\ y \in Int
      BY <1>4, <2>3, <3>1 DEF Participants
    <3> QED
      BY <1>4, <2>1, <3>1, <3>2 DEF Later
  <2> QED
    BY <2>2, <2>3
<1> QED
  BY <1>5, <1>6, <1>7

LEMMA UndoGoesOn ==
    ASSUME NEW k \in Coordination, k.op = "undo", NEW P \in ProcessRecord,
           NEW o \in Outcomes(k, P)
    PROVE  o.call.op = "undo"
<1>1. Eligible(k, P) # {}
  BY DEF Outcomes
<1>2. PICK x : x = Visited(k, P)
  OBVIOUS
<1>3. \/ o.call = [k EXCEPT !.todo = Later(k, x), !.newly = @]
      \/ o.call = [k EXCEPT !.todo = Later(k, x), !.bad = TRUE]
  BY <1>1, <1>2 DEF Outcomes
<1> QED
  BY <1>3 DEF Coordination

\* The successor's steps through its coordinator.
LEMMA SuccessorWalkStands ==
    ASSUME RetireFirst, Shape, Takeovers, NEW s \in Handoffs, SuccessorCall(s)
    PROVE  Takeovers'
<1>1. PICK o \in Outcomes(proc[s].call, proc[s]) :
          /\ Pay(o.fault)
          /\ proc' = [proc EXCEPT ![s] = [o.proc EXCEPT !.call = o.call]]
  BY DEF SuccessorCall
<1>2. PICK c \in {"activating", "cleaning"} : Starts(s, c)
  BY DEF SuccessorCall
<1>3. /\ handoff \in [Handoffs -> HandoffRecord] /\ handoff[s] \in HandoffRecord
      /\ proc[s] \in ProcessRecord /\ Composed(proc[s]) /\ Walks(proc[s])
  BY DEF Shape, TypeOK, Takeovers, Handoffs, Processes
<1>4. o.fault # "quiesce"
  BY <1>1 DEF Pay, Fault, RetireFirst
<1>5. /\ proc[s].call \in Coordination /\ proc[s].pc = c
      /\ proc[s].life \in {"up", "terminating"}
      /\ proc[s].active \cap proc[s].quiesced = {}
      /\ c = "activating" => proc[s].call.op \in {"activate", "undo"} /\ proc[s].quiesced = {}
      /\ c = "cleaning" => proc[s].call.op = "quiesce" /\ ~proc[s].call.bad
  BY <1>2, <1>3 DEF Composed, ProcessRecord, Starts, Running
<1>6. /\ o.call \in Coordination /\ o.proc \in ProcessRecord
      /\ o.proc.life = proc[s].life /\ o.proc.pc = c
  BY <1>2, <1>3, <1>4, <1>5, OutcomeShape
<1>7. ASSUME c = "activating", o.call.op = "activate"
      PROVE  /\ Participants \subseteq o.call.todo \cup o.proc.activated
             /\ o.proc.activated \subseteq o.proc.active
  <2>1. proc[s].call.op = "activate"
    <3>1. SUFFICES ASSUME proc[s].call.op = "undo" PROVE FALSE
      BY <1>5, <1>7
    <3>2. o.call.op = "undo"
      BY <1>3, <1>5, <3>1, UndoGoesOn
    <3> QED
      BY <1>7, <3>2
  <2>2. /\ Participants \subseteq proc[s].call.todo \cup proc[s].activated
        /\ proc[s].activated \subseteq proc[s].active
    BY <1>3, <1>5, <1>7, <2>1 DEF Walks
  <2> QED
    BY <1>3, <1>5, <1>7, <2>1, <2>2, ActivationWalks
<1> DEFINE P == [o.proc EXCEPT !.call = o.call]
<1>8. /\ P \in ProcessRecord /\ P.life = proc[s].life /\ P.pc = c
      /\ P.active = o.proc.active /\ P.activated = o.proc.activated /\ P.call = o.call
  BY <1>6 DEF ProcessRecord
<1>9. proc' = [proc EXCEPT ![s] = P]
  BY <1>1
<1> HIDE DEF P
<1>10. Walks(P)
  BY <1>2, <1>7, <1>8 DEF Walks
<1>11. handoff' = [handoff EXCEPT ![s] = handoff[s]]
  BY <1>3 DEF SuccessorCall
<1> QED
  BY <1>2, <1>3, <1>8, <1>9, <1>10, <1>11, SuccessorMoves

\* Of the successor's other steps the acceptance alone makes a takeover stand,
\* and it finds everything activated.
LEMMA AcceptStands ==
    ASSUME RetireFirst, Shape, Takeovers, NEW s \in Handoffs, Accept(s)
    PROVE  Takeovers'
<1>1. /\ handoff \in [Handoffs -> HandoffRecord] /\ handoff[s] \in HandoffRecord
      /\ proc \in [Processes -> ProcessRecord] /\ proc[s] \in ProcessRecord
      /\ Composed(proc[s]) /\ Walks(proc[s]) /\ Stands(s)
      /\ s \in Processes
  BY DEF Shape, TypeOK, Takeovers, Handoffs, Processes
<1>2. Starts(s, "activating") /\ Returned(proc[s].call, proc[s])
  BY DEF Accept
<1>3. CASE handoff[s].phase # "quiesced"
  <2>1. handoff' = [handoff EXCEPT ![s] = handoff[s]]
    <3>1. handoff' = [handoff EXCEPT ![s].phase = handoff[s].phase]
      BY <1>3 DEF Accept
    <3>2. [handoff[s] EXCEPT !.phase = handoff[s].phase] = handoff[s]
      BY <1>1 DEF HandoffRecord
    <3> QED
      BY <3>1, <3>2
  <2>2. proc' = [proc EXCEPT ![s] = Cleaning(proc[s])]
    BY <1>1, <1>3 DEF Accept
  <2>3. /\ Cleaning(proc[s]) \in ProcessRecord /\ Cleaning(proc[s]).pc = "cleaning"
        /\ Cleaning(proc[s]).life = proc[s].life
    BY <1>1, CleaningShape
  <2>4. Walks(Cleaning(proc[s]))
    BY <2>3 DEF Walks
  <2> QED
    BY <1>1, <1>2, <2>1, <2>2, <2>3, <2>4, SuccessorMoves
<1>4. CASE handoff[s].phase = "quiesced"
  <2> DEFINE p == handoff[s].pred
             h == [handoff[s] EXCEPT !.phase = "accepted"]
             Q == [proc[s] EXCEPT !.pc = "owner"]
             P == [Q EXCEPT !.call = NoCall]
  <2>1. handoff' = [handoff EXCEPT ![s] = h] /\ proc' = [proc EXCEPT ![s] = P]
    BY <1>1, <1>4 DEF Accept
  <2>2. h \in HandoffRecord /\ h.phase = "accepted" /\ h.pred = p /\ h.ctl = handoff[s].ctl
    BY <1>1 DEF HandoffRecord
  <2>3. /\ Q \in ProcessRecord /\ Q.pc = "owner" /\ Q.life = proc[s].life
        /\ Q.active = proc[s].active
    BY <1>1 DEF ProcessRecord
  <2> HIDE DEF Q
  <2>4. /\ P \in ProcessRecord /\ P.pc = "owner" /\ P.life = proc[s].life
        /\ P.active = proc[s].active
    <3>1. NoCall \in Coordination
      BY DEF NoCall, Coordination
    <3> QED
      BY <2>3, <3>1 DEF ProcessRecord
  <2> HIDE DEF h, P
  <2>5. proc[s].active = Participants
    <3>1. proc[s].pc = "activating" /\ proc[s].life \in {"up", "terminating"}
      BY <1>2 DEF Starts, Running
    <3>2. proc[s].call.op = "activate"
      BY <1>1, <1>2, <3>1 DEF Composed, Returned
    <3>3. proc[s].call.todo \ proc[s].activated = {}
      BY <1>2, <3>2 DEF Returned, Eligible
    <3>4. proc[s].active \subseteq Participants
      BY <1>1 DEF ProcessRecord
    <3> QED
      BY <1>1, <3>1, <3>2, <3>3, <3>4 DEF Walks
  <2>6. /\ handoff'[s] = h /\ \A q \in Handoffs : q # s => handoff'[q] = handoff[q]
        /\ proc'[s] = P /\ \A x \in Processes : x # s => proc'[x] = proc[x]
    BY <1>1, <2>1
  <2>7. /\ p \in Processes /\ p # s /\ proc[p].active = {} /\ proc[p].pc = "owner"
        /\ handoff[s].ctl = "waiting"
        /\ \A q \in Handoffs : handoff[q].pred = p /\ Driving(q) => q = s
    BY <1>1, <1>2, <1>4 DEF Stands, Starts, HandoffRecord
  <2>8. \A q \in Handoffs : Driving(q)' => Driving(q)
    <3>1. \A q \in Handoffs : handoff'[q].ctl = handoff[q].ctl /\ handoff'[q].pred = handoff[q].pred
      BY <2>2, <2>6
    <3>2. \A x \in Processes : Running(x)' <=> Running(x)
      BY <2>4, <2>6 DEF Running
    <3>3. \A q \in Handoffs : handoff[q].pred \in Processes
      BY <1>1 DEF HandoffRecord
    <3> QED
      BY <3>1, <3>2, <3>3 DEF Driving, Settled
  <2>9. \A q \in Handoffs : handoff'[q].pred = p /\ Driving(q)' => q = s
    BY <2>2, <2>6, <2>7, <2>8
  <2>10. Owns(s)'
    BY <2>4, <2>5, <2>6 DEF Owns
  <2>11. Stands(s)'
    BY <2>2, <2>6, <2>7, <2>9, <2>10 DEF Stands
  <2>12. Walks(P)
    BY <2>4 DEF Walks
  <2> QED
    BY <1>2, <2>1, <2>2, <2>4, <2>11, <2>12, SuccessorMoves
<1> QED
  BY <1>3, <1>4

\* The rest of the successor's startup.
LEMMA SuccessorStands ==
    ASSUME RetireFirst, Shape, Takeovers, NEW s \in Handoffs,
           \/ Ready(s) \/ BootFails(s) \/ TakeOver(s) \/ ReleaseFails(s)
           \/ ActivateFails(s) \/ Reject(s)
    PROVE  Takeovers'
<1>1. /\ handoff \in [Handoffs -> HandoffRecord] /\ handoff[s] \in HandoffRecord
      /\ proc \in [Processes -> ProcessRecord] /\ proc[s] \in ProcessRecord
      /\ Walks(proc[s]) /\ Stands(s) /\ s \in Processes
  BY DEF Shape, TypeOK, Takeovers, Handoffs, Processes
<1>2. /\ Cleaning(proc[s]) \in ProcessRecord /\ Cleaning(proc[s]).life = proc[s].life
      /\ Walks(Cleaning(proc[s]))
  BY <1>1, CleaningShape DEF Walks
<1>3. handoff = [handoff EXCEPT ![s] = handoff[s]]
  BY <1>1
<1>4. [handoff[s] EXCEPT !.phase = "failed"] \in HandoffRecord
        /\ [handoff[s] EXCEPT !.phase = "failed"].phase = "failed"
        /\ [handoff[s] EXCEPT !.phase = "failed"].pred = handoff[s].pred
        /\ [handoff[s] EXCEPT !.phase = "failed"].ctl = handoff[s].ctl
  BY <1>1 DEF HandoffRecord
<1>5. CASE Ready(s)
  <2> DEFINE h == [handoff[s] EXCEPT !.phase = "ready"]
             P == [proc[s] EXCEPT !.pc = "waiting"]
  <2>1. /\ Starts(s, "boot") /\ handoff' = [handoff EXCEPT ![s] = h]
        /\ proc' = [proc EXCEPT ![s] = P]
    BY <1>5 DEF Ready
  <2>2. h \in HandoffRecord /\ h.phase = "ready" /\ h.pred = handoff[s].pred
          /\ h.ctl = handoff[s].ctl
    BY <1>1 DEF HandoffRecord
  <2>3. P \in ProcessRecord /\ P.pc = "waiting" /\ P.life = proc[s].life
          /\ P.activated = proc[s].activated
    BY <1>1 DEF ProcessRecord
  <2> HIDE DEF h, P
  <2>4. Walks(P)
    BY <1>1, <2>1, <2>3 DEF Walks, Starts
  <2>5. handoff'[s].phase = "ready"
    BY <1>1, <2>1, <2>2
  <2>6. Stands(s)'
    BY <2>5 DEF Stands
  <2> QED
    BY <2>1, <2>2, <2>3, <2>4, <2>6, SuccessorMoves
<1>6. CASE BootFails(s)
  <2> DEFINE P == [proc[s] EXCEPT !.pc = "exiting"]
  <2>1. P \in ProcessRecord /\ P.pc = "exiting" /\ P.life = proc[s].life
    BY <1>1 DEF ProcessRecord
  <2>2. Walks(P)
    BY <2>1 DEF Walks
  <2>3. PICK Q \in {P, Cleaning(proc[s])} : proc' = [proc EXCEPT ![s] = Q]
    BY <1>1, <1>6 DEF BootFails
  <2> HIDE DEF P
  <2>4. Q \in ProcessRecord /\ Q.life = proc[s].life /\ Walks(Q)
    BY <1>2, <2>1, <2>2, <2>3
  <2>5. Starts(s, "boot") /\ handoff' = [handoff EXCEPT ![s] = handoff[s]]
    BY <1>3, <1>6 DEF BootFails
  <2> QED
    BY <1>1, <2>3, <2>4, <2>5, SuccessorMoves
<1>7. CASE TakeOver(s)
  <2> DEFINE Q == [proc[s] EXCEPT !.pc = "activating"]
             P == [Q EXCEPT !.call = Call("activate")]
  <2>1. /\ Starts(s, "waiting") /\ handoff' = [handoff EXCEPT ![s] = handoff[s]]
        /\ proc' = [proc EXCEPT ![s] = P]
    BY <1>1, <1>3, <1>7 DEF TakeOver
  <2>2. /\ Q \in ProcessRecord /\ Q.pc = "activating" /\ Q.life = proc[s].life
        /\ Q.activated = proc[s].activated
    BY <1>1 DEF ProcessRecord
  <2> HIDE DEF Q
  <2>3. /\ P \in ProcessRecord /\ P.pc = "activating" /\ P.life = proc[s].life
        /\ P.activated = proc[s].activated /\ P.call = Call("activate")
    BY <2>2, CallShape DEF ProcessRecord
  <2> HIDE DEF P
  <2>4. proc[s].activated = {}
    BY <1>1, <2>1 DEF Walks, Starts
  <2>5. Walks(P)
    BY <2>3, <2>4, CallShape DEF Walks
  <2> QED
    BY <1>1, <2>1, <2>3, <2>5, SuccessorMoves
<1>8. CASE ReleaseFails(s)
  <2>1. /\ Starts(s, "waiting") /\ proc' = [proc EXCEPT ![s] = Cleaning(proc[s])]
        /\ handoff' = [handoff EXCEPT ![s] = [handoff[s] EXCEPT !.phase = "failed"]]
    BY <1>8 DEF ReleaseFails
  <2> QED
    BY <1>2, <1>4, <2>1, SuccessorMoves
<1>9. CASE ActivateFails(s)
  <2>1. /\ Starts(s, "activating") /\ proc' = [proc EXCEPT ![s] = Cleaning(proc[s])]
        /\ handoff' = [handoff EXCEPT ![s] = handoff[s]]
    BY <1>3, <1>9 DEF ActivateFails
  <2> QED
    BY <1>1, <1>2, <2>1, SuccessorMoves
<1>10. CASE Reject(s)
  <2> DEFINE Q == [proc[s] EXCEPT !.pc = "exiting"]
             P == [Q EXCEPT !.call = NoCall]
  <2>1. Starts(s, "cleaning") /\ proc' = [proc EXCEPT ![s] = P]
    BY <1>1, <1>10 DEF Reject
  <2>2. Q \in ProcessRecord /\ Q.pc = "exiting" /\ Q.life = proc[s].life
    BY <1>1 DEF ProcessRecord
  <2> HIDE DEF Q
  <2>3. P \in ProcessRecord /\ P.pc = "exiting" /\ P.life = proc[s].life
    <3>1. NoCall \in Coordination
      BY DEF NoCall, Coordination
    <3> QED
      BY <2>2, <3>1 DEF ProcessRecord
  <2> HIDE DEF P
  <2>4. Walks(P)
    BY <2>3 DEF Walks
  <2>5. CASE handoff' = handoff
    BY <1>1, <1>3, <2>1, <2>3, <2>4, <2>5, SuccessorMoves
  <2>6. CASE handoff' = [handoff EXCEPT ![s] = [handoff[s] EXCEPT !.phase = "failed"]]
    BY <1>4, <2>1, <2>3, <2>4, <2>6, SuccessorMoves
  <2>7. \/ handoff' = handoff
        \/ handoff' = [handoff EXCEPT ![s] = [handoff[s] EXCEPT !.phase = "failed"]]
    <3>1. handoff' = [handoff EXCEPT ![s].phase =
              IF /\ handoff[s].phase \in {"ready", "quiesced"}
                 /\ handoff[s].flow = "settings" => ~proc[s].call.bad
              THEN "failed" ELSE handoff[s].phase]
      BY <1>10 DEF Reject
    <3>2. [handoff[s] EXCEPT !.phase = handoff[s].phase] = handoff[s]
      BY <1>1 DEF HandoffRecord
    <3> QED
      BY <1>1, <3>1, <3>2
  <2> QED
    BY <2>5, <2>6, <2>7
<1> QED
  BY <1>5, <1>6, <1>7, <1>8, <1>9, <1>10

\* A process that ends owns nothing and is nobody's owner to be.
LEMMA EndStands ==
    ASSUME Shape, Takeovers, NEW p \in Processes, Exit(p) \/ Crash(p)
    PROVE  Takeovers'
<1>1. PICK how \in {"exited", "crashed"} :
          proc' = [proc EXCEPT ![p] = Ended(proc[p], how)] /\ handoff' = handoff
  BY DEF Exit, Crash
<1>2. /\ handoff \in [Handoffs -> HandoffRecord]
      /\ proc \in [Processes -> ProcessRecord] /\ proc[p] \in ProcessRecord
  BY DEF Shape, TypeOK
<1> DEFINE P == Ended(proc[p], how)
<1>3. /\ P \in ProcessRecord /\ P.life \notin {"up", "terminating"} /\ P.active = {}
      /\ P.pc = proc[p].pc /\ P.activated = proc[p].activated
  <2>1. P.activated = proc[p].activated
    BY <1>2 DEF Ended, ProcessRecord
  <2> QED
    BY <1>2, <2>1, EndShape
<1>4. proc' = [proc EXCEPT ![p] = P]
  BY <1>1
<1> HIDE DEF P
<1>5. Walks(P)
  BY <1>3 DEF Takeovers, Walks
<1>6. CASE Handoffs = {}
  BY <1>2, <1>4, <1>5, <1>6 DEF Takeovers
<1>7. ASSUME NEW s \in Handoffs PROVE Takeovers'
  <2>1. handoff[s] \in HandoffRecord /\ handoff' = [handoff EXCEPT ![s] = handoff[s]]
    BY <1>1, <1>2
  <2>2. P.life # "up"
    BY <1>3
  <2> QED
    BY <1>3, <1>4, <1>5, <2>1, <2>2, TakeoversStand
<1> QED
  BY <1>6, <1>7

\* Nobody begins a handoff while its last one stands.
LEMMA BeginStands ==
    ASSUME RetireFirst, Shape, Takeovers,
           NEW s \in Handoffs, NEW p \in Processes, NEW f \in Flows, Begin(s, p, f)
    PROVE  Takeovers'
<1>1. /\ handoff[s].phase = "none" /\ proc[p].life = "up"
      /\ \A q \in Handoffs : handoff[q].pred = p => Settled(q)
      /\ proc' = proc
  BY DEF Begin, RetireFirst
<1>2. PICK h : h = [Unused EXCEPT !.phase = "launching", !.pred = p, !.flow = f,
                                  !.ctl = "launching", !.previous = disk]
  OBVIOUS
<1>3. h.phase = "launching" /\ h.pred = p
  BY <1>2 DEF Unused
<1>4. handoff \in [Handoffs -> HandoffRecord] /\ handoff' = [handoff EXCEPT ![s] = h]
  BY <1>2 DEF Begin, Shape, TypeOK
<1>5. handoff'[s] = h /\ \A q \in Handoffs : q # s => handoff'[q] = handoff[q]
  BY <1>4
<1>6. \A q \in Handoffs : q # s => (Driving(q)' <=> Driving(q))
  BY <1>1, <1>5 DEF Driving, Settled, Running
<1>7. ASSUME NEW r \in Handoffs, r # s, handoff[r].phase \in {"quiesced", "accepted"}
      PROVE  Stands(r)'
  <2>1. Stands(r) /\ handoff'[r] = handoff[r]
    BY <1>5, <1>7 DEF Takeovers
  <2>2. handoff[r].pred # p
    <3>1. SUFFICES ASSUME handoff[r].pred = p PROVE FALSE
      OBVIOUS
    <3>2. Settled(r) /\ Running(p)
      BY <1>1, <3>1 DEF Running
    <3>3. handoff[r].ctl = "settled"
      BY <1>7, <2>1, <3>1, <3>2 DEF Stands, Settled
    <3> QED
      BY <1>1, <1>7, <2>1, <3>1, <3>3 DEF Stands
  <2>3. \A q \in Handoffs : handoff'[q].pred = handoff[r].pred /\ Driving(q)' => q = r
    BY <1>3, <1>5, <1>6, <1>7, <2>1, <2>2 DEF Stands
  <2>4. Running(r)' <=> Running(r)
    BY <1>1 DEF Running
  <2>5. Owns(r) => Owns(r)'
    <3>1. \A q \in Handoffs : handoff[q].phase # "none" => handoff'[q] = handoff[q]
      BY <1>1, <1>5
    <3> QED
      BY <1>1, <3>1 DEF Owns
  <2> QED
    BY <1>1, <1>7, <2>1, <2>3, <2>4, <2>5 DEF Stands
<1>8. ASSUME NEW r \in Handoffs PROVE Stands(r)'
  <2>1. CASE r = s
    BY <1>3, <1>5, <2>1 DEF Stands
  <2>2. CASE r # s
    BY <1>5, <1>7, <2>2 DEF Stands
  <2> QED
    BY <2>1, <2>2
<1>9. \A x \in Processes : Walks(proc'[x])
  BY <1>1 DEF Takeovers
<1> QED
  BY <1>8, <1>9 DEF Takeovers

LEMMA InitTakeovers ==
    ASSUME Init
    PROVE  Takeovers
<1>1. \A r \in Handoffs : handoff[r].phase = "none"
  BY DEF Init, Unused
<1>2. \A r \in Handoffs : Stands(r)
  BY <1>1 DEF Stands
<1>3. ASSUME NEW p \in Processes
      PROVE  proc[p].pc = "owner" \/ (proc[p].pc = "boot" /\ proc[p].activated = {})
  BY DEF Init, Unborn
<1>4. \A p \in Processes : Walks(proc[p])
  BY <1>3 DEF Walks
<1> QED
  BY <1>2, <1>4 DEF Takeovers

LEMMA NextTakeovers ==
    ASSUME RetireFirst, Shape, Takeovers, [Next]_vars
    PROVE  Takeovers'
<1>1. CASE \E r \in Handoffs, p \in Processes, f \in Flows : Begin(r, p, f)
  BY <1>1, BeginStands
<1>2. ASSUME NEW r \in Handoffs, Predecessor(r) PROVE Takeovers'
  <2>1. ~QuiesceFails(r)
    <3>1. SUFFICES ASSUME QuiesceFails(r) PROVE FALSE
      OBVIOUS
    <3>2. handoff[r].call.op = "quiesce"
      BY <3>1, DrivenByMission DEF QuiesceFails, Orderly
    <3> QED
      BY <3>1, <3>2 DEF QuiesceFails, Threw
  <2>2. ~Restore(r)
    BY DrivenByMission DEF Restore, Orderly
  <2> QED
    BY <1>2, <2>1, <2>2, PredecessorStands, PredecessorWalkStands, ReleaseStands,
       GiveUpStands, StopStands, RetireStands, SpawnStands DEF Predecessor
<1>3. ASSUME NEW r \in Handoffs, Successor(r) PROVE Takeovers'
  BY <1>3, SuccessorStands, SuccessorWalkStands, AcceptStands DEF Successor
<1>4. CASE \E p \in Processes : Exit(p) \/ Crash(p)
  BY <1>4, EndStands
<1>5. CASE UNCHANGED vars
  <2>1. handoff' = handoff /\ proc' = proc
    BY <1>5 DEF vars
  <2>2. \A q \in Handoffs : Driving(q)' <=> Driving(q)
    BY <2>1 DEF Driving, Settled, Running
  <2>3. \A r \in Handoffs : (Running(r)' <=> Running(r)) /\ (Owns(r)' <=> Owns(r))
    BY <2>1 DEF Running, Owns
  <2>4. \A r \in Handoffs : Stands(r)'
    BY <2>1, <2>2, <2>3 DEF Takeovers, Stands
  <2> QED
    BY <2>1, <2>4 DEF Takeovers
<1> QED
  BY <1>1, <1>2, <1>3, <1>4, <1>5 DEF Next

LEMMA StandingIsComplete ==
    ASSUME Takeovers
    PROVE  AcceptedOwnerComplete
BY DEF Takeovers, Stands, Owns, AcceptedOwnerComplete

\* While a takeover stands accepted nothing is left out and nothing runs twice:
\* the predecessor has let go of every participant and the successor runs them
\* all, unless it has ended or handed over in its turn.
THEOREM TakeoverSafety ==
    ASSUME RetireFirst
    PROVE  Spec => []AcceptedOwnerComplete
<1>1. Init => IInv /\ Takeovers
  BY InitIInv, InitTakeovers
<1>2. IInv /\ Takeovers /\ [Next]_vars => IInv' /\ Takeovers'
  BY NextIInv, NextTakeovers DEF IInv
<1>3. Takeovers => AcceptedOwnerComplete
  BY StandingIsComplete
<1> QED
  BY <1>1, <1>2, <1>3, PTL DEF Spec

-----------------------------------------------------------------------------
(* The service survives.                                                   *)

\* A process in charge is followed from handoff to handoff: a failed one
\* leaves it with everything it had, an accepted one passes the charge on.
\* The handoffs this part is about: one at a time in each process, of either
\* flow, whose participants may refuse to stop but not to start.
Survivable == Serial /\ "activate" \notin FaultKinds

Runs(P) == P.life \in {"up", "terminating"}
Over(h) == h.ctl \in {"none", "settled"}

\* A successor that was not released, and takes nothing over.
Idles(h, P) == /\ P.pc \in {"boot", "waiting", "cleaning", "exiting"}
               /\ h.phase \notin {"quiesced", "accepted"}

\* Where the successor P is, given its handoff h.
Stage(h, P) ==
    /\ h.ctl = "none" <=> h.phase = "none"
    /\ h.ctl = "none" => P = Unborn
    /\ h.ctl \in {"launching", "replying", "quiescing"} =>
          h.phase \notin {"quiesced", "accepted"}
    /\ h.ctl \in {"launching", "replying", "quiescing", "restoring"} => ~Runs(P) \/ Idles(h, P)
    /\ h.ctl \notin {"reaping", "settled"} => P.life # "terminating"
    /\ h.ctl = "settled" => ~Runs(P) \/ Idles(h, P) \/ P.pc = "owner"
    /\ Runs(P) /\ P.pc \in {"boot", "waiting"} =>
          P.active = {} /\ P.quiesced = {} /\ P.activated = {}
    /\ Runs(P) /\ P.pc = "activating" =>
          /\ P.call.op = "activate" /\ ~P.call.bad /\ P.quiesced = {}
          /\ P.activated = P.active /\ Participants \subseteq P.call.todo \cup P.active
    /\ h.ctl = "waiting" /\ h.phase = "accepted" =>
          /\ P.life = "up" /\ P.pc = "owner" /\ P.active = Participants /\ P.quiesced = {}
    /\ h.ctl = "resuming" /\ h.flow # "settings" => ~Runs(P)

\* What its predecessor C holds, and the settings d on disk, while C drives
\* handoff r: everything C stopped it remembers, and the call that starts it
\* again will come to it.
Drives(r, h, P, C, d) ==
    /\ IF h.flow = "settings" THEN d = r /\ h.previous = C.config ELSE d = C.config
    /\ Runs(P) => P.config = d
    /\ h.ctl = "restoring" => h.flow = "settings"
    /\ h.ctl \in {"launching", "replying", "quiescing"} => ~h.holds
    /\ h.flow = "settings" /\ h.ctl \in {"retiring", "reaping", "restoring"} => ~h.holds
    /\ ~h.holds /\ h.ctl # "quiescing" => C.quiesced = {}
    /\ h.ctl = "quiescing" => /\ h.call.op \in {"quiesce", "restore"}
                              /\ C.quiesced \subseteq h.call.newly
                              /\ h.call.op = "restore" => C.quiesced \subseteq h.call.todo
    /\ h.ctl = "resuming" => /\ h.call.op = "resume" /\ ~h.call.bad
                             /\ C.quiesced \subseteq h.call.todo

\* C is in charge: it runs what it has not stopped.
Leads(C) == C.life = "up" /\ C.pc = "owner" /\ C.active = Participants \ C.quiesced

\* p looks like a process in charge: an owner whose own takeover is over.
Owner(p) == /\ proc[p].life = "up" /\ proc[p].pc = "owner"
            /\ p \in Handoffs => Over(handoff[p])

\* c is the only process in charge, and the only one that drives a handoff.
Head(c) ==
    /\ Owner(c) /\ Leads(proc[c])
    /\ \A p \in Processes : Owner(p) => p = c
    /\ \A r \in Handoffs : ~Over(handoff[r]) =>
          /\ handoff[r].pred = c
          /\ Drives(r, handoff[r], proc[r], proc[c], disk)
          /\ \A q \in Handoffs : ~Over(handoff[q]) => q = r
    /\ (\A r \in Handoffs : Over(handoff[r])) =>
          proc[c].quiesced = {} /\ proc[c].config = disk

Staged == /\ Runs(proc[0]) => proc[0].pc = "owner"
          /\ \A r \in Handoffs : Stage(handoff[r], proc[r])

Led == Staged /\ \E c \in Processes : Head(c)

Survival == TypeOK /\ (Crashed \/ Led)

\* The process in charge had its own takeover settled.
LEMMA HeadSettled ==
    ASSUME Staged, NEW c \in Processes, Head(c), c \in Handoffs
    PROVE  handoff[c].ctl = "settled" /\ proc[c].pc = "owner"
BY DEF Staged, Head, Owner, Over, Stage, Unborn

\* An owner stays at its stage whatever it stops or starts, and when it ends.
LEMMA OwnerStaged ==
    ASSUME NEW h, NEW P, NEW Q, Stage(h, P), h.ctl = "settled", Q.pc = "owner"
    PROVE  Stage(h, Q)
BY DEF Stage

LEMMA HandoffsAreProcesses ==
    ASSUME NEW r \in Handoffs
    PROVE  r \in Processes /\ r # 0
BY HandoffAssumption DEF Handoffs, Processes

\* A step of the handoff that c drives.
LEMMA DriveContinues ==
    ASSUME TypeOK, Staged, NEW c \in Processes, Head(c),
           NEW r \in Handoffs, ~Over(handoff[r]),
           \A q \in Handoffs : q # r => handoff'[q] = handoff[q],
           \A p \in Processes : p # r /\ p # c => proc'[p] = proc[p],
           disk' = disk,
           ~Over(handoff'[r]), handoff'[r].pred = c,
           Stage(handoff'[r], proc'[r]), Leads(proc'[c]),
           Drives(r, handoff'[r], proc'[r], proc'[c], disk)
    PROVE  Led'
<1>1. c # r /\ r \in Processes /\ r # 0
  BY HeadSettled, HandoffsAreProcesses DEF Over
<1>2. \A q \in Handoffs : q # r => Over(handoff[q])
  BY DEF Head
<1>3. Staged'
  <2>1. Runs(proc'[0]) => proc'[0].pc = "owner"
    <3>1. 0 \in Processes
      BY HandoffAssumption DEF Processes
    <3> QED
      BY <1>1, <3>1 DEF Staged, Leads
  <2>2. ASSUME NEW q \in Handoffs PROVE Stage(handoff'[q], proc'[q])
    <3>1. CASE q = r
      BY <3>1
    <3>2. CASE q # r /\ q # c
      <4>1. handoff'[q] = handoff[q] /\ proc'[q] = proc[q]
        BY <3>2, HandoffsAreProcesses
      <4> QED
        BY <4>1 DEF Staged
    <3>3. CASE q = c
      <4>1. handoff'[q] = handoff[q] /\ handoff[q].ctl = "settled"
        BY <1>1, <3>3, HeadSettled
      <4>2. Stage(handoff[q], proc[q]) /\ proc'[q].pc = "owner"
        BY <3>3 DEF Staged, Leads
      <4> QED
        BY <4>1, <4>2, OwnerStaged
    <3> QED
      BY <3>1, <3>2, <3>3
  <2> QED
    BY <2>1, <2>2 DEF Staged
<1>4. Owner(c)'
  BY <1>1, <1>2 DEF Owner, Leads
<1>5. ASSUME NEW p \in Processes, Owner(p)' PROVE p = c
  <2>1. SUFFICES ASSUME p # c PROVE FALSE
    OBVIOUS
  <2>2. p # r
    BY <1>5 DEF Owner
  <2>3. Owner(p)
    BY <1>2, <1>5, <2>1, <2>2 DEF Owner
  <2> QED
    BY <2>1, <2>3 DEF Head
<1>6. ASSUME NEW q \in Handoffs, ~Over(handoff'[q]) PROVE q = r
  BY <1>2, <1>6
<1>7. Head(c)'
  BY <1>4, <1>5, <1>6 DEF Head
<1> QED
  BY <1>3, <1>7 DEF Led

\* The handoff that c drives comes to its end, and c keeps the charge.
LEMMA DriveEnds ==
    ASSUME TypeOK, Staged, NEW c \in Processes, Head(c),
           NEW r \in Handoffs, ~Over(handoff[r]),
           \A q \in Handoffs : q # r => handoff'[q] = handoff[q],
           proc' = proc,
           handoff'[r].ctl = "settled", handoff'[r].phase # "none",
           ~Runs(proc[r]) \/ Idles(handoff'[r], proc[r]),
           proc[c].quiesced = {}, proc[c].config = disk'
    PROVE  Led'
<1>1. c # r /\ r \in Processes /\ r # 0
  BY HeadSettled, HandoffsAreProcesses DEF Over
<1>2. \A q \in Handoffs : q # r => Over(handoff[q])
  BY DEF Head
<1>3. \A q \in Handoffs : Over(handoff'[q])
  BY <1>2 DEF Over
<1>4. Staged'
  <2>1. Stage(handoff[r], proc[r])
    BY DEF Staged
  <2>2. Stage(handoff'[r], proc[r])
    BY <2>1 DEF Stage
  <2> QED
    BY <2>2 DEF Staged
<1>5. ASSUME NEW p \in Processes, Owner(p)' PROVE p = c
  <2>1. p # r
    BY <1>5 DEF Owner, Runs, Idles
  <2>2. Owner(p)
    BY <1>2, <1>5, <2>1 DEF Owner
  <2> QED
    BY <2>2 DEF Head
<1>6. Owner(c)'
  BY <1>1 DEF Head, Owner
<1>7. Head(c)'
  BY <1>3, <1>5, <1>6 DEF Head
<1> QED
  BY <1>4, <1>7 DEF Led

\* A process whose takeover is over, and which is not in charge, goes its way.
LEMMA BystanderMoves ==
    ASSUME TypeOK, Staged, NEW c \in Processes, Head(c), NEW p \in Processes, p # c,
           \A q \in Handoffs : q # p => handoff'[q] = handoff[q],
           \A q \in Processes : q # p => proc'[q] = proc[q],
           disk' = disk,
           p \in Handoffs => /\ Over(handoff[p]) /\ Over(handoff'[p])
                             /\ Stage(handoff'[p], proc'[p]),
           p = 0 => ~Runs(proc'[p]),
           ~(proc'[p].life = "up" /\ proc'[p].pc = "owner")
    PROVE  Led'
<1>1. Staged'
  <2>1. 0 \in Processes
    BY HandoffAssumption DEF Processes
  <2>2. Runs(proc'[0]) => proc'[0].pc = "owner"
    BY <2>1 DEF Staged
  <2>3. ASSUME NEW q \in Handoffs PROVE Stage(handoff'[q], proc'[q])
    BY HandoffsAreProcesses DEF Staged
  <2> QED
    BY <2>2, <2>3 DEF Staged
<1>2. proc'[c] = proc[c] /\ (c \in Handoffs => handoff'[c] = handoff[c])
  OBVIOUS
<1>3. Owner(c)'
  BY <1>2 DEF Head, Owner
<1>4. ASSUME NEW q \in Processes, Owner(q)' PROVE q = c
  <2>1. q # p
    BY <1>4 DEF Owner
  <2>2. Owner(q)
    BY <1>4, <2>1 DEF Owner
  <2> QED
    BY <2>2 DEF Head
<1>5. \A q \in Handoffs : ~Over(handoff'[q]) => /\ ~Over(handoff[q]) /\ handoff'[q] = handoff[q]
                                               /\ proc'[q] = proc[q]
  BY HandoffsAreProcesses
<1>6. \A q \in Handoffs : Over(handoff'[q]) => Over(handoff[q])
  OBVIOUS
<1>7. Head(c)'
  BY <1>2, <1>3, <1>4, <1>5, <1>6 DEF Head
<1> QED
  BY <1>1, <1>7 DEF Led

\* What one step of a call leads to when nothing refuses to start: the
\* participant obeys, or it refuses to stop, or a failed quiesce turns back.
LEMMA RefusalShape ==
    ASSUME NEW k \in Coordination, NEW P \in ProcessRecord, NEW o \in Outcomes(k, P),
           o.fault # "activate"
    PROVE  \/ /\ Eligible(k, P) # {}
              /\ o.proc = Obeyed(k, P, Visited(k, P))
              /\ o.call.op = k.op /\ o.call.bad = k.bad
              /\ o.call.todo = Later(k, Visited(k, P))
              /\ o.call.newly = IF k.op \in {"quiesce", "activate"}
                                THEN k.newly \cup {Visited(k, P)} ELSE k.newly
           \/ /\ Eligible(k, P) # {} /\ Stops(k)
              /\ o.proc \in Refused(k, P, Visited(k, P))
              /\ o.call.op = k.op /\ o.call.newly = k.newly
           \/ /\ k.op = "quiesce" /\ o.proc = P
              /\ o.call.op = "restore" /\ o.call.todo = k.newly /\ o.call.newly = k.newly
<1> DEFINE x == Visited(k, P)
           newly == IF k.op \in {"quiesce", "activate"} THEN k.newly \cup {x} ELSE k.newly
           walk == [k EXCEPT !.todo = Later(k, x)]
           done == [walk EXCEPT !.newly = newly]
           hurt == [walk EXCEPT !.bad = TRUE]
           undo == [k EXCEPT !.op = "restore"]
           back == [undo EXCEPT !.todo = k.newly]
<1>1. \/ Eligible(k, P) # {} /\ o.call = done /\ o.proc = Obeyed(k, P, x)
      \/ Eligible(k, P) # {} /\ Stops(k) /\ o.call = hurt /\ o.proc \in Refused(k, P, x)
      \/ k.op = "quiesce" /\ o.call = back /\ o.proc = P
  BY DEF Outcomes, Stops, Coordination
<1> HIDE DEF x
<1>2. /\ walk.op = k.op /\ walk.todo = Later(k, x) /\ walk.newly = k.newly /\ walk.bad = k.bad
      /\ undo.op = "restore" /\ undo.newly = k.newly
      /\ DOMAIN walk = {"op", "todo", "newly", "bad"}
      /\ DOMAIN undo = {"op", "todo", "newly", "bad"}
  BY DEF Coordination
<1> HIDE DEF walk, undo, newly
<1>3. /\ done.op = k.op /\ done.todo = Later(k, x) /\ done.newly = newly /\ done.bad = k.bad
      /\ hurt.op = k.op /\ hurt.newly = k.newly
      /\ back.op = "restore" /\ back.todo = k.newly /\ back.newly = k.newly
  BY <1>2
<1> HIDE DEF done, hurt, back
<1> QED
  BY <1>1, <1>3 DEF x, newly

\* A process in charge remembers everything it stops, and the call that
\* starts it again comes to all of it.
LEMMA LeaderWalks ==
    ASSUME "activate" \notin FaultKinds, NEW k \in Coordination, NEW C \in ProcessRecord,
           Leads(C), NEW o \in Outcomes(k, C), o.fault # "activate",
           k.op \in {"quiesce", "restore", "resume"},
           k.op # "resume" => C.quiesced \subseteq k.newly,
           k.op # "quiesce" => C.quiesced \subseteq k.todo
    PROVE  /\ o.proc.config = C.config /\ Leads(o.proc)
           /\ k.op = "resume" => o.call.op = "resume" /\ o.call.bad = k.bad
           /\ k.op # "resume" => /\ o.call.op \in {"quiesce", "restore"}
                                 /\ o.proc.quiesced \subseteq o.call.newly
           /\ o.call.op # "quiesce" => o.proc.quiesced \subseteq o.call.todo
<1> DEFINE x == Visited(k, C)
<1>1. CASE /\ Eligible(k, C) # {}
           /\ o.proc = Obeyed(k, C, x)
           /\ o.call.op = k.op /\ o.call.bad = k.bad
           /\ o.call.todo = Later(k, x)
           /\ o.call.newly = IF k.op \in {"quiesce", "activate"}
                             THEN k.newly \cup {x} ELSE k.newly
  <2>1. x \in Participants /\ x \in Eligible(k, C)
          /\ (~Stops(k) => \A y \in Eligible(k, C) : x <= y)
    BY <1>1, VisitedEligible
  <2> HIDE DEF x
  <2>2. /\ o.proc.life = C.life /\ o.proc.pc = C.pc /\ o.proc.config = C.config
        /\ o.proc.active = IF Stops(k) THEN C.active \ {x} ELSE C.active \cup {x}
        /\ o.proc.quiesced = CASE k.op = "quiesce"               -> C.quiesced \cup {x}
                               [] k.op \in {"restore", "resume"} -> C.quiesced \ {x}
                               [] OTHER                          -> C.quiesced
    <3> DEFINE R == Obeyed(k, C, x)
    <3>1. /\ R.life = C.life /\ R.pc = C.pc /\ R.config = C.config
          /\ R.active = IF Stops(k) THEN C.active \ {x} ELSE C.active \cup {x}
          /\ R.quiesced = CASE k.op = "quiesce"               -> C.quiesced \cup {x}
                             [] k.op \in {"restore", "resume"} -> C.quiesced \ {x}
                             [] OTHER                          -> C.quiesced
      <4>1. x \in Participants
        BY <2>1
      <4> QED
        BY <4>1, ObeyedShape
    <3>2. o.proc = R
      BY <1>1
    <3> QED
      BY <3>1, <3>2
  <2>3. C.quiesced \subseteq Participants /\ k.todo \subseteq Participants
    BY DEF ProcessRecord, Coordination
  <2>4. Leads(o.proc)
    <3>1. CASE k.op = "quiesce"
      <4>1. /\ o.proc.active = C.active \ {x} /\ o.proc.quiesced = C.quiesced \cup {x}
        BY <2>2, <3>1 DEF Stops
      <4> QED
        BY <2>2, <4>1 DEF Leads
    <3>2. CASE k.op # "quiesce"
      <4>1. /\ o.proc.active = C.active \cup {x} /\ o.proc.quiesced = C.quiesced \ {x}
        BY <2>2, <3>2 DEF Stops
      <4> QED
        BY <2>1, <2>2, <4>1 DEF Leads
    <3> QED
      BY <3>1, <3>2
  <2>5. k.op # "resume" => o.proc.quiesced \subseteq o.call.newly
    BY <1>1, <2>2
  <2>6. ASSUME k.op # "quiesce", NEW y \in o.proc.quiesced PROVE y \in Later(k, x)
    <3>1. y \in C.quiesced /\ y # x /\ y \in k.todo /\ ~Stops(k)
      BY <2>2, <2>6 DEF Stops
    <3>2. y \in Eligible(k, C)
      BY <2>6, <3>1 DEF Eligible
    <3>3. x <= y /\ x \in Int /\ y \in Int
      BY <2>1, <2>3, <3>1, <3>2 DEF Participants
    <3> QED
      BY <3>1, <3>3 DEF Later
  <2> QED
    BY <1>1, <2>2, <2>4, <2>5, <2>6
<1>2. CASE /\ Eligible(k, C) # {} /\ Stops(k)
           /\ o.proc \in Refused(k, C, x)
           /\ o.call.op = k.op /\ o.call.newly = k.newly
  <2>1. x \in Participants /\ x \in Eligible(k, C)
    BY <1>2, VisitedEligible
  <2>2. k.op = "quiesce"
    BY <1>2 DEF Stops
  <2>3. x \in C.active
    BY <2>1, <2>2 DEF Eligible, Leads
  <2>4. o.proc = [C EXCEPT !.active = C.active \cup {x}]
    BY <1>2, <2>2 DEF Refused
  <2> HIDE DEF x
  <2>5. C.active \cup {x} = C.active
    BY <2>3
  <2>6. o.proc = C
    BY <2>4, <2>5 DEF ProcessRecord
  <2> QED
    BY <1>2, <2>2, <2>6
<1>3. CASE /\ k.op = "quiesce" /\ o.proc = C
           /\ o.call.op = "restore" /\ o.call.todo = k.newly /\ o.call.newly = k.newly
  BY <1>3
<1> QED
  BY <1>1, <1>2, <1>3, RefusalShape

\* A successor whose participants do not refuse activates them one by one.
LEMMA StarterWalks ==
    ASSUME NEW k \in Coordination, k.op = "activate", ~k.bad,
           NEW P \in ProcessRecord, P.quiesced = {}, P.activated = P.active,
           Participants \subseteq k.todo \cup P.active,
           NEW o \in Outcomes(k, P), o.fault # "activate"
    PROVE  /\ o.call.op = "activate" /\ ~o.call.bad
           /\ o.proc.quiesced = {} /\ o.proc.activated = o.proc.active
           /\ Participants \subseteq o.call.todo \cup o.proc.active
<1> DEFINE x == Visited(k, P)
<1>1. /\ Eligible(k, P) # {}
      /\ o.proc = Obeyed(k, P, x)
      /\ o.call.op = k.op /\ o.call.bad = k.bad
  BY RefusalShape DEF Stops
<1>2. x \in Participants
  BY <1>1, VisitedEligible
<1> HIDE DEF x
<1>3. /\ o.proc.active = P.active \cup {x} /\ o.proc.quiesced = {}
      /\ o.proc.activated = P.activated \cup {x}
  <2> DEFINE R == Obeyed(k, P, x)
  <2>1. /\ R.active = IF Stops(k) THEN P.active \ {x} ELSE P.active \cup {x}
        /\ R.quiesced = CASE k.op = "quiesce"               -> P.quiesced \cup {x}
                           [] k.op \in {"restore", "resume"} -> P.quiesced \ {x}
                           [] OTHER                          -> P.quiesced
        /\ R.activated = P.activated \cup {x}
    BY <1>2, ObeyedShape
  <2>2. o.proc = R /\ ~Stops(k)
    BY <1>1 DEF Stops
  <2> QED
    BY <2>1, <2>2
<1>4. Participants \subseteq o.call.todo \cup o.proc.activated
  BY <1>1, ActivationWalks
<1> QED
  BY <1>1, <1>3, <1>4

\* Nothing refuses to start.
LEMMA StartsAreMade ==
    ASSUME "activate" \notin FaultKinds, NEW kind, Pay(kind)
    PROVE  kind # "activate"
BY DEF Pay, Fault

-----------------------------------------------------------------------------
(* The successor's steps.                                                  *)

\* What a successor's step leaves of its handoff.
SamePath(g, h) == /\ g.ctl = h.ctl /\ g.pred = h.pred /\ g.flow = h.flow
                  /\ g.holds = h.holds /\ g.previous = h.previous /\ g.call = h.call

\* A successor on its way, not in charge yet.
LEMMA OnTheWay ==
    ASSUME TypeOK, Staged, NEW c \in Processes, Head(c),
           NEW r \in Handoffs, NEW s, Starts(r, s), s # "owner"
    PROVE  /\ r \in Processes /\ r # c /\ r # 0
           /\ handoff[r] \in HandoffRecord /\ proc[r] \in ProcessRecord
           /\ proc[r].call \in Coordination
           /\ Stage(handoff[r], proc[r]) /\ Runs(proc[r]) /\ proc[r].pc = s
           /\ handoff[r].ctl # "none" /\ handoff[r].phase # "none"
<1>1. r \in Processes /\ r # 0
  BY HandoffsAreProcesses
<1>2. handoff[r] \in HandoffRecord /\ proc[r] \in ProcessRecord /\ proc[r].call \in Coordination
  BY <1>1 DEF TypeOK, ProcessRecord
<1>3. Stage(handoff[r], proc[r]) /\ Runs(proc[r]) /\ proc[r].pc = s
  BY DEF Staged, Starts, Running, Runs
<1>4. r # c
  BY <1>3 DEF Head, Leads
<1>5. handoff[r].ctl # "none"
  BY <1>3 DEF Stage, Runs, Unborn
<1> QED
  BY <1>1, <1>2, <1>3, <1>4, <1>5 DEF Stage

LEMMA SuccessorKeeps ==
    ASSUME TypeOK, Staged, NEW c \in Processes, Head(c),
           NEW r \in Handoffs, NEW s, Starts(r, s), s # "owner",
           \A q \in Handoffs : q # r => handoff'[q] = handoff[q],
           \A p \in Processes : p # r => proc'[p] = proc[p],
           disk' = disk, SamePath(handoff'[r], handoff[r]),
           proc'[r].config = proc[r].config, proc'[r].life = proc[r].life,
           Stage(handoff'[r], proc'[r]),
           Over(handoff[r]) => proc'[r].pc # "owner"
    PROVE  Led'
<1>1. r \in Processes /\ r # c /\ r # 0 /\ Runs(proc[r])
  BY OnTheWay
<1>2. CASE Over(handoff[r])
  <2>1. Over(handoff'[r])
    BY <1>2 DEF Over, SamePath
  <2> QED
    BY <1>1, <1>2, <2>1, BystanderMoves
<1>3. CASE ~Over(handoff[r])
  <2>1. handoff[r].pred = c /\ Drives(r, handoff[r], proc[r], proc[c], disk) /\ Leads(proc[c])
    BY <1>3 DEF Head
  <2>2. proc'[c] = proc[c]
    BY <1>1
  <2>3. ~Over(handoff'[r]) /\ handoff'[r].pred = c
    BY <1>3, <2>1 DEF Over, SamePath
  <2>4. Drives(r, handoff'[r], proc'[r], proc'[c], disk)
    BY <1>1, <2>1, <2>2 DEF Drives, Runs, SamePath
  <2> QED
    BY <1>3, <2>1, <2>2, <2>3, <2>4, DriveContinues
<1> QED
  BY <1>2, <1>3

\* A successor that gives up.
LEMMA GivingUp ==
    ASSUME NEW h, NEW g, NEW P, NEW Q, Stage(h, P), Runs(P),
           P.pc \in {"boot", "waiting", "activating", "cleaning"},
           h.phase # "none", h.ctl # "none", SamePath(g, h),
           Q.pc \in {"cleaning", "exiting"}, Q.life = P.life,
           g.phase \in {h.phase, "failed"}
    PROVE  Stage(g, Q)
BY DEF Stage, SamePath, Runs, Idles

LEMMA SuccessorSurvives ==
    ASSUME Survivable, TypeOK, Staged, NEW c \in Processes, Head(c),
           NEW r \in Handoffs, Successor(r)
    PROVE  Led'
<1> DEFINE h == handoff[r]
           P == proc[r]
<1> SUFFICES ASSUME NEW s \in {"boot", "waiting", "activating", "cleaning"}, Starts(r, s)
             PROVE  Led'
  BY DEF Successor, Ready, BootFails, TakeOver, ReleaseFails, SuccessorCall, ActivateFails,
         Accept, Reject
<1>1. /\ r \in Processes /\ r # c
      /\ h \in HandoffRecord /\ P \in ProcessRecord /\ P.call \in Coordination
      /\ Stage(h, P) /\ Runs(P) /\ P.pc = s /\ h.ctl # "none" /\ h.phase # "none"
  BY OnTheWay
<1>2. handoff \in [Handoffs -> HandoffRecord] /\ proc \in [Processes -> ProcessRecord]
  BY DEF TypeOK
<1>3. SamePath(h, h)
  BY DEF SamePath
<1>4. ASSUME NEW phase, handoff' = [handoff EXCEPT ![r].phase = phase]
      PROVE  /\ \A q \in Handoffs : q # r => handoff'[q] = handoff[q]
             /\ SamePath(handoff'[r], h)
             /\ handoff'[r].phase = phase
  BY <1>1, <1>2, <1>4 DEF SamePath, HandoffRecord
<1>5. ASSUME NEW Q, proc' = [proc EXCEPT ![r] = Q]
      PROVE  proc'[r] = Q /\ \A p \in Processes : p # r => proc'[p] = proc[p]
  BY <1>1, <1>2, <1>5
<1>6. /\ Cleaning(P).pc = "cleaning" /\ Cleaning(P).life = P.life
      /\ Cleaning(P).config = P.config
  BY <1>1, CleaningShape
<1>7. CASE Ready(r)
  <2> DEFINE Q == [P EXCEPT !.pc = "waiting"]
  <2>1. Q.pc = "waiting" /\ Q.life = P.life /\ Q.config = P.config /\ Q.active = P.active
          /\ Q.quiesced = P.quiesced /\ Q.activated = P.activated
    BY <1>1 DEF ProcessRecord
  <2>2. proc' = [proc EXCEPT ![r] = Q]
    BY <1>1, <1>2, <1>7 DEF Ready
  <2> HIDE DEF Q
  <2>3. s = "boot" /\ disk' = disk /\ h.phase = "launching"
          /\ handoff' = [handoff EXCEPT ![r].phase = "ready"]
    BY <1>1, <1>7 DEF Ready, Starts
  <2>4. SamePath(handoff'[r], h) /\ handoff'[r].phase = "ready"
    BY <1>4, <2>3
  <2>5. Stage(handoff'[r], Q)
    BY <1>1, <2>1, <2>3, <2>4 DEF Stage, SamePath, Runs, Idles
  <2>20. /\ \A q \in Handoffs : q # r => handoff'[q] = handoff[q]
        /\ SamePath(handoff'[r], h)
    BY <1>4, <2>3
  <2> QED
    BY <2>20, <1>5, <2>1, <2>2, <2>3, <2>4, <2>5, SuccessorKeeps
<1>8. CASE BootFails(r)
  <2> DEFINE Q == [P EXCEPT !.pc = "exiting"]
  <2>1. Q.pc = "exiting" /\ Q.life = P.life /\ Q.config = P.config
    BY <1>1 DEF ProcessRecord
  <2>2. PICK R \in {Q, Cleaning(P)} : proc' = [proc EXCEPT ![r] = R]
    BY <1>8 DEF BootFails
  <2> HIDE DEF Q
  <2>3. R.pc \in {"cleaning", "exiting"} /\ R.life = P.life /\ R.config = P.config
    BY <1>6, <2>1, <2>2
  <2>4. handoff' = handoff /\ disk' = disk
    BY <1>8 DEF BootFails
  <2>5. Stage(h, R)
    BY <1>1, <1>3, <2>3, GivingUp
  <2> QED
    BY <1>3, <1>5, <2>2, <2>3, <2>4, <2>5, SuccessorKeeps
<1>9. CASE TakeOver(r)
  <2> DEFINE A == [P EXCEPT !.pc = "activating"]
             Q == [A EXCEPT !.call = Call("activate")]
  <2>1. A \in ProcessRecord /\ A.pc = "activating" /\ A.life = P.life /\ A.config = P.config
          /\ A.active = P.active /\ A.quiesced = P.quiesced /\ A.activated = P.activated
    BY <1>1 DEF ProcessRecord
  <2>2. proc' = [proc EXCEPT ![r] = Q]
    BY <1>1, <1>2, <1>9 DEF TakeOver
  <2> HIDE DEF A
  <2>3. Q.pc = "activating" /\ Q.life = P.life /\ Q.config = P.config
          /\ Q.active = P.active /\ Q.quiesced = P.quiesced /\ Q.activated = P.activated
          /\ Q.call = Call("activate")
    BY <2>1 DEF ProcessRecord
  <2> HIDE DEF Q
  <2>4. s = "waiting" /\ disk' = disk /\ handoff' = handoff /\ h.phase \in {"quiesced", "accepted"}
    BY <1>1, <1>9 DEF TakeOver, Starts
  <2>5. Q.active = {} /\ Q.quiesced = {} /\ Q.activated = {}
    BY <1>1, <2>3, <2>4 DEF Stage
  <2>6. /\ h.ctl \notin {"launching", "replying", "quiescing", "restoring", "settled"}
        /\ ~(h.ctl = "waiting" /\ h.phase = "accepted")
    BY <1>1, <2>4 DEF Stage, Idles
  <2>7. Stage(h, Q)
    BY <1>1, <2>3, <2>4, <2>5, <2>6, CallShape DEF Stage, Runs
  <2> QED
    BY <1>3, <1>5, <2>2, <2>3, <2>4, <2>7, SuccessorKeeps
<1>10. CASE ReleaseFails(r)
  <2>1. disk' = disk /\ handoff' = [handoff EXCEPT ![r].phase = "failed"]
          /\ proc' = [proc EXCEPT ![r] = Cleaning(P)]
    BY <1>10 DEF ReleaseFails
  <2>2. Stage(handoff'[r], Cleaning(P))
    BY <1>1, <1>4, <1>6, <2>1, GivingUp
  <2>20. /\ \A q \in Handoffs : q # r => handoff'[q] = handoff[q]
        /\ SamePath(handoff'[r], h)
    BY <1>4, <2>1
  <2> QED
    BY <2>20, <1>5, <1>6, <2>1, <2>2, SuccessorKeeps
<1>11. CASE SuccessorCall(r)
  <2>1. PICK o \in Outcomes(P.call, P) :
           /\ Pay(o.fault)
           /\ proc' = [proc EXCEPT ![r] = [o.proc EXCEPT !.call = o.call]]
    BY <1>11 DEF SuccessorCall
  <2>2. o.fault # "activate" /\ handoff' = handoff /\ disk' = disk
    BY <1>11, <2>1, StartsAreMade DEF SuccessorCall, Survivable
  <2>3. o.proc \in ProcessRecord /\ o.proc.life = P.life /\ o.proc.pc = P.pc
          /\ o.proc.config = P.config
    BY <1>1, OutcomeTypes
  <2> DEFINE Q == [o.proc EXCEPT !.call = o.call]
  <2>4. Q.pc = P.pc /\ Q.life = P.life /\ Q.config = P.config
          /\ Q.active = o.proc.active /\ Q.quiesced = o.proc.quiesced
          /\ Q.activated = o.proc.activated /\ Q.call = o.call
    BY <2>3 DEF ProcessRecord
  <2>5. proc' = [proc EXCEPT ![r] = Q]
    BY <2>1
  <2> HIDE DEF Q
  <2>6. Stage(h, Q)
    <3>1. CASE s = "cleaning"
      BY <1>1, <1>3, <2>4, <3>1, GivingUp
    <3>2. CASE s = "activating"
      <4>1. /\ P.call.op = "activate" /\ ~P.call.bad /\ P.quiesced = {}
            /\ P.activated = P.active /\ Participants \subseteq P.call.todo \cup P.active
        BY <1>1, <3>2 DEF Stage
      <4>2. /\ Q.call.op = "activate" /\ ~Q.call.bad /\ Q.quiesced = {}
            /\ Q.activated = Q.active /\ Participants \subseteq Q.call.todo \cup Q.active
        BY <1>1, <2>2, <2>4, <4>1, StarterWalks
      <4> QED
        BY <1>1, <2>4, <3>2, <4>2 DEF Stage, Runs, Idles
    <3> QED
      BY <1>1, <1>11, <3>1, <3>2 DEF SuccessorCall, Starts
  <2>7. P.pc # "owner"
    BY <1>1
  <2> QED
    BY <1>3, <1>5, <2>2, <2>4, <2>5, <2>6, <2>7, SuccessorKeeps
<1>12. CASE ActivateFails(r)
  <2>1. disk' = disk /\ handoff' = handoff /\ proc' = [proc EXCEPT ![r] = Cleaning(P)]
    BY <1>12 DEF ActivateFails
  <2>2. Stage(h, Cleaning(P))
    BY <1>1, <1>3, <1>6, GivingUp
  <2> QED
    BY <1>3, <1>5, <1>6, <2>1, <2>2, SuccessorKeeps
<1>13. CASE Accept(r)
  <2>1. s = "activating" /\ disk' = disk /\ Returned(P.call, P)
    BY <1>1, <1>13 DEF Accept, Starts
  <2>2. CASE h.phase # "quiesced"
    <3>1. handoff' = [handoff EXCEPT ![r].phase = h.phase]
            /\ proc' = [proc EXCEPT ![r] = Cleaning(P)]
      BY <1>2, <1>13, <2>2 DEF Accept
    <3>2. Stage(handoff'[r], Cleaning(P))
      BY <1>1, <1>4, <1>6, <3>1, GivingUp
    <3> QED
      BY <1>4, <1>5, <1>6, <2>1, <3>1, <3>2, SuccessorKeeps
  <2>3. CASE h.phase = "quiesced"
    <3> DEFINE A == [P EXCEPT !.pc = "owner"]
               Q == [A EXCEPT !.call = NoCall]
    <3>1. A \in ProcessRecord /\ A.pc = "owner" /\ A.life = P.life /\ A.config = P.config
            /\ A.active = P.active /\ A.quiesced = P.quiesced
      BY <1>1 DEF ProcessRecord
    <3>2. proc' = [proc EXCEPT ![r] = Q] /\ handoff' = [handoff EXCEPT ![r].phase = "accepted"]
      BY <1>1, <1>2, <1>13, <2>3 DEF Accept
    <3> HIDE DEF A
    <3>3. Q.pc = "owner" /\ Q.life = P.life /\ Q.config = P.config
            /\ Q.active = P.active /\ Q.quiesced = P.quiesced
      BY <3>1 DEF ProcessRecord
    <3> HIDE DEF Q
    <3>4. /\ P.call.op = "activate" /\ P.quiesced = {} /\ P.activated = P.active
          /\ Participants \subseteq P.call.todo \cup P.active
      BY <1>1, <2>1 DEF Stage
    <3>5. P.active = Participants
      <4>1. P.call.todo \ P.active = {}
        BY <2>1, <3>4 DEF Returned, Eligible
      <4> QED
        BY <1>1, <3>4, <4>1 DEF ProcessRecord
    <3>6. /\ h.ctl \notin {"launching", "replying", "quiescing", "restoring", "settled"}
          /\ h.ctl = "resuming" => h.flow = "settings"
      BY <1>1, <2>1 DEF Stage, Idles
    <3>7. h.ctl = "waiting" => P.life = "up"
      BY <1>1 DEF Stage, Runs
    <3>8. SamePath(handoff'[r], h) /\ handoff'[r].phase = "accepted"
      BY <1>4, <3>2
    <3>9. Stage(handoff'[r], Q)
      BY <1>1, <3>3, <3>4, <3>5, <3>6, <3>7, <3>8 DEF Stage, SamePath, Runs
    <3>10. ~Over(h)
      BY <1>1, <3>6 DEF Over
    <3>20. /\ \A q \in Handoffs : q # r => handoff'[q] = handoff[q]
          /\ SamePath(handoff'[r], h)
      BY <1>4, <3>2
    <3> QED
      BY <3>20, <1>5, <2>1, <3>2, <3>3, <3>8, <3>9, <3>10, SuccessorKeeps
  <2> QED
    BY <2>2, <2>3
<1>14. CASE Reject(r)
  <2> DEFINE A == [P EXCEPT !.pc = "exiting"]
             Q == [A EXCEPT !.call = NoCall]
  <2>1. A \in ProcessRecord /\ A.pc = "exiting" /\ A.life = P.life /\ A.config = P.config
    BY <1>1 DEF ProcessRecord
  <2>2. proc' = [proc EXCEPT ![r] = Q] /\ disk' = disk
    BY <1>1, <1>2, <1>14 DEF Reject
  <2> HIDE DEF A
  <2>3. Q.pc = "exiting" /\ Q.life = P.life /\ Q.config = P.config
    BY <2>1 DEF ProcessRecord
  <2> HIDE DEF Q
  <2>4. PICK phase \in {h.phase, "failed"} : handoff' = [handoff EXCEPT ![r].phase = phase]
    BY <1>14 DEF Reject
  <2>5. Stage(handoff'[r], Q)
    BY <1>1, <1>4, <2>3, <2>4, GivingUp
  <2>20. /\ \A q \in Handoffs : q # r => handoff'[q] = handoff[q]
        /\ SamePath(handoff'[r], h)
    BY <1>4, <2>4
  <2> QED
    BY <2>20, <1>5, <2>2, <2>3, <2>4, <2>5, SuccessorKeeps
<1> QED
  BY <1>7, <1>8, <1>9, <1>10, <1>11, <1>12, <1>13, <1>14 DEF Successor

-----------------------------------------------------------------------------
(* The predecessor's steps.                                                *)

\* A handoff under way, and the process that drives it.
LEMMA Driven ==
    ASSUME TypeOK, Staged, NEW c \in Processes, Head(c),
           NEW r \in Handoffs, NEW s, At(r, s), s \notin {"none", "settled"}
    PROVE  /\ handoff \in [Handoffs -> HandoffRecord] /\ handoff[r] \in HandoffRecord
           /\ proc \in [Processes -> ProcessRecord]
           /\ proc[c] \in ProcessRecord /\ proc[r] \in ProcessRecord
           /\ handoff[r].call \in Coordination
           /\ handoff[r].ctl = s /\ handoff[r].pred = c /\ handoff[r].phase # "none"
           /\ r \in Processes /\ r # c /\ ~Over(handoff[r])
           /\ Stage(handoff[r], proc[r]) /\ Leads(proc[c])
           /\ Drives(r, handoff[r], proc[r], proc[c], disk)
<1>1. handoff[r].ctl = s /\ ~Over(handoff[r])
  BY DEF At, Over
<1>2. r \in Processes /\ r # c
  BY <1>1, HandoffsAreProcesses, HeadSettled DEF Over
<1>3. /\ handoff \in [Handoffs -> HandoffRecord] /\ handoff[r] \in HandoffRecord
      /\ proc \in [Processes -> ProcessRecord]
      /\ proc[c] \in ProcessRecord /\ proc[r] \in ProcessRecord
      /\ handoff[r].call \in Coordination
  BY <1>2 DEF TypeOK, HandoffRecord
<1>4. Stage(handoff[r], proc[r])
  BY DEF Staged
<1> QED
  BY <1>1, <1>2, <1>3, <1>4 DEF Head, Stage

\* The predecessor moves on.
LEMMA PredecessorMoves ==
    ASSUME TypeOK, Staged, NEW c \in Processes, Head(c),
           NEW r \in Handoffs, NEW s, At(r, s), s \notin {"none", "settled"},
           NEW h, handoff' = [handoff EXCEPT ![r] = h], proc' = proc, disk' = disk,
           ~Over(h), h.pred = c, Stage(h, proc[r]), Drives(r, h, proc[r], proc[c], disk)
    PROVE  Led'
<1>1. ~Over(handoff[r]) /\ Leads(proc[c]) /\ handoff \in [Handoffs -> HandoffRecord]
  BY Driven
<1>2. handoff'[r] = h /\ \A q \in Handoffs : q # r => handoff'[q] = handoff[q]
  BY <1>1
<1> QED
  BY <1>1, <1>2, DriveContinues

LEMMA UnlaunchedSurvives ==
    ASSUME TypeOK, Staged, NEW c \in Processes, Head(c),
           NEW r \in Handoffs, At(r, "launching"),
           NEW phase \in {handoff[r].phase, "failed"},
           handoff' = [handoff EXCEPT ![r] = Unlaunched([handoff[r] EXCEPT !.phase = phase])],
           proc' = proc, disk' = disk
    PROVE  Led'
<1> DEFINE h == handoff[r]
           g == [h EXCEPT !.phase = phase]
           u == [g EXCEPT !.ctl = IF g.flow = "settings" THEN "restoring" ELSE "settled"]
<1>1. /\ handoff \in [Handoffs -> HandoffRecord] /\ h \in HandoffRecord
      /\ h.ctl = "launching" /\ h.pred = c /\ h.phase # "none" /\ ~Over(h)
      /\ Stage(h, proc[r]) /\ Leads(proc[c]) /\ Drives(r, h, proc[r], proc[c], disk)
  BY Driven
<1>2. /\ g.pred = c /\ g.flow = h.flow /\ g.holds = h.holds /\ g.previous = h.previous
      /\ g.phase = phase /\ DOMAIN g = DOMAIN h
      /\ DOMAIN h = {"phase", "pred", "flow", "ctl", "holds", "previous", "call"}
  BY <1>1 DEF HandoffRecord
<1>3. handoff' = [handoff EXCEPT ![r] = u]
  BY DEF Unlaunched
<1> HIDE DEF g
<1>4. /\ u.pred = c /\ u.flow = h.flow /\ u.holds = h.holds /\ u.previous = h.previous
      /\ u.phase = phase /\ u.ctl = IF h.flow = "settings" THEN "restoring" ELSE "settled"
  BY <1>2
<1> HIDE DEF u
<1>5. /\ ~Runs(proc[r]) \/ Idles(u, proc[r])
      /\ proc[c].quiesced = {} /\ ~h.holds /\ proc[r].life # "terminating"
      /\ phase # "none"
  BY <1>1, <1>4 DEF Stage, Drives, Idles
<1>6. CASE h.flow = "settings"
  <2>1. Stage(u, proc[r])
    BY <1>1, <1>4, <1>5, <1>6 DEF Stage
  <2>2. Drives(r, u, proc[r], proc[c], disk)
    BY <1>1, <1>4, <1>5, <1>6 DEF Drives
  <2>3. ~Over(u)
    BY <1>4, <1>6 DEF Over
  <2> QED
    BY <1>3, <1>4, <2>1, <2>2, <2>3, PredecessorMoves
<1>7. CASE h.flow # "settings"
  <2>1. proc[c].config = disk
    BY <1>1, <1>7 DEF Drives
  <2>2. handoff'[r] = u /\ \A q \in Handoffs : q # r => handoff'[q] = handoff[q]
    BY <1>1, <1>3
  <2> QED
    BY <1>1, <1>4, <1>5, <1>7, <2>1, <2>2, DriveEnds
<1> QED
  BY <1>6, <1>7

\* Where a failed handoff goes.
LEMMA FailureShape ==
    ASSUME NEW h \in HandoffRecord
    PROVE  /\ AfterFailure(h).pred = h.pred /\ AfterFailure(h).flow = h.flow
           /\ AfterFailure(h).holds = h.holds /\ AfterFailure(h).previous = h.previous
           /\ AfterFailure(h).phase = h.phase
           /\ IF h.flow = "settings" /\ h.holds
              THEN AfterFailure(h).ctl = "resuming" /\ AfterFailure(h).call = Call("resume")
              ELSE AfterFailure(h).ctl = "retiring"
<1> DEFINE a == [h EXCEPT !.ctl = "resuming"]
           b == [h EXCEPT !.ctl = "retiring"]
           d == [a EXCEPT !.call = Call("resume")]
           e == [b EXCEPT !.call = NoCall]
<1>1. AfterFailure(h) = IF h.flow = "settings" /\ h.holds THEN d ELSE e
  BY DEF AfterFailure, HandoffRecord
<1>2. /\ a.pred = h.pred /\ a.flow = h.flow /\ a.holds = h.holds /\ a.previous = h.previous
      /\ a.phase = h.phase /\ a.ctl = "resuming"
      /\ DOMAIN a = {"phase", "pred", "flow", "ctl", "holds", "previous", "call"}
  BY DEF HandoffRecord
<1>3. /\ b.pred = h.pred /\ b.flow = h.flow /\ b.holds = h.holds /\ b.previous = h.previous
      /\ b.phase = h.phase /\ b.ctl = "retiring"
      /\ DOMAIN b = {"phase", "pred", "flow", "ctl", "holds", "previous", "call"}
  BY DEF HandoffRecord
<1> HIDE DEF a, b
<1>4. /\ d.pred = h.pred /\ d.flow = h.flow /\ d.holds = h.holds /\ d.previous = h.previous
      /\ d.phase = h.phase /\ d.ctl = "resuming" /\ d.call = Call("resume")
  BY <1>2
<1>5. /\ e.pred = h.pred /\ e.flow = h.flow /\ e.holds = h.holds /\ e.previous = h.previous
      /\ e.phase = h.phase /\ e.ctl = "retiring"
  BY <1>3
<1> HIDE DEF d, e
<1> QED
  BY <1>1, <1>4, <1>5

LEMMA FailureSurvives ==
    ASSUME TypeOK, Staged, NEW c \in Processes, Head(c),
           NEW r \in Handoffs, NEW s \in {"replying", "quiescing", "waiting"}, At(r, s),
           NEW h \in HandoffRecord, h.pred = c, h.flow = handoff[r].flow,
           h.previous = handoff[r].previous, h.phase # "none",
           ~h.holds => proc[c].quiesced = {},
           handoff' = [handoff EXCEPT ![r] = AfterFailure(h)], proc' = proc, disk' = disk
    PROVE  Led'
<1> DEFINE g == AfterFailure(h)
<1>1. /\ Stage(handoff[r], proc[r]) /\ Drives(r, handoff[r], proc[r], proc[c], disk)
      /\ handoff[r].ctl = s /\ proc[c] \in ProcessRecord
  BY Driven
<1>2. /\ g.pred = c /\ g.flow = h.flow /\ g.holds = h.holds /\ g.previous = h.previous
      /\ g.phase = h.phase
      /\ IF h.flow = "settings" /\ h.holds
         THEN g.ctl = "resuming" /\ g.call = Call("resume")
         ELSE g.ctl = "retiring"
  BY FailureShape
<1> HIDE DEF g
<1>3. ~Over(g)
  BY <1>2 DEF Over
<1>4. Stage(g, proc[r])
  BY <1>1, <1>2 DEF Stage
<1>5. proc[c].quiesced \subseteq Participants
  BY <1>1 DEF ProcessRecord
<1>6. Drives(r, g, proc[r], proc[c], disk)
  BY <1>1, <1>2, <1>5, CallShape DEF Drives
<1>7. handoff' = [handoff EXCEPT ![r] = g]
  BY DEF g
<1> QED
  BY <1>2, <1>3, <1>4, <1>6, <1>7, PredecessorMoves

\* The successor is launched, with the settings on disk.
LEMMA SpawnSurvives ==
    ASSUME TypeOK, Staged, NEW c \in Processes, Head(c), NEW r \in Handoffs, Spawn(r)
    PROVE  Led'
<1> DEFINE a == [Unborn EXCEPT !.life = "up"]
           P == [a EXCEPT !.config = disk]
<1>1. At(r, "launching") /\ handoff' = handoff /\ disk' = disk
        /\ ~Runs(proc[r]) /\ proc' = [proc EXCEPT ![r] = P]
  BY DEF Spawn, Unborn, Runs
<1>2. /\ proc \in [Processes -> ProcessRecord] /\ r \in Processes /\ r # c
      /\ handoff[r].ctl = "launching" /\ handoff[r].pred = c /\ ~Over(handoff[r])
      /\ Stage(handoff[r], proc[r]) /\ Leads(proc[c])
      /\ Drives(r, handoff[r], proc[r], proc[c], disk)
  BY <1>1, Driven
<1>3. /\ P.life = "up" /\ P.pc = "boot" /\ P.config = disk
      /\ P.active = {} /\ P.quiesced = {} /\ P.activated = {}
  BY DEF Unborn
<1> HIDE DEF P
<1>4. Stage(handoff[r], P)
  BY <1>2, <1>3 DEF Stage, Idles
<1>5. Drives(r, handoff[r], P, proc[c], disk)
  BY <1>2, <1>3 DEF Drives
<1>6. proc'[r] = P /\ proc'[c] = proc[c]
        /\ \A p \in Processes : p # r => proc'[p] = proc[p]
  BY <1>1, <1>2
<1> QED
  BY <1>1, <1>2, <1>4, <1>5, <1>6, DriveContinues

\* The predecessor stops or starts its participants.
LEMMA LeaderWalkSurvives ==
    ASSUME Survivable, TypeOK, Staged, NEW c \in Processes, Head(c), NEW r \in Handoffs,
           PredecessorCall(r)
    PROVE  Led'
<1> DEFINE h == handoff[r]
<1>1. PICK s \in {"quiescing", "resuming"} : At(r, s)
  BY DEF PredecessorCall
<1>2. /\ handoff \in [Handoffs -> HandoffRecord] /\ h \in HandoffRecord
      /\ proc \in [Processes -> ProcessRecord] /\ proc[c] \in ProcessRecord
      /\ h.call \in Coordination
      /\ h.ctl = s /\ h.pred = c /\ r # c /\ r \in Processes /\ ~Over(h)
      /\ Stage(h, proc[r]) /\ Leads(proc[c]) /\ Drives(r, h, proc[r], proc[c], disk)
  BY <1>1, Driven
<1>3. PICK o \in Outcomes(h.call, proc[c]) :
         /\ Pay(o.fault)
         /\ handoff' = [handoff EXCEPT ![r].call = o.call]
         /\ proc' = [proc EXCEPT ![c] = o.proc]
  BY <1>2 DEF PredecessorCall
<1>4. disk' = disk /\ o.fault # "activate"
  BY <1>3, StartsAreMade DEF PredecessorCall, Survivable
<1> DEFINE g == [h EXCEPT !.call = o.call]
<1>5. /\ g.ctl = h.ctl /\ g.phase = h.phase /\ g.pred = h.pred /\ g.flow = h.flow
      /\ g.holds = h.holds /\ g.previous = h.previous /\ g.call = o.call
  BY <1>2 DEF HandoffRecord
<1>6. handoff'[r] = g /\ \A q \in Handoffs : q # r => handoff'[q] = handoff[q]
  BY <1>2, <1>3
<1>7. proc'[c] = o.proc /\ \A p \in Processes : p # c => proc'[p] = proc[p]
  BY <1>2, <1>3
<1> HIDE DEF g
<1>8. Stage(g, proc[r]) /\ ~Over(g)
  BY <1>2, <1>5 DEF Stage, Idles, Over
<1>9. /\ h.call.op \in {"quiesce", "restore", "resume"}
      /\ h.call.op = "resume" <=> s = "resuming"
      /\ s = "resuming" => ~h.call.bad
      /\ h.call.op # "resume" => proc[c].quiesced \subseteq h.call.newly
      /\ h.call.op # "quiesce" => proc[c].quiesced \subseteq h.call.todo
  BY <1>2 DEF Drives
<1>10. /\ o.proc.config = proc[c].config /\ Leads(o.proc)
       /\ h.call.op = "resume" => o.call.op = "resume" /\ o.call.bad = h.call.bad
       /\ h.call.op # "resume" => /\ o.call.op \in {"quiesce", "restore"}
                                  /\ o.proc.quiesced \subseteq o.call.newly
       /\ o.call.op # "quiesce" => o.proc.quiesced \subseteq o.call.todo
  BY <1>2, <1>4, <1>9, LeaderWalks DEF Survivable
<1>11. s = "resuming" /\ ~h.holds => o.proc.quiesced = {}
  <2>1. SUFFICES ASSUME s = "resuming", ~h.holds PROVE o.proc.quiesced = {}
    OBVIOUS
  <2>2. proc[c].quiesced = {} /\ h.call.op = "resume"
    BY <1>2, <1>9, <2>1 DEF Drives
  <2>3. Eligible(h.call, proc[c]) = {}
    BY <2>2 DEF Eligible
  <2> QED
    BY <2>2, <2>3 DEF Outcomes
<1>12. Drives(r, g, proc[r], o.proc, disk)
  BY <1>2, <1>5, <1>9, <1>10, <1>11 DEF Drives
<1> QED
  BY <1>2, <1>4, <1>5, <1>6, <1>7, <1>8, <1>10, <1>12, DriveContinues

\* The predecessor has let go of everything and waits for the successor.
LEMMA ReleaseSurvives ==
    ASSUME TypeOK, Staged, NEW c \in Processes, Head(c), NEW r \in Handoffs, Release(r)
    PROVE  Led'
<1> DEFINE h == handoff[r]
           a == [h EXCEPT !.holds = TRUE]
           b == [a EXCEPT !.phase = "quiesced"]
           d == [b EXCEPT !.ctl = "waiting"]
           g == [d EXCEPT !.call = NoCall]
<1>1. At(r, "quiescing") /\ proc' = proc /\ disk' = disk
  BY DEF Release
<1>2. /\ h \in HandoffRecord /\ h.ctl = "quiescing" /\ h.pred = c /\ h.phase # "none"
      /\ Stage(h, proc[r]) /\ Drives(r, h, proc[r], proc[c], disk)
      /\ DOMAIN h = {"phase", "pred", "flow", "ctl", "holds", "previous", "call"}
  BY <1>1, Driven DEF HandoffRecord
<1>3. /\ a \in HandoffRecord /\ a.holds /\ a.pred = c /\ a.flow = h.flow
      /\ a.previous = h.previous /\ a.phase = h.phase
      /\ DOMAIN a = {"phase", "pred", "flow", "ctl", "holds", "previous", "call"}
  BY <1>2 DEF HandoffRecord
<1>4. handoff' = [handoff EXCEPT ![r] = IF h.phase = "failed" THEN AfterFailure(a) ELSE g]
  <2>1. g = [h EXCEPT !.phase = "quiesced", !.ctl = "waiting", !.holds = TRUE, !.call = NoCall]
    BY <1>2
  <2> QED
    BY <2>1 DEF Release
<1> HIDE DEF a
<1>5. CASE h.phase = "failed"
  BY <1>1, <1>2, <1>3, <1>4, <1>5, FailureSurvives
<1>6. CASE h.phase # "failed"
  <2>1. /\ b.holds /\ b.pred = c /\ b.flow = h.flow /\ b.previous = h.previous
        /\ b.phase = "quiesced"
        /\ DOMAIN b = {"phase", "pred", "flow", "ctl", "holds", "previous", "call"}
    BY <1>3
  <2> HIDE DEF b
  <2>2. /\ g.holds /\ g.pred = c /\ g.flow = h.flow /\ g.previous = h.previous
        /\ g.phase = "quiesced" /\ g.ctl = "waiting"
    BY <2>1
  <2> HIDE DEF g
  <2>3. Stage(g, proc[r])
    BY <1>2, <2>2 DEF Stage
  <2>4. Drives(r, g, proc[r], proc[c], disk)
    BY <1>2, <2>2 DEF Drives
  <2>5. ~Over(g) /\ handoff' = [handoff EXCEPT ![r] = g]
    BY <1>4, <1>6, <2>2 DEF Over
  <2> QED
    BY <1>1, <2>2, <2>3, <2>4, <2>5, PredecessorMoves
<1> QED
  BY <1>5, <1>6

\* An accepted takeover passes the charge to the successor.
LEMMA StopSurvives ==
    ASSUME TypeOK, Staged, NEW c \in Processes, Head(c), NEW r \in Handoffs, Stop(r)
    PROVE  Led'
<1> DEFINE h == handoff[r]
           g == [h EXCEPT !.ctl = "settled"]
           C == [proc[c] EXCEPT !.life = "terminating"]
<1>1. At(r, "waiting") /\ h.phase = "accepted" /\ disk' = disk
  BY DEF Stop
<1>2. /\ handoff \in [Handoffs -> HandoffRecord] /\ h \in HandoffRecord
      /\ proc \in [Processes -> ProcessRecord] /\ proc[c] \in ProcessRecord
      /\ h.ctl = "waiting" /\ h.pred = c /\ r # c /\ r \in Processes /\ ~Over(h)
      /\ Stage(h, proc[r]) /\ Leads(proc[c]) /\ Drives(r, h, proc[r], proc[c], disk)
  BY <1>1, Driven
<1>3. handoff' = [handoff EXCEPT ![r] = g] /\ proc' = [proc EXCEPT ![c] = C]
  BY <1>2 DEF Stop
<1>4. g.ctl = "settled" /\ g.phase = h.phase
  BY <1>2 DEF HandoffRecord
<1>5. C.life = "terminating" /\ C.pc = "owner"
  BY <1>2 DEF Leads, ProcessRecord
<1> HIDE DEF g, C
<1>6. handoff'[r] = g /\ \A q \in Handoffs : q # r => handoff'[q] = handoff[q]
  BY <1>2, <1>3
<1>7. proc'[c] = C /\ \A p \in Processes : p # c => proc'[p] = proc[p]
  BY <1>2, <1>3
<1>8. \A q \in Handoffs : Over(handoff'[q])
  BY <1>2, <1>4, <1>6 DEF Head, Over
<1>9. /\ proc[r].life = "up" /\ proc[r].pc = "owner" /\ proc[r].active = Participants
      /\ proc[r].quiesced = {} /\ proc[r].config = disk
  BY <1>1, <1>2 DEF Stage, Drives, Runs
<1>10. Staged'
  <2>1. Runs(proc'[0]) => proc'[0].pc = "owner"
    <3>1. 0 \in Processes
      BY HandoffAssumption DEF Processes
    <3> QED
      BY <1>5, <1>7, <3>1 DEF Staged
  <2>2. ASSUME NEW q \in Handoffs PROVE Stage(handoff'[q], proc'[q])
    <3>1. CASE q = r
      BY <1>2, <1>4, <1>6, <1>7, <1>9, <3>1 DEF Stage
    <3>2. CASE q = c
      BY <1>2, <1>5, <1>6, <1>7, <3>2, HeadSettled, OwnerStaged DEF Staged
    <3>3. CASE q # r /\ q # c
      BY <1>6, <1>7, <3>3, HandoffsAreProcesses DEF Staged
    <3> QED
      BY <3>1, <3>2, <3>3
  <2> QED
    BY <2>1, <2>2 DEF Staged
<1>11. ASSUME NEW p \in Processes, Owner(p)' PROVE p = r
  <2>1. p # c
    BY <1>5, <1>7, <1>11 DEF Owner
  <2>2. SUFFICES ASSUME p # r PROVE FALSE
    OBVIOUS
  <2>3. Owner(p)
    BY <1>6, <1>7, <1>11, <2>1, <2>2 DEF Owner
  <2> QED
    BY <2>1, <2>3 DEF Head
<1>12. Owner(r)'
  BY <1>2, <1>7, <1>8, <1>9 DEF Owner
<1>13. Leads(proc'[r]) /\ proc'[r].quiesced = {} /\ proc'[r].config = disk'
  BY <1>1, <1>2, <1>7, <1>9 DEF Leads
<1>14. Head(r)'
  BY <1>8, <1>11, <1>12, <1>13 DEF Head
<1> QED
  BY <1>2, <1>10, <1>14 DEF Led

\* The steps before the predecessor lets go.
LEMMA LaunchSurvives ==
    ASSUME TypeOK, Staged, NEW c \in Processes, Head(c), NEW r \in Handoffs,
           LaunchReady(r) \/ Proceed(r)
    PROVE  Led'
<1> DEFINE h == handoff[r]
<1>1. PICK s \in {"launching", "replying"} : At(r, s)
  BY DEF LaunchReady, Proceed
<1>2. /\ h \in HandoffRecord /\ h.ctl = s /\ h.pred = c /\ h.phase # "none"
      /\ handoff \in [Handoffs -> HandoffRecord]
      /\ Stage(h, proc[r]) /\ Drives(r, h, proc[r], proc[c], disk)
  BY <1>1, Driven
<1>3. proc' = proc /\ disk' = disk
  BY DEF LaunchReady, Proceed
<1>4. CASE LaunchReady(r)
  <2> DEFINE g == [h EXCEPT !.ctl = "replying"]
  <2>1. handoff' = [handoff EXCEPT ![r] = g] /\ h.ctl = "launching"
    BY <1>2, <1>4 DEF LaunchReady, At
  <2>2. /\ g.ctl = "replying" /\ g.phase = h.phase /\ g.pred = c /\ g.flow = h.flow
        /\ g.holds = h.holds /\ g.previous = h.previous
    BY <1>2 DEF HandoffRecord
  <2> HIDE DEF g
  <2>3. Stage(g, proc[r])
    BY <1>2, <2>1, <2>2 DEF Stage, Idles
  <2>4. Drives(r, g, proc[r], proc[c], disk)
    BY <1>2, <2>1, <2>2 DEF Drives
  <2>5. ~Over(g)
    BY <2>2 DEF Over
  <2> QED
    BY <1>1, <1>3, <2>1, <2>2, <2>3, <2>4, <2>5, PredecessorMoves
<1>5. CASE Proceed(r)
  <2> DEFINE a == [h EXCEPT !.ctl = "quiescing"]
             g == [a EXCEPT !.call = Call("quiesce")]
  <2>1. h.ctl = "replying"
    BY <1>5 DEF Proceed, At
  <2>2. handoff' = [handoff EXCEPT ![r] = g]
    BY <1>2, <1>5 DEF Proceed
  <2>3. /\ a.ctl = "quiescing" /\ a.phase = h.phase /\ a.pred = c /\ a.flow = h.flow
        /\ a.holds = h.holds /\ a.previous = h.previous
        /\ DOMAIN a = {"phase", "pred", "flow", "ctl", "holds", "previous", "call"}
    BY <1>2 DEF HandoffRecord
  <2> HIDE DEF a
  <2>4. /\ g.ctl = "quiescing" /\ g.phase = h.phase /\ g.pred = c /\ g.flow = h.flow
        /\ g.holds = h.holds /\ g.previous = h.previous /\ g.call = Call("quiesce")
    BY <2>3
  <2> HIDE DEF g
  <2>5. Stage(g, proc[r])
    BY <1>2, <2>1, <2>4 DEF Stage, Idles
  <2>6. Drives(r, g, proc[r], proc[c], disk)
    BY <1>2, <2>1, <2>4, CallShape DEF Drives
  <2>7. ~Over(g)
    BY <2>4 DEF Over
  <2> QED
    BY <1>1, <1>3, <2>2, <2>4, <2>5, <2>6, <2>7, PredecessorMoves
<1> QED
  BY <1>4, <1>5

\* The steps with which a predecessor gives a handoff up.
LEMMA GiveUpSurvives ==
    ASSUME TypeOK, Staged, NEW c \in Processes, Head(c), NEW r \in Handoffs,
           Withdraw(r) \/ QuiesceFails(r) \/ TakeoverFails(r)
    PROVE  Led'
<1> DEFINE h == handoff[r]
<1>1. PICK s \in {"replying", "quiescing", "waiting"} : At(r, s)
  BY DEF Withdraw, QuiesceFails, TakeoverFails
<1>2. /\ h \in HandoffRecord /\ h.ctl = s /\ h.pred = c /\ h.phase # "none"
      /\ Drives(r, h, proc[r], proc[c], disk)
  BY <1>1, Driven
<1>3. proc' = proc /\ disk' = disk
  BY DEF Withdraw, QuiesceFails, TakeoverFails
<1>4. CASE Withdraw(r)
  <2>1. ~h.holds /\ proc[c].quiesced = {}
    BY <1>2, <1>4 DEF Withdraw, At, Drives
  <2>2. handoff' = [handoff EXCEPT ![r] = AfterFailure(h)]
    BY <1>4 DEF Withdraw
  <2> QED
    BY <1>1, <1>2, <1>3, <2>1, <2>2, FailureSurvives
<1>5. CASE QuiesceFails(r)
  <2>1. h.ctl = "quiescing" /\ Threw(h.call, proc[c])
    BY <1>2, <1>5 DEF QuiesceFails, At
  <2>2. h.call.op = "restore" /\ proc[c].quiesced \subseteq h.call.todo
    BY <1>2, <2>1 DEF Drives, Threw
  <2>3. proc[c].quiesced = {}
    BY <2>1, <2>2 DEF Threw, Eligible
  <2>4. handoff' = [handoff EXCEPT ![r] = AfterFailure(h)]
    BY <1>5 DEF QuiesceFails
  <2> QED
    BY <1>1, <1>2, <1>3, <2>3, <2>4, FailureSurvives
<1>6. CASE TakeoverFails(r)
  <2> DEFINE phase == IF h.phase = "accepted" THEN h.phase ELSE "failed"
             g == [h EXCEPT !.phase = phase]
  <2>1. handoff' = [handoff EXCEPT ![r] = AfterFailure(g)]
    BY <1>6 DEF TakeoverFails
  <2>2. /\ g \in HandoffRecord /\ g.pred = c /\ g.flow = h.flow /\ g.holds = h.holds
        /\ g.previous = h.previous /\ g.phase # "none"
    BY <1>2 DEF HandoffRecord
  <2> HIDE DEF g
  <2>3. ~g.holds => proc[c].quiesced = {}
    BY <1>2, <1>6, <2>2 DEF TakeoverFails, At, Drives
  <2> QED
    BY <1>1, <1>3, <2>1, <2>2, <2>3, FailureSurvives
<1> QED
  BY <1>4, <1>5, <1>6

\* The predecessor retires its successor.
LEMMA RetireSurvives ==
    ASSUME TypeOK, Staged, NEW c \in Processes, Head(c), NEW r \in Handoffs, Retire(r)
    PROVE  Led'
<1> DEFINE h == handoff[r]
           a == [h EXCEPT !.phase = "failed"]
           g == [a EXCEPT !.ctl = "reaping"]
           P == [proc[r] EXCEPT !.life = IF proc[r].life = "up" THEN "terminating"
                                         ELSE proc[r].life]
<1>1. At(r, "retiring") /\ disk' = disk
  BY DEF Retire
<1>2. /\ handoff \in [Handoffs -> HandoffRecord] /\ h \in HandoffRecord
      /\ proc \in [Processes -> ProcessRecord] /\ proc[r] \in ProcessRecord
      /\ h.ctl = "retiring" /\ h.pred = c /\ r # c /\ r \in Processes /\ ~Over(h)
      /\ h.phase # "none"
      /\ Stage(h, proc[r]) /\ Leads(proc[c]) /\ Drives(r, h, proc[r], proc[c], disk)
  BY <1>1, Driven
<1>3. handoff' = [handoff EXCEPT ![r] = g] /\ proc' = [proc EXCEPT ![r] = P]
  BY <1>2 DEF Retire
<1>4. /\ a.ctl = h.ctl /\ a.phase = "failed" /\ a.pred = c /\ a.flow = h.flow
      /\ a.holds = h.holds /\ a.previous = h.previous
      /\ DOMAIN a = {"phase", "pred", "flow", "ctl", "holds", "previous", "call"}
  BY <1>2 DEF HandoffRecord
<1> HIDE DEF a
<1>5. /\ g.ctl = "reaping" /\ g.phase = "failed" /\ g.pred = c /\ g.flow = h.flow
      /\ g.holds = h.holds /\ g.previous = h.previous
  BY <1>4
<1> HIDE DEF g
<1>6. /\ Runs(P) <=> Runs(proc[r])
      /\ P.pc = proc[r].pc /\ P.config = proc[r].config /\ P.active = proc[r].active
      /\ P.quiesced = proc[r].quiesced /\ P.activated = proc[r].activated
      /\ P.call = proc[r].call
  BY <1>2 DEF ProcessRecord, Runs
<1> HIDE DEF P
<1>7. Stage(g, P)
  BY <1>2, <1>5, <1>6 DEF Stage
<1>8. Drives(r, g, P, proc[c], disk)
  BY <1>2, <1>5, <1>6 DEF Drives
<1>9. handoff'[r] = g /\ \A q \in Handoffs : q # r => handoff'[q] = handoff[q]
  BY <1>2, <1>3
<1>10. proc'[r] = P /\ \A p \in Processes : p # r => proc'[p] = proc[p]
  BY <1>2, <1>3
<1>11. ~Over(g)
  BY <1>5 DEF Over
<1> QED
  BY <1>1, <1>2, <1>5, <1>7, <1>8, <1>9, <1>10, <1>11, DriveContinues

\* A predecessor gets back what it stopped once its successor is gone.
LEMMA ReapedSurvives ==
    ASSUME TypeOK, Staged, NEW c \in Processes, Head(c), NEW r \in Handoffs, Reaped(r)
    PROVE  Led'
<1> DEFINE h == handoff[r]
           a == [h EXCEPT !.ctl = "restoring"]
           b == [h EXCEPT !.ctl = "resuming"]
           e == [h EXCEPT !.ctl = "settled"]
           d == [b EXCEPT !.call = Call("resume")]
<1>1. At(r, "reaping") /\ proc' = proc /\ disk' = disk /\ ~Runs(proc[r])
  BY DEF Reaped, Running, Runs
<1>2. /\ handoff \in [Handoffs -> HandoffRecord] /\ h \in HandoffRecord
      /\ h.ctl = "reaping" /\ h.pred = c /\ ~Over(h) /\ h.phase # "none"
      /\ proc[c] \in ProcessRecord
      /\ Stage(h, proc[r]) /\ Drives(r, h, proc[r], proc[c], disk)
  BY <1>1, Driven
<1>3. proc[r].life # "terminating"
  BY <1>1 DEF Runs
<1>4. CASE h.flow = "settings"
  <2>1. handoff' = [handoff EXCEPT ![r] = a]
    BY <1>4 DEF Reaped
  <2>2. /\ a.ctl = "restoring" /\ a.phase = h.phase /\ a.pred = c /\ a.flow = h.flow
        /\ a.holds = h.holds /\ a.previous = h.previous
    BY <1>2 DEF HandoffRecord
  <2> HIDE DEF a
  <2>3. Stage(a, proc[r])
    BY <1>1, <1>2, <1>3, <2>2 DEF Stage
  <2>4. Drives(r, a, proc[r], proc[c], disk)
    BY <1>2, <1>4, <2>2 DEF Drives
  <2>5. ~Over(a)
    BY <2>2 DEF Over
  <2> QED
    BY <1>1, <2>1, <2>2, <2>3, <2>4, <2>5, PredecessorMoves
<1>5. CASE h.flow # "settings" /\ h.holds
  <2>1. handoff' = [handoff EXCEPT ![r] = d]
    BY <1>2, <1>5 DEF Reaped
  <2>2. /\ b.ctl = "resuming" /\ b.phase = h.phase /\ b.pred = c /\ b.flow = h.flow
        /\ b.holds = h.holds /\ b.previous = h.previous
        /\ DOMAIN b = {"phase", "pred", "flow", "ctl", "holds", "previous", "call"}
    BY <1>2 DEF HandoffRecord
  <2> HIDE DEF b
  <2>3. /\ d.ctl = "resuming" /\ d.phase = h.phase /\ d.pred = c /\ d.flow = h.flow
        /\ d.holds = h.holds /\ d.previous = h.previous /\ d.call = Call("resume")
    BY <2>2
  <2> HIDE DEF d
  <2>4. Stage(d, proc[r])
    BY <1>1, <1>2, <1>3, <2>3 DEF Stage
  <2>5. proc[c].quiesced \subseteq Participants
    BY <1>2 DEF ProcessRecord
  <2>6. Drives(r, d, proc[r], proc[c], disk)
    BY <1>2, <1>5, <2>3, <2>5, CallShape DEF Drives
  <2>7. ~Over(d)
    BY <2>3 DEF Over
  <2> QED
    BY <1>1, <2>1, <2>3, <2>4, <2>6, <2>7, PredecessorMoves
<1>6. CASE h.flow # "settings" /\ ~h.holds
  <2>1. handoff' = [handoff EXCEPT ![r] = e]
    BY <1>6 DEF Reaped
  <2>2. e.ctl = "settled" /\ e.phase = h.phase
    BY <1>2 DEF HandoffRecord
  <2> HIDE DEF e
  <2>3. proc[c].quiesced = {} /\ proc[c].config = disk
    BY <1>2, <1>6 DEF Drives
  <2>4. handoff'[r] = e /\ \A q \in Handoffs : q # r => handoff'[q] = handoff[q]
    BY <1>2, <2>1
  <2> QED
    BY <1>1, <1>2, <2>2, <2>3, <2>4, DriveEnds
<1> QED
  BY <1>4, <1>5, <1>6

\* What the predecessor had stopped runs again.
LEMMA ResumedSurvives ==
    ASSUME TypeOK, Staged, NEW c \in Processes, Head(c), NEW r \in Handoffs, Resumed(r)
    PROVE  Led'
<1> DEFINE h == handoff[r]
           ctl == IF h.flow = "settings" THEN "retiring" ELSE "settled"
           a == [h EXCEPT !.ctl = ctl]
           b == [a EXCEPT !.holds = h.call.bad]
           g == [b EXCEPT !.call = NoCall]
<1>1. At(r, "resuming") /\ proc' = proc /\ disk' = disk
  BY DEF Resumed
<1>2. /\ handoff \in [Handoffs -> HandoffRecord] /\ h \in HandoffRecord
      /\ h.ctl = "resuming" /\ h.pred = c /\ ~Over(h) /\ h.phase # "none"
      /\ proc[c] \in ProcessRecord
      /\ Stage(h, proc[r]) /\ Drives(r, h, proc[r], proc[c], disk)
  BY <1>1, Driven
<1>3. h.call.op = "resume" /\ ~h.call.bad /\ proc[c].quiesced \subseteq h.call.todo
  BY <1>2 DEF Drives
<1>4. proc[c].quiesced = {}
  <2>1. Eligible(h.call, proc[c]) = {}
    BY <1>2 DEF Resumed, Returned, Threw
  <2> QED
    BY <1>3, <2>1 DEF Eligible
<1>5. handoff' = [handoff EXCEPT ![r] = g]
  BY <1>2 DEF Resumed
<1>6. /\ a.ctl = ctl /\ a.phase = h.phase /\ a.pred = c /\ a.flow = h.flow
      /\ a.previous = h.previous
      /\ DOMAIN a = {"phase", "pred", "flow", "ctl", "holds", "previous", "call"}
  BY <1>2 DEF HandoffRecord
<1> HIDE DEF a
<1>7. /\ b.ctl = ctl /\ b.phase = h.phase /\ b.pred = c /\ b.flow = h.flow
      /\ b.previous = h.previous /\ b.holds = h.call.bad
      /\ DOMAIN b = {"phase", "pred", "flow", "ctl", "holds", "previous", "call"}
  BY <1>6
<1> HIDE DEF b
<1>8. /\ g.ctl = ctl /\ g.phase = h.phase /\ g.pred = c /\ g.flow = h.flow
      /\ g.previous = h.previous /\ ~g.holds
  BY <1>3, <1>7
<1> HIDE DEF g
<1>9. CASE h.flow = "settings"
  <2>1. Stage(g, proc[r])
    BY <1>2, <1>8, <1>9 DEF Stage
  <2>2. Drives(r, g, proc[r], proc[c], disk)
    BY <1>2, <1>4, <1>8, <1>9 DEF Drives
  <2>3. ~Over(g)
    BY <1>8, <1>9 DEF Over
  <2> QED
    BY <1>1, <1>5, <1>8, <2>1, <2>2, <2>3, PredecessorMoves
<1>10. CASE h.flow # "settings"
  <2>1. ~Runs(proc[r]) /\ proc[c].config = disk
    BY <1>2, <1>10 DEF Stage, Drives
  <2>2. handoff'[r] = g /\ \A q \in Handoffs : q # r => handoff'[q] = handoff[q]
    BY <1>2, <1>5
  <2> QED
    BY <1>1, <1>2, <1>4, <1>8, <1>10, <2>1, <2>2, DriveEnds
<1> QED
  BY <1>9, <1>10

\* The settings from before the change are put back.
LEMMA RestoreSurvives ==
    ASSUME TypeOK, Staged, NEW c \in Processes, Head(c), NEW r \in Handoffs, Restore(r)
    PROVE  Led'
<1> DEFINE h == handoff[r]
           g == [h EXCEPT !.ctl = "settled"]
<1>1. At(r, "restoring") /\ proc' = proc /\ disk' = h.previous
  BY DEF Restore
<1>2. /\ handoff \in [Handoffs -> HandoffRecord] /\ h \in HandoffRecord
      /\ h.ctl = "restoring" /\ h.pred = c /\ ~Over(h) /\ h.phase # "none"
      /\ Stage(h, proc[r]) /\ Drives(r, h, proc[r], proc[c], disk)
  BY <1>1, Driven
<1>3. handoff' = [handoff EXCEPT ![r] = g]
  BY <1>2 DEF Restore
<1>4. g.ctl = "settled" /\ g.phase = h.phase
  BY <1>2 DEF HandoffRecord
<1> HIDE DEF g
<1>5. proc[c].quiesced = {} /\ proc[c].config = disk'
  BY <1>1, <1>2 DEF Drives
<1>6. ~Runs(proc[r]) \/ Idles(g, proc[r])
  BY <1>2, <1>4 DEF Stage, Idles
<1>7. handoff'[r] = g /\ \A q \in Handoffs : q # r => handoff'[q] = handoff[q]
  BY <1>2, <1>3
<1> QED
  BY <1>1, <1>2, <1>4, <1>5, <1>6, <1>7, DriveEnds

LEMMA PredecessorSurvives ==
    ASSUME Survivable, TypeOK, Staged, NEW c \in Processes, Head(c),
           NEW r \in Handoffs, Predecessor(r)
    PROVE  Led'
<1>1. CASE SpawnFails(r) \/ LaunchFails(r)
  <2>1. PICK phase \in {handoff[r].phase, "failed"} :
           handoff' = [handoff EXCEPT ![r] = Unlaunched([handoff[r] EXCEPT !.phase = phase])]
    BY <1>1 DEF SpawnFails, LaunchFails
  <2>2. At(r, "launching") /\ proc' = proc /\ disk' = disk
    BY <1>1 DEF SpawnFails, LaunchFails
  <2> QED
    BY <2>1, <2>2, UnlaunchedSurvives
<1> QED
  BY <1>1, SpawnSurvives, LaunchSurvives, GiveUpSurvives, LeaderWalkSurvives, ReleaseSurvives,
     StopSurvives, RetireSurvives, ReapedSurvives, ResumedSurvives, RestoreSurvives
     DEF Predecessor

-----------------------------------------------------------------------------
(* The beginning of a handoff, and the end of a process.                   *)

LEMMA BeginSurvives ==
    ASSUME Survivable, TypeOK, Staged, NEW c \in Processes, Head(c),
           NEW r \in Handoffs, NEW p \in Processes, NEW f \in Flows, Begin(r, p, f)
    PROVE  Led'
<1> DEFINE g == [Unused EXCEPT !.phase = "launching", !.pred = p, !.flow = f,
                               !.ctl = "launching", !.previous = disk]
<1>1. /\ g.phase = "launching" /\ g.pred = p /\ g.flow = f /\ g.ctl = "launching"
      /\ g.previous = disk /\ ~g.holds
  BY DEF Unused
<1>2. /\ handoff' = [handoff EXCEPT ![r] = g] /\ proc' = proc
      /\ disk' = IF f = "settings" THEN r ELSE disk
  BY DEF Begin
<1> HIDE DEF g
<1>3. handoff \in [Handoffs -> HandoffRecord]
  BY DEF TypeOK
<1>4. handoff'[r] = g /\ \A q \in Handoffs : q # r => handoff'[q] = handoff[q]
  BY <1>2, <1>3
<1>5. \A q \in Handoffs : ~Over(handoff[q]) => handoff[q].pred = c /\ ~Settled(q)
  BY DEF Head, Over, Settled, Running, Leads
<1>6. p = c
  <2>1. p \in Handoffs => Over(handoff[p])
    BY <1>5 DEF Begin
  <2> QED
    BY <2>1 DEF Begin, Head, Owner
<1>7. \A q \in Handoffs : Over(handoff[q])
  BY <1>5, <1>6 DEF Begin, Survivable
<1>8. proc[c].quiesced = {} /\ proc[c].config = disk
  BY <1>7 DEF Head
<1>9. handoff[r].ctl = "none" /\ proc[r] = Unborn
  BY DEF Begin, Staged, Stage
<1>10. r # c
  BY <1>9, HeadSettled
<1>11. Stage(g, proc[r])
  BY <1>1, <1>9 DEF Stage, Runs, Unborn
<1>12. Staged'
  BY <1>2, <1>4, <1>11 DEF Staged
<1>13. Drives(r, g, proc[r], proc[c], disk')
  BY <1>1, <1>2, <1>8, <1>9 DEF Drives, Runs, Unborn
<1>14. ~Over(g)
  BY <1>1 DEF Over
<1>15. ASSUME NEW q \in Processes, Owner(q)' PROVE q = c
  <2>1. q # r
    BY <1>4, <1>14, <1>15 DEF Owner
  <2>2. Owner(q)
    BY <1>2, <1>4, <1>15, <2>1 DEF Owner
  <2> QED
    BY <2>2 DEF Head
<1>16. Owner(c)' /\ Leads(proc'[c])
  BY <1>2, <1>4, <1>10 DEF Head, Owner
<1>17. \A q \in Handoffs : ~Over(handoff'[q]) => q = r
  BY <1>4, <1>7
<1>18. Head(c)'
  BY <1>1, <1>2, <1>4, <1>6, <1>13, <1>14, <1>15, <1>16, <1>17 DEF Head
<1> QED
  BY <1>12, <1>18 DEF Led

\* A process that ends in an orderly way is not the one in charge.
LEMMA ExitSurvives ==
    ASSUME TypeOK, Staged, NEW c \in Processes, Head(c), NEW p \in Processes, Exit(p)
    PROVE  Led'
<1> DEFINE Q == Ended(proc[p], "exited")
<1>1. proc \in [Processes -> ProcessRecord] /\ proc[p] \in ProcessRecord
  BY DEF TypeOK
<1>2. Q.life = "exited"
  BY <1>1, EndShape
<1>3. handoff' = handoff /\ disk' = disk /\ proc' = [proc EXCEPT ![p] = Q]
  BY DEF Exit
<1> HIDE DEF Q
<1>4. proc'[p] = Q /\ \A q \in Processes : q # p => proc'[q] = proc[q]
  BY <1>1, <1>3
<1>5. p # c /\ Runs(proc[p]) /\ ~(proc[p].life = "up" /\ proc[p].pc = "owner")
  BY DEF Exit, Starts, Running, Runs, Head, Leads
<1>6. ~Runs(Q)
  BY <1>2 DEF Runs
<1>7. p \in Handoffs => Stage(handoff[p], Q)
  <2>1. SUFFICES ASSUME p \in Handoffs PROVE Stage(handoff[p], Q)
    OBVIOUS
  <2>2. Stage(handoff[p], proc[p]) /\ handoff[p].ctl # "none"
    BY <1>5, <2>1 DEF Staged, Stage, Runs, Unborn
  <2> QED
    BY <1>2, <1>5, <1>6, <2>2 DEF Stage
<1>8. CASE p \in Handoffs => Over(handoff[p])
  BY <1>2, <1>3, <1>4, <1>5, <1>6, <1>7, <1>8, BystanderMoves
<1>9. CASE p \in Handoffs /\ ~Over(handoff[p])
  <2>1. /\ handoff[p].pred = c /\ Drives(p, handoff[p], proc[p], proc[c], disk)
        /\ Leads(proc[c])
    BY <1>9 DEF Head
  <2>2. Drives(p, handoff'[p], proc'[p], proc'[c], disk)
    BY <1>3, <1>4, <1>5, <1>6, <2>1 DEF Drives
  <2>3. proc'[c] = proc[c]
    BY <1>4, <1>5
  <2> QED
    BY <1>3, <1>4, <1>7, <1>9, <2>1, <2>2, <2>3, DriveContinues
<1> QED
  BY <1>8, <1>9

\* A crash is not forgotten.
LEMMA CrashedStays ==
    ASSUME TypeOK, [Next]_vars, Crashed
    PROVE  Crashed'
<1>1. PICK p \in Processes : proc[p].life = "crashed"
  BY DEF Crashed
<1>2. proc \in [Processes -> ProcessRecord]
  BY DEF TypeOK
<1> SUFFICES proc'[p].life = "crashed"
  BY DEF Crashed
<1>3. ASSUME NEW q, NEW Q, proc' = [proc EXCEPT ![q] = Q], q = p => Q.life = "crashed"
      PROVE  proc'[p].life = "crashed"
  BY <1>1, <1>2, <1>3
<1>4. CASE proc' = proc
  BY <1>1, <1>4
<1>5. ASSUME NEW r \in Handoffs, Predecessor(r), proc' # proc PROVE proc'[p].life = "crashed"
  <2> DEFINE q == handoff[r].pred
  <2>1. q \in Processes /\ r \in Processes
    BY HandoffsAreProcesses DEF TypeOK, HandoffRecord
  <2>2. Spawn(r) \/ PredecessorCall(r) \/ Stop(r) \/ Retire(r)
    BY <1>5 DEF Predecessor, SpawnFails, LaunchReady, LaunchFails, Proceed, Withdraw,
                QuiesceFails, Release, TakeoverFails, Reaped, Resumed, Restore
  <2>3. CASE Spawn(r)
    BY <1>1, <1>3, <2>3 DEF Spawn
  <2>4. CASE PredecessorCall(r)
    <3>1. proc[q] \in ProcessRecord /\ handoff[r].call \in Coordination
      BY <2>1 DEF TypeOK, HandoffRecord
    <3>2. PICK o \in Outcomes(handoff[r].call, proc[q]) : proc' = [proc EXCEPT ![q] = o.proc]
      BY <2>4 DEF PredecessorCall
    <3>3. o.proc.life = proc[q].life
      BY <3>1, OutcomeTypes
    <3> QED
      BY <1>1, <1>3, <3>2, <3>3
  <2>5. CASE Stop(r)
    <3>1. Running(q)
      BY <2>5 DEF Stop, At
    <3> QED
      BY <1>1, <1>2, <2>1, <2>5, <3>1 DEF Stop, Running
  <2>6. CASE Retire(r)
    BY <1>1, <1>2, <2>1, <2>6 DEF Retire, ProcessRecord
  <2> QED
    BY <2>2, <2>3, <2>4, <2>5, <2>6
<1>6. ASSUME NEW r \in Handoffs, Successor(r) PROVE proc'[p].life = "crashed"
  <2>1. r \in Processes /\ Running(r)
    BY <1>6, HandoffsAreProcesses DEF Successor, Ready, BootFails, TakeOver, ReleaseFails,
       SuccessorCall, ActivateFails, Accept, Reject, Starts
  <2>2. p # r
    BY <1>1, <2>1 DEF Running
  <2>3. \E Q : proc' = [proc EXCEPT ![r] = Q]
    BY <1>6 DEF Successor, Ready, BootFails, TakeOver, ReleaseFails,
       SuccessorCall, ActivateFails, Accept, Reject
  <2> QED
    BY <1>3, <2>2, <2>3
<1>7. ASSUME NEW q \in Processes, Exit(q) \/ Crash(q) PROVE proc'[p].life = "crashed"
  <2>1. q # p
    BY <1>1, <1>7 DEF Exit, Crash, Starts, Running
  <2> QED
    BY <1>3, <1>7, <2>1 DEF Exit, Crash
<1>8. ASSUME NEW r \in Handoffs, NEW q \in Processes, NEW f \in Flows, Begin(r, q, f)
      PROVE  proc'[p].life = "crashed"
  BY <1>4, <1>8 DEF Begin
<1>9. CASE UNCHANGED vars
  BY <1>4, <1>9 DEF vars
<1> QED
  BY <1>4, <1>5, <1>6, <1>7, <1>8, <1>9 DEF Next

LEMMA InitSurvival ==
    ASSUME Init
    PROVE  Survival
<1>1. TypeOK
  BY InitIInv DEF IInv, Shape
<1>2. 0 \in Processes
  BY HandoffAssumption DEF Processes
<1> DEFINE a == [Unborn EXCEPT !.life = "up", !.pc = "owner", !.active = Participants]
<1>3. /\ a.life = "up" /\ a.pc = "owner" /\ a.active = Participants
      /\ a.quiesced = {} /\ a.config = 0
  BY DEF Unborn
<1>4. proc = [p \in Processes |-> IF p = 0 THEN a ELSE Unborn]
  BY DEF Init
<1> HIDE DEF a
<1>5. \A r \in Handoffs : handoff[r] = Unused /\ proc[r] = Unborn
  BY <1>4, HandoffsAreProcesses DEF Init
<1>6. Stage(Unused, Unborn)
  BY DEF Stage, Unused, Unborn, Runs
<1>7. Staged
  BY <1>2, <1>3, <1>4, <1>5, <1>6 DEF Staged
<1>8. \A r \in Handoffs : Over(handoff[r])
  BY <1>5 DEF Over, Unused
<1>9. \A p \in Processes : Owner(p) => p = 0
  BY <1>4 DEF Owner, Unborn
<1>10. Owner(0) /\ Leads(proc[0])
  BY <1>2, <1>3, <1>4, <1>8 DEF Owner, Leads
<1>11. proc[0].quiesced = {} /\ proc[0].config = disk
  BY <1>2, <1>3, <1>4 DEF Init
<1>12. Head(0)
  BY <1>8, <1>9, <1>10, <1>11 DEF Head
<1> QED
  BY <1>1, <1>2, <1>7, <1>12 DEF Survival, Led

LEMMA NextSurvival ==
    ASSUME Survivable, Survival, [Next]_vars
    PROVE  Survival'
<1>1. TypeOK /\ TypeOK'
  BY NextTypes DEF Survival
<1>2. CASE Crashed
  BY <1>1, <1>2, CrashedStays DEF Survival
<1>3. CASE Led
  <2>1. PICK c \in Processes : Staged /\ Head(c)
    BY <1>3 DEF Led
  <2>2. ASSUME NEW p \in Processes, Crash(p) PROVE Crashed'
    <3>1. proc'[p] = Ended(proc[p], "crashed") /\ proc[p] \in ProcessRecord
      BY <1>1, <2>2 DEF Crash, TypeOK
    <3>2. proc'[p].life = "crashed"
      BY <3>1, EndShape
    <3> QED
      BY <3>2 DEF Crashed
  <2>3. CASE UNCHANGED vars
    BY <1>1, <1>3, <2>3 DEF vars, Survival, Led, Staged, Head, Owner
  <2> QED
    BY <1>1, <2>1, <2>2, <2>3, BeginSurvives, PredecessorSurvives, SuccessorSurvives,
       ExitSurvives DEF Next, Survival
<1> QED
  BY <1>2, <1>3 DEF Survival

\* What is left when nothing is under way.
LEMMA HeadIsTheService ==
    ASSUME Survival
    PROVE  OwnerSurvives /\ SettingsMatchOwner
<1> SUFFICES ASSUME Quiet, ~Crashed PROVE OwnerSurvives /\ SettingsMatchOwner
  BY DEF OwnerSurvives, SettingsMatchOwner
<1>1. PICK c \in Processes : Head(c)
  BY DEF Survival, Led
<1>2. \A r \in Handoffs : Over(handoff[r])
  BY <1>1 DEF Quiet, Settled, Over, Head, Leads, Running
<1>3. proc[c].active = Participants /\ proc[c].config = disk
  BY <1>1, <1>2 DEF Head, Leads
<1>4. \A p \in Processes : Running(p) => p = c
  BY <1>1, <1>2 DEF Head, Owner, Quiet
<1> QED
  BY <1>3, <1>4 DEF OwnerSurvives, SettingsMatchOwner

\* However its handoffs end, by a launch that failed, a candidate that gave up,
\* a participant that refused to stop, a deadline or an accepted takeover, the
\* service survives: once nothing is under way, and unless a process crashed,
\* exactly one process is left, it owns every participant, and it runs with
\* the settings that are on disk.
THEOREM ServiceSurvives ==
    ASSUME Serial, "activate" \notin FaultKinds
    PROVE  Spec => [](OwnerSurvives /\ SettingsMatchOwner)
<1>1. Init => Survival
  BY InitSurvival
<1>2. Survival /\ [Next]_vars => Survival'
  BY NextSurvival DEF Survivable
<1>3. Survival => OwnerSurvives /\ SettingsMatchOwner
  BY HeadIsTheService
<1> QED
  BY <1>1, <1>2, <1>3, PTL DEF Spec

=============================================================================
