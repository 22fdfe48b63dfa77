----------------------------- MODULE IngressProofs -----------------------------
(***************************************************************************)
(* The durable turn and the answer of a batch, for any number of messages, *)
(* senders, attempts and faults.  What a turn promises holds without a     *)
(* condition: its executor returns once, its reply is kept until it is     *)
(* completed and handed on before its finalizers.  So does what the record *)
(* of a delivered batch promises, however often the batch is formed anew,  *)
(* routed differently and answered in other words.                         *)
(***************************************************************************)
EXTENDS Ingress, WellFoundedInduction, SequenceTheorems, TLAPS

-----------------------------------------------------------------------------
(* The inductive invariant of a delivery.                                  *)

\* There is a current group; a batch has been formed; a message is in hand.
Turning == {"turn", "executing", "stored", "reply", "delivery", "finalize", "complete", "collect"}
Formed  == Turning \cup {"send", "mark"}
Claimed == Formed \cup {"window"}

\* The delivery is of the next message, which heads the batch and is not
\* processed before the whole batch is.
Delivery ==
    /\ handler.pc # "idle" => cursor < Len(inbox)
    /\ handler.batch \subseteq ToSet(inbox)
    /\ \A g \in handler.todo : g.turn \subseteq handler.batch
    /\ handler.pc \in Turning => handler.todo # {}
    /\ handler.pc \in {"idle", "window", "turn", "executing", "stored", "reply"} => handler.part = 0
    /\ handler.pc \in Claimed => inbox[cursor + 1] \notin processed
    /\ handler.pc \in Formed => inbox[cursor + 1] \in handler.batch
    /\ handler.pc = "process" => ~(handler.batch \subseteq processed)

\* What the place of the delivery says about the turn at hand.
Progress ==
    /\ handler.pc \in {"executing", "stored"} => turn[Current] = {}
    /\ handler.pc = "stored" => Stored(Current)
    /\ handler.pc \in {"reply", "delivery", "finalize", "complete"}
          => turn[Current] # {} /\ "completed" \notin turn[Current]
    /\ handler.pc \in {"finalize", "complete"} => "delivered" \in turn[Current]

IInv == TypeOK /\ Delivery /\ Progress /\ ReplyFirst

-----------------------------------------------------------------------------
(* Messages, batches and groups.                                           *)

\* A non-empty set of naturals has a minimum.
LEMMA MinOfNaturals ==
    ASSUME NEW S \in SUBSET Nat, S # {}
    PROVE  Min(S) \in S /\ \A y \in S : Min(S) <= y
<1> DEFINE R == OpToRel(<, Nat)
<1>1. IsWellFoundedOn(R, Nat)
  BY NatLessThanWellFounded
<1>2. \A x, y \in Nat : x < y => <<x, y>> \in R
  BY DEF OpToRel
<1> HIDE DEF R
<1>3. PICK x \in S : \A y \in S : <<y, x>> \notin R
  BY <1>1, WFMin
<1>4. \A y \in S : ~(y < x)
  BY <1>2, <1>3
<1>5. \A y \in S : x <= y
  BY <1>4
<1> QED
  BY <1>5 DEF Min

BatchReply == [batch: SUBSET Messages, group: Group, part: 0..1, text: Texts]

LEMMA InboxShape ==
    ASSUME TypeOK
    PROVE  /\ inbox \in Seq(Messages) /\ Len(inbox) \in Nat /\ DOMAIN inbox = 1 .. Len(inbox)
           /\ \A n \in 1 .. Len(inbox) : inbox[n] \in Messages /\ inbox[n] \in ToSet(inbox)
           /\ ToSet(inbox) \subseteq Messages
           /\ cursor \in 0 .. Len(inbox)
           /\ replies \in Seq(BatchReply) /\ Len(replies) \in Nat /\ DOMAIN replies = 1 .. Len(replies)
           /\ \A n \in 1 .. Len(replies) : replies[n] \in BatchReply
<1>1. /\ inbox \in Seq(Messages) /\ cursor \in 0 .. Len(inbox) /\ replies \in Seq(BatchReply)
  BY DEF TypeOK, BatchReply
<1>2. /\ Len(inbox) \in Nat /\ DOMAIN inbox = 1 .. Len(inbox)
      /\ \A n \in 1 .. Len(inbox) : inbox[n] \in Messages
  BY <1>1, LenProperties, ElementOfSeq
<1>3. /\ Len(replies) \in Nat /\ DOMAIN replies = 1 .. Len(replies)
      /\ \A n \in 1 .. Len(replies) : replies[n] \in BatchReply
  BY <1>1, LenProperties, ElementOfSeq
<1> QED
  BY <1>1, <1>2, <1>3 DEF ToSet

\* The earliest of some messages in the inbox is one of them.
LEMMA EarliestIn ==
    ASSUME TypeOK, NEW S \in SUBSET ToSet(inbox), S # {}
    PROVE  Earliest(S) \in S
<1> DEFINE at == {n \in DOMAIN inbox : inbox[n] \in S}
<1>1. at \in SUBSET Nat
  BY InboxShape
<1>2. at # {}
  <2>1. PICK m \in S : m \in ToSet(inbox)
    OBVIOUS
  <2>2. PICK n \in DOMAIN inbox : inbox[n] = m
    BY <2>1 DEF ToSet
  <2> QED
    BY <2>1, <2>2
<1>3. Min(at) \in at
  BY <1>1, <1>2, MinOfNaturals
<1> QED
  BY <1>3 DEF Earliest

\* While groups are left, the current one is one of them.
LEMMA CurrentShape ==
    ASSUME TypeOK, Delivery, handler.todo # {}
    PROVE  /\ CurrentGroup \in handler.todo /\ CurrentGroup \in Group
           /\ Current = CurrentGroup.turn /\ Current \in Turns /\ Current \subseteq handler.batch
<1> DEFINE all == UNION {h.turn : h \in handler.todo}
<1>1. handler.todo \subseteq Group
  BY DEF TypeOK
<1>2. \A g \in handler.todo : g.turn \in Turns /\ g.turn \subseteq handler.batch
  BY <1>1 DEF Group, Delivery
<1>3. all \in SUBSET ToSet(inbox)
  BY <1>2 DEF Delivery
<1>4. all # {}
  BY <1>2 DEF Turns
<1>5. Earliest(all) \in all
  BY <1>3, <1>4, EarliestIn
<1>6. \E g \in handler.todo : Earliest(all) \in g.turn
  BY <1>5
<1>7. CurrentGroup \in handler.todo
  BY <1>6 DEF CurrentGroup
<1> QED
  BY <1>1, <1>2, <1>7 DEF Current

\* The batch of a delivery is made of messages of the inbox, the next among them.
LEMMA BurstShape ==
    ASSUME TypeOK, cursor < Len(inbox)
    PROVE  /\ inbox[cursor + 1] \in Burst /\ Burst \subseteq ToSet(inbox)
           /\ Burst \in Turns /\ Burst \in SUBSET Messages
<1>1. cursor + 1 \in 1 .. Len(inbox) /\ cursor \in Nat
  BY InboxShape
<1>2. \A n \in cursor + 2 .. Len(inbox) : n \in 1 .. Len(inbox)
  BY <1>1, InboxShape
<1> DEFINE near == {n \in cursor + 2 .. Len(inbox) : n <= cursor + 1 + Span
                    /\ inbox[n] \notin processed /\ Sender[inbox[n]] = Sender[inbox[cursor + 1]]}
           kept == {k \in near : Cardinality({j \in near : j < k}) + 1 < MaxBatch}
<1>3. Burst = {inbox[cursor + 1]} \cup {inbox[n] : n \in kept}
  BY DEF Burst
<1>4. kept \subseteq 1 .. Len(inbox)
  <2>1. near \subseteq cursor + 2 .. Len(inbox) /\ kept \subseteq near
    OBVIOUS
  <2> HIDE DEF near, kept
  <2> QED
    BY <1>2, <2>1
<1> HIDE DEF kept
<1>5. inbox[cursor + 1] \in Burst /\ Burst \subseteq ToSet(inbox)
  BY <1>1, <1>3, <1>4, InboxShape
<1> QED
  BY <1>5, InboxShape DEF Turns

\* The groups of a batch are made of its messages, and cover it.
LEMMA GroupsShape ==
    ASSUME NEW batch \in SUBSET Messages, batch # {}, NEW routed \in SUBSET batch
    PROVE  /\ Groups(batch, routed) \subseteq Group /\ Groups(batch, routed) # {}
           /\ \A g \in Groups(batch, routed) : g.turn \subseteq batch
           /\ \A m \in batch : \E g \in Groups(batch, routed) : m \in g.turn
           /\ \A g \in Groups(batch, routed) : g.routed <=> g.turn = routed
<1> DEFINE single == {[turn |-> {m}, routed |-> FALSE] : m \in batch \ routed}
           joint == {[turn |-> t, routed |-> TRUE] : t \in {routed} \ {{}}}
<1>1. Groups(batch, routed) = single \cup joint
  BY DEF Groups
<1>2. ASSUME NEW g \in single
      PROVE  g \in Group /\ g.turn \subseteq batch /\ ~g.routed /\ g.turn # routed
  <2>1. PICK m \in batch \ routed : g = [turn |-> {m}, routed |-> FALSE]
    OBVIOUS
  <2>2. {m} \in Turns /\ {m} # routed
    BY <2>1 DEF Turns
  <2> QED
    BY <2>1, <2>2 DEF Group
<1>3. ASSUME NEW g \in joint
      PROVE  g \in Group /\ g.turn \subseteq batch /\ g.routed /\ g.turn = routed
  <2>1. g = [turn |-> routed, routed |-> TRUE] /\ routed # {}
    OBVIOUS
  <2>2. routed \in Turns
    BY <2>1 DEF Turns
  <2> QED
    BY <2>1, <2>2 DEF Group
<1>4. ASSUME NEW m \in batch PROVE \E g \in Groups(batch, routed) : m \in g.turn
  <2>1. CASE m \in routed
    <3>1. [turn |-> routed, routed |-> TRUE] \in joint
      BY <2>1
    <3> QED
      BY <1>1, <2>1, <3>1
  <2>2. CASE m \notin routed
    <3>1. [turn |-> {m}, routed |-> FALSE] \in single
      BY <2>2
    <3> QED
      BY <1>1, <3>1
  <2> QED
    BY <2>1, <2>2
<1> HIDE DEF single, joint
<1>5. \A g \in Groups(batch, routed) : g \in Group /\ g.turn \subseteq batch /\ (g.routed <=> g.turn = routed)
  BY <1>1, <1>2, <1>3
<1> QED
  BY <1>4, <1>5

\* A reply is appended, or is known already; either way its group has one.
LEMMA RepliedShape ==
    ASSUME TypeOK, NEW g \in Group, NEW part \in 0 .. 1, NEW text \in Texts, Replied(g, part, text)
    PROVE  /\ replies' \in Seq(BatchReply) /\ Len(replies') \in Nat /\ Len(replies) <= Len(replies')
           /\ \A n \in 1 .. Len(replies) : replies'[n] = replies[n]
           /\ \A n \in 1 .. Len(replies') :
                 n \in 1 .. Len(replies) \/ replies'[n] = ReplyRow(g, part, text)
           /\ \E n \in 1 .. Len(replies') :
                 replies'[n].batch = handler.batch /\ replies'[n].group = g
<1>1. ReplyRow(g, part, text) \in BatchReply
  BY DEF ReplyRow, BatchReply, TypeOK
<1>2. CASE Known(g, part)
  <2>1. replies' = replies
    BY <1>2 DEF Replied
  <2> QED
    BY <1>2, <2>1, InboxShape DEF Known
<1>3. CASE ~Known(g, part)
  <2>1. replies' = Append(replies, ReplyRow(g, part, text))
    BY <1>3 DEF Replied
  <2>2. /\ replies' \in Seq(BatchReply) /\ Len(replies') = Len(replies) + 1
        /\ \A n \in 1 .. Len(replies) : replies'[n] = replies[n]
        /\ replies'[Len(replies) + 1] = ReplyRow(g, part, text)
    BY <1>1, <2>1, InboxShape, AppendProperties
  <2>3. Len(replies) + 1 \in 1 .. Len(replies') /\ Len(replies) \in Nat
    BY <2>2, InboxShape
  <2>4. \A n \in 1 .. Len(replies') : n \in 1 .. Len(replies) \/ n = Len(replies) + 1
    BY <2>2, <2>3
  <2>5. /\ replies'[Len(replies) + 1].batch = handler.batch
        /\ replies'[Len(replies) + 1].group = g
    BY <2>2 DEF ReplyRow
  <2> QED
    BY <2>2, <2>3, <2>4, <2>5
<1> QED
  BY <1>2, <1>3

\* A message that arrives does not change which group is the current one.
LEMMA CurrentKept ==
    ASSUME TypeOK, Delivery, handler.todo # {},
           NEW m \in Messages, m \notin ToSet(inbox), inbox' = Append(inbox, m), UNCHANGED handler
    PROVE  Current' = Current
<1> DEFINE all == UNION {h.turn : h \in handler.todo}
           at == {n \in DOMAIN inbox : inbox[n] \in all}
<1>1. \A g \in handler.todo : g.turn \subseteq handler.batch /\ g.turn \in Turns
  BY DEF TypeOK, Delivery, Group
<1>2. all \in SUBSET ToSet(inbox) /\ m \notin all /\ all # {}
  <2>1. all \in SUBSET ToSet(inbox)
    BY <1>1 DEF Delivery
  <2> QED
    BY <1>1, <2>1 DEF Turns
<1>3. /\ Len(inbox) \in Nat /\ DOMAIN inbox = 1 .. Len(inbox)
      /\ DOMAIN inbox' = 1 .. Len(inbox) + 1
      /\ \A n \in 1 .. Len(inbox) : inbox'[n] = inbox[n]
      /\ inbox'[Len(inbox) + 1] = m
  <2>1. inbox' \in Seq(Messages) /\ Len(inbox') = Len(inbox) + 1
    BY InboxShape, AppendProperties
  <2> QED
    BY <2>1, InboxShape, AppendProperties, LenProperties
<1> HIDE DEF all
<1>4. {n \in DOMAIN inbox' : inbox'[n] \in all} = at
  BY <1>2, <1>3
<1>5. at \in SUBSET Nat /\ at # {}
  <2>1. at \in SUBSET Nat
    BY <1>3
  <2>2. PICK k \in all : k \in ToSet(inbox)
    BY <1>2
  <2>3. PICK n \in DOMAIN inbox : inbox[n] = k
    BY <2>2 DEF ToSet
  <2> QED
    BY <2>1, <2>2, <2>3
<1>6. Min(at) \in DOMAIN inbox
  <2>1. Min(at) \in at
    BY <1>5, MinOfNaturals
  <2> QED
    BY <2>1
<1> HIDE DEF at
<1>7. inbox'[Min({n \in DOMAIN inbox' : inbox'[n] \in all})] = Earliest(all)
  BY <1>3, <1>4, <1>6 DEF Earliest, at
<1>8. Current' = (CHOOSE g \in handler.todo :
                     inbox'[Min({n \in DOMAIN inbox' : inbox'[n] \in all})] \in g.turn).turn
  BY DEF Current, CurrentGroup, Earliest, all
<1>9. Current = (CHOOSE g \in handler.todo : Earliest(all) \in g.turn).turn
  BY DEF Current, CurrentGroup, all
<1> QED
  BY <1>7, <1>8, <1>9

-----------------------------------------------------------------------------
(* The steps around the handler.                                           *)

\* An idle consumer owes nothing to the turns.
LEMMA IdleKeeps ==
    ASSUME IInv, handler' = Idle, UNCHANGED <<turn, outbox>>
    PROVE  Delivery' /\ Progress' /\ ReplyFirst'
BY DEF IInv, Delivery, Progress, Idle, Turning, Formed, Claimed,
       ReplyFirst, ReplyKept, DeliveredFirst, Stored

LEMMA ShutTyped ==
    ASSUME TypeOK
    PROVE  Shut \in [Turns -> {"none", "open", "shut", "told"}]
BY DEF TypeOK, Shut

LEMMA IdleTyped ==
    Idle \in [pc: PcValues, batch: SUBSET Messages, todo: SUBSET Group, part: 0..1, got: SUBSET Texts]
BY DEF Idle, PcValues

\* A handler that moves on.
LEMMA ToTyped ==
    ASSUME TypeOK, NEW p \in PcValues, handler' = To(p)
    PROVE  /\ handler' \in [pc: PcValues, batch: SUBSET Messages, todo: SUBSET Group,
                            part: 0..1, got: SUBSET Texts]
           /\ handler'.pc = p /\ handler'.batch = handler.batch /\ handler'.todo = handler.todo
           /\ handler'.part = handler.part /\ handler'.got = handler.got
BY DEF TypeOK, To

\* A success and a failure keep the types of what they write.
LEMMA AnswerTyped ==
    ASSUME TypeOK, cursor < Len(inbox), Succeeds \/ Throws
    PROVE  /\ cursor' \in 0 .. Len(inbox) /\ attempt' \in Nat
           /\ handler' = Idle
           /\ handler' \in [pc: PcValues, batch: SUBSET Messages, todo: SUBSET Group,
                            part: 0..1, got: SUBSET Texts]
           /\ job' \in [Turns -> {"none", "open", "shut", "told"}]
<1>1. cursor \in Nat /\ Len(inbox) \in Nat /\ attempt \in Nat /\ cursor \in 0 .. Len(inbox)
  BY InboxShape DEF TypeOK
<1>2. handler' = Idle /\ job' = Shut
  BY DEF Succeeds, Throws
<1>3. cursor' \in {cursor, cursor + 1} /\ attempt' \in {attempt, 0}
  BY DEF Succeeds, Throws
<1> QED
  BY <1>1, <1>2, <1>3, ShutTyped, IdleTyped

LEMMA AdmitStep ==
    ASSUME IInv, NEW m \in Messages, Admit(m)
    PROVE  IInv'
<1>1. /\ inbox' = Append(inbox, m) /\ m \notin ToSet(inbox)
      /\ UNCHANGED <<cursor, attempt, handler, turn, outbox, pending, runs,
                     replies, closed, processed, job, sent, route, faults>>
  BY DEF Admit, durable, batching, history
<1>2. /\ inbox' \in Seq(Messages) /\ Len(inbox') = Len(inbox) + 1
      /\ \A n \in 1 .. Len(inbox) : inbox'[n] = inbox[n]
      /\ cursor \in 0 .. Len(inbox) /\ Len(inbox) \in Nat
  BY <1>1, InboxShape, AppendProperties DEF IInv
<1>3. ToSet(inbox) \subseteq ToSet(inbox')
  <2>1. DOMAIN inbox = 1 .. Len(inbox) /\ DOMAIN inbox' = 1 .. Len(inbox')
    BY <1>2, InboxShape, LenProperties DEF IInv
  <2> QED
    BY <1>2, <2>1 DEF ToSet
<1>4. TypeOK'
  BY <1>1, <1>2 DEF IInv, TypeOK
<1>5. Delivery'
  <2>1. cursor < Len(inbox) => cursor + 1 \in 1 .. Len(inbox) /\ cursor < Len(inbox')
    BY <1>2
  <2> QED
    BY <1>1, <1>2, <1>3, <2>1 DEF IInv, Delivery, Claimed, Formed, Turning
<1>6. Progress'
  <2>1. handler.pc \in Turning => Current' = Current
    BY <1>1, CurrentKept DEF IInv, Delivery
  <2> QED
    BY <1>1, <2>1 DEF IInv, Progress, Turning, Stored
<1>7. ReplyFirst'
  BY <1>1 DEF IInv, ReplyFirst, ReplyKept, DeliveredFirst, Stored
<1> QED
  BY <1>4, <1>5, <1>6, <1>7 DEF IInv

LEMMA ClaimStep ==
    ASSUME IInv, Claim
    PROVE  IInv'
<1>1. /\ cursor < Len(inbox) /\ handler.pc = "idle"
      /\ UNCHANGED <<inbox, turn, outbox, pending, runs, replies, closed, processed, sent, route, faults>>
  BY DEF Claim, At, durable, batching, history
<1>2. CASE inbox[cursor + 1] \in processed
  <2>1. Succeeds
    BY <1>2 DEF Claim
  <2>2. TypeOK'
    BY <1>1, <2>1, AnswerTyped DEF IInv, TypeOK
  <2> QED
    BY <1>1, <2>1, <2>2, IdleKeeps DEF IInv, Succeeds
<1>3. CASE inbox[cursor + 1] \notin processed
  <2>1. /\ attempt' = attempt + 1 /\ handler' = To("window")
        /\ UNCHANGED <<cursor, job>>
    BY <1>3 DEF Claim
  <2>2. /\ handler' \in [pc: PcValues, batch: SUBSET Messages, todo: SUBSET Group,
                         part: 0..1, got: SUBSET Texts]
        /\ handler'.pc = "window" /\ handler'.batch = handler.batch
        /\ handler'.todo = handler.todo /\ handler'.part = handler.part
    BY <2>1, ToTyped DEF IInv, PcValues
  <2>3. TypeOK'
    BY <1>1, <2>1, <2>2 DEF IInv, TypeOK
  <2>4. Delivery'
    BY <1>1, <1>3, <2>1, <2>2 DEF IInv, Delivery, Claimed, Formed, Turning
  <2>5. Progress' /\ ReplyFirst'
    BY <1>1, <2>1, <2>2 DEF IInv, Progress, ReplyFirst, ReplyKept, DeliveredFirst, Stored
  <2> QED
    BY <2>3, <2>4, <2>5 DEF IInv
<1> QED
  BY <1>2, <1>3

LEMMA CollectStep ==
    ASSUME IInv, Collect
    PROVE  IInv'
<1>1. /\ handler.pc = "window" /\ cursor < Len(inbox)
      /\ UNCHANGED <<inbox, turn, outbox, pending, runs, replies, closed, sent, faults>>
  BY DEF Collect, At, durable, IInv, Delivery, Claimed
<1>2. /\ inbox[cursor + 1] \in Burst /\ Burst \subseteq ToSet(inbox)
      /\ Burst \in Turns /\ Burst \in SUBSET Messages
  BY <1>1, BurstShape DEF IInv
<1>3. CASE Burst \in closed
  <2>1. processed' = processed \cup Burst /\ Succeeds /\ UNCHANGED route
    BY <1>3 DEF Collect
  <2>2. TypeOK'
    BY <1>1, <1>2, <2>1, AnswerTyped DEF IInv, TypeOK
  <2> QED
    BY <1>1, <2>1, <2>2, IdleKeeps DEF IInv, Succeeds
<1>4. CASE Burst \notin closed
  <2>1. PICK routed \in IF Cardinality(Burst) > 1 THEN SUBSET Burst ELSE {{}} :
           /\ route' = [route EXCEPT ![Burst] = {routed}]
           /\ handler' = [handler EXCEPT !.pc = "turn", !.batch = Burst,
                                         !.todo = Groups(Burst, routed)]
    BY <1>4 DEF Collect
  <2>2. UNCHANGED <<cursor, attempt, job, processed>>
    BY <1>4 DEF Collect
  <2>3. routed \in SUBSET Burst /\ routed \in SUBSET Messages
    BY <1>2
  <2>4. /\ Groups(Burst, routed) \subseteq Group /\ Groups(Burst, routed) # {}
        /\ \A g \in Groups(Burst, routed) : g.turn \subseteq Burst
    BY <1>2, <2>3, GroupsShape
  <2>5. TypeOK'
    BY <1>1, <1>2, <2>1, <2>2, <2>3, <2>4 DEF IInv, TypeOK, PcValues
  <2>6. /\ handler'.pc = "turn" /\ handler'.batch = Burst /\ handler'.todo = Groups(Burst, routed)
        /\ handler'.part = handler.part /\ handler.part = 0
    BY <1>1, <2>1 DEF IInv, TypeOK, Delivery
  <2>7. Delivery'
    BY <1>1, <1>2, <2>2, <2>4, <2>6 DEF IInv, TypeOK, Delivery, Claimed, Formed, Turning
  <2>8. Progress' /\ ReplyFirst'
    BY <1>1, <2>6 DEF IInv, Progress, ReplyFirst, ReplyKept, DeliveredFirst, Stored
  <2> QED
    BY <2>5, <2>7, <2>8 DEF IInv
<1> QED
  BY <1>3, <1>4

LEMMA CrashStep ==
    ASSUME IInv, Crash
    PROVE  IInv'
<1>1. /\ handler' = Idle /\ pending' = {} /\ job' = Shut /\ faults' = faults + 1 /\ faults < MaxFaults
      /\ UNCHANGED <<inbox, cursor, attempt, turn, outbox, runs, replies, closed, processed, sent, route>>
  BY DEF Crash, Fault, batching, history
<1>2. TypeOK'
  BY <1>1, ShutTyped, IdleTyped, IngressAssumption DEF IInv, TypeOK
<1> QED
  BY <1>1, <1>2, IdleKeeps DEF IInv

-----------------------------------------------------------------------------
(* The steps of a turn.                                                    *)

\* A step within the turn stays with its batch and its group.
LEMMA TurnMoves ==
    ASSUME IInv, handler.pc \in Turning, UNCHANGED <<inbox, cursor, processed>>,
           handler'.pc \in Turning,
           handler'.pc \in {"turn", "executing", "stored", "reply"} => handler'.part = 0,
           handler'.todo = handler.todo, handler'.batch = handler.batch
    PROVE  /\ Delivery'
           /\ Current' = Current /\ CurrentGroup' = CurrentGroup
           /\ CurrentGroup \in handler.todo /\ CurrentGroup \in Group /\ Current \in Turns
           /\ Current = CurrentGroup.turn /\ Current \subseteq handler.batch
<1>1. handler.todo # {} /\ Delivery /\ TypeOK
  BY DEF IInv, Delivery
<1>2. /\ CurrentGroup \in handler.todo /\ CurrentGroup \in Group /\ Current \in Turns
      /\ Current = CurrentGroup.turn /\ Current \subseteq handler.batch
  BY <1>1, CurrentShape
<1>3. Current' = Current /\ CurrentGroup' = CurrentGroup
  BY DEF Current, CurrentGroup, Earliest
<1>4. Delivery'
  BY <1>1 DEF Delivery, Turning, Formed, Claimed
<1> QED
  BY <1>2, <1>3, <1>4

LEMMA BeginTurnStep ==
    ASSUME IInv, BeginTurn
    PROVE  IInv'
<1>1. /\ handler.pc = "turn"
      /\ UNCHANGED <<inbox, cursor, attempt, turn, runs, replies, closed, processed, job, sent, route, faults>>
  BY DEF BeginTurn, At, batching, history
<1>2. /\ Current \in Turns /\ handler.part = 0
  BY <1>1, CurrentShape DEF IInv, Delivery, Turning
<1>3. PICK p \in {"collect", "reply", "finalize", "complete", "executing"} :
         /\ handler' = To(p)
         /\ p = "collect" =>
               /\ "completed" \in turn[Current]
               /\ outbox' = [outbox EXCEPT ![Current] = NoReply]
               /\ pending' = pending \ {Current}
         /\ p # "collect" => UNCHANGED <<outbox, pending>>
         /\ p = "executing" => turn[Current] = {}
         /\ p \in {"reply", "finalize", "complete"} =>
               turn[Current] # {} /\ "completed" \notin turn[Current]
         /\ p \in {"finalize", "complete"} => "delivered" \in turn[Current]
  BY DEF BeginTurn
<1>4. /\ handler' \in [pc: PcValues, batch: SUBSET Messages, todo: SUBSET Group,
                       part: 0..1, got: SUBSET Texts]
      /\ handler'.pc = p /\ handler'.batch = handler.batch
      /\ handler'.todo = handler.todo /\ handler'.part = handler.part
  BY <1>3, ToTyped DEF IInv, PcValues
<1>5. Delivery' /\ Current' = Current
  BY <1>1, <1>2, <1>4, TurnMoves DEF Turning
<1>6. outbox' \in [Turns -> [text: Texts, final: Finals] \cup {NoReply}] /\ pending' \subseteq Turns
  BY <1>2, <1>3 DEF IInv, TypeOK
<1>7. TypeOK'
  BY <1>1, <1>4, <1>6 DEF IInv, TypeOK
<1>8. Progress'
  BY <1>1, <1>3, <1>4, <1>5 DEF Progress
<1>9. ReplyFirst'
  <2>1. \A t \in Turns : "completed" \notin turn[t] => outbox'[t] = outbox[t]
    BY <1>3 DEF IInv, TypeOK
  <2> QED
    BY <1>1, <2>1 DEF IInv, ReplyFirst, ReplyKept, DeliveredFirst, Stored
<1> QED
  BY <1>5, <1>7, <1>8, <1>9 DEF IInv

\* The failure of a turn is told, and ends the delivery.
LEMMA FailingKeeps ==
    ASSUME IInv, handler.pc = "executing", Failing(Current)
    PROVE  /\ replies' \in Seq(BatchReply) /\ cursor' \in 0 .. Len(inbox) /\ attempt' \in Nat
           /\ handler' = Idle
           /\ handler' \in [pc: PcValues, batch: SUBSET Messages, todo: SUBSET Group,
                            part: 0..1, got: SUBSET Texts]
           /\ job' \in [Turns -> {"none", "open", "shut", "told"}]
<1>1. CurrentGroup \in Group /\ Current \in Turns /\ handler.part \in 0 .. 1 /\ cursor < Len(inbox)
  BY CurrentShape DEF IInv, Delivery, Turning, TypeOK
<1>2. Text(Current, "failure", 0) \in Texts
  BY <1>1 DEF Text, Texts
<1>3. Replied(CurrentGroup, handler.part, Text(Current, "failure", 0)) /\ Throws
  BY DEF Failing
<1>4. replies' \in Seq(BatchReply)
  BY <1>1, <1>2, <1>3, RepliedShape DEF IInv
<1> QED
  BY <1>1, <1>3, <1>4, AnswerTyped DEF IInv

LEMMA ExecutorFailsStep ==
    ASSUME IInv, ExecutorFails
    PROVE  IInv'
<1>1. /\ handler.pc = "executing" /\ Failing(Current) /\ faults' = faults + 1 /\ faults < MaxFaults
      /\ UNCHANGED <<inbox, turn, outbox, pending, runs, closed, processed, sent, route>>
  BY DEF ExecutorFails, At, Fault, durable, history
<1>2. faults' \in 0 .. MaxFaults
  BY <1>1, IngressAssumption DEF IInv, TypeOK
<1>3. TypeOK'
  BY <1>1, <1>2, FailingKeeps DEF IInv, TypeOK, BatchReply
<1> QED
  BY <1>1, <1>3, FailingKeeps, IdleKeeps DEF IInv

LEMMA ExecutorReturnsStep ==
    ASSUME IInv, NEW final \in Finals, NEW background \in BOOLEAN, ExecutorReturns(final, background)
    PROVE  IInv'
<1> DEFINE n == IF Stable \/ background THEN 1 ELSE runs[Current] + 1
           row == [text |-> Text(Current, "result", n), final |-> final]
<1>1. /\ handler.pc = "executing" /\ runs' = [runs EXCEPT ![Current] = @ + 1]
      /\ UNCHANGED <<inbox, turn, pending, closed, processed, sent, route, faults>>
  BY DEF ExecutorReturns, At, history
<1>2. Current \in Turns /\ turn[Current] = {} /\ handler.part = 0
  BY <1>1, CurrentShape DEF IInv, Delivery, Progress, Turning
<1>3. runs' \in [Turns -> Nat]
  BY <1>1, <1>2 DEF IInv, TypeOK
<1>4. row \in [text: Texts, final: Finals] /\ row # NoReply
  <2>1. n \in Nat
    BY <1>2 DEF IInv, TypeOK
  <2> HIDE DEF n
  <2>2. Text(Current, "result", n) \in Texts
    BY <1>2, <2>1 DEF Text, Texts
  <2>3. Text(Current, "result", n) # NoText
    BY DEF Text, NoText
  <2> QED
    BY <2>2, <2>3 DEF NoReply
<1>5. CASE Stored(Current) /\ outbox[Current] # row
  <2>1. Failing(Current) /\ UNCHANGED outbox
    BY <1>5 DEF ExecutorReturns
  <2>2. TypeOK'
    BY <1>1, <1>3, <2>1, FailingKeeps DEF IInv, TypeOK, BatchReply
  <2> QED
    BY <1>1, <2>1, <2>2, FailingKeeps, IdleKeeps DEF IInv
<1>6. CASE ~(Stored(Current) /\ outbox[Current] # row)
  <2>1. /\ outbox' = [outbox EXCEPT ![Current] = row]
        /\ handler' = To("stored")
        /\ job' \in {job, [job EXCEPT ![Current] = "open"]}
        /\ UNCHANGED <<cursor, attempt, replies>>
    BY <1>6 DEF ExecutorReturns
  <2> HIDE DEF row
  <2>2. /\ handler' \in [pc: PcValues, batch: SUBSET Messages, todo: SUBSET Group,
                         part: 0..1, got: SUBSET Texts]
        /\ handler'.pc = "stored" /\ handler'.batch = handler.batch
        /\ handler'.todo = handler.todo /\ handler'.part = handler.part
    BY <2>1, ToTyped DEF IInv, PcValues
  <2>3. Delivery' /\ Current' = Current
    BY <1>1, <1>2, <2>1, <2>2, TurnMoves DEF Turning
  <2>4. /\ outbox' \in [Turns -> [text: Texts, final: Finals] \cup {NoReply}]
        /\ job' \in [Turns -> {"none", "open", "shut", "told"}]
    BY <1>2, <1>4, <2>1 DEF IInv, TypeOK
  <2>5. TypeOK'
    BY <1>1, <1>3, <2>1, <2>2, <2>4 DEF IInv, TypeOK
  <2>6. \A t \in Turns : t # Current => outbox'[t] = outbox[t]
    BY <2>1 DEF IInv, TypeOK
  <2>7. outbox'[Current] # NoReply
    BY <1>2, <1>4, <2>1 DEF IInv, TypeOK
  <2>8. Progress'
    BY <1>1, <1>2, <2>2, <2>3, <2>7 DEF Progress, Stored
  <2>9. ReplyFirst'
    BY <1>1, <1>2, <2>6 DEF IInv, ReplyFirst, ReplyKept, DeliveredFirst, Stored
  <2> QED
    BY <2>3, <2>5, <2>8, <2>9 DEF IInv
<1> QED
  BY <1>5, <1>6

LEMMA PublishExecutedStep ==
    ASSUME IInv, PublishExecuted
    PROVE  IInv'
<1>1. /\ handler.pc = "stored" /\ turn' = [turn EXCEPT ![Current] = {"executed"}]
      /\ pending' \in {pending, pending \cup {Current}}
      /\ handler' = To("reply")
      /\ UNCHANGED <<inbox, cursor, attempt, outbox, replies, closed, processed, runs, job, sent, route, faults>>
  BY DEF PublishExecuted, At, batching, history
<1>2. Current \in Turns /\ turn[Current] = {} /\ Stored(Current) /\ handler.part = 0
  BY <1>1, CurrentShape DEF IInv, Delivery, Progress, Turning
<1>3. /\ handler' \in [pc: PcValues, batch: SUBSET Messages, todo: SUBSET Group,
                       part: 0..1, got: SUBSET Texts]
      /\ handler'.pc = "reply" /\ handler'.batch = handler.batch
      /\ handler'.todo = handler.todo /\ handler'.part = handler.part
  BY <1>1, ToTyped DEF IInv, PcValues
<1>4. Delivery' /\ Current' = Current
  BY <1>1, <1>2, <1>3, TurnMoves DEF Turning
<1>5. /\ turn' \in [Turns -> SUBSET {"executed", "delivered", "finalized", "completed"}]
      /\ turn'[Current] = {"executed"}
      /\ \A t \in Turns : t # Current => turn'[t] = turn[t]
  BY <1>1, <1>2 DEF IInv, TypeOK
<1>6. TypeOK'
  BY <1>1, <1>2, <1>3, <1>5 DEF IInv, TypeOK
<1>7. Progress'
  BY <1>3, <1>4, <1>5 DEF Progress
<1>8. ReplyFirst'
  BY <1>1, <1>2, <1>5 DEF IInv, ReplyFirst, ReplyKept, DeliveredFirst, Stored
<1> QED
  BY <1>4, <1>6, <1>7, <1>8 DEF IInv

LEMMA ReplyStep ==
    ASSUME IInv, Reply
    PROVE  IInv'
<1>1. /\ handler.pc = "reply" /\ Replied(CurrentGroup, handler.part, outbox[Current].text)
      /\ handler' = [To("delivery") EXCEPT !.part = @ + 1]
      /\ UNCHANGED <<inbox, cursor, attempt, turn, outbox, pending, runs, closed, processed, job,
                     sent, route, faults>>
  BY DEF Reply, At, durable, history
<1>2. /\ CurrentGroup \in Group /\ Current \in Turns /\ handler.part = 0
      /\ turn[Current] # {} /\ "completed" \notin turn[Current]
  BY <1>1, CurrentShape DEF IInv, Delivery, Progress, Turning
<1>3. outbox[Current] # NoReply
  BY <1>2 DEF IInv, ReplyFirst, ReplyKept, Stored
<1>4. outbox[Current].text \in Texts
  BY <1>2, <1>3 DEF IInv, TypeOK
<1>5. replies' \in Seq(BatchReply)
  BY <1>1, <1>2, <1>4, RepliedShape DEF IInv
<1>6. /\ handler' \in [pc: PcValues, batch: SUBSET Messages, todo: SUBSET Group,
                       part: 0..1, got: SUBSET Texts]
      /\ handler'.pc = "delivery" /\ handler'.batch = handler.batch
      /\ handler'.todo = handler.todo
  <2>1. handler' = [handler EXCEPT !.pc = "delivery", !.part = handler.part + 1]
    BY <1>1 DEF To
  <2>2. handler.part + 1 \in 0 .. 1 /\ "delivery" \in PcValues
    BY <1>2 DEF PcValues
  <2> QED
    BY <2>1, <2>2 DEF IInv, TypeOK
<1>7. Delivery' /\ Current' = Current
  BY <1>1, <1>6, TurnMoves DEF Turning
<1>8. TypeOK'
  BY <1>1, <1>5, <1>6 DEF IInv, TypeOK, BatchReply
<1>9. Progress' /\ ReplyFirst'
  BY <1>1, <1>2, <1>6, <1>7 DEF IInv, Progress, ReplyFirst, ReplyKept, DeliveredFirst, Stored
<1> QED
  BY <1>7, <1>8, <1>9 DEF IInv

\* A further event of a turn that was executed and is not completed yet.
LEMMA TurnRecorded ==
    ASSUME IInv, handler.pc \in {"delivery", "finalize", "complete"},
           NEW event \in {"delivered", "finalized", "completed"},
           turn' = [turn EXCEPT ![Current] = @ \cup {event}]
    PROVE  /\ Current \in Turns /\ turn[Current] # {} /\ "completed" \notin turn[Current]
           /\ turn' \in [Turns -> SUBSET {"executed", "delivered", "finalized", "completed"}]
           /\ turn'[Current] = turn[Current] \cup {event}
           /\ \A t \in Turns : t # Current => turn'[t] = turn[t]
<1>1. Current \in Turns
  BY CurrentShape DEF IInv, Delivery, Turning
<1>2. turn[Current] # {} /\ "completed" \notin turn[Current]
  BY DEF IInv, Progress
<1> QED
  BY <1>1, <1>2 DEF IInv, TypeOK

LEMMA PublishDeliveredStep ==
    ASSUME IInv, PublishDelivered
    PROVE  IInv'
<1>1. /\ handler.pc = "delivery" /\ turn' = [turn EXCEPT ![Current] = @ \cup {"delivered"}]
      /\ UNCHANGED <<inbox, cursor, attempt, outbox, pending, replies, closed, processed, runs, job,
                     sent, route, faults>>
  BY DEF PublishDelivered, At, batching, history
<1>2. PICK p \in {"finalize", "complete"} : handler' = To(p)
  BY DEF PublishDelivered
<1>3. /\ handler' \in [pc: PcValues, batch: SUBSET Messages, todo: SUBSET Group,
                       part: 0..1, got: SUBSET Texts]
      /\ handler'.pc = p /\ handler'.batch = handler.batch
      /\ handler'.todo = handler.todo /\ handler'.part = handler.part
  BY <1>2, ToTyped DEF IInv, PcValues
<1>4. Delivery' /\ Current' = Current
  BY <1>1, <1>3, TurnMoves DEF Turning
<1>5. /\ Current \in Turns /\ turn[Current] # {} /\ "completed" \notin turn[Current]
      /\ turn' \in [Turns -> SUBSET {"executed", "delivered", "finalized", "completed"}]
      /\ turn'[Current] = turn[Current] \cup {"delivered"}
      /\ \A t \in Turns : t # Current => turn'[t] = turn[t]
  BY <1>1, TurnRecorded
<1>6. TypeOK'
  BY <1>1, <1>3, <1>5 DEF IInv, TypeOK
<1>7. Progress'
  BY <1>3, <1>4, <1>5 DEF Progress
<1>8. ReplyFirst'
  BY <1>1, <1>5 DEF IInv, ReplyFirst, ReplyKept, DeliveredFirst, Stored
<1> QED
  BY <1>4, <1>6, <1>7, <1>8 DEF IInv

LEMMA RunFinalizersStep ==
    ASSUME IInv, RunFinalizers
    PROVE  IInv'
<1>1. /\ handler.pc = "finalize" /\ turn' = [turn EXCEPT ![Current] = @ \cup {"finalized"}]
      /\ handler' = To("complete")
      /\ UNCHANGED <<inbox, cursor, attempt, outbox, pending, replies, closed, processed, runs, job,
                     sent, route, faults>>
  BY DEF RunFinalizers, At, batching, history
<1>2. /\ handler' \in [pc: PcValues, batch: SUBSET Messages, todo: SUBSET Group,
                       part: 0..1, got: SUBSET Texts]
      /\ handler'.pc = "complete" /\ handler'.batch = handler.batch
      /\ handler'.todo = handler.todo /\ handler'.part = handler.part
  BY <1>1, ToTyped DEF IInv, PcValues
<1>3. Delivery' /\ Current' = Current
  BY <1>1, <1>2, TurnMoves DEF Turning
<1>4. /\ Current \in Turns /\ turn[Current] # {} /\ "completed" \notin turn[Current]
      /\ turn' \in [Turns -> SUBSET {"executed", "delivered", "finalized", "completed"}]
      /\ turn'[Current] = turn[Current] \cup {"finalized"}
      /\ \A t \in Turns : t # Current => turn'[t] = turn[t]
  BY <1>1, TurnRecorded
<1>5. "delivered" \in turn[Current]
  BY <1>1 DEF IInv, Progress
<1>6. TypeOK'
  BY <1>1, <1>2, <1>4 DEF IInv, TypeOK
<1>7. Progress'
  BY <1>2, <1>3, <1>4, <1>5 DEF Progress
<1>8. ReplyFirst'
  BY <1>1, <1>4, <1>5 DEF IInv, ReplyFirst, ReplyKept, DeliveredFirst, Stored
<1> QED
  BY <1>3, <1>6, <1>7, <1>8 DEF IInv

LEMMA FinalizersFailStep ==
    ASSUME IInv, FinalizersFail
    PROVE  IInv'
<1>1. /\ handler.pc = "finalize" /\ Throws
      /\ UNCHANGED <<inbox, turn, outbox, pending, runs, replies, closed, processed, sent, route>>
  BY DEF FinalizersFail, At, durable, batching, history
<1>2. faults' \in 0 .. MaxFaults
  <2>1. faults' = faults \/ (faults' = faults + 1 /\ faults < MaxFaults)
    BY DEF FinalizersFail, Fault
  <2> QED
    BY <2>1, IngressAssumption DEF IInv, TypeOK
<1>3. cursor < Len(inbox)
  BY <1>1 DEF IInv, Delivery
<1>4. TypeOK'
  BY <1>1, <1>2, <1>3, AnswerTyped DEF IInv, TypeOK
<1> QED
  BY <1>1, <1>4, IdleKeeps DEF IInv, Throws

LEMMA PublishCompletedStep ==
    ASSUME IInv, PublishCompleted
    PROVE  IInv'
<1>1. /\ handler.pc = "complete" /\ turn' = [turn EXCEPT ![Current] = @ \cup {"completed"}]
      /\ outbox' = [outbox EXCEPT ![Current] = NoReply]
      /\ pending' = pending \ {Current}
      /\ handler' = To("collect")
      /\ UNCHANGED <<inbox, cursor, attempt, replies, closed, processed, runs, job, sent, route, faults>>
  BY DEF PublishCompleted, At, batching, history
<1>2. /\ handler' \in [pc: PcValues, batch: SUBSET Messages, todo: SUBSET Group,
                       part: 0..1, got: SUBSET Texts]
      /\ handler'.pc = "collect" /\ handler'.batch = handler.batch
      /\ handler'.todo = handler.todo /\ handler'.part = handler.part
  BY <1>1, ToTyped DEF IInv, PcValues
<1>3. Delivery' /\ Current' = Current
  BY <1>1, <1>2, TurnMoves DEF Turning
<1>4. /\ Current \in Turns /\ turn[Current] # {} /\ "completed" \notin turn[Current]
      /\ turn' \in [Turns -> SUBSET {"executed", "delivered", "finalized", "completed"}]
      /\ turn'[Current] = turn[Current] \cup {"completed"}
      /\ \A t \in Turns : t # Current => turn'[t] = turn[t]
  BY <1>1, TurnRecorded
<1>5. "delivered" \in turn[Current]
  BY <1>1 DEF IInv, Progress
<1>6. /\ outbox' \in [Turns -> [text: Texts, final: Finals] \cup {NoReply}]
      /\ \A t \in Turns : t # Current => outbox'[t] = outbox[t]
  BY <1>1, <1>4 DEF IInv, TypeOK
<1>7. TypeOK'
  BY <1>1, <1>2, <1>4, <1>6 DEF IInv, TypeOK
<1>8. Progress'
  BY <1>2 DEF Progress
<1>9. ReplyFirst'
  BY <1>4, <1>5, <1>6 DEF IInv, ReplyFirst, ReplyKept, DeliveredFirst, Stored
<1> QED
  BY <1>3, <1>7, <1>8, <1>9 DEF IInv

-----------------------------------------------------------------------------
(* The steps of the reply of the batch.                                    *)

LEMMA CollectRepliesStep ==
    ASSUME IInv, CollectReplies
    PROVE  IInv'
<1> DEFINE mine == {r \in Scanned : r.batch = handler.batch /\ r.group = CurrentGroup}
           rest == handler.todo \ {CurrentGroup}
<1>1. /\ handler.pc = "collect"
      /\ handler' = [handler EXCEPT !.pc = IF rest = {} THEN "send" ELSE "turn",
                                    !.todo = rest, !.part = 0,
                                    !.got = @ \cup {r.text : r \in mine}]
      /\ UNCHANGED <<inbox, cursor, attempt, turn, outbox, pending, runs, replies, closed, processed,
                     job, sent, route, faults>>
  BY DEF CollectReplies, At, durable, batching, history
<1>2. \A r \in Scanned : r \in BatchReply
  <2>1. Len(replies) \in Nat /\ \A n \in 1 .. Len(replies) : replies[n] \in BatchReply
    BY InboxShape DEF IInv
  <2>2. ReplyLimit \in Nat
    BY IngressAssumption
  <2> QED
    BY <2>1, <2>2 DEF Scanned
<1>3. {r.text : r \in mine} \subseteq Texts
  BY <1>2 DEF BatchReply
<1> HIDE DEF mine
<1>4. rest \subseteq handler.todo
  OBVIOUS
<1>5. /\ handler' \in [pc: PcValues, batch: SUBSET Messages, todo: SUBSET Group,
                       part: 0..1, got: SUBSET Texts]
      /\ handler'.pc = (IF rest = {} THEN "send" ELSE "turn")
      /\ handler'.batch = handler.batch /\ handler'.todo = rest /\ handler'.part = 0
  <2> DEFINE p == IF rest = {} THEN "send" ELSE "turn"
             new == {r.text : r \in mine}
  <2>1. p \in PcValues /\ new \subseteq Texts
    BY <1>3 DEF PcValues
  <2>2. handler' = [handler EXCEPT !.pc = p, !.todo = rest, !.part = 0, !.got = @ \cup new]
    BY <1>1
  <2> HIDE DEF p, new, rest
  <2>3. /\ handler' \in [pc: PcValues, batch: SUBSET Messages, todo: SUBSET Group,
                         part: 0..1, got: SUBSET Texts]
        /\ handler'.pc = p
        /\ handler'.batch = handler.batch /\ handler'.todo = rest /\ handler'.part = 0
    <3>1. handler \in [pc: PcValues, batch: SUBSET Messages, todo: SUBSET Group,
                       part: 0..1, got: SUBSET Texts]
      BY DEF IInv, TypeOK
    <3>2. rest \in SUBSET Group /\ handler.got \cup new \in SUBSET Texts /\ 0 \in 0 .. 1
      BY <1>4, <2>1, <3>1
    <3> QED
      BY <2>1, <2>2, <3>1, <3>2
  <2> QED
    BY <2>3 DEF p
<1> HIDE DEF rest
<1>6. TypeOK'
  BY <1>1, <1>5 DEF IInv, TypeOK
<1>7. Delivery'
  BY <1>1, <1>4, <1>5 DEF IInv, Delivery, Turning, Formed, Claimed
<1>8. Progress' /\ ReplyFirst'
  BY <1>1, <1>5 DEF IInv, Progress, ReplyFirst, ReplyKept, DeliveredFirst, Stored
<1> QED
  BY <1>6, <1>7, <1>8 DEF IInv

LEMMA SendStep ==
    ASSUME IInv, Send
    PROVE  IInv'
<1>1. /\ handler.pc = "send" /\ sent' = sent \cup handler.got /\ handler' = To("mark")
      /\ UNCHANGED <<inbox, cursor, attempt, turn, outbox, pending, runs, replies, closed, processed,
                     job, route, faults>>
  BY DEF Send, At, durable, batching
<1>2. /\ handler' \in [pc: PcValues, batch: SUBSET Messages, todo: SUBSET Group,
                       part: 0..1, got: SUBSET Texts]
      /\ handler'.pc = "mark" /\ handler'.batch = handler.batch
      /\ handler'.todo = handler.todo /\ handler'.part = handler.part
  BY <1>1, ToTyped DEF IInv, PcValues
<1>3. TypeOK'
  BY <1>1, <1>2 DEF IInv, TypeOK
<1>4. Delivery' /\ Progress' /\ ReplyFirst'
  BY <1>1, <1>2 DEF IInv, Delivery, Turning, Formed, Claimed,
                    Progress, ReplyFirst, ReplyKept, DeliveredFirst, Stored
<1> QED
  BY <1>3, <1>4 DEF IInv

LEMMA SendFailsStep ==
    ASSUME IInv, SendFails
    PROVE  IInv'
<1>1. /\ handler.pc = "send" /\ Throws /\ faults' = faults + 1 /\ faults < MaxFaults
      /\ UNCHANGED <<inbox, turn, outbox, pending, runs, replies, closed, processed, sent, route>>
  BY DEF SendFails, At, Fault, durable, batching, history
<1>2. cursor < Len(inbox) /\ faults' \in 0 .. MaxFaults
  BY <1>1, IngressAssumption DEF IInv, Delivery, TypeOK
<1>3. TypeOK'
  BY <1>1, <1>2, AnswerTyped DEF IInv, TypeOK
<1> QED
  BY <1>1, <1>3, IdleKeeps DEF IInv, Throws

LEMMA MarkDeliveredStep ==
    ASSUME IInv, MarkDelivered
    PROVE  IInv'
<1>1. /\ handler.pc = "mark" /\ closed' = closed \cup {handler.batch} /\ handler' = To("process")
      /\ UNCHANGED <<inbox, cursor, attempt, turn, outbox, pending, runs, replies, processed,
                     job, sent, route, faults>>
  BY DEF MarkDelivered, At, durable, history
<1>2. /\ handler' \in [pc: PcValues, batch: SUBSET Messages, todo: SUBSET Group,
                       part: 0..1, got: SUBSET Texts]
      /\ handler'.pc = "process" /\ handler'.batch = handler.batch
      /\ handler'.todo = handler.todo /\ handler'.part = handler.part
  BY <1>1, ToTyped DEF IInv, PcValues
<1>3. handler.batch \subseteq Messages
  BY DEF IInv, TypeOK
<1>4. TypeOK'
  BY <1>1, <1>2, <1>3 DEF IInv, TypeOK
<1>5. Delivery' /\ Progress' /\ ReplyFirst'
  BY <1>1, <1>2 DEF IInv, Delivery, Turning, Formed, Claimed,
                    Progress, ReplyFirst, ReplyKept, DeliveredFirst, Stored
<1> QED
  BY <1>4, <1>5 DEF IInv

LEMMA MarkProcessedStep ==
    ASSUME IInv, MarkProcessed
    PROVE  IInv'
<1> DEFINE left == handler.batch \ processed
<1>1. /\ handler.pc = "process" /\ processed' = processed \cup {Earliest(left)}
      /\ UNCHANGED <<inbox, turn, outbox, pending, runs, replies, closed, sent, route, faults>>
  BY DEF MarkProcessed, At, durable, history
<1>2. Earliest(left) \in left
  <2>1. left \in SUBSET ToSet(inbox) /\ left # {}
    BY <1>1 DEF IInv, Delivery
  <2> HIDE DEF left
  <2> QED
    BY <2>1, EarliestIn DEF IInv
<1>3. processed' \subseteq Messages /\ cursor < Len(inbox)
  BY <1>1, <1>2 DEF IInv, TypeOK, Delivery
<1>4. CASE left = {Earliest(left)}
  <2>1. Succeeds
    BY <1>4 DEF MarkProcessed
  <2>2. TypeOK'
    BY <1>1, <1>3, <2>1, AnswerTyped DEF IInv, TypeOK
  <2> QED
    BY <1>1, <2>1, <2>2, IdleKeeps DEF IInv, Succeeds
<1>5. CASE left # {Earliest(left)}
  <2>1. UNCHANGED <<cursor, attempt, handler, job>>
    BY <1>5 DEF MarkProcessed
  <2>2. TypeOK'
    BY <1>1, <1>3, <2>1 DEF IInv, TypeOK
  <2>3. ~(handler.batch \subseteq processed')
    BY <1>1, <1>2, <1>5
  <2>4. Delivery' /\ Progress' /\ ReplyFirst'
    BY <1>1, <2>1, <2>3 DEF IInv, Delivery, Turning, Formed, Claimed,
                            Progress, ReplyFirst, ReplyKept, DeliveredFirst, Stored
  <2> QED
    BY <2>2, <2>4 DEF IInv
<1> QED
  BY <1>4, <1>5

LEMMA JobReportsStep ==
    ASSUME IInv, NEW t \in Turns, JobReports(t)
    PROVE  IInv'
<1> DEFINE report == Text(t, "report", 1)
<1>1. /\ job' = [job EXCEPT ![t] = "told"]
      /\ UNCHANGED <<inbox, cursor, attempt, handler, turn, outbox, pending, runs, closed, processed,
                     route, faults>>
  BY DEF JobReports, durable
<1>2. report \in Texts
  BY DEF Text, Texts
<1>3. replies' \in Seq(BatchReply) /\ sent' \subseteq Texts
  <2>1. CASE job[t] = "open"
    <3>1. PICK n \in DOMAIN replies : Replied(replies[n].group, 1, report) /\ UNCHANGED sent
      BY <2>1 DEF JobReports
    <3>2. replies[n].group \in Group
      BY <3>1, InboxShape DEF IInv, BatchReply
    <3> QED
      BY <1>2, <3>1, <3>2, RepliedShape DEF IInv, TypeOK
  <2>2. CASE job[t] # "open"
    <3>1. sent' = sent \cup {report} /\ UNCHANGED replies
      BY <2>2 DEF JobReports
    <3> QED
      BY <1>2, <3>1 DEF IInv, TypeOK, BatchReply
  <2> QED
    BY <2>1, <2>2
<1>4. job' \in [Turns -> {"none", "open", "shut", "told"}]
  BY <1>1 DEF IInv, TypeOK
<1>5. TypeOK'
  BY <1>1, <1>3, <1>4 DEF IInv, TypeOK, BatchReply
<1>6. Delivery'
  BY <1>1 DEF IInv, Delivery
<1>7. Progress'
  <2>1. Current' = Current
    BY <1>1 DEF Current, CurrentGroup, Earliest
  <2> QED
    BY <1>1, <2>1 DEF IInv, Progress, Stored
<1>8. ReplyFirst'
  BY <1>1 DEF IInv, ReplyFirst, ReplyKept, DeliveredFirst, Stored
<1> QED
  BY <1>5, <1>6, <1>7, <1>8 DEF IInv

-----------------------------------------------------------------------------
(* Theorems about the turn.                                                *)

LEMMA InitIInv == Init => IInv
<1> SUFFICES ASSUME Init PROVE IInv
  OBVIOUS
<1>1. TypeOK
  <2>1. <<>> \in Seq(Messages) /\ <<>> \in Seq(BatchReply) /\ Len(<<>>) = 0
    BY EmptySeq
  <2> QED
    BY <2>1, IdleTyped, IngressAssumption DEF Init, TypeOK, BatchReply
<1>2. Delivery /\ Progress /\ ReplyFirst
  BY DEF Init, Idle, Delivery, Progress, ReplyFirst, ReplyKept, DeliveredFirst, Turning, Formed, Claimed
<1> QED
  BY <1>1, <1>2 DEF IInv

LEMMA StutterKeeps ==
    ASSUME IInv, UNCHANGED vars
    PROVE  IInv'
<1>1. UNCHANGED <<inbox, cursor, attempt, handler, turn, outbox, pending, replies, closed, processed,
                  runs, job, sent, route, faults>>
  BY DEF vars
<1>2. Current' = Current
  BY <1>1 DEF Current, CurrentGroup, Earliest
<1> QED
  BY <1>1, <1>2 DEF IInv, TypeOK, Delivery, Progress, ReplyFirst, ReplyKept, DeliveredFirst, Stored

LEMMA NextIInv == IInv /\ [Next]_vars => IInv'
<1> SUFFICES ASSUME IInv, [Next]_vars PROVE IInv'
  OBVIOUS
<1>1. CASE Step
  BY <1>1, ClaimStep, CollectStep, BeginTurnStep, PublishExecutedStep, ReplyStep, PublishDeliveredStep,
     RunFinalizersStep, PublishCompletedStep, CollectRepliesStep, SendStep, MarkDeliveredStep,
     MarkProcessedStep, ExecutorReturnsStep DEF Step
<1>2. CASE ExecutorFails \/ FinalizersFail \/ SendFails \/ Crash
  BY <1>2, ExecutorFailsStep, FinalizersFailStep, SendFailsStep, CrashStep
<1>3. CASE (\E m \in Messages : Admit(m)) \/ (\E t \in Turns : JobReports(t))
  BY <1>3, AdmitStep, JobReportsStep
<1>4. CASE UNCHANGED vars
  BY <1>4, StutterKeeps
<1> QED
  BY <1>1, <1>2, <1>3, <1>4 DEF Next

\* Every variable has the shape its table or object has.
THEOREM TypeCorrect == Spec => []TypeOK
<1>1. IInv => TypeOK
  BY DEF IInv
<1> QED
  BY <1>1, InitIInv, NextIInv, PTL DEF Spec

\* A turn that was executed and is not completed keeps its reply, and its reply
\* was handed on before its finalizers ran and before it is completed.
THEOREM RepliesComeFirst == Spec => []ReplyFirst
<1>1. IInv => ReplyFirst
  BY DEF IInv
<1> QED
  BY <1>1, InitIInv, NextIInv, PTL DEF Spec

\* No executor returns for a turn whose executed event is in the log.
THEOREM TurnsExecuteOnce == Spec => ExecutedOnce
<1>1. IInv /\ [Next]_vars => [\A t \in Turns : turn[t] # {} => runs'[t] = runs[t]]_<<turn, runs>>
  <2> SUFFICES ASSUME IInv, [Next]_vars, NEW t \in Turns, turn[t] # {}
               PROVE  runs'[t] = runs[t]
    OBVIOUS
  <2>1. ASSUME NEW final \in Finals, NEW background \in BOOLEAN, ExecutorReturns(final, background)
        PROVE  runs'[t] = runs[t]
    <3>1. /\ handler.pc = "executing" /\ runs' = [runs EXCEPT ![Current] = @ + 1]
      BY <2>1 DEF ExecutorReturns, At
    <3>2. turn[Current] = {}
      BY <3>1 DEF IInv, Progress
    <3> QED
      BY <3>1, <3>2 DEF IInv, TypeOK
  <2>2. CASE \/ Claim \/ Collect \/ BeginTurn \/ PublishExecuted \/ Reply \/ PublishDelivered
             \/ RunFinalizers \/ PublishCompleted
    BY <2>2 DEF Claim, Collect, BeginTurn, PublishExecuted, Reply, PublishDelivered,
                RunFinalizers, PublishCompleted, durable
  <2>3. CASE CollectReplies \/ Send \/ MarkDelivered \/ MarkProcessed
    BY <2>3 DEF CollectReplies, Send, MarkDelivered, MarkProcessed, durable
  <2>4. CASE ExecutorFails \/ FinalizersFail \/ SendFails \/ Crash
    BY <2>4 DEF ExecutorFails, FinalizersFail, SendFails, Crash, durable
  <2>5. CASE (\E m \in Messages : Admit(m)) \/ (\E u \in Turns : JobReports(u))
    BY <2>5 DEF Admit, JobReports, durable
  <2>6. CASE UNCHANGED vars
    BY <2>6 DEF vars
  <2> QED
    BY <2>1, <2>2, <2>3, <2>4, <2>5, <2>6 DEF Next, Step
<1> QED
  BY <1>1, InitIInv, NextIInv, PTL DEF Spec, ExecutedOnce

-----------------------------------------------------------------------------
(* The inductive invariant of a batch.                                     *)

HasReply(t) == \E n \in DOMAIN replies : replies[n].group.turn = t

\* The groups of a batch that are not left to do are answered.
Whole(b, todo, texts) ==
    \E routed \in route[b] :
        /\ Groups(b, routed) \subseteq Group
        /\ \A g \in Groups(b, routed) \ todo : Answered(b, g, texts)

\* What the place of the delivery says about its batch.
InHand ==
    /\ handler.pc \in Formed => handler.batch \notin closed
    /\ handler.pc \in Turning \cup {"send"} => Whole(handler.batch, handler.todo, handler.got)
    /\ handler.pc = "delivery" => HasReply(Current)
    /\ handler.pc = "collect" => "completed" \in turn[Current]
    /\ handler.pc = "send" => handler.todo = {}
    /\ handler.pc = "mark" => Whole(handler.batch, {}, sent)
    /\ handler.pc = "process" => handler.batch \in closed

\* What the log says about the batches that are over, and about delivered turns.
Over ==
    /\ closed \subseteq Turns /\ processed \subseteq UNION closed
    /\ \A b \in closed : Whole(b, {}, sent)
    /\ \A t \in Turns : "delivered" \in turn[t] => HasReply(t)

Batches == Over /\ InHand

\* Every step: completed turns and replies stay, and a new first reply is one of a
\* group that is left to do.
Advances ==
    /\ \A t \in Turns : "completed" \in turn[t] => "completed" \in turn'[t]
    /\ \A t \in Turns : "delivered" \in turn'[t] => "delivered" \in turn[t] \/ HasReply(t)
    /\ \A n \in DOMAIN replies : n \in DOMAIN replies' /\ replies'[n] = replies[n]
    /\ \A n \in DOMAIN replies' \ DOMAIN replies :
          \/ replies'[n].part = 1
          \/ /\ handler.pc \in Turning
             /\ replies'[n].batch = handler.batch /\ replies'[n].group \in handler.todo

-----------------------------------------------------------------------------
(* What every step keeps.                                                  *)

\* What a step leaves of a batch and of its groups.
AnsweredNext(b, g, texts) ==
    /\ "completed" \in turn'[g.turn]
    /\ \E n \in DOMAIN replies' : replies'[n].group.turn = g.turn
    /\ \A n \in DOMAIN replies' :
          /\ n <= ReplyLimit /\ replies'[n].part = 0
          /\ replies'[n].batch = b /\ replies'[n].group = g
          => replies'[n].text \in texts

WholeNext(b, todo, texts) ==
    \E routed \in route[b] :
        /\ Groups(b, routed) \subseteq Group
        /\ \A g \in Groups(b, routed) \ todo : AnsweredNext(b, g, texts)

\* Groups that are answered stay answered.
LEMMA WholeKept ==
    ASSUME Advances, NEW b, NEW todo, NEW texts, NEW more, Whole(b, todo, texts), texts \subseteq more,
           b # handler.batch \/ handler.pc \notin Turning \/ handler.todo \subseteq todo
    PROVE  WholeNext(b, todo, more)
<1>1. PICK routed \in route[b] :
         /\ Groups(b, routed) \subseteq Group
         /\ \A g \in Groups(b, routed) \ todo : Answered(b, g, texts)
  BY DEF Whole
<1>2. ASSUME NEW g \in Groups(b, routed) \ todo
      PROVE  AnsweredNext(b, g, more)
  <2>1. Answered(b, g, texts) /\ g.turn \in Turns
    BY <1>1 DEF Group
  <2>2. "completed" \in turn'[g.turn]
    BY <2>1 DEF Advances, Answered
  <2>3. \E n \in DOMAIN replies' : replies'[n].group.turn = g.turn
    BY <2>1 DEF Advances, Answered
  <2>4. ASSUME NEW n \in DOMAIN replies', n <= ReplyLimit, replies'[n].part = 0,
               replies'[n].batch = b, replies'[n].group = g
        PROVE  replies'[n].text \in more
    <3>1. CASE n \in DOMAIN replies
      BY <2>1, <2>4, <3>1 DEF Advances, Answered
    <3>2. CASE n \notin DOMAIN replies
      BY <2>4, <3>2 DEF Advances
    <3> QED
      BY <3>1, <3>2
  <2> QED
    BY <2>2, <2>3, <2>4 DEF AnsweredNext
<1> QED
  BY <1>1, <1>2 DEF WholeNext

\* The batches that are over stay as they are.
LEMMA OverKept ==
    ASSUME IInv, Batches, Advances, UNCHANGED closed, sent \subseteq sent',
           \A b \in closed : route'[b] = route[b], processed' \subseteq UNION closed
    PROVE  Over'
<1>1. ASSUME NEW b \in closed PROVE Whole(b, {}, sent)'
  <2>1. Whole(b, {}, sent) /\ route'[b] = route[b]
    BY DEF Batches, Over
  <2>2. b # handler.batch \/ handler.pc \notin Turning
    BY DEF Batches, InHand, Formed
  <2>3. WholeNext(b, {}, sent')
    BY <2>1, <2>2, WholeKept
  <2> QED
    BY <2>1, <2>3 DEF WholeNext, AnsweredNext, Whole, Answered
<1>2. \A t \in Turns : "delivered" \in turn'[t] => HasReply(t)'
  BY DEF Batches, Over, Advances, HasReply
<1> QED
  BY <1>1, <1>2 DEF Batches, Over

\* A delivery that ends, or has no batch yet.
LEMMA RestBatches ==
    ASSUME IInv, Batches, Advances, UNCHANGED closed, sent \subseteq sent',
           \A b \in closed : route'[b] = route[b], processed' \subseteq UNION closed,
           handler'.pc \in {"idle", "window"}
    PROVE  Batches'
<1>1. InHand'
  BY DEF InHand, Formed, Turning
<1> QED
  BY <1>1, OverKept DEF Batches

\* The rest of the batch in hand, while its groups are at work.
LEMMA TurnBatches ==
    ASSUME IInv, Batches, Advances, UNCHANGED <<closed, processed, sent, route>>,
           handler.pc \in Turning, handler'.pc \in Turning,
           handler'.batch = handler.batch, handler'.todo = handler.todo, handler'.got = handler.got,
           handler'.pc = "delivery" => HasReply(Current)',
           handler'.pc = "collect" => ("completed" \in turn[Current])'
    PROVE  Batches'
<1>1. Over'
  BY OverKept DEF Batches, Over
<1>2. Whole(handler.batch, handler.todo, handler.got)'
  <2>1. Whole(handler.batch, handler.todo, handler.got)
    BY DEF Batches, InHand
  <2>2. WholeNext(handler.batch, handler.todo, handler.got)
    BY <2>1, WholeKept
  <2> QED
    BY <2>2 DEF WholeNext, AnsweredNext, Whole, Answered
<1>3. handler.batch \notin closed
  BY DEF Batches, InHand, Formed
<1>4. InHand'
  BY <1>2, <1>3 DEF InHand, Formed, Turning
<1> QED
  BY <1>1, <1>4 DEF Batches

\* A step that leaves turns and replies alone.
LEMMA StillAdvances ==
    ASSUME UNCHANGED <<turn, replies>>
    PROVE  Advances
BY DEF Advances

\* A step that adds an event to the current turn; a turn was handed on before it
\* counts as delivered.
LEMMA TurnAdvances ==
    ASSUME IInv, Batches, UNCHANGED replies, NEW events,
           turn' = [turn EXCEPT ![Current] = events],
           "completed" \in turn[Current] => "completed" \in events,
           "delivered" \in events => "delivered" \in turn[Current] \/ HasReply(Current)
    PROVE  Advances
<1>1. \A t \in Turns : turn'[t] = turn[t] \/ (t = Current /\ turn'[t] = events)
  BY DEF IInv, TypeOK
<1> QED
  BY <1>1 DEF Advances

\* A reply of the group at hand.
LEMMA RepliedAdvances ==
    ASSUME IInv, handler.pc \in Turning, UNCHANGED turn,
           NEW part \in 0 .. 1, NEW text \in Texts, Replied(CurrentGroup, part, text)
    PROVE  Advances /\ \E n \in DOMAIN replies' : replies'[n].group.turn = Current
<1>1. CurrentGroup \in handler.todo /\ CurrentGroup \in Group /\ Current = CurrentGroup.turn
  BY CurrentShape DEF IInv, Delivery
<1>2. /\ Len(replies') \in Nat /\ Len(replies) \in Nat /\ Len(replies) <= Len(replies')
      /\ DOMAIN replies = 1 .. Len(replies) /\ DOMAIN replies' = 1 .. Len(replies')
      /\ \A n \in 1 .. Len(replies) : replies'[n] = replies[n]
      /\ \A n \in 1 .. Len(replies') :
            n \in 1 .. Len(replies) \/ replies'[n] = ReplyRow(CurrentGroup, part, text)
      /\ \E n \in 1 .. Len(replies') :
            replies'[n].batch = handler.batch /\ replies'[n].group = CurrentGroup
  BY <1>1, RepliedShape, InboxShape, LenProperties DEF IInv
<1>3. ReplyRow(CurrentGroup, part, text).batch = handler.batch
      /\ ReplyRow(CurrentGroup, part, text).group = CurrentGroup
  BY DEF ReplyRow
<1>4. Advances
  BY <1>1, <1>2, <1>3 DEF Advances
<1>5. \E n \in DOMAIN replies' : replies'[n].group.turn = Current
  BY <1>1, <1>2
<1> QED
  BY <1>4, <1>5

-----------------------------------------------------------------------------
(* The steps of a batch.                                                   *)

LEMMA AdmitBatches ==
    ASSUME IInv, Batches, NEW m \in Messages, Admit(m)
    PROVE  Batches'
<1>1. /\ m \notin ToSet(inbox) /\ inbox' = Append(inbox, m)
      /\ UNCHANGED <<handler, turn, replies, closed, processed, sent, route>>
  BY DEF Admit, durable, batching, history
<1>2. Over'
  BY <1>1 DEF Batches, Over, Whole, Answered, HasReply
<1>3. handler.pc \in Turning => Current' = Current
  BY <1>1, CurrentKept DEF IInv, Delivery
<1>4. InHand'
  BY <1>1, <1>3 DEF Batches, InHand, Whole, Answered, HasReply, Turning
<1> QED
  BY <1>2, <1>4 DEF Batches

LEMMA ClaimBatches ==
    ASSUME IInv, Batches, Claim
    PROVE  Batches'
<1>1. UNCHANGED <<turn, replies, closed, processed, sent, route>>
  BY DEF Claim, durable, batching, history
<1>2. handler'.pc \in {"idle", "window"}
  <2>1. CASE inbox[cursor + 1] \in processed
    BY <2>1 DEF Claim, Succeeds, Idle
  <2>2. CASE inbox[cursor + 1] \notin processed
    BY <2>2, ToTyped DEF Claim, IInv, PcValues
  <2> QED
    BY <2>1, <2>2
<1>3. Advances
  BY <1>1, StillAdvances
<1> QED
  BY <1>1, <1>2, <1>3, RestBatches DEF Batches, Over

LEMMA CollectBatches ==
    ASSUME IInv, Batches, Collect
    PROVE  Batches'
<1>1. /\ handler.pc = "window" /\ cursor < Len(inbox)
      /\ UNCHANGED <<inbox, turn, replies, closed, sent>>
  BY DEF Collect, At, durable, IInv, Delivery, Claimed
<1>2. Advances
  BY <1>1, StillAdvances
<1>3. CASE Burst \in closed
  <2>1. processed' = processed \cup Burst /\ handler' = Idle /\ UNCHANGED route
    BY <1>3 DEF Collect, Succeeds
  <2>2. processed' \subseteq UNION closed
    BY <1>3, <2>1 DEF Batches, Over
  <2> QED
    BY <1>1, <1>2, <2>1, <2>2, RestBatches DEF Idle
<1>4. CASE Burst \notin closed
  <2>1. PICK routed \in IF Cardinality(Burst) > 1 THEN SUBSET Burst ELSE {{}} :
           /\ route' = [route EXCEPT ![Burst] = {routed}]
           /\ handler' = [handler EXCEPT !.pc = "turn", !.batch = Burst,
                                         !.todo = Groups(Burst, routed)]
    BY <1>4 DEF Collect
  <2>2. UNCHANGED processed
    BY <1>4 DEF Collect
  <2>3. Burst \in Turns /\ Burst \in SUBSET Messages /\ Burst # {} /\ routed \in SUBSET Burst
    BY <1>1, <2>1, BurstShape DEF IInv
  <2>4. Groups(Burst, routed) \subseteq Group
    BY <2>3, GroupsShape
  <2>5. /\ route'[Burst] = {routed}
        /\ \A b \in closed : route'[b] = route[b]
    BY <1>4, <2>1, <2>3 DEF IInv, TypeOK, Batches, Over
  <2>6. /\ handler'.pc = "turn" /\ handler'.batch = Burst /\ handler'.todo = Groups(Burst, routed)
    BY <2>1 DEF IInv, TypeOK
  <2>7. Over'
    BY <1>1, <1>2, <2>2, <2>5, OverKept DEF Batches, Over
  <2>8. Whole(handler.batch, handler.todo, handler.got)'
    BY <2>4, <2>5, <2>6 DEF Whole
  <2>9. InHand'
    BY <1>1, <1>4, <2>6, <2>8 DEF InHand, Turning
  <2> QED
    BY <2>7, <2>9 DEF Batches
<1> QED
  BY <1>3, <1>4

LEMMA BeginTurnBatches ==
    ASSUME IInv, Batches, BeginTurn
    PROVE  Batches'
<1>1. /\ handler.pc = "turn"
      /\ UNCHANGED <<inbox, cursor, turn, replies, closed, processed, sent, route>>
  BY DEF BeginTurn, At, batching, history
<1>2. PICK p \in {"collect", "reply", "finalize", "complete", "executing"} :
         handler' = To(p) /\ (p = "collect" => "completed" \in turn[Current])
  BY DEF BeginTurn
<1>3. /\ handler'.pc = p /\ handler'.batch = handler.batch
      /\ handler'.todo = handler.todo /\ handler'.got = handler.got /\ handler'.part = handler.part
  BY <1>2, ToTyped DEF IInv, PcValues
<1>4. Current' = Current
  BY <1>1, <1>3 DEF Current, CurrentGroup, Earliest
<1>5. Advances
  BY <1>1, StillAdvances
<1> QED
  BY <1>1, <1>2, <1>3, <1>4, <1>5, TurnBatches DEF Turning

\* A turn that fails before it is executed: its batch is left to the next attempt.
LEMMA FailingBatches ==
    ASSUME IInv, Batches, handler.pc = "executing", Failing(Current),
           UNCHANGED <<turn, closed, processed, sent, route>>
    PROVE  Batches'
<1> DEFINE text == Text(Current, "failure", 0)
<1>1. Current \in Turns /\ handler.part \in 0 .. 1
  BY CurrentShape DEF IInv, Delivery, Turning, TypeOK
<1>2. text \in Texts
  BY <1>1 DEF Text, Texts
<1>3. Replied(CurrentGroup, handler.part, text) /\ handler' = Idle
  BY DEF Failing, Throws
<1> HIDE DEF text
<1>4. Advances
  BY <1>1, <1>2, <1>3, RepliedAdvances DEF Turning
<1> QED
  BY <1>3, <1>4, RestBatches DEF Idle, Batches, Over

LEMMA ExecutorFailsBatches ==
    ASSUME IInv, Batches, ExecutorFails
    PROVE  Batches'
BY FailingBatches DEF ExecutorFails, At, durable, history

LEMMA ExecutorReturnsBatches ==
    ASSUME IInv, Batches,
           NEW final \in Finals, NEW background \in BOOLEAN, ExecutorReturns(final, background)
    PROVE  Batches'
<1>1. handler.pc = "executing" /\ UNCHANGED <<turn, closed, processed, sent, route>>
  BY DEF ExecutorReturns, At, history
<1>2. \/ Failing(Current)
      \/ handler' = To("stored") /\ UNCHANGED replies
  BY DEF ExecutorReturns
<1>3. CASE Failing(Current)
  BY <1>1, <1>3, FailingBatches
<1>4. CASE handler' = To("stored") /\ UNCHANGED replies
  <2>1. /\ handler'.pc = "stored" /\ handler'.batch = handler.batch
        /\ handler'.todo = handler.todo /\ handler'.got = handler.got
    BY <1>4, ToTyped DEF IInv, PcValues
  <2>2. Advances
    BY <1>1, <1>4, StillAdvances
  <2> QED
    BY <1>1, <2>1, <2>2, TurnBatches DEF Turning
<1> QED
  BY <1>2, <1>3, <1>4

LEMMA PublishExecutedBatches ==
    ASSUME IInv, Batches, PublishExecuted
    PROVE  Batches'
<1>1. /\ handler.pc = "stored" /\ turn' = [turn EXCEPT ![Current] = {"executed"}]
      /\ handler' = To("reply")
      /\ UNCHANGED <<replies, closed, processed, sent, route>>
  BY DEF PublishExecuted, At, batching, history
<1>2. /\ handler'.pc = "reply" /\ handler'.batch = handler.batch
      /\ handler'.todo = handler.todo /\ handler'.got = handler.got
  BY <1>1, ToTyped DEF IInv, PcValues
<1>3. turn[Current] = {}
  BY <1>1 DEF IInv, Progress
<1>4. Advances
  BY <1>1, <1>3, TurnAdvances
<1> QED
  BY <1>1, <1>2, <1>4, TurnBatches DEF Turning

LEMMA ReplyBatches ==
    ASSUME IInv, Batches, Reply
    PROVE  Batches'
<1> DEFINE text == outbox[Current].text
<1>1. /\ handler.pc = "reply" /\ Replied(CurrentGroup, handler.part, text)
      /\ handler' = [To("delivery") EXCEPT !.part = @ + 1]
      /\ UNCHANGED <<inbox, turn, closed, processed, sent, route>>
  BY DEF Reply, At, durable, history
<1>2. /\ Current \in Turns /\ handler.part = 0
      /\ turn[Current] # {} /\ "completed" \notin turn[Current]
  BY <1>1, CurrentShape DEF IInv, Delivery, Progress, Turning
<1>3. Stored(Current)
  BY <1>2 DEF IInv, ReplyFirst, ReplyKept
<1>4. text \in Texts
  BY <1>2, <1>3 DEF IInv, TypeOK, Stored
<1> HIDE DEF text
<1>5. /\ handler'.pc = "delivery" /\ handler'.batch = handler.batch
      /\ handler'.todo = handler.todo /\ handler'.got = handler.got
  BY <1>1 DEF To, IInv, TypeOK
<1>6. Advances /\ \E n \in DOMAIN replies' : replies'[n].group.turn = Current
  BY <1>1, <1>2, <1>4, RepliedAdvances DEF Turning
<1>7. Current' = Current
  BY <1>1, <1>5 DEF Current, CurrentGroup, Earliest
<1>8. HasReply(Current)'
  BY <1>6, <1>7 DEF HasReply
<1> QED
  BY <1>1, <1>5, <1>6, <1>8, TurnBatches DEF Turning

LEMMA PublishDeliveredBatches ==
    ASSUME IInv, Batches, PublishDelivered
    PROVE  Batches'
<1>1. /\ handler.pc = "delivery" /\ turn' = [turn EXCEPT ![Current] = @ \cup {"delivered"}]
      /\ UNCHANGED <<replies, closed, processed, sent, route>>
  BY DEF PublishDelivered, At, batching, history
<1>2. PICK p \in {"finalize", "complete"} : handler' = To(p)
  BY DEF PublishDelivered
<1>3. /\ handler'.pc = p /\ handler'.batch = handler.batch
      /\ handler'.todo = handler.todo /\ handler'.got = handler.got
  BY <1>2, ToTyped DEF IInv, PcValues
<1>4. HasReply(Current)
  BY <1>1 DEF Batches, InHand
<1>5. turn' = [turn EXCEPT ![Current] = turn[Current] \cup {"delivered"}]
  BY <1>1
<1>6. Advances
  BY <1>1, <1>4, <1>5, TurnAdvances
<1> QED
  BY <1>1, <1>3, <1>6, TurnBatches DEF Turning

LEMMA RunFinalizersBatches ==
    ASSUME IInv, Batches, RunFinalizers
    PROVE  Batches'
<1>1. /\ handler.pc = "finalize" /\ turn' = [turn EXCEPT ![Current] = turn[Current] \cup {"finalized"}]
      /\ handler' = To("complete")
      /\ UNCHANGED <<replies, closed, processed, sent, route>>
  BY DEF RunFinalizers, At, batching, history
<1>2. /\ handler'.pc = "complete" /\ handler'.batch = handler.batch
      /\ handler'.todo = handler.todo /\ handler'.got = handler.got
  BY <1>1, ToTyped DEF IInv, PcValues
<1>3. Advances
  BY <1>1, TurnAdvances
<1> QED
  BY <1>1, <1>2, <1>3, TurnBatches DEF Turning

LEMMA PublishCompletedBatches ==
    ASSUME IInv, Batches, PublishCompleted
    PROVE  Batches'
<1>1. /\ handler.pc = "complete" /\ turn' = [turn EXCEPT ![Current] = turn[Current] \cup {"completed"}]
      /\ handler' = To("collect")
      /\ UNCHANGED <<inbox, cursor, replies, closed, processed, sent, route>>
  BY DEF PublishCompleted, At, batching, history
<1>2. /\ handler'.pc = "collect" /\ handler'.batch = handler.batch
      /\ handler'.todo = handler.todo /\ handler'.got = handler.got
  BY <1>1, ToTyped DEF IInv, PcValues
<1>3. Current' = Current
  BY <1>1, <1>2 DEF Current, CurrentGroup, Earliest
<1>4. "completed" \in turn'[Current']
  BY <1>1, <1>3, TurnRecorded
<1>5. Advances
  BY <1>1, TurnAdvances
<1> QED
  BY <1>1, <1>2, <1>4, <1>5, TurnBatches DEF Turning

LEMMA FinalizersFailBatches ==
    ASSUME IInv, Batches, FinalizersFail
    PROVE  Batches'
<1>1. handler' = Idle /\ UNCHANGED <<turn, replies, closed, processed, sent, route>>
  BY DEF FinalizersFail, Throws, durable, batching, history
<1>2. Advances
  BY <1>1, StillAdvances
<1> QED
  BY <1>1, <1>2, RestBatches DEF Idle, Batches, Over

\* The replies of the group at hand are collected, as far as the replay reaches.
LEMMA CollectRepliesBatches ==
    ASSUME IInv, Batches, CollectReplies
    PROVE  Batches'
<1> DEFINE mine == {r \in Scanned : r.batch = handler.batch /\ r.group = CurrentGroup}
           texts == {r.text : r \in mine}
           rest == handler.todo \ {CurrentGroup}
<1>1. /\ handler.pc = "collect"
      /\ handler' = [handler EXCEPT !.pc = IF rest = {} THEN "send" ELSE "turn",
                                    !.todo = rest, !.part = 0, !.got = @ \cup texts]
      /\ UNCHANGED <<turn, replies, closed, processed, sent, route>>
  BY DEF CollectReplies, At, durable, batching, history
<1>2. /\ CurrentGroup \in handler.todo /\ CurrentGroup \in Group /\ Current = CurrentGroup.turn
      /\ Current \in Turns
  BY <1>1, CurrentShape DEF IInv, Delivery, Turning
<1>3. \A n \in DOMAIN replies :
         /\ n <= ReplyLimit
         /\ replies[n].batch = handler.batch /\ replies[n].group = CurrentGroup
         => replies[n].text \in texts
  <2> SUFFICES ASSUME NEW n \in DOMAIN replies, n <= ReplyLimit,
                      replies[n].batch = handler.batch, replies[n].group = CurrentGroup
               PROVE  replies[n].text \in texts
    OBVIOUS
  <2>1. n \in 1 .. (IF Len(replies) < ReplyLimit THEN Len(replies) ELSE ReplyLimit)
    BY InboxShape, IngressAssumption DEF IInv
  <2>2. replies[n] \in Scanned
    BY <2>1 DEF Scanned
  <2> QED
    BY <2>2
<1> HIDE DEF mine
<1>4. Answered(handler.batch, CurrentGroup, texts)
  <2>1. "completed" \in turn[Current]
    BY <1>1 DEF Batches, InHand
  <2>2. HasReply(Current)
    BY <1>2, <2>1 DEF IInv, ReplyFirst, DeliveredFirst, Batches, Over
  <2> QED
    BY <1>2, <1>3, <2>1, <2>2 DEF Answered, HasReply
<1> HIDE DEF texts, rest
<1>5. /\ handler'.pc = (IF rest = {} THEN "send" ELSE "turn")
      /\ handler'.batch = handler.batch /\ handler'.todo = rest /\ handler'.got = handler.got \cup texts
  BY <1>1 DEF IInv, TypeOK
<1>6. PICK routed \in route[handler.batch] :
         /\ Groups(handler.batch, routed) \subseteq Group
         /\ \A g \in Groups(handler.batch, routed) \ handler.todo : Answered(handler.batch, g, handler.got)
  BY <1>1 DEF Batches, InHand, Turning, Whole
<1>7. \A g \in Groups(handler.batch, routed) \ rest :
         Answered(handler.batch, g, handler.got \cup texts)
  <2> SUFFICES ASSUME NEW g \in Groups(handler.batch, routed) \ rest
               PROVE  Answered(handler.batch, g, handler.got \cup texts)
    OBVIOUS
  <2>1. CASE g = CurrentGroup
    BY <1>4, <2>1 DEF Answered
  <2>2. CASE g # CurrentGroup
    <3>1. Answered(handler.batch, g, handler.got)
      BY <1>6, <2>2 DEF rest
    <3> QED
      BY <3>1 DEF Answered
  <2> QED
    BY <2>1, <2>2
<1>8. Whole(handler.batch, rest, handler.got \cup texts)
  BY <1>6, <1>7 DEF Whole
<1>9. Whole(handler.batch, handler.todo, handler.got)'
  BY <1>1, <1>5, <1>8 DEF Whole, Answered
<1>10. InHand'
  BY <1>1, <1>5, <1>9 DEF Batches, InHand, Formed, Turning
<1>11. Over'
  BY <1>1, StillAdvances, OverKept DEF Batches, Over
<1> QED
  BY <1>10, <1>11 DEF Batches

LEMMA SendBatches ==
    ASSUME IInv, Batches, Send
    PROVE  Batches'
<1>1. /\ handler.pc = "send" /\ sent' = sent \cup handler.got /\ handler' = To("mark")
      /\ UNCHANGED <<turn, replies, closed, processed, route>>
  BY DEF Send, At, durable, batching
<1>2. /\ handler'.pc = "mark" /\ handler'.batch = handler.batch
  BY <1>1, ToTyped DEF IInv, PcValues
<1>3. Whole(handler.batch, {}, handler.got) /\ handler.batch \notin closed
  BY <1>1 DEF Batches, InHand, Formed
<1>4. Advances /\ handler.pc \notin Turning
  BY <1>1, StillAdvances DEF Turning
<1>5. WholeNext(handler.batch, {}, sent')
  BY <1>1, <1>3, <1>4, WholeKept
<1>6. Whole(handler.batch, {}, sent)'
  BY <1>1, <1>2, <1>5 DEF WholeNext, AnsweredNext, Whole, Answered
<1>7. InHand'
  BY <1>1, <1>2, <1>3, <1>6 DEF InHand, Formed, Turning
<1>8. Over'
  BY <1>1, <1>4, OverKept DEF Batches, Over
<1> QED
  BY <1>7, <1>8 DEF Batches

LEMMA SendFailsBatches ==
    ASSUME IInv, Batches, SendFails \/ Crash
    PROVE  Batches'
<1>1. handler' = Idle /\ UNCHANGED <<turn, replies, closed, processed, sent, route>>
  BY DEF SendFails, Crash, Throws, durable, batching, history
<1>2. Advances
  BY <1>1, StillAdvances
<1> QED
  BY <1>1, <1>2, RestBatches DEF Idle, Batches, Over

\* A batch is recorded as delivered when all of its groups are answered.
LEMMA MarkDeliveredBatches ==
    ASSUME IInv, Batches, MarkDelivered
    PROVE  Batches'
<1>1. /\ handler.pc = "mark" /\ closed' = closed \cup {handler.batch} /\ handler' = To("process")
      /\ UNCHANGED <<turn, replies, processed, sent, route>>
  BY DEF MarkDelivered, At, durable, history
<1>2. handler'.pc = "process" /\ handler'.batch = handler.batch
  BY <1>1, ToTyped DEF IInv, PcValues
<1>3. handler.batch \in Turns
  BY <1>1 DEF IInv, TypeOK, Delivery, Formed, Turns
<1>4. \A b \in closed' : Whole(b, {}, sent)
  BY <1>1 DEF Batches, Over, InHand
<1>5. Over'
  BY <1>1, <1>3, <1>4 DEF Batches, Over, Whole, Answered, HasReply
<1>6. InHand'
  BY <1>1, <1>2 DEF InHand, Formed, Turning
<1> QED
  BY <1>5, <1>6 DEF Batches

LEMMA MarkProcessedBatches ==
    ASSUME IInv, Batches, MarkProcessed
    PROVE  Batches'
<1> DEFINE left == handler.batch \ processed
<1>1. /\ handler.pc = "process" /\ processed' = processed \cup {Earliest(left)}
      /\ UNCHANGED <<turn, replies, closed, sent, route>>
  BY DEF MarkProcessed, At, durable, history
<1>2. Earliest(left) \in left
  <2>1. left \in SUBSET ToSet(inbox) /\ left # {}
    BY <1>1 DEF IInv, Delivery
  <2> HIDE DEF left
  <2> QED
    BY <2>1, EarliestIn DEF IInv
<1>3. processed' \subseteq UNION closed
  BY <1>1, <1>2 DEF Batches, Over, InHand
<1>4. handler' = Idle \/ UNCHANGED handler
  BY DEF MarkProcessed, Succeeds
<1>5. Over'
  BY <1>1, <1>3, StillAdvances, OverKept
<1>6. InHand'
  BY <1>1, <1>4 DEF Batches, InHand, Formed, Turning, Idle
<1> QED
  BY <1>5, <1>6 DEF Batches

\* The report of a job is no first reply.
LEMMA JobReportsBatches ==
    ASSUME IInv, Batches, NEW t \in Turns, JobReports(t)
    PROVE  Batches'
<1> DEFINE report == Text(t, "report", 1)
<1>1. UNCHANGED <<inbox, handler, turn, closed, processed, route>>
  BY DEF JobReports, durable
<1>2. Advances /\ sent \subseteq sent'
  <2>1. CASE job[t] = "open"
    <3>1. PICK n \in DOMAIN replies : Replied(replies[n].group, 1, report) /\ UNCHANGED sent
      BY <2>1 DEF JobReports
    <3>2. replies[n].group \in Group /\ report \in Texts
      BY <3>1, InboxShape DEF IInv, BatchReply, Text, Texts
    <3> HIDE DEF report
    <3>3. /\ Len(replies') \in Nat /\ Len(replies) \in Nat /\ Len(replies) <= Len(replies')
          /\ DOMAIN replies = 1 .. Len(replies) /\ DOMAIN replies' = 1 .. Len(replies')
          /\ \A k \in 1 .. Len(replies) : replies'[k] = replies[k]
          /\ \A k \in 1 .. Len(replies') :
                k \in 1 .. Len(replies) \/ replies'[k] = ReplyRow(replies[n].group, 1, report)
      BY <3>1, <3>2, RepliedShape, InboxShape, LenProperties DEF IInv
    <3>4. ReplyRow(replies[n].group, 1, report).part = 1
      BY DEF ReplyRow
    <3> QED
      BY <1>1, <3>1, <3>3, <3>4 DEF Advances
  <2>2. CASE job[t] # "open"
    BY <1>1, <2>2, StillAdvances DEF JobReports
  <2> QED
    BY <2>1, <2>2
<1>3. Over'
  BY <1>1, <1>2, OverKept DEF Batches, Over
<1>4. ASSUME NEW todo, NEW texts, Whole(handler.batch, todo, texts), handler.todo \subseteq todo
              \/ handler.pc \notin Turning, NEW more, texts \subseteq more
      PROVE  WholeNext(handler.batch, todo, more)
  BY <1>2, <1>4, WholeKept
<1>5. handler.pc \in Turning \cup {"send"} => Whole(handler.batch, handler.todo, handler.got)'
  <2>1. handler.pc \in Turning \cup {"send"} => WholeNext(handler.batch, handler.todo, handler.got)
    BY <1>4 DEF Batches, InHand
  <2> QED
    BY <1>1, <2>1 DEF WholeNext, AnsweredNext, Whole, Answered
<1>6. handler.pc = "mark" => Whole(handler.batch, {}, sent)'
  <2>1. handler.pc = "mark" => WholeNext(handler.batch, {}, sent')
    BY <1>2, <1>4 DEF Batches, InHand, Turning
  <2> QED
    BY <1>1, <2>1 DEF WholeNext, AnsweredNext, Whole, Answered
<1>7. Current' = Current /\ (HasReply(Current) => HasReply(Current)')
  <2>1. Current' = Current
    BY <1>1 DEF Current, CurrentGroup, Earliest
  <2> QED
    BY <1>2, <2>1 DEF Advances, HasReply
<1>8. InHand'
  BY <1>1, <1>5, <1>6, <1>7 DEF Batches, InHand
<1> QED
  BY <1>3, <1>8 DEF Batches

-----------------------------------------------------------------------------
(* The theorem about the batch.                                            *)

LEMMA InitBatches == Init => Batches
BY EmptySeq DEF Init, Idle, Batches, Over, InHand, Formed, Turning

LEMMA NextBatches == IInv /\ Batches /\ [Next]_vars => Batches'
<1> SUFFICES ASSUME IInv, Batches, [Next]_vars PROVE Batches'
  OBVIOUS
<1>1. CASE Step
  BY <1>1, ClaimBatches, CollectBatches, BeginTurnBatches, PublishExecutedBatches, ReplyBatches,
     PublishDeliveredBatches, RunFinalizersBatches, PublishCompletedBatches, CollectRepliesBatches,
     SendBatches, MarkDeliveredBatches, MarkProcessedBatches, ExecutorReturnsBatches DEF Step
<1>2. CASE ExecutorFails \/ FinalizersFail \/ SendFails \/ Crash
  BY <1>2, ExecutorFailsBatches, FinalizersFailBatches, SendFailsBatches
<1>3. CASE (\E m \in Messages : Admit(m)) \/ (\E t \in Turns : JobReports(t))
  BY <1>3, AdmitBatches, JobReportsBatches
<1>4. CASE UNCHANGED vars
  <2>1. UNCHANGED <<inbox, handler, turn, replies, closed, processed, sent, route>>
    BY <1>4 DEF vars
  <2>2. Current' = Current
    BY <2>1 DEF Current, CurrentGroup, Earliest
  <2> QED
    BY <2>1, <2>2 DEF Batches, Over, InHand, Whole, Answered, HasReply
<1> QED
  BY <1>1, <1>2, <1>3, <1>4 DEF Next

\* A message counts as processed only in a batch that was recorded as delivered, and
\* by then every group that the router made of the batch has run to the end, left a
\* reply, and had its first reply sent if the replay of the replies reaches it:
\* whatever arrives, fails, dies, is routed or is answered differently between two
\* attempts, and also when a message is given up after the last one.
THEOREM DeliveredBatchesAreWhole == Spec => []BatchesDelivered
<1>1. Batches => BatchesDelivered
  BY DEF Batches, Over, Whole, BatchesDelivered
<1> QED
  BY <1>1, InitIInv, NextIInv, InitBatches, NextBatches, PTL DEF Spec
=============================================================================
