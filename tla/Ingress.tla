-------------------------------- MODULE Ingress --------------------------------
(***************************************************************************)
(* How an admitted channel message becomes an answer: the ingress consumer *)
(* of plugins/channels/index.ts, which batches messages of one sender, the *)
(* turn loop that each group of a batch runs through                       *)
(* (plugins/turn-loop/turn-loop.ts), its reply outbox, and the cumulative  *)
(* reply to the channel.  Deliveries are those of Events: one at a time,   *)
(* in order, retried MaxAttempts times.                                    *)
(*                                                                         *)
(* A turn is named by the set of messages it answers.  Every write of a    *)
(* database is a step, because the process may die after it; nothing else  *)
(* runs between two writes except background jobs.                         *)
(***************************************************************************)
EXTENDS Integers, Sequences, FiniteSets, SequencesExt

CONSTANTS
    Messages,      \* ingress events, named by the message
    Sender,        \* principalBatchKey of each message
    Span,          \* how many messages are published in the 2.5 s after one
    MaxBatch,      \* CHANNEL_BATCH_MAX_MESSAGES
    MaxAttempts,   \* retry.maxAttempts of the consumer
    ReplyLimit,    \* limit of the replay that collects a group's replies
    Grows,         \* a message may arrive between two deliveries of an earlier one
    Stable,        \* executor and router answer a repeated request as before
    Background,    \* turns may be admitted as background jobs
    FaultKinds,    \* "crash", "send", "executor", "finalizer"
    MaxFaults      \* bound on the faults of a behaviour

ASSUME IngressAssumption ==
    /\ MaxBatch \in Nat \ {0} /\ MaxAttempts \in Nat \ {0} /\ ReplyLimit \in Nat
    /\ Span \in Nat /\ MaxFaults \in Nat
    /\ Grows \in BOOLEAN /\ Stable \in BOOLEAN /\ Background \in BOOLEAN
    /\ FaultKinds \subseteq {"crash", "send", "executor", "finalizer"}

Turns == (SUBSET Messages) \ {{}}

\* What a user may be sent: the n-th result of a turn, the failure reply, the
\* report of its background job.
Text(t, kind, n) == [turn |-> t, kind |-> kind, n |-> n]
NoText == Text({}, "none", 0)

VARIABLES
    inbox,      \* channel.ingress.accepted events in order
    cursor,     \* messages the consumer is done with
    attempt,    \* deliveries of the next message so far
    handler,    \* the delivery in progress
    turn,       \* per turn, the turn.* events that are in the log
    outbox,     \* per turn, its row of turn_replies
    pending,    \* turns whose after-reply callback the process holds
    replies,    \* channel.ingress.batch-reply events in order
    closed,     \* batches with a batch-delivered event
    processed,  \* messages with a batch-processed event
    runs,       \* per turn, how often its executor returned a result (history)
    job,        \* per turn, its background job
    sent,       \* texts the channel took (history)
    route,      \* per batch, the group the router made of it (history)
    faults

durable == <<turn, outbox, pending, runs>>
history == <<sent, route>>
batching == <<replies, closed, processed>>
vars == <<inbox, cursor, attempt, handler, turn, outbox, pending, replies, closed, processed,
          runs, job, sent, route, faults>>

\* pc of the delivery; groups that are left; the number of the current group's
\* next reply; the texts collected so far.
Idle == [pc |-> "idle", batch |-> {}, todo |-> {}, part |-> 0, got |-> {}]
Group == [turn: Turns, routed: BOOLEAN]
NoReply == [text |-> NoText, final |-> "no"]

\* The earliest of some messages; the groups of a batch are taken in the order of
\* their first messages.
Earliest(S) == inbox[Min({n \in DOMAIN inbox : inbox[n] \in S})]
CurrentGroup == CHOOSE g \in handler.todo : Earliest(UNION {h.turn : h \in handler.todo}) \in g.turn
Current == CurrentGroup.turn
Stored(t) == outbox[t] # NoReply
At(pc) == handler.pc = pc
To(pc) == [handler EXCEPT !.pc = pc]
Fault(kind) == kind \in FaultKinds /\ faults < MaxFaults /\ faults' = faults + 1

Init ==
    /\ inbox = <<>> /\ cursor = 0 /\ attempt = 0 /\ handler = Idle
    /\ turn = [t \in Turns |-> {}] /\ outbox = [t \in Turns |-> NoReply] /\ pending = {}
    /\ replies = <<>> /\ closed = {} /\ processed = {}
    /\ runs = [t \in Turns |-> 0] /\ job = [t \in Turns |-> "none"] /\ faults = 0
    /\ sent = {} /\ route = [b \in Turns |-> {}]

-----------------------------------------------------------------------------
\* The delivery around the handler.

\* A provider delivers each message again and again; its event is stored once.
Admit(m) ==
    /\ m \notin ToSet(inbox)
    /\ Grows \/ attempt = 0
    /\ inbox' = Append(inbox, m)
    /\ UNCHANGED <<cursor, attempt, handler, durable, batching, job, history, faults>>

\* batchOpen ends with the handler: a job that reports later sends for itself.
Shut == [t \in Turns |-> IF job[t] = "open" THEN "shut" ELSE job[t]]

Succeeds ==
    /\ cursor' = cursor + 1 /\ attempt' = 0
    /\ handler' = Idle /\ job' = Shut

\* Mutant: after the last attempt the delivery starts over.
ThrowsForever ==
    /\ attempt' = IF attempt >= MaxAttempts THEN 0 ELSE attempt
    /\ UNCHANGED cursor
    /\ handler' = Idle /\ job' = Shut

Throws ==
    /\ IF attempt >= MaxAttempts THEN cursor' = cursor + 1 /\ attempt' = 0
                                 ELSE UNCHANGED <<cursor, attempt>>
    /\ handler' = Idle /\ job' = Shut

Claim ==
    /\ At("idle") /\ cursor < Len(inbox)
    /\ IF inbox[cursor + 1] \in processed
       THEN Succeeds
       ELSE /\ attempt' = attempt + 1 /\ handler' = To("window")
            /\ UNCHANGED <<cursor, job>>
    /\ UNCHANGED <<inbox, durable, batching, history, faults>>

\* The messages that follow within the span, of the same sender, unprocessed.
Burst ==
    LET first == inbox[cursor + 1]
        near == {n \in cursor + 2 .. Len(inbox) : n <= cursor + 1 + Span
                    /\ inbox[n] \notin processed /\ Sender[inbox[n]] = Sender[first]}
    IN {first} \cup {inbox[n] : n \in {k \in near : Cardinality({j \in near : j < k}) + 1 < MaxBatch}}

\* The router puts some messages of a batch into one group; the others are
\* groups of their own.
Groups(batch, routed) ==
    {[turn |-> {m}, routed |-> FALSE] : m \in batch \ routed}
    \cup {[turn |-> t, routed |-> TRUE] : t \in {routed} \ {{}}}

Collect ==
    /\ At("window")
    /\ IF Burst \in closed
       THEN /\ processed' = processed \cup Burst
            /\ Succeeds
            /\ UNCHANGED route
       ELSE /\ \E routed \in IF Cardinality(Burst) > 1 THEN SUBSET Burst ELSE {{}} :
                   /\ Stable => route[Burst] \subseteq {routed}
                   /\ route' = [route EXCEPT ![Burst] = {routed}]
                   /\ handler' = [handler EXCEPT !.pc = "turn", !.batch = Burst,
                                                 !.todo = Groups(Burst, routed)]
            /\ UNCHANGED <<cursor, attempt, job, processed>>
    /\ UNCHANGED <<inbox, durable, replies, closed, sent, faults>>

-----------------------------------------------------------------------------
\* The turn of a group.

\* turn.reply while the batch is open: the reply becomes an event whose id is
\* made of the batch, the group and the number of the reply.
ReplyRow(group, part, text) == [batch |-> handler.batch, group |-> group, part |-> part, text |-> text]
Known(group, part) == \E n \in DOMAIN replies : replies[n].batch = handler.batch
                          /\ replies[n].group = group /\ replies[n].part = part
Replied(group, part, text) ==
    replies' = IF Known(group, part) THEN replies ELSE Append(replies, ReplyRow(group, part, text))

\* Mutant: only a completed turn is known.
BeginTurnUnlessCompleted ==
    LET t == Current IN
    /\ At("turn")
    /\ handler' = To(IF "completed" \in turn[t] THEN "collect" ELSE "executing")
    /\ UNCHANGED <<inbox, cursor, attempt, durable, batching, job, history, faults>>
BeginTurn ==
    LET t == Current IN
    /\ At("turn")
    /\ \/ /\ "completed" \in turn[t]                            \* a duplicate
          /\ outbox' = [outbox EXCEPT ![t] = NoReply]
          /\ pending' = pending \ {t}
          /\ handler' = To("collect")
       \/ /\ turn[t] # {} /\ "completed" \notin turn[t] /\ Stored(t)    \* a replay
          /\ handler' = To(IF "delivered" \notin turn[t] THEN "reply"
                           ELSE IF "finalized" \notin turn[t] /\ outbox[t].final # "no"
                           THEN "finalize" ELSE "complete")
          /\ UNCHANGED <<outbox, pending>>
       \/ /\ turn[t] = {}
          /\ handler' = To("executing")
          /\ UNCHANGED <<outbox, pending>>
    /\ UNCHANGED <<inbox, cursor, attempt, turn, batching, runs, job, history, faults>>

\* Before the executed event: the row this attempt stored goes, the user is
\* told, and the delivery fails.
Failing(t) ==
    /\ Replied(CurrentGroup, handler.part, Text(t, "failure", 0))
    /\ Throws

ExecutorFails ==
    /\ At("executing")
    /\ Fault("executor")
    /\ Failing(Current)
    /\ UNCHANGED <<inbox, durable, closed, processed, history>>

\* put() refuses a row that differs from the one an earlier attempt left.
ExecutorReturns(final, background) ==
    LET t == Current
        row == [text |-> Text(t, "result", IF Stable \/ background THEN 1 ELSE runs[t] + 1),
                final |-> final]
    IN /\ At("executing")
       /\ background => Background /\ final = "no"
       /\ Stable /\ Stored(t) => row = outbox[t]
       /\ runs' = [runs EXCEPT ![t] = @ + 1]
       /\ IF Stored(t) /\ outbox[t] # row
          THEN Failing(t) /\ UNCHANGED outbox
          ELSE /\ outbox' = [outbox EXCEPT ![t] = row]
               /\ handler' = To("stored")
               /\ job' = IF background /\ job[t] = "none" THEN [job EXCEPT ![t] = "open"] ELSE job
               /\ UNCHANGED <<cursor, attempt, replies>>
       /\ UNCHANGED <<inbox, turn, pending, closed, processed, history, faults>>

\* The commit point of the turn.
PublishExecuted ==
    LET t == Current IN
    /\ At("stored")
    /\ turn' = [turn EXCEPT ![t] = {"executed"}]
    /\ pending' = IF outbox[t].final # "no" THEN pending \cup {t} ELSE pending
    /\ handler' = To("reply")
    /\ UNCHANGED <<inbox, cursor, attempt, outbox, batching, runs, job, history, faults>>

Reply ==
    /\ At("reply")
    /\ Replied(CurrentGroup, handler.part, outbox[Current].text)
    /\ handler' = [To("delivery") EXCEPT !.part = @ + 1]
    /\ UNCHANGED <<inbox, cursor, attempt, durable, closed, processed, job, history, faults>>

PublishDelivered ==
    LET t == Current IN
    /\ At("delivery")
    /\ turn' = [turn EXCEPT ![t] = @ \cup {"delivered"}]
    /\ handler' = To(IF outbox[t].final # "no" THEN "finalize" ELSE "complete")
    /\ UNCHANGED <<inbox, cursor, attempt, outbox, pending, batching, runs, job, history, faults>>

\* Callbacks live in the process; after a restart only finalizers that were
\* stored as descriptors run.
RunFinalizers ==
    LET t == Current IN
    /\ At("finalize")
    /\ t \in pending \/ outbox[t].final = "descriptors"
    /\ turn' = [turn EXCEPT ![t] = @ \cup {"finalized"}]
    /\ handler' = To("complete")
    /\ UNCHANGED <<inbox, cursor, attempt, outbox, pending, batching, runs, job, history, faults>>

FinalizersFail ==
    LET t == Current IN
    /\ At("finalize")
    /\ IF t \notin pending /\ outbox[t].final = "callback" THEN UNCHANGED faults
                                                           ELSE Fault("finalizer")
    /\ Throws
    /\ UNCHANGED <<inbox, durable, batching, history>>

PublishCompleted ==
    LET t == Current IN
    /\ At("complete")
    /\ turn' = [turn EXCEPT ![t] = @ \cup {"completed"}]
    /\ outbox' = [outbox EXCEPT ![t] = NoReply]
    /\ pending' = pending \ {t}
    /\ handler' = To("collect")
    /\ UNCHANGED <<inbox, cursor, attempt, batching, runs, job, history, faults>>

-----------------------------------------------------------------------------
\* The reply of the batch.

Scanned == {replies[n] : n \in 1..(IF Len(replies) < ReplyLimit THEN Len(replies) ELSE ReplyLimit)}

\* Mutant: the numbering of replies goes on in the next group.
CollectRepliesCounting ==
    LET mine == {r \in Scanned : r.batch = handler.batch /\ r.group = CurrentGroup}
        rest == handler.todo \ {CurrentGroup}
    IN /\ At("collect")
       /\ handler' = [handler EXCEPT !.pc = IF rest = {} THEN "send" ELSE "turn",
                                     !.todo = rest, !.got = @ \cup {r.text : r \in mine}]
       /\ UNCHANGED <<inbox, cursor, attempt, durable, batching, job, history, faults>>

CollectReplies ==
    LET mine == {r \in Scanned : r.batch = handler.batch /\ r.group = CurrentGroup}
        rest == handler.todo \ {CurrentGroup}
    IN /\ At("collect")
       /\ handler' = [handler EXCEPT !.pc = IF rest = {} THEN "send" ELSE "turn",
                                     !.todo = rest, !.part = 0,
                                     !.got = @ \cup {r.text : r \in mine}]
       /\ UNCHANGED <<inbox, cursor, attempt, durable, batching, job, history, faults>>

\* Nothing is sent when there is nothing to say.
Send ==
    /\ At("send")
    /\ sent' = sent \cup handler.got
    /\ handler' = To("mark")
    /\ UNCHANGED <<inbox, cursor, attempt, durable, batching, job, route, faults>>

\* Mutant: a reply that could not be sent is not sent again.
SendFailsQuietly ==
    /\ At("send") /\ handler.got # {}
    /\ Fault("send")
    /\ handler' = To("mark")
    /\ UNCHANGED <<inbox, cursor, attempt, durable, batching, job, history>>

SendFails ==
    /\ At("send") /\ handler.got # {}
    /\ Fault("send")
    /\ Throws
    /\ UNCHANGED <<inbox, durable, batching, history>>

MarkDelivered ==
    /\ At("mark")
    /\ closed' = closed \cup {handler.batch}
    /\ handler' = To("process")
    /\ UNCHANGED <<inbox, cursor, attempt, durable, replies, processed, job, history, faults>>

MarkProcessed ==
    LET left == handler.batch \ processed IN
    /\ At("process")
    /\ processed' = processed \cup {Earliest(left)}
    /\ IF left = {Earliest(left)} THEN Succeeds ELSE UNCHANGED <<cursor, attempt, handler, job>>
    /\ UNCHANGED <<inbox, durable, replies, closed, history, faults>>

\* The final report of a background job goes through the turn's reply: into
\* the batch while that is open, to the channel afterwards.
JobReports(t) ==
    LET report == Text(t, "report", 1) IN
    /\ job[t] \in {"open", "shut"}
    /\ "delivered" \in turn[t] \/ job[t] = "shut"
    /\ IF job[t] = "open"
       THEN /\ \E n \in DOMAIN replies :
                   /\ replies[n].batch = handler.batch /\ replies[n].group.turn = t
                   /\ Replied(replies[n].group, 1, report)
            /\ UNCHANGED sent
       ELSE sent' = sent \cup {report} /\ UNCHANGED replies
    /\ job' = [job EXCEPT ![t] = "told"]
    /\ UNCHANGED <<inbox, cursor, attempt, handler, durable, closed, processed, route, faults>>

\* A dead process: its delivery is abandoned, its callbacks are gone, its jobs
\* are resumed by Session Jobs, with a reply of their own.
Crash ==
    /\ Fault("crash")
    /\ handler' = Idle /\ pending' = {} /\ job' = Shut
    /\ UNCHANGED <<inbox, cursor, attempt, turn, outbox, runs, batching, history>>

-----------------------------------------------------------------------------
Finals == {"no", "callback", "descriptors"}

Step ==
    \/ Claim \/ Collect \/ BeginTurn
    \/ PublishExecuted \/ Reply \/ PublishDelivered \/ RunFinalizers \/ PublishCompleted
    \/ CollectReplies \/ Send \/ MarkDelivered \/ MarkProcessed
    \/ \E final \in Finals, background \in BOOLEAN : ExecutorReturns(final, background)

Next ==
    \/ Step \/ ExecutorFails \/ FinalizersFail \/ SendFails \/ Crash
    \/ \E m \in Messages : Admit(m)
    \/ \E t \in Turns : JobReports(t)

Spec == Init /\ [][Next]_vars

\* The worker of Events goes on, and so does what a handler awaits.
FairSpec == Spec /\ WF_vars(Step \/ FinalizersFail) /\ \A t \in Turns : WF_vars(JobReports(t))

-----------------------------------------------------------------------------
PcValues == {"idle", "window", "turn", "executing", "stored", "reply", "delivery", "finalize",
             "complete", "collect", "send", "mark", "process"}
Texts == [turn: Turns, kind: {"result", "failure", "report"}, n: Nat]

\* Every variable has the shape its table or object has.
TypeOK ==
    /\ inbox \in Seq(Messages) /\ cursor \in 0..Len(inbox) /\ attempt \in Nat
    /\ handler \in [pc: PcValues, batch: SUBSET Messages, todo: SUBSET Group, part: 0..1, got: SUBSET Texts]
    /\ turn \in [Turns -> SUBSET {"executed", "delivered", "finalized", "completed"}]
    /\ outbox \in [Turns -> [text: Texts, final: Finals] \cup {NoReply}]
    /\ pending \subseteq Turns /\ processed \subseteq Messages /\ closed \subseteq SUBSET Messages
    /\ replies \in Seq([batch: SUBSET Messages, group: Group, part: 0..1, text: Texts])
    /\ runs \in [Turns -> Nat] /\ sent \subseteq Texts /\ faults \in 0..MaxFaults
    /\ job \in [Turns -> {"none", "open", "shut", "told"}]
    /\ route \in [Turns -> SUBSET SUBSET Messages]

\* turn-loop.ts:443: "If execution finished but delivery/completion did not,
\* never invoke the executor again."  No executor returns for a turn whose
\* executed event is in the log, whatever failed or died since.
ExecutedOnce == [][\A t \in Turns : turn[t] # {} => runs'[t] = runs[t]]_<<turn, runs>>

\* The reply of an executed turn is in the outbox until the turn is completed:
\* a redelivery never meets "Durable turn reply is missing".
ReplyKept ==
    \A t \in Turns : turn[t] # {} /\ "completed" \notin turn[t] => Stored(t)

\* A turn is completed only after its reply was handed on, and after its
\* finalizers ran if it has any.
DeliveredFirst ==
    \A t \in Turns : "completed" \in turn[t] \/ "finalized" \in turn[t] => "delivered" \in turn[t]

\* What a redelivery of the turn relies on.
ReplyFirst == ReplyKept /\ DeliveredFirst

\* A message counts as processed only when the user was sent something about
\* it: the result of a turn that answers it, or that it failed.
MessagesAnswered == \A m \in processed : \E x \in sent : m \in x.turn

\* The turn of a group is completed, it left a reply, and the first reply it left in
\* the batch is among the texts, if the replay that collects replies reaches it.
Answered(batch, group, texts) ==
    /\ "completed" \in turn[group.turn]
    /\ \E n \in DOMAIN replies : replies[n].group.turn = group.turn
    /\ \A n \in DOMAIN replies :
          /\ n <= ReplyLimit /\ replies[n].part = 0
          /\ replies[n].batch = batch /\ replies[n].group = group
          => replies[n].text \in texts

\* A message counts as processed only in a batch that was recorded as delivered, and
\* a batch is recorded so only when every group that the router made of it has run
\* to the end and what it replied has been sent, whatever failed, died or changed
\* between the attempts at the batch.
BatchesDelivered ==
    /\ processed \subseteq UNION closed
    /\ \A b \in closed : \E routed \in route[b] : \A g \in Groups(b, routed) : Answered(b, g, sent)

\* Every message is answered before it counts as processed, and by one
\* execution, however often it is delivered.
AnsweredOnce == [](MessagesAnswered /\ ReplyFirst /\ BatchesDelivered) /\ ExecutedOnce

\* turn-loop.ts:740: "I will send retry/failure updates and the final report
\* back to this conversation."  Once the delivery is over, a report that was
\* handed on has reached the user.
ReportReaches ==
    \A t \in Turns : job[t] = "told" /\ t \subseteq processed => Text(t, "report", 1) \in sent

\* Every admitted message is processed or given up in the end.
Settles == \A n \in 1..Cardinality(Messages) : Len(inbox) >= n ~> cursor >= n
=============================================================================
