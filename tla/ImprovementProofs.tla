------------------------- MODULE ImprovementProofs -------------------------
(***************************************************************************)
(* HEAD and the generations stay together, and what the records say about  *)
(* missions is so, for every number of candidates, slots and failures.     *)
(*                                                                         *)
(* The invariant has four parts, each of which uses those before it: the   *)
(* types of managers and records; which steps of runs, successors and      *)
(* managers can be under way at once; what they have left on disk; and     *)
(* what the records say about it.  A step of a run or of a successor is    *)
(* first reduced to what it changes (the definitions that end in Turn), a  *)
(* step of a manager to the place it leads to (Goes).                      *)
(***************************************************************************)
EXTENDS Improvement, TLAPS, WellFoundedInduction

\* What generations.json, a rollback and a manager can be.
Generation == [commit : Commits \cup {NoCommit}, parent : 0 .. LastSlot]
RepositoryState == [active : 0 .. LastSlot, next : 1 .. LastSlot + 1, gens : [Slots -> Generation]]
Rollback == [from : 0 .. LastSlot, to : 0 .. LastSlot]
Promoting == {"checkpoint", "publish", "activate", "forward", "record", "restore", "unpin"}
Exchanging == {"reset", "move", "unjournal"}
Rolling == {"recover", "plan"} \cup Exchanging
Ended == {"done", "failed"}
\* Who promotes has a commit and, once it moves HEAD, a generation to come back
\* to; who rolls back has two generations to go between.
Steady(o) ==
    /\ o.at \in {"publish", "forward", "record", "restore", "unpin"} => o.slot \in Slots
    /\ o.at \in {"activate", "forward", "record", "restore"} => o.commit \in Commits
    /\ o.at \in {"forward", "record", "restore"} =>
          o.mem.active \in Slots /\ ActiveCommit(o.mem) \in Commits
    /\ o.at = "done" /\ o.commit # NoCommit => o.mem.active \in Slots
    /\ o.at \in Rolling => o.commit = NoCommit
    /\ o.at \in Exchanging =>
          \A g \in {o.plan.from, o.plan.to} : g \in Slots /\ Commit(o.mem, g) \in Commits
ManagerShape ==
    [at : Promoting \cup Rolling \cup Ended \cup {"idle", "held"}, mem : RepositoryState,
     commit : Commits \cup {NoCommit}, slot : 0 .. LastSlot, goal : 0 .. LastSlot, plan : Rollback]
Manager == {o \in ManagerShape : Steady(o)}
Managers == op \in [Actors -> Manager] /\ saved \in RepositoryState

-----------------------------------------------------------------------------
(* Who acts.                                                               *)

\* The promotion or the mission of a candidate is under way, or will go on.
Acting == (Developing \cup Handing) \ {"develop"}
\* A successor that nobody waits for any more only waits for its own deadline.
Stranded(c) == heir[c] = "ready" /\ run[c] \in {"over", "stuck"}
Engaged(c) ==
    \/ heir[c] # "none" /\ ~Stranded(c)
    \/ run[c] \in Acting \/ (run[c] = "lost" /\ due[c])

\* There is one at a time; so is the run of a process.
OneMission == \A c, d \in Candidates : Engaged(c) /\ Engaged(d) => c = d
OneRun == \A c, d \in Candidates : Active(c) /\ Active(d) /\ by[c] = by[d] => c = d

\* The predecessor serves until its successor takes over, and again when it has
\* retired that one.
Passed(c) == run[c] \in {"wait", "retire"} /\ record[c] = "accepted"
Serving(c) ==
    /\ Active(c) => by[c] = server \/ (Passed(c) /\ server \in {c, "none"})
    /\ run[c] = "lost" /\ heir[c] # "none" => server = "none"
    /\ run[c] = "none" => by[c] = "plain"

Verifying == {"ready", "resume", "verify", "check", "complete", "accept"}

\* Which record and which successor go with the place of the run.
Positions(c) ==
    /\ run[c] \in {"none", "develop", "promote", "unpublish", "build", "announce"}
          => record[c] = "none" /\ heir[c] = "none" /\ ~due[c]
    /\ run[c] = "launch" =>
          /\ record[c] \in {"none", "launching", "ready"} /\ ~due[c]
          /\ heir[c] # "none" => \/ record[c] = "launching" /\ heir[c] = "boot"
                                 \/ record[c] = "ready" /\ heir[c] = "ready"
    /\ run[c] \in {"deferred", "finalize"} =>
          record[c] \in {"ready", "failed"} /\ heir[c] \in {"ready", "none"}
    /\ run[c] = "wait" =>
          record[c] \in {"quiesced", "failed", "accepted"} /\ heir[c] \notin {"boot", "replace"}
    /\ run[c] = "retire" =>
          record[c] \in {"ready", "failed", "accepted"} /\ heir[c] \notin {"boot", "replace"}
    /\ run[c] \in {"undo", "close", "over", "stuck"} =>
          /\ heir[c] \in {"none", "boot", "ready"} /\ (heir[c] = "boot" => record[c] = "failed")
          /\ heir[c] = "ready" => record[c] = "ready"
    /\ record[c] = "accepted" => heir[c] = "none"
    /\ heir[c] = "boot" => record[c] \in {"launching", "failed"}
    /\ heir[c] = "replace" => record[c] = "failed"
    /\ run[c] \notin {"publish", "settle", "served"}

\* What the managers of the run and of the successor are doing there.
Opens(c) ==
    /\ run[c] = "promote" =>
          op[Runner(c)].at \in Promoting \cup Ended /\ op[Runner(c)].commit = c
    /\ run[c] = "unpublish" => op[Runner(c)].at \in {"plan"} \cup Exchanging \cup Ended
    /\ run[c] = "undo" => op[Runner(c)].at \in Rolling \cup Ended
    /\ run[c] \notin {"promote", "unpublish", "undo"} => op[Runner(c)] = IdleManager
    /\ heir[c] \in {"boot", "resume", "replace"} =>
          op[Heir(c)].at \in (Rolling \ {"plan"}) \cup Ended /\ op[Heir(c)].goal = 0
    /\ heir[c] = "verify" => op[Heir(c)].at = "held"
    /\ heir[c] = "check" => op[Heir(c)].at \in Promoting \cup Ended
    /\ heir[c] = "undo" => op[Heir(c)].at \in Rolling \cup Ended
    /\ heir[c] \notin {"boot", "resume", "replace", "verify", "check", "undo"} =>
          op[Heir(c)] = IdleManager

Control == OneMission /\ OneRun /\ \A c \in Candidates : Serving(c) /\ Positions(c) /\ Opens(c)

-----------------------------------------------------------------------------
(* What is on disk.                                                        *)

Names(p) == {p.from, p.to}
LineOf(s, g) == Line([s EXCEPT !.active = g])

\* The journal is about generations of the past.
Foreign == journal = NoJournal \/ saved.active \notin Names(journal)

RecordsSound ==
    /\ saved.active = 0 => saved = NoGenerations /\ head = Root
    /\ saved.active # 0 => saved.gens[saved.active] # Blank
    /\ \A g \in Slots : saved.gens[g] # Blank => /\ Commit(saved, g) # NoCommit
                                                 /\ g < saved.next
                                                 /\ saved.gens[g].parent < g
\* The ends of a rollback are recorded, and it leads to an ancestor.
Leads(p) == /\ \A g \in Names(p) : g \in Slots /\ saved.gens[g] # Blank
            /\ p.to \in LineOf(saved, p.from)
JournalSound == journal # NoJournal => Leads(journal)

\* From its record on until somebody rolls it back, the promotion stands.
Stands(c) ==
    \/ run[c] = "promote" /\ op[Runner(c)].at = "done"
    \/ run[c] \in {"build", "announce", "launch", "deferred", "finalize"}
    \/ run[c] \in {"wait", "retire"} /\ heir[c] \in Verifying
    \/ run[c] = "lost" /\ heir[c] \in Verifying /\ (heir[c] = "ready" => record[c] # "ready")
    \/ run[c] = "lost" /\ heir[c] = "boot" /\ record[c] = "launching"
Fresh == saved.active # 0 /\ head = ActiveCommit(saved) /\ Foreign

\* A promotion works from the state that is saved.
Promotes(c) == LET o == op[Runner(c)] IN run[c] = "promote" =>
    /\ o.at # "failed" => o.mem = saved
    /\ o.at \in {"checkpoint", "publish"} => saved.active = 0
    /\ o.at \in {"activate", "forward", "record", "restore", "done"} => saved.active # 0
    /\ o.at \in {"publish", "forward", "record", "restore", "unpin"} =>
          o.slot \in Slots /\ saved.gens[o.slot] = Blank /\ pins[o.slot] \in Commits
          /\ o.slot >= saved.next
    /\ o.at \in {"forward", "record", "restore"} => pins[o.slot] = c
Unpins(c) == LET o == op[Runner(c)] IN run[c] = "promote" /\ o.at = "unpin" =>
    saved.active = 0 \/ head = ActiveCommit(saved) \/ head # pins[o.slot]
Unrecorded(c) ==
    run[c] \in {"none", "develop"} \/ (run[c] = "promote" /\ op[Runner(c)].at # "done")
    => ~IsRecorded(saved, c)

\* A rollback works from the recorded generations, and once it has begun is
\* either journalled or behind itself.
RollsBack(a) == LET o == op[a] IN
    /\ o.at \in Rolling => o.mem.gens = saved.gens /\ o.mem.next = saved.next
    /\ o.at \in Exchanging =>
          /\ Leads(o.plan) /\ saved.active \in Names(o.plan)
          /\ o.at \in {"reset", "move"} => journal = o.plan \/ saved.active = o.plan.to
          /\ o.at \in {"move", "unjournal"} => head = Commit(saved, o.plan.to)
          /\ o.at = "unjournal" => saved.active = o.plan.to /\ o.mem.active = o.plan.to
RollsAlone(c) ==
    /\ RollsBack(Runner(c)) /\ RollsBack(Heir(c))
    /\ op[Runner(c)].at \in {"recover", "plan"} => op[Runner(c)].mem = saved
    /\ heir[c] # "boot" /\ op[Heir(c)].at \in {"recover", "plan"} => op[Heir(c)].mem = saved

\* A successor that did not come up in time recovers beside the rollback.
Boots(c) == LET r == op[Runner(c)] h == op[Heir(c)] IN heir[c] = "boot" =>
    /\ record[c] = "launching" \/ r.at \in {"recover", "plan"} =>
          /\ h.at \in {"recover", "done", "failed"}
          /\ h.at = "recover" => h.mem = saved
    /\ r.at \in {"recover", "plan"} => Foreign
    /\ h.at = "recover" =>
          \/ h.mem = saved
          \/ journal \in {NoJournal, [from |-> h.mem.active, to |-> saved.active]}
    /\ h.at = "recover" /\ r.at \in Exchanging => journal = r.plan /\ r.plan.from = h.mem.active
    /\ h.at \in Exchanging /\ r.at \in Exchanging => h.plan = r.plan
    /\ r.at \in Exchanging => r.plan.to = r.goal
Resumes(c) ==
    /\ heir[c] = "resume" => op[Heir(c)].at \in {"recover", "done", "failed"}
    /\ heir[c] = "check" => op[Heir(c)].at \in {"checkpoint"} \cup Ended
    /\ op[Heir(c)].at \in {"held", "checkpoint"} =>
          op[Heir(c)].mem = saved /\ op[Heir(c)].commit = NoCommit

Lies(c) == /\ Stands(c) => Fresh
           /\ Promotes(c) /\ Unrecorded(c) /\ RollsAlone(c) /\ Boots(c) /\ Resumes(c)
Disk == RecordsSound /\ JournalSound /\ PinsHold /\ \A c \in Candidates : Lies(c)
Explained == HeadExplained /\ \A c \in Candidates : Unpins(c)

-----------------------------------------------------------------------------
(* What the records say.                                                   *)

\* A promoted candidate has a generation, which keeps its parent.
Promoted(c) ==
    /\ cand[c].gen # 0 => /\ cand[c].gen \in Slots /\ saved.gens[cand[c].gen] # Blank
                          /\ saved.gens[cand[c].gen].parent = cand[c].from /\ cand[c].from # 0
    /\ \/ run[c] \in {"build", "announce", "launch", "deferred", "finalize", "wait",
                      "retire", "undo", "close"}
       \/ heir[c] # "none" \/ mission[c] # "none" \/ due[c]
       => cand[c].gen # 0
    /\ run[c] = "promote" /\ op[Runner(c)].at = "done" => saved.gens[saved.active].parent # 0
    /\ Stands(c) /\ run[c] # "promote" => saved.active = cand[c].gen
    /\ run[c] \in {"none", "develop", "promote", "unpublish"} => cand[c].gen = 0
    /\ run[c] = "unpublish" /\ op[Runner(c)].at \in Exchanging =>
          op[Runner(c)].plan.to = op[Runner(c)].goal
    /\ run[c] = "undo" => op[Runner(c)].goal = cand[c].from
    /\ heir[c] = "undo" => op[Heir(c)].goal = cand[c].from

\* The generation is gone when the rollback of a mission is done.
Undoes(c) ==
    /\ (run[c] = "undo" /\ op[Runner(c)].at = "done") \/ run[c] = "close" => Gone(c)
    /\ (heir[c] = "undo" /\ op[Heir(c)].at = "done") \/ heir[c] = "close" => Gone(c)
    /\ mission[c] = "rolled-back" => Gone(c)
Verifies(c) ==
    /\ heir[c] \in {"complete", "accept"} => handoff[c] = "completed"
    /\ heir[c] = "accept" => mission[c] = "completed"

\* No rollback of the mission of d, under way or to come, leads behind x.
Spares(x, d) ==
    /\ Engaged(d) /\ cand[d].gen # 0 => x \in LineOf(saved, cand[d].from)
    /\ run[d] = "promote" /\ op[Runner(d)].at = "done" =>
          x \in LineOf(saved, saved.gens[saved.active].parent)
    /\ \A a \in {Runner(d), Heir(d)} :
          /\ op[a].at \in Exchanging => x \in LineOf(saved, op[a].plan.to)
          /\ op[a].at = "plan" => x \in LineOf(saved, op[a].goal)
\* The generation x is active or behind the active one, and stays so when the
\* rollback in the journal is resumed.
Holds(x) == x \in Line(saved) /\ (Foreign \/ x \in LineOf(saved, journal.to))
\* Who serves, or waits for its successor and may yet serve again.
InOffice(c) == server = c \/ \E d \in Candidates : Active(d) /\ by[d] = c
TakesOver(c) == InOffice(c) /\ by[c] # c =>
    /\ mission[c] = "completed" /\ handoff[c] = "completed"
    /\ record[c] = "accepted" /\ run[c] \in {"wait", "retire", "over", "lost"}
    /\ Holds(cand[c].gen) /\ \A d \in Candidates \ {c} : Spares(cand[c].gen, d)
Records == \A c \in Candidates : Promoted(c) /\ Undoes(c) /\ Verifies(c) /\ TakesOver(c)

\* Types of the variables and of the managers.
Typed == ImprovementTypeOK /\ Managers

-----------------------------------------------------------------------------
(* Shapes.                                                                 *)

\* A run and a successor of a candidate are two actors, and there are no others.
LEMMA ActorFacts ==
    ASSUME NEW c \in Candidates, NEW d \in Candidates
    PROVE  /\ Runner(c) \in Actors /\ Heir(c) \in Actors
           /\ Runner(c) # Heir(d) /\ Heir(c) # Runner(d)
           /\ Runner(c) = Runner(d) <=> c = d
           /\ Heir(c) = Heir(d) <=> c = d
           /\ Runner(c)[1] = c /\ Heir(c)[1] = c
           /\ Runner(c)[2] = "run" /\ Heir(c)[2] = "heir"
  BY DEF Runner, Heir, Actors

LEMMA ActorCases ==
    ASSUME NEW a \in Actors
    PROVE  \E c \in Candidates : a = Runner(c) \/ a = Heir(c)
  BY DEF Runner, Heir, Actors

\* A non-empty set of slots has a first one.
LEMMA FirstIsIn ==
    ASSUME NEW S \in SUBSET Slots, S # {}
    PROVE  First(S) \in S
<1> DEFINE R == OpToRel(<, Nat)
<1>1. IsWellFoundedOn(R, Nat)
  BY NatLessThanWellFounded
<1>2. \A x, y \in Nat : x < y => <<x, y>> \in R
  BY DEF OpToRel
<1>3. S \in SUBSET Nat
  BY GenerationsAssumption DEF Slots
<1> HIDE DEF R
<1>4. PICK x \in S : \A y \in S : <<y, x>> \notin R
  BY <1>1, <1>3, WFMin
<1>5. \A y \in S : ~(y < x)
  BY <1>2, <1>3, <1>4
<1>6. \A y \in S : x <= y
  BY <1>3, <1>5
<1> QED
  BY <1>6 DEF First

LEMMA Constants ==
    /\ NoCommit \notin Commits /\ Root \notin Candidates /\ Root \in Commits
    /\ \A c \in Candidates : c \in Commits /\ c # NoCommit /\ c # "none" /\ c # Root
    /\ "none" \notin Candidates /\ "plain" \notin Candidates
    /\ LastSlot \in Nat /\ 0 \notin Slots /\ \A g \in Slots : g \in Nat /\ g \in 0 .. LastSlot
    /\ \A g \in Slots : g + 1 \in 1 .. LastSlot + 1
    /\ \A g \in 0 .. LastSlot : g # 0 => g \in Slots
    /\ Blank.commit = NoCommit /\ Blank.parent = 0
  BY GenerationsAssumption, ImprovementAssumption DEF Commits, NoCommit, Root, Slots, Blank

\* A manager that is opened.
LEMMA ManagerShapes ==
    ASSUME Typed
    PROVE  /\ NoGenerations \in RepositoryState
           /\ IdleManager \in Manager
           /\ IdleManager.at = "idle" /\ IdleManager.commit = NoCommit /\ IdleManager.goal = 0
           /\ \A at \in {"checkpoint", "held", "recover"}, g \in 0 .. LastSlot :
                 /\ Opened(at, NoCommit, g) \in Manager
                 /\ Opened(at, NoCommit, g).at = at
                 /\ Opened(at, NoCommit, g).mem = saved
                 /\ Opened(at, NoCommit, g).commit = NoCommit
                 /\ Opened(at, NoCommit, g).goal = g
           /\ \A c \in Candidates :
                 /\ OpenPromotion(c) \in Manager
                 /\ OpenPromotion(c).at = IF saved.active = 0 THEN "checkpoint" ELSE "activate"
                 /\ OpenPromotion(c).mem = saved /\ OpenPromotion(c).commit = c
                 /\ OpenPromotion(c).goal = 0
<1> USE Constants DEF Typed, Managers
<1>1. NoGenerations \in RepositoryState
  BY DEF NoGenerations, RepositoryState, Generation, Blank
<1>2. IdleManager \in Manager
  BY <1>1 DEF IdleManager, Working, Manager, ManagerShape, Steady, Promoting, Rolling,
     Exchanging, Ended, Rollback,
              NoJournal, NoCommit
<1>3. ASSUME NEW at \in {"checkpoint", "held", "recover", "activate"}, NEW g \in 0 .. LastSlot,
             NEW c \in Commits \cup {NoCommit},
             at = "recover" => c = NoCommit, at = "activate" => c # NoCommit
      PROVE  /\ Opened(at, c, g) \in Manager
             /\ Opened(at, c, g).at = at /\ Opened(at, c, g).mem = saved
             /\ Opened(at, c, g).commit = c /\ Opened(at, c, g).goal = g
  BY <1>1, <1>2, <1>3 DEF Opened, Working, Manager, ManagerShape, Steady, Promoting, Rolling,
     Exchanging,
                    Ended, Rollback, NoJournal
<1>4. ASSUME NEW c \in Candidates
      PROVE  /\ OpenPromotion(c) \in Manager
             /\ OpenPromotion(c).at = IF saved.active = 0 THEN "checkpoint" ELSE "activate"
             /\ OpenPromotion(c).mem = saved /\ OpenPromotion(c).commit = c
             /\ OpenPromotion(c).goal = 0
  <2>1. CASE saved.active = 0
    <3>1. OpenPromotion(c) = Opened("checkpoint", c, 0)
      BY <2>1 DEF OpenPromotion
    <3> QED
      BY <1>3, <2>1, <3>1
  <2>2. CASE saved.active # 0
    <3>1. OpenPromotion(c) = Opened("activate", c, 0)
      BY <2>2 DEF OpenPromotion
    <3> QED
      BY <1>3, <2>2, <3>1
  <2> QED
    BY <2>1, <2>2
<1> QED
  BY <1>1, <1>2, <1>3, <1>4 DEF IdleManager, Working

-----------------------------------------------------------------------------
(* A step of a manager.                                                    *)

\* What the step of a manager leaves as it is, and where it leads.
Follows(o, n) ==
    /\ n.commit = o.commit /\ n.goal = o.goal
    /\ o.at \in Promoting \cup Rolling
    /\ o.at \in Promoting => n.at \in Promoting \cup Ended
    /\ o.at \in Rolling => n.at \in {"plan"} \cup Exchanging \cup Ended
    /\ n.at = "plan" => n.goal # 0
Goes(a) ==
    /\ op' = [op EXCEPT ![a] = op'[a]]
    /\ op'[a] \in Manager
    /\ Follows(op[a], op'[a])
    /\ GenerationsTypeOK' /\ saved' \in RepositoryState

LEMMA OpFacts ==
    ASSUME Typed, NEW a \in Actors, NEW n, op' = [op EXCEPT ![a] = n]
    PROVE  op'[a] = n /\ \A b \in Actors : b # a => op'[b] = op[b]
  BY DEF Typed, Managers

LEMMA WithShape ==
    ASSUME NEW m \in RepositoryState, NEW g \in Slots, NEW c \in Commits
    PROVE  /\ With(m, g, c) \in RepositoryState
           /\ With(m, g, c).active = g /\ With(m, g, c).next = g + 1
  BY Constants DEF With, RepositoryState, Generation

LEMMA WithFacts ==
    ASSUME NEW m \in RepositoryState, NEW g \in Slots, NEW c \in Commits
    PROVE  /\ With(m, g, c).gens[g] = [commit |-> c, parent |-> m.active]
           /\ \A h \in Slots : h # g => With(m, g, c).gens[h] = m.gens[h]
           /\ Commit(With(m, g, c), g) = c
           /\ ActiveCommit(With(m, g, c)) = c
  BY Constants DEF With, RepositoryState, Generation, Commit, ActiveCommit

\* What a step writes beside the place of the manager.
LEMMA PlaceFacts ==
    ASSUME NEW o \in Manager, NEW s \in Promoting \cup Rolling \cup Ended
    PROVE  LET n == [o EXCEPT !.at = s]
           IN  /\ n.at = s /\ n.mem = o.mem /\ n.commit = o.commit /\ n.slot = o.slot
               /\ n.goal = o.goal /\ n.plan = o.plan
               /\ Steady(n) => n \in Manager
<1>1. o \in ManagerShape /\ o.mem \in RepositoryState
  BY DEF Manager, ManagerShape
<1>2. LET n == [o EXCEPT !.at = s]
      IN  /\ n.at = s /\ n.mem = o.mem /\ n.commit = o.commit /\ n.slot = o.slot
          /\ n.goal = o.goal /\ n.plan = o.plan /\ n \in ManagerShape
  BY <1>1 DEF ManagerShape
<1> QED
  BY <1>2 DEF Manager

LEMMA GoesBy ==
    ASSUME Typed, NEW a \in Actors, NEW n \in Manager, op' = [op EXCEPT ![a] = n],
           Follows(op[a], n),
           head' \in Commits, clean' \in BOOLEAN, base' = base,
           pins' \in [Slots -> Commits \cup {NoCommit}], saved' \in RepositoryState,
           journal' \in Rollback, failures' \in 0 .. MaxFailures
    PROVE  Goes(a) /\ op'[a] = n
<1>1. op'[a] = n
  BY OpFacts
<1>2. GenerationsTypeOK'
  BY DEF GenerationsTypeOK, Typed, ImprovementTypeOK, RepositoryState, Generation, Rollback
<1> QED
  BY <1>1, <1>2 DEF Goes

LEMMA TypeFacts ==
    ASSUME Typed
    PROVE  /\ head \in Commits /\ clean \in BOOLEAN /\ saved \in RepositoryState
           /\ pins \in [Slots -> Commits \cup {NoCommit}] /\ journal \in Rollback
           /\ failures \in 0 .. MaxFailures
           /\ \A a \in Actors : op[a] \in Manager /\ op[a].mem \in RepositoryState
                /\ Steady(op[a]) /\ op[a].slot \in 0 .. LastSlot /\ op[a].goal \in 0 .. LastSlot
                /\ op[a].commit \in Commits \cup {NoCommit} /\ op[a].plan \in Rollback
<1>1. /\ head \in Commits /\ clean \in BOOLEAN /\ saved \in RepositoryState
      /\ pins \in [Slots -> Commits \cup {NoCommit}] /\ journal \in Rollback
      /\ failures \in 0 .. MaxFailures
  BY DEF Typed, ImprovementTypeOK, GenerationsTypeOK, Managers, Rollback
<1>2. ASSUME NEW a \in Actors
      PROVE  op[a] \in Manager /\ op[a] \in ManagerShape /\ Steady(op[a])
  BY DEF Typed, Managers, Manager
<1>3. ASSUME NEW a \in Actors
      PROVE  /\ op[a].mem \in RepositoryState
             /\ op[a].slot \in 0 .. LastSlot /\ op[a].goal \in 0 .. LastSlot
             /\ op[a].commit \in Commits \cup {NoCommit} /\ op[a].plan \in Rollback
  BY <1>2 DEF ManagerShape
<1> QED
  BY <1>1, <1>2, <1>3

\* The manager goes on to a place, with what it has in mind.
Turns(a, at, mem, slot, plan) ==
    /\ Goes(a)
    /\ op'[a].at = at /\ op'[a].mem = mem /\ op'[a].slot = slot /\ op'[a].plan = plan
    /\ op'[a].commit = op[a].commit /\ op'[a].goal = op[a].goal

LEMMA GoesForward ==
    ASSUME Typed, NEW a \in Actors, Forward(a)
    PROVE  Turns(a, "record", op[a].mem, op[a].slot, op[a].plan)
<1> DEFINE n == [op[a] EXCEPT !.at = "record"]
<1>1. op' = [op EXCEPT ![a] = n]
  BY DEF Forward, Goto
<1>8. "record" \in Promoting \cup Rolling \cup Ended
  BY DEF Promoting, Rolling, Exchanging, Ended
<1>2. /\ n.at = "record" /\ n.mem = op[a].mem /\ n.commit = op[a].commit
      /\ n.slot = op[a].slot /\ n.goal = op[a].goal /\ n.plan = op[a].plan
      /\ (Steady(n) => n \in Manager)
  BY <1>8, TypeFacts, PlaceFacts
<1> HIDE DEF n
<1>3. n \in Manager /\ Follows(op[a], n)
  <2>1. Steady(n)
    BY <1>2, TypeFacts DEF Steady, Rolling, Exchanging, Forward, OpAt
  <2> QED
    BY <1>2, <2>1 DEF Follows, Promoting, Rolling, Exchanging, Ended, Forward, OpAt
<1>4. /\ head' \in Commits /\ clean' \in BOOLEAN /\ base' = base
      /\ pins' \in [Slots -> Commits \cup {NoCommit}] /\ saved' \in RepositoryState
      /\ journal' \in Rollback /\ failures' \in 0 .. MaxFailures
  BY TypeFacts DEF Forward, OpAt, files, Steady
<1> QED
  BY <1>1, <1>2, <1>3, <1>4, GoesBy DEF Turns

LEMMA GoesRestore ==
    ASSUME Typed, NEW a \in Actors, Restore(a)
    PROVE  Turns(a, "unpin", op[a].mem, op[a].slot, op[a].plan)
<1> DEFINE n == [op[a] EXCEPT !.at = "unpin"]
<1>1. op' = [op EXCEPT ![a] = n]
  BY DEF Restore, Goto
<1>8. "unpin" \in Promoting \cup Rolling \cup Ended
  BY DEF Promoting, Rolling, Exchanging, Ended
<1>2. /\ n.at = "unpin" /\ n.mem = op[a].mem /\ n.commit = op[a].commit
      /\ n.slot = op[a].slot /\ n.goal = op[a].goal /\ n.plan = op[a].plan
      /\ (Steady(n) => n \in Manager)
  BY <1>8, TypeFacts, PlaceFacts
<1> HIDE DEF n
<1>3. n \in Manager /\ Follows(op[a], n)
  <2>1. Steady(n)
    BY <1>2, TypeFacts DEF Steady, Rolling, Exchanging, Restore, OpAt
  <2> QED
    BY <1>2, <2>1 DEF Follows, Promoting, Rolling, Exchanging, Ended, Restore, OpAt
<1>4. /\ head' \in Commits /\ clean' \in BOOLEAN /\ base' = base
      /\ pins' \in [Slots -> Commits \cup {NoCommit}] /\ saved' \in RepositoryState
      /\ journal' \in Rollback /\ failures' \in 0 .. MaxFailures
  BY TypeFacts DEF Restore, OpAt, files, Steady
<1> QED
  BY <1>1, <1>2, <1>3, <1>4, GoesBy DEF Turns

LEMMA GoesUnpin ==
    ASSUME Typed, NEW a \in Actors, Unpin(a)
    PROVE  Turns(a, "failed", op[a].mem, op[a].slot, op[a].plan)
<1> DEFINE n == [op[a] EXCEPT !.at = "failed"]
<1>1. op' = [op EXCEPT ![a] = n]
  BY DEF Unpin, Goto
<1>8. "failed" \in Promoting \cup Rolling \cup Ended
  BY DEF Promoting, Rolling, Exchanging, Ended
<1>2. /\ n.at = "failed" /\ n.mem = op[a].mem /\ n.commit = op[a].commit
      /\ n.slot = op[a].slot /\ n.goal = op[a].goal /\ n.plan = op[a].plan
      /\ (Steady(n) => n \in Manager)
  BY <1>8, TypeFacts, PlaceFacts
<1> HIDE DEF n
<1>3. n \in Manager /\ Follows(op[a], n)
  <2>1. Steady(n)
    BY <1>2, TypeFacts DEF Steady, Rolling, Exchanging, Unpin, OpAt
  <2> QED
    BY <1>2, <2>1 DEF Follows, Promoting, Rolling, Exchanging, Ended, Unpin, OpAt
<1>4. /\ head' \in Commits /\ clean' \in BOOLEAN /\ base' = base
      /\ pins' \in [Slots -> Commits \cup {NoCommit}] /\ saved' \in RepositoryState
      /\ journal' \in Rollback /\ failures' \in 0 .. MaxFailures
  BY TypeFacts DEF Unpin, OpAt, files, Steady
<1> QED
  BY <1>1, <1>2, <1>3, <1>4, GoesBy DEF Turns

LEMMA GoesCheckpointed ==
    ASSUME Typed, NEW a \in Actors, Checkpoint(a), head = ActiveCommit(op[a].mem)
    PROVE  Turns(a, AfterCheckpoint(op[a]), op[a].mem, op[a].slot, op[a].plan)
<1> DEFINE n == [op[a] EXCEPT !.at = AfterCheckpoint(op[a])]
<1>0. AfterCheckpoint(op[a]) \in {"done", "activate"}
  BY DEF AfterCheckpoint
<1>1. op' = [op EXCEPT ![a] = n]
  BY DEF Checkpoint, Goto
<1>8. AfterCheckpoint(op[a]) \in Promoting \cup Rolling \cup Ended
  BY <1>0 DEF Promoting, Rolling, Exchanging, Ended
<1>2. /\ n.at = AfterCheckpoint(op[a]) /\ n.mem = op[a].mem /\ n.commit = op[a].commit
      /\ n.slot = op[a].slot /\ n.goal = op[a].goal /\ n.plan = op[a].plan
      /\ (Steady(n) => n \in Manager)
  BY <1>8, TypeFacts, <1>0, PlaceFacts
<1> HIDE DEF n
<1>3. n \in Manager /\ Follows(op[a], n)
  <2>1. Steady(n)
    BY <1>2, TypeFacts DEF Steady, Rolling, Exchanging, AfterCheckpoint
  <2> QED
    BY <1>2, <2>1, <1>0 DEF Follows, Promoting, Rolling, Exchanging, Ended, Checkpoint, OpAt
<1>4. /\ head' \in Commits /\ clean' \in BOOLEAN /\ base' = base
      /\ pins' \in [Slots -> Commits \cup {NoCommit}] /\ saved' \in RepositoryState
      /\ journal' \in Rollback /\ failures' \in 0 .. MaxFailures
  BY TypeFacts DEF Checkpoint, files
<1> QED
  BY <1>1, <1>2, <1>3, <1>4, GoesBy DEF Turns

LEMMA GoesPinning ==
    ASSUME Typed, NEW a \in Actors, Checkpoint(a), head # ActiveCommit(op[a].mem)
    PROVE  Turns(a, "publish", op[a].mem, First(Allocatable(op[a].mem, {NoCommit})), op[a].plan)
<1> DEFINE n == [op[a] EXCEPT !.at = "publish", !.slot = First(Allocatable(op[a].mem, {NoCommit}))]
<1>0. First(Allocatable(op[a].mem, {NoCommit})) \in Slots
  <2>1. Allocatable(op[a].mem, {NoCommit}) # {}
    BY DEF Checkpoint, CheckpointAdmitted
  <2>2. Allocatable(op[a].mem, {NoCommit}) \in SUBSET Slots
    BY DEF Allocatable
  <2> QED
    BY <2>1, <2>2, FirstIsIn
<1>5. First(Allocatable(op[a].mem, {NoCommit})) \in 0 .. LastSlot
  BY <1>0, Constants
<1>1. op' = [op EXCEPT ![a] = n]
  BY DEF Checkpoint
<1>8. "publish" \in Promoting \cup Rolling \cup Ended
  BY DEF Promoting, Rolling, Exchanging, Ended
<1>2. /\ n.at = "publish" /\ n.mem = op[a].mem /\ n.commit = op[a].commit
      /\ n.slot = First(Allocatable(op[a].mem, {NoCommit})) /\ n.goal = op[a].goal /\ n.plan = op[a].plan
      /\ (Steady(n) => n \in Manager)
  <2>1. op[a] \in ManagerShape
    BY TypeFacts DEF Manager
  <2>2. /\ n.at = "publish" /\ n.mem = op[a].mem
        /\ n.commit = op[a].commit /\ n.slot = First(Allocatable(op[a].mem, {NoCommit}))
        /\ n.goal = op[a].goal /\ n.plan = op[a].plan /\ n \in ManagerShape
    BY <1>8, <2>1, <1>5, TypeFacts DEF ManagerShape
  <2> QED
    BY <2>2 DEF Manager
<1> HIDE DEF n
<1>3. n \in Manager /\ Follows(op[a], n)
  <2>1. Steady(n)
    BY <1>0, <1>2, TypeFacts DEF Steady, Rolling, Exchanging
  <2> QED
    BY <1>2, <2>1 DEF Follows, Promoting, Rolling, Exchanging, Ended, Checkpoint, OpAt
<1>4. /\ head' \in Commits /\ clean' \in BOOLEAN /\ base' = base
      /\ pins' \in [Slots -> Commits \cup {NoCommit}] /\ saved' \in RepositoryState
      /\ journal' \in Rollback /\ failures' \in 0 .. MaxFailures
  BY <1>0, TypeFacts DEF Checkpoint, files
<1> QED
  BY <1>1, <1>2, <1>3, <1>4, GoesBy DEF Turns

LEMMA GoesPublish ==
    ASSUME Typed, NEW a \in Actors, PublishCheckpoint(a)
    PROVE  Turns(a, AfterCheckpoint(op[a]), With(op[a].mem, op[a].slot, pins[op[a].slot]), op[a].slot, op[a].plan)
<1> DEFINE n == [op[a] EXCEPT !.at = AfterCheckpoint(op[a]), !.mem = With(op[a].mem, op[a].slot, pins[op[a].slot])]
<1>0. AfterCheckpoint(op[a]) \in {"done", "activate"}
  BY DEF AfterCheckpoint
<1>5. op[a].slot \in Slots /\ pins[op[a].slot] \in Commits
  BY TypeFacts DEF PublishCheckpoint, OpAt, Steady
<1>6. With(op[a].mem, op[a].slot, pins[op[a].slot]) \in RepositoryState /\ With(op[a].mem, op[a].slot, pins[op[a].slot]).active = op[a].slot
  <2>1. op[a].mem \in RepositoryState
    BY TypeFacts
  <2> QED
    BY <1>5, <2>1, WithShape
<1>1. op' = [op EXCEPT ![a] = n]
  BY DEF PublishCheckpoint
<1>8. AfterCheckpoint(op[a]) \in Promoting \cup Rolling \cup Ended
  BY <1>0 DEF Promoting, Rolling, Exchanging, Ended
<1>2. /\ n.at = AfterCheckpoint(op[a]) /\ n.mem = With(op[a].mem, op[a].slot, pins[op[a].slot]) /\ n.commit = op[a].commit
      /\ n.slot = op[a].slot /\ n.goal = op[a].goal /\ n.plan = op[a].plan
      /\ (Steady(n) => n \in Manager)
  <2>1. op[a] \in ManagerShape
    BY TypeFacts DEF Manager
  <2>2. /\ n.at = AfterCheckpoint(op[a]) /\ n.mem = With(op[a].mem, op[a].slot, pins[op[a].slot])
        /\ n.commit = op[a].commit /\ n.slot = op[a].slot
        /\ n.goal = op[a].goal /\ n.plan = op[a].plan /\ n \in ManagerShape
    BY <1>8, <2>1, <1>0, <1>6, TypeFacts DEF ManagerShape
  <2> QED
    BY <2>2 DEF Manager
<1> HIDE DEF n
<1>3. n \in Manager /\ Follows(op[a], n)
  <2>1. Steady(n)
    BY <1>2, <1>5, <1>6, TypeFacts DEF Steady, Rolling, Exchanging, AfterCheckpoint
  <2> QED
    BY <1>2, <2>1, <1>0 DEF Follows, Promoting, Rolling, Exchanging, Ended, PublishCheckpoint, OpAt
<1>4. /\ head' \in Commits /\ clean' \in BOOLEAN /\ base' = base
      /\ pins' \in [Slots -> Commits \cup {NoCommit}] /\ saved' \in RepositoryState
      /\ journal' \in Rollback /\ failures' \in 0 .. MaxFailures
  BY <1>6, TypeFacts DEF PublishCheckpoint, repo
<1> QED
  BY <1>1, <1>2, <1>3, <1>4, GoesBy DEF Turns

LEMMA GoesActivated ==
    ASSUME Typed, NEW a \in Actors, Activate(a), AlreadyActive(op[a].mem, op[a].commit)
    PROVE  Turns(a, "done", op[a].mem, op[a].slot, op[a].plan)
<1> DEFINE n == [op[a] EXCEPT !.at = "done"]
<1>1. op' = [op EXCEPT ![a] = n]
  BY DEF Activate, Goto
<1>8. "done" \in Promoting \cup Rolling \cup Ended
  BY DEF Promoting, Rolling, Exchanging, Ended
<1>2. /\ n.at = "done" /\ n.mem = op[a].mem /\ n.commit = op[a].commit
      /\ n.slot = op[a].slot /\ n.goal = op[a].goal /\ n.plan = op[a].plan
      /\ (Steady(n) => n \in Manager)
  BY <1>8, TypeFacts, PlaceFacts
<1> HIDE DEF n
<1>3. n \in Manager /\ Follows(op[a], n)
  <2>1. Steady(n)
    BY <1>2, TypeFacts, Constants DEF Steady, Rolling, Exchanging, Activate, ActivationAdmitted,
       RepositoryState
  <2> QED
    BY <1>2, <2>1 DEF Follows, Promoting, Rolling, Exchanging, Ended, Activate, OpAt
<1>4. /\ head' \in Commits /\ clean' \in BOOLEAN /\ base' = base
      /\ pins' \in [Slots -> Commits \cup {NoCommit}] /\ saved' \in RepositoryState
      /\ journal' \in Rollback /\ failures' \in 0 .. MaxFailures
  BY TypeFacts DEF Activate, files
<1> QED
  BY <1>1, <1>2, <1>3, <1>4, GoesBy DEF Turns

LEMMA GoesActivating ==
    ASSUME Typed, NEW a \in Actors, Activate(a),
           ~AlreadyActive(op[a].mem, op[a].commit)
    PROVE  Turns(a, "forward", op[a].mem, First(Allocatable(op[a].mem, {NoCommit, op[a].commit})), op[a].plan)
<1> DEFINE n == [op[a] EXCEPT !.at = "forward", !.slot = First(Allocatable(op[a].mem, {NoCommit, op[a].commit}))]
<1>0. First(Allocatable(op[a].mem, {NoCommit, op[a].commit})) \in Slots
  <2>1. Allocatable(op[a].mem, {NoCommit, op[a].commit}) # {}
    BY DEF Activate, ActivationAdmitted
  <2>2. Allocatable(op[a].mem, {NoCommit, op[a].commit}) \in SUBSET Slots
    BY DEF Allocatable
  <2> QED
    BY <2>1, <2>2, FirstIsIn
<1>5. First(Allocatable(op[a].mem, {NoCommit, op[a].commit})) \in 0 .. LastSlot
  BY <1>0, Constants
<1>6. op[a].mem.active \in Slots /\ ActiveCommit(op[a].mem) \in Commits
  BY TypeFacts, Constants
  DEF Activate, ActivationAdmitted, Pinned, ActiveCommit, Commit, RepositoryState, Generation
<1>1. op' = [op EXCEPT ![a] = n]
  BY DEF Activate
<1>8. "forward" \in Promoting \cup Rolling \cup Ended
  BY DEF Promoting, Rolling, Exchanging, Ended
<1>2. /\ n.at = "forward" /\ n.mem = op[a].mem /\ n.commit = op[a].commit
      /\ n.slot = First(Allocatable(op[a].mem, {NoCommit, op[a].commit})) /\ n.goal = op[a].goal /\ n.plan = op[a].plan
      /\ (Steady(n) => n \in Manager)
  <2>1. op[a] \in ManagerShape
    BY TypeFacts DEF Manager
  <2>2. /\ n.at = "forward" /\ n.mem = op[a].mem
        /\ n.commit = op[a].commit /\ n.slot = First(Allocatable(op[a].mem, {NoCommit, op[a].commit}))
        /\ n.goal = op[a].goal /\ n.plan = op[a].plan /\ n \in ManagerShape
    BY <1>8, <2>1, <1>5, TypeFacts DEF ManagerShape
  <2> QED
    BY <2>2 DEF Manager
<1> HIDE DEF n
<1>3. n \in Manager /\ Follows(op[a], n)
  <2>1. Steady(n)
    BY <1>0, <1>2, <1>6, TypeFacts DEF Steady, Rolling, Exchanging, Activate, OpAt
  <2> QED
    BY <1>2, <2>1 DEF Follows, Promoting, Rolling, Exchanging, Ended, Activate, OpAt
<1>4. /\ head' \in Commits /\ clean' \in BOOLEAN /\ base' = base
      /\ pins' \in [Slots -> Commits \cup {NoCommit}] /\ saved' \in RepositoryState
      /\ journal' \in Rollback /\ failures' \in 0 .. MaxFailures
  BY <1>0, TypeFacts DEF Activate, files, OpAt, Steady
<1> QED
  BY <1>1, <1>2, <1>3, <1>4, GoesBy DEF Turns

LEMMA GoesRecord ==
    ASSUME Typed, NEW a \in Actors, Record(a)
    PROVE  Turns(a, "done", With(op[a].mem, op[a].slot, op[a].commit), op[a].slot, op[a].plan)
<1> DEFINE n == [op[a] EXCEPT !.at = "done", !.mem = With(op[a].mem, op[a].slot, op[a].commit)]
<1>0. op[a].slot \in Slots /\ op[a].commit \in Commits
  BY TypeFacts DEF Record, OpAt, Steady
<1>6. With(op[a].mem, op[a].slot, op[a].commit) \in RepositoryState /\ With(op[a].mem, op[a].slot, op[a].commit).active = op[a].slot
  <2>1. op[a].mem \in RepositoryState
    BY TypeFacts
  <2> QED
    BY <1>0, <2>1, WithShape
<1>1. op' = [op EXCEPT ![a] = n]
  BY DEF Record
<1>8. "done" \in Promoting \cup Rolling \cup Ended
  BY DEF Promoting, Rolling, Exchanging, Ended
<1>2. /\ n.at = "done" /\ n.mem = With(op[a].mem, op[a].slot, op[a].commit) /\ n.commit = op[a].commit
      /\ n.slot = op[a].slot /\ n.goal = op[a].goal /\ n.plan = op[a].plan
      /\ (Steady(n) => n \in Manager)
  <2>1. op[a] \in ManagerShape
    BY TypeFacts DEF Manager
  <2>2. /\ n.at = "done" /\ n.mem = With(op[a].mem, op[a].slot, op[a].commit)
        /\ n.commit = op[a].commit /\ n.slot = op[a].slot
        /\ n.goal = op[a].goal /\ n.plan = op[a].plan /\ n \in ManagerShape
    BY <1>8, <2>1, <1>6, TypeFacts DEF ManagerShape
  <2> QED
    BY <2>2 DEF Manager
<1> HIDE DEF n
<1>3. n \in Manager /\ Follows(op[a], n)
  <2>1. Steady(n)
    BY <1>0, <1>2, <1>6 DEF Steady, Rolling, Exchanging
  <2> QED
    BY <1>2, <2>1 DEF Follows, Promoting, Rolling, Exchanging, Ended, Record, OpAt
<1>4. /\ head' \in Commits /\ clean' \in BOOLEAN /\ base' = base
      /\ pins' \in [Slots -> Commits \cup {NoCommit}] /\ saved' \in RepositoryState
      /\ journal' \in Rollback /\ failures' \in 0 .. MaxFailures
  BY <1>6, TypeFacts DEF Record, repo
<1> QED
  BY <1>1, <1>2, <1>3, <1>4, GoesBy DEF Turns

\* Where a recovery leads.
Recovers(a) ==
    IF journal = NoJournal THEN AfterRecovery(op[a])
    ELSE IF head = Commit(op[a].mem, journal.from) THEN "reset"
    ELSE IF op[a].mem.active = journal.to THEN "unjournal" ELSE "move"

LEMMA GoesRecover ==
    ASSUME Typed, NEW a \in Actors, Recover(a)
    PROVE  Turns(a, Recovers(a), op[a].mem, op[a].slot, journal)
<1> DEFINE n == [op[a] EXCEPT !.plan = journal, !.at = Recovers(a)]
<1>0. /\ Recovers(a) \in Exchanging \cup {"plan", "done"}
      /\ Recovers(a) = "plan" => op[a].goal # 0
      /\ Recovers(a) \in Exchanging => journal # NoJournal
  BY DEF Recovers, AfterRecovery, Exchanging
<1>5. journal # NoJournal =>
          \A g \in {journal.from, journal.to} : g \in Slots /\ Commit(op[a].mem, g) \in Commits
  BY TypeFacts
  DEF Recover, Resumable, Pinned, Commit, RepositoryState, Generation
<1>6. op[a].commit = NoCommit
  BY TypeFacts DEF Recover, OpAt, Steady, Rolling
<1>1. op' = [op EXCEPT ![a] = n]
  BY DEF Recover, Recovers
<1>8. Recovers(a) \in Promoting \cup Rolling \cup Ended
  BY <1>0 DEF Promoting, Rolling, Exchanging, Ended
<1>2. /\ n.at = Recovers(a) /\ n.mem = op[a].mem /\ n.commit = op[a].commit
      /\ n.slot = op[a].slot /\ n.goal = op[a].goal /\ n.plan = journal
      /\ (Steady(n) => n \in Manager)
  <2>1. op[a] \in ManagerShape
    BY TypeFacts DEF Manager
  <2>2. /\ n.at = Recovers(a) /\ n.mem = op[a].mem
        /\ n.commit = op[a].commit /\ n.slot = op[a].slot
        /\ n.goal = op[a].goal /\ n.plan = journal /\ n \in ManagerShape
    BY <1>8, <2>1, <1>0, TypeFacts DEF ManagerShape
  <2> QED
    BY <2>2 DEF Manager
<1> HIDE DEF n
<1>3. n \in Manager /\ Follows(op[a], n)
  <2>1. Steady(n)
    BY <1>0, <1>2, <1>5, <1>6 DEF Steady, Exchanging
  <2> QED
    BY <1>2, <2>1, <1>0 DEF Follows, Promoting, Rolling, Exchanging, Ended, Recover, OpAt
<1>4. /\ head' \in Commits /\ clean' \in BOOLEAN /\ base' = base
      /\ pins' \in [Slots -> Commits \cup {NoCommit}] /\ saved' \in RepositoryState
      /\ journal' \in Rollback /\ failures' \in 0 .. MaxFailures
  BY TypeFacts DEF Recover, repo, files
<1> QED
  BY <1>1, <1>2, <1>3, <1>4, GoesBy DEF Turns

LEMMA GoesPlan ==
    ASSUME Typed, NEW a \in Actors, Plan(a)
    PROVE  Turns(a, "reset", op[a].mem, op[a].slot,
                 [from |-> op[a].mem.active, to |-> op[a].goal])
<1> DEFINE p == [from |-> op[a].mem.active, to |-> op[a].goal]
<1> DEFINE n == [op[a] EXCEPT !.at = "reset", !.plan = p]
<1>0. p \in Rollback /\ p.from = op[a].mem.active /\ p.to = op[a].goal
  BY TypeFacts DEF Rollback, RepositoryState
<1>5. \A g \in {p.from, p.to} : g \in Slots /\ Commit(op[a].mem, g) \in Commits
  BY <1>0, TypeFacts
  DEF Plan, RollbackAdmitted, Pinned, Commit, RepositoryState, Generation
<1>6. op[a].commit = NoCommit
  BY TypeFacts DEF Plan, OpAt, Steady, Rolling
<1> HIDE DEF p
<1>1. op' = [op EXCEPT ![a] = n]
  BY DEF Plan, p
<1>8. "reset" \in Promoting \cup Rolling \cup Ended
  BY DEF Promoting, Rolling, Exchanging, Ended
<1>2. /\ n.at = "reset" /\ n.mem = op[a].mem /\ n.commit = op[a].commit
      /\ n.slot = op[a].slot /\ n.goal = op[a].goal /\ n.plan = p
      /\ (Steady(n) => n \in Manager)
  <2>1. op[a] \in ManagerShape
    BY TypeFacts DEF Manager
  <2>2. /\ n.at = "reset" /\ n.mem = op[a].mem
        /\ n.commit = op[a].commit /\ n.slot = op[a].slot
        /\ n.goal = op[a].goal /\ n.plan = p /\ n \in ManagerShape
    BY <1>8, <2>1, <1>0, TypeFacts DEF ManagerShape
  <2> QED
    BY <2>2 DEF Manager
<1> HIDE DEF n
<1>3. n \in Manager /\ Follows(op[a], n)
  <2>1. Steady(n)
    BY <1>2, <1>5, <1>6 DEF Steady
  <2> QED
    BY <1>2, <2>1 DEF Follows, Promoting, Rolling, Exchanging, Ended, Plan, OpAt
<1>4. /\ head' \in Commits /\ clean' \in BOOLEAN /\ base' = base
      /\ pins' \in [Slots -> Commits \cup {NoCommit}] /\ saved' \in RepositoryState
      /\ journal' \in Rollback /\ failures' \in 0 .. MaxFailures
  BY <1>0, TypeFacts DEF Plan, repo, p
<1> QED
  BY <1>1, <1>2, <1>3, <1>4, GoesBy DEF Turns, p

LEMMA GoesReset ==
    ASSUME Typed, NEW a \in Actors, Reset(a)
    PROVE  Turns(a, "move", op[a].mem, op[a].slot, op[a].plan)
<1> DEFINE n == [op[a] EXCEPT !.at = "move"]
<1>1. op' = [op EXCEPT ![a] = n]
  BY DEF Reset, Goto
<1>8. "move" \in Promoting \cup Rolling \cup Ended
  BY DEF Promoting, Rolling, Exchanging, Ended
<1>2. /\ n.at = "move" /\ n.mem = op[a].mem /\ n.commit = op[a].commit
      /\ n.slot = op[a].slot /\ n.goal = op[a].goal /\ n.plan = op[a].plan
      /\ (Steady(n) => n \in Manager)
  BY <1>8, TypeFacts, PlaceFacts
<1> HIDE DEF n
<1>3. n \in Manager /\ Follows(op[a], n)
  <2>1. Steady(n)
    BY <1>2, TypeFacts DEF Steady, Reset, OpAt, Rolling, Exchanging
  <2> QED
    BY <1>2, <2>1 DEF Follows, Promoting, Rolling, Exchanging, Ended, Reset, OpAt
<1>4. /\ head' \in Commits /\ clean' \in BOOLEAN /\ base' = base
      /\ pins' \in [Slots -> Commits \cup {NoCommit}] /\ saved' \in RepositoryState
      /\ journal' \in Rollback /\ failures' \in 0 .. MaxFailures
  BY TypeFacts DEF Reset, OpAt, files, Steady, Exchanging
<1> QED
  BY <1>1, <1>2, <1>3, <1>4, GoesBy DEF Turns

LEMMA GoesMove ==
    ASSUME Typed, NEW a \in Actors, Move(a)
    PROVE  Turns(a, "unjournal", [op[a].mem EXCEPT !.active = op[a].plan.to], op[a].slot,
                 op[a].plan)
<1> DEFINE m == [op[a].mem EXCEPT !.active = op[a].plan.to]
<1> DEFINE n == [op[a] EXCEPT !.at = "unjournal", !.mem = m]
<1>0. op[a].plan \in Rollback /\ op[a].plan.to \in 0 .. LastSlot
  BY TypeFacts DEF Rollback
<1>5. m \in RepositoryState /\ m.gens = op[a].mem.gens
  BY <1>0, TypeFacts DEF RepositoryState
<1>6. \A g : Commit(m, g) = Commit(op[a].mem, g)
  BY <1>5 DEF Commit
<1>7. op' = [op EXCEPT ![a].at = "unjournal", ![a].mem = m] /\ saved' = m /\ journal' = op[a].plan
  BY DEF Move
<1> HIDE DEF m
<1>1. op' = [op EXCEPT ![a] = n]
  BY <1>7
<1>8. "unjournal" \in Promoting \cup Rolling \cup Ended
  BY DEF Promoting, Rolling, Exchanging, Ended
<1>2. /\ n.at = "unjournal" /\ n.mem = m /\ n.commit = op[a].commit
      /\ n.slot = op[a].slot /\ n.goal = op[a].goal /\ n.plan = op[a].plan
      /\ (Steady(n) => n \in Manager)
  <2>1. op[a] \in ManagerShape
    BY TypeFacts DEF Manager
  <2>2. /\ n.at = "unjournal" /\ n.mem = m
        /\ n.commit = op[a].commit /\ n.slot = op[a].slot
        /\ n.goal = op[a].goal /\ n.plan = op[a].plan /\ n \in ManagerShape
    BY <1>8, <2>1, <1>5, TypeFacts DEF ManagerShape
  <2> QED
    BY <2>2 DEF Manager
<1> HIDE DEF n
<1>3. n \in Manager /\ Follows(op[a], n)
  <2>1. Steady(n)
    BY <1>2, <1>6, TypeFacts DEF Steady, Move, OpAt, Rolling, Exchanging
  <2> QED
    BY <1>2, <2>1 DEF Follows, Promoting, Rolling, Exchanging, Ended, Move, OpAt
<1>4. /\ head' \in Commits /\ clean' \in BOOLEAN /\ base' = base
      /\ pins' \in [Slots -> Commits \cup {NoCommit}] /\ saved' \in RepositoryState
      /\ journal' \in Rollback /\ failures' \in 0 .. MaxFailures
  BY <1>0, <1>5, <1>7, TypeFacts DEF Move, repo
<1> QED
  BY <1>1, <1>2, <1>3, <1>4, GoesBy DEF Turns, m

LEMMA GoesUnjournal ==
    ASSUME Typed, NEW a \in Actors, Unjournal(a)
    PROVE  Turns(a, AfterRecovery(op[a]), op[a].mem, op[a].slot, op[a].plan)
<1> DEFINE n == [op[a] EXCEPT !.at = AfterRecovery(op[a])]
<1>0. /\ AfterRecovery(op[a]) \in {"plan", "done"}
      /\ AfterRecovery(op[a]) = "plan" => op[a].goal # 0
  BY DEF AfterRecovery
<1>1. op' = [op EXCEPT ![a] = n]
  BY DEF Unjournal, Goto
<1>8. AfterRecovery(op[a]) \in Promoting \cup Rolling \cup Ended
  BY <1>0 DEF Promoting, Rolling, Exchanging, Ended
<1>2. /\ n.at = AfterRecovery(op[a]) /\ n.mem = op[a].mem /\ n.commit = op[a].commit
      /\ n.slot = op[a].slot /\ n.goal = op[a].goal /\ n.plan = op[a].plan
      /\ (Steady(n) => n \in Manager)
  BY <1>8, TypeFacts, <1>0, PlaceFacts
<1> HIDE DEF n
<1>3. n \in Manager /\ Follows(op[a], n)
  <2>1. Steady(n)
    BY <1>0, <1>2, TypeFacts DEF Steady, Unjournal, OpAt, Rolling, Exchanging
  <2> QED
    BY <1>2, <2>1, <1>0 DEF Follows, Promoting, Rolling, Exchanging, Ended, Unjournal, OpAt
<1>4. /\ head' \in Commits /\ clean' \in BOOLEAN /\ base' = base
      /\ pins' \in [Slots -> Commits \cup {NoCommit}] /\ saved' \in RepositoryState
      /\ journal' \in Rollback /\ failures' \in 0 .. MaxFailures
  BY TypeFacts, Constants DEF Unjournal, repo, Rollback, NoJournal
<1> QED
  BY <1>1, <1>2, <1>3, <1>4, GoesBy DEF Turns

LEMMA GoesError ==
    ASSUME Typed, NEW a \in Actors, Reject(a) \/ WriteFails(a) \/ Torn(a)
    PROVE  Turns(a, OnError(op[a]), op[a].mem, op[a].slot, op[a].plan)
<1> DEFINE n == [op[a] EXCEPT !.at = OnError(op[a])]
<1>0. /\ op[a].at \in Promoting \cup Rolling
      /\ OnError(op[a]) \in {"unpin", "restore", "failed"}
      /\ OnError(op[a]) = "unpin" => op[a].at \in {"publish", "restore"}
      /\ OnError(op[a]) = "restore" => op[a].at \in {"forward", "record"}
  <2>1. op[a].at \in Promoting \cup Rolling \cup Ended \cup {"idle", "held"}
    BY TypeFacts DEF Manager, ManagerShape
  <2>2. op[a].at \in Promoting \cup Rolling
    BY <2>1
    DEF Reject, Rejects, WriteFails, Torn, Busy, OpAt, Promoting, Rolling, Exchanging, Ended
  <2> QED
    BY <2>2 DEF OnError
<1>1. op' = [op EXCEPT ![a] = n]
  BY DEF Reject, WriteFails, Torn, Goto
<1>8. OnError(op[a]) \in Promoting \cup Rolling \cup Ended
  BY <1>0 DEF Promoting, Rolling, Exchanging, Ended
<1>2. /\ n.at = OnError(op[a]) /\ n.mem = op[a].mem /\ n.commit = op[a].commit
      /\ n.slot = op[a].slot /\ n.goal = op[a].goal /\ n.plan = op[a].plan
      /\ (Steady(n) => n \in Manager)
  BY <1>8, TypeFacts, <1>0, PlaceFacts
<1> HIDE DEF n
<1>3. n \in Manager /\ Follows(op[a], n)
  <2>1. Steady(n)
    BY <1>0, <1>2, TypeFacts DEF Steady, Rolling, Exchanging
  <2> QED
    BY <1>2, <2>1, <1>0 DEF Follows, Promoting, Rolling, Exchanging, Ended
<1>4. /\ head' \in Commits /\ clean' \in BOOLEAN /\ base' = base
      /\ pins' \in [Slots -> Commits \cup {NoCommit}] /\ saved' \in RepositoryState
      /\ journal' \in Rollback /\ failures' \in 0 .. MaxFailures
  <2>1. failures' \in 0 .. MaxFailures
    <3>1. failures' = failures \/ (failures < MaxFailures /\ failures' = failures + 1)
      BY DEF Reject, WriteFails, Torn, Failure
    <3> QED
      BY <3>1, TypeFacts, GenerationsAssumption
  <2> QED
    BY <2>1, TypeFacts DEF Reject, WriteFails, Torn, repo, files
<1> QED
  BY <1>1, <1>2, <1>3, <1>4, GoesBy DEF Turns

-----------------------------------------------------------------------------
(* A step of a run or of a successor.                                      *)

\* Nothing of the other candidates changes, but that a run may be killed which
\* only develops, and nothing on disk but records.
Apart(c) ==
    \A d \in Candidates : d # c =>
        /\ run'[d] = run[d] \/ (run[d] = "develop" /\ run'[d] = "lost")
        /\ heir'[d] = heir[d] /\ record'[d] = record[d]
        /\ due'[d] = due[d] /\ by'[d] = by[d]
        /\ cand'[d] = cand[d] /\ handoff'[d] = handoff[d] /\ mission'[d] = mission[d]
        /\ op'[Runner(d)] = op[Runner(d)] /\ op'[Heir(d)] = op[Heir(d)]
Still == UNCHANGED <<head, pins, saved, journal>>

\* Where the run and the successor are afterwards, ...
Turn(c, r, h, k, d, b, s) ==
    /\ Apart(c) /\ Still
    /\ run'[c] = r /\ heir'[c] = h /\ record'[c] = k /\ due'[c] = d /\ by'[c] = b
    /\ server' = s
\* ... what their managers do, ...
Managing(c, r, h) == op'[Runner(c)] = r /\ op'[Heir(c)] = h
\* ... and what is recorded of the candidate.  The definitions below say it of
\* each step.
Telling(c, g, f, h, m) ==
    /\ cand'[c].gen = g /\ cand'[c].from = f /\ handoff'[c] = h /\ mission'[c] = m

LEMMA Shapes1 ==
    ASSUME Typed, NEW c \in Candidates
    PROVE  /\ cand[c].gen \in 0 .. LastSlot /\ cand[c].from \in 0 .. LastSlot
           /\ op[Runner(c)] \in Manager /\ op[Heir(c)] \in Manager
           /\ OpenRecovery \in Manager /\ OpenRollback(cand[c].from) \in Manager
           /\ OpenRecovery.at = "recover" /\ OpenRollback(cand[c].from).at = "recover"
           /\ OpenRecovery.goal = 0 /\ OpenRollback(cand[c].from).goal = cand[c].from
           /\ OpenRecovery.mem = saved /\ OpenRollback(cand[c].from).mem = saved
<1>1. cand[c].gen \in 0 .. LastSlot /\ cand[c].from \in 0 .. LastSlot
  BY DEF Typed, ImprovementTypeOK
<1>2. 0 \in 0 .. LastSlot
  BY Constants
<1> QED
  BY <1>1, <1>2, ManagerShapes, TypeFacts, ActorFacts DEF OpenRecovery, OpenRollback

LEMMA Opening ==
    ASSUME Typed, NEW a \in Actors, NEW n \in Manager,
           op' = [op EXCEPT ![a] = n] \/ op' = op, saved' = saved
    PROVE  Managers'
  BY DEF Typed, Managers

\* A promotion that is done has a generation.
LEMMA DoneFacts ==
    ASSUME Typed, NEW c \in Candidates, Opens(c), run[c] = "promote", op[Runner(c)].at = "done"
    PROVE  LET m == op[Runner(c)].mem
           IN  /\ m.active \in Slots /\ m.active \in 0 .. LastSlot
               /\ m.gens[m.active].parent \in 0 .. LastSlot
               /\ Working("plan", m, NoCommit, m.gens[m.active].parent) \in Manager
<1> DEFINE m == op[Runner(c)].mem
           n == Working("plan", m, NoCommit, m.gens[m.active].parent)
<1>1. m.active \in Slots /\ m \in RepositoryState
  BY TypeFacts, ActorFacts, Constants DEF Opens, Steady
<1>2. m.active \in 0 .. LastSlot /\ m.gens[m.active].parent \in 0 .. LastSlot
  BY <1>1 DEF RepositoryState, Generation
<1> HIDE DEF m
<1>3. n \in ManagerShape /\ n.at = "plan" /\ n.commit = NoCommit
  BY <1>1, <1>2, Constants DEF Working, ManagerShape, Rolling, Rollback, NoJournal
<1>4. Steady(n)
  BY <1>3 DEF Steady, Exchanging
<1> QED
  BY <1>1, <1>2, <1>3, <1>4 DEF Manager, m

StartRunTurn(c) ==
    /\ Turn(c, "develop", heir[c], record[c], due[c], server, server)
    /\ Managing(c, op[Runner(c)], op[Heir(c)])
    /\ Telling(c, cand[c].gen, cand[c].from, handoff[c], mission[c])

LEMMA DoesStartRun ==
    ASSUME Typed, NEW c \in Candidates, StartRun(c)
    PROVE  /\ Typed'
           /\ StartRunTurn(c)
<1> USE DEF StartRun, RunTo, HeirTo, Open, repo, files, own, IsAt, HeirAt, OpAt, Failure,
           SettledCandidate, SettledHandoff, SettledMission
<1>1. StartRunTurn(c)
  BY Shapes1, ActorFacts
  DEF Typed, ImprovementTypeOK, Managers, StartRunTurn, Turn, Apart, Still, Managing, Telling
<1>2. ImprovementTypeOK'
  <2>1. failures' \in 0 .. MaxFailures
    BY TypeFacts, GenerationsAssumption
  <2>2. GenerationsTypeOK'
    BY <2>1, Constants DEF Typed, ImprovementTypeOK, GenerationsTypeOK
  <2> QED
    BY <2>2, Constants DEF Typed, ImprovementTypeOK, Developing, Handing, Servers
<1>3. Managers'
  BY Shapes1, ManagerShapes, ActorFacts, Opening
<1> QED
  BY <1>1, <1>2, <1>3 DEF Typed

EvaluatedTurn(c) ==
    /\ Turn(c, "promote", heir[c], record[c], due[c], by[c], server)
    /\ Managing(c, OpenPromotion(c), op[Heir(c)])
    /\ Telling(c, cand[c].gen, cand[c].from, handoff[c], mission[c])

LEMMA DoesEvaluated ==
    ASSUME Typed, NEW c \in Candidates, Evaluated(c)
    PROVE  /\ Typed'
           /\ EvaluatedTurn(c)
<1> USE DEF Evaluated, RunTo, HeirTo, Open, repo, files, own, IsAt, HeirAt, OpAt, Failure,
           SettledCandidate, SettledHandoff, SettledMission
<1>1. EvaluatedTurn(c)
  BY Shapes1, ActorFacts
  DEF Typed, ImprovementTypeOK, Managers, EvaluatedTurn, Turn, Apart, Still, Managing, Telling
<1>2. ImprovementTypeOK'
  <2>1. failures' \in 0 .. MaxFailures
    BY TypeFacts, GenerationsAssumption
  <2>2. GenerationsTypeOK'
    BY <2>1, Constants DEF Typed, ImprovementTypeOK, GenerationsTypeOK
  <2> QED
    BY <2>2, Constants DEF Typed, ImprovementTypeOK, Developing, Handing, Servers
<1>3. Managers'
  BY Shapes1, ManagerShapes, ActorFacts, Opening
<1> QED
  BY <1>1, <1>2, <1>3 DEF Typed

AbandonTurn(c) ==
    /\ Turn(c, "over", heir[c], record[c], due[c], by[c], server)
    /\ Managing(c, IdleManager, op[Heir(c)])
    /\ Telling(c, cand[c].gen, cand[c].from, handoff[c], mission[c])

LEMMA DoesAbandon ==
    ASSUME Typed, NEW c \in Candidates, Abandon(c)
    PROVE  /\ Typed'
           /\ AbandonTurn(c)
<1> USE DEF Abandon, RunTo, HeirTo, Open, repo, files, own, IsAt, HeirAt, OpAt, Failure,
           SettledCandidate, SettledHandoff, SettledMission
<1>1. AbandonTurn(c)
  BY Shapes1, ActorFacts
  DEF Typed, ImprovementTypeOK, Managers, AbandonTurn, Turn, Apart, Still, Managing, Telling
<1>2. ImprovementTypeOK'
  <2>1. failures' \in 0 .. MaxFailures
    BY TypeFacts, GenerationsAssumption
  <2>2. GenerationsTypeOK'
    BY <2>1, Constants DEF Typed, ImprovementTypeOK, GenerationsTypeOK
  <2> QED
    BY <2>2, Constants DEF Typed, ImprovementTypeOK, Developing, Handing, Servers
<1>3. Managers'
  BY Shapes1, ManagerShapes, ActorFacts, Opening
<1> QED
  BY <1>1, <1>2, <1>3 DEF Typed

PublishPromotionTurn(c) ==
    /\ Turn(c, "build", heir[c], record[c], due[c], by[c], server)
    /\ Managing(c, IdleManager, op[Heir(c)])
    /\ Telling(c, op[Runner(c)].mem.active,
               op[Runner(c)].mem.gens[op[Runner(c)].mem.active].parent, "pending", mission[c])

LEMMA DoesPublishPromotion ==
    ASSUME Typed, NEW c \in Candidates, PublishPromotion(c), Opens(c)
    PROVE  /\ Typed'
           /\ PublishPromotionTurn(c)
<1>0. /\ op[Runner(c)].mem.active \in 0 .. LastSlot
      /\ op[Runner(c)].mem.gens[op[Runner(c)].mem.active].parent \in 0 .. LastSlot
  BY DoneFacts DEF PublishPromotion, OpAt
<1> USE DEF PublishPromotion, RunTo, HeirTo, Open, repo, files, own, IsAt, HeirAt, OpAt, Failure,
           SettledCandidate, SettledHandoff, SettledMission
<1>1. PublishPromotionTurn(c)
  BY <1>0, Shapes1, ActorFacts
  DEF Typed, ImprovementTypeOK, Managers, PublishPromotionTurn, Turn, Apart, Still, Managing,
      Telling
<1>2. ImprovementTypeOK'
  <2>1. failures' \in 0 .. MaxFailures
    BY TypeFacts, GenerationsAssumption
  <2>2. GenerationsTypeOK'
    BY <2>1, Constants DEF Typed, ImprovementTypeOK, GenerationsTypeOK
  <2> QED
    BY <1>0, <2>2, Constants DEF Typed, ImprovementTypeOK, Developing, Handing, Servers
<1>3. Managers'
  BY <1>0, Shapes1, ManagerShapes, ActorFacts, Opening
<1> QED
  BY <1>1, <1>2, <1>3 DEF Typed

BuildEndsTurn(c) ==
    /\ Turn(c, run'[c], heir[c], record[c], due[c], by[c], server)
    /\ Managing(c, op[Runner(c)], op[Heir(c)])
    /\ Telling(c, cand[c].gen, cand[c].from, handoff[c], mission[c])

LEMMA DoesBuildEnds ==
    ASSUME Typed, NEW c \in Candidates, BuildEnds(c)
    PROVE  /\ Typed'
           /\ BuildEndsTurn(c)
           /\ run'[c] \in {"announce", "over"}
<1> USE DEF BuildEnds, RunTo, HeirTo, Open, repo, files, own, IsAt, HeirAt, OpAt, Failure,
           SettledCandidate, SettledHandoff, SettledMission
<1>1. /\ BuildEndsTurn(c)
      /\ run'[c] \in {"announce", "over"}
  BY Shapes1, ActorFacts
  DEF Typed, ImprovementTypeOK, Managers, BuildEndsTurn, Turn, Apart, Still, Managing, Telling
<1>2. ImprovementTypeOK'
  <2>1. failures' \in 0 .. MaxFailures
    BY TypeFacts, GenerationsAssumption
  <2>2. GenerationsTypeOK'
    BY <2>1, Constants DEF Typed, ImprovementTypeOK, GenerationsTypeOK
  <2> QED
    BY <2>2, Constants DEF Typed, ImprovementTypeOK, Developing, Handing, Servers
<1>3. Managers'
  BY Shapes1, ManagerShapes, ActorFacts, Opening
<1> QED
  BY <1>1, <1>2, <1>3 DEF Typed

AnnounceTurn(c) ==
    /\ Turn(c, "launch", heir[c], record[c], due[c], by[c], server)
    /\ Managing(c, op[Runner(c)], op[Heir(c)])
    /\ Telling(c, cand[c].gen, cand[c].from, handoff[c], "restarting")

LEMMA DoesAnnounce ==
    ASSUME Typed, NEW c \in Candidates, Announce(c)
    PROVE  /\ Typed'
           /\ AnnounceTurn(c)
<1> USE DEF Announce, RunTo, HeirTo, Open, repo, files, own, IsAt, HeirAt, OpAt, Failure,
           SettledCandidate, SettledHandoff, SettledMission
<1>1. AnnounceTurn(c)
  BY Shapes1, ActorFacts
  DEF Typed, ImprovementTypeOK, Managers, AnnounceTurn, Turn, Apart, Still, Managing, Telling
<1>2. ImprovementTypeOK'
  <2>1. failures' \in 0 .. MaxFailures
    BY TypeFacts, GenerationsAssumption
  <2>2. GenerationsTypeOK'
    BY <2>1, Constants DEF Typed, ImprovementTypeOK, GenerationsTypeOK
  <2> QED
    BY <2>2, Constants DEF Typed, ImprovementTypeOK, Developing, Handing, Servers
<1>3. Managers'
  BY Shapes1, ManagerShapes, ActorFacts, Opening
<1> QED
  BY <1>1, <1>2, <1>3 DEF Typed

LaunchTurn(c) ==
    /\ Turn(c, run[c], "boot", "launching", due[c], by[c], server)
    /\ Managing(c, op[Runner(c)], OpenRecovery)
    /\ Telling(c, cand[c].gen, cand[c].from, handoff[c], mission[c])

LEMMA DoesLaunch ==
    ASSUME Typed, NEW c \in Candidates, Launch(c)
    PROVE  /\ Typed'
           /\ LaunchTurn(c)
<1> USE DEF Launch, RunTo, HeirTo, Open, repo, files, own, IsAt, HeirAt, OpAt, Failure,
           SettledCandidate, SettledHandoff, SettledMission
<1>1. LaunchTurn(c)
  BY Shapes1, ActorFacts
  DEF Typed, ImprovementTypeOK, Managers, LaunchTurn, Turn, Apart, Still, Managing, Telling
<1>2. ImprovementTypeOK'
  <2>1. failures' \in 0 .. MaxFailures
    BY TypeFacts, GenerationsAssumption
  <2>2. GenerationsTypeOK'
    BY <2>1, Constants DEF Typed, ImprovementTypeOK, GenerationsTypeOK
  <2> QED
    BY <2>2, Constants DEF Typed, ImprovementTypeOK, Developing, Handing, Servers
<1>3. Managers'
  BY Shapes1, ManagerShapes, ActorFacts, Opening
<1> QED
  BY <1>1, <1>2, <1>3 DEF Typed

LaunchedTurn(c) ==
    /\ Turn(c, "deferred", heir[c], record[c], due[c], by[c], server)
    /\ Managing(c, op[Runner(c)], op[Heir(c)])
    /\ Telling(c, cand[c].gen, cand[c].from, handoff[c], mission[c])

LEMMA DoesLaunched ==
    ASSUME Typed, NEW c \in Candidates, Launched(c)
    PROVE  /\ Typed'
           /\ LaunchedTurn(c)
<1> USE DEF Launched, RunTo, HeirTo, Open, repo, files, own, IsAt, HeirAt, OpAt, Failure,
           SettledCandidate, SettledHandoff, SettledMission
<1>1. LaunchedTurn(c)
  BY Shapes1, ActorFacts
  DEF Typed, ImprovementTypeOK, Managers, LaunchedTurn, Turn, Apart, Still, Managing, Telling
<1>2. ImprovementTypeOK'
  <2>1. failures' \in 0 .. MaxFailures
    BY TypeFacts, GenerationsAssumption
  <2>2. GenerationsTypeOK'
    BY <2>1, Constants DEF Typed, ImprovementTypeOK, GenerationsTypeOK
  <2> QED
    BY <2>2, Constants DEF Typed, ImprovementTypeOK, Developing, Handing, Servers
<1>3. Managers'
  BY Shapes1, ManagerShapes, ActorFacts, Opening
<1> QED
  BY <1>1, <1>2, <1>3 DEF Typed

LaunchFailsTurn(c) ==
    /\ Turn(c, "undo", heir[c], IF record[c] = "ready" THEN "ready" ELSE "failed", due[c],
            by[c], server)
    /\ Managing(c, OpenRollback(cand[c].from), op[Heir(c)])
    /\ Telling(c, cand[c].gen, cand[c].from, handoff[c], mission[c])

LEMMA DoesLaunchFails ==
    ASSUME Typed, NEW c \in Candidates, LaunchFails(c)
    PROVE  /\ Typed'
           /\ LaunchFailsTurn(c)
<1> USE DEF LaunchFails, RunTo, HeirTo, Open, repo, files, own, IsAt, HeirAt, OpAt, Failure,
           SettledCandidate, SettledHandoff, SettledMission
<1>1. LaunchFailsTurn(c)
  BY Shapes1, ActorFacts
  DEF Typed, ImprovementTypeOK, Managers, LaunchFailsTurn, Turn, Apart, Still, Managing, Telling
<1>2. ImprovementTypeOK'
  <2>1. failures' \in 0 .. MaxFailures
    BY TypeFacts, GenerationsAssumption
  <2>2. GenerationsTypeOK'
    BY <2>1, Constants DEF Typed, ImprovementTypeOK, GenerationsTypeOK
  <2> QED
    BY <2>2, Constants DEF Typed, ImprovementTypeOK, Developing, Handing, Servers
<1>3. Managers'
  BY Shapes1, ManagerShapes, ActorFacts, Opening
<1> QED
  BY <1>1, <1>2, <1>3 DEF Typed

ReplyTurn(c) ==
    /\ Turn(c, "finalize", heir[c], record[c], TRUE, by[c], server)
    /\ Managing(c, op[Runner(c)], op[Heir(c)])
    /\ Telling(c, cand[c].gen, cand[c].from, handoff[c], mission[c])

LEMMA DoesReply ==
    ASSUME Typed, NEW c \in Candidates, Reply(c)
    PROVE  /\ Typed'
           /\ ReplyTurn(c)
<1> USE DEF Reply, RunTo, HeirTo, Open, repo, files, own, IsAt, HeirAt, OpAt, Failure,
           SettledCandidate, SettledHandoff, SettledMission
<1>1. ReplyTurn(c)
  BY Shapes1, ActorFacts
  DEF Typed, ImprovementTypeOK, Managers, ReplyTurn, Turn, Apart, Still, Managing, Telling
<1>2. ImprovementTypeOK'
  <2>1. failures' \in 0 .. MaxFailures
    BY TypeFacts, GenerationsAssumption
  <2>2. GenerationsTypeOK'
    BY <2>1, Constants DEF Typed, ImprovementTypeOK, GenerationsTypeOK
  <2> QED
    BY <2>2, Constants DEF Typed, ImprovementTypeOK, Developing, Handing, Servers
<1>3. Managers'
  BY Shapes1, ManagerShapes, ActorFacts, Opening
<1> QED
  BY <1>1, <1>2, <1>3 DEF Typed

ReleaseTurn(c) ==
    /\ Turn(c, "wait", heir[c], IF record[c] = "ready" THEN "quiesced" ELSE record[c], due[c],
            by[c], server)
    /\ Managing(c, op[Runner(c)], op[Heir(c)])
    /\ Telling(c, cand[c].gen, cand[c].from, handoff[c], mission[c])

LEMMA DoesRelease ==
    ASSUME Typed, NEW c \in Candidates, Release(c)
    PROVE  /\ Typed'
           /\ ReleaseTurn(c)
<1> USE DEF Release, RunTo, HeirTo, Open, repo, files, own, IsAt, HeirAt, OpAt, Failure,
           SettledCandidate, SettledHandoff, SettledMission
<1>1. ReleaseTurn(c)
  BY Shapes1, ActorFacts
  DEF Typed, ImprovementTypeOK, Managers, ReleaseTurn, Turn, Apart, Still, Managing, Telling
<1>2. ImprovementTypeOK'
  <2>1. failures' \in 0 .. MaxFailures
    BY TypeFacts, GenerationsAssumption
  <2>2. GenerationsTypeOK'
    BY <2>1, Constants DEF Typed, ImprovementTypeOK, GenerationsTypeOK
  <2> QED
    BY <2>2, Constants DEF Typed, ImprovementTypeOK, Developing, Handing, Servers
<1>3. Managers'
  BY Shapes1, ManagerShapes, ActorFacts, Opening
<1> QED
  BY <1>1, <1>2, <1>3 DEF Typed

ReleaseFailsTurn(c) ==
    /\ Turn(c, "retire", heir[c], record[c], due[c], by[c], server)
    /\ Managing(c, op[Runner(c)], op[Heir(c)])
    /\ Telling(c, cand[c].gen, cand[c].from, handoff[c], mission[c])

LEMMA DoesReleaseFails ==
    ASSUME Typed, NEW c \in Candidates, ReleaseFails(c)
    PROVE  /\ Typed'
           /\ ReleaseFailsTurn(c)
<1> USE DEF ReleaseFails, RunTo, HeirTo, Open, repo, files, own, IsAt, HeirAt, OpAt, Failure,
           SettledCandidate, SettledHandoff, SettledMission
<1>1. ReleaseFailsTurn(c)
  BY Shapes1, ActorFacts
  DEF Typed, ImprovementTypeOK, Managers, ReleaseFailsTurn, Turn, Apart, Still, Managing, Telling
<1>2. ImprovementTypeOK'
  <2>1. failures' \in 0 .. MaxFailures
    BY TypeFacts, GenerationsAssumption
  <2>2. GenerationsTypeOK'
    BY <2>1, Constants DEF Typed, ImprovementTypeOK, GenerationsTypeOK
  <2> QED
    BY <2>2, Constants DEF Typed, ImprovementTypeOK, Developing, Handing, Servers
<1>3. Managers'
  BY Shapes1, ManagerShapes, ActorFacts, Opening
<1> QED
  BY <1>1, <1>2, <1>3 DEF Typed

WaitFailsTurn(c) ==
    /\ Turn(c, "retire", heir[c], IF record[c] = "accepted" THEN "accepted" ELSE "failed", due[c],
            by[c], server)
    /\ Managing(c, op[Runner(c)], op[Heir(c)])
    /\ Telling(c, cand[c].gen, cand[c].from, handoff[c], mission[c])

LEMMA DoesWaitFails ==
    ASSUME Typed, NEW c \in Candidates, WaitFails(c)
    PROVE  /\ Typed'
           /\ WaitFailsTurn(c)
<1> USE DEF WaitFails, RunTo, HeirTo, Open, repo, files, own, IsAt, HeirAt, OpAt, Failure,
           SettledCandidate, SettledHandoff, SettledMission
<1>1. WaitFailsTurn(c)
  BY Shapes1, ActorFacts
  DEF Typed, ImprovementTypeOK, Managers, WaitFailsTurn, Turn, Apart, Still, Managing, Telling
<1>2. ImprovementTypeOK'
  <2>1. failures' \in 0 .. MaxFailures
    BY TypeFacts, GenerationsAssumption
  <2>2. GenerationsTypeOK'
    BY <2>1, Constants DEF Typed, ImprovementTypeOK, GenerationsTypeOK
  <2> QED
    BY <2>2, Constants DEF Typed, ImprovementTypeOK, Developing, Handing, Servers
<1>3. Managers'
  BY Shapes1, ManagerShapes, ActorFacts, Opening
<1> QED
  BY <1>1, <1>2, <1>3 DEF Typed

RetireTurn(c) ==
    /\ Turn(c, "undo", "none", "failed", due[c], by[c], by[c])
    /\ Managing(c, OpenRollback(cand[c].from), IdleManager)
    /\ Telling(c, cand[c].gen, cand[c].from, handoff[c], mission[c])
    /\ \A d \in Candidates : by[d] = c => ~Active(d)' \/ d = c

\* A successor that is killed was developing, if anything.
LEMMA OnlyDevelops ==
    ASSUME Typed, Control, NEW c \in Candidates, run[c] = "retire",
           NEW d \in Candidates, d # c
    PROVE  /\ Active(d) => run[d] = "develop"
           /\ op[Runner(d)] = IdleManager
<1>1. Engaged(c)
  BY DEF Engaged, Acting, Handing
<1>2. ~Engaged(d)
  BY <1>1 DEF Control, OneMission
<1>3. run[d] \notin Acting
  BY <1>2 DEF Engaged
<1> QED
  BY <1>3 DEF Control, Opens, Active, Acting, Developing, Handing

LEMMA DoesRetire ==
    ASSUME Typed, Control, NEW c \in Candidates, Retire(c)
    PROVE  /\ Typed'
           /\ RetireTurn(c)
<1> USE DEF HeirTo, repo, files, own
<1>1. /\ run[c] = "retire" /\ UNCHANGED <<repo, files, failures, own, due, by>>
      /\ record' = [record EXCEPT ![c] = "failed"] /\ heir' = [heir EXCEPT ![c] = "none"]
      /\ server' = by[c]
      /\ run' = [d \in Candidates |-> IF d = c THEN "undo"
                                      ELSE IF by[d] = c /\ Active(d) THEN "lost" ELSE run[d]]
      /\ op' = [a \in Actors |-> IF a = Runner(c) THEN OpenRollback(cand[c].from)
                                 ELSE IF a = Heir(c) \/ (a[2] = "run" /\ by[a[1]] = c)
                                 THEN IdleManager ELSE op[a]]
  BY DEF Retire
<1>2. Managers'
  BY <1>1, Shapes1, ManagerShapes DEF Typed, Managers
<1>3. ImprovementTypeOK'
  <2>1. GenerationsTypeOK'
    BY <1>1 DEF Typed, ImprovementTypeOK, GenerationsTypeOK
  <2>2. run' \in [Candidates -> Developing \cup Handing \cup {"none", "over", "stuck", "lost"}]
    BY <1>1 DEF Typed, ImprovementTypeOK, Handing
  <2>3. /\ record' \in [Candidates ->
                 {"none", "launching", "ready", "quiesced", "accepted", "failed"}]
        /\ heir' \in [Candidates -> {"none", "boot", "ready", "resume", "verify", "check",
                                 "complete", "accept", "undo", "close", "replace"}]
        /\ server' \in Servers
    BY <1>1 DEF Typed, ImprovementTypeOK
  <2> QED
    BY <1>1, <2>1, <2>2, <2>3 DEF Typed, ImprovementTypeOK
<1>4. ASSUME NEW d \in Candidates
      PROVE  /\ run'[d] = IF d = c THEN "undo"
                          ELSE IF by[d] = c /\ Active(d) THEN "lost" ELSE run[d]
             /\ op'[Runner(d)] = IF d = c THEN OpenRollback(cand[c].from)
                                 ELSE IF by[d] = c THEN IdleManager ELSE op[Runner(d)]
             /\ op'[Heir(d)] = IF d = c THEN IdleManager ELSE op[Heir(d)]
             /\ record'[d] = IF d = c THEN "failed" ELSE record[d]
             /\ heir'[d] = IF d = c THEN "none" ELSE heir[d]
  BY <1>1, ActorFacts DEF Typed, ImprovementTypeOK
<1>5. ASSUME NEW d \in Candidates, d # c
      PROVE  /\ run'[d] = run[d] \/ (run[d] = "develop" /\ run'[d] = "lost")
             /\ op'[Runner(d)] = op[Runner(d)]
             /\ by[d] = c => ~Active(d)'
  BY <1>1, <1>4, <1>5, OnlyDevelops DEF Active, Developing, Handing
<1>6. Apart(c)
  BY <1>1, <1>4, <1>5 DEF Apart
<1>7. RetireTurn(c)
  BY <1>1, <1>4, <1>5, <1>6 DEF RetireTurn, Turn, Still, Managing, Telling
<1> QED
  BY <1>2, <1>3, <1>7 DEF Typed

ServedTurn(c) ==
    /\ Turn(c, "over", heir[c], record[c], FALSE, by[c], server)
    /\ Managing(c, op[Runner(c)], op[Heir(c)])
    /\ Telling(c, cand[c].gen, cand[c].from, handoff[c], mission[c])

LEMMA DoesServed ==
    ASSUME Typed, NEW c \in Candidates, Served(c)
    PROVE  /\ Typed'
           /\ ServedTurn(c)
<1> USE DEF Served, RunTo, HeirTo, Open, repo, files, own, IsAt, HeirAt, OpAt, Failure,
           SettledCandidate, SettledHandoff, SettledMission
<1>1. ServedTurn(c)
  BY Shapes1, ActorFacts
  DEF Typed, ImprovementTypeOK, Managers, ServedTurn, Turn, Apart, Still, Managing, Telling
<1>2. ImprovementTypeOK'
  <2>1. failures' \in 0 .. MaxFailures
    BY TypeFacts, GenerationsAssumption
  <2>2. GenerationsTypeOK'
    BY <2>1, Constants DEF Typed, ImprovementTypeOK, GenerationsTypeOK
  <2> QED
    BY <2>2, Constants DEF Typed, ImprovementTypeOK, Developing, Handing, Servers
<1>3. Managers'
  BY Shapes1, ManagerShapes, ActorFacts, Opening
<1> QED
  BY <1>1, <1>2, <1>3 DEF Typed

RefinalizeTurn(c) ==
    /\ Turn(c, "undo", heir[c], record[c], due[c], server, server)
    /\ Managing(c, OpenRollback(cand[c].from), op[Heir(c)])
    /\ Telling(c, cand[c].gen, cand[c].from, handoff[c], mission[c])

LEMMA DoesRefinalize ==
    ASSUME Typed, NEW c \in Candidates, Refinalize(c)
    PROVE  /\ Typed'
           /\ RefinalizeTurn(c)
<1> USE DEF Refinalize, RunTo, HeirTo, Open, repo, files, own, IsAt, HeirAt, OpAt, Failure,
           SettledCandidate, SettledHandoff, SettledMission
<1>1. RefinalizeTurn(c)
  BY Shapes1, ActorFacts
  DEF Typed, ImprovementTypeOK, Managers, RefinalizeTurn, Turn, Apart, Still, Managing, Telling
<1>2. ImprovementTypeOK'
  <2>1. failures' \in 0 .. MaxFailures
    BY TypeFacts, GenerationsAssumption
  <2>2. GenerationsTypeOK'
    BY <2>1, Constants DEF Typed, ImprovementTypeOK, GenerationsTypeOK
  <2> QED
    BY <2>2, Constants DEF Typed, ImprovementTypeOK, Developing, Handing, Servers
<1>3. Managers'
  BY Shapes1, ManagerShapes, ActorFacts, Opening
<1> QED
  BY <1>1, <1>2, <1>3 DEF Typed

RunUndoneTurn(c) ==
    /\ Turn(c, "close", heir[c], record[c], due[c], by[c], server)
    /\ Managing(c, IdleManager, op[Heir(c)])
    /\ Telling(c, cand[c].gen, cand[c].from, IF handoff[c] \in {"completed",
               "none"} THEN handoff[c] ELSE "failed", mission[c])

LEMMA DoesRunUndone ==
    ASSUME Typed, NEW c \in Candidates, RunUndone(c)
    PROVE  /\ Typed'
           /\ RunUndoneTurn(c)
<1> USE DEF RunUndone, RunTo, HeirTo, Open, repo, files, own, IsAt, HeirAt, OpAt, Failure,
           SettledCandidate, SettledHandoff, SettledMission
<1>1. RunUndoneTurn(c)
  BY Shapes1, ActorFacts
  DEF Typed, ImprovementTypeOK, Managers, RunUndoneTurn, Turn, Apart, Still, Managing, Telling
<1>2. ImprovementTypeOK'
  <2>1. failures' \in 0 .. MaxFailures
    BY TypeFacts, GenerationsAssumption
  <2>2. GenerationsTypeOK'
    BY <2>1, Constants DEF Typed, ImprovementTypeOK, GenerationsTypeOK
  <2> QED
    BY <2>2, Constants DEF Typed, ImprovementTypeOK, Developing, Handing, Servers
<1>3. Managers'
  BY Shapes1, ManagerShapes, ActorFacts, Opening
<1> QED
  BY <1>1, <1>2, <1>3 DEF Typed

RunUndoFailsTurn(c) ==
    /\ Turn(c, "stuck", heir[c], record[c], FALSE, by[c], server)
    /\ Managing(c, IdleManager, op[Heir(c)])
    /\ Telling(c, cand[c].gen, cand[c].from, handoff[c], mission[c])

LEMMA DoesRunUndoFails ==
    ASSUME Typed, NEW c \in Candidates, RunUndoFails(c)
    PROVE  /\ Typed'
           /\ RunUndoFailsTurn(c)
<1> USE DEF RunUndoFails, RunTo, HeirTo, Open, repo, files, own, IsAt, HeirAt, OpAt, Failure,
           SettledCandidate, SettledHandoff, SettledMission
<1>1. RunUndoFailsTurn(c)
  BY Shapes1, ActorFacts
  DEF Typed, ImprovementTypeOK, Managers, RunUndoFailsTurn, Turn, Apart, Still, Managing, Telling
<1>2. ImprovementTypeOK'
  <2>1. failures' \in 0 .. MaxFailures
    BY TypeFacts, GenerationsAssumption
  <2>2. GenerationsTypeOK'
    BY <2>1, Constants DEF Typed, ImprovementTypeOK, GenerationsTypeOK
  <2> QED
    BY <2>2, Constants DEF Typed, ImprovementTypeOK, Developing, Handing, Servers
<1>3. Managers'
  BY Shapes1, ManagerShapes, ActorFacts, Opening
<1> QED
  BY <1>1, <1>2, <1>3 DEF Typed

CloseTurn(c) ==
    /\ Turn(c, "over", heir[c], record[c], FALSE, by[c], server)
    /\ Managing(c, op[Runner(c)], op[Heir(c)])
    /\ Telling(c, cand[c].gen, cand[c].from, handoff[c],
               IF mission[c] = "none" THEN mission[c] ELSE "rolled-back")

LEMMA DoesClose ==
    ASSUME Typed, NEW c \in Candidates, Close(c)
    PROVE  /\ Typed'
           /\ CloseTurn(c)
<1> USE DEF Close, RunTo, HeirTo, Open, repo, files, own, IsAt, HeirAt, OpAt, Failure,
           SettledCandidate, SettledHandoff, SettledMission
<1>1. CloseTurn(c)
  BY Shapes1, ActorFacts
  DEF Typed, ImprovementTypeOK, Managers, CloseTurn, Turn, Apart, Still, Managing, Telling
<1>2. ImprovementTypeOK'
  <2>1. failures' \in 0 .. MaxFailures
    BY TypeFacts, GenerationsAssumption
  <2>2. GenerationsTypeOK'
    BY <2>1, Constants DEF Typed, ImprovementTypeOK, GenerationsTypeOK
  <2> QED
    BY <2>2, Constants DEF Typed, ImprovementTypeOK, Developing, Handing, Servers
<1>3. Managers'
  BY Shapes1, ManagerShapes, ActorFacts, Opening
<1> QED
  BY <1>1, <1>2, <1>3 DEF Typed

PublishFailsTurn(c) ==
    /\ Turn(c, "unpublish", heir[c], record[c], due[c], by[c], server)
    /\ Managing(c, Working("plan", op[Runner(c)].mem, NoCommit,
                op[Runner(c)].mem.gens[op[Runner(c)].mem.active].parent), op[Heir(c)])
    /\ Telling(c, cand[c].gen, cand[c].from, handoff[c], mission[c])

LEMMA DoesPublishFails ==
    ASSUME Typed, NEW c \in Candidates, PublishFails(c), Opens(c)
    PROVE  /\ Typed'
           /\ PublishFailsTurn(c)
<1>0. Working("plan", op[Runner(c)].mem, NoCommit,
              op[Runner(c)].mem.gens[op[Runner(c)].mem.active].parent) \in Manager
  BY DoneFacts DEF PublishFails, OpAt
<1> USE DEF PublishFails, RunTo, HeirTo, Open, repo, files, own, IsAt, HeirAt, OpAt, Failure,
           SettledCandidate, SettledHandoff, SettledMission
<1>1. PublishFailsTurn(c)
  BY <1>0, Shapes1, ActorFacts
  DEF Typed, ImprovementTypeOK, Managers, PublishFailsTurn, Turn, Apart, Still, Managing, Telling
<1>2. ImprovementTypeOK'
  <2>1. failures' \in 0 .. MaxFailures
    BY TypeFacts, GenerationsAssumption
  <2>2. GenerationsTypeOK'
    BY <2>1, Constants DEF Typed, ImprovementTypeOK, GenerationsTypeOK
  <2> QED
    BY <1>0, <2>2, Constants DEF Typed, ImprovementTypeOK, Developing, Handing, Servers
<1>3. Managers'
  BY <1>0, Shapes1, ManagerShapes, ActorFacts, Opening
<1> QED
  BY <1>1, <1>2, <1>3 DEF Typed

AnnounceFailsTurn(c) ==
    /\ Turn(c, "undo", heir[c], record[c], due[c], by[c], server)
    /\ Managing(c, OpenRollback(cand[c].from), op[Heir(c)])
    /\ Telling(c, cand[c].gen, cand[c].from, handoff[c], mission[c])

LEMMA DoesAnnounceFails ==
    ASSUME Typed, NEW c \in Candidates, AnnounceFails(c)
    PROVE  /\ Typed'
           /\ AnnounceFailsTurn(c)
<1> USE DEF AnnounceFails, RunTo, HeirTo, Open, repo, files, own, IsAt, HeirAt, OpAt, Failure,
           SettledCandidate, SettledHandoff, SettledMission
<1>1. AnnounceFailsTurn(c)
  BY Shapes1, ActorFacts
  DEF Typed, ImprovementTypeOK, Managers, AnnounceFailsTurn, Turn, Apart, Still, Managing, Telling
<1>2. ImprovementTypeOK'
  <2>1. failures' \in 0 .. MaxFailures
    BY TypeFacts, GenerationsAssumption
  <2>2. GenerationsTypeOK'
    BY <2>1, Constants DEF Typed, ImprovementTypeOK, GenerationsTypeOK
  <2> QED
    BY <2>2, Constants DEF Typed, ImprovementTypeOK, Developing, Handing, Servers
<1>3. Managers'
  BY Shapes1, ManagerShapes, ActorFacts, Opening
<1> QED
  BY <1>1, <1>2, <1>3 DEF Typed

BootTurn(c) ==
    /\ Turn(c, run[c], "ready", "ready", due[c], by[c], server)
    /\ Managing(c, op[Runner(c)], IdleManager)
    /\ Telling(c, cand[c].gen, cand[c].from, handoff[c], mission[c])

LEMMA DoesBoot ==
    ASSUME Typed, NEW c \in Candidates, Boot(c)
    PROVE  /\ Typed'
           /\ BootTurn(c)
<1> USE DEF Boot, RunTo, HeirTo, Open, repo, files, own, IsAt, HeirAt, OpAt, Failure,
           SettledCandidate, SettledHandoff, SettledMission
<1>1. BootTurn(c)
  BY Shapes1, ActorFacts
  DEF Typed, ImprovementTypeOK, Managers, BootTurn, Turn, Apart, Still, Managing, Telling
<1>2. ImprovementTypeOK'
  <2>1. failures' \in 0 .. MaxFailures
    BY TypeFacts, GenerationsAssumption
  <2>2. GenerationsTypeOK'
    BY <2>1, Constants DEF Typed, ImprovementTypeOK, GenerationsTypeOK
  <2> QED
    BY <2>2, Constants DEF Typed, ImprovementTypeOK, Developing, Handing, Servers
<1>3. Managers'
  BY Shapes1, ManagerShapes, ActorFacts, Opening
<1> QED
  BY <1>1, <1>2, <1>3 DEF Typed

GiveUpTurn(c) ==
    /\ Turn(c, run[c], "none",
            IF heir[c] # "boot" /\ record[c] # "accepted" THEN "failed" ELSE record[c], due[c], by[c], server)
    /\ Managing(c, op[Runner(c)], IdleManager)
    /\ Telling(c, cand[c].gen, cand[c].from, handoff[c], mission[c])

LEMMA DoesGiveUp ==
    ASSUME Typed, NEW c \in Candidates, GiveUp(c)
    PROVE  /\ Typed'
           /\ GiveUpTurn(c)
<1> USE DEF GiveUp, RunTo, HeirTo, Open, repo, files, own, IsAt, HeirAt, OpAt, Failure,
           SettledCandidate, SettledHandoff, SettledMission
<1>1. GiveUpTurn(c)
  BY Shapes1, ActorFacts
  DEF Typed, ImprovementTypeOK, Managers, GiveUpTurn, Turn, Apart, Still, Managing, Telling
<1>2. ImprovementTypeOK'
  <2>1. failures' \in 0 .. MaxFailures
    BY TypeFacts, GenerationsAssumption
  <2>2. GenerationsTypeOK'
    BY <2>1, Constants DEF Typed, ImprovementTypeOK, GenerationsTypeOK
  <2> QED
    BY <2>2, Constants DEF Typed, ImprovementTypeOK, Developing, Handing, Servers
<1>3. Managers'
  BY Shapes1, ManagerShapes, ActorFacts, Opening
<1> QED
  BY <1>1, <1>2, <1>3 DEF Typed

ReleasedTurn(c) ==
    /\ Turn(c, run[c], "resume", record[c], due[c], by[c], server)
    /\ Managing(c, op[Runner(c)], OpenRecovery)
    /\ Telling(c, cand[c].gen, cand[c].from, handoff[c], mission[c])

LEMMA DoesReleased ==
    ASSUME Typed, NEW c \in Candidates, Released(c)
    PROVE  /\ Typed'
           /\ ReleasedTurn(c)
<1> USE DEF Released, RunTo, HeirTo, Open, repo, files, own, IsAt, HeirAt, OpAt, Failure,
           SettledCandidate, SettledHandoff, SettledMission
<1>1. ReleasedTurn(c)
  BY Shapes1, ActorFacts
  DEF Typed, ImprovementTypeOK, Managers, ReleasedTurn, Turn, Apart, Still, Managing, Telling
<1>2. ImprovementTypeOK'
  <2>1. failures' \in 0 .. MaxFailures
    BY TypeFacts, GenerationsAssumption
  <2>2. GenerationsTypeOK'
    BY <2>1, Constants DEF Typed, ImprovementTypeOK, GenerationsTypeOK
  <2> QED
    BY <2>2, Constants DEF Typed, ImprovementTypeOK, Developing, Handing, Servers
<1>3. Managers'
  BY Shapes1, ManagerShapes, ActorFacts, Opening
<1> QED
  BY <1>1, <1>2, <1>3 DEF Typed

ClaimTurn(c) ==
    /\ Turn(c, run[c], "verify", record[c], due[c], by[c], server)
    /\ Managing(c, op[Runner(c)], Opened("held", NoCommit, 0))
    /\ Telling(c, cand[c].gen, cand[c].from, "resuming", "resuming")

LEMMA DoesClaim ==
    ASSUME Typed, NEW c \in Candidates, Claim(c)
    PROVE  /\ Typed'
           /\ ClaimTurn(c)
<1>0. Opened("held", NoCommit, 0) \in Manager
  BY ManagerShapes, Constants
<1> USE DEF Claim, RunTo, HeirTo, Open, repo, files, own, IsAt, HeirAt, OpAt, Failure,
           SettledCandidate, SettledHandoff, SettledMission
<1>1. ClaimTurn(c)
  BY <1>0, Shapes1, ActorFacts
  DEF Typed, ImprovementTypeOK, Managers, ClaimTurn, Turn, Apart, Still, Managing, Telling
<1>2. ImprovementTypeOK'
  <2>1. failures' \in 0 .. MaxFailures
    BY TypeFacts, GenerationsAssumption
  <2>2. GenerationsTypeOK'
    BY <2>1, Constants DEF Typed, ImprovementTypeOK, GenerationsTypeOK
  <2> QED
    BY <1>0, <2>2, Constants DEF Typed, ImprovementTypeOK, Developing, Handing, Servers
<1>3. Managers'
  BY <1>0, Shapes1, ManagerShapes, ActorFacts, Opening
<1> QED
  BY <1>1, <1>2, <1>3 DEF Typed

GatesPassTurn(c) ==
    /\ Turn(c, run[c], "check", record[c], due[c], by[c], server)
    /\ Managing(c, op[Runner(c)], [op[Heir(c)] EXCEPT !.at = "checkpoint"])
    /\ Telling(c, cand[c].gen, cand[c].from, handoff[c], mission[c])

LEMMA DoesGatesPass ==
    ASSUME Typed, NEW c \in Candidates, Gates(c), heir'[c] = "check"
    PROVE  /\ Typed'
           /\ GatesPassTurn(c)
<1>0. [op[Heir(c)] EXCEPT !.at = "checkpoint"] \in Manager
  <2>1. "checkpoint" \in Promoting \cup Rolling \cup Ended
    BY DEF Promoting
  <2>2. op[Heir(c)] \in Manager
    BY Shapes1
  <2> DEFINE n == [op[Heir(c)] EXCEPT !.at = "checkpoint"]
  <2>3. n.at = "checkpoint" /\ (Steady(n) => n \in Manager)
    BY <2>1, <2>2, PlaceFacts
  <2> HIDE DEF n
  <2>4. Steady(n)
    BY <2>3 DEF Steady, Rolling, Exchanging
  <2>5. n \in Manager
    BY <2>3, <2>4
  <2> QED
    BY <2>5 DEF n
<1> USE DEF Gates, RunTo, HeirTo, Open, repo, files, own, IsAt, HeirAt, OpAt, Failure,
           SettledCandidate, SettledHandoff, SettledMission
<1>1. GatesPassTurn(c)
  BY <1>0, Shapes1, ActorFacts
  DEF Typed, ImprovementTypeOK, Managers, GatesPassTurn, Turn, Apart, Still, Managing, Telling
<1>2. ImprovementTypeOK'
  <2>1. failures' \in 0 .. MaxFailures
    BY TypeFacts, GenerationsAssumption
  <2>2. GenerationsTypeOK'
    BY <2>1, Constants DEF Typed, ImprovementTypeOK, GenerationsTypeOK
  <2> QED
    BY <1>0, <2>2, Constants DEF Typed, ImprovementTypeOK, Developing, Handing, Servers
<1>3. Managers'
  BY <1>0, Shapes1, ManagerShapes, ActorFacts, Opening
<1> QED
  BY <1>1, <1>2, <1>3 DEF Typed

GatesFailTurn(c) ==
    /\ Turn(c, run[c], "undo", record[c], due[c], by[c], server)
    /\ Managing(c, op[Runner(c)], OpenRollback(cand[c].from))
    /\ Telling(c, cand[c].gen, cand[c].from, handoff[c], mission[c])

LEMMA DoesGatesFail ==
    ASSUME Typed, NEW c \in Candidates, Gates(c), heir'[c] # "check"
    PROVE  /\ Typed'
           /\ GatesFailTurn(c)
<1>0. op' = [op EXCEPT ![Heir(c)] = OpenRollback(cand[c].from)] /\ heir'[c] = "undo"
  BY DEF Gates, HeirTo, Open, Typed, ImprovementTypeOK
<1> USE DEF Gates, RunTo, HeirTo, Open, repo, files, own, IsAt, HeirAt, OpAt, Failure,
           SettledCandidate, SettledHandoff, SettledMission
<1>1. GatesFailTurn(c)
  BY <1>0, Shapes1, ActorFacts
  DEF Typed, ImprovementTypeOK, Managers, GatesFailTurn, Turn, Apart, Still, Managing, Telling
<1>2. ImprovementTypeOK'
  <2>1. failures' \in 0 .. MaxFailures
    BY TypeFacts, GenerationsAssumption
  <2>2. GenerationsTypeOK'
    BY <2>1, Constants DEF Typed, ImprovementTypeOK, GenerationsTypeOK
  <2> QED
    BY <1>0, <2>2, Constants DEF Typed, ImprovementTypeOK, Developing, Handing, Servers
<1>3. Managers'
  BY <1>0, Shapes1, ManagerShapes, ActorFacts, Opening
<1> QED
  BY <1>1, <1>2, <1>3 DEF Typed

CheckFailsTurn(c) ==
    /\ Turn(c, run[c], "undo", record[c], due[c], by[c], server)
    /\ Managing(c, op[Runner(c)], OpenRollback(cand[c].from))
    /\ Telling(c, cand[c].gen, cand[c].from, handoff[c], mission[c])

LEMMA DoesCheckFails ==
    ASSUME Typed, NEW c \in Candidates, CheckFails(c)
    PROVE  /\ Typed'
           /\ CheckFailsTurn(c)
<1> USE DEF CheckFails, RunTo, HeirTo, Open, repo, files, own, IsAt, HeirAt, OpAt, Failure,
           SettledCandidate, SettledHandoff, SettledMission
<1>1. CheckFailsTurn(c)
  BY Shapes1, ActorFacts
  DEF Typed, ImprovementTypeOK, Managers, CheckFailsTurn, Turn, Apart, Still, Managing, Telling
<1>2. ImprovementTypeOK'
  <2>1. failures' \in 0 .. MaxFailures
    BY TypeFacts, GenerationsAssumption
  <2>2. GenerationsTypeOK'
    BY <2>1, Constants DEF Typed, ImprovementTypeOK, GenerationsTypeOK
  <2> QED
    BY <2>2, Constants DEF Typed, ImprovementTypeOK, Developing, Handing, Servers
<1>3. Managers'
  BY Shapes1, ManagerShapes, ActorFacts, Opening
<1> QED
  BY <1>1, <1>2, <1>3 DEF Typed

CompleteHandoffTurn(c) ==
    /\ Turn(c, run[c], "complete", record[c], due[c], by[c], server)
    /\ Managing(c, op[Runner(c)], IdleManager)
    /\ Telling(c, cand[c].gen, cand[c].from, "completed", mission[c])

LEMMA DoesCompleteHandoff ==
    ASSUME Typed, NEW c \in Candidates, CompleteHandoff(c)
    PROVE  /\ Typed'
           /\ CompleteHandoffTurn(c)
<1> USE DEF CompleteHandoff, RunTo, HeirTo, Open, repo, files, own, IsAt, HeirAt, OpAt, Failure,
           SettledCandidate, SettledHandoff, SettledMission
<1>1. CompleteHandoffTurn(c)
  BY Shapes1, ActorFacts
  DEF Typed, ImprovementTypeOK, Managers, CompleteHandoffTurn, Turn, Apart, Still, Managing, Telling
<1>2. ImprovementTypeOK'
  <2>1. failures' \in 0 .. MaxFailures
    BY TypeFacts, GenerationsAssumption
  <2>2. GenerationsTypeOK'
    BY <2>1, Constants DEF Typed, ImprovementTypeOK, GenerationsTypeOK
  <2> QED
    BY <2>2, Constants DEF Typed, ImprovementTypeOK, Developing, Handing, Servers
<1>3. Managers'
  BY Shapes1, ManagerShapes, ActorFacts, Opening
<1> QED
  BY <1>1, <1>2, <1>3 DEF Typed

CompleteMissionTurn(c) ==
    /\ Turn(c, run[c], "accept", record[c], due[c], by[c], server)
    /\ Managing(c, op[Runner(c)], op[Heir(c)])
    /\ Telling(c, cand[c].gen, cand[c].from, handoff[c], "completed")

LEMMA DoesCompleteMission ==
    ASSUME Typed, NEW c \in Candidates, CompleteMission(c)
    PROVE  /\ Typed'
           /\ CompleteMissionTurn(c)
<1> USE DEF CompleteMission, RunTo, HeirTo, Open, repo, files, own, IsAt, HeirAt, OpAt, Failure,
           SettledCandidate, SettledHandoff, SettledMission
<1>1. CompleteMissionTurn(c)
  BY Shapes1, ActorFacts
  DEF Typed, ImprovementTypeOK, Managers, CompleteMissionTurn, Turn, Apart, Still, Managing, Telling
<1>2. ImprovementTypeOK'
  <2>1. failures' \in 0 .. MaxFailures
    BY TypeFacts, GenerationsAssumption
  <2>2. GenerationsTypeOK'
    BY <2>1, Constants DEF Typed, ImprovementTypeOK, GenerationsTypeOK
  <2> QED
    BY <2>2, Constants DEF Typed, ImprovementTypeOK, Developing, Handing, Servers
<1>3. Managers'
  BY Shapes1, ManagerShapes, ActorFacts, Opening
<1> QED
  BY <1>1, <1>2, <1>3 DEF Typed

CompletionFailsTurn(c) ==
    /\ Turn(c, run[c], "undo", record[c], due[c], by[c], server)
    /\ Managing(c, op[Runner(c)], OpenRollback(cand[c].from))
    /\ Telling(c, cand[c].gen, cand[c].from, handoff[c], mission[c])

LEMMA DoesCompletionFails ==
    ASSUME Typed, NEW c \in Candidates, CompletionFails(c)
    PROVE  /\ Typed'
           /\ CompletionFailsTurn(c)
<1> USE DEF CompletionFails, RunTo, HeirTo, Open, repo, files, own, IsAt, HeirAt, OpAt, Failure,
           SettledCandidate, SettledHandoff, SettledMission
<1>1. CompletionFailsTurn(c)
  BY Shapes1, ActorFacts
  DEF Typed, ImprovementTypeOK, Managers, CompletionFailsTurn, Turn, Apart, Still, Managing, Telling
<1>2. ImprovementTypeOK'
  <2>1. failures' \in 0 .. MaxFailures
    BY TypeFacts, GenerationsAssumption
  <2>2. GenerationsTypeOK'
    BY <2>1, Constants DEF Typed, ImprovementTypeOK, GenerationsTypeOK
  <2> QED
    BY <2>2, Constants DEF Typed, ImprovementTypeOK, Developing, Handing, Servers
<1>3. Managers'
  BY Shapes1, ManagerShapes, ActorFacts, Opening
<1> QED
  BY <1>1, <1>2, <1>3 DEF Typed

AcceptTurn(c) ==
    /\ Turn(c, run[c], "none", "accepted", due[c], by[c], c)
    /\ Managing(c, op[Runner(c)], op[Heir(c)])
    /\ Telling(c, cand[c].gen, cand[c].from, handoff[c], mission[c])

LEMMA DoesAccept ==
    ASSUME Typed, NEW c \in Candidates, Accept(c)
    PROVE  /\ Typed'
           /\ AcceptTurn(c)
<1> USE DEF Accept, RunTo, HeirTo, Open, repo, files, own, IsAt, HeirAt, OpAt, Failure,
           SettledCandidate, SettledHandoff, SettledMission
<1>1. AcceptTurn(c)
  BY Shapes1, ActorFacts
  DEF Typed, ImprovementTypeOK, Managers, AcceptTurn, Turn, Apart, Still, Managing, Telling
<1>2. ImprovementTypeOK'
  <2>1. failures' \in 0 .. MaxFailures
    BY TypeFacts, GenerationsAssumption
  <2>2. GenerationsTypeOK'
    BY <2>1, Constants DEF Typed, ImprovementTypeOK, GenerationsTypeOK
  <2> QED
    BY <2>2, Constants DEF Typed, ImprovementTypeOK, Developing, Handing, Servers
<1>3. Managers'
  BY Shapes1, ManagerShapes, ActorFacts, Opening
<1> QED
  BY <1>1, <1>2, <1>3 DEF Typed

AcceptFailsTurn(c) ==
    /\ Turn(c, run[c], "none", "failed", due[c], by[c], server)
    /\ Managing(c, op[Runner(c)], op[Heir(c)])
    /\ Telling(c, cand[c].gen, cand[c].from, handoff[c], mission[c])

LEMMA DoesAcceptFails ==
    ASSUME Typed, NEW c \in Candidates, AcceptFails(c)
    PROVE  /\ Typed'
           /\ AcceptFailsTurn(c)
<1> USE DEF AcceptFails, RunTo, HeirTo, Open, repo, files, own, IsAt, HeirAt, OpAt, Failure,
           SettledCandidate, SettledHandoff, SettledMission
<1>1. AcceptFailsTurn(c)
  BY Shapes1, ActorFacts
  DEF Typed, ImprovementTypeOK, Managers, AcceptFailsTurn, Turn, Apart, Still, Managing, Telling
<1>2. ImprovementTypeOK'
  <2>1. failures' \in 0 .. MaxFailures
    BY TypeFacts, GenerationsAssumption
  <2>2. GenerationsTypeOK'
    BY <2>1, Constants DEF Typed, ImprovementTypeOK, GenerationsTypeOK
  <2> QED
    BY <2>2, Constants DEF Typed, ImprovementTypeOK, Developing, Handing, Servers
<1>3. Managers'
  BY Shapes1, ManagerShapes, ActorFacts, Opening
<1> QED
  BY <1>1, <1>2, <1>3 DEF Typed

HeirUndoneTurn(c) ==
    /\ Turn(c, run[c], "close", record[c], due[c], by[c], server)
    /\ Managing(c, op[Runner(c)], IdleManager)
    /\ Telling(c, cand[c].gen, cand[c].from, IF handoff[c] \in {"completed",
               "none"} THEN handoff[c] ELSE "failed", mission[c])

LEMMA DoesHeirUndone ==
    ASSUME Typed, NEW c \in Candidates, HeirUndone(c)
    PROVE  /\ Typed'
           /\ HeirUndoneTurn(c)
<1> USE DEF HeirUndone, RunTo, HeirTo, Open, repo, files, own, IsAt, HeirAt, OpAt, Failure,
           SettledCandidate, SettledHandoff, SettledMission
<1>1. HeirUndoneTurn(c)
  BY Shapes1, ActorFacts
  DEF Typed, ImprovementTypeOK, Managers, HeirUndoneTurn, Turn, Apart, Still, Managing, Telling
<1>2. ImprovementTypeOK'
  <2>1. failures' \in 0 .. MaxFailures
    BY TypeFacts, GenerationsAssumption
  <2>2. GenerationsTypeOK'
    BY <2>1, Constants DEF Typed, ImprovementTypeOK, GenerationsTypeOK
  <2> QED
    BY <2>2, Constants DEF Typed, ImprovementTypeOK, Developing, Handing, Servers
<1>3. Managers'
  BY Shapes1, ManagerShapes, ActorFacts, Opening
<1> QED
  BY <1>1, <1>2, <1>3 DEF Typed

HeirClosesAloneTurn(c) ==
    /\ Turn(c, run[c], "replace", "failed", due[c], by[c], server)
    /\ Managing(c, op[Runner(c)], OpenRecovery)
    /\ Telling(c, cand[c].gen, cand[c].from, handoff[c],
               IF mission[c] = "none" THEN mission[c] ELSE "rolled-back")

LEMMA DoesHeirClosesAlone ==
    ASSUME Typed, NEW c \in Candidates, HeirCloses(c), run[c] = "lost"
    PROVE  /\ Typed'
           /\ HeirClosesAloneTurn(c)
<1> USE DEF HeirCloses, RunTo, HeirTo, Open, repo, files, own, IsAt, HeirAt, OpAt, Failure,
           SettledCandidate, SettledHandoff, SettledMission
<1>1. HeirClosesAloneTurn(c)
  BY Shapes1, ActorFacts
  DEF Typed, ImprovementTypeOK, Managers, HeirClosesAloneTurn, Turn, Apart, Still, Managing, Telling
<1>2. ImprovementTypeOK'
  <2>1. failures' \in 0 .. MaxFailures
    BY TypeFacts, GenerationsAssumption
  <2>2. GenerationsTypeOK'
    BY <2>1, Constants DEF Typed, ImprovementTypeOK, GenerationsTypeOK
  <2> QED
    BY <2>2, Constants DEF Typed, ImprovementTypeOK, Developing, Handing, Servers
<1>3. Managers'
  BY Shapes1, ManagerShapes, ActorFacts, Opening
<1> QED
  BY <1>1, <1>2, <1>3 DEF Typed

HeirClosesTurn(c) ==
    /\ Turn(c, run[c], "none", "failed", due[c], by[c], server)
    /\ Managing(c, op[Runner(c)], op[Heir(c)])
    /\ Telling(c, cand[c].gen, cand[c].from, handoff[c],
               IF mission[c] = "none" THEN mission[c] ELSE "rolled-back")

LEMMA DoesHeirCloses ==
    ASSUME Typed, NEW c \in Candidates, HeirCloses(c), run[c] # "lost"
    PROVE  /\ Typed'
           /\ HeirClosesTurn(c)
<1> USE DEF HeirCloses, RunTo, HeirTo, Open, repo, files, own, IsAt, HeirAt, OpAt, Failure,
           SettledCandidate, SettledHandoff, SettledMission
<1>1. HeirClosesTurn(c)
  BY Shapes1, ActorFacts
  DEF Typed, ImprovementTypeOK, Managers, HeirClosesTurn, Turn, Apart, Still, Managing, Telling
<1>2. ImprovementTypeOK'
  <2>1. failures' \in 0 .. MaxFailures
    BY TypeFacts, GenerationsAssumption
  <2>2. GenerationsTypeOK'
    BY <2>1, Constants DEF Typed, ImprovementTypeOK, GenerationsTypeOK
  <2> QED
    BY <2>2, Constants DEF Typed, ImprovementTypeOK, Developing, Handing, Servers
<1>3. Managers'
  BY Shapes1, ManagerShapes, ActorFacts, Opening
<1> QED
  BY <1>1, <1>2, <1>3 DEF Typed

HeirUndoFailsTurn(c) ==
    /\ Turn(c, run[c], "none", "failed", due[c], by[c], server)
    /\ Managing(c, op[Runner(c)], IdleManager)
    /\ Telling(c, cand[c].gen, cand[c].from, handoff[c], mission[c])

LEMMA DoesHeirUndoFails ==
    ASSUME Typed, NEW c \in Candidates, HeirUndoFails(c)
    PROVE  /\ Typed'
           /\ HeirUndoFailsTurn(c)
<1> USE DEF HeirUndoFails, RunTo, HeirTo, Open, repo, files, own, IsAt, HeirAt, OpAt, Failure,
           SettledCandidate, SettledHandoff, SettledMission
<1>1. HeirUndoFailsTurn(c)
  BY Shapes1, ActorFacts
  DEF Typed, ImprovementTypeOK, Managers, HeirUndoFailsTurn, Turn, Apart, Still, Managing, Telling
<1>2. ImprovementTypeOK'
  <2>1. failures' \in 0 .. MaxFailures
    BY TypeFacts, GenerationsAssumption
  <2>2. GenerationsTypeOK'
    BY <2>1, Constants DEF Typed, ImprovementTypeOK, GenerationsTypeOK
  <2> QED
    BY <2>2, Constants DEF Typed, ImprovementTypeOK, Developing, Handing, Servers
<1>3. Managers'
  BY Shapes1, ManagerShapes, ActorFacts, Opening
<1> QED
  BY <1>1, <1>2, <1>3 DEF Typed

ReplaceTurn(c) ==
    /\ Turn(c, run[c], "none", record[c], due[c], by[c], server')
    /\ Managing(c, op[Runner(c)], IdleManager)
    /\ Telling(c, cand[c].gen, cand[c].from, handoff[c], mission[c])

LEMMA DoesReplace ==
    ASSUME Typed, NEW c \in Candidates, Replace(c)
    PROVE  /\ Typed'
           /\ ReplaceTurn(c)
           /\ server' = server \/ (server = "none" /\ server' = "plain")
<1> USE DEF Replace, RunTo, HeirTo, Open, repo, files, own, IsAt, HeirAt, OpAt, Failure,
           SettledCandidate, SettledHandoff, SettledMission
<1>1. /\ ReplaceTurn(c)
      /\ server' = server \/ (server = "none" /\ server' = "plain")
  BY Shapes1, ActorFacts
  DEF Typed, ImprovementTypeOK, Managers, ReplaceTurn, Turn, Apart, Still, Managing, Telling
<1>2. ImprovementTypeOK'
  <2>1. failures' \in 0 .. MaxFailures
    BY TypeFacts, GenerationsAssumption
  <2>2. GenerationsTypeOK'
    BY <2>1, Constants DEF Typed, ImprovementTypeOK, GenerationsTypeOK
  <2> QED
    BY <2>2, Constants DEF Typed, ImprovementTypeOK, Developing, Handing, Servers
<1>3. Managers'
  BY Shapes1, ManagerShapes, ActorFacts, Opening
<1> QED
  BY <1>1, <1>2, <1>3 DEF Typed

HeirCrashesTurn(c) ==
    /\ Turn(c, run[c], "none", record[c], due[c], by[c], server)
    /\ Managing(c, op[Runner(c)], IdleManager)
    /\ Telling(c, cand[c].gen, cand[c].from, handoff[c], mission[c])

LEMMA DoesHeirCrashes ==
    ASSUME Typed, NEW c \in Candidates, HeirCrashes(c)
    PROVE  /\ Typed'
           /\ HeirCrashesTurn(c)
<1> USE DEF HeirCrashes, RunTo, HeirTo, Open, repo, files, own, IsAt, HeirAt, OpAt, Failure,
           SettledCandidate, SettledHandoff, SettledMission
<1>1. HeirCrashesTurn(c)
  BY Shapes1, ActorFacts
  DEF Typed, ImprovementTypeOK, Managers, HeirCrashesTurn, Turn, Apart, Still, Managing, Telling
<1>2. ImprovementTypeOK'
  <2>1. failures' \in 0 .. MaxFailures
    BY TypeFacts, GenerationsAssumption
  <2>2. GenerationsTypeOK'
    BY <2>1, Constants DEF Typed, ImprovementTypeOK, GenerationsTypeOK
  <2> QED
    BY <2>2, Constants DEF Typed, ImprovementTypeOK, Developing, Handing, Servers
<1>3. Managers'
  BY Shapes1, ManagerShapes, ActorFacts, Opening
<1> QED
  BY <1>1, <1>2, <1>3 DEF Typed

-----------------------------------------------------------------------------
(* Control.                                                                *)

LEMMA ControlFacts ==
    ASSUME Typed, NEW c \in Candidates
    PROVE  /\ run[c] \in Developing \cup Handing \cup {"none", "over", "stuck", "lost"}
           /\ heir[c] \in {"none", "boot", "ready", "resume", "verify", "check",
                                 "complete", "accept", "undo", "close", "replace"}
           /\ record[c] \in {"none", "launching", "ready", "quiesced", "accepted", "failed"}
           /\ due[c] \in BOOLEAN /\ by[c] \in Servers /\ by[c] # "none"
           /\ mission[c] \in {"none", "restarting", "resuming", "completed", "rolled-back"}
  BY Constants DEF Typed, ImprovementTypeOK, Servers

\* What a step has to keep for its own candidate.
Keeping(c) ==
    /\ Engaged(c)' => Engaged(c) \/ \A d \in Candidates \ {c} : ~Engaged(d)
    /\ Active(c)' => \/ Active(c) /\ by'[c] = by[c]
                     \/ \A d \in Candidates \ {c} : Active(d) => by[d] # by'[c]
    /\ Serving(c)' /\ Positions(c)' /\ Opens(c)'

LEMMA ControlStep ==
    ASSUME Typed, Control, NEW c \in Candidates, Apart(c), Keeping(c),
           server' = server \/ \A d \in Candidates \ {c} : Serving(d)'
    PROVE  Control'
<1>1. ASSUME NEW d \in Candidates, d # c
      PROVE  (Engaged(d)' => Engaged(d)) /\ (Active(d)' => Active(d)) /\ by'[d] = by[d]
  <2>1. run[d] = "develop" => heir[d] = "none" /\ ~due[d]
    BY DEF Control, Positions
  <2> QED
    BY <1>1, <2>1 DEF Apart, Engaged, Stranded, Active, Acting, Developing, Handing
<1>2. OneMission'
  BY <1>1 DEF Control, OneMission, Keeping
<1>3. OneRun'
  <2>1. ASSUME NEW d \in Candidates, d # c, Active(c)', Active(d)', by'[c] = by'[d]
        PROVE  FALSE
    <3>1. Active(d) /\ by[d] = by'[c]
      BY <1>1, <2>1
    <3>2. Active(c) /\ by'[c] = by[c]
      BY <2>1, <3>1 DEF Keeping
    <3> QED
      BY <2>1, <3>1, <3>2 DEF Control, OneRun
  <2>2. ASSUME NEW d \in Candidates, NEW e \in Candidates, d # c, e # c,
               Active(d)', Active(e)', by'[d] = by'[e]
        PROVE  d = e
    BY <1>1, <2>2 DEF Control, OneRun
  <2> QED
    BY <2>1, <2>2 DEF OneRun
<1>4. ASSUME NEW d \in Candidates, d # c
      PROVE  Serving(d)' /\ Positions(d)' /\ Opens(d)'
  <2>1. Serving(d) /\ Positions(d) /\ Opens(d)
    BY DEF Control
  <2>2. Serving(d)'
    BY <1>4, <2>1 DEF Apart, Serving, Passed, Positions, Active, Developing, Handing
  <2>3. Positions(d)'
    BY <1>4, <2>1 DEF Apart, Positions
  <2>4. Opens(d)'
    BY <1>4, <2>1 DEF Apart, Opens
  <2> QED
    BY <2>2, <2>3, <2>4
<1> QED
  BY <1>2, <1>3, <1>4 DEF Control, Keeping

LEMMA ControlAbandon ==
    ASSUME Typed, Control, NEW c \in Candidates, Abandon(c)
    PROVE  Control'
<1>1. Serving(c) /\ Positions(c) /\ Opens(c)
  BY DEF Control
<1>2. AbandonTurn(c)
  BY <1>1, DoesAbandon
<1>3. Keeping(c)
  BY <1>1, <1>2, Shapes1, ManagerShapes, ControlFacts
  DEF Abandon, IsAt, HeirAt, OpAt, Busy, AbandonTurn, Turn, Managing, Keeping, Engaged,
      Stranded, Active,
      Acting, Developing, Handing,
      Serving, Passed, Positions, Opens, Promoting, Rolling, Exchanging, Ended, Verifying
<1> QED
  BY <1>2, <1>3, ControlStep DEF AbandonTurn, Turn

LEMMA ControlPublishPromotion ==
    ASSUME Typed, Control, NEW c \in Candidates, PublishPromotion(c)
    PROVE  Control'
<1>1. Serving(c) /\ Positions(c) /\ Opens(c)
  BY DEF Control
<1>2. PublishPromotionTurn(c)
  BY <1>1, DoesPublishPromotion
<1>3. Keeping(c)
  BY <1>1, <1>2, Shapes1, ManagerShapes, ControlFacts
  DEF PublishPromotion, IsAt, HeirAt, OpAt, Busy, PublishPromotionTurn, Turn, Managing, Keeping,
      Engaged, Stranded, Active, Acting, Developing, Handing,
      Serving, Passed, Positions, Opens, Promoting, Rolling, Exchanging, Ended, Verifying
<1> QED
  BY <1>2, <1>3, ControlStep DEF PublishPromotionTurn, Turn

LEMMA ControlBuildEnds ==
    ASSUME Typed, Control, NEW c \in Candidates, BuildEnds(c)
    PROVE  Control'
<1>1. Serving(c) /\ Positions(c) /\ Opens(c)
  BY DEF Control
<1>2. /\ BuildEndsTurn(c)
      /\ run'[c] \in {"announce", "over"}
  BY <1>1, DoesBuildEnds
<1>3. Keeping(c)
  BY <1>1, <1>2, Shapes1, ManagerShapes, ControlFacts
  DEF BuildEnds, IsAt, HeirAt, OpAt, Busy, BuildEndsTurn, Turn, Managing, Keeping, Engaged,
      Stranded,
      Active, Acting, Developing, Handing,
      Serving, Passed, Positions, Opens, Promoting, Rolling, Exchanging, Ended, Verifying
<1> QED
  BY <1>2, <1>3, ControlStep DEF BuildEndsTurn, Turn

LEMMA ControlAnnounce ==
    ASSUME Typed, Control, NEW c \in Candidates, Announce(c)
    PROVE  Control'
<1>1. Serving(c) /\ Positions(c) /\ Opens(c)
  BY DEF Control
<1>2. AnnounceTurn(c)
  BY <1>1, DoesAnnounce
<1>3. Keeping(c)
  BY <1>1, <1>2, Shapes1, ManagerShapes, ControlFacts
  DEF Announce, IsAt, HeirAt, OpAt, Busy, AnnounceTurn, Turn, Managing, Keeping, Engaged,
      Stranded, Active,
      Acting, Developing, Handing,
      Serving, Passed, Positions, Opens, Promoting, Rolling, Exchanging, Ended, Verifying
<1> QED
  BY <1>2, <1>3, ControlStep DEF AnnounceTurn, Turn

LEMMA ControlLaunch ==
    ASSUME Typed, Control, NEW c \in Candidates, Launch(c)
    PROVE  Control'
<1>1. Serving(c) /\ Positions(c) /\ Opens(c)
  BY DEF Control
<1>2. LaunchTurn(c)
  BY <1>1, DoesLaunch
<1>3. Keeping(c)
  BY <1>1, <1>2, Shapes1, ManagerShapes, ControlFacts
  DEF Launch, IsAt, HeirAt, OpAt, Busy, LaunchTurn, Turn, Managing, Keeping, Engaged,
      Stranded, Active,
      Acting, Developing, Handing,
      Serving, Passed, Positions, Opens, Promoting, Rolling, Exchanging, Ended, Verifying
<1> QED
  BY <1>2, <1>3, ControlStep DEF LaunchTurn, Turn

LEMMA ControlLaunched ==
    ASSUME Typed, Control, NEW c \in Candidates, Launched(c)
    PROVE  Control'
<1>1. Serving(c) /\ Positions(c) /\ Opens(c)
  BY DEF Control
<1>2. LaunchedTurn(c)
  BY <1>1, DoesLaunched
<1>3. Keeping(c)
  BY <1>1, <1>2, Shapes1, ManagerShapes, ControlFacts
  DEF Launched, IsAt, HeirAt, OpAt, Busy, LaunchedTurn, Turn, Managing, Keeping, Engaged,
      Stranded, Active,
      Acting, Developing, Handing,
      Serving, Passed, Positions, Opens, Promoting, Rolling, Exchanging, Ended, Verifying
<1> QED
  BY <1>2, <1>3, ControlStep DEF LaunchedTurn, Turn

LEMMA ControlLaunchFails ==
    ASSUME Typed, Control, NEW c \in Candidates, LaunchFails(c)
    PROVE  Control'
<1>1. Serving(c) /\ Positions(c) /\ Opens(c)
  BY DEF Control
<1>2. LaunchFailsTurn(c)
  BY <1>1, DoesLaunchFails
<1>3. Keeping(c)
  BY <1>1, <1>2, Shapes1, ManagerShapes, ControlFacts
  DEF LaunchFails, IsAt, HeirAt, OpAt, Busy, LaunchFailsTurn, Turn, Managing, Keeping,
      Engaged, Stranded,
      Active, Acting, Developing, Handing,
      Serving, Passed, Positions, Opens, Promoting, Rolling, Exchanging, Ended, Verifying
<1> QED
  BY <1>2, <1>3, ControlStep DEF LaunchFailsTurn, Turn

LEMMA ControlReply ==
    ASSUME Typed, Control, NEW c \in Candidates, Reply(c)
    PROVE  Control'
<1>1. Serving(c) /\ Positions(c) /\ Opens(c)
  BY DEF Control
<1>2. ReplyTurn(c)
  BY <1>1, DoesReply
<1>3. Keeping(c)
  BY <1>1, <1>2, Shapes1, ManagerShapes, ControlFacts
  DEF Reply, IsAt, HeirAt, OpAt, Busy, ReplyTurn, Turn, Managing, Keeping, Engaged, Stranded,
      Active,
      Acting, Developing, Handing,
      Serving, Passed, Positions, Opens, Promoting, Rolling, Exchanging, Ended, Verifying
<1> QED
  BY <1>2, <1>3, ControlStep DEF ReplyTurn, Turn

LEMMA ControlRelease ==
    ASSUME Typed, Control, NEW c \in Candidates, Release(c)
    PROVE  Control'
<1>1. Serving(c) /\ Positions(c) /\ Opens(c)
  BY DEF Control
<1>2. ReleaseTurn(c)
  BY <1>1, DoesRelease
<1>3. Keeping(c)
  BY <1>1, <1>2, Shapes1, ManagerShapes, ControlFacts
  DEF Release, IsAt, HeirAt, OpAt, Busy, ReleaseTurn, Turn, Managing, Keeping, Engaged,
      Stranded, Active,
      Acting, Developing, Handing,
      Serving, Passed, Positions, Opens, Promoting, Rolling, Exchanging, Ended, Verifying
<1> QED
  BY <1>2, <1>3, ControlStep DEF ReleaseTurn, Turn

LEMMA ControlReleaseFails ==
    ASSUME Typed, Control, NEW c \in Candidates, ReleaseFails(c)
    PROVE  Control'
<1>1. Serving(c) /\ Positions(c) /\ Opens(c)
  BY DEF Control
<1>2. ReleaseFailsTurn(c)
  BY <1>1, DoesReleaseFails
<1>3. Keeping(c)
  BY <1>1, <1>2, Shapes1, ManagerShapes, ControlFacts
  DEF ReleaseFails, IsAt, HeirAt, OpAt, Busy, ReleaseFailsTurn, Turn, Managing, Keeping,
      Engaged, Stranded,
      Active, Acting, Developing, Handing,
      Serving, Passed, Positions, Opens, Promoting, Rolling, Exchanging, Ended, Verifying
<1> QED
  BY <1>2, <1>3, ControlStep DEF ReleaseFailsTurn, Turn

LEMMA ControlWaitFails ==
    ASSUME Typed, Control, NEW c \in Candidates, WaitFails(c)
    PROVE  Control'
<1>1. Serving(c) /\ Positions(c) /\ Opens(c)
  BY DEF Control
<1>2. WaitFailsTurn(c)
  BY <1>1, DoesWaitFails
<1>3. Keeping(c)
  BY <1>1, <1>2, Shapes1, ManagerShapes, ControlFacts
  DEF WaitFails, IsAt, HeirAt, OpAt, Busy, WaitFailsTurn, Turn, Managing, Keeping, Engaged,
      Stranded,
      Active, Acting, Developing, Handing,
      Serving, Passed, Positions, Opens, Promoting, Rolling, Exchanging, Ended, Verifying
<1> QED
  BY <1>2, <1>3, ControlStep DEF WaitFailsTurn, Turn

LEMMA ControlRetire ==
    ASSUME Typed, Control, NEW c \in Candidates, Retire(c)
    PROVE  Control'
<1>1. Serving(c) /\ Positions(c) /\ Opens(c)
  BY DEF Control
<1>2. RetireTurn(c)
  BY <1>1, DoesRetire
<1>3. Keeping(c)
  BY <1>1, <1>2, Shapes1, ManagerShapes, ControlFacts
  DEF Retire, IsAt, HeirAt, OpAt, Busy, RetireTurn, Turn, Managing, Keeping, Engaged,
      Stranded, Active,
      Acting, Developing, Handing,
      Serving, Passed, Positions, Opens, Promoting, Rolling, Exchanging, Ended, Verifying
<1>4. ASSUME NEW d \in Candidates \ {c}
      PROVE  Serving(d)'
  <2>1. ASSUME Active(d)'
        PROVE  FALSE
    <3>1. Active(d) /\ by[d] # c /\ by'[d] = by[d] /\ run[d] = "develop"
      BY <1>2, <2>1, OnlyDevelops
      DEF Retire, RetireTurn, Turn, Apart, Active, Developing, Handing
    <3>2. by[d] = server /\ server # "none"
      BY <3>1, ControlFacts DEF Control, Serving, Passed
    <3>3. by[c] = server /\ Active(c)
      BY <1>1, <3>1, <3>2 DEF Retire, Serving, Active, Handing
    <3> QED
      BY <3>1, <3>2, <3>3 DEF Control, OneRun
  <2>2. ~(run'[d] = "lost" /\ heir'[d] # "none")
    <3>1. Engaged(c)
      BY DEF Retire, Engaged, Acting, Handing
    <3>2. run[d] = "lost" => heir[d] = "none"
      BY <3>1 DEF Control, OneMission, Engaged, Stranded
    <3>3. run[d] = "develop" => heir[d] = "none"
      BY DEF Control, Positions
    <3> QED
      BY <1>2, <3>2, <3>3 DEF RetireTurn, Turn, Apart
  <2> QED
    BY <1>2, <2>1, <2>2 DEF Control, Serving, RetireTurn, Turn, Apart
<1> QED
  BY <1>2, <1>3, <1>4, ControlStep DEF RetireTurn, Turn

LEMMA ControlServed ==
    ASSUME Typed, Control, NEW c \in Candidates, Served(c)
    PROVE  Control'
<1>1. Serving(c) /\ Positions(c) /\ Opens(c)
  BY DEF Control
<1>2. ServedTurn(c)
  BY <1>1, DoesServed
<1>3. Keeping(c)
  BY <1>1, <1>2, Shapes1, ManagerShapes, ControlFacts
  DEF Served, IsAt, HeirAt, OpAt, Busy, ServedTurn, Turn, Managing, Keeping, Engaged,
      Stranded, Active,
      Acting, Developing, Handing,
      Serving, Passed, Positions, Opens, Promoting, Rolling, Exchanging, Ended, Verifying
<1> QED
  BY <1>2, <1>3, ControlStep DEF ServedTurn, Turn

LEMMA ControlRunUndone ==
    ASSUME Typed, Control, NEW c \in Candidates, RunUndone(c)
    PROVE  Control'
<1>1. Serving(c) /\ Positions(c) /\ Opens(c)
  BY DEF Control
<1>2. RunUndoneTurn(c)
  BY <1>1, DoesRunUndone
<1>3. Keeping(c)
  BY <1>1, <1>2, Shapes1, ManagerShapes, ControlFacts
  DEF RunUndone, IsAt, HeirAt, OpAt, Busy, RunUndoneTurn, Turn, Managing, Keeping, Engaged,
      Stranded,
      Active, Acting, Developing, Handing,
      Serving, Passed, Positions, Opens, Promoting, Rolling, Exchanging, Ended, Verifying
<1> QED
  BY <1>2, <1>3, ControlStep DEF RunUndoneTurn, Turn

LEMMA ControlRunUndoFails ==
    ASSUME Typed, Control, NEW c \in Candidates, RunUndoFails(c)
    PROVE  Control'
<1>1. Serving(c) /\ Positions(c) /\ Opens(c)
  BY DEF Control
<1>2. RunUndoFailsTurn(c)
  BY <1>1, DoesRunUndoFails
<1>3. Keeping(c)
  BY <1>1, <1>2, Shapes1, ManagerShapes, ControlFacts
  DEF RunUndoFails, IsAt, HeirAt, OpAt, Busy, RunUndoFailsTurn, Turn, Managing, Keeping,
      Engaged, Stranded,
      Active, Acting, Developing, Handing,
      Serving, Passed, Positions, Opens, Promoting, Rolling, Exchanging, Ended, Verifying
<1> QED
  BY <1>2, <1>3, ControlStep DEF RunUndoFailsTurn, Turn

LEMMA ControlClose ==
    ASSUME Typed, Control, NEW c \in Candidates, Close(c)
    PROVE  Control'
<1>1. Serving(c) /\ Positions(c) /\ Opens(c)
  BY DEF Control
<1>2. CloseTurn(c)
  BY <1>1, DoesClose
<1>3. Keeping(c)
  BY <1>1, <1>2, Shapes1, ManagerShapes, ControlFacts
  DEF Close, IsAt, HeirAt, OpAt, Busy, CloseTurn, Turn, Managing, Keeping, Engaged, Stranded,
      Active,
      Acting, Developing, Handing,
      Serving, Passed, Positions, Opens, Promoting, Rolling, Exchanging, Ended, Verifying
<1> QED
  BY <1>2, <1>3, ControlStep DEF CloseTurn, Turn

LEMMA ControlPublishFails ==
    ASSUME Typed, Control, NEW c \in Candidates, PublishFails(c)
    PROVE  Control'
<1>1. Serving(c) /\ Positions(c) /\ Opens(c)
  BY DEF Control
<1>2. PublishFailsTurn(c)
  BY <1>1, DoesPublishFails
<1>3. Keeping(c)
  BY <1>1, <1>2, Shapes1, ManagerShapes, ControlFacts
  DEF PublishFails, IsAt, HeirAt, OpAt, Busy, PublishFailsTurn, Turn, Managing, Keeping,
      Engaged, Stranded,
      Active, Acting, Developing, Handing,
      Serving, Passed, Positions, Opens, Promoting, Rolling, Exchanging, Ended, Verifying, Working
<1> QED
  BY <1>2, <1>3, ControlStep DEF PublishFailsTurn, Turn

LEMMA ControlAnnounceFails ==
    ASSUME Typed, Control, NEW c \in Candidates, AnnounceFails(c)
    PROVE  Control'
<1>1. Serving(c) /\ Positions(c) /\ Opens(c)
  BY DEF Control
<1>2. AnnounceFailsTurn(c)
  BY <1>1, DoesAnnounceFails
<1>3. Keeping(c)
  BY <1>1, <1>2, Shapes1, ManagerShapes, ControlFacts
  DEF AnnounceFails, IsAt, HeirAt, OpAt, Busy, AnnounceFailsTurn, Turn, Managing, Keeping,
      Engaged, Stranded, Active, Acting, Developing, Handing,
      Serving, Passed, Positions, Opens, Promoting, Rolling, Exchanging, Ended, Verifying
<1> QED
  BY <1>2, <1>3, ControlStep DEF AnnounceFailsTurn, Turn

LEMMA ControlBoot ==
    ASSUME Typed, Control, NEW c \in Candidates, Boot(c)
    PROVE  Control'
<1>1. Serving(c) /\ Positions(c) /\ Opens(c)
  BY DEF Control
<1>2. BootTurn(c)
  BY <1>1, DoesBoot
<1>3. Keeping(c)
  BY <1>1, <1>2, Shapes1, ManagerShapes, ControlFacts
  DEF Boot, IsAt, HeirAt, OpAt, Busy, BootTurn, Turn, Managing, Keeping, Engaged, Stranded,
      Active, Acting,
      Developing, Handing,
      Serving, Passed, Positions, Opens, Promoting, Rolling, Exchanging, Ended, Verifying
<1> QED
  BY <1>2, <1>3, ControlStep DEF BootTurn, Turn

LEMMA ControlGiveUp ==
    ASSUME Typed, Control, NEW c \in Candidates, GiveUp(c)
    PROVE  Control'
<1>1. Serving(c) /\ Positions(c) /\ Opens(c)
  BY DEF Control
<1>2. GiveUpTurn(c)
  BY <1>1, DoesGiveUp
<1>3. Keeping(c)
  BY <1>1, <1>2, Shapes1, ManagerShapes, ControlFacts
  DEF GiveUp, Deserted, IsAt, HeirAt, OpAt, Busy, GiveUpTurn, Turn, Managing, Keeping,
      Engaged, Stranded, Active,
      Acting, Developing, Handing,
      Serving, Passed, Positions, Opens, Promoting, Rolling, Exchanging, Ended, Verifying
<1> QED
  BY <1>2, <1>3, ControlStep DEF GiveUpTurn, Turn

LEMMA ControlReleased ==
    ASSUME Typed, Control, NEW c \in Candidates, Released(c)
    PROVE  Control'
<1>1. Serving(c) /\ Positions(c) /\ Opens(c)
  BY DEF Control
<1>2. ReleasedTurn(c)
  BY <1>1, DoesReleased
<1>3. Keeping(c)
  BY <1>1, <1>2, Shapes1, ManagerShapes, ControlFacts
  DEF Released, IsAt, HeirAt, OpAt, Busy, ReleasedTurn, Turn, Managing, Keeping, Engaged,
      Stranded, Active,
      Acting, Developing, Handing,
      Serving, Passed, Positions, Opens, Promoting, Rolling, Exchanging, Ended, Verifying
<1> QED
  BY <1>2, <1>3, ControlStep DEF ReleasedTurn, Turn

LEMMA ControlClaim ==
    ASSUME Typed, Control, NEW c \in Candidates, Claim(c)
    PROVE  Control'
<1>1. Serving(c) /\ Positions(c) /\ Opens(c)
  BY DEF Control
<1>2. /\ ClaimTurn(c)
      /\ Opened("held", NoCommit, 0).at = "held"
  BY <1>1, DoesClaim, ManagerShapes, Constants
<1>3. Keeping(c)
  BY <1>1, <1>2, Shapes1, ManagerShapes, ControlFacts
  DEF Claim, IsAt, HeirAt, OpAt, Busy, ClaimTurn, Turn, Managing, Keeping, Engaged, Stranded,
      Active,
      Acting, Developing, Handing,
      Serving, Passed, Positions, Opens, Promoting, Rolling, Exchanging, Ended, Verifying
<1> QED
  BY <1>2, <1>3, ControlStep DEF ClaimTurn, Turn

LEMMA ControlGatesPass ==
    ASSUME Typed, Control, NEW c \in Candidates, Gates(c), heir'[c] = "check"
    PROVE  Control'
<1>1. Serving(c) /\ Positions(c) /\ Opens(c)
  BY DEF Control
<1>2. GatesPassTurn(c)
  BY <1>1, DoesGatesPass
<1>3. Keeping(c)
  BY <1>1, <1>2, Shapes1, ManagerShapes, ControlFacts
  DEF Gates, IsAt, HeirAt, OpAt, Busy, GatesPassTurn, Turn, Managing, Keeping, Engaged,
      Stranded, Active,
      Acting, Developing, Handing,
      Serving, Passed, Positions, Opens, Promoting, Rolling, Exchanging, Ended, Verifying
<1> QED
  BY <1>2, <1>3, ControlStep DEF GatesPassTurn, Turn

LEMMA ControlGatesFail ==
    ASSUME Typed, Control, NEW c \in Candidates, Gates(c), heir'[c] # "check"
    PROVE  Control'
<1>1. Serving(c) /\ Positions(c) /\ Opens(c)
  BY DEF Control
<1>2. GatesFailTurn(c)
  BY <1>1, DoesGatesFail
<1>3. Keeping(c)
  BY <1>1, <1>2, Shapes1, ManagerShapes, ControlFacts
  DEF Gates, IsAt, HeirAt, OpAt, Busy, GatesFailTurn, Turn, Managing, Keeping, Engaged,
      Stranded, Active,
      Acting, Developing, Handing,
      Serving, Passed, Positions, Opens, Promoting, Rolling, Exchanging, Ended, Verifying
<1> QED
  BY <1>2, <1>3, ControlStep DEF GatesFailTurn, Turn

LEMMA ControlCheckFails ==
    ASSUME Typed, Control, NEW c \in Candidates, CheckFails(c)
    PROVE  Control'
<1>1. Serving(c) /\ Positions(c) /\ Opens(c)
  BY DEF Control
<1>2. CheckFailsTurn(c)
  BY <1>1, DoesCheckFails
<1>3. Keeping(c)
  BY <1>1, <1>2, Shapes1, ManagerShapes, ControlFacts
  DEF CheckFails, IsAt, HeirAt, OpAt, Busy, CheckFailsTurn, Turn, Managing, Keeping, Engaged,
      Stranded,
      Active, Acting, Developing, Handing,
      Serving, Passed, Positions, Opens, Promoting, Rolling, Exchanging, Ended, Verifying
<1> QED
  BY <1>2, <1>3, ControlStep DEF CheckFailsTurn, Turn

LEMMA ControlCompleteHandoff ==
    ASSUME Typed, Control, NEW c \in Candidates, CompleteHandoff(c)
    PROVE  Control'
<1>1. Serving(c) /\ Positions(c) /\ Opens(c)
  BY DEF Control
<1>2. CompleteHandoffTurn(c)
  BY <1>1, DoesCompleteHandoff
<1>3. Keeping(c)
  BY <1>1, <1>2, Shapes1, ManagerShapes, ControlFacts
  DEF CompleteHandoff, IsAt, HeirAt, OpAt, Busy, CompleteHandoffTurn, Turn, Managing, Keeping,
      Engaged, Stranded, Active, Acting, Developing, Handing,
      Serving, Passed, Positions, Opens, Promoting, Rolling, Exchanging, Ended, Verifying
<1> QED
  BY <1>2, <1>3, ControlStep DEF CompleteHandoffTurn, Turn

LEMMA ControlCompleteMission ==
    ASSUME Typed, Control, NEW c \in Candidates, CompleteMission(c)
    PROVE  Control'
<1>1. Serving(c) /\ Positions(c) /\ Opens(c)
  BY DEF Control
<1>2. CompleteMissionTurn(c)
  BY <1>1, DoesCompleteMission
<1>3. Keeping(c)
  BY <1>1, <1>2, Shapes1, ManagerShapes, ControlFacts
  DEF CompleteMission, IsAt, HeirAt, OpAt, Busy, CompleteMissionTurn, Turn, Managing, Keeping,
      Engaged, Stranded, Active, Acting, Developing, Handing,
      Serving, Passed, Positions, Opens, Promoting, Rolling, Exchanging, Ended, Verifying
<1> QED
  BY <1>2, <1>3, ControlStep DEF CompleteMissionTurn, Turn

LEMMA ControlCompletionFails ==
    ASSUME Typed, Control, NEW c \in Candidates, CompletionFails(c)
    PROVE  Control'
<1>1. Serving(c) /\ Positions(c) /\ Opens(c)
  BY DEF Control
<1>2. CompletionFailsTurn(c)
  BY <1>1, DoesCompletionFails
<1>3. Keeping(c)
  BY <1>1, <1>2, Shapes1, ManagerShapes, ControlFacts
  DEF CompletionFails, IsAt, HeirAt, OpAt, Busy, CompletionFailsTurn, Turn, Managing, Keeping,
      Engaged, Stranded, Active, Acting, Developing, Handing,
      Serving, Passed, Positions, Opens, Promoting, Rolling, Exchanging, Ended, Verifying
<1> QED
  BY <1>2, <1>3, ControlStep DEF CompletionFailsTurn, Turn

LEMMA ControlAcceptFails ==
    ASSUME Typed, Control, NEW c \in Candidates, AcceptFails(c)
    PROVE  Control'
<1>1. Serving(c) /\ Positions(c) /\ Opens(c)
  BY DEF Control
<1>2. AcceptFailsTurn(c)
  BY <1>1, DoesAcceptFails
<1>3. Keeping(c)
  BY <1>1, <1>2, Shapes1, ManagerShapes, ControlFacts
  DEF AcceptFails, IsAt, HeirAt, OpAt, Busy, AcceptFailsTurn, Turn, Managing, Keeping,
      Engaged, Stranded,
      Active, Acting, Developing, Handing,
      Serving, Passed, Positions, Opens, Promoting, Rolling, Exchanging, Ended, Verifying
<1> QED
  BY <1>2, <1>3, ControlStep DEF AcceptFailsTurn, Turn

LEMMA ControlHeirUndone ==
    ASSUME Typed, Control, NEW c \in Candidates, HeirUndone(c)
    PROVE  Control'
<1>1. Serving(c) /\ Positions(c) /\ Opens(c)
  BY DEF Control
<1>2. HeirUndoneTurn(c)
  BY <1>1, DoesHeirUndone
<1>3. Keeping(c)
  BY <1>1, <1>2, Shapes1, ManagerShapes, ControlFacts
  DEF HeirUndone, IsAt, HeirAt, OpAt, Busy, HeirUndoneTurn, Turn, Managing, Keeping, Engaged,
      Stranded,
      Active, Acting, Developing, Handing,
      Serving, Passed, Positions, Opens, Promoting, Rolling, Exchanging, Ended, Verifying
<1> QED
  BY <1>2, <1>3, ControlStep DEF HeirUndoneTurn, Turn

LEMMA ControlHeirClosesAlone ==
    ASSUME Typed, Control, NEW c \in Candidates, HeirCloses(c), run[c] = "lost"
    PROVE  Control'
<1>1. Serving(c) /\ Positions(c) /\ Opens(c)
  BY DEF Control
<1>2. HeirClosesAloneTurn(c)
  BY <1>1, DoesHeirClosesAlone
<1>3. Keeping(c)
  BY <1>1, <1>2, Shapes1, ManagerShapes, ControlFacts
  DEF HeirCloses, IsAt, HeirAt, OpAt, Busy, HeirClosesAloneTurn, Turn, Managing, Keeping,
      Engaged, Stranded, Active, Acting, Developing, Handing,
      Serving, Passed, Positions, Opens, Promoting, Rolling, Exchanging, Ended, Verifying
<1> QED
  BY <1>2, <1>3, ControlStep DEF HeirClosesAloneTurn, Turn

LEMMA ControlHeirCloses ==
    ASSUME Typed, Control, NEW c \in Candidates, HeirCloses(c), run[c] # "lost"
    PROVE  Control'
<1>1. Serving(c) /\ Positions(c) /\ Opens(c)
  BY DEF Control
<1>2. HeirClosesTurn(c)
  BY <1>1, DoesHeirCloses
<1>3. Keeping(c)
  BY <1>1, <1>2, Shapes1, ManagerShapes, ControlFacts
  DEF HeirCloses, IsAt, HeirAt, OpAt, Busy, HeirClosesTurn, Turn, Managing, Keeping, Engaged,
      Stranded,
      Active, Acting, Developing, Handing,
      Serving, Passed, Positions, Opens, Promoting, Rolling, Exchanging, Ended, Verifying
<1> QED
  BY <1>2, <1>3, ControlStep DEF HeirClosesTurn, Turn

LEMMA ControlHeirUndoFails ==
    ASSUME Typed, Control, NEW c \in Candidates, HeirUndoFails(c)
    PROVE  Control'
<1>1. Serving(c) /\ Positions(c) /\ Opens(c)
  BY DEF Control
<1>2. HeirUndoFailsTurn(c)
  BY <1>1, DoesHeirUndoFails
<1>3. Keeping(c)
  BY <1>1, <1>2, Shapes1, ManagerShapes, ControlFacts
  DEF HeirUndoFails, IsAt, HeirAt, OpAt, Busy, HeirUndoFailsTurn, Turn, Managing, Keeping,
      Engaged, Stranded, Active, Acting, Developing, Handing,
      Serving, Passed, Positions, Opens, Promoting, Rolling, Exchanging, Ended, Verifying
<1> QED
  BY <1>2, <1>3, ControlStep DEF HeirUndoFailsTurn, Turn

LEMMA ControlHeirCrashes ==
    ASSUME Typed, Control, NEW c \in Candidates, HeirCrashes(c)
    PROVE  Control'
<1>1. Serving(c) /\ Positions(c) /\ Opens(c)
  BY DEF Control
<1>2. HeirCrashesTurn(c)
  BY <1>1, DoesHeirCrashes
<1>3. Keeping(c)
  BY <1>1, <1>2, Shapes1, ManagerShapes, ControlFacts
  DEF HeirCrashes, IsAt, HeirAt, OpAt, Busy, HeirCrashesTurn, Turn, Managing, Keeping,
      Engaged, Stranded,
      Active, Acting, Developing, Handing,
      Serving, Passed, Positions, Opens, Promoting, Rolling, Exchanging, Ended, Verifying
<1> QED
  BY <1>2, <1>3, ControlStep DEF HeirCrashesTurn, Turn

LEMMA ControlStartRun ==
    ASSUME Typed, Control, NEW c \in Candidates, StartRun(c)
    PROVE  Control'
<1>1. Serving(c) /\ Positions(c) /\ Opens(c)
  BY DEF Control
<1>2. StartRunTurn(c)
  BY <1>1, DoesStartRun
<1>3. Keeping(c)
  BY <1>1, <1>2, Shapes1, ManagerShapes, ControlFacts
  DEF StartRun, StartRunTurn, Turn, Managing, Keeping, Engaged, Stranded, Active, Acting,
      Developing, Handing,
      Serving, Passed, Positions, Opens, Promoting, Rolling, Exchanging, Ended, Verifying
<1> QED
  BY <1>2, <1>3, ControlStep DEF StartRunTurn, Turn

LEMMA ControlEvaluated ==
    ASSUME Typed, Control, NEW c \in Candidates, Evaluated(c)
    PROVE  Control'
<1>1. Serving(c) /\ Positions(c) /\ Opens(c)
  BY DEF Control
<1>2. EvaluatedTurn(c)
  BY <1>1, DoesEvaluated
<1>3. ASSUME NEW d \in Candidates \ {c}, Engaged(d)
      PROVE  FALSE
  <2>1. run[c] = "develop" /\ Active(c) /\ by[c] = server /\ server # "none"
    BY <1>1, ControlFacts DEF Evaluated, Active, Developing, Serving, Passed
  <2>2. ~Active(d)
    BY <2>1 DEF Evaluated, Control, OneRun
  <2>3. run[d] \notin Acting
    BY <2>2 DEF Active, Acting
  <2>4. heir[d] # "none" /\ ~Stranded(d)
    BY <1>3, <2>3 DEF Evaluated, Engaged
  <2>5. run[d] # "lost"
    BY <2>1, <2>4 DEF Control, Serving, Passed
  <2>6. record[d] = "failed"
    BY <2>2, <2>4, <2>5, ControlFacts DEF Control, Positions, Active, Stranded, Developing, Handing
  <2> QED
    BY <2>4, <2>6 DEF Evaluated
<1>4. Keeping(c)
  BY <1>1, <1>2, <1>3, Shapes1, ManagerShapes, ControlFacts
  DEF Evaluated, EvaluatedTurn, Turn, Managing, Keeping, Engaged, Stranded, Active, Acting,
      Developing,
      Handing,
      Serving, Passed, Positions, Opens, Promoting, Rolling, Exchanging, Ended, Verifying
<1> QED
  BY <1>2, <1>4, ControlStep DEF EvaluatedTurn, Turn

LEMMA ControlRefinalize ==
    ASSUME Typed, Control, NEW c \in Candidates, Refinalize(c)
    PROVE  Control'
<1>1. Serving(c) /\ Positions(c) /\ Opens(c)
  BY DEF Control
<1>2. RefinalizeTurn(c)
  BY <1>1, DoesRefinalize
<1>3. Keeping(c)
  BY <1>1, <1>2, Shapes1, ManagerShapes, ControlFacts
  DEF Refinalize, RefinalizeTurn, Turn, Managing, Keeping, Engaged, Stranded, Active, Acting,
      Developing,
      Handing,
      Serving, Passed, Positions, Opens, Promoting, Rolling, Exchanging, Ended, Verifying
<1> QED
  BY <1>2, <1>3, ControlStep DEF RefinalizeTurn, Turn

LEMMA ControlAccept ==
    ASSUME Typed, Control, NEW c \in Candidates, Accept(c)
    PROVE  Control'
<1>1. Serving(c) /\ Positions(c) /\ Opens(c)
  BY DEF Control
<1>2. AcceptTurn(c)
  BY <1>1, DoesAccept
<1>3. ASSUME NEW d \in Candidates \ {c}
      PROVE  Serving(d)'
  <2>1. ~Engaged(d)
    BY DEF Accept, Engaged, Stranded, Control, OneMission
  <2>2. ~Active(d)
    <3>1. SUFFICES ASSUME Active(d)
                   PROVE  FALSE
      OBVIOUS
    <3>2. by[d] = server /\ server # "none"
      BY <2>1, <3>1, ControlFacts
      DEF Control, Serving, Passed, Engaged, Acting, Developing, Handing
    <3>3. run[c] = "wait"
      BY <1>1, <3>2, ControlFacts DEF Accept, Positions, Serving, Developing, Handing
    <3>4. by[c] = server /\ Active(c)
      BY <1>1, <3>3 DEF Accept, Serving, Passed, Active, Handing
    <3> QED
      BY <3>1, <3>2, <3>4 DEF Control, OneRun
  <2>3. ~(run[d] = "lost" /\ heir[d] # "none")
    BY <2>1 DEF Engaged, Stranded
  <2> QED
    BY <1>2, <2>2, <2>3
    DEF Control, Serving, AcceptTurn, Turn, Apart, Active, Developing, Handing
<1>4. Keeping(c)
  BY <1>1, <1>2, Shapes1, ManagerShapes, ControlFacts
  DEF Accept, AcceptTurn, Turn, Managing, Keeping, Engaged, Stranded, Active, Acting,
      Developing, Handing,
      Serving, Passed, Positions, Opens, Promoting, Rolling, Exchanging, Ended, Verifying
<1> QED
  BY <1>2, <1>3, <1>4, ControlStep DEF AcceptTurn, Turn

LEMMA ControlReplace ==
    ASSUME Typed, Control, NEW c \in Candidates, Replace(c)
    PROVE  Control'
<1>1. Serving(c) /\ Positions(c) /\ Opens(c)
  BY DEF Control
<1>2. /\ ReplaceTurn(c)
      /\ server' = server \/ (server = "none" /\ server' = "plain")
  BY <1>1, DoesReplace
<1>3. ASSUME NEW d \in Candidates \ {c}, server = "none"
      PROVE  Serving(d)'
  <2>1. ~Engaged(d)
    BY DEF Replace, HeirAt, Engaged, Stranded, Control, OneMission
  <2>2. ~Active(d)
    BY <1>3, <2>1, ControlFacts
    DEF Control, Serving, Passed, Engaged, Acting, Developing, Handing
  <2>3. ~(run[d] = "lost" /\ heir[d] # "none")
    BY <2>1 DEF Engaged, Stranded
  <2> QED
    BY <1>2, <2>2, <2>3
    DEF Control, Serving, ReplaceTurn, Turn, Apart, Active, Developing, Handing
<1>4. Keeping(c)
  BY <1>1, <1>2, Shapes1, ManagerShapes, ControlFacts
  DEF Replace, HeirAt, ReplaceTurn, Turn, Managing, Keeping, Engaged, Stranded, Active,
      Acting, Developing,
      Handing,
      Serving, Passed, Positions, Opens, Promoting, Rolling, Exchanging, Ended, Verifying
<1> QED
  BY <1>2, <1>3, <1>4, ControlStep DEF ReplaceTurn, Turn

LEMMA ControlManaged ==
    ASSUME Typed, Control, NEW a \in Actors, Goes(a), UNCHANGED life
    PROVE  Control'
<1>1. UNCHANGED <<record, due, run, by, heir, server>>
  BY DEF life
<1>2. OneMission' /\ OneRun'
  BY <1>1 DEF Control, OneMission, OneRun, Engaged, Stranded, Active
<1>3. \A b \in Actors : b # a => op'[b] = op[b]
  BY OpFacts DEF Goes
<1>4. op[a].at \in Promoting \cup Rolling /\ Follows(op[a], op'[a])
  BY DEF Goes, Follows
<1>5. ASSUME NEW c \in Candidates
      PROVE  Serving(c)' /\ Positions(c)' /\ Opens(c)'
  <2>1. Serving(c) /\ Positions(c) /\ Opens(c)
    BY DEF Control
  <2>2. Serving(c)' /\ Positions(c)'
    BY <1>1, <2>1 DEF Serving, Passed, Positions, Active
  <2>3. Opens(c)'
    <3>1. CASE a # Runner(c) /\ a # Heir(c)
      BY <1>1, <1>3, <2>1, <3>1, ActorFacts DEF Opens
    <3>2. CASE a = Runner(c)
      <4>1. op'[Heir(c)] = op[Heir(c)]
        BY <1>3, <3>2, ActorFacts
      <4>2. op[a] # IdleManager
        BY <1>4, ManagerShapes DEF Promoting, Rolling, Exchanging
      <4> QED
        BY <1>1, <1>4, <2>1, <3>2, <4>1, <4>2
        DEF Opens, Follows, Promoting, Rolling, Exchanging, Ended
    <3>3. CASE a = Heir(c)
      <4>1. op'[Runner(c)] = op[Runner(c)]
        BY <1>3, <3>3, ActorFacts
      <4>2. op[a] # IdleManager
        BY <1>4, ManagerShapes DEF Promoting, Rolling, Exchanging
      <4> QED
        BY <1>1, <1>4, <2>1, <3>3, <4>1, <4>2
        DEF Opens, Follows, Promoting, Rolling, Exchanging, Ended
    <3> QED
      BY <3>1, <3>2, <3>3
  <2> QED
    BY <2>2, <2>3
<1> QED
  BY <1>2, <1>5 DEF Control

\* A manager works beside everything else.
LEMMA ManagedGoes ==
    ASSUME Typed, NEW a \in Actors, Managed(a) \/ Broken(a)
    PROVE  Goes(a) /\ UNCHANGED <<own, life>>
<1>1. UNCHANGED <<own, life>>
  BY DEF Managed, Broken
<1>2. Work(a) \/ WriteFails(a) \/ Torn(a)
  BY DEF Managed, Broken
<1>3. CASE Checkpoint(a)
  BY <1>1, <1>3, GoesCheckpointed, GoesPinning DEF Turns
<1>4. CASE PublishCheckpoint(a)
  BY <1>1, <1>4, GoesPublish DEF Turns
<1>5. CASE Activate(a)
  BY <1>1, <1>5, GoesActivated, GoesActivating DEF Turns
<1>6. CASE Forward(a)
  BY <1>1, <1>6, GoesForward DEF Turns
<1>7. CASE Record(a)
  BY <1>1, <1>7, GoesRecord DEF Turns
<1>8. CASE Restore(a)
  BY <1>1, <1>8, GoesRestore DEF Turns
<1>9. CASE Unpin(a)
  BY <1>1, <1>9, GoesUnpin DEF Turns
<1>10. CASE Recover(a)
  BY <1>1, <1>10, GoesRecover DEF Turns
<1>11. CASE Plan(a)
  BY <1>1, <1>11, GoesPlan DEF Turns
<1>12. CASE Reset(a)
  BY <1>1, <1>12, GoesReset DEF Turns
<1>13. CASE Move(a)
  BY <1>1, <1>13, GoesMove DEF Turns
<1>14. CASE Unjournal(a)
  BY <1>1, <1>14, GoesUnjournal DEF Turns
<1>15. CASE Reject(a) \/ WriteFails(a) \/ Torn(a)
  BY <1>1, <1>15, GoesError DEF Turns
<1> QED
  BY <1>1, <1>2, <1>3, <1>4, <1>5, <1>6, <1>7, <1>8, <1>9, <1>10, <1>11, <1>12, <1>13, <1>14,
     <1>15 DEF Work

LEMMA ControlWork ==
    ASSUME Typed, Control, NEW a \in Actors, Managed(a) \/ Broken(a)
    PROVE  Typed' /\ Control'
<1>1. Goes(a) /\ UNCHANGED <<own, life>>
  BY ManagedGoes
<1>2. Control'
  BY <1>1, ControlManaged
<1>3. Managers'
  BY <1>1, OpFacts DEF Goes, Typed, Managers
<1>4. ImprovementTypeOK'
  BY <1>1 DEF Goes, own, life, Typed, ImprovementTypeOK
<1> QED
  BY <1>2, <1>3, <1>4 DEF Typed

-----------------------------------------------------------------------------
(* Processes die and are started.                                          *)

\* Who dies leaves an idle manager.
LEMMA DoesProcessDies ==
    ASSUME Typed, NEW p \in Servers, ProcessDies(p)
    PROVE  /\ Typed'
           /\ UNCHANGED <<repo, files, own, record, due, by>>
           /\ server' = server \/ (server = p /\ server' = "none")
           /\ server = p => server' = "none"
           /\ \A c \in Candidates :
                 /\ \/ by[c] = p /\ Active(c) /\ run'[c] = "lost"
                    \/ ~(by[c] = p /\ Active(c)) /\ run'[c] = run[c]
                 /\ op'[Runner(c)] = IF by[c] = p THEN IdleManager ELSE op[Runner(c)]
           /\ \/ \A c \in Candidates : heir'[c] = "none" /\ op'[Heir(c)] = IdleManager
              \/ \A c \in Candidates : heir'[c] = heir[c] /\ op'[Heir(c)] = op[Heir(c)]
<1>1. /\ UNCHANGED <<repo, files, own, record, due, by>>
      /\ server' = server \/ (server = p /\ server' = "none")
      /\ server = p => server' = "none"
  BY DEF ProcessDies
<1>2. run' = [c \in Candidates |-> IF by[c] = p /\ Active(c) THEN "lost" ELSE run[c]]
  BY DEF ProcessDies
<1>3. PICK dead \in {{}, Candidates} :
          /\ heir' = [c \in Candidates |-> IF c \in dead THEN "none" ELSE heir[c]]
          /\ op' = [a \in Actors |->
                IF (a[2] = "run" /\ by[a[1]] = p) \/ (a[2] = "heir" /\ a[1] \in dead)
                THEN IdleManager ELSE op[a]]
  BY DEF ProcessDies
<1>4. ASSUME NEW c \in Candidates
      PROVE  /\ \/ by[c] = p /\ Active(c) /\ run'[c] = "lost"
                \/ ~(by[c] = p /\ Active(c)) /\ run'[c] = run[c]
             /\ op'[Runner(c)] = IF by[c] = p THEN IdleManager ELSE op[Runner(c)]
             /\ heir'[c] = IF c \in dead THEN "none" ELSE heir[c]
             /\ op'[Heir(c)] = IF c \in dead THEN IdleManager ELSE op[Heir(c)]
  BY <1>2, <1>3, ActorFacts
<1>5. Managers'
  BY <1>1, <1>3, ManagerShapes DEF Typed, Managers, files
<1>6. ImprovementTypeOK'
  <2>1. failures' \in 0 .. MaxFailures
    <3>1. failures < MaxFailures /\ failures' = failures + 1
      BY DEF ProcessDies, Failure
    <3> QED
      BY <3>1, TypeFacts, GenerationsAssumption
  <2>2. GenerationsTypeOK'
    BY <1>1, <2>1 DEF Typed, ImprovementTypeOK, GenerationsTypeOK, repo, files
  <2>3. /\ run' \in [Candidates -> Developing \cup Handing \cup {"none", "over", "stuck", "lost"}]
        /\ server' \in Servers \cup {"none"}
    BY <1>1, <1>2 DEF Typed, ImprovementTypeOK
  <2>4. heir' \in [Candidates -> {"none", "boot", "ready", "resume", "verify", "check",
                                 "complete", "accept", "undo", "close", "replace"}]
    BY <1>3 DEF Typed, ImprovementTypeOK
  <2> QED
    BY <1>1, <2>2, <2>3, <2>4 DEF Typed, ImprovementTypeOK, own
<1>7. \/ \A c \in Candidates : heir'[c] = "none" /\ op'[Heir(c)] = IdleManager
      \/ \A c \in Candidates : heir'[c] = heir[c] /\ op'[Heir(c)] = op[Heir(c)]
  <2>1. CASE dead = {}
    BY <1>4, <2>1
  <2>2. CASE dead = Candidates
    BY <1>4, <2>2
  <2> QED
    BY <2>1, <2>2
<1> QED
  BY <1>1, <1>4, <1>5, <1>6, <1>7 DEF Typed

LEMMA ControlProcessDies ==
    ASSUME Typed, Control, NEW p \in Servers, ProcessDies(p)
    PROVE  Control'
<1> USE DoesProcessDies
<1>1. \A c \in Candidates : /\ heir'[c] \in {heir[c], "none"}
                            /\ Active(c)' => Active(c) /\ run'[c] = run[c] /\ by[c] # p
                            /\ record'[c] = record[c] /\ due'[c] = due[c] /\ by'[c] = by[c]
  BY DEF Active, Developing, Handing
<1>2. ASSUME NEW c \in Candidates, Engaged(c)'
      PROVE  Engaged(c) \/ (run[c] = "develop" /\ due[c])
  BY <1>1, <1>2 DEF Engaged, Stranded, Active, Acting, Developing, Handing
<1>3. \A c \in Candidates : run[c] = "develop" => ~due[c]
  BY DEF Control, Positions
<1>4. OneMission'
  BY <1>2, <1>3 DEF Control, OneMission
<1>5. OneRun'
  BY <1>1 DEF Control, OneRun
<1>6. ASSUME NEW c \in Candidates
      PROVE  Serving(c)' /\ Positions(c)' /\ Opens(c)'
  <2>1. Serving(c) /\ Positions(c) /\ Opens(c)
    BY DEF Control
  <2>2. Serving(c)'
    <3>1. Active(c)' => by'[c] = server' \/ (Passed(c)' /\ server' \in {c, "none"})
      BY <1>1, <2>1 DEF Serving, Passed
    <3>2. Active(c) /\ heir[c] # "none" => by[c] = server
      BY <2>1 DEF Serving, Passed, Positions
    <3>3. run'[c] = "lost" /\ heir'[c] # "none" => server' = "none"
      BY <1>1, <2>1, <3>2 DEF Serving
    <3> QED
      BY <1>1, <2>1, <3>1, <3>3, DoesProcessDies DEF Serving
  <2>3. Positions(c)'
    BY <1>1, <2>1 DEF Positions
  <2>4. Opens(c)'
    <3>1. CASE heir'[c] = "none" /\ op'[Heir(c)] = IdleManager
      BY <2>1, <3>1, ManagerShapes DEF Opens, Active, Developing, Handing
    <3>2. CASE heir'[c] = heir[c] /\ op'[Heir(c)] = op[Heir(c)]
      BY <2>1, <3>2, ManagerShapes DEF Opens, Active, Developing, Handing
    <3> QED
      BY <3>1, <3>2
  <2> QED
    BY <2>2, <2>3, <2>4
<1> QED
  BY <1>4, <1>5, <1>6 DEF Control

LEMMA ControlRestart ==
    ASSUME Typed, Control, Restart
    PROVE  Typed' /\ Control'
<1>1. /\ UNCHANGED <<repo, files, op, failures, own, record, due, run, by, heir>>
      /\ server' = "plain" /\ server = "none"
      /\ \A c \in Candidates : heir[c] = "none" /\ ~Active(c)
  BY DEF Restart
<1>2. Typed'
  BY <1>1 DEF Typed, ImprovementTypeOK, GenerationsTypeOK, Managers, repo, files, own, Servers
<1>3. OneMission' /\ OneRun'
  BY <1>1 DEF Control, OneMission, OneRun, Engaged, Stranded, Active
<1>4. ASSUME NEW c \in Candidates
      PROVE  Serving(c)' /\ Positions(c)' /\ Opens(c)'
  <2>1. Serving(c) /\ Positions(c) /\ Opens(c)
    BY DEF Control
  <2>2. Serving(c)'
    BY <1>1, <2>1 DEF Serving, Active
  <2>3. Positions(c)' /\ Opens(c)'
    BY <1>1, <2>1 DEF Positions, Opens
  <2> QED
    BY <2>2, <2>3
<1> QED
  BY <1>2, <1>3, <1>4 DEF Control

LEMMA ControlStarts ==
    ASSUME ImprovementInit
    PROVE  Typed /\ Control
<1> USE DEF ImprovementInit, GenerationsInit
<1>1. NoGenerations \in RepositoryState
  BY Constants DEF NoGenerations, RepositoryState, Generation, Blank
<1>2. IdleManager \in Manager /\ IdleManager.at = "idle"
  BY <1>1, Constants DEF IdleManager, Working, Manager, ManagerShape, Steady, Promoting, Rolling,
              Exchanging, Ended, Rollback, NoJournal, NoCommit
<1>3. Managers
  BY <1>1, <1>2 DEF Managers
<1>4. GenerationsTypeOK
  BY <1>1, Constants, GenerationsAssumption
  DEF GenerationsTypeOK, RepositoryState, Generation, NoJournal
<1>5. ImprovementTypeOK
  BY <1>4, Constants DEF ImprovementTypeOK, Servers
<1>6. OneMission /\ OneRun
  BY DEF OneMission, OneRun, Engaged, Stranded, Active, Acting, Developing, Handing
<1>7. ASSUME NEW c \in Candidates
      PROVE  Serving(c) /\ Positions(c) /\ Opens(c)
  BY <1>2, ActorFacts DEF Serving, Passed, Positions, Opens, Active, Developing, Handing
<1> QED
  BY <1>3, <1>5, <1>6, <1>7 DEF Typed, Control

-----------------------------------------------------------------------------
(* Lines of descent.                                                       *)

LEMMA LineOfGens ==
    ASSUME NEW s \in RepositoryState, NEW g \in Nat
    PROVE  LineOf(s, g) =
             {h \in Slots : \A S \in SUBSET Slots :
                (\A k \in S : s.gens[k].parent \in S \cup {0}) /\ g \in S \cup {0} => h \in S}
  BY DEF LineOf, Line, Ancestral, RepositoryState

LEMMA LineLeast ==
    ASSUME NEW s \in RepositoryState, NEW g \in Nat, NEW S \in SUBSET Slots,
           \A k \in S : s.gens[k].parent \in S \cup {0}, g \in S \cup {0},
           NEW x \in LineOf(s, g)
    PROVE  x \in S
  BY LineOfGens

LEMMA LineAll ==
    ASSUME NEW s \in RepositoryState, NEW g \in Nat, NEW x \in Slots,
           ASSUME NEW S \in SUBSET Slots,
                  \A k \in S : s.gens[k].parent \in S \cup {0}, g \in S \cup {0}
           PROVE  x \in S
    PROVE  x \in LineOf(s, g)
  BY LineOfGens

\* The line of the active generation is the line.
LEMMA LineOfActive ==
    ASSUME NEW s \in RepositoryState
    PROVE  Line(s) = LineOf(s, s.active)
<1>1. [s EXCEPT !.active = s.active] = s
  BY DEF RepositoryState
<1> QED
  BY <1>1 DEF LineOf

\* A line depends on the generations only.
LEMMA LineOfSame ==
    ASSUME NEW s \in RepositoryState, NEW t \in RepositoryState, s.gens = t.gens, NEW g \in Nat
    PROVE  LineOf(s, g) = LineOf(t, g)
<1>1. LineOf(s, g) =
        {h \in Slots : \A S \in SUBSET Slots :
           (\A k \in S : s.gens[k].parent \in S \cup {0}) /\ g \in S \cup {0} => h \in S}
  BY LineOfGens
<1>2. LineOf(t, g) =
        {h \in Slots : \A S \in SUBSET Slots :
           (\A k \in S : t.gens[k].parent \in S \cup {0}) /\ g \in S \cup {0} => h \in S}
  BY LineOfGens
<1> QED
  BY <1>1, <1>2

LEMMA LineIn ==
    ASSUME NEW s \in RepositoryState, NEW g \in Nat
    PROVE  LineOf(s, g) \in SUBSET Slots
  BY LineOfGens

LEMMA LineStarts ==
    ASSUME NEW s \in RepositoryState, NEW g \in Slots
    PROVE  g \in LineOf(s, g)
<1>1. g \in Nat /\ g # 0
  BY Constants
<1> QED
  BY <1>1, LineOfGens

\* A line goes on along the line of each of its members.
LEMMA LineGoesOn ==
    ASSUME NEW s \in RepositoryState, NEW g \in Nat, NEW h \in LineOf(s, g)
    PROVE  LineOf(s, h) \subseteq LineOf(s, g)
<1>1. h \in Slots /\ h \in Nat /\ h # 0
  BY LineIn, Constants
<1>2. ASSUME NEW x \in LineOf(s, h)
      PROVE  x \in LineOf(s, g)
  BY <1>1, <1>2, LineOfGens
<1> QED
  BY <1>2

\* It also has the parent of each of its members.
LEMMA LineHasParents ==
    ASSUME NEW s \in RepositoryState, NEW g \in Nat, NEW h \in LineOf(s, g)
    PROVE  s.gens[h].parent \in LineOf(s, g) \cup {0}
<1>1. h \in Slots
  BY LineIn
<1>2. s.gens[h].parent \in 0 .. LastSlot
  BY <1>1 DEF RepositoryState, Generation
<1>3. CASE s.gens[h].parent # 0
  <2>1. s.gens[h].parent \in Slots
    BY <1>2, <1>3, Constants
  <2>2. ASSUME NEW S \in SUBSET Slots, \A k \in S : s.gens[k].parent \in S \cup {0},
               g \in S \cup {0}
        PROVE  s.gens[h].parent \in S
    <3>1. h \in S
      BY <2>2, LineOfGens
    <3> QED
      BY <1>3, <2>2, <3>1
  <2> QED
    BY <2>1, <2>2, LineOfGens
<1> QED
  BY <1>3

\* The parents of generations are older, and so is all of their lines.
Descending(s) == \A g \in Slots : s.gens[g].parent < g
LEMMA LineDescends ==
    ASSUME NEW s \in RepositoryState, Descending(s), NEW g \in Nat, NEW h \in LineOf(s, g)
    PROVE  h <= g
<1> DEFINE S == {k \in Slots : k <= g}
<1>1. \A k \in Slots : k \in Nat /\ s.gens[k].parent \in 0 .. LastSlot
  BY Constants DEF RepositoryState, Generation
<1>2. \A k \in S : s.gens[k].parent \in S \cup {0}
  <2>1. ASSUME NEW k \in S, s.gens[k].parent # 0
        PROVE  s.gens[k].parent \in S
    <3>1. s.gens[k].parent \in Slots /\ k \in Nat /\ k <= g
      BY <1>1, <2>1, Constants
    <3>2. s.gens[k].parent < k /\ s.gens[k].parent \in Nat
      BY <3>1, Constants DEF Descending
    <3> QED
      BY <3>1, <3>2
  <2> QED
    BY <2>1
<1>3. CASE g \in S \cup {0}
  <2>1. h \in S
    BY <1>2, <1>3, LineOfGens
  <2> QED
    BY <2>1
<1>4. CASE g \notin S \cup {0}
  <2>1. h \in Slots /\ h \in 1 .. LastSlot
    BY LineIn DEF Slots
  <2>2. g \notin Slots
    BY <1>4
  <2>3. g > LastSlot
    BY <1>4, <2>2, Constants DEF Slots
  <2> QED
    BY <2>1, <2>3, Constants
<1> QED
  BY <1>3, <1>4

-----------------------------------------------------------------------------
(* A generation is added.                                                  *)

\* Nothing descends from a slot that is free.
Free(s, g) == g \in Slots /\ s.gens[g] = Blank /\ \A h \in Slots : s.gens[h].parent # g

LEMMA LineKept ==
    ASSUME NEW s \in RepositoryState, NEW g, Free(s, g), NEW c \in Commits,
           NEW h \in Nat, h # g
    PROVE  LineOf(With(s, g, c), h) = LineOf(s, h)
<1> DEFINE t == With(s, g, c)
<1>0. g \in Slots /\ g # 0 /\ g \in Nat
  BY Constants DEF Free
<1>1. t \in RepositoryState /\ t.gens[g].parent = s.active
      /\ \A k \in Slots : k # g => t.gens[k] = s.gens[k]
  <2>1. t \in RepositoryState
    BY <1>0, WithShape
  <2>2. t.gens[g] = [commit |-> c, parent |-> s.active]
        /\ \A k \in Slots : k # g => t.gens[k] = s.gens[k]
    BY <1>0, WithFacts
  <2> QED
    BY <2>1, <2>2
<1> HIDE DEF t
<1>2. ASSUME NEW x \in LineOf(s, h)
      PROVE  x \in LineOf(t, h)
  <2>1. ASSUME NEW S \in SUBSET Slots, \A k \in S : t.gens[k].parent \in S \cup {0},
               h \in S \cup {0}
        PROVE  x \in S
    <3> DEFINE T == S \ {g}
    <3>1. \A k \in T : s.gens[k].parent \in T \cup {0}
      BY <1>1, <2>1 DEF Free
    <3>2. h \in T \cup {0}
      BY <2>1
    <3>3. x \in T
      BY <3>1, <3>2, LineLeast
    <3> QED
      BY <3>3
  <2> QED
    BY <1>1, <2>1, LineIn, LineOfGens
<1>3. ASSUME NEW x \in LineOf(t, h)
      PROVE  x \in LineOf(s, h)
  <2>1. ASSUME NEW S \in SUBSET Slots, \A k \in S : s.gens[k].parent \in S \cup {0},
               h \in S \cup {0}
        PROVE  x \in S
    <3> DEFINE T == S \ {g}
    <3>1. \A k \in T : t.gens[k].parent \in T \cup {0}
      BY <1>1, <2>1 DEF Free
    <3>2. h \in T \cup {0}
      BY <2>1
    <3>3. x \in T
      BY <1>1, <3>1, <3>2, LineLeast
    <3> QED
      BY <3>3
  <2> QED
    BY <1>1, <2>1, LineIn, LineOfGens
<1> QED
  BY <1>2, <1>3 DEF t

\* The line of the new generation is its own and the line before.
LEMMA LineGrows ==
    ASSUME NEW s \in RepositoryState, NEW g, Free(s, g), NEW c \in Commits, s.active # g
    PROVE  Line(With(s, g, c)) = {g} \cup Line(s)
<1> DEFINE t == With(s, g, c)
<1>0. g \in Slots /\ g # 0 /\ g \in Nat /\ s.active \in Nat
  BY Constants DEF Free, RepositoryState
<1>1. t \in RepositoryState /\ t.active = g /\ t.gens[g].parent = s.active
  <2>1. t \in RepositoryState /\ t.active = g
    BY <1>0, WithShape
  <2>2. t.gens[g] = [commit |-> c, parent |-> s.active]
    BY <1>0, WithFacts
  <2> QED
    BY <2>1, <2>2
<1>2. LineOf(t, s.active) = LineOf(s, s.active)
  BY <1>0, LineKept
<1> HIDE DEF t
<1>3. Line(t) = LineOf(t, g) /\ Line(s) = LineOf(s, s.active)
  BY <1>1, LineOfActive
<1>4. g \in LineOf(t, g)
  BY <1>0, <1>1, LineStarts
<1>5. LineOf(t, s.active) \subseteq LineOf(t, g)
  <2>1. CASE s.active = 0
    <3>1. ASSUME NEW x \in LineOf(t, 0)
          PROVE  FALSE
      <4>1. (\A k \in {} : t.gens[k].parent \in {} \cup {0}) /\ 0 \in {} \cup {0}
        OBVIOUS
      <4>2. x \in {}
        BY <1>1, <4>1, LineLeast
      <4> QED
        BY <4>2
    <3> QED
      BY <2>1, <3>1
  <2>2. CASE s.active # 0
    <3>1. s.active \in LineOf(t, g)
      BY <1>0, <1>1, <1>4, <2>2, LineHasParents
    <3> QED
      BY <1>0, <1>1, <3>1, LineGoesOn
  <2> QED
    BY <2>1, <2>2
<1>6. ASSUME NEW x \in LineOf(t, g)
      PROVE  x \in {g} \cup LineOf(t, s.active)
  <2> DEFINE S == {g} \cup LineOf(t, s.active)
  <2>1. S \in SUBSET Slots
    BY <1>0, <1>1, LineIn
  <2>2. \A k \in S : t.gens[k].parent \in S \cup {0}
    <3>1. t.gens[g].parent \in S \cup {0}
      <4>1. CASE s.active = 0
        BY <1>1, <4>1
      <4>2. CASE s.active # 0
        <5>1. s.active \in Slots
          BY <1>0, <4>2, Constants DEF RepositoryState
        <5> QED
          BY <1>1, <5>1, LineStarts
      <4> QED
        BY <4>1, <4>2
    <3>2. ASSUME NEW k \in LineOf(t, s.active)
          PROVE  t.gens[k].parent \in S \cup {0}
      BY <1>0, <1>1, LineHasParents
    <3> QED
      BY <3>1, <3>2
  <2> HIDE DEF S
  <2>3. g \in S \cup {0}
    BY DEF S
  <2>4. x \in S
    BY <1>0, <1>1, <2>1, <2>2, <2>3, LineOfGens
  <2> QED
    BY <2>4 DEF S
<1> QED
  BY <1>2, <1>3, <1>4, <1>5, <1>6 DEF t

-----------------------------------------------------------------------------
(* What is on disk, while runs and successors go on.                       *)

LEMMA LeadsKept ==
    ASSUME Still, NEW p, Leads(p)
    PROVE  Leads(p)'
  BY DEF Leads, Still, Names

LEMMA LiesFrame ==
    ASSUME NEW c \in Candidates, NEW d \in Candidates, d # c, Apart(c), Still, Lies(d),
           Positions(d)
    PROVE  Lies(d)'
<1>1. /\ run'[d] = run[d] \/ (run[d] = "develop" /\ run'[d] = "lost")
      /\ heir'[d] = heir[d] /\ record'[d] = record[d]
      /\ op'[Runner(d)] = op[Runner(d)] /\ op'[Heir(d)] = op[Heir(d)]
  BY DEF Apart
<1>2. head' = head /\ pins' = pins /\ saved' = saved /\ journal' = journal
  BY DEF Still
<1>3. Stands(d)' => Fresh'
  BY <1>1, <1>2 DEF Lies, Stands, Fresh, Foreign, Names, Positions, Verifying
<1>4. Promotes(d)'
  BY <1>1, <1>2 DEF Lies, Promotes
<1>5. Unrecorded(d)'
  BY <1>1, <1>2 DEF Lies, Unrecorded
<1>6. RollsAlone(d)'
  BY <1>1, <1>2, LeadsKept DEF Lies, RollsAlone, RollsBack
<1>7. Boots(d)'
  BY <1>1, <1>2 DEF Lies, Boots, Foreign, Names
<1>8. Resumes(d)'
  BY <1>1, <1>2 DEF Lies, Resumes
<1> QED
  BY <1>3, <1>4, <1>5, <1>6, <1>7, <1>8 DEF Lies

LEMMA SharedFrame ==
    ASSUME Still, RecordsSound, JournalSound, PinsHold
    PROVE  RecordsSound' /\ JournalSound' /\ PinsHold'
  BY LeadsKept DEF Still, RecordsSound, JournalSound, PinsHold

LEMMA DiskStep ==
    ASSUME Control, Disk, NEW c \in Candidates, Apart(c), Still, Lies(c)'
    PROVE  Disk'
  BY LiesFrame, SharedFrame DEF Control, Disk

LEMMA DiskStartRun ==
    ASSUME Typed, Control, Disk, NEW c \in Candidates, StartRun(c)
    PROVE  Disk'
<1>1. Serving(c) /\ Positions(c) /\ Opens(c) /\ Lies(c)
  BY DEF Control, Disk
<1>2. StartRunTurn(c)
  BY <1>1, DoesStartRun
<1>3. Still /\ Apart(c) /\ head' = head /\ pins' = pins /\ saved' = saved /\ journal' = journal
  BY <1>2 DEF StartRunTurn, Turn, Still
<1> USE DEF StartRun, IsAt, HeirAt, OpAt, StartRunTurn, Turn, Managing
<1>4. Stands(c)' => Fresh'
  BY <1>1, <1>2, <1>3, ControlFacts, Shapes1, ManagerShapes
  DEF Lies, Stands, Fresh, Foreign, Names, Verifying, Positions, Developing, Handing, Opens,
      Ended, Promoting, OpenPromotion
<1>5. Promotes(c)' /\ Unrecorded(c)'
  BY <1>1, <1>2, <1>3, ControlFacts, Shapes1, ManagerShapes
  DEF Lies, Promotes, Unrecorded
<1>6. RollsAlone(c)'
  BY <1>1, <1>2, <1>3, LeadsKept, Shapes1, ManagerShapes
  DEF Lies, Promotes, RollsAlone, RollsBack, Rolling, Exchanging, Positions, Opens
<1>7. Boots(c)' /\ Resumes(c)'
  BY <1>1, <1>2, <1>3, Shapes1, ManagerShapes, ControlFacts
  DEF Lies, Stands, Fresh, Boots, Resumes, Foreign, Names, Rolling, Exchanging, Positions, Opens,
      Ended, Promoting, Serving, Passed
<1> QED
  BY <1>3, <1>4, <1>5, <1>6, <1>7, DiskStep DEF Lies

LEMMA DiskEvaluated ==
    ASSUME Typed, Control, Disk, NEW c \in Candidates, Evaluated(c)
    PROVE  Disk'
<1>1. Serving(c) /\ Positions(c) /\ Opens(c) /\ Lies(c)
  BY DEF Control, Disk
<1>2. EvaluatedTurn(c)
  BY <1>1, DoesEvaluated
<1>3. Still /\ Apart(c) /\ head' = head /\ pins' = pins /\ saved' = saved /\ journal' = journal
  BY <1>2 DEF EvaluatedTurn, Turn, Still
<1> USE DEF Evaluated, IsAt, HeirAt, OpAt, EvaluatedTurn, Turn, Managing
<1>4. Stands(c)' => Fresh'
  BY <1>1, <1>2, <1>3, ControlFacts, Shapes1, ManagerShapes
  DEF Lies, Stands, Fresh, Foreign, Names, Verifying, Positions, Developing, Handing, Opens,
      Ended, Promoting, OpenPromotion
<1>5. Promotes(c)' /\ Unrecorded(c)'
  BY <1>1, <1>2, <1>3, ControlFacts, Shapes1, ManagerShapes
  DEF Lies, Promotes, Unrecorded
<1>6. RollsAlone(c)'
  BY <1>1, <1>2, <1>3, LeadsKept, Shapes1, ManagerShapes
  DEF Lies, Promotes, RollsAlone, RollsBack, Rolling, Exchanging, Positions, Opens
<1>7. Boots(c)' /\ Resumes(c)'
  BY <1>1, <1>2, <1>3, Shapes1, ManagerShapes, ControlFacts
  DEF Lies, Stands, Fresh, Boots, Resumes, Foreign, Names, Rolling, Exchanging, Positions, Opens,
      Ended, Promoting, Serving, Passed
<1> QED
  BY <1>3, <1>4, <1>5, <1>6, <1>7, DiskStep DEF Lies

LEMMA DiskAbandon ==
    ASSUME Typed, Control, Disk, NEW c \in Candidates, Abandon(c)
    PROVE  Disk'
<1>1. Serving(c) /\ Positions(c) /\ Opens(c) /\ Lies(c)
  BY DEF Control, Disk
<1>2. AbandonTurn(c)
  BY <1>1, DoesAbandon
<1>3. Still /\ Apart(c) /\ head' = head /\ pins' = pins /\ saved' = saved /\ journal' = journal
  BY <1>2 DEF AbandonTurn, Turn, Still
<1> USE DEF Abandon, IsAt, HeirAt, OpAt, AbandonTurn, Turn, Managing
<1>4. Stands(c)' => Fresh'
  BY <1>1, <1>2, <1>3, ControlFacts, Shapes1, ManagerShapes
  DEF Lies, Stands, Fresh, Foreign, Names, Verifying, Positions, Developing, Handing, Opens,
      Ended, Promoting, OpenPromotion
<1>5. Promotes(c)' /\ Unrecorded(c)'
  BY <1>1, <1>2, <1>3, ControlFacts, Shapes1, ManagerShapes
  DEF Lies, Promotes, Unrecorded
<1>6. RollsAlone(c)'
  BY <1>1, <1>2, <1>3, LeadsKept, Shapes1, ManagerShapes
  DEF Lies, Promotes, RollsAlone, RollsBack, Rolling, Exchanging, Positions, Opens
<1>7. Boots(c)' /\ Resumes(c)'
  BY <1>1, <1>2, <1>3, Shapes1, ManagerShapes, ControlFacts
  DEF Lies, Stands, Fresh, Boots, Resumes, Foreign, Names, Rolling, Exchanging, Positions, Opens,
      Ended, Promoting, Serving, Passed
<1> QED
  BY <1>3, <1>4, <1>5, <1>6, <1>7, DiskStep DEF Lies

LEMMA DiskPublishPromotion ==
    ASSUME Typed, Control, Disk, NEW c \in Candidates, PublishPromotion(c)
    PROVE  Disk'
<1>1. Serving(c) /\ Positions(c) /\ Opens(c) /\ Lies(c)
  BY DEF Control, Disk
<1>2. PublishPromotionTurn(c)
  BY <1>1, DoesPublishPromotion
<1>3. Still /\ Apart(c) /\ head' = head /\ pins' = pins /\ saved' = saved /\ journal' = journal
  BY <1>2 DEF PublishPromotionTurn, Turn, Still
<1> USE DEF PublishPromotion, IsAt, HeirAt, OpAt, PublishPromotionTurn, Turn, Managing
<1>4. Stands(c)' => Fresh'
  BY <1>1, <1>2, <1>3, ControlFacts, Shapes1, ManagerShapes
  DEF Lies, Stands, Fresh, Foreign, Names, Verifying, Positions, Developing, Handing, Opens,
      Ended, Promoting, OpenPromotion
<1>5. Promotes(c)' /\ Unrecorded(c)'
  BY <1>1, <1>2, <1>3, ControlFacts, Shapes1, ManagerShapes
  DEF Lies, Promotes, Unrecorded
<1>6. RollsAlone(c)'
  BY <1>1, <1>2, <1>3, LeadsKept, Shapes1, ManagerShapes
  DEF Lies, Promotes, RollsAlone, RollsBack, Rolling, Exchanging, Positions, Opens
<1>7. Boots(c)' /\ Resumes(c)'
  BY <1>1, <1>2, <1>3, Shapes1, ManagerShapes, ControlFacts
  DEF Lies, Stands, Fresh, Boots, Resumes, Foreign, Names, Rolling, Exchanging, Positions, Opens,
      Ended, Promoting, Serving, Passed
<1> QED
  BY <1>3, <1>4, <1>5, <1>6, <1>7, DiskStep DEF Lies

LEMMA DiskBuildEnds ==
    ASSUME Typed, Control, Disk, NEW c \in Candidates, BuildEnds(c)
    PROVE  Disk'
<1>1. Serving(c) /\ Positions(c) /\ Opens(c) /\ Lies(c)
  BY DEF Control, Disk
<1>2. /\ BuildEndsTurn(c)
      /\ run'[c] \in {"announce", "over"}
  BY <1>1, DoesBuildEnds
<1>3. Still /\ Apart(c) /\ head' = head /\ pins' = pins /\ saved' = saved /\ journal' = journal
  BY <1>2 DEF BuildEndsTurn, Turn, Still
<1> USE DEF BuildEnds, IsAt, HeirAt, OpAt, BuildEndsTurn, Turn, Managing
<1>4. Stands(c)' => Fresh'
  BY <1>1, <1>2, <1>3, ControlFacts, Shapes1, ManagerShapes
  DEF Lies, Stands, Fresh, Foreign, Names, Verifying, Positions, Developing, Handing, Opens,
      Ended, Promoting, OpenPromotion
<1>5. Promotes(c)' /\ Unrecorded(c)'
  BY <1>1, <1>2, <1>3, ControlFacts, Shapes1, ManagerShapes
  DEF Lies, Promotes, Unrecorded
<1>6. RollsAlone(c)'
  BY <1>1, <1>2, <1>3, LeadsKept, Shapes1, ManagerShapes
  DEF Lies, Promotes, RollsAlone, RollsBack, Rolling, Exchanging, Positions, Opens
<1>7. Boots(c)' /\ Resumes(c)'
  BY <1>1, <1>2, <1>3, Shapes1, ManagerShapes, ControlFacts
  DEF Lies, Stands, Fresh, Boots, Resumes, Foreign, Names, Rolling, Exchanging, Positions, Opens,
      Ended, Promoting, Serving, Passed
<1> QED
  BY <1>3, <1>4, <1>5, <1>6, <1>7, DiskStep DEF Lies

LEMMA DiskAnnounce ==
    ASSUME Typed, Control, Disk, NEW c \in Candidates, Announce(c)
    PROVE  Disk'
<1>1. Serving(c) /\ Positions(c) /\ Opens(c) /\ Lies(c)
  BY DEF Control, Disk
<1>2. AnnounceTurn(c)
  BY <1>1, DoesAnnounce
<1>3. Still /\ Apart(c) /\ head' = head /\ pins' = pins /\ saved' = saved /\ journal' = journal
  BY <1>2 DEF AnnounceTurn, Turn, Still
<1> USE DEF Announce, IsAt, HeirAt, OpAt, AnnounceTurn, Turn, Managing
<1>4. Stands(c)' => Fresh'
  BY <1>1, <1>2, <1>3, ControlFacts, Shapes1, ManagerShapes
  DEF Lies, Stands, Fresh, Foreign, Names, Verifying, Positions, Developing, Handing, Opens,
      Ended, Promoting, OpenPromotion
<1>5. Promotes(c)' /\ Unrecorded(c)'
  BY <1>1, <1>2, <1>3, ControlFacts, Shapes1, ManagerShapes
  DEF Lies, Promotes, Unrecorded
<1>6. RollsAlone(c)'
  BY <1>1, <1>2, <1>3, LeadsKept, Shapes1, ManagerShapes
  DEF Lies, Promotes, RollsAlone, RollsBack, Rolling, Exchanging, Positions, Opens
<1>7. Boots(c)' /\ Resumes(c)'
  BY <1>1, <1>2, <1>3, Shapes1, ManagerShapes, ControlFacts
  DEF Lies, Stands, Fresh, Boots, Resumes, Foreign, Names, Rolling, Exchanging, Positions, Opens,
      Ended, Promoting, Serving, Passed
<1> QED
  BY <1>3, <1>4, <1>5, <1>6, <1>7, DiskStep DEF Lies

LEMMA DiskLaunch ==
    ASSUME Typed, Control, Disk, NEW c \in Candidates, Launch(c)
    PROVE  Disk'
<1>1. Serving(c) /\ Positions(c) /\ Opens(c) /\ Lies(c)
  BY DEF Control, Disk
<1>2. LaunchTurn(c)
  BY <1>1, DoesLaunch
<1>3. Still /\ Apart(c) /\ head' = head /\ pins' = pins /\ saved' = saved /\ journal' = journal
  BY <1>2 DEF LaunchTurn, Turn, Still
<1> USE DEF Launch, IsAt, HeirAt, OpAt, LaunchTurn, Turn, Managing
<1>4. Stands(c)' => Fresh'
  BY <1>1, <1>2, <1>3, ControlFacts, Shapes1, ManagerShapes
  DEF Lies, Stands, Fresh, Foreign, Names, Verifying, Positions, Developing, Handing, Opens,
      Ended, Promoting, OpenPromotion
<1>5. Promotes(c)' /\ Unrecorded(c)'
  BY <1>1, <1>2, <1>3, ControlFacts, Shapes1, ManagerShapes
  DEF Lies, Promotes, Unrecorded
<1>6. RollsAlone(c)'
  BY <1>1, <1>2, <1>3, LeadsKept, Shapes1, ManagerShapes
  DEF Lies, Promotes, RollsAlone, RollsBack, Rolling, Exchanging, Positions, Opens
<1>7. Boots(c)' /\ Resumes(c)'
  BY <1>1, <1>2, <1>3, Shapes1, ManagerShapes, ControlFacts
  DEF Lies, Stands, Fresh, Boots, Resumes, Foreign, Names, Rolling, Exchanging, Positions, Opens,
      Ended, Promoting, Serving, Passed
<1> QED
  BY <1>3, <1>4, <1>5, <1>6, <1>7, DiskStep DEF Lies

LEMMA DiskLaunched ==
    ASSUME Typed, Control, Disk, NEW c \in Candidates, Launched(c)
    PROVE  Disk'
<1>1. Serving(c) /\ Positions(c) /\ Opens(c) /\ Lies(c)
  BY DEF Control, Disk
<1>2. LaunchedTurn(c)
  BY <1>1, DoesLaunched
<1>3. Still /\ Apart(c) /\ head' = head /\ pins' = pins /\ saved' = saved /\ journal' = journal
  BY <1>2 DEF LaunchedTurn, Turn, Still
<1> USE DEF Launched, IsAt, HeirAt, OpAt, LaunchedTurn, Turn, Managing
<1>4. Stands(c)' => Fresh'
  BY <1>1, <1>2, <1>3, ControlFacts, Shapes1, ManagerShapes
  DEF Lies, Stands, Fresh, Foreign, Names, Verifying, Positions, Developing, Handing, Opens,
      Ended, Promoting, OpenPromotion
<1>5. Promotes(c)' /\ Unrecorded(c)'
  BY <1>1, <1>2, <1>3, ControlFacts, Shapes1, ManagerShapes
  DEF Lies, Promotes, Unrecorded
<1>6. RollsAlone(c)'
  BY <1>1, <1>2, <1>3, LeadsKept, Shapes1, ManagerShapes
  DEF Lies, Promotes, RollsAlone, RollsBack, Rolling, Exchanging, Positions, Opens
<1>7. Boots(c)' /\ Resumes(c)'
  BY <1>1, <1>2, <1>3, Shapes1, ManagerShapes, ControlFacts
  DEF Lies, Stands, Fresh, Boots, Resumes, Foreign, Names, Rolling, Exchanging, Positions, Opens,
      Ended, Promoting, Serving, Passed
<1> QED
  BY <1>3, <1>4, <1>5, <1>6, <1>7, DiskStep DEF Lies

LEMMA DiskLaunchFails ==
    ASSUME Typed, Control, Disk, NEW c \in Candidates, LaunchFails(c)
    PROVE  Disk'
<1>1. Serving(c) /\ Positions(c) /\ Opens(c) /\ Lies(c)
  BY DEF Control, Disk
<1>2. LaunchFailsTurn(c)
  BY <1>1, DoesLaunchFails
<1>3. Still /\ Apart(c) /\ head' = head /\ pins' = pins /\ saved' = saved /\ journal' = journal
  BY <1>2 DEF LaunchFailsTurn, Turn, Still
<1> USE DEF LaunchFails, IsAt, HeirAt, OpAt, LaunchFailsTurn, Turn, Managing
<1>4. Stands(c)' => Fresh'
  BY <1>1, <1>2, <1>3, ControlFacts, Shapes1, ManagerShapes
  DEF Lies, Stands, Fresh, Foreign, Names, Verifying, Positions, Developing, Handing, Opens,
      Ended, Promoting, OpenPromotion
<1>5. Promotes(c)' /\ Unrecorded(c)'
  BY <1>1, <1>2, <1>3, ControlFacts, Shapes1, ManagerShapes
  DEF Lies, Promotes, Unrecorded
<1>6. RollsAlone(c)'
  BY <1>1, <1>2, <1>3, LeadsKept, Shapes1, ManagerShapes
  DEF Lies, Promotes, RollsAlone, RollsBack, Rolling, Exchanging, Positions, Opens
<1>7. Boots(c)' /\ Resumes(c)'
  BY <1>1, <1>2, <1>3, Shapes1, ManagerShapes, ControlFacts
  DEF Lies, Stands, Fresh, Boots, Resumes, Foreign, Names, Rolling, Exchanging, Positions, Opens,
      Ended, Promoting, Serving, Passed
<1> QED
  BY <1>3, <1>4, <1>5, <1>6, <1>7, DiskStep DEF Lies

LEMMA DiskReply ==
    ASSUME Typed, Control, Disk, NEW c \in Candidates, Reply(c)
    PROVE  Disk'
<1>1. Serving(c) /\ Positions(c) /\ Opens(c) /\ Lies(c)
  BY DEF Control, Disk
<1>2. ReplyTurn(c)
  BY <1>1, DoesReply
<1>3. Still /\ Apart(c) /\ head' = head /\ pins' = pins /\ saved' = saved /\ journal' = journal
  BY <1>2 DEF ReplyTurn, Turn, Still
<1> USE DEF Reply, IsAt, HeirAt, OpAt, ReplyTurn, Turn, Managing
<1>4. Stands(c)' => Fresh'
  BY <1>1, <1>2, <1>3, ControlFacts, Shapes1, ManagerShapes
  DEF Lies, Stands, Fresh, Foreign, Names, Verifying, Positions, Developing, Handing, Opens,
      Ended, Promoting, OpenPromotion
<1>5. Promotes(c)' /\ Unrecorded(c)'
  BY <1>1, <1>2, <1>3, ControlFacts, Shapes1, ManagerShapes
  DEF Lies, Promotes, Unrecorded
<1>6. RollsAlone(c)'
  BY <1>1, <1>2, <1>3, LeadsKept, Shapes1, ManagerShapes
  DEF Lies, Promotes, RollsAlone, RollsBack, Rolling, Exchanging, Positions, Opens
<1>7. Boots(c)' /\ Resumes(c)'
  BY <1>1, <1>2, <1>3, Shapes1, ManagerShapes, ControlFacts
  DEF Lies, Stands, Fresh, Boots, Resumes, Foreign, Names, Rolling, Exchanging, Positions, Opens,
      Ended, Promoting, Serving, Passed
<1> QED
  BY <1>3, <1>4, <1>5, <1>6, <1>7, DiskStep DEF Lies

LEMMA DiskRelease ==
    ASSUME Typed, Control, Disk, NEW c \in Candidates, Release(c)
    PROVE  Disk'
<1>1. Serving(c) /\ Positions(c) /\ Opens(c) /\ Lies(c)
  BY DEF Control, Disk
<1>2. ReleaseTurn(c)
  BY <1>1, DoesRelease
<1>3. Still /\ Apart(c) /\ head' = head /\ pins' = pins /\ saved' = saved /\ journal' = journal
  BY <1>2 DEF ReleaseTurn, Turn, Still
<1> USE DEF Release, IsAt, HeirAt, OpAt, ReleaseTurn, Turn, Managing
<1>4. Stands(c)' => Fresh'
  BY <1>1, <1>2, <1>3, ControlFacts, Shapes1, ManagerShapes
  DEF Lies, Stands, Fresh, Foreign, Names, Verifying, Positions, Developing, Handing, Opens,
      Ended, Promoting, OpenPromotion
<1>5. Promotes(c)' /\ Unrecorded(c)'
  BY <1>1, <1>2, <1>3, ControlFacts, Shapes1, ManagerShapes
  DEF Lies, Promotes, Unrecorded
<1>6. RollsAlone(c)'
  BY <1>1, <1>2, <1>3, LeadsKept, Shapes1, ManagerShapes
  DEF Lies, Promotes, RollsAlone, RollsBack, Rolling, Exchanging, Positions, Opens
<1>7. Boots(c)' /\ Resumes(c)'
  BY <1>1, <1>2, <1>3, Shapes1, ManagerShapes, ControlFacts
  DEF Lies, Stands, Fresh, Boots, Resumes, Foreign, Names, Rolling, Exchanging, Positions, Opens,
      Ended, Promoting, Serving, Passed
<1> QED
  BY <1>3, <1>4, <1>5, <1>6, <1>7, DiskStep DEF Lies

LEMMA DiskReleaseFails ==
    ASSUME Typed, Control, Disk, NEW c \in Candidates, ReleaseFails(c)
    PROVE  Disk'
<1>1. Serving(c) /\ Positions(c) /\ Opens(c) /\ Lies(c)
  BY DEF Control, Disk
<1>2. ReleaseFailsTurn(c)
  BY <1>1, DoesReleaseFails
<1>3. Still /\ Apart(c) /\ head' = head /\ pins' = pins /\ saved' = saved /\ journal' = journal
  BY <1>2 DEF ReleaseFailsTurn, Turn, Still
<1> USE DEF ReleaseFails, IsAt, HeirAt, OpAt, ReleaseFailsTurn, Turn, Managing
<1>4. Stands(c)' => Fresh'
  BY <1>1, <1>2, <1>3, ControlFacts, Shapes1, ManagerShapes
  DEF Lies, Stands, Fresh, Foreign, Names, Verifying, Positions, Developing, Handing, Opens,
      Ended, Promoting, OpenPromotion
<1>5. Promotes(c)' /\ Unrecorded(c)'
  BY <1>1, <1>2, <1>3, ControlFacts, Shapes1, ManagerShapes
  DEF Lies, Promotes, Unrecorded
<1>6. RollsAlone(c)'
  BY <1>1, <1>2, <1>3, LeadsKept, Shapes1, ManagerShapes
  DEF Lies, Promotes, RollsAlone, RollsBack, Rolling, Exchanging, Positions, Opens
<1>7. Boots(c)' /\ Resumes(c)'
  BY <1>1, <1>2, <1>3, Shapes1, ManagerShapes, ControlFacts
  DEF Lies, Stands, Fresh, Boots, Resumes, Foreign, Names, Rolling, Exchanging, Positions, Opens,
      Ended, Promoting, Serving, Passed
<1> QED
  BY <1>3, <1>4, <1>5, <1>6, <1>7, DiskStep DEF Lies

LEMMA DiskWaitFails ==
    ASSUME Typed, Control, Disk, NEW c \in Candidates, WaitFails(c)
    PROVE  Disk'
<1>1. Serving(c) /\ Positions(c) /\ Opens(c) /\ Lies(c)
  BY DEF Control, Disk
<1>2. WaitFailsTurn(c)
  BY <1>1, DoesWaitFails
<1>3. Still /\ Apart(c) /\ head' = head /\ pins' = pins /\ saved' = saved /\ journal' = journal
  BY <1>2 DEF WaitFailsTurn, Turn, Still
<1> USE DEF WaitFails, IsAt, HeirAt, OpAt, WaitFailsTurn, Turn, Managing
<1>4. Stands(c)' => Fresh'
  BY <1>1, <1>2, <1>3, ControlFacts, Shapes1, ManagerShapes
  DEF Lies, Stands, Fresh, Foreign, Names, Verifying, Positions, Developing, Handing, Opens,
      Ended, Promoting, OpenPromotion
<1>5. Promotes(c)' /\ Unrecorded(c)'
  BY <1>1, <1>2, <1>3, ControlFacts, Shapes1, ManagerShapes
  DEF Lies, Promotes, Unrecorded
<1>6. RollsAlone(c)'
  BY <1>1, <1>2, <1>3, LeadsKept, Shapes1, ManagerShapes
  DEF Lies, Promotes, RollsAlone, RollsBack, Rolling, Exchanging, Positions, Opens
<1>7. Boots(c)' /\ Resumes(c)'
  BY <1>1, <1>2, <1>3, Shapes1, ManagerShapes, ControlFacts
  DEF Lies, Stands, Fresh, Boots, Resumes, Foreign, Names, Rolling, Exchanging, Positions, Opens,
      Ended, Promoting, Serving, Passed
<1> QED
  BY <1>3, <1>4, <1>5, <1>6, <1>7, DiskStep DEF Lies

LEMMA DiskRetire ==
    ASSUME Typed, Control, Disk, NEW c \in Candidates, Retire(c)
    PROVE  Disk'
<1>1. Serving(c) /\ Positions(c) /\ Opens(c) /\ Lies(c)
  BY DEF Control, Disk
<1>2. RetireTurn(c)
  BY <1>1, DoesRetire
<1>3. Still /\ Apart(c) /\ head' = head /\ pins' = pins /\ saved' = saved /\ journal' = journal
  BY <1>2 DEF RetireTurn, Turn, Still
<1> USE DEF Retire, IsAt, HeirAt, OpAt, RetireTurn, Turn, Managing
<1>4. Stands(c)' => Fresh'
  BY <1>1, <1>2, <1>3, ControlFacts, Shapes1, ManagerShapes
  DEF Lies, Stands, Fresh, Foreign, Names, Verifying, Positions, Developing, Handing, Opens,
      Ended, Promoting, OpenPromotion
<1>5. Promotes(c)' /\ Unrecorded(c)'
  BY <1>1, <1>2, <1>3, ControlFacts, Shapes1, ManagerShapes
  DEF Lies, Promotes, Unrecorded
<1>6. RollsAlone(c)'
  BY <1>1, <1>2, <1>3, LeadsKept, Shapes1, ManagerShapes
  DEF Lies, Promotes, RollsAlone, RollsBack, Rolling, Exchanging, Positions, Opens
<1>7. Boots(c)' /\ Resumes(c)'
  BY <1>1, <1>2, <1>3, Shapes1, ManagerShapes, ControlFacts
  DEF Lies, Stands, Fresh, Boots, Resumes, Foreign, Names, Rolling, Exchanging, Positions, Opens,
      Ended, Promoting, Serving, Passed
<1> QED
  BY <1>3, <1>4, <1>5, <1>6, <1>7, DiskStep DEF Lies

LEMMA DiskServed ==
    ASSUME Typed, Control, Disk, NEW c \in Candidates, Served(c)
    PROVE  Disk'
<1>1. Serving(c) /\ Positions(c) /\ Opens(c) /\ Lies(c)
  BY DEF Control, Disk
<1>2. ServedTurn(c)
  BY <1>1, DoesServed
<1>3. Still /\ Apart(c) /\ head' = head /\ pins' = pins /\ saved' = saved /\ journal' = journal
  BY <1>2 DEF ServedTurn, Turn, Still
<1> USE DEF Served, IsAt, HeirAt, OpAt, ServedTurn, Turn, Managing
<1>4. Stands(c)' => Fresh'
  BY <1>1, <1>2, <1>3, ControlFacts, Shapes1, ManagerShapes
  DEF Lies, Stands, Fresh, Foreign, Names, Verifying, Positions, Developing, Handing, Opens,
      Ended, Promoting, OpenPromotion
<1>5. Promotes(c)' /\ Unrecorded(c)'
  BY <1>1, <1>2, <1>3, ControlFacts, Shapes1, ManagerShapes
  DEF Lies, Promotes, Unrecorded
<1>6. RollsAlone(c)'
  BY <1>1, <1>2, <1>3, LeadsKept, Shapes1, ManagerShapes
  DEF Lies, Promotes, RollsAlone, RollsBack, Rolling, Exchanging, Positions, Opens
<1>7. Boots(c)' /\ Resumes(c)'
  BY <1>1, <1>2, <1>3, Shapes1, ManagerShapes, ControlFacts
  DEF Lies, Stands, Fresh, Boots, Resumes, Foreign, Names, Rolling, Exchanging, Positions, Opens,
      Ended, Promoting, Serving, Passed
<1> QED
  BY <1>3, <1>4, <1>5, <1>6, <1>7, DiskStep DEF Lies

LEMMA DiskRefinalize ==
    ASSUME Typed, Control, Disk, NEW c \in Candidates, Refinalize(c)
    PROVE  Disk'
<1>1. Serving(c) /\ Positions(c) /\ Opens(c) /\ Lies(c)
  BY DEF Control, Disk
<1>2. RefinalizeTurn(c)
  BY <1>1, DoesRefinalize
<1>3. Still /\ Apart(c) /\ head' = head /\ pins' = pins /\ saved' = saved /\ journal' = journal
  BY <1>2 DEF RefinalizeTurn, Turn, Still
<1> USE DEF Refinalize, IsAt, HeirAt, OpAt, RefinalizeTurn, Turn, Managing
<1>4. Stands(c)' => Fresh'
  BY <1>1, <1>2, <1>3, ControlFacts, Shapes1, ManagerShapes
  DEF Lies, Stands, Fresh, Foreign, Names, Verifying, Positions, Developing, Handing, Opens,
      Ended, Promoting, OpenPromotion
<1>5. Promotes(c)' /\ Unrecorded(c)'
  BY <1>1, <1>2, <1>3, ControlFacts, Shapes1, ManagerShapes
  DEF Lies, Promotes, Unrecorded
<1>6. RollsAlone(c)'
  BY <1>1, <1>2, <1>3, LeadsKept, Shapes1, ManagerShapes
  DEF Lies, Promotes, RollsAlone, RollsBack, Rolling, Exchanging, Positions, Opens
<1>7. Boots(c)' /\ Resumes(c)'
  BY <1>1, <1>2, <1>3, Shapes1, ManagerShapes, ControlFacts
  DEF Lies, Stands, Fresh, Boots, Resumes, Foreign, Names, Rolling, Exchanging, Positions, Opens,
      Ended, Promoting, Serving, Passed
<1> QED
  BY <1>3, <1>4, <1>5, <1>6, <1>7, DiskStep DEF Lies

LEMMA DiskRunUndone ==
    ASSUME Typed, Control, Disk, NEW c \in Candidates, RunUndone(c)
    PROVE  Disk'
<1>1. Serving(c) /\ Positions(c) /\ Opens(c) /\ Lies(c)
  BY DEF Control, Disk
<1>2. RunUndoneTurn(c)
  BY <1>1, DoesRunUndone
<1>3. Still /\ Apart(c) /\ head' = head /\ pins' = pins /\ saved' = saved /\ journal' = journal
  BY <1>2 DEF RunUndoneTurn, Turn, Still
<1> USE DEF RunUndone, IsAt, HeirAt, OpAt, RunUndoneTurn, Turn, Managing
<1>4. Stands(c)' => Fresh'
  BY <1>1, <1>2, <1>3, ControlFacts, Shapes1, ManagerShapes
  DEF Lies, Stands, Fresh, Foreign, Names, Verifying, Positions, Developing, Handing, Opens,
      Ended, Promoting, OpenPromotion
<1>5. Promotes(c)' /\ Unrecorded(c)'
  BY <1>1, <1>2, <1>3, ControlFacts, Shapes1, ManagerShapes
  DEF Lies, Promotes, Unrecorded
<1>6. RollsAlone(c)'
  BY <1>1, <1>2, <1>3, LeadsKept, Shapes1, ManagerShapes
  DEF Lies, Promotes, RollsAlone, RollsBack, Rolling, Exchanging, Positions, Opens
<1>7. Boots(c)' /\ Resumes(c)'
  BY <1>1, <1>2, <1>3, Shapes1, ManagerShapes, ControlFacts
  DEF Lies, Stands, Fresh, Boots, Resumes, Foreign, Names, Rolling, Exchanging, Positions, Opens,
      Ended, Promoting, Serving, Passed
<1> QED
  BY <1>3, <1>4, <1>5, <1>6, <1>7, DiskStep DEF Lies

LEMMA DiskRunUndoFails ==
    ASSUME Typed, Control, Disk, NEW c \in Candidates, RunUndoFails(c)
    PROVE  Disk'
<1>1. Serving(c) /\ Positions(c) /\ Opens(c) /\ Lies(c)
  BY DEF Control, Disk
<1>2. RunUndoFailsTurn(c)
  BY <1>1, DoesRunUndoFails
<1>3. Still /\ Apart(c) /\ head' = head /\ pins' = pins /\ saved' = saved /\ journal' = journal
  BY <1>2 DEF RunUndoFailsTurn, Turn, Still
<1> USE DEF RunUndoFails, IsAt, HeirAt, OpAt, RunUndoFailsTurn, Turn, Managing
<1>4. Stands(c)' => Fresh'
  BY <1>1, <1>2, <1>3, ControlFacts, Shapes1, ManagerShapes
  DEF Lies, Stands, Fresh, Foreign, Names, Verifying, Positions, Developing, Handing, Opens,
      Ended, Promoting, OpenPromotion
<1>5. Promotes(c)' /\ Unrecorded(c)'
  BY <1>1, <1>2, <1>3, ControlFacts, Shapes1, ManagerShapes
  DEF Lies, Promotes, Unrecorded
<1>6. RollsAlone(c)'
  BY <1>1, <1>2, <1>3, LeadsKept, Shapes1, ManagerShapes
  DEF Lies, Promotes, RollsAlone, RollsBack, Rolling, Exchanging, Positions, Opens
<1>7. Boots(c)' /\ Resumes(c)'
  BY <1>1, <1>2, <1>3, Shapes1, ManagerShapes, ControlFacts
  DEF Lies, Stands, Fresh, Boots, Resumes, Foreign, Names, Rolling, Exchanging, Positions, Opens,
      Ended, Promoting, Serving, Passed
<1> QED
  BY <1>3, <1>4, <1>5, <1>6, <1>7, DiskStep DEF Lies

LEMMA DiskClose ==
    ASSUME Typed, Control, Disk, NEW c \in Candidates, Close(c)
    PROVE  Disk'
<1>1. Serving(c) /\ Positions(c) /\ Opens(c) /\ Lies(c)
  BY DEF Control, Disk
<1>2. CloseTurn(c)
  BY <1>1, DoesClose
<1>3. Still /\ Apart(c) /\ head' = head /\ pins' = pins /\ saved' = saved /\ journal' = journal
  BY <1>2 DEF CloseTurn, Turn, Still
<1> USE DEF Close, IsAt, HeirAt, OpAt, CloseTurn, Turn, Managing
<1>4. Stands(c)' => Fresh'
  BY <1>1, <1>2, <1>3, ControlFacts, Shapes1, ManagerShapes
  DEF Lies, Stands, Fresh, Foreign, Names, Verifying, Positions, Developing, Handing, Opens,
      Ended, Promoting, OpenPromotion
<1>5. Promotes(c)' /\ Unrecorded(c)'
  BY <1>1, <1>2, <1>3, ControlFacts, Shapes1, ManagerShapes
  DEF Lies, Promotes, Unrecorded
<1>6. RollsAlone(c)'
  BY <1>1, <1>2, <1>3, LeadsKept, Shapes1, ManagerShapes
  DEF Lies, Promotes, RollsAlone, RollsBack, Rolling, Exchanging, Positions, Opens
<1>7. Boots(c)' /\ Resumes(c)'
  BY <1>1, <1>2, <1>3, Shapes1, ManagerShapes, ControlFacts
  DEF Lies, Stands, Fresh, Boots, Resumes, Foreign, Names, Rolling, Exchanging, Positions, Opens,
      Ended, Promoting, Serving, Passed
<1> QED
  BY <1>3, <1>4, <1>5, <1>6, <1>7, DiskStep DEF Lies

LEMMA DiskPublishFails ==
    ASSUME Typed, Control, Disk, NEW c \in Candidates, PublishFails(c)
    PROVE  Disk'
<1>1. Serving(c) /\ Positions(c) /\ Opens(c) /\ Lies(c)
  BY DEF Control, Disk
<1>2. PublishFailsTurn(c)
  BY <1>1, DoesPublishFails
<1>3. Still /\ Apart(c) /\ head' = head /\ pins' = pins /\ saved' = saved /\ journal' = journal
  BY <1>2 DEF PublishFailsTurn, Turn, Still
<1> USE DEF PublishFails, IsAt, HeirAt, OpAt, PublishFailsTurn, Turn, Managing
<1>4. Stands(c)' => Fresh'
  BY <1>1, <1>2, <1>3, ControlFacts, Shapes1, ManagerShapes
  DEF Lies, Stands, Fresh, Foreign, Names, Verifying, Positions, Developing, Handing, Opens,
      Ended, Promoting, OpenPromotion
<1>5. Promotes(c)' /\ Unrecorded(c)'
  BY <1>1, <1>2, <1>3, ControlFacts, Shapes1, ManagerShapes
  DEF Lies, Promotes, Unrecorded
<1>6. RollsAlone(c)'
  BY <1>1, <1>2, <1>3, LeadsKept, Shapes1, ManagerShapes
  DEF Lies, Promotes, RollsAlone, RollsBack, Rolling, Exchanging, Positions, Opens, Working
<1>7. Boots(c)' /\ Resumes(c)'
  BY <1>1, <1>2, <1>3, Shapes1, ManagerShapes, ControlFacts
  DEF Lies, Stands, Fresh, Boots, Resumes, Foreign, Names, Rolling, Exchanging, Positions, Opens,
      Ended, Promoting, Serving, Passed, Working
<1> QED
  BY <1>3, <1>4, <1>5, <1>6, <1>7, DiskStep DEF Lies

LEMMA DiskAnnounceFails ==
    ASSUME Typed, Control, Disk, NEW c \in Candidates, AnnounceFails(c)
    PROVE  Disk'
<1>1. Serving(c) /\ Positions(c) /\ Opens(c) /\ Lies(c)
  BY DEF Control, Disk
<1>2. AnnounceFailsTurn(c)
  BY <1>1, DoesAnnounceFails
<1>3. Still /\ Apart(c) /\ head' = head /\ pins' = pins /\ saved' = saved /\ journal' = journal
  BY <1>2 DEF AnnounceFailsTurn, Turn, Still
<1> USE DEF AnnounceFails, IsAt, HeirAt, OpAt, AnnounceFailsTurn, Turn, Managing
<1>4. Stands(c)' => Fresh'
  BY <1>1, <1>2, <1>3, ControlFacts, Shapes1, ManagerShapes
  DEF Lies, Stands, Fresh, Foreign, Names, Verifying, Positions, Developing, Handing, Opens,
      Ended, Promoting, OpenPromotion
<1>5. Promotes(c)' /\ Unrecorded(c)'
  BY <1>1, <1>2, <1>3, ControlFacts, Shapes1, ManagerShapes
  DEF Lies, Promotes, Unrecorded
<1>6. RollsAlone(c)'
  BY <1>1, <1>2, <1>3, LeadsKept, Shapes1, ManagerShapes
  DEF Lies, Promotes, RollsAlone, RollsBack, Rolling, Exchanging, Positions, Opens
<1>7. Boots(c)' /\ Resumes(c)'
  BY <1>1, <1>2, <1>3, Shapes1, ManagerShapes, ControlFacts
  DEF Lies, Stands, Fresh, Boots, Resumes, Foreign, Names, Rolling, Exchanging, Positions, Opens,
      Ended, Promoting, Serving, Passed
<1> QED
  BY <1>3, <1>4, <1>5, <1>6, <1>7, DiskStep DEF Lies

LEMMA DiskBoot ==
    ASSUME Typed, Control, Disk, NEW c \in Candidates, Boot(c)
    PROVE  Disk'
<1>1. Serving(c) /\ Positions(c) /\ Opens(c) /\ Lies(c)
  BY DEF Control, Disk
<1>2. BootTurn(c)
  BY <1>1, DoesBoot
<1>3. Still /\ Apart(c) /\ head' = head /\ pins' = pins /\ saved' = saved /\ journal' = journal
  BY <1>2 DEF BootTurn, Turn, Still
<1> USE DEF Boot, IsAt, HeirAt, OpAt, BootTurn, Turn, Managing
<1>4. Stands(c)' => Fresh'
  BY <1>1, <1>2, <1>3, ControlFacts, Shapes1, ManagerShapes
  DEF Lies, Stands, Fresh, Foreign, Names, Verifying, Positions, Developing, Handing, Opens,
      Ended, Promoting, OpenPromotion
<1>5. Promotes(c)' /\ Unrecorded(c)'
  BY <1>1, <1>2, <1>3, ControlFacts, Shapes1, ManagerShapes
  DEF Lies, Promotes, Unrecorded
<1>6. RollsAlone(c)'
  BY <1>1, <1>2, <1>3, LeadsKept, Shapes1, ManagerShapes
  DEF Lies, Promotes, RollsAlone, RollsBack, Rolling, Exchanging, Positions, Opens
<1>7. Boots(c)' /\ Resumes(c)'
  BY <1>1, <1>2, <1>3, Shapes1, ManagerShapes, ControlFacts
  DEF Lies, Stands, Fresh, Boots, Resumes, Foreign, Names, Rolling, Exchanging, Positions, Opens,
      Ended, Promoting, Serving, Passed
<1> QED
  BY <1>3, <1>4, <1>5, <1>6, <1>7, DiskStep DEF Lies

LEMMA DiskGiveUp ==
    ASSUME Typed, Control, Disk, NEW c \in Candidates, GiveUp(c)
    PROVE  Disk'
<1>1. Serving(c) /\ Positions(c) /\ Opens(c) /\ Lies(c)
  BY DEF Control, Disk
<1>2. GiveUpTurn(c)
  BY <1>1, DoesGiveUp
<1>3. Still /\ Apart(c) /\ head' = head /\ pins' = pins /\ saved' = saved /\ journal' = journal
  BY <1>2 DEF GiveUpTurn, Turn, Still
<1> USE DEF GiveUp, Deserted, IsAt, HeirAt, OpAt, GiveUpTurn, Turn, Managing
<1>4. Stands(c)' => Fresh'
  BY <1>1, <1>2, <1>3, ControlFacts, Shapes1, ManagerShapes
  DEF Lies, Stands, Fresh, Foreign, Names, Verifying, Positions, Developing, Handing, Opens,
      Ended, Promoting, OpenPromotion
<1>5. Promotes(c)' /\ Unrecorded(c)'
  BY <1>1, <1>2, <1>3, ControlFacts, Shapes1, ManagerShapes
  DEF Lies, Promotes, Unrecorded
<1>6. RollsAlone(c)'
  BY <1>1, <1>2, <1>3, LeadsKept, Shapes1, ManagerShapes
  DEF Lies, Promotes, RollsAlone, RollsBack, Rolling, Exchanging, Positions, Opens
<1>7. Boots(c)' /\ Resumes(c)'
  BY <1>1, <1>2, <1>3, Shapes1, ManagerShapes, ControlFacts
  DEF Lies, Stands, Fresh, Boots, Resumes, Foreign, Names, Rolling, Exchanging, Positions, Opens,
      Ended, Promoting, Serving, Passed
<1> QED
  BY <1>3, <1>4, <1>5, <1>6, <1>7, DiskStep DEF Lies

LEMMA DiskReleased ==
    ASSUME Typed, Control, Disk, NEW c \in Candidates, Released(c)
    PROVE  Disk'
<1>1. Serving(c) /\ Positions(c) /\ Opens(c) /\ Lies(c)
  BY DEF Control, Disk
<1>2. ReleasedTurn(c)
  BY <1>1, DoesReleased
<1>3. Still /\ Apart(c) /\ head' = head /\ pins' = pins /\ saved' = saved /\ journal' = journal
  BY <1>2 DEF ReleasedTurn, Turn, Still
<1> USE DEF Released, IsAt, HeirAt, OpAt, ReleasedTurn, Turn, Managing
<1>4. Stands(c)' => Fresh'
  BY <1>1, <1>2, <1>3, ControlFacts, Shapes1, ManagerShapes
  DEF Lies, Stands, Fresh, Foreign, Names, Verifying, Positions, Developing, Handing, Opens,
      Ended, Promoting, OpenPromotion
<1>5. Promotes(c)' /\ Unrecorded(c)'
  BY <1>1, <1>2, <1>3, ControlFacts, Shapes1, ManagerShapes
  DEF Lies, Promotes, Unrecorded
<1>6. RollsAlone(c)'
  BY <1>1, <1>2, <1>3, LeadsKept, Shapes1, ManagerShapes
  DEF Lies, Promotes, RollsAlone, RollsBack, Rolling, Exchanging, Positions, Opens
<1>7. Boots(c)' /\ Resumes(c)'
  BY <1>1, <1>2, <1>3, Shapes1, ManagerShapes, ControlFacts
  DEF Lies, Stands, Fresh, Boots, Resumes, Foreign, Names, Rolling, Exchanging, Positions, Opens,
      Ended, Promoting, Serving, Passed
<1> QED
  BY <1>3, <1>4, <1>5, <1>6, <1>7, DiskStep DEF Lies

LEMMA DiskClaim ==
    ASSUME Typed, Control, Disk, NEW c \in Candidates, Claim(c)
    PROVE  Disk'
<1>0. /\ Opened("held", NoCommit, 0).at = "held" /\ Opened("held", NoCommit, 0).mem = saved
      /\ Opened("held", NoCommit, 0).commit = NoCommit
  BY ManagerShapes, Constants
<1>1. Serving(c) /\ Positions(c) /\ Opens(c) /\ Lies(c)
  BY DEF Control, Disk
<1>2. ClaimTurn(c)
  BY <1>1, DoesClaim
<1>3. Still /\ Apart(c) /\ head' = head /\ pins' = pins /\ saved' = saved /\ journal' = journal
  BY <1>2 DEF ClaimTurn, Turn, Still
<1> USE DEF Claim, IsAt, HeirAt, OpAt, ClaimTurn, Turn, Managing
<1>4. Stands(c)' => Fresh'
  BY <1>0, <1>1, <1>2, <1>3, ControlFacts, Shapes1, ManagerShapes
  DEF Lies, Stands, Fresh, Foreign, Names, Verifying, Positions, Developing, Handing, Opens,
      Ended, Promoting, OpenPromotion
<1>5. Promotes(c)' /\ Unrecorded(c)'
  BY <1>0, <1>1, <1>2, <1>3, ControlFacts, Shapes1, ManagerShapes
  DEF Lies, Promotes, Unrecorded
<1>6. RollsAlone(c)'
  BY <1>0, <1>1, <1>2, <1>3, LeadsKept, Shapes1, ManagerShapes
  DEF Lies, Promotes, RollsAlone, RollsBack, Rolling, Exchanging, Positions, Opens
<1>7. Boots(c)' /\ Resumes(c)'
  BY <1>0, <1>1, <1>2, <1>3, Shapes1, ManagerShapes, ControlFacts
  DEF Lies, Stands, Fresh, Boots, Resumes, Foreign, Names, Rolling, Exchanging, Positions, Opens,
      Ended, Promoting, Serving, Passed
<1> QED
  BY <1>3, <1>4, <1>5, <1>6, <1>7, DiskStep DEF Lies

LEMMA DiskGatesPass ==
    ASSUME Typed, Control, Disk, NEW c \in Candidates, Gates(c), heir'[c] = "check"
    PROVE  Disk'
<1>0. LET n == [op[Heir(c)] EXCEPT !.at = "checkpoint"]
      IN  n.at = "checkpoint" /\ n.mem = op[Heir(c)].mem /\ n.commit = op[Heir(c)].commit
  <2>1. "checkpoint" \in Promoting \cup Rolling \cup Ended
    BY DEF Promoting
  <2>2. op[Heir(c)] \in Manager
    BY Shapes1
  <2> QED
    BY <2>1, <2>2, PlaceFacts
<1>1. Serving(c) /\ Positions(c) /\ Opens(c) /\ Lies(c)
  BY DEF Control, Disk
<1>2. GatesPassTurn(c)
  BY <1>1, DoesGatesPass
<1>3. Still /\ Apart(c) /\ head' = head /\ pins' = pins /\ saved' = saved /\ journal' = journal
  BY <1>2 DEF GatesPassTurn, Turn, Still
<1> USE DEF Gates, IsAt, HeirAt, OpAt, GatesPassTurn, Turn, Managing
<1>4. Stands(c)' => Fresh'
  BY <1>0, <1>1, <1>2, <1>3, ControlFacts, Shapes1, ManagerShapes
  DEF Lies, Stands, Fresh, Foreign, Names, Verifying, Positions, Developing, Handing, Opens,
      Ended, Promoting, OpenPromotion
<1>5. Promotes(c)' /\ Unrecorded(c)'
  BY <1>0, <1>1, <1>2, <1>3, ControlFacts, Shapes1, ManagerShapes
  DEF Lies, Promotes, Unrecorded
<1>6. RollsAlone(c)'
  BY <1>0, <1>1, <1>2, <1>3, LeadsKept, Shapes1, ManagerShapes
  DEF Lies, Promotes, RollsAlone, RollsBack, Rolling, Exchanging, Positions, Opens
<1>7. Boots(c)' /\ Resumes(c)'
  BY <1>0, <1>1, <1>2, <1>3, Shapes1, ManagerShapes, ControlFacts
  DEF Lies, Stands, Fresh, Boots, Resumes, Foreign, Names, Rolling, Exchanging, Positions, Opens,
      Ended, Promoting, Serving, Passed
<1> QED
  BY <1>3, <1>4, <1>5, <1>6, <1>7, DiskStep DEF Lies

LEMMA DiskGatesFail ==
    ASSUME Typed, Control, Disk, NEW c \in Candidates, Gates(c), heir'[c] # "check"
    PROVE  Disk'
<1>1. Serving(c) /\ Positions(c) /\ Opens(c) /\ Lies(c)
  BY DEF Control, Disk
<1>2. GatesFailTurn(c)
  BY <1>1, DoesGatesFail
<1>3. Still /\ Apart(c) /\ head' = head /\ pins' = pins /\ saved' = saved /\ journal' = journal
  BY <1>2 DEF GatesFailTurn, Turn, Still
<1> USE DEF Gates, IsAt, HeirAt, OpAt, GatesFailTurn, Turn, Managing
<1>4. Stands(c)' => Fresh'
  BY <1>1, <1>2, <1>3, ControlFacts, Shapes1, ManagerShapes
  DEF Lies, Stands, Fresh, Foreign, Names, Verifying, Positions, Developing, Handing, Opens,
      Ended, Promoting, OpenPromotion
<1>5. Promotes(c)' /\ Unrecorded(c)'
  BY <1>1, <1>2, <1>3, ControlFacts, Shapes1, ManagerShapes
  DEF Lies, Promotes, Unrecorded
<1>6. RollsAlone(c)'
  BY <1>1, <1>2, <1>3, LeadsKept, Shapes1, ManagerShapes
  DEF Lies, Promotes, RollsAlone, RollsBack, Rolling, Exchanging, Positions, Opens
<1>7. Boots(c)' /\ Resumes(c)'
  BY <1>1, <1>2, <1>3, Shapes1, ManagerShapes, ControlFacts
  DEF Lies, Stands, Fresh, Boots, Resumes, Foreign, Names, Rolling, Exchanging, Positions, Opens,
      Ended, Promoting, Serving, Passed
<1> QED
  BY <1>3, <1>4, <1>5, <1>6, <1>7, DiskStep DEF Lies

LEMMA DiskCheckFails ==
    ASSUME Typed, Control, Disk, NEW c \in Candidates, CheckFails(c)
    PROVE  Disk'
<1>1. Serving(c) /\ Positions(c) /\ Opens(c) /\ Lies(c)
  BY DEF Control, Disk
<1>2. CheckFailsTurn(c)
  BY <1>1, DoesCheckFails
<1>3. Still /\ Apart(c) /\ head' = head /\ pins' = pins /\ saved' = saved /\ journal' = journal
  BY <1>2 DEF CheckFailsTurn, Turn, Still
<1> USE DEF CheckFails, IsAt, HeirAt, OpAt, CheckFailsTurn, Turn, Managing
<1>4. Stands(c)' => Fresh'
  BY <1>1, <1>2, <1>3, ControlFacts, Shapes1, ManagerShapes
  DEF Lies, Stands, Fresh, Foreign, Names, Verifying, Positions, Developing, Handing, Opens,
      Ended, Promoting, OpenPromotion
<1>5. Promotes(c)' /\ Unrecorded(c)'
  BY <1>1, <1>2, <1>3, ControlFacts, Shapes1, ManagerShapes
  DEF Lies, Promotes, Unrecorded
<1>6. RollsAlone(c)'
  BY <1>1, <1>2, <1>3, LeadsKept, Shapes1, ManagerShapes
  DEF Lies, Promotes, RollsAlone, RollsBack, Rolling, Exchanging, Positions, Opens
<1>7. Boots(c)' /\ Resumes(c)'
  BY <1>1, <1>2, <1>3, Shapes1, ManagerShapes, ControlFacts
  DEF Lies, Stands, Fresh, Boots, Resumes, Foreign, Names, Rolling, Exchanging, Positions, Opens,
      Ended, Promoting, Serving, Passed
<1> QED
  BY <1>3, <1>4, <1>5, <1>6, <1>7, DiskStep DEF Lies

LEMMA DiskCompleteHandoff ==
    ASSUME Typed, Control, Disk, NEW c \in Candidates, CompleteHandoff(c)
    PROVE  Disk'
<1>1. Serving(c) /\ Positions(c) /\ Opens(c) /\ Lies(c)
  BY DEF Control, Disk
<1>2. CompleteHandoffTurn(c)
  BY <1>1, DoesCompleteHandoff
<1>3. Still /\ Apart(c) /\ head' = head /\ pins' = pins /\ saved' = saved /\ journal' = journal
  BY <1>2 DEF CompleteHandoffTurn, Turn, Still
<1> USE DEF CompleteHandoff, IsAt, HeirAt, OpAt, CompleteHandoffTurn, Turn, Managing
<1>4. Stands(c)' => Fresh'
  BY <1>1, <1>2, <1>3, ControlFacts, Shapes1, ManagerShapes
  DEF Lies, Stands, Fresh, Foreign, Names, Verifying, Positions, Developing, Handing, Opens,
      Ended, Promoting, OpenPromotion
<1>5. Promotes(c)' /\ Unrecorded(c)'
  BY <1>1, <1>2, <1>3, ControlFacts, Shapes1, ManagerShapes
  DEF Lies, Promotes, Unrecorded
<1>6. RollsAlone(c)'
  BY <1>1, <1>2, <1>3, LeadsKept, Shapes1, ManagerShapes
  DEF Lies, Promotes, RollsAlone, RollsBack, Rolling, Exchanging, Positions, Opens
<1>7. Boots(c)' /\ Resumes(c)'
  BY <1>1, <1>2, <1>3, Shapes1, ManagerShapes, ControlFacts
  DEF Lies, Stands, Fresh, Boots, Resumes, Foreign, Names, Rolling, Exchanging, Positions, Opens,
      Ended, Promoting, Serving, Passed
<1> QED
  BY <1>3, <1>4, <1>5, <1>6, <1>7, DiskStep DEF Lies

LEMMA DiskCompleteMission ==
    ASSUME Typed, Control, Disk, NEW c \in Candidates, CompleteMission(c)
    PROVE  Disk'
<1>1. Serving(c) /\ Positions(c) /\ Opens(c) /\ Lies(c)
  BY DEF Control, Disk
<1>2. CompleteMissionTurn(c)
  BY <1>1, DoesCompleteMission
<1>3. Still /\ Apart(c) /\ head' = head /\ pins' = pins /\ saved' = saved /\ journal' = journal
  BY <1>2 DEF CompleteMissionTurn, Turn, Still
<1> USE DEF CompleteMission, IsAt, HeirAt, OpAt, CompleteMissionTurn, Turn, Managing
<1>4. Stands(c)' => Fresh'
  BY <1>1, <1>2, <1>3, ControlFacts, Shapes1, ManagerShapes
  DEF Lies, Stands, Fresh, Foreign, Names, Verifying, Positions, Developing, Handing, Opens,
      Ended, Promoting, OpenPromotion
<1>5. Promotes(c)' /\ Unrecorded(c)'
  BY <1>1, <1>2, <1>3, ControlFacts, Shapes1, ManagerShapes
  DEF Lies, Promotes, Unrecorded
<1>6. RollsAlone(c)'
  BY <1>1, <1>2, <1>3, LeadsKept, Shapes1, ManagerShapes
  DEF Lies, Promotes, RollsAlone, RollsBack, Rolling, Exchanging, Positions, Opens
<1>7. Boots(c)' /\ Resumes(c)'
  BY <1>1, <1>2, <1>3, Shapes1, ManagerShapes, ControlFacts
  DEF Lies, Stands, Fresh, Boots, Resumes, Foreign, Names, Rolling, Exchanging, Positions, Opens,
      Ended, Promoting, Serving, Passed
<1> QED
  BY <1>3, <1>4, <1>5, <1>6, <1>7, DiskStep DEF Lies

LEMMA DiskCompletionFails ==
    ASSUME Typed, Control, Disk, NEW c \in Candidates, CompletionFails(c)
    PROVE  Disk'
<1>1. Serving(c) /\ Positions(c) /\ Opens(c) /\ Lies(c)
  BY DEF Control, Disk
<1>2. CompletionFailsTurn(c)
  BY <1>1, DoesCompletionFails
<1>3. Still /\ Apart(c) /\ head' = head /\ pins' = pins /\ saved' = saved /\ journal' = journal
  BY <1>2 DEF CompletionFailsTurn, Turn, Still
<1> USE DEF CompletionFails, IsAt, HeirAt, OpAt, CompletionFailsTurn, Turn, Managing
<1>4. Stands(c)' => Fresh'
  BY <1>1, <1>2, <1>3, ControlFacts, Shapes1, ManagerShapes
  DEF Lies, Stands, Fresh, Foreign, Names, Verifying, Positions, Developing, Handing, Opens,
      Ended, Promoting, OpenPromotion
<1>5. Promotes(c)' /\ Unrecorded(c)'
  BY <1>1, <1>2, <1>3, ControlFacts, Shapes1, ManagerShapes
  DEF Lies, Promotes, Unrecorded
<1>6. RollsAlone(c)'
  BY <1>1, <1>2, <1>3, LeadsKept, Shapes1, ManagerShapes
  DEF Lies, Promotes, RollsAlone, RollsBack, Rolling, Exchanging, Positions, Opens
<1>7. Boots(c)' /\ Resumes(c)'
  BY <1>1, <1>2, <1>3, Shapes1, ManagerShapes, ControlFacts
  DEF Lies, Stands, Fresh, Boots, Resumes, Foreign, Names, Rolling, Exchanging, Positions, Opens,
      Ended, Promoting, Serving, Passed
<1> QED
  BY <1>3, <1>4, <1>5, <1>6, <1>7, DiskStep DEF Lies

LEMMA DiskAccept ==
    ASSUME Typed, Control, Disk, NEW c \in Candidates, Accept(c)
    PROVE  Disk'
<1>1. Serving(c) /\ Positions(c) /\ Opens(c) /\ Lies(c)
  BY DEF Control, Disk
<1>2. AcceptTurn(c)
  BY <1>1, DoesAccept
<1>3. Still /\ Apart(c) /\ head' = head /\ pins' = pins /\ saved' = saved /\ journal' = journal
  BY <1>2 DEF AcceptTurn, Turn, Still
<1> USE DEF Accept, IsAt, HeirAt, OpAt, AcceptTurn, Turn, Managing
<1>4. Stands(c)' => Fresh'
  BY <1>1, <1>2, <1>3, ControlFacts, Shapes1, ManagerShapes
  DEF Lies, Stands, Fresh, Foreign, Names, Verifying, Positions, Developing, Handing, Opens,
      Ended, Promoting, OpenPromotion
<1>5. Promotes(c)' /\ Unrecorded(c)'
  BY <1>1, <1>2, <1>3, ControlFacts, Shapes1, ManagerShapes
  DEF Lies, Promotes, Unrecorded
<1>6. RollsAlone(c)'
  BY <1>1, <1>2, <1>3, LeadsKept, Shapes1, ManagerShapes
  DEF Lies, Promotes, RollsAlone, RollsBack, Rolling, Exchanging, Positions, Opens
<1>7. Boots(c)' /\ Resumes(c)'
  BY <1>1, <1>2, <1>3, Shapes1, ManagerShapes, ControlFacts
  DEF Lies, Stands, Fresh, Boots, Resumes, Foreign, Names, Rolling, Exchanging, Positions, Opens,
      Ended, Promoting, Serving, Passed
<1> QED
  BY <1>3, <1>4, <1>5, <1>6, <1>7, DiskStep DEF Lies

LEMMA DiskAcceptFails ==
    ASSUME Typed, Control, Disk, NEW c \in Candidates, AcceptFails(c)
    PROVE  Disk'
<1>1. Serving(c) /\ Positions(c) /\ Opens(c) /\ Lies(c)
  BY DEF Control, Disk
<1>2. AcceptFailsTurn(c)
  BY <1>1, DoesAcceptFails
<1>3. Still /\ Apart(c) /\ head' = head /\ pins' = pins /\ saved' = saved /\ journal' = journal
  BY <1>2 DEF AcceptFailsTurn, Turn, Still
<1> USE DEF AcceptFails, IsAt, HeirAt, OpAt, AcceptFailsTurn, Turn, Managing
<1>4. Stands(c)' => Fresh'
  BY <1>1, <1>2, <1>3, ControlFacts, Shapes1, ManagerShapes
  DEF Lies, Stands, Fresh, Foreign, Names, Verifying, Positions, Developing, Handing, Opens,
      Ended, Promoting, OpenPromotion
<1>5. Promotes(c)' /\ Unrecorded(c)'
  BY <1>1, <1>2, <1>3, ControlFacts, Shapes1, ManagerShapes
  DEF Lies, Promotes, Unrecorded
<1>6. RollsAlone(c)'
  BY <1>1, <1>2, <1>3, LeadsKept, Shapes1, ManagerShapes
  DEF Lies, Promotes, RollsAlone, RollsBack, Rolling, Exchanging, Positions, Opens
<1>7. Boots(c)' /\ Resumes(c)'
  BY <1>1, <1>2, <1>3, Shapes1, ManagerShapes, ControlFacts
  DEF Lies, Stands, Fresh, Boots, Resumes, Foreign, Names, Rolling, Exchanging, Positions, Opens,
      Ended, Promoting, Serving, Passed
<1> QED
  BY <1>3, <1>4, <1>5, <1>6, <1>7, DiskStep DEF Lies

LEMMA DiskHeirUndone ==
    ASSUME Typed, Control, Disk, NEW c \in Candidates, HeirUndone(c)
    PROVE  Disk'
<1>1. Serving(c) /\ Positions(c) /\ Opens(c) /\ Lies(c)
  BY DEF Control, Disk
<1>2. HeirUndoneTurn(c)
  BY <1>1, DoesHeirUndone
<1>3. Still /\ Apart(c) /\ head' = head /\ pins' = pins /\ saved' = saved /\ journal' = journal
  BY <1>2 DEF HeirUndoneTurn, Turn, Still
<1> USE DEF HeirUndone, IsAt, HeirAt, OpAt, HeirUndoneTurn, Turn, Managing
<1>4. Stands(c)' => Fresh'
  BY <1>1, <1>2, <1>3, ControlFacts, Shapes1, ManagerShapes
  DEF Lies, Stands, Fresh, Foreign, Names, Verifying, Positions, Developing, Handing, Opens,
      Ended, Promoting, OpenPromotion
<1>5. Promotes(c)' /\ Unrecorded(c)'
  BY <1>1, <1>2, <1>3, ControlFacts, Shapes1, ManagerShapes
  DEF Lies, Promotes, Unrecorded
<1>6. RollsAlone(c)'
  BY <1>1, <1>2, <1>3, LeadsKept, Shapes1, ManagerShapes
  DEF Lies, Promotes, RollsAlone, RollsBack, Rolling, Exchanging, Positions, Opens
<1>7. Boots(c)' /\ Resumes(c)'
  BY <1>1, <1>2, <1>3, Shapes1, ManagerShapes, ControlFacts
  DEF Lies, Stands, Fresh, Boots, Resumes, Foreign, Names, Rolling, Exchanging, Positions, Opens,
      Ended, Promoting, Serving, Passed
<1> QED
  BY <1>3, <1>4, <1>5, <1>6, <1>7, DiskStep DEF Lies

LEMMA DiskHeirClosesAlone ==
    ASSUME Typed, Control, Disk, NEW c \in Candidates, HeirCloses(c), run[c] = "lost"
    PROVE  Disk'
<1>1. Serving(c) /\ Positions(c) /\ Opens(c) /\ Lies(c)
  BY DEF Control, Disk
<1>2. HeirClosesAloneTurn(c)
  BY <1>1, DoesHeirClosesAlone
<1>3. Still /\ Apart(c) /\ head' = head /\ pins' = pins /\ saved' = saved /\ journal' = journal
  BY <1>2 DEF HeirClosesAloneTurn, Turn, Still
<1> USE DEF HeirCloses, IsAt, HeirAt, OpAt, HeirClosesAloneTurn, Turn, Managing
<1>4. Stands(c)' => Fresh'
  BY <1>1, <1>2, <1>3, ControlFacts, Shapes1, ManagerShapes
  DEF Lies, Stands, Fresh, Foreign, Names, Verifying, Positions, Developing, Handing, Opens,
      Ended, Promoting, OpenPromotion
<1>5. Promotes(c)' /\ Unrecorded(c)'
  BY <1>1, <1>2, <1>3, ControlFacts, Shapes1, ManagerShapes
  DEF Lies, Promotes, Unrecorded
<1>6. RollsAlone(c)'
  BY <1>1, <1>2, <1>3, LeadsKept, Shapes1, ManagerShapes
  DEF Lies, Promotes, RollsAlone, RollsBack, Rolling, Exchanging, Positions, Opens
<1>7. Boots(c)' /\ Resumes(c)'
  BY <1>1, <1>2, <1>3, Shapes1, ManagerShapes, ControlFacts
  DEF Lies, Stands, Fresh, Boots, Resumes, Foreign, Names, Rolling, Exchanging, Positions, Opens,
      Ended, Promoting, Serving, Passed
<1> QED
  BY <1>3, <1>4, <1>5, <1>6, <1>7, DiskStep DEF Lies

LEMMA DiskHeirCloses ==
    ASSUME Typed, Control, Disk, NEW c \in Candidates, HeirCloses(c), run[c] # "lost"
    PROVE  Disk'
<1>1. Serving(c) /\ Positions(c) /\ Opens(c) /\ Lies(c)
  BY DEF Control, Disk
<1>2. HeirClosesTurn(c)
  BY <1>1, DoesHeirCloses
<1>3. Still /\ Apart(c) /\ head' = head /\ pins' = pins /\ saved' = saved /\ journal' = journal
  BY <1>2 DEF HeirClosesTurn, Turn, Still
<1> USE DEF HeirCloses, IsAt, HeirAt, OpAt, HeirClosesTurn, Turn, Managing
<1>4. Stands(c)' => Fresh'
  BY <1>1, <1>2, <1>3, ControlFacts, Shapes1, ManagerShapes
  DEF Lies, Stands, Fresh, Foreign, Names, Verifying, Positions, Developing, Handing, Opens,
      Ended, Promoting, OpenPromotion
<1>5. Promotes(c)' /\ Unrecorded(c)'
  BY <1>1, <1>2, <1>3, ControlFacts, Shapes1, ManagerShapes
  DEF Lies, Promotes, Unrecorded
<1>6. RollsAlone(c)'
  BY <1>1, <1>2, <1>3, LeadsKept, Shapes1, ManagerShapes
  DEF Lies, Promotes, RollsAlone, RollsBack, Rolling, Exchanging, Positions, Opens
<1>7. Boots(c)' /\ Resumes(c)'
  BY <1>1, <1>2, <1>3, Shapes1, ManagerShapes, ControlFacts
  DEF Lies, Stands, Fresh, Boots, Resumes, Foreign, Names, Rolling, Exchanging, Positions, Opens,
      Ended, Promoting, Serving, Passed
<1> QED
  BY <1>3, <1>4, <1>5, <1>6, <1>7, DiskStep DEF Lies

LEMMA DiskHeirUndoFails ==
    ASSUME Typed, Control, Disk, NEW c \in Candidates, HeirUndoFails(c)
    PROVE  Disk'
<1>1. Serving(c) /\ Positions(c) /\ Opens(c) /\ Lies(c)
  BY DEF Control, Disk
<1>2. HeirUndoFailsTurn(c)
  BY <1>1, DoesHeirUndoFails
<1>3. Still /\ Apart(c) /\ head' = head /\ pins' = pins /\ saved' = saved /\ journal' = journal
  BY <1>2 DEF HeirUndoFailsTurn, Turn, Still
<1> USE DEF HeirUndoFails, IsAt, HeirAt, OpAt, HeirUndoFailsTurn, Turn, Managing
<1>4. Stands(c)' => Fresh'
  BY <1>1, <1>2, <1>3, ControlFacts, Shapes1, ManagerShapes
  DEF Lies, Stands, Fresh, Foreign, Names, Verifying, Positions, Developing, Handing, Opens,
      Ended, Promoting, OpenPromotion
<1>5. Promotes(c)' /\ Unrecorded(c)'
  BY <1>1, <1>2, <1>3, ControlFacts, Shapes1, ManagerShapes
  DEF Lies, Promotes, Unrecorded
<1>6. RollsAlone(c)'
  BY <1>1, <1>2, <1>3, LeadsKept, Shapes1, ManagerShapes
  DEF Lies, Promotes, RollsAlone, RollsBack, Rolling, Exchanging, Positions, Opens
<1>7. Boots(c)' /\ Resumes(c)'
  BY <1>1, <1>2, <1>3, Shapes1, ManagerShapes, ControlFacts
  DEF Lies, Stands, Fresh, Boots, Resumes, Foreign, Names, Rolling, Exchanging, Positions, Opens,
      Ended, Promoting, Serving, Passed
<1> QED
  BY <1>3, <1>4, <1>5, <1>6, <1>7, DiskStep DEF Lies

LEMMA DiskReplace ==
    ASSUME Typed, Control, Disk, NEW c \in Candidates, Replace(c)
    PROVE  Disk'
<1>1. Serving(c) /\ Positions(c) /\ Opens(c) /\ Lies(c)
  BY DEF Control, Disk
<1>2. ReplaceTurn(c)
  BY <1>1, DoesReplace
<1>3. Still /\ Apart(c) /\ head' = head /\ pins' = pins /\ saved' = saved /\ journal' = journal
  BY <1>2 DEF ReplaceTurn, Turn, Still
<1> USE DEF Replace, IsAt, HeirAt, OpAt, ReplaceTurn, Turn, Managing
<1>4. Stands(c)' => Fresh'
  BY <1>1, <1>2, <1>3, ControlFacts, Shapes1, ManagerShapes
  DEF Lies, Stands, Fresh, Foreign, Names, Verifying, Positions, Developing, Handing, Opens,
      Ended, Promoting, OpenPromotion
<1>5. Promotes(c)' /\ Unrecorded(c)'
  BY <1>1, <1>2, <1>3, ControlFacts, Shapes1, ManagerShapes
  DEF Lies, Promotes, Unrecorded
<1>6. RollsAlone(c)'
  BY <1>1, <1>2, <1>3, LeadsKept, Shapes1, ManagerShapes
  DEF Lies, Promotes, RollsAlone, RollsBack, Rolling, Exchanging, Positions, Opens
<1>7. Boots(c)' /\ Resumes(c)'
  BY <1>1, <1>2, <1>3, Shapes1, ManagerShapes, ControlFacts
  DEF Lies, Stands, Fresh, Boots, Resumes, Foreign, Names, Rolling, Exchanging, Positions, Opens,
      Ended, Promoting, Serving, Passed
<1> QED
  BY <1>3, <1>4, <1>5, <1>6, <1>7, DiskStep DEF Lies

LEMMA DiskHeirCrashes ==
    ASSUME Typed, Control, Disk, NEW c \in Candidates, HeirCrashes(c)
    PROVE  Disk'
<1>1. Serving(c) /\ Positions(c) /\ Opens(c) /\ Lies(c)
  BY DEF Control, Disk
<1>2. HeirCrashesTurn(c)
  BY <1>1, DoesHeirCrashes
<1>3. Still /\ Apart(c) /\ head' = head /\ pins' = pins /\ saved' = saved /\ journal' = journal
  BY <1>2 DEF HeirCrashesTurn, Turn, Still
<1> USE DEF HeirCrashes, IsAt, HeirAt, OpAt, HeirCrashesTurn, Turn, Managing
<1>4. Stands(c)' => Fresh'
  BY <1>1, <1>2, <1>3, ControlFacts, Shapes1, ManagerShapes
  DEF Lies, Stands, Fresh, Foreign, Names, Verifying, Positions, Developing, Handing, Opens,
      Ended, Promoting, OpenPromotion
<1>5. Promotes(c)' /\ Unrecorded(c)'
  BY <1>1, <1>2, <1>3, ControlFacts, Shapes1, ManagerShapes
  DEF Lies, Promotes, Unrecorded
<1>6. RollsAlone(c)'
  BY <1>1, <1>2, <1>3, LeadsKept, Shapes1, ManagerShapes
  DEF Lies, Promotes, RollsAlone, RollsBack, Rolling, Exchanging, Positions, Opens
<1>7. Boots(c)' /\ Resumes(c)'
  BY <1>1, <1>2, <1>3, Shapes1, ManagerShapes, ControlFacts
  DEF Lies, Stands, Fresh, Boots, Resumes, Foreign, Names, Rolling, Exchanging, Positions, Opens,
      Ended, Promoting, Serving, Passed
<1> QED
  BY <1>3, <1>4, <1>5, <1>6, <1>7, DiskStep DEF Lies

-----------------------------------------------------------------------------
(* Processes die and are started.                                          *)

LEMMA DiskProcessDies ==
    ASSUME Typed, Control, Disk, NEW p \in Servers, ProcessDies(p)
    PROVE  Disk'
<1> USE DoesProcessDies
<1>1. Still /\ head' = head /\ pins' = pins /\ saved' = saved /\ journal' = journal
      /\ record' = record
  BY DEF Still, repo, files
<1>2. ASSUME NEW c \in Candidates
      PROVE  Lies(c)'
  <2>1. Serving(c) /\ Positions(c) /\ Opens(c) /\ Lies(c)
    BY DEF Control, Disk
  <2>2. run'[c] = run[c] \/ (run'[c] = "lost" /\ run[c] \in Developing \cup Handing)
    BY DEF Active
  <2>3. /\ op'[Runner(c)] \in {op[Runner(c)], IdleManager}
        /\ op'[Heir(c)] \in {op[Heir(c)], IdleManager}
        /\ \/ heir'[c] = heir[c] /\ op'[Heir(c)] = op[Heir(c)]
           \/ heir'[c] = "none" /\ op'[Heir(c)] = IdleManager
    OBVIOUS
  <2>4. op'[Runner(c)] = op[Runner(c)] \/ run'[c] # "promote"
    BY DEF Active, Developing
  <2> HIDE DoesProcessDies
  <2>5. Stands(c)' => Fresh'
    BY <1>1, <2>1, <2>2, <2>3, <2>4, ControlFacts, ManagerShapes
    DEF Lies, Stands, Fresh, Foreign, Names, Verifying, Positions, Developing, Handing
  <2>6. Promotes(c)' /\ Unrecorded(c)'
    BY <1>1, <2>1, <2>2, <2>4 DEF Lies, Promotes, Unrecorded
  <2>7. RollsAlone(c)'
    BY <1>1, <2>1, <2>3, LeadsKept, ManagerShapes
    DEF Lies, RollsAlone, RollsBack, Rolling, Exchanging, Opens
  <2>8. Boots(c)' /\ Resumes(c)'
    BY <1>1, <2>1, <2>3, ManagerShapes
    DEF Lies, Boots, Resumes, Foreign, Names, Rolling, Exchanging, Opens
  <2> QED
    BY <2>5, <2>6, <2>7, <2>8 DEF Lies
<1>3. RecordsSound' /\ JournalSound' /\ PinsHold'
  BY <1>1, SharedFrame DEF Disk
<1> QED
  BY <1>2, <1>3 DEF Disk

LEMMA DiskRestart ==
    ASSUME Typed, Control, Disk, Restart \/ UNCHANGED improvementVars
    PROVE  Disk'
<1>1. /\ head' = head /\ pins' = pins /\ saved' = saved /\ journal' = journal /\ op' = op
      /\ run' = run /\ heir' = heir /\ record' = record
  BY DEF Restart, repo, files, own, improvementVars, life
<1>2. Still
  BY <1>1 DEF Still
<1>3. ASSUME NEW c \in Candidates
      PROVE  Lies(c)'
  <2>1. Lies(c)
    BY DEF Disk
  <2>2. (Stands(c)' => Fresh') /\ Promotes(c)' /\ Unrecorded(c)'
    BY <1>1, <2>1 DEF Lies, Stands, Fresh, Foreign, Names, Promotes, Unrecorded
  <2>3. RollsAlone(c)'
    BY <1>1, <1>2, <2>1, LeadsKept DEF Lies, RollsAlone, RollsBack
  <2>4. Boots(c)' /\ Resumes(c)'
    BY <1>1, <2>1 DEF Lies, Boots, Resumes, Foreign, Names
  <2> QED
    BY <2>2, <2>3, <2>4 DEF Lies
<1>4. RecordsSound' /\ JournalSound' /\ PinsHold'
  BY <1>2, SharedFrame DEF Disk
<1> QED
  BY <1>3, <1>4 DEF Disk

LEMMA DiskStarts ==
    ASSUME ImprovementInit
    PROVE  Disk
<1> USE DEF ImprovementInit, GenerationsInit
<1>1. IdleManager.at = "idle"
  BY DEF IdleManager, Working
<1>2. /\ saved.active = 0 /\ \A g \in Slots : saved.gens[g] = Blank
      /\ saved = NoGenerations /\ journal = NoJournal
  BY DEF NoGenerations
<1>3. RecordsSound /\ PinsHold /\ JournalSound
  BY <1>2 DEF RecordsSound, PinsHold, JournalSound, Commit
<1>4. ASSUME NEW c \in Candidates
      PROVE  Lies(c)
  <2>1. /\ run[c] = "none" /\ heir[c] = "none"
        /\ op[Runner(c)] = IdleManager /\ op[Heir(c)] = IdleManager
    BY ActorFacts
  <2>2. ~Stands(c)
    BY <2>1 DEF Stands, Verifying
  <2>3. Promotes(c) /\ RollsAlone(c) /\ Boots(c) /\ Resumes(c)
    BY <1>1, <2>1 DEF Promotes, RollsAlone, RollsBack, Boots, Resumes, Rolling, Exchanging
  <2>4. Unrecorded(c)
    BY <1>2, Constants DEF Unrecorded, IsRecorded, Commit
  <2> QED
    BY <2>2, <2>3, <2>4 DEF Lies
<1> QED
  BY <1>3, <1>4 DEF Disk

-----------------------------------------------------------------------------
(* A manager works.                                                        *)

\* Who works belongs to the one mission; what the other manager does.
LEMMA WorkerFacts ==
    ASSUME Typed, Control, Disk, NEW c \in Candidates
    PROVE  /\ op[Runner(c)].at \in Promoting =>
                 /\ run[c] = "promote" /\ heir[c] = "none" /\ op[Heir(c)] = IdleManager
                 /\ op[Runner(c)].commit = c /\ Engaged(c)
           /\ op[Runner(c)].at \in Rolling =>
                 /\ Engaged(c) /\ run[c] \in {"unpublish", "undo"}
                 /\ \/ heir[c] \in {"none", "ready"} /\ op[Heir(c)] = IdleManager
                    \/ run[c] = "undo" /\ heir[c] = "boot" /\ record[c] = "failed"
           /\ op[Heir(c)].at \in Promoting =>
                 /\ Engaged(c) /\ heir[c] = "check" /\ op[Heir(c)].at = "checkpoint"
                 /\ run[c] \in {"wait", "retire", "lost"} /\ op[Runner(c)] = IdleManager
                 /\ op[Heir(c)].mem = saved /\ op[Heir(c)].commit = NoCommit
                 /\ Fresh
           /\ op[Heir(c)].at \in Rolling =>
                 /\ Engaged(c) /\ heir[c] \in {"boot", "resume", "replace", "undo"}
                 /\ heir[c] # "boot" => /\ run[c] \in {"wait", "retire", "lost"}
                                        /\ op[Runner(c)] = IdleManager
                 /\ heir[c] # "undo" => op[Heir(c)].goal = 0
                 /\ heir[c] = "boot" /\ record[c] = "launching" => Fresh
                 /\ heir[c] = "boot" /\ record[c] # "launching" =>
                       run[c] \in {"undo", "close", "over", "stuck", "lost"}
                 /\ heir[c] = "resume" => Fresh
<1>1. Positions(c) /\ Opens(c) /\ Lies(c)
  BY DEF Control, Disk
<1>2. IdleManager.at = "idle"
  BY ManagerShapes
<1>3. op[Runner(c)].at \in Promoting =>
                 /\ run[c] = "promote" /\ heir[c] = "none" /\ op[Heir(c)] = IdleManager
                 /\ op[Runner(c)].commit = c /\ Engaged(c)
  BY <1>1, <1>2 DEF Positions, Opens, Promoting, Rolling, Exchanging, Ended, Engaged,
  Stranded, Acting,
                    Developing
<1>4. op[Runner(c)].at \in Rolling =>
                 /\ Engaged(c) /\ run[c] \in {"unpublish", "undo"}
                 /\ \/ heir[c] \in {"none", "ready"} /\ op[Heir(c)] = IdleManager
                    \/ run[c] = "undo" /\ heir[c] = "boot" /\ record[c] = "failed"
  BY <1>1, <1>2 DEF Positions, Opens, Promoting, Rolling, Exchanging, Ended, Engaged,
  Stranded, Acting,
                    Developing, Handing
<1>5. heir[c] \in {"check", "undo", "replace", "resume"} =>
          run[c] \in {"wait", "retire", "lost"} /\ op[Runner(c)] = IdleManager
  BY <1>1, ControlFacts DEF Positions, Opens, Developing, Handing
<1>6. op[Heir(c)].at \in Promoting =>
                 /\ Engaged(c) /\ heir[c] = "check" /\ op[Heir(c)].at = "checkpoint"
                 /\ op[Heir(c)].mem = saved /\ op[Heir(c)].commit = NoCommit
                 /\ Fresh
  <2>1. op[Heir(c)].at \in Promoting => heir[c] = "check"
    BY <1>1, <1>2 DEF Opens, Promoting, Rolling, Exchanging, Ended
  <2>2. op[Heir(c)].at \in Promoting => op[Heir(c)].at = "checkpoint"
    BY <1>1, <2>1 DEF Lies, Resumes, Promoting, Ended
  <2> QED
    BY <1>1, <1>5, <2>1, <2>2 DEF Lies, Resumes, Engaged, Stranded, Stands, Verifying
<1>7. op[Heir(c)].at \in Rolling =>
                 /\ Engaged(c) /\ heir[c] \in {"boot", "resume", "replace", "undo"}
                 /\ heir[c] # "undo" => op[Heir(c)].goal = 0
  BY <1>1, <1>2 DEF Opens, Promoting, Rolling, Exchanging, Ended, Engaged, Stranded
<1>8. /\ heir[c] = "boot" /\ record[c] = "launching" => Fresh
      /\ heir[c] = "boot" /\ record[c] # "launching" =>
            run[c] \in {"undo", "close", "over", "stuck", "lost"}
  BY <1>1, ControlFacts DEF Positions, Lies, Stands, Developing, Handing
<1>9. heir[c] = "resume" => Fresh
  BY <1>1, <1>5 DEF Lies, Stands, Verifying
<1> QED
  BY <1>3, <1>4, <1>5, <1>6, <1>7, <1>8, <1>9

\* Who has no part in a mission has nothing to do with the disk but that its
\* commit is not recorded yet.
LEMMA QuietLies ==
    ASSUME Typed', Control', NEW d \in Candidates, ~Engaged(d)', Unrecorded(d)'
    PROVE  Lies(d)'
<1>1. (Positions(d) /\ Opens(d))'
  BY DEF Control
<1>2. op'[Runner(d)] = IdleManager /\ op'[Heir(d)] = IdleManager
  BY <1>1 DEF Opens, Engaged, Stranded, Acting, Developing, Handing
<1>3. IdleManager.at = "idle"
  BY DEF IdleManager, Working
<1>4. /\ run'[d] \notin Acting
      /\ heir'[d] = "none" \/ (heir'[d] = "ready" /\ run'[d] \in {"over", "stuck"})
  BY DEF Engaged, Stranded
<1>5. ~Stands(d)'
  BY <1>4 DEF Stands, Verifying, Acting, Developing, Handing
<1>6. (Promotes(d) /\ RollsAlone(d) /\ Boots(d) /\ Resumes(d))'
  BY <1>2, <1>3, <1>4
  DEF Promotes, RollsAlone, RollsBack, Boots, Resumes, Rolling, Exchanging, Acting, Developing
<1> QED
  BY <1>5, <1>6 DEF Lies

\* What a manager has to keep for its own candidate.
LEMMA DiskWork ==
    ASSUME Typed, Control, Disk, Typed', Control', NEW c \in Candidates, Engaged(c),
           UNCHANGED life, \A d \in Candidates \ {c} : Unrecorded(d)', Lies(c)',
           RecordsSound', JournalSound', PinsHold'
    PROVE  Disk'
<1>1. ASSUME NEW d \in Candidates, d # c
      PROVE  Lies(d)'
  <2>1. ~Engaged(d)'
    BY <1>1 DEF Control, OneMission, Engaged, Stranded, life
  <2> QED
    BY <1>1, <2>1, QuietLies
<1> QED
  BY <1>1 DEF Disk

\* What other candidates are not recorded for.
LEMMA UnrecordedKept ==
    ASSUME Typed, Control, Disk, NEW c \in Candidates, Engaged(c), UNCHANGED life,
           \A a \in Actors : a \notin {Runner(c), Heir(c)} => op'[a] = op[a],
           \A d \in Candidates \ {c} : IsRecorded(saved, d)' => IsRecorded(saved, d)
    PROVE  \A d \in Candidates \ {c} : Unrecorded(d)'
<1>1. ASSUME NEW d \in Candidates, d # c
      PROVE  Unrecorded(d)'
  <2>1. Unrecorded(d)
    BY DEF Disk, Lies
  <2>2. op'[Runner(d)] = op[Runner(d)]
    BY <1>1, ActorFacts
  <2> QED
    BY <1>1, <2>1, <2>2 DEF Unrecorded, life
<1> QED
  BY <1>1

LEMMA GoesOthers ==
    ASSUME Typed, NEW a \in Actors, Goes(a)
    PROVE  \A b \in Actors : b # a => op'[b] = op[b]
  BY OpFacts DEF Goes

\* A promotion goes on.
LEMMA PromotionWorks ==
    ASSUME Typed, Control, Disk, Typed', Control', UNCHANGED life,
           NEW c \in Candidates, op[Runner(c)].at \in Promoting, Goes(Runner(c)),
           op'[Runner(c)].at = "done" => Fresh', Promotes(c)', Unrecorded(c)',
           \A d \in Candidates \ {c} : IsRecorded(saved, d)' => IsRecorded(saved, d),
           RecordsSound', JournalSound', PinsHold'
    PROVE  Disk'
<1>1. /\ run[c] = "promote" /\ heir[c] = "none" /\ op[Heir(c)] = IdleManager /\ Engaged(c)
  BY WorkerFacts
<1>2. \A b \in Actors : b # Runner(c) => op'[b] = op[b]
  BY GoesOthers, ActorFacts
<1>3. /\ run'[c] = "promote" /\ heir'[c] = "none" /\ op'[Heir(c)] = IdleManager
      /\ op'[Runner(c)].at \in Promoting \cup Ended
  BY <1>1, <1>2, ActorFacts DEF life, Goes, Follows
<1>4. \A d \in Candidates \ {c} : Unrecorded(d)'
  BY <1>1, <1>2, UnrecordedKept
<1>5. Stands(c)' => Fresh'
  BY <1>3 DEF Stands, Verifying
<1>6. IdleManager.at = "idle"
  BY ManagerShapes
<1>7. (RollsAlone(c) /\ Boots(c) /\ Resumes(c))'
  BY <1>3, <1>6 DEF RollsAlone, RollsBack, Boots, Resumes, Rolling, Exchanging, Promoting, Ended
<1> QED
  BY <1>1, <1>4, <1>5, <1>7, DiskWork DEF Lies

\* A rollback goes on.
LEMMA RollbackWorks ==
    ASSUME Typed, Control, Disk, Typed', Control', UNCHANGED life,
           NEW c \in Candidates, NEW a \in {Runner(c), Heir(c)}, op[a].at \in Rolling, Goes(a),
           Stands(c) => Fresh', saved'.gens = saved.gens,
           RollsAlone(c)', Boots(c)',
           heir[c] = "resume" => op'[Heir(c)].at \in {"recover", "done", "failed"},
           RecordsSound', JournalSound', PinsHold'
    PROVE  Disk'
<1>0. a \in Actors
  BY ActorFacts
<1>1. Engaged(c) /\ run[c] # "promote" /\ heir[c] # "check" /\ Opens(c)
  BY WorkerFacts, ActorFacts DEF Control, Positions
<1>2. \A b \in Actors : b # a => op'[b] = op[b]
  BY <1>0, GoesOthers
<1>3. op'[a].at \in {"plan"} \cup Exchanging \cup Ended
  BY DEF Goes, Follows
<1>4. \A d \in Candidates : IsRecorded(saved, d)' = IsRecorded(saved, d)
  BY DEF IsRecorded, Commit
<1>5. \A d \in Candidates \ {c} : Unrecorded(d)'
  BY <1>1, <1>2, <1>4, UnrecordedKept
<1>6. run'[c] = run[c] /\ heir'[c] = heir[c] /\ record'[c] = record[c]
  BY DEF life
<1>7. Stands(c)' => Fresh'
  BY <1>1, <1>6 DEF Stands
<1>8. Promotes(c)' /\ Unrecorded(c)'
  BY <1>1, <1>4, <1>6 DEF Promotes, Unrecorded, Disk, Lies
<1>9. op'[Heir(c)].at \notin {"held", "checkpoint"}
  <2>1. CASE a = Heir(c)
    BY <1>3, <2>1 DEF Exchanging, Ended
  <2>2. CASE a = Runner(c)
    <3>1. op'[Heir(c)] = op[Heir(c)]
      BY <1>2, <2>2, ActorFacts
    <3>2. op[Heir(c)] = IdleManager \/ heir[c] = "boot"
      BY <2>2, WorkerFacts
    <3> QED
      BY <1>1, <3>1, <3>2, ManagerShapes DEF Opens, Rolling, Exchanging, Ended
  <2> QED
    BY <2>1, <2>2
<1>10. Resumes(c)'
  BY <1>1, <1>6, <1>9 DEF Resumes
<1> QED
  BY <1>1, <1>5, <1>7, <1>8, <1>10, DiskWork DEF Lies

-----------------------------------------------------------------------------
(* Promotions.                                                             *)

LEMMA DiskCheckpoint ==
    ASSUME Typed, Control, Disk, Typed', Control', UNCHANGED life,
           NEW c \in Candidates, NEW a \in {Runner(c), Heir(c)}, Checkpoint(a)
    PROVE  Disk'
<1>0. a \in Actors
  BY ActorFacts
<1>1. op[a].at = "checkpoint" /\ op[a].at \in Promoting /\ CheckpointAdmitted(op[a].mem)
  BY DEF Checkpoint, OpAt, Promoting
<1>2. head' = head /\ saved' = saved /\ journal' = journal
  BY DEF Checkpoint, files
<1>3. CASE a = Runner(c)
  <2>1. /\ run[c] = "promote" /\ op[a].commit = c
    BY <1>1, <1>3, WorkerFacts
  <2>2. Promotes(c) /\ Unrecorded(c) /\ op[a].mem = saved /\ saved.active = 0
    BY <1>1, <1>3, <2>1 DEF Disk, Lies, Promotes
  <2>3. head # ActiveCommit(saved)
    BY <2>2, TypeFacts, Constants DEF ActiveCommit
  <2> DEFINE g == First(Allocatable(op[a].mem, {NoCommit}))
  <2>4. Turns(a, "publish", op[a].mem, g, op[a].plan)
    BY <1>0, <2>2, <2>3, GoesPinning
  <2>5. g \in Allocatable(saved, {NoCommit})
    <3>1. Allocatable(saved, {NoCommit}) # {}
      BY <1>1, <2>2, <2>3 DEF CheckpointAdmitted
    <3>2. Allocatable(saved, {NoCommit}) \in SUBSET Slots
      BY DEF Allocatable
    <3> QED
      BY <2>2, <3>1, <3>2, FirstIsIn
  <2>6. pins' = [pins EXCEPT ![g] = head]
    BY <2>2, <2>3 DEF Checkpoint
  <2>7. run'[c] = run[c]
    BY DEF life
  <2> HIDE DEF g
  <2>8. g \in Slots /\ g >= saved.next /\ saved.gens[g] = Blank
    BY <2>5 DEF Allocatable
  <2>9. Promotes(c)' /\ op'[Runner(c)].at = "publish"
    BY <1>2, <1>3, <2>1, <2>2, <2>4, <2>6, <2>7, <2>8, TypeFacts DEF Promotes, Turns
  <2>10. Unrecorded(c)'
    BY <1>1, <1>2, <1>3, <2>1, <2>2, <2>7 DEF Unrecorded
  <2>11. PinsHold'
    BY <1>2, <2>6, <2>8, TypeFacts DEF PinsHold, Disk
  <2>12. RecordsSound' /\ JournalSound'
    BY <1>2 DEF Disk, RecordsSound, JournalSound, Leads, Names
  <2> QED
    BY <1>1, <1>2, <1>3, <2>4, <2>9, <2>10, <2>11, <2>12, PromotionWorks DEF Turns, IsRecorded
<1>4. CASE a = Heir(c)
  <2>1. /\ Engaged(c) /\ heir[c] = "check" /\ run[c] \in {"wait", "retire", "lost"}
        /\ op[Runner(c)] = IdleManager /\ op[a].mem = saved /\ op[a].commit = NoCommit /\ Fresh
    BY <1>1, <1>4, WorkerFacts
  <2>2. head = ActiveCommit(op[a].mem) /\ AfterCheckpoint(op[a]) = "done"
    BY <2>1 DEF Fresh, AfterCheckpoint
  <2>3. Turns(a, "done", op[a].mem, op[a].slot, op[a].plan)
    BY <1>0, <2>2, GoesCheckpointed
  <2>4. pins' = pins
    BY <2>2 DEF Checkpoint
  <2>5. Still
    BY <1>2, <2>4 DEF Still
  <2>6. \A b \in Actors : b # a => op'[b] = op[b]
    BY <1>0, <2>3, GoesOthers DEF Turns
  <2>7. /\ run'[c] = run[c] /\ heir'[c] = heir[c] /\ op'[Runner(c)] = IdleManager
        /\ op'[a].at = "done"
    BY <1>4, <2>1, <2>3, <2>6, ActorFacts DEF life, Turns
  <2>8. IdleManager.at = "idle"
    BY ManagerShapes
  <2>9. Lies(c)'
    <3>1. Fresh'
      BY <1>2, <2>1 DEF Fresh, Foreign, Names
    <3>2. (Promotes(c) /\ Unrecorded(c))'
      BY <2>1, <2>7 DEF Promotes, Unrecorded
    <3>3. RollsAlone(c)' /\ Boots(c)' /\ Resumes(c)'
      BY <1>4, <2>1, <2>7, <2>8
      DEF RollsAlone, RollsBack, Boots, Resumes, Rolling, Exchanging, Ended
    <3> QED
      BY <3>1, <3>2, <3>3 DEF Lies
  <2>10. \A d \in Candidates \ {c} : Unrecorded(d)'
    BY <1>2, <1>4, <2>1, <2>6, UnrecordedKept DEF IsRecorded
  <2> QED
    BY <2>1, <2>5, <2>9, <2>10, SharedFrame, DiskWork DEF Disk
<1> QED
  BY <1>3, <1>4

\* The steps after it belong to a run.
LEMMA RunnerOnly ==
    ASSUME Typed, Control, Disk, NEW c \in Candidates, NEW a \in {Runner(c), Heir(c)},
           op[a].at \in Promoting, op[a].at # "checkpoint"
    PROVE  /\ a = Runner(c) /\ run[c] = "promote" /\ op[a].commit = c /\ op[a].mem = saved
           /\ Promotes(c) /\ ~IsRecorded(saved, c)
<1>1. a = Runner(c) /\ run[c] = "promote" /\ op[a].commit = c
  BY WorkerFacts
<1> QED
  BY <1>1 DEF Disk, Lies, Promotes, Unrecorded, Promoting

LEMMA DiskPublishCheckpoint ==
    ASSUME Typed, Control, Disk, Typed', Control', UNCHANGED life,
           NEW c \in Candidates, NEW a \in {Runner(c), Heir(c)}, PublishCheckpoint(a)
    PROVE  Disk'
<1>0. a \in Actors /\ op[a].at = "publish" /\ op[a].at \in Promoting
  BY ActorFacts DEF PublishCheckpoint, OpAt, Promoting
<1>1. /\ a = Runner(c) /\ run[c] = "promote" /\ op[a].commit = c /\ op[a].mem = saved
      /\ Promotes(c) /\ ~IsRecorded(saved, c)
  BY <1>0, RunnerOnly
<1> DEFINE g == op[a].slot
           m == With(saved, g, head)
<1>2. g \in Slots /\ pins[g] = head /\ saved.active = 0 /\ saved = NoGenerations /\ head = Root
  BY <1>0, <1>1 DEF PublishCheckpoint, Promotes, Disk, RecordsSound
<1>3. Turns(a, "activate", m, g, op[a].plan)
  <2>1. AfterCheckpoint(op[a]) = "activate"
    BY <1>1, Constants DEF AfterCheckpoint
  <2> QED
    BY <1>0, <1>1, <1>2, <2>1, GoesPublish
<1>4. saved' = m /\ UNCHANGED <<head, pins, journal>>
  BY <1>1, <1>2 DEF PublishCheckpoint, repo
<1>5. /\ m.active = g /\ m.next = g + 1
      /\ m.gens[g] = [commit |-> head, parent |-> 0]
      /\ \A h \in Slots : h # g => m.gens[h] = Blank
      /\ ActiveCommit(m) = head
  <2>1. m.active = g /\ m.next = g + 1
    BY <1>2, TypeFacts, WithShape
  <2>2. /\ m.gens[g] = [commit |-> head, parent |-> saved.active]
        /\ \A h \in Slots : h # g => m.gens[h] = saved.gens[h]
        /\ ActiveCommit(m) = head
    BY <1>2, TypeFacts, WithFacts
  <2> QED
    BY <1>2, <2>1, <2>2 DEF NoGenerations
<1> HIDE DEF m
<1>6. journal = NoJournal
  BY <1>2 DEF Disk, JournalSound, Leads, Names, NoGenerations
<1>7. RecordsSound' /\ JournalSound' /\ PinsHold'
  <2>1. g # 0 /\ g \in Nat /\ head # NoCommit /\ Blank.commit = NoCommit /\ 0 < g
    BY <1>2, Constants, TypeFacts
  <2>2. m.gens[g] # Blank /\ Commit(m, g) = head
    BY <1>5, <2>1 DEF Commit
  <2>3. \A h \in Slots : m.gens[h] # Blank => h = g
    BY <1>5
  <2>4. RecordsSound'
    BY <1>4, <1>5, <2>1, <2>2, <2>3 DEF RecordsSound
  <2>5. PinsHold'
    BY <1>2, <1>4, <2>2, <2>3 DEF PinsHold
  <2> QED
    BY <1>4, <1>6, <2>4, <2>5 DEF JournalSound
<1>8. \A d \in Candidates : ~IsRecorded(saved, d)'
  BY <1>2, <1>4, <1>5, Constants DEF IsRecorded, Commit
<1>9. run'[c] = run[c]
  BY DEF life
<1>10. Promotes(c)' /\ Unrecorded(c)' /\ op'[Runner(c)].at = "activate"
  BY <1>1, <1>2, <1>3, <1>4, <1>5, <1>8, <1>9, Constants DEF Promotes, Unrecorded, Turns
<1> QED
  BY <1>0, <1>1, <1>3, <1>7, <1>8, <1>10, PromotionWorks DEF Turns

LEMMA DiskActivate ==
    ASSUME Typed, Control, Disk, Typed', Control', UNCHANGED life,
           NEW c \in Candidates, NEW a \in {Runner(c), Heir(c)}, Activate(a)
    PROVE  Disk'
<1>0. a \in Actors /\ op[a].at = "activate" /\ op[a].at \in Promoting
      /\ ActivationAdmitted(op[a].mem, op[a].commit)
  BY ActorFacts DEF Activate, OpAt, Promoting
<1>1. /\ a = Runner(c) /\ run[c] = "promote" /\ op[a].commit = c /\ op[a].mem = saved
      /\ Promotes(c) /\ ~IsRecorded(saved, c)
  BY <1>0, RunnerOnly
<1>2. ~AlreadyActive(saved, c) /\ saved.active # 0
  <2>1. saved.active # 0
    BY <1>0, <1>1 DEF Promotes
  <2>2. saved.active \in Slots
    BY <2>1, TypeFacts, Constants DEF RepositoryState
  <2> QED
    BY <1>1, <2>1, <2>2 DEF AlreadyActive, ActiveCommit, IsRecorded
<1> DEFINE g == First(Allocatable(saved, {NoCommit, c}))
<1>3. Turns(a, "forward", saved, g, op[a].plan)
  BY <1>0, <1>1, <1>2, GoesActivating
<1>4. g \in Allocatable(saved, {NoCommit, c})
  <2>1. Allocatable(saved, {NoCommit, c}) # {}
    BY <1>0, <1>1, <1>2 DEF ActivationAdmitted
  <2>2. Allocatable(saved, {NoCommit, c}) \in SUBSET Slots
    BY DEF Allocatable
  <2> QED
    BY <2>1, <2>2, FirstIsIn
<1>5. pins' = [pins EXCEPT ![g] = c] /\ UNCHANGED <<head, saved, journal>>
  BY <1>1, <1>2 DEF Activate, files
<1> HIDE DEF g
<1>6. g \in Slots /\ g >= saved.next /\ saved.gens[g] = Blank
  BY <1>4 DEF Allocatable
<1>7. run'[c] = run[c]
  BY DEF life
<1>8. pins'[g] = c /\ \A h \in Slots : h # g => pins'[h] = pins[h]
  BY <1>5, <1>6, TypeFacts
<1>9. Promotes(c)' /\ Unrecorded(c)' /\ op'[Runner(c)].at = "forward"
  BY <1>1, <1>2, <1>3, <1>5, <1>6, <1>7, <1>8, Constants DEF Promotes, Unrecorded, Turns
<1>10. RecordsSound' /\ JournalSound'
  BY <1>5 DEF Disk, RecordsSound, JournalSound, Leads, Names
<1>11. PinsHold'
  BY <1>5, <1>6, <1>8 DEF PinsHold, Disk
<1> QED
  BY <1>0, <1>1, <1>3, <1>5, <1>9, <1>10, <1>11, PromotionWorks DEF Turns, IsRecorded

LEMMA DiskForward ==
    ASSUME Typed, Control, Disk, Typed', Control', UNCHANGED life,
           NEW c \in Candidates, NEW a \in {Runner(c), Heir(c)}, Forward(a) \/ Restore(a)
    PROVE  Disk'
<1>0. a \in Actors /\ op[a].at \in {"forward", "restore"} /\ op[a].at \in Promoting
  BY ActorFacts DEF Forward, Restore, OpAt, Promoting
<1>1. /\ a = Runner(c) /\ run[c] = "promote" /\ op[a].commit = c /\ op[a].mem = saved
      /\ Promotes(c) /\ ~IsRecorded(saved, c)
  BY <1>0, RunnerOnly
<1>2. UNCHANGED <<pins, saved, journal>> /\ saved.active # 0
  BY <1>0, <1>1 DEF Forward, Restore, files, Promotes
<1>3. /\ Goes(a) /\ op'[a].at \in {"record", "unpin"}
      /\ op'[a].at = "record" => op[a].at = "forward"
      /\ op'[a].mem = saved /\ op'[a].slot = op[a].slot /\ op'[a].commit = c
  BY <1>0, <1>1, GoesForward, GoesRestore DEF Turns, Forward, Restore, OpAt
<1>4. run'[c] = run[c]
  BY DEF life
<1>5. op[a].slot \in Slots /\ saved.gens[op[a].slot] = Blank /\ pins[op[a].slot] = c
      /\ op[a].slot >= saved.next
  BY <1>0, <1>1 DEF Promotes
<1>6. Promotes(c)' /\ Unrecorded(c)'
  BY <1>1, <1>2, <1>3, <1>4, <1>5, Constants DEF Promotes, Unrecorded
<1>7. RecordsSound' /\ JournalSound' /\ PinsHold'
  BY <1>2 DEF Disk, RecordsSound, JournalSound, PinsHold, Leads, Names
<1> QED
  BY <1>0, <1>1, <1>2, <1>3, <1>6, <1>7, PromotionWorks DEF IsRecorded

LEMMA DiskUnpin ==
    ASSUME Typed, Control, Disk, Typed', Control', UNCHANGED life,
           NEW c \in Candidates, NEW a \in {Runner(c), Heir(c)}, Unpin(a)
    PROVE  Disk'
<1>0. a \in Actors /\ op[a].at = "unpin" /\ op[a].at \in Promoting
  BY ActorFacts DEF Unpin, OpAt, Promoting
<1>1. /\ a = Runner(c) /\ run[c] = "promote" /\ op[a].commit = c /\ op[a].mem = saved
      /\ Promotes(c) /\ ~IsRecorded(saved, c)
  BY <1>0, RunnerOnly
<1>2. UNCHANGED <<head, saved, journal>> /\ pins' = [pins EXCEPT ![op[a].slot] = NoCommit]
  BY DEF Unpin, files
<1>3. Turns(a, "failed", op[a].mem, op[a].slot, op[a].plan)
  BY <1>0, GoesUnpin
<1>4. run'[c] = run[c]
  BY DEF life
<1>5. op[a].slot \in Slots /\ saved.gens[op[a].slot] = Blank
  BY <1>0, <1>1 DEF Promotes
<1>6. Promotes(c)' /\ Unrecorded(c)'
  BY <1>1, <1>2, <1>3, <1>4 DEF Promotes, Unrecorded, Turns
<1>7. RecordsSound' /\ JournalSound'
  BY <1>2 DEF Disk, RecordsSound, JournalSound, Leads, Names
<1>8. PinsHold'
  BY <1>2, <1>5, TypeFacts DEF PinsHold, Disk
<1> QED
  BY <1>0, <1>1, <1>2, <1>3, <1>6, <1>7, <1>8, PromotionWorks DEF Turns, IsRecorded

\* A slot that is next or later is free.
LEMMA NextIsFree ==
    ASSUME Typed, RecordsSound, NEW g \in Slots, g >= saved.next, saved.gens[g] = Blank
    PROVE  Free(saved, g) /\ saved.active # g
<1>1. ASSUME NEW h \in Slots
      PROVE  saved.gens[h].parent # g
  <2>1. saved.gens[h].parent \in 0 .. LastSlot /\ h \in Nat /\ g \in Nat /\ g # 0
        /\ saved.next \in Nat
    BY TypeFacts, Constants DEF RepositoryState, Generation
  <2>2. CASE saved.gens[h] = Blank
    BY <2>1, <2>2, Constants
  <2>3. CASE saved.gens[h] # Blank
    <3>1. h < saved.next /\ saved.gens[h].parent < h
      BY <2>3 DEF RecordsSound
    <3> QED
      BY <2>1, <3>1
  <2> QED
    BY <2>2, <2>3
<1>2. saved.active # g
  BY Constants DEF RecordsSound
<1> QED
  BY <1>1, <1>2 DEF Free

\* What is led to is so when a generation is added.
LEMMA LeadsWith ==
    ASSUME Typed, RecordsSound, NEW g, Free(saved, g), NEW c \in Commits,
           saved' = With(saved, g, c), NEW p \in Rollback, Leads(p)
    PROVE  Leads(p)' /\ g \notin Names(p)
<1>1. \A h \in Names(p) : h \in Slots /\ saved.gens[h] # Blank /\ h # g /\ h \in Nat
  BY Constants DEF Leads, Free
<1>2. g \in Slots /\ \A h \in Slots : h # g => saved'.gens[h] = saved.gens[h]
  BY TypeFacts, WithFacts DEF Free
<1>3. LineOf(saved', p.from) = LineOf(saved, p.from)
  BY <1>1, TypeFacts, LineKept DEF Names
<1> QED
  BY <1>1, <1>2, <1>3 DEF Leads, Names

LEMMA DiskRecord ==
    ASSUME Typed, Control, Disk, Typed', Control', UNCHANGED life,
           NEW c \in Candidates, NEW a \in {Runner(c), Heir(c)}, Record(a)
    PROVE  Disk'
<1>0. a \in Actors /\ op[a].at = "record" /\ op[a].at \in Promoting
  BY ActorFacts DEF Record, OpAt, Promoting
<1>1. /\ a = Runner(c) /\ run[c] = "promote" /\ op[a].commit = c /\ op[a].mem = saved
      /\ Promotes(c) /\ ~IsRecorded(saved, c)
  BY <1>0, RunnerOnly
<1> DEFINE g == op[a].slot
           m == With(saved, g, c)
<1>2. /\ g \in Slots /\ pins[g] = c /\ saved.active # 0 /\ head = c /\ saved.gens[g] = Blank
      /\ g >= saved.next
  BY <1>0, <1>1 DEF Record, Promotes
<1>3. Turns(a, "done", m, g, op[a].plan)
  BY <1>0, <1>1, GoesRecord
<1>4. saved' = m /\ UNCHANGED <<head, pins, journal>> /\ c \in Commits
  BY <1>1, Constants DEF Record, repo
<1>5. /\ m.active = g /\ m.next = g + 1
      /\ m.gens[g] = [commit |-> c, parent |-> saved.active]
      /\ \A h \in Slots : h # g => m.gens[h] = saved.gens[h]
      /\ ActiveCommit(m) = c /\ Commit(m, g) = c
  <2>1. m.active = g /\ m.next = g + 1
    BY <1>2, <1>4, TypeFacts, WithShape
  <2>2. /\ m.gens[g] = [commit |-> c, parent |-> saved.active]
        /\ \A h \in Slots : h # g => m.gens[h] = saved.gens[h]
        /\ ActiveCommit(m) = c /\ Commit(m, g) = c
    BY <1>2, <1>4, TypeFacts, WithFacts
  <2> QED
    BY <2>1, <2>2
<1>6. Free(saved, g) /\ saved.active # g
  BY <1>2, NextIsFree DEF Disk
<1>7. JournalSound' /\ (journal # NoJournal => g \notin Names(journal))
  <2>1. journal # NoJournal => Leads(journal)' /\ g \notin Names(journal)
    BY <1>4, <1>6, TypeFacts, LeadsWith DEF Disk, JournalSound
  <2> QED
    BY <1>4, <2>1 DEF JournalSound, Leads, Names
<1> HIDE DEF m
<1>8. RecordsSound'
  <2>1. g # 0 /\ g \in Nat /\ saved.active \in Slots /\ saved.next \in Nat /\ c # NoCommit
    BY <1>2, Constants, TypeFacts DEF RepositoryState
  <2>2. saved.active < saved.next /\ saved.active \in Nat
    BY <1>2, <2>1, Constants DEF Disk, RecordsSound
  <2>3. m.gens[g] # Blank /\ m.gens[g].parent < g
    BY <1>2, <1>5, <2>1, <2>2, Constants
  <2>4. ASSUME NEW h \in Slots, m.gens[h] # Blank
        PROVE  Commit(m, h) # NoCommit /\ h < m.next /\ m.gens[h].parent < h
    <3>1. CASE h = g
      BY <1>5, <2>1, <2>3, <3>1
    <3>2. CASE h # g
      <4>1. saved.gens[h] # Blank /\ m.gens[h] = saved.gens[h]
        BY <1>5, <2>4, <3>2
      <4>2. Commit(saved, h) # NoCommit /\ h < saved.next /\ saved.gens[h].parent < h
        BY <4>1 DEF Disk, RecordsSound
      <4>3. h < m.next
        BY <1>2, <1>5, <2>1, <4>2, Constants
      <4> QED
        BY <4>1, <4>2, <4>3 DEF Commit
    <3> QED
      BY <3>1, <3>2
  <2> QED
    BY <1>4, <1>5, <2>1, <2>3, <2>4 DEF RecordsSound
<1>9. PinsHold'
  BY <1>2, <1>4, <1>5 DEF PinsHold, Disk, Commit
<1>10. \A d \in Candidates \ {c} : IsRecorded(saved, d)' => IsRecorded(saved, d)
  BY <1>4, <1>5 DEF IsRecorded, Commit
<1>11. Fresh'
  BY <1>2, <1>4, <1>5, <1>7, Constants DEF Fresh, Foreign, Names
<1>12. run'[c] = run[c]
  BY DEF life
<1>13. Promotes(c)' /\ Unrecorded(c)'
  BY <1>1, <1>2, <1>3, <1>4, <1>5, <1>12, Constants DEF Promotes, Unrecorded, Turns
<1> QED
  BY <1>0, <1>1, <1>3, <1>7, <1>8, <1>9, <1>10, <1>11, <1>13, PromotionWorks DEF Turns

-----------------------------------------------------------------------------
(* Rollbacks.                                                              *)

\* Two states of the repository are the same when their parts are.
LEMMA SameState ==
    ASSUME NEW s \in RepositoryState, NEW t \in RepositoryState,
           s.active = t.active, s.next = t.next, s.gens = t.gens
    PROVE  s = t
<1>1. /\ s = [active |-> s.active, next |-> s.next, gens |-> s.gens]
      /\ t = [active |-> t.active, next |-> t.next, gens |-> t.gens]
  BY DEF RepositoryState
<1> QED
  BY <1>1

\* What a rollback that works finds.
LEMMA RollerFacts ==
    ASSUME Typed, Control, Disk, NEW c \in Candidates, NEW a \in {Runner(c), Heir(c)},
           op[a].at \in Rolling
    PROVE  /\ a \in Actors /\ Lies(c) /\ RollsBack(a)
           /\ op[a].mem.gens = saved.gens /\ op[a].mem.next = saved.next
           /\ \A g : Commit(op[a].mem, g) = Commit(saved, g)
           /\ op[a].mem \in RepositoryState
           /\ a = Runner(c) => run[c] \in {"unpublish", "undo"} /\ ~Stands(c)
           /\ a = Runner(c) => \/ heir[c] \in {"none", "ready"} /\ op[Heir(c)] = IdleManager
                               \/ run[c] = "undo" /\ heir[c] = "boot" /\ record[c] = "failed"
           /\ a = Heir(c) => heir[c] \in {"boot", "resume", "replace", "undo"}
           /\ a = Heir(c) /\ heir[c] # "boot" => op[Runner(c)] = IdleManager
           /\ a = Heir(c) /\ heir[c] # "undo" => op[a].goal = 0
           /\ a = Heir(c) /\ heir[c] \in {"undo", "replace"} => ~Stands(c)
           /\ a = Heir(c) /\ heir[c] = "boot" /\ record[c] # "launching" => ~Stands(c)
           /\ Stands(c) => Fresh /\ op[a].at = "recover" /\ op[a].mem = saved
<1>1. a \in Actors /\ Lies(c) /\ RollsBack(a) /\ Positions(c) /\ Opens(c)
  BY ActorFacts DEF Disk, Lies, RollsAlone, Control
<1>2. op[a].mem.gens = saved.gens /\ op[a].mem.next = saved.next
  BY <1>1 DEF RollsBack
<1>3. a = Runner(c) => run[c] \in {"unpublish", "undo"} /\ ~Stands(c)
  <2>1. a = Runner(c) => run[c] \in {"unpublish", "undo"}
    BY WorkerFacts
  <2> QED
    BY <2>1 DEF Stands
<1>4. a = Heir(c) /\ heir[c] \in {"undo", "replace"} => ~Stands(c)
  <2>1. a = Heir(c) /\ heir[c] \in {"undo", "replace"} => run[c] \in {"wait", "retire", "lost"}
    BY WorkerFacts
  <2> QED
    BY <2>1 DEF Stands, Verifying
<1>5. a = Heir(c) /\ heir[c] = "boot" /\ record[c] # "launching" => ~Stands(c)
  <2>1. a = Heir(c) /\ heir[c] = "boot" /\ record[c] # "launching" =>
           run[c] \in {"undo", "close", "over", "stuck", "lost"}
    BY WorkerFacts
  <2> QED
    BY <2>1 DEF Stands, Verifying
<1>6. Stands(c) => Fresh /\ op[a].at = "recover" /\ op[a].mem = saved
  <2>1. SUFFICES ASSUME Stands(c)
                 PROVE  op[a].at = "recover" /\ op[a].mem = saved
    BY <1>1 DEF Lies
  <2>2. a = Heir(c) /\ heir[c] \in {"boot", "resume"}
    BY <1>3, <1>4, <2>1, WorkerFacts
  <2>3. CASE heir[c] = "resume"
    BY <1>1, <2>2, <2>3 DEF Lies, Resumes, RollsAlone, Rolling, Exchanging
  <2>4. CASE heir[c] = "boot"
    BY <1>1, <1>5, <2>1, <2>2, <2>4 DEF Lies, Boots, Rolling, Exchanging
  <2> QED
    BY <2>2, <2>3, <2>4
<1> QED
  BY <1>1, <1>2, <1>3, <1>4, <1>5, <1>6, WorkerFacts, TypeFacts DEF Commit

LEMMA DiskRecover ==
    ASSUME Typed, Control, Disk, Typed', Control', UNCHANGED life,
           NEW c \in Candidates, NEW a \in {Runner(c), Heir(c)}, Recover(a)
    PROVE  Disk'
<1>0. a \in Actors /\ op[a].at = "recover" /\ op[a].at \in Rolling
  BY ActorFacts DEF Recover, OpAt, Rolling
<1>1. Still /\ UNCHANGED <<head, saved, journal, pins>>
  BY DEF Recover, Still, repo, files
<1>2. Turns(a, Recovers(a), op[a].mem, op[a].slot, journal)
  BY <1>0, GoesRecover
<1>3. /\ Lies(c) /\ RollsBack(a)
      /\ op[a].mem.gens = saved.gens /\ op[a].mem.next = saved.next
      /\ \A g : Commit(op[a].mem, g) = Commit(saved, g)
      /\ op[a].mem \in RepositoryState
  BY <1>0, RollerFacts
<1>4. \A b \in Actors : b # a => op'[b] = op[b]
  BY <1>0, <1>2, GoesOthers DEF Turns
<1>5. ASSUME journal = NoJournal
      PROVE  /\ op'[a].at \in {"done", "plan"}
             /\ op'[a].at = "plan" => op[a].goal # 0
  BY <1>2, <1>5 DEF Turns, Recovers, AfterRecovery
<1>6. ASSUME journal # NoJournal
      PROVE  /\ saved.active \in Names(journal) /\ Leads(journal)
             /\ op'[a].at \in Exchanging
             /\ op'[a].at \in {"move", "unjournal"} => head = Commit(saved, journal.to)
             /\ op'[a].at = "unjournal" => op[a].mem.active = journal.to
                                           /\ saved.active = journal.to
  <2>1. Resumable(op[a].mem, journal)
    BY <1>6 DEF Recover
  <2>2. Leads(journal)
    BY <1>6 DEF Disk, JournalSound
  <2>3. /\ op'[a].at \in Exchanging
        /\ op'[a].at \in {"move", "unjournal"} => head # Commit(saved, journal.from)
        /\ op'[a].at = "unjournal" => op[a].mem.active = journal.to
    BY <1>2, <1>3, <1>6 DEF Turns, Recovers, Exchanging
  <2>4. op'[a].at \in {"move", "unjournal"} => head = Commit(saved, journal.to)
    BY <1>3, <2>1, <2>3 DEF Resumable
  <2>5. \/ op[a].mem = saved
        \/ journal.from = op[a].mem.active /\ journal.to = saved.active
    BY <1>0, <1>3, <1>6 DEF Lies, RollsAlone, Boots
  <2>6. saved.active \in Names(journal)
    BY <2>1, <2>5 DEF Resumable, Names
  <2>7. op'[a].at = "unjournal" => saved.active = journal.to
    BY <2>3, <2>5
  <2> QED
    BY <2>2, <2>3, <2>4, <2>6, <2>7
<1>7. /\ op'[a].plan = journal /\ op'[a].mem = op[a].mem /\ op'[a].goal = op[a].goal
  BY <1>2 DEF Turns
<1>8. RollsBack(a)'
  <2>1. op'[a].at \in Rolling => op'[a].mem.gens = saved'.gens /\ op'[a].mem.next = saved'.next
    BY <1>1, <1>3, <1>7
  <2>2. op'[a].at \in Exchanging =>
          /\ Leads(op[a].plan)' /\ saved'.active \in Names(op'[a].plan)
          /\ op'[a].at \in {"reset", "move"} => journal' = op'[a].plan \/ saved'.active = op'[a].plan.to
          /\ op'[a].at \in {"move", "unjournal"} => head' = Commit(saved', op'[a].plan.to)
          /\ op'[a].at = "unjournal" =>
                saved'.active = op'[a].plan.to /\ op'[a].mem.active = op'[a].plan.to
    <3>1. SUFFICES ASSUME op'[a].at \in Exchanging
                   PROVE  /\ Leads(journal)' /\ saved'.active \in Names(journal)
                          /\ op'[a].at \in {"move", "unjournal"} => head' = Commit(saved', journal.to)
                          /\ op'[a].at = "unjournal" =>
                                saved'.active = journal.to /\ op[a].mem.active = journal.to
      BY <1>1, <1>7 DEF Leads, Names
    <3>2. journal # NoJournal
      BY <1>5, <3>1 DEF Exchanging
    <3>3. Leads(journal)'
      BY <1>1, <1>6, <3>2, LeadsKept
    <3> QED
      BY <1>1, <1>6, <3>2, <3>3
  <2> QED
    BY <2>1, <2>2 DEF RollsBack
<1>9. run'[c] = run[c] /\ heir'[c] = heir[c] /\ record'[c] = record[c]
  BY DEF life
<1>10. CASE a = Runner(c)
  <2>1. /\ op[a].mem = saved /\ op'[Heir(c)] = op[Heir(c)]
        /\ \/ heir[c] \in {"none", "ready"} /\ op[Heir(c)] = IdleManager
           \/ run[c] = "undo" /\ heir[c] = "boot" /\ record[c] = "failed"
    BY <1>0, <1>3, <1>4, <1>10, ActorFacts, RollerFacts DEF Lies, RollsAlone
  <2>2. RollsBack(Heir(c))'
    <3>1. RollsBack(Heir(c))
      BY <1>3 DEF Lies, RollsAlone
    <3> QED
      BY <1>1, <2>1, <3>1, LeadsKept DEF RollsBack
  <2>3. RollsAlone(c)'
    BY <1>1, <1>3, <1>7, <1>8, <1>9, <1>10, <2>1, <2>2 DEF RollsAlone, Lies
  <2>4. heir[c] = "boot" => journal = NoJournal
    BY <1>0, <1>3, <1>6, <1>10 DEF Lies, Boots, Foreign
  <2>5. Boots(c)'
    BY <1>1, <1>3, <1>0, <1>5, <1>7, <1>9, <1>10, <2>1, <2>4 DEF Lies, Boots, Foreign, Exchanging
  <2>6. ~Stands(c) /\ heir[c] # "resume"
    BY <1>0, <1>10, <2>1, RollerFacts
  <2> QED
    BY <1>0, <1>1, <1>2, <2>3, <2>5, <2>6, RollbackWorks, SharedFrame DEF Turns, Disk
<1>11. CASE a = Heir(c)
  <2>1. /\ heir[c] \in {"boot", "resume", "replace", "undo"}
        /\ heir[c] # "boot" => op[Runner(c)] = IdleManager /\ op[a].mem = saved
        /\ heir[c] # "undo" => op[a].goal = 0
        /\ op'[Runner(c)] = op[Runner(c)]
    BY <1>0, <1>3, <1>4, <1>11, ActorFacts, RollerFacts DEF Lies, RollsAlone
  <2>2. RollsBack(Runner(c))'
    <3>1. RollsBack(Runner(c))
      BY <1>3 DEF Lies, RollsAlone
    <3> QED
      BY <1>1, <2>1, <3>1, LeadsKept DEF RollsBack
  <2>3. op'[a].at = "plan" => heir[c] = "undo"
    BY <1>5, <1>6, <2>1 DEF Exchanging
  <2>4. RollsAlone(c)'
    BY <1>1, <1>3, <1>7, <1>8, <1>9, <1>11, <2>1, <2>2, <2>3 DEF RollsAlone, Lies
  <2>5. Stands(c) => Fresh /\ journal = NoJournal
    <3>1. Stands(c) => Fresh /\ op[a].mem = saved
      BY <1>0, RollerFacts
    <3> QED
      BY <1>6, <3>1 DEF Fresh, Foreign
  <2>6. Stands(c) => Fresh'
    BY <1>1, <2>5 DEF Fresh, Foreign, Names
  <2>7. heir[c] = "resume" => op'[a].at = "done"
    <3>1. heir[c] = "resume" => Stands(c)
      <4>1. heir[c] = "resume" => run[c] \in {"wait", "retire", "lost"}
        BY <1>0, <1>11, WorkerFacts
      <4> QED
        BY <4>1 DEF Stands, Verifying
    <3> QED
      BY <1>5, <2>3, <2>5, <3>1
  <2>8. heir[c] = "boot" /\ (record[c] = "launching" \/ op[Runner(c)].at \in {"recover", "plan"})
        => op'[a].at = "done"
    <3>1. heir[c] = "boot" /\ record[c] = "launching" => journal = NoJournal
      <4>1. heir[c] = "boot" /\ record[c] = "launching" => Fresh /\ op[a].mem = saved
        BY <1>0, <1>3, <1>11, WorkerFacts DEF Lies, Boots
      <4> QED
        BY <1>6, <4>1 DEF Fresh, Foreign
    <3>2. heir[c] = "boot" /\ op[Runner(c)].at \in {"recover", "plan"} => journal = NoJournal
      BY <1>3, <1>6 DEF Lies, Boots, Foreign
    <3> QED
      BY <1>5, <2>3, <3>1, <3>2
  <2>9. Boots(c)'
    <3>1. SUFFICES ASSUME heir[c] = "boot"
                   PROVE  Boots(c)'
      BY <1>9 DEF Boots
    <3>2. op'[a].at # "recover"
      BY <1>5, <1>6 DEF Exchanging
    <3>3. op'[a].at \in Exchanging /\ op[Runner(c)].at \in Exchanging => journal = op[Runner(c)].plan
      BY <1>0, <1>3, <1>11, <3>1 DEF Lies, Boots
    <3>4. Boots(c)
      BY <1>3 DEF Lies
    <3> QED
      BY <1>1, <1>7, <1>9, <1>11, <2>1, <2>8, <3>1, <3>2, <3>3, <3>4 DEF Boots, Foreign, Names
  <2> QED
    BY <1>0, <1>1, <1>2, <1>11, <2>4, <2>6, <2>7, <2>9, RollbackWorks, SharedFrame DEF Turns, Disk
<1> QED
  BY <1>10, <1>11

\* The manager beside one that works on a rollback.
LEMMA BesideRollback ==
    ASSUME Typed, Control, Disk, NEW c \in Candidates, op[Runner(c)].at \in Exchanging \cup {"plan"}
    PROVE  \/ heir[c] \in {"none", "ready"} /\ op[Heir(c)] = IdleManager
           \/ /\ run[c] = "undo" /\ heir[c] = "boot" /\ record[c] = "failed"
              /\ op[Heir(c)].at \in {"recover"} \cup Exchanging \cup Ended
<1>1. op[Runner(c)].at \in Rolling /\ Opens(c)
  BY DEF Rolling, Control
<1> QED
  BY <1>1, WorkerFacts DEF Opens, Rolling

\* What a rollback that exchanges finds.
LEMMA ExchangeFacts ==
    ASSUME Typed, Control, Disk, NEW c \in Candidates, NEW a \in {Runner(c), Heir(c)},
           op[a].at \in Exchanging
    PROVE  /\ Leads(op[a].plan) /\ saved.active \in Names(op[a].plan)
           /\ op[a].plan.to \in Slots /\ op[a].plan.from \in Slots
           /\ saved.gens[op[a].plan.to] # Blank /\ saved.active # 0
           /\ op[a].at \in {"reset", "move"} =>
                 journal = op[a].plan \/ saved.active = op[a].plan.to
           /\ op[a].at \in {"move", "unjournal"} => head = Commit(saved, op[a].plan.to)
           /\ op[a].at = "unjournal" =>
                 saved.active = op[a].plan.to /\ op[a].mem.active = op[a].plan.to
           /\ ~Stands(c) /\ heir[c] # "resume"
           /\ a = Heir(c) /\ heir[c] = "boot" =>
                 op[Runner(c)].at \notin {"recover", "plan"} /\ record[c] # "launching"
<1>1. op[a].at \in Rolling /\ op[a].at # "recover" /\ RollsBack(a) /\ Lies(c)
  BY RollerFacts DEF Rolling, Exchanging
<1>2. Leads(op[a].plan) /\ saved.active \in Names(op[a].plan)
  BY <1>1 DEF RollsBack
<1>3. ~Stands(c)
  BY <1>1, RollerFacts
<1>4. heir[c] # "resume"
  <2>1. CASE a = Heir(c)
    <3>1. heir[c] = "resume" => run[c] \in {"wait", "retire", "lost"}
      BY <1>1, <2>1, WorkerFacts
    <3> QED
      BY <1>3, <3>1 DEF Stands, Verifying
  <2>2. CASE a = Runner(c)
    BY <1>1, <2>2, WorkerFacts
  <2> QED
    BY <2>1, <2>2
<1>5. a = Heir(c) /\ heir[c] = "boot" =>
         op[Runner(c)].at \notin {"recover", "plan"} /\ record[c] # "launching"
  BY <1>1 DEF Lies, Boots, Exchanging
<1> QED
  BY <1>1, <1>2, <1>3, <1>4, <1>5, Constants DEF RollsBack, Leads, Names

\* A rollback between two generations, when only the active one changes.
LEMMA LeadsMoved ==
    ASSUME Typed, Typed', saved'.gens = saved.gens, NEW p \in Rollback, Leads(p)
    PROVE  Leads(p)'
<1>1. p.from \in Nat
  BY Constants DEF Leads, Names
<1>2. LineOf(saved', p.from) = LineOf(saved, p.from)
  BY <1>1, LineOfSame DEF Typed, Managers
<1> QED
  BY <1>2 DEF Leads, Names

LEMMA DiskPlan ==
    ASSUME Typed, Control, Disk, Typed', Control', UNCHANGED life,
           NEW c \in Candidates, NEW a \in {Runner(c), Heir(c)}, Plan(a)
    PROVE  Disk'
<1> PICK p : p = [from |-> op[a].mem.active, to |-> op[a].goal]
  OBVIOUS
<1>0. a \in Actors /\ op[a].at = "plan" /\ op[a].at \in Rolling
      /\ RollbackAdmitted(op[a].mem, op[a].goal)
  BY ActorFacts DEF Plan, OpAt, Rolling
<1>1. UNCHANGED <<head, saved, pins>> /\ journal' = p
  BY DEF Plan, repo
<1>2. Turns(a, "reset", op[a].mem, op[a].slot, p)
  BY <1>0, GoesPlan
<1>3. Lies(c) /\ Opens(c) /\ RollsBack(a)
  BY <1>0, RollerFacts DEF Control
<1>4. a = Heir(c) => heir[c] = "undo"
  <2>1. a = Heir(c) => heir[c] \in {"boot", "resume", "replace", "undo"}
    BY <1>0, RollerFacts
  <2> QED
    BY <1>0, <1>3, <2>1 DEF Opens, Rolling, Exchanging, Ended
<1>5. op[a].mem = saved
  BY <1>0, <1>3, <1>4 DEF Lies, RollsAlone
<1>6. ~Stands(c)
  BY <1>0, RollerFacts
<1>7. p \in Rollback /\ p.from = saved.active /\ p.to = op[a].goal
  BY <1>0, <1>5, TypeFacts DEF Rollback, RepositoryState
<1>8. Leads(p) /\ saved.active \in Names(p)
  <2>1. /\ p.to \in Line(saved) /\ Pinned(saved, p.from) /\ Pinned(saved, p.to)
    BY <1>0, <1>5, <1>7 DEF RollbackAdmitted
  <2>2. Line(saved) = LineOf(saved, p.from)
    BY <1>7, LineOfActive, TypeFacts
  <2> QED
    BY <1>7, <2>1, <2>2, Constants DEF Leads, Names, Pinned, Commit
<1>9. Leads(p)'
  BY <1>1, <1>8 DEF Leads, Names
<1>10. /\ op'[a].at = "reset" /\ op'[a].plan = p /\ op'[a].mem = op[a].mem
       /\ op'[a].goal = op[a].goal /\ Goes(a)
  BY <1>2 DEF Turns
<1>11. \A b \in Actors : b # a => op'[b] = op[b]
  BY <1>0, <1>10, GoesOthers
<1>12. Leads(op[a].plan)'
  BY <1>9, <1>10 DEF Leads, Names
<1>13. RollsBack(a)'
  BY <1>1, <1>3, <1>0, <1>8, <1>10, <1>12 DEF RollsBack
<1>14. run'[c] = run[c] /\ heir'[c] = heir[c] /\ record'[c] = record[c]
  BY DEF life
<1>15. JournalSound' /\ RecordsSound' /\ PinsHold'
  <2>1. Leads(journal)'
    BY <1>1, <1>9 DEF Leads, Names
  <2> QED
    BY <1>1, <2>1 DEF JournalSound, RecordsSound, PinsHold, Disk
<1>16. CASE a = Runner(c)
  <2>1. /\ op'[Heir(c)] = op[Heir(c)]
        /\ \/ heir[c] \in {"none", "ready"} /\ op[Heir(c)] = IdleManager
           \/ run[c] = "undo" /\ heir[c] = "boot" /\ record[c] = "failed"
    BY <1>0, <1>11, <1>16, ActorFacts, RollerFacts
  <2>2. /\ heir[c] = "boot" => op[Heir(c)].at \in {"recover", "done", "failed"}
        /\ heir[c] = "boot" /\ op[Heir(c)].at = "recover" => op[Heir(c)].mem = saved
    BY <1>0, <1>3, <1>16 DEF Lies, Boots
  <2>3. op[Heir(c)].at \notin Exchanging /\ IdleManager.at = "idle"
    BY <2>1, <2>2, ManagerShapes DEF Exchanging
  <2>4. RollsBack(Heir(c))'
    BY <1>1, <1>3, <2>1, <2>3 DEF RollsBack, RollsAlone, Lies
  <2>5. RollsAlone(c)'
    BY <1>1, <1>3, <1>10, <1>13, <1>14, <1>16, <2>1, <2>4, <2>3 DEF RollsAlone, Lies
  <2>6. Boots(c)'
    BY <1>1, <1>7, <1>10, <1>14, <1>16, <2>1, <2>2, <2>3 DEF Boots
  <2> QED
    BY <1>0, <1>1, <1>6, <1>10, <1>15, <2>1, <2>5, <2>6, RollbackWorks
<1>17. CASE a = Heir(c)
  <2>1. op'[Runner(c)] = IdleManager
    BY <1>0, <1>4, <1>11, <1>17, ActorFacts, RollerFacts
  <2>2. RollsAlone(c)' /\ Boots(c)'
    BY <1>4, <1>10, <1>13, <1>14, <1>17, <2>1, ManagerShapes
    DEF RollsAlone, RollsBack, Boots, Rolling, Exchanging
  <2> QED
    BY <1>0, <1>1, <1>4, <1>6, <1>10, <1>15, <1>17, <2>2, RollbackWorks
<1> QED
  BY <1>16, <1>17

LEMMA DiskReset ==
    ASSUME Typed, Control, Disk, Typed', Control', UNCHANGED life,
           NEW c \in Candidates, NEW a \in {Runner(c), Heir(c)}, Reset(a)
    PROVE  Disk'
<1>0. a \in Actors /\ op[a].at = "reset" /\ op[a].at \in Exchanging /\ op[a].at \in Rolling
  BY ActorFacts DEF Reset, OpAt, Rolling, Exchanging
<1>1. Lies(c) /\ RollsBack(a) /\ \A g : Commit(op[a].mem, g) = Commit(saved, g)
  BY <1>0, RollerFacts
<1>2. UNCHANGED <<saved, pins, journal>> /\ head' = Commit(saved, op[a].plan.to)
  BY <1>1 DEF Reset, files
<1>3. Turns(a, "move", op[a].mem, op[a].slot, op[a].plan)
  BY <1>0, GoesReset
<1>4. \A b \in Actors : b # a => op'[b] = op[b]
  BY <1>0, <1>3, GoesOthers DEF Turns
<1>5. /\ op'[a].at = "move" /\ op'[a].plan = op[a].plan /\ op'[a].mem = op[a].mem
      /\ op'[a].goal = op[a].goal
  BY <1>3 DEF Turns
<1>6. run'[c] = run[c] /\ heir'[c] = heir[c] /\ record'[c] = record[c]
  BY DEF life
<1>7. /\ \A p : Leads(p) => Leads(p)'
  BY <1>2 DEF Leads, Names
<1>8. RollsBack(a)'
  <2>1. Leads(op[a].plan)'
    BY <1>0, <1>1, <1>2, <1>5 DEF RollsBack, Leads, Names
  <2> QED
    BY <1>0, <1>1, <1>2, <1>5, <2>1 DEF RollsBack
<1>9. saved.active # 0 /\ ~Stands(c) /\ heir[c] # "resume"
  BY <1>0, ExchangeFacts
<1>10. RecordsSound' /\ JournalSound' /\ PinsHold'
  BY <1>2, <1>7, <1>9 DEF RecordsSound, JournalSound, PinsHold, Disk, Leads, Names
<1>11. CASE a = Runner(c)
  <2>1. op'[Heir(c)] = op[Heir(c)]
    BY <1>4, <1>11, ActorFacts
  <2>2. \/ heir[c] \in {"none", "ready"} /\ op[Heir(c)] = IdleManager
        \/ run[c] = "undo" /\ heir[c] = "boot" /\ record[c] = "failed"
    BY <1>0, <1>11, BesideRollback
  <2>3. op[Heir(c)].at \in Exchanging => heir[c] = "boot" /\ op[Heir(c)].plan = op[a].plan
    BY <1>0, <1>1, <1>11, <2>2, ManagerShapes DEF Lies, Boots, Exchanging
  <2>4. RollsBack(Heir(c))'
    <3>1. RollsBack(Heir(c))
      BY <1>1 DEF Lies, RollsAlone
    <3>2. op[Heir(c)].at \in Exchanging => Leads(op[Heir(c)].plan)'
      BY <1>2, <2>1, <3>1 DEF RollsBack, Leads, Names
    <3> QED
      BY <1>2, <2>1, <2>3, <3>1, <3>2 DEF RollsBack
  <2>5. RollsAlone(c)'
    BY <1>1, <1>2, <1>5, <1>6, <1>8, <1>11, <2>1, <2>4 DEF RollsAlone, Lies
  <2>6. Boots(c)'
    BY <1>0, <1>1, <1>2, <1>5, <1>6, <1>11, <2>1, <2>2 DEF Lies, Boots, Exchanging
  <2> QED
    BY <1>0, <1>2, <1>3, <1>9, <1>10, <2>5, <2>6, RollbackWorks DEF Turns
<1>12. CASE a = Heir(c)
  <2>1. op'[Runner(c)] = op[Runner(c)]
    BY <1>4, <1>12, ActorFacts
  <2>2. heir[c] # "boot" => op[Runner(c)] = IdleManager
    BY <1>0, <1>12, RollerFacts
  <2>3. heir[c] = "boot" => op[Runner(c)].at \notin {"recover", "plan"}
                            /\ record[c] # "launching"
    BY <1>0, <1>12, ExchangeFacts
  <2>4. op[Runner(c)].at \in Exchanging => heir[c] = "boot" /\ op[Runner(c)].plan = op[a].plan
    BY <1>0, <1>1, <1>12, <2>2, ManagerShapes DEF Lies, Boots, Exchanging
  <2>5. RollsBack(Runner(c))'
    <3>1. RollsBack(Runner(c))
      BY <1>1 DEF Lies, RollsAlone
    <3>2. op[Runner(c)].at \in Exchanging => Leads(op[Runner(c)].plan)'
      BY <1>2, <2>1, <3>1 DEF RollsBack, Leads, Names
    <3> QED
      BY <1>2, <2>1, <2>4, <3>1, <3>2 DEF RollsBack
  <2>6. RollsAlone(c)'
    BY <1>1, <1>2, <1>5, <1>6, <1>8, <1>12, <2>1, <2>5 DEF RollsAlone, Lies
  <2>7. Boots(c)'
    BY <1>0, <1>1, <1>2, <1>5, <1>6, <1>12, <2>1, <2>3 DEF Lies, Boots, Exchanging
  <2> QED
    BY <1>0, <1>2, <1>3, <1>9, <1>10, <2>6, <2>7, RollbackWorks DEF Turns
<1> QED
  BY <1>11, <1>12

LEMMA DiskMove ==
    ASSUME Typed, Control, Disk, Typed', Control', UNCHANGED life,
           NEW c \in Candidates, NEW a \in {Runner(c), Heir(c)}, Move(a)
    PROVE  Disk'
<1>0. a \in Actors /\ op[a].at = "move" /\ op[a].at \in Exchanging /\ op[a].at \in Rolling
  BY ActorFacts DEF Move, OpAt, Rolling, Exchanging
<1>1. /\ Lies(c) /\ RollsBack(a) /\ \A g : Commit(op[a].mem, g) = Commit(saved, g)
      /\ op[a].mem.gens = saved.gens /\ op[a].mem.next = saved.next
      /\ op[a].mem \in RepositoryState /\ op[a].plan \in Rollback
  BY <1>0, RollerFacts, TypeFacts
<1> PICK p \in Rollback : p = op[a].plan
  BY <1>1
<1>2. /\ UNCHANGED <<head, pins>> /\ journal' = p /\ head = Commit(saved, p.to)
      /\ saved' = [op[a].mem EXCEPT !.active = p.to]
  BY <1>1 DEF Move, repo
<1>3. saved'.gens = saved.gens /\ saved'.next = saved.next /\ saved'.active = p.to
      /\ \A g : Commit(saved', g) = Commit(saved, g)
  BY <1>1, <1>2 DEF RepositoryState, Commit
<1>4. Turns(a, "unjournal", saved', op[a].slot, op[a].plan)
  BY <1>0, <1>2, GoesMove
<1>5. \A b \in Actors : b # a => op'[b] = op[b]
  BY <1>0, <1>4, GoesOthers DEF Turns
<1>6. /\ op'[a].at = "unjournal" /\ op'[a].plan = p /\ op'[a].mem = saved'
      /\ op'[a].goal = op[a].goal
  BY <1>4 DEF Turns
<1>7. run'[c] = run[c] /\ heir'[c] = heir[c] /\ record'[c] = record[c]
  BY DEF life
<1>8. Leads(p) /\ p.to \in Slots /\ saved.gens[p.to] # Blank /\ ~Stands(c) /\ heir[c] # "resume"
      /\ p.to # 0
  BY <1>0, ExchangeFacts, Constants
<1>9. ASSUME NEW q \in Rollback, Leads(q)
      PROVE  Leads(q)'
  BY <1>3, <1>9, LeadsMoved
<1>10. ASSUME NEW b \in Actors, RollsBack(b), b # a,
              op[b].at \in Exchanging => op[b].plan = p
       PROVE  RollsBack(b)'
  <2>1. op'[b] = op[b]
    BY <1>5, <1>10
  <2>2. Leads(p)'
    BY <1>8, <1>9
  <2>3. op[b].at \in Exchanging => Leads(op[b].plan)'
    BY <1>10, <2>1, <2>2 DEF Leads, Names
  <2>4. op[b].at = "unjournal" => op[b].mem.active = p.to
    BY <1>10 DEF RollsBack, Exchanging
  <2> QED
    BY <1>2, <1>3, <1>10, <2>1, <2>3, <2>4 DEF RollsBack, Names, Exchanging
<1>11. RollsBack(a)'
  <2>1. Leads(op[a].plan)'
    <3>1. Leads(p)'
      BY <1>8, <1>9
    <3> QED
      BY <1>6, <3>1 DEF Leads, Names
  <2> QED
    BY <1>2, <1>3, <1>6, <2>1 DEF RollsBack, Names
<1>12. RecordsSound' /\ JournalSound' /\ PinsHold'
  <2>1. RecordsSound'
    BY <1>2, <1>3, <1>8 DEF RecordsSound, Disk
  <2>2. PinsHold'
    BY <1>2, <1>3 DEF PinsHold, Disk
  <2>3. Leads(journal)'
    BY <1>2, <1>6, <1>11 DEF RollsBack, Leads, Names, Exchanging
  <2> QED
    BY <2>1, <2>2, <2>3 DEF JournalSound
<1>13. CASE a = Runner(c)
  <2>1. op'[Heir(c)] = op[Heir(c)] /\ Heir(c) \in Actors /\ Heir(c) # a
    BY <1>5, <1>13, ActorFacts
  <2>2. \/ heir[c] \in {"none", "ready"} /\ op[Heir(c)] = IdleManager
        \/ run[c] = "undo" /\ heir[c] = "boot" /\ record[c] = "failed"
    BY <1>0, <1>13, BesideRollback
  <2>3. op[Heir(c)].at \in Exchanging => heir[c] = "boot" /\ op[Heir(c)].plan = p
    BY <1>0, <1>1, <1>13, <2>2, ManagerShapes DEF Lies, Boots, Exchanging
  <2>4. RollsBack(Heir(c))'
    BY <1>1, <1>10, <2>1, <2>3 DEF Lies, RollsAlone
  <2>5. RollsAlone(c)'
    <3>1. heir[c] # "boot" => op[Heir(c)].at = "idle"
      BY <2>2, ManagerShapes
    <3> QED
      BY <1>6, <1>7, <1>11, <1>13, <2>1, <2>4, <3>1 DEF RollsAlone
  <2>6. op[Heir(c)].at = "recover" /\ heir[c] = "boot" =>
            p = [from |-> op[Heir(c)].mem.active, to |-> p.to]
    BY <1>0, <1>1, <1>13 DEF Lies, Boots, Rollback
  <2>7. Boots(c)'
    BY <1>0, <1>1, <1>2, <1>3, <1>6, <1>7, <1>13, <2>1, <2>2, <2>6 DEF Lies, Boots, Exchanging
  <2> QED
    BY <1>0, <1>3, <1>4, <1>8, <1>12, <2>5, <2>7, RollbackWorks DEF Turns
<1>14. CASE a = Heir(c)
  <2>1. op'[Runner(c)] = op[Runner(c)] /\ Runner(c) \in Actors /\ Runner(c) # a
    BY <1>5, <1>14, ActorFacts
  <2>2. heir[c] # "boot" => op[Runner(c)] = IdleManager
    BY <1>0, <1>14, RollerFacts
  <2>3. op[Runner(c)].at \notin {"recover", "plan"}
    BY <1>0, <1>14, <2>2, ExchangeFacts, ManagerShapes
  <2>4. op[Runner(c)].at \in Exchanging => heir[c] = "boot" /\ op[Runner(c)].plan = p
    BY <1>0, <1>1, <1>14, <2>2, ManagerShapes DEF Lies, Boots, Exchanging
  <2>5. RollsBack(Runner(c))'
    BY <1>1, <1>10, <2>1, <2>4 DEF Lies, RollsAlone
  <2>6. RollsAlone(c)'
    BY <1>6, <1>11, <1>14, <2>1, <2>3, <2>5 DEF RollsAlone
  <2>7. heir[c] = "boot" => record[c] # "launching"
    BY <1>0, <1>14, ExchangeFacts
  <2>8. Boots(c)'
    BY <1>0, <1>1, <1>6, <1>7, <1>14, <2>1, <2>3, <2>4, <2>7 DEF Lies, Boots, Exchanging
  <2> QED
    BY <1>0, <1>3, <1>4, <1>8, <1>12, <2>6, <2>8, RollbackWorks DEF Turns
<1> QED
  BY <1>13, <1>14

LEMMA DiskUnjournal ==
    ASSUME Typed, Control, Disk, Typed', Control', UNCHANGED life,
           NEW c \in Candidates, NEW a \in {Runner(c), Heir(c)}, Unjournal(a)
    PROVE  Disk'
<1>0. a \in Actors /\ op[a].at = "unjournal" /\ op[a].at \in Exchanging /\ op[a].at \in Rolling
  BY ActorFacts DEF Unjournal, OpAt, Rolling, Exchanging
<1>1. /\ Lies(c) /\ RollsBack(a)
      /\ op[a].mem.gens = saved.gens /\ op[a].mem.next = saved.next
      /\ op[a].mem \in RepositoryState
  BY <1>0, RollerFacts
<1>2. UNCHANGED <<head, pins, saved>> /\ journal' = NoJournal
  BY DEF Unjournal, repo
<1>3. Turns(a, AfterRecovery(op[a]), op[a].mem, op[a].slot, op[a].plan)
  BY <1>0, GoesUnjournal
<1>4. \A b \in Actors : b # a => op'[b] = op[b]
  BY <1>0, <1>3, GoesOthers DEF Turns
<1>5. saved.active = op[a].plan.to /\ op[a].mem.active = op[a].plan.to
      /\ ~Stands(c) /\ heir[c] # "resume"
  BY <1>0, ExchangeFacts
<1>6. op[a].mem = saved
  BY <1>1, <1>5, SameState, TypeFacts
<1>7. /\ op'[a].at \in {"done", "plan"} /\ op'[a].mem = saved
      /\ op[a].goal \in {0, saved.active} => op'[a].at = "done"
      /\ op'[a].goal = op[a].goal /\ op'[a].plan = op[a].plan
  BY <1>3, <1>6 DEF Turns, AfterRecovery
<1>8. run'[c] = run[c] /\ heir'[c] = heir[c] /\ record'[c] = record[c]
  BY DEF life
<1>9. RollsBack(a)'
  BY <1>2, <1>7 DEF RollsBack, Exchanging
<1>10. ASSUME NEW b \in Actors, RollsBack(b), b # a,
              op[b].at \in Exchanging => op[b].plan = op[a].plan
       PROVE  RollsBack(b)'
  <2>1. op'[b] = op[b]
    BY <1>4, <1>10
  <2>2. op[b].at \in Exchanging => Leads(op[b].plan)'
    BY <1>2, <1>10, <2>1 DEF RollsBack, Leads, Names
  <2> QED
    BY <1>2, <1>5, <1>10, <2>1, <2>2 DEF RollsBack
<1>11. RecordsSound' /\ JournalSound' /\ PinsHold'
  BY <1>2 DEF RecordsSound, JournalSound, PinsHold, Disk
<1>12. CASE a = Runner(c)
  <2>1. op'[Heir(c)] = op[Heir(c)] /\ Heir(c) \in Actors /\ Heir(c) # a
    BY <1>4, <1>12, ActorFacts
  <2>2. \/ heir[c] \in {"none", "ready"} /\ op[Heir(c)] = IdleManager
        \/ run[c] = "undo" /\ heir[c] = "boot" /\ record[c] = "failed"
    BY <1>0, <1>12, BesideRollback
  <2>3. op[Heir(c)].at \in Exchanging => heir[c] = "boot" /\ op[Heir(c)].plan = op[a].plan
    BY <1>0, <1>1, <1>12, <2>2, ManagerShapes DEF Lies, Boots, Exchanging
  <2>4. RollsBack(Heir(c))'
    BY <1>1, <1>10, <2>1, <2>3 DEF Lies, RollsAlone
  <2>5. RollsAlone(c)'
    <3>1. heir[c] # "boot" => op[Heir(c)].at = "idle"
      BY <2>2, ManagerShapes
    <3> QED
      BY <1>2, <1>7, <1>8, <1>9, <1>12, <2>1, <2>4, <3>1 DEF RollsAlone
  <2>6. heir[c] = "boot" => op'[a].at = "done"
    BY <1>0, <1>1, <1>5, <1>7, <1>12 DEF Lies, Boots
  <2>7. Boots(c)'
    BY <1>2, <1>8, <1>12, <2>1, <2>2, <2>6 DEF Boots, Exchanging
  <2> QED
    BY <1>0, <1>2, <1>3, <1>5, <1>11, <2>5, <2>7, RollbackWorks DEF Turns
<1>13. CASE a = Heir(c)
  <2>1. op'[Runner(c)] = op[Runner(c)] /\ Runner(c) \in Actors /\ Runner(c) # a
    BY <1>4, <1>13, ActorFacts
  <2>2. heir[c] # "boot" => op[Runner(c)] = IdleManager
    BY <1>0, <1>13, RollerFacts
  <2>3. op[Runner(c)].at \notin {"recover", "plan"}
    BY <1>0, <1>13, <2>2, ExchangeFacts, ManagerShapes
  <2>4. op[Runner(c)].at \in Exchanging => heir[c] = "boot" /\ op[Runner(c)].plan = op[a].plan
    BY <1>0, <1>1, <1>13, <2>2, ManagerShapes DEF Lies, Boots, Exchanging
  <2>5. RollsBack(Runner(c))'
    BY <1>1, <1>10, <2>1, <2>4 DEF Lies, RollsAlone
  <2>6. RollsAlone(c)'
    BY <1>2, <1>7, <1>9, <1>13, <2>1, <2>3, <2>5 DEF RollsAlone
  <2>7. heir[c] = "boot" => op'[a].at = "done"
    BY <1>0, <1>7, <1>13, RollerFacts
  <2>8. Boots(c)'
    BY <1>1, <1>8, <1>13, <2>1, <2>3, <2>7 DEF Boots, Exchanging, Lies
  <2> QED
    BY <1>0, <1>2, <1>3, <1>5, <1>11, <2>6, <2>8, RollbackWorks DEF Turns
<1> QED
  BY <1>12, <1>13

\* A step fails.
LEMMA DiskError ==
    ASSUME Typed, Control, Disk, Typed', Control', UNCHANGED life,
           NEW c \in Candidates, NEW a \in {Runner(c), Heir(c)},
           Reject(a) \/ WriteFails(a) \/ Torn(a)
    PROVE  Disk'
<1>0. a \in Actors
  BY ActorFacts
<1>1. Turns(a, OnError(op[a]), op[a].mem, op[a].slot, op[a].plan)
  BY <1>0, GoesError
<1>2. Still
  BY DEF Reject, WriteFails, Torn, Still, repo, files
<1>3. UNCHANGED <<head, pins, saved, journal>>
  BY <1>2 DEF Still
<1>4. op[a].at \in Promoting \cup Rolling
  BY <1>1 DEF Turns, Goes, Follows
<1>5. \A b \in Actors : b # a => op'[b] = op[b]
  BY <1>0, <1>1, GoesOthers DEF Turns
<1>6. run'[c] = run[c] /\ heir'[c] = heir[c] /\ record'[c] = record[c]
  BY DEF life
<1>7. RecordsSound' /\ JournalSound' /\ PinsHold'
  BY <1>2, SharedFrame DEF Disk
<1>8. /\ op'[a].at = OnError(op[a]) /\ op'[a].mem = op[a].mem /\ op'[a].slot = op[a].slot
      /\ op'[a].commit = op[a].commit /\ op'[a].plan = op[a].plan /\ op'[a].goal = op[a].goal
  BY <1>1 DEF Turns
<1>9. Lies(c)
  BY DEF Disk
<1>10. CASE op[a].at \in Promoting /\ a = Runner(c)
  <2>1. run[c] = "promote" /\ op[a].commit = c
    BY <1>10, WorkerFacts
  <2>2. /\ op'[a].at \in {"unpin", "restore", "failed"}
        /\ op'[a].at = "unpin" => op[a].at \in {"publish", "restore"}
        /\ op'[a].at = "restore" => op[a].at \in {"forward", "record"}
    BY <1>8, <1>10 DEF OnError, Promoting
  <2>3. Promotes(c)'
    BY <1>3, <1>6, <1>8, <1>9, <1>10, <2>1, <2>2 DEF Lies, Promotes
  <2>4. op[a].at # "done" /\ op'[a].at # "done"
    BY <1>10, <2>2 DEF Promoting
  <2>5. Unrecorded(c)'
    BY <1>3, <1>6, <1>9, <1>10, <2>1, <2>4 DEF Lies, Unrecorded, IsRecorded
  <2> QED
    BY <1>1, <1>3, <1>7, <1>10, <2>3, <2>4, <2>5, PromotionWorks DEF Turns, IsRecorded
<1>11. CASE op[a].at \in Promoting /\ a = Heir(c)
  <2>1. /\ Engaged(c) /\ heir[c] = "check" /\ op[a].at = "checkpoint"
        /\ run[c] \in {"wait", "retire", "lost"} /\ op[Runner(c)] = IdleManager /\ Fresh
    BY <1>11, WorkerFacts
  <2>2. op'[a].at = "failed" /\ op'[Runner(c)] = IdleManager
    BY <1>5, <1>8, <1>11, <2>1, ActorFacts DEF OnError
  <2>3. IdleManager.at = "idle"
    BY ManagerShapes
  <2>4. Lies(c)'
    <3>1. Fresh'
      BY <1>3, <2>1 DEF Fresh, Foreign, Names
    <3>2. (Promotes(c) /\ Unrecorded(c))'
      BY <1>6, <2>1 DEF Promotes, Unrecorded
    <3>3. RollsAlone(c)' /\ Boots(c)' /\ Resumes(c)'
      BY <1>6, <1>11, <2>1, <2>2, <2>3
      DEF RollsAlone, RollsBack, Boots, Resumes, Rolling, Exchanging, Ended
    <3> QED
      BY <3>1, <3>2, <3>3 DEF Lies
  <2>5. \A d \in Candidates \ {c} : Unrecorded(d)'
    BY <1>3, <1>5, <1>11, <2>1, UnrecordedKept DEF IsRecorded
  <2> QED
    BY <1>7, <2>1, <2>4, <2>5, DiskWork
<1>12. CASE op[a].at \in Rolling
  <2>1. op'[a].at = "failed"
    BY <1>8, <1>12 DEF OnError, Rolling, Exchanging
  <2>2. Stands(c) => Fresh'
    BY <1>3, <1>9 DEF Lies, Fresh, Foreign, Names
  <2>3. RollsAlone(c)'
    <3>1. ASSUME NEW b \in {Runner(c), Heir(c)}, RollsBack(b)
          PROVE  RollsBack(b)'
      <4>1. CASE b = a
        BY <2>1, <4>1 DEF RollsBack, Rolling, Exchanging
      <4>2. CASE b # a
        <5>1. op'[b] = op[b]
          BY <1>5, <4>2, ActorFacts
        <5> QED
          BY <1>2, <1>3, <3>1, <5>1, LeadsKept DEF RollsBack
      <4> QED
        BY <4>1, <4>2
    <3>2. \A b \in {Runner(c), Heir(c)} : b # a => op'[b] = op[b]
      BY <1>5, ActorFacts
    <3> QED
      BY <1>3, <1>6, <1>9, <2>1, <3>1, <3>2 DEF Lies, RollsAlone
  <2>4. CASE a = Runner(c)
    <3>1. op'[Heir(c)] = op[Heir(c)]
      BY <1>5, <2>4, ActorFacts
    <3>2. \/ heir[c] \in {"none", "ready"} /\ op[Heir(c)] = IdleManager
          \/ run[c] = "undo" /\ heir[c] = "boot" /\ record[c] = "failed"
      BY <1>12, <2>4, WorkerFacts
    <3>3. Boots(c)'
      BY <1>3, <1>6, <1>9, <2>1, <2>4, <3>1, <3>2 DEF Lies, Boots, Exchanging
    <3> QED
      BY <1>1, <1>3, <1>7, <1>12, <2>2, <2>3, <3>2, <3>3, RollbackWorks DEF Turns
  <2>5. CASE a = Heir(c)
    <3>1. op'[Runner(c)] = op[Runner(c)]
      BY <1>5, <2>5, ActorFacts
    <3>2. Boots(c)'
      BY <1>3, <1>6, <1>9, <2>1, <2>5, <3>1 DEF Lies, Boots, Exchanging, Foreign, Names
    <3> QED
      BY <1>1, <1>3, <1>7, <1>12, <2>1, <2>2, <2>3, <2>5, <3>2, RollbackWorks DEF Turns
  <2> QED
    BY <2>4, <2>5
<1> QED
  BY <1>4, <1>10, <1>11, <1>12

\* Whatever a manager does.
LEMMA DiskManaged ==
    ASSUME Typed, Control, Disk, Typed', Control', NEW a \in Actors, Managed(a) \/ Broken(a)
    PROVE  Disk'
<1>1. PICK c \in Candidates : a \in {Runner(c), Heir(c)}
  BY ActorCases
<1>2. UNCHANGED life
  BY DEF Managed, Broken
<1> QED
  BY <1>1, <1>2, DiskCheckpoint, DiskPublishCheckpoint, DiskActivate, DiskForward, DiskRecord,
     DiskUnpin, DiskRecover, DiskPlan, DiskReset, DiskMove, DiskUnjournal, DiskError
  DEF Managed, Broken, Work

-----------------------------------------------------------------------------
(* What the records say, while runs and successors go on.                  *)

LEMMA SparesFrame ==
    ASSUME NEW d \in Candidates, Still, cand'[d] = cand[d],
           run'[d] = run[d] \/ (run[d] = "develop" /\ run'[d] = "lost" /\ ~due[d]),
           heir'[d] = heir[d], due'[d] = due[d],
           op'[Runner(d)] = op[Runner(d)], op'[Heir(d)] = op[Heir(d)],
           NEW x, Spares(x, d)
    PROVE  Spares(x, d)'
  BY DEF Still, Spares, Engaged, Stranded, Acting, Developing, Handing

LEMMA HoldsFrame ==
    ASSUME Still, NEW x, Holds(x)
    PROVE  Holds(x)'
  BY DEF Still, Holds, Foreign, Names

\* Who has no part in a mission rolls nothing back.
LEMMA SparesQuiet ==
    ASSUME Typed, Control, NEW d \in Candidates, ~Engaged(d), NEW x
    PROVE  Spares(x, d)
<1>1. op[Runner(d)].at = "idle" /\ op[Heir(d)].at = "idle" /\ run[d] # "promote"
  BY ManagerShapes DEF Control, Opens, Engaged, Stranded, Acting, Developing, Handing
<1> QED
  BY <1>1 DEF Spares, Exchanging

\* What a step has to keep for its own candidate.
Tells(c) ==
    /\ Promoted(c)' /\ Undoes(c)' /\ Verifies(c)'
    /\ \A x : Spares(x, c) => Spares(x, c)'

\* Nobody comes into office but by an acceptance.
LEMMA OfficeKept ==
    ASSUME NEW c \in Candidates, Apart(c),
           server' = server \/ server' = "plain" \/ (server' = by[c] /\ Active(c)),
           Active(c)' => by'[c] = server \/ (Active(c) /\ by'[c] = by[c])
    PROVE  \A d \in Candidates : InOffice(d)' => InOffice(d)
<1>1. ASSUME NEW d \in Candidates, NEW e \in Candidates, Active(e)', by'[e] = d
      PROVE  InOffice(d)
  <2>1. CASE e = c
    BY <1>1, <2>1 DEF InOffice
  <2>2. CASE e # c
    BY <1>1, <2>2 DEF InOffice, Apart, Active, Developing, Handing
  <2> QED
    BY <2>1, <2>2
<1> QED
  BY <1>1, Constants DEF InOffice

LEMMA RecordsStep ==
    ASSUME Typed, Control, Records, NEW c \in Candidates, Apart(c), Still, Tells(c), TakesOver(c)',
           \A d \in Candidates \ {c} : InOffice(d)' => InOffice(d)
    PROVE  Records'
<1>1. ASSUME NEW d \in Candidates, d # c
      PROVE  Promoted(d)' /\ Undoes(d)' /\ Verifies(d)' /\ TakesOver(d)'
  <2>1. /\ run'[d] = run[d] \/ (run[d] = "develop" /\ run'[d] = "lost")
        /\ heir'[d] = heir[d] /\ record'[d] = record[d]
        /\ due'[d] = due[d] /\ by'[d] = by[d]
        /\ cand'[d] = cand[d] /\ handoff'[d] = handoff[d] /\ mission'[d] = mission[d]
        /\ op'[Runner(d)] = op[Runner(d)] /\ op'[Heir(d)] = op[Heir(d)]
    BY <1>1 DEF Apart
  <2>2. saved' = saved /\ head' = head
    BY DEF Still
  <2>3. Promoted(d) /\ Undoes(d) /\ Verifies(d) /\ TakesOver(d) /\ Positions(d)
    BY DEF Records, Control
  <2>4. Promoted(d)'
    BY <2>1, <2>2, <2>3 DEF Promoted, Stands, Positions, Verifying
  <2>5. Undoes(d)' /\ Verifies(d)'
    BY <2>1, <2>2, <2>3 DEF Undoes, Verifies, Gone
  <2>6. SUFFICES ASSUME InOffice(d)', by'[d] # d
                 PROVE  TakesOver(d)'
    BY <2>4, <2>5 DEF TakesOver
  <2>7. /\ mission[d] = "completed" /\ handoff[d] = "completed"
        /\ record[d] = "accepted" /\ run[d] \in {"wait", "retire", "over", "lost"}
        /\ Holds(cand[d].gen) /\ \A e \in Candidates \ {d} : Spares(cand[d].gen, e)
    BY <1>1, <2>1, <2>3, <2>6 DEF TakesOver
  <2>10. PICK x : x = cand[d].gen
    OBVIOUS
  <2>8. ASSUME NEW e \in Candidates \ {d}
        PROVE  Spares(cand[d].gen, e)'
    <3>1. Spares(x, e)
      BY <2>7, <2>10
    <3>2. run[e] = "develop" => ~due[e]
      BY DEF Control, Positions
    <3>3. Spares(x, e)'
      BY <3>1, <3>2, SparesFrame DEF Apart, Tells
    <3> QED
      BY <2>1, <2>10, <3>3 DEF Spares
  <2>9. Holds(cand[d].gen)'
    <3>1. Holds(x)'
      BY <2>7, <2>10, HoldsFrame
    <3> QED
      BY <2>1, <2>10, <3>1 DEF Holds
  <2> QED
    BY <2>1, <2>7, <2>8, <2>9 DEF TakesOver
<1> QED
  BY <1>1 DEF Records, Tells

\* Who has taken over keeps that while its predecessor waits and leaves.
LEMMA TakesOverKept ==
    ASSUME Control, Records, NEW c \in Candidates, Apart(c), Still,
           InOffice(c)' => InOffice(c), by'[c] = by[c], cand'[c].gen = cand[c].gen,
           mission'[c] = mission[c], handoff'[c] = handoff[c],
           record[c] = "accepted" => record'[c] = "accepted" /\ run'[c] \in {"retire", "over"}
    PROVE  TakesOver(c)'
<1>1. SUFFICES ASSUME InOffice(c)', by'[c] # c
               PROVE  TakesOver(c)'
  BY DEF TakesOver
<1>2. /\ mission[c] = "completed" /\ handoff[c] = "completed" /\ record[c] = "accepted"
      /\ Holds(cand[c].gen) /\ \A e \in Candidates \ {c} : Spares(cand[c].gen, e)
  BY <1>1 DEF Records, TakesOver
<1> PICK x : x = cand[c].gen
  OBVIOUS
<1>3. ASSUME NEW e \in Candidates \ {c}
      PROVE  Spares(cand[c].gen, e)'
  <2>1. run[e] = "develop" => ~due[e]
    BY DEF Control, Positions
  <2>2. Spares(x, e)'
    BY <1>2, <1>3, <2>1, SparesFrame DEF Apart
  <2> QED
    BY <2>2 DEF Spares
<1>4. Holds(cand[c].gen)'
  <2>1. Holds(x)'
    BY <1>2, HoldsFrame
  <2> QED
    BY <2>1 DEF Holds
<1> QED
  BY <1>2, <1>3, <1>4 DEF TakesOver

LEMMA RecordsStartRun ==
    ASSUME Typed, Control, Disk, Records, NEW c \in Candidates, StartRun(c)
    PROVE  Records'
<1>1. /\ Serving(c) /\ Positions(c) /\ Opens(c) /\ Lies(c)
      /\ Promoted(c) /\ Undoes(c) /\ Verifies(c) /\ TakesOver(c)
  BY DEF Control, Disk, Records
<1>2. StartRunTurn(c)
  BY <1>1, DoesStartRun
<1>3. Still /\ Apart(c) /\ saved' = saved
  BY <1>2 DEF StartRunTurn, Turn, Still
<1> USE DEF StartRun, IsAt, HeirAt, OpAt, StartRunTurn, Turn, Managing, Telling
<1>4. Promoted(c)'
  BY <1>1, <1>2, <1>3, ControlFacts, Shapes1, ManagerShapes, Constants
  DEF Promoted, Stands, Verifying, Positions, Opens, Developing, Handing, Promoting, Rolling,
      Exchanging, Ended
<1>5. Undoes(c)' /\ Verifies(c)'
  BY <1>1, <1>2, <1>3, Shapes1, ManagerShapes DEF Promoted, Undoes, Verifies, Gone, Positions, Opens
<1>6. ASSUME NEW x, Spares(x, c)
      PROVE  Spares(x, c)'
  BY <1>1, <1>2, <1>3, <1>6, ControlFacts, Shapes1, ManagerShapes
  DEF Promoted, Spares, Engaged, Stranded, Acting, Developing, Handing, Positions, Opens, Promoting,
      Rolling, Exchanging, Ended
<1>7. \A d \in Candidates : InOffice(d)' => InOffice(d)
  BY <1>1, <1>2, <1>3, OfficeKept DEF Active, Developing, Handing
<1>8. TakesOver(c)'
  BY <1>1, <1>2, <1>7, ControlFacts, Constants DEF TakesOver, Positions, Serving
<1> QED
  BY <1>2, <1>3, <1>4, <1>5, <1>6, <1>7, <1>8, RecordsStep DEF Tells

LEMMA RecordsEvaluated ==
    ASSUME Typed, Control, Disk, Records, NEW c \in Candidates, Evaluated(c)
    PROVE  Records'
<1>1. /\ Serving(c) /\ Positions(c) /\ Opens(c) /\ Lies(c)
      /\ Promoted(c) /\ Undoes(c) /\ Verifies(c) /\ TakesOver(c)
  BY DEF Control, Disk, Records
<1>2. EvaluatedTurn(c)
  BY <1>1, DoesEvaluated
<1>3. Still /\ Apart(c) /\ saved' = saved
  BY <1>2 DEF EvaluatedTurn, Turn, Still
<1> USE DEF Evaluated, IsAt, HeirAt, OpAt, EvaluatedTurn, Turn, Managing, Telling
<1>4. Promoted(c)'
  BY <1>1, <1>2, <1>3, ControlFacts, Shapes1, ManagerShapes, Constants
  DEF Promoted, Stands, Verifying, Positions, Opens, Developing, Handing, Promoting, Rolling,
      Exchanging, Ended, OpenPromotion
<1>5. Undoes(c)' /\ Verifies(c)'
  BY <1>1, <1>2, <1>3, Shapes1, ManagerShapes DEF Promoted, Undoes, Verifies, Gone, Positions,
     Opens, OpenPromotion
<1>6. ASSUME NEW x, Spares(x, c)
      PROVE  Spares(x, c)'
  BY <1>1, <1>2, <1>3, <1>6, ControlFacts, Shapes1, ManagerShapes
  DEF Promoted, Spares, Engaged, Stranded, Acting, Developing, Handing, Positions, Opens, Promoting,
      Rolling, Exchanging, Ended, OpenPromotion
<1>7. \A d \in Candidates : InOffice(d)' => InOffice(d)
  BY <1>1, <1>2, <1>3, OfficeKept DEF Active, Developing, Handing
<1>8. TakesOver(c)'
  BY <1>1, <1>2, <1>7, ControlFacts, Constants DEF TakesOver, Positions
<1> QED
  BY <1>2, <1>3, <1>4, <1>5, <1>6, <1>7, <1>8, RecordsStep DEF Tells

LEMMA RecordsAbandon ==
    ASSUME Typed, Control, Disk, Records, NEW c \in Candidates, Abandon(c)
    PROVE  Records'
<1>1. /\ Serving(c) /\ Positions(c) /\ Opens(c) /\ Lies(c)
      /\ Promoted(c) /\ Undoes(c) /\ Verifies(c) /\ TakesOver(c)
  BY DEF Control, Disk, Records
<1>2. AbandonTurn(c)
  BY <1>1, DoesAbandon
<1>3. Still /\ Apart(c) /\ saved' = saved
  BY <1>2 DEF AbandonTurn, Turn, Still
<1> USE DEF Abandon, IsAt, HeirAt, OpAt, AbandonTurn, Turn, Managing, Telling
<1>4. Promoted(c)'
  BY <1>1, <1>2, <1>3, ControlFacts, Shapes1, ManagerShapes, Constants
  DEF Promoted, Stands, Verifying, Positions, Opens, Developing, Handing, Promoting, Rolling,
      Exchanging, Ended
<1>5. Undoes(c)' /\ Verifies(c)'
  BY <1>1, <1>2, <1>3, Shapes1, ManagerShapes DEF Promoted, Undoes, Verifies, Gone, Positions, Opens
<1>6. ASSUME NEW x, Spares(x, c)
      PROVE  Spares(x, c)'
  BY <1>1, <1>2, <1>3, <1>6, ControlFacts, Shapes1, ManagerShapes
  DEF Promoted, Spares, Engaged, Stranded, Acting, Developing, Handing, Positions, Opens, Promoting,
      Rolling, Exchanging, Ended
<1>7. \A d \in Candidates : InOffice(d)' => InOffice(d)
  BY <1>1, <1>2, <1>3, OfficeKept DEF Active, Developing, Handing
<1>8. TakesOver(c)'
  BY <1>1, <1>2, <1>7, ControlFacts, Constants DEF TakesOver, Positions
<1> QED
  BY <1>2, <1>3, <1>4, <1>5, <1>6, <1>7, <1>8, RecordsStep DEF Tells

LEMMA RecordsPublishPromotion ==
    ASSUME Typed, Control, Disk, Records, NEW c \in Candidates, PublishPromotion(c)
    PROVE  Records'
<1>1. /\ Serving(c) /\ Positions(c) /\ Opens(c) /\ Lies(c)
      /\ Promoted(c) /\ Undoes(c) /\ Verifies(c) /\ TakesOver(c)
  BY DEF Control, Disk, Records
<1>2. PublishPromotionTurn(c)
  BY <1>1, DoesPublishPromotion
<1>3. Still /\ Apart(c) /\ saved' = saved
  BY <1>2 DEF PublishPromotionTurn, Turn, Still
<1> USE DEF PublishPromotion, IsAt, HeirAt, OpAt, PublishPromotionTurn, Turn, Managing, Telling
<1>9. /\ op[Runner(c)].mem = saved /\ saved.active \in Slots
      /\ saved.gens[saved.active] # Blank
  BY <1>1, TypeFacts, Constants DEF Lies, Promotes, Disk, RecordsSound, RepositoryState
<1>4. Promoted(c)'
  BY <1>9, <1>1, <1>2, <1>3, ControlFacts, Shapes1, ManagerShapes, Constants
  DEF Promoted, Stands, Verifying, Positions, Opens, Developing, Handing, Promoting, Rolling,
      Exchanging, Ended
<1>5. Undoes(c)' /\ Verifies(c)'
  BY <1>1, <1>2, <1>3, Shapes1, ManagerShapes DEF Promoted, Undoes, Verifies, Gone, Positions, Opens
<1>6. ASSUME NEW x, Spares(x, c)
      PROVE  Spares(x, c)'
  BY <1>9, <1>1, <1>2, <1>3, <1>6, ControlFacts, Shapes1, ManagerShapes
  DEF Promoted, Spares, Engaged, Stranded, Acting, Developing, Handing, Positions, Opens, Promoting,
      Rolling, Exchanging, Ended
<1>7. \A d \in Candidates : InOffice(d)' => InOffice(d)
  BY <1>1, <1>2, <1>3, OfficeKept DEF Active, Developing, Handing
<1>8. TakesOver(c)'
  BY <1>1, <1>2, <1>7, ControlFacts, Constants DEF TakesOver, Positions
<1> QED
  BY <1>2, <1>3, <1>4, <1>5, <1>6, <1>7, <1>8, RecordsStep DEF Tells

LEMMA RecordsBuildEnds ==
    ASSUME Typed, Control, Disk, Records, NEW c \in Candidates, BuildEnds(c)
    PROVE  Records'
<1>1. /\ Serving(c) /\ Positions(c) /\ Opens(c) /\ Lies(c)
      /\ Promoted(c) /\ Undoes(c) /\ Verifies(c) /\ TakesOver(c)
  BY DEF Control, Disk, Records
<1>2. /\ BuildEndsTurn(c)
      /\ run'[c] \in {"announce", "over"}
  BY <1>1, DoesBuildEnds
<1>3. Still /\ Apart(c) /\ saved' = saved
  BY <1>2 DEF BuildEndsTurn, Turn, Still
<1> USE DEF BuildEnds, IsAt, HeirAt, OpAt, BuildEndsTurn, Turn, Managing, Telling
<1>4. Promoted(c)'
  BY <1>1, <1>2, <1>3, ControlFacts, Shapes1, ManagerShapes, Constants
  DEF Promoted, Stands, Verifying, Positions, Opens, Developing, Handing, Promoting, Rolling,
      Exchanging, Ended
<1>5. Undoes(c)' /\ Verifies(c)'
  BY <1>1, <1>2, <1>3, Shapes1, ManagerShapes DEF Promoted, Undoes, Verifies, Gone, Positions, Opens
<1>6. ASSUME NEW x, Spares(x, c)
      PROVE  Spares(x, c)'
  BY <1>1, <1>2, <1>3, <1>6, ControlFacts, Shapes1, ManagerShapes
  DEF Promoted, Spares, Engaged, Stranded, Acting, Developing, Handing, Positions, Opens, Promoting,
      Rolling, Exchanging, Ended
<1>7. \A d \in Candidates : InOffice(d)' => InOffice(d)
  BY <1>1, <1>2, <1>3, OfficeKept DEF Active, Developing, Handing
<1>8. TakesOver(c)'
  BY <1>1, <1>2, <1>7, ControlFacts, Constants DEF TakesOver, Positions
<1> QED
  BY <1>2, <1>3, <1>4, <1>5, <1>6, <1>7, <1>8, RecordsStep DEF Tells

LEMMA RecordsAnnounce ==
    ASSUME Typed, Control, Disk, Records, NEW c \in Candidates, Announce(c)
    PROVE  Records'
<1>1. /\ Serving(c) /\ Positions(c) /\ Opens(c) /\ Lies(c)
      /\ Promoted(c) /\ Undoes(c) /\ Verifies(c) /\ TakesOver(c)
  BY DEF Control, Disk, Records
<1>2. AnnounceTurn(c)
  BY <1>1, DoesAnnounce
<1>3. Still /\ Apart(c) /\ saved' = saved
  BY <1>2 DEF AnnounceTurn, Turn, Still
<1> USE DEF Announce, IsAt, HeirAt, OpAt, AnnounceTurn, Turn, Managing, Telling
<1>4. Promoted(c)'
  BY <1>1, <1>2, <1>3, ControlFacts, Shapes1, ManagerShapes, Constants
  DEF Promoted, Stands, Verifying, Positions, Opens, Developing, Handing, Promoting, Rolling,
      Exchanging, Ended
<1>5. Undoes(c)' /\ Verifies(c)'
  BY <1>1, <1>2, <1>3, Shapes1, ManagerShapes DEF Promoted, Undoes, Verifies, Gone, Positions, Opens
<1>6. ASSUME NEW x, Spares(x, c)
      PROVE  Spares(x, c)'
  BY <1>1, <1>2, <1>3, <1>6, ControlFacts, Shapes1, ManagerShapes
  DEF Promoted, Spares, Engaged, Stranded, Acting, Developing, Handing, Positions, Opens, Promoting,
      Rolling, Exchanging, Ended
<1>7. \A d \in Candidates : InOffice(d)' => InOffice(d)
  BY <1>1, <1>2, <1>3, OfficeKept DEF Active, Developing, Handing
<1>8. TakesOver(c)'
  BY <1>1, <1>2, <1>7, ControlFacts, Constants DEF TakesOver, Positions
<1> QED
  BY <1>2, <1>3, <1>4, <1>5, <1>6, <1>7, <1>8, RecordsStep DEF Tells

LEMMA RecordsLaunch ==
    ASSUME Typed, Control, Disk, Records, NEW c \in Candidates, Launch(c)
    PROVE  Records'
<1>1. /\ Serving(c) /\ Positions(c) /\ Opens(c) /\ Lies(c)
      /\ Promoted(c) /\ Undoes(c) /\ Verifies(c) /\ TakesOver(c)
  BY DEF Control, Disk, Records
<1>2. LaunchTurn(c)
  BY <1>1, DoesLaunch
<1>3. Still /\ Apart(c) /\ saved' = saved
  BY <1>2 DEF LaunchTurn, Turn, Still
<1> USE DEF Launch, IsAt, HeirAt, OpAt, LaunchTurn, Turn, Managing, Telling
<1>4. Promoted(c)'
  BY <1>1, <1>2, <1>3, ControlFacts, Shapes1, ManagerShapes, Constants
  DEF Promoted, Stands, Verifying, Positions, Opens, Developing, Handing, Promoting, Rolling,
      Exchanging, Ended
<1>5. Undoes(c)' /\ Verifies(c)'
  BY <1>1, <1>2, <1>3, Shapes1, ManagerShapes DEF Promoted, Undoes, Verifies, Gone, Positions, Opens
<1>6. ASSUME NEW x, Spares(x, c)
      PROVE  Spares(x, c)'
  BY <1>1, <1>2, <1>3, <1>6, ControlFacts, Shapes1, ManagerShapes
  DEF Promoted, Spares, Engaged, Stranded, Acting, Developing, Handing, Positions, Opens, Promoting,
      Rolling, Exchanging, Ended
<1>7. \A d \in Candidates : InOffice(d)' => InOffice(d)
  BY <1>1, <1>2, <1>3, OfficeKept DEF Active, Developing, Handing
<1>8. TakesOver(c)'
  BY <1>1, <1>2, <1>7, ControlFacts, Constants DEF TakesOver, Positions
<1> QED
  BY <1>2, <1>3, <1>4, <1>5, <1>6, <1>7, <1>8, RecordsStep DEF Tells

LEMMA RecordsLaunched ==
    ASSUME Typed, Control, Disk, Records, NEW c \in Candidates, Launched(c)
    PROVE  Records'
<1>1. /\ Serving(c) /\ Positions(c) /\ Opens(c) /\ Lies(c)
      /\ Promoted(c) /\ Undoes(c) /\ Verifies(c) /\ TakesOver(c)
  BY DEF Control, Disk, Records
<1>2. LaunchedTurn(c)
  BY <1>1, DoesLaunched
<1>3. Still /\ Apart(c) /\ saved' = saved
  BY <1>2 DEF LaunchedTurn, Turn, Still
<1> USE DEF Launched, IsAt, HeirAt, OpAt, LaunchedTurn, Turn, Managing, Telling
<1>4. Promoted(c)'
  BY <1>1, <1>2, <1>3, ControlFacts, Shapes1, ManagerShapes, Constants
  DEF Promoted, Stands, Verifying, Positions, Opens, Developing, Handing, Promoting, Rolling,
      Exchanging, Ended
<1>5. Undoes(c)' /\ Verifies(c)'
  BY <1>1, <1>2, <1>3, Shapes1, ManagerShapes DEF Promoted, Undoes, Verifies, Gone, Positions, Opens
<1>6. ASSUME NEW x, Spares(x, c)
      PROVE  Spares(x, c)'
  BY <1>1, <1>2, <1>3, <1>6, ControlFacts, Shapes1, ManagerShapes
  DEF Promoted, Spares, Engaged, Stranded, Acting, Developing, Handing, Positions, Opens, Promoting,
      Rolling, Exchanging, Ended
<1>7. \A d \in Candidates : InOffice(d)' => InOffice(d)
  BY <1>1, <1>2, <1>3, OfficeKept DEF Active, Developing, Handing
<1>8. TakesOver(c)'
  BY <1>1, <1>2, <1>7, ControlFacts, Constants DEF TakesOver, Positions
<1> QED
  BY <1>2, <1>3, <1>4, <1>5, <1>6, <1>7, <1>8, RecordsStep DEF Tells

LEMMA RecordsLaunchFails ==
    ASSUME Typed, Control, Disk, Records, NEW c \in Candidates, LaunchFails(c)
    PROVE  Records'
<1>1. /\ Serving(c) /\ Positions(c) /\ Opens(c) /\ Lies(c)
      /\ Promoted(c) /\ Undoes(c) /\ Verifies(c) /\ TakesOver(c)
  BY DEF Control, Disk, Records
<1>2. LaunchFailsTurn(c)
  BY <1>1, DoesLaunchFails
<1>3. Still /\ Apart(c) /\ saved' = saved
  BY <1>2 DEF LaunchFailsTurn, Turn, Still
<1> USE DEF LaunchFails, IsAt, HeirAt, OpAt, LaunchFailsTurn, Turn, Managing, Telling
<1>4. Promoted(c)'
  BY <1>1, <1>2, <1>3, ControlFacts, Shapes1, ManagerShapes, Constants
  DEF Promoted, Stands, Verifying, Positions, Opens, Developing, Handing, Promoting, Rolling,
      Exchanging, Ended
<1>5. Undoes(c)' /\ Verifies(c)'
  BY <1>1, <1>2, <1>3, Shapes1, ManagerShapes DEF Promoted, Undoes, Verifies, Gone, Positions, Opens
<1>6. ASSUME NEW x, Spares(x, c)
      PROVE  Spares(x, c)'
  BY <1>1, <1>2, <1>3, <1>6, ControlFacts, Shapes1, ManagerShapes
  DEF Promoted, Spares, Engaged, Stranded, Acting, Developing, Handing, Positions, Opens, Promoting,
      Rolling, Exchanging, Ended
<1>7. \A d \in Candidates : InOffice(d)' => InOffice(d)
  BY <1>1, <1>2, <1>3, OfficeKept DEF Active, Developing, Handing
<1>8. TakesOver(c)'
  BY <1>1, <1>2, <1>7, ControlFacts, Constants DEF TakesOver, Positions
<1> QED
  BY <1>2, <1>3, <1>4, <1>5, <1>6, <1>7, <1>8, RecordsStep DEF Tells

LEMMA RecordsReply ==
    ASSUME Typed, Control, Disk, Records, NEW c \in Candidates, Reply(c)
    PROVE  Records'
<1>1. /\ Serving(c) /\ Positions(c) /\ Opens(c) /\ Lies(c)
      /\ Promoted(c) /\ Undoes(c) /\ Verifies(c) /\ TakesOver(c)
  BY DEF Control, Disk, Records
<1>2. ReplyTurn(c)
  BY <1>1, DoesReply
<1>3. Still /\ Apart(c) /\ saved' = saved
  BY <1>2 DEF ReplyTurn, Turn, Still
<1> USE DEF Reply, IsAt, HeirAt, OpAt, ReplyTurn, Turn, Managing, Telling
<1>4. Promoted(c)'
  BY <1>1, <1>2, <1>3, ControlFacts, Shapes1, ManagerShapes, Constants
  DEF Promoted, Stands, Verifying, Positions, Opens, Developing, Handing, Promoting, Rolling,
      Exchanging, Ended
<1>5. Undoes(c)' /\ Verifies(c)'
  BY <1>1, <1>2, <1>3, Shapes1, ManagerShapes DEF Promoted, Undoes, Verifies, Gone, Positions, Opens
<1>6. ASSUME NEW x, Spares(x, c)
      PROVE  Spares(x, c)'
  BY <1>1, <1>2, <1>3, <1>6, ControlFacts, Shapes1, ManagerShapes
  DEF Promoted, Spares, Engaged, Stranded, Acting, Developing, Handing, Positions, Opens, Promoting,
      Rolling, Exchanging, Ended
<1>7. \A d \in Candidates : InOffice(d)' => InOffice(d)
  BY <1>1, <1>2, <1>3, OfficeKept DEF Active, Developing, Handing
<1>8. TakesOver(c)'
  BY <1>1, <1>2, <1>7, ControlFacts, Constants DEF TakesOver, Positions
<1> QED
  BY <1>2, <1>3, <1>4, <1>5, <1>6, <1>7, <1>8, RecordsStep DEF Tells

LEMMA RecordsRelease ==
    ASSUME Typed, Control, Disk, Records, NEW c \in Candidates, Release(c)
    PROVE  Records'
<1>1. /\ Serving(c) /\ Positions(c) /\ Opens(c) /\ Lies(c)
      /\ Promoted(c) /\ Undoes(c) /\ Verifies(c) /\ TakesOver(c)
  BY DEF Control, Disk, Records
<1>2. ReleaseTurn(c)
  BY <1>1, DoesRelease
<1>3. Still /\ Apart(c) /\ saved' = saved
  BY <1>2 DEF ReleaseTurn, Turn, Still
<1> USE DEF Release, IsAt, HeirAt, OpAt, ReleaseTurn, Turn, Managing, Telling
<1>4. Promoted(c)'
  BY <1>1, <1>2, <1>3, ControlFacts, Shapes1, ManagerShapes, Constants
  DEF Promoted, Stands, Verifying, Positions, Opens, Developing, Handing, Promoting, Rolling,
      Exchanging, Ended
<1>5. Undoes(c)' /\ Verifies(c)'
  BY <1>1, <1>2, <1>3, Shapes1, ManagerShapes DEF Promoted, Undoes, Verifies, Gone, Positions, Opens
<1>6. ASSUME NEW x, Spares(x, c)
      PROVE  Spares(x, c)'
  BY <1>1, <1>2, <1>3, <1>6, ControlFacts, Shapes1, ManagerShapes
  DEF Promoted, Spares, Engaged, Stranded, Acting, Developing, Handing, Positions, Opens, Promoting,
      Rolling, Exchanging, Ended
<1>7. \A d \in Candidates : InOffice(d)' => InOffice(d)
  BY <1>1, <1>2, <1>3, OfficeKept DEF Active, Developing, Handing
<1>8. TakesOver(c)'
  BY <1>1, <1>2, <1>7, ControlFacts, Constants DEF TakesOver, Positions
<1> QED
  BY <1>2, <1>3, <1>4, <1>5, <1>6, <1>7, <1>8, RecordsStep DEF Tells

LEMMA RecordsReleaseFails ==
    ASSUME Typed, Control, Disk, Records, NEW c \in Candidates, ReleaseFails(c)
    PROVE  Records'
<1>1. /\ Serving(c) /\ Positions(c) /\ Opens(c) /\ Lies(c)
      /\ Promoted(c) /\ Undoes(c) /\ Verifies(c) /\ TakesOver(c)
  BY DEF Control, Disk, Records
<1>2. ReleaseFailsTurn(c)
  BY <1>1, DoesReleaseFails
<1>3. Still /\ Apart(c) /\ saved' = saved
  BY <1>2 DEF ReleaseFailsTurn, Turn, Still
<1> USE DEF ReleaseFails, IsAt, HeirAt, OpAt, ReleaseFailsTurn, Turn, Managing, Telling
<1>4. Promoted(c)'
  BY <1>1, <1>2, <1>3, ControlFacts, Shapes1, ManagerShapes, Constants
  DEF Promoted, Stands, Verifying, Positions, Opens, Developing, Handing, Promoting, Rolling,
      Exchanging, Ended
<1>5. Undoes(c)' /\ Verifies(c)'
  BY <1>1, <1>2, <1>3, Shapes1, ManagerShapes DEF Promoted, Undoes, Verifies, Gone, Positions, Opens
<1>6. ASSUME NEW x, Spares(x, c)
      PROVE  Spares(x, c)'
  BY <1>1, <1>2, <1>3, <1>6, ControlFacts, Shapes1, ManagerShapes
  DEF Promoted, Spares, Engaged, Stranded, Acting, Developing, Handing, Positions, Opens, Promoting,
      Rolling, Exchanging, Ended
<1>7. \A d \in Candidates : InOffice(d)' => InOffice(d)
  BY <1>1, <1>2, <1>3, OfficeKept DEF Active, Developing, Handing
<1>8. TakesOver(c)'
  BY <1>1, <1>2, <1>7, ControlFacts, Constants DEF TakesOver, Positions
<1> QED
  BY <1>2, <1>3, <1>4, <1>5, <1>6, <1>7, <1>8, RecordsStep DEF Tells

LEMMA RecordsWaitFails ==
    ASSUME Typed, Control, Disk, Records, NEW c \in Candidates, WaitFails(c)
    PROVE  Records'
<1>1. /\ Serving(c) /\ Positions(c) /\ Opens(c) /\ Lies(c)
      /\ Promoted(c) /\ Undoes(c) /\ Verifies(c) /\ TakesOver(c)
  BY DEF Control, Disk, Records
<1>2. WaitFailsTurn(c)
  BY <1>1, DoesWaitFails
<1>3. Still /\ Apart(c) /\ saved' = saved
  BY <1>2 DEF WaitFailsTurn, Turn, Still
<1> USE DEF WaitFails, IsAt, HeirAt, OpAt, WaitFailsTurn, Turn, Managing, Telling
<1>4. Promoted(c)'
  BY <1>1, <1>2, <1>3, ControlFacts, Shapes1, ManagerShapes, Constants
  DEF Promoted, Stands, Verifying, Positions, Opens, Developing, Handing, Promoting, Rolling,
      Exchanging, Ended
<1>5. Undoes(c)' /\ Verifies(c)'
  BY <1>1, <1>2, <1>3, Shapes1, ManagerShapes DEF Promoted, Undoes, Verifies, Gone, Positions, Opens
<1>6. ASSUME NEW x, Spares(x, c)
      PROVE  Spares(x, c)'
  BY <1>1, <1>2, <1>3, <1>6, ControlFacts, Shapes1, ManagerShapes
  DEF Promoted, Spares, Engaged, Stranded, Acting, Developing, Handing, Positions, Opens, Promoting,
      Rolling, Exchanging, Ended
<1>7. \A d \in Candidates : InOffice(d)' => InOffice(d)
  BY <1>1, <1>2, <1>3, OfficeKept DEF Active, Developing, Handing
<1>8. TakesOver(c)'
  BY <1>1, <1>2, <1>3, <1>7, TakesOverKept
<1> QED
  BY <1>2, <1>3, <1>4, <1>5, <1>6, <1>7, <1>8, RecordsStep DEF Tells

LEMMA RecordsRetire ==
    ASSUME Typed, Control, Disk, Records, NEW c \in Candidates, Retire(c)
    PROVE  Records'
<1>1. /\ Serving(c) /\ Positions(c) /\ Opens(c) /\ Lies(c)
      /\ Promoted(c) /\ Undoes(c) /\ Verifies(c) /\ TakesOver(c)
  BY DEF Control, Disk, Records
<1>2. RetireTurn(c)
  BY <1>1, DoesRetire
<1>3. Still /\ Apart(c) /\ saved' = saved
  BY <1>2 DEF RetireTurn, Turn, Still
<1> USE DEF Retire, IsAt, HeirAt, OpAt, RetireTurn, Turn, Managing, Telling
<1>4. Promoted(c)'
  BY <1>1, <1>2, <1>3, ControlFacts, Shapes1, ManagerShapes, Constants
  DEF Promoted, Stands, Verifying, Positions, Opens, Developing, Handing, Promoting, Rolling,
      Exchanging, Ended
<1>5. Undoes(c)' /\ Verifies(c)'
  BY <1>1, <1>2, <1>3, Shapes1, ManagerShapes DEF Promoted, Undoes, Verifies, Gone, Positions, Opens
<1>6. ASSUME NEW x, Spares(x, c)
      PROVE  Spares(x, c)'
  BY <1>1, <1>2, <1>3, <1>6, ControlFacts, Shapes1, ManagerShapes
  DEF Promoted, Spares, Engaged, Stranded, Acting, Developing, Handing, Positions, Opens, Promoting,
      Rolling, Exchanging, Ended
<1>7. \A d \in Candidates : InOffice(d)' => InOffice(d)
  BY <1>1, <1>2, <1>3, OfficeKept DEF Active, Handing
<1>8. TakesOver(c)'
  BY <1>2, Constants DEF TakesOver, InOffice, Apart
<1> QED
  BY <1>2, <1>3, <1>4, <1>5, <1>6, <1>7, <1>8, RecordsStep DEF Tells

LEMMA RecordsServed ==
    ASSUME Typed, Control, Disk, Records, NEW c \in Candidates, Served(c)
    PROVE  Records'
<1>1. /\ Serving(c) /\ Positions(c) /\ Opens(c) /\ Lies(c)
      /\ Promoted(c) /\ Undoes(c) /\ Verifies(c) /\ TakesOver(c)
  BY DEF Control, Disk, Records
<1>2. ServedTurn(c)
  BY <1>1, DoesServed
<1>3. Still /\ Apart(c) /\ saved' = saved
  BY <1>2 DEF ServedTurn, Turn, Still
<1> USE DEF Served, IsAt, HeirAt, OpAt, ServedTurn, Turn, Managing, Telling
<1>4. Promoted(c)'
  BY <1>1, <1>2, <1>3, ControlFacts, Shapes1, ManagerShapes, Constants
  DEF Promoted, Stands, Verifying, Positions, Opens, Developing, Handing, Promoting, Rolling,
      Exchanging, Ended
<1>5. Undoes(c)' /\ Verifies(c)'
  BY <1>1, <1>2, <1>3, Shapes1, ManagerShapes DEF Promoted, Undoes, Verifies, Gone, Positions, Opens
<1>6. ASSUME NEW x, Spares(x, c)
      PROVE  Spares(x, c)'
  BY <1>1, <1>2, <1>3, <1>6, ControlFacts, Shapes1, ManagerShapes
  DEF Promoted, Spares, Engaged, Stranded, Acting, Developing, Handing, Positions, Opens, Promoting,
      Rolling, Exchanging, Ended
<1>7. \A d \in Candidates : InOffice(d)' => InOffice(d)
  BY <1>1, <1>2, <1>3, OfficeKept DEF Active, Developing, Handing
<1>8. TakesOver(c)'
  BY <1>1, <1>2, <1>3, <1>7, TakesOverKept
<1> QED
  BY <1>2, <1>3, <1>4, <1>5, <1>6, <1>7, <1>8, RecordsStep DEF Tells

LEMMA RecordsRefinalize ==
    ASSUME Typed, Control, Disk, Records, NEW c \in Candidates, Refinalize(c)
    PROVE  Records'
<1>1. /\ Serving(c) /\ Positions(c) /\ Opens(c) /\ Lies(c)
      /\ Promoted(c) /\ Undoes(c) /\ Verifies(c) /\ TakesOver(c)
  BY DEF Control, Disk, Records
<1>2. RefinalizeTurn(c)
  BY <1>1, DoesRefinalize
<1>3. Still /\ Apart(c) /\ saved' = saved
  BY <1>2 DEF RefinalizeTurn, Turn, Still
<1> USE DEF Refinalize, IsAt, HeirAt, OpAt, RefinalizeTurn, Turn, Managing, Telling
<1>4. Promoted(c)'
  BY <1>1, <1>2, <1>3, ControlFacts, Shapes1, ManagerShapes, Constants
  DEF Promoted, Stands, Verifying, Positions, Opens, Developing, Handing, Promoting, Rolling,
      Exchanging, Ended
<1>5. Undoes(c)' /\ Verifies(c)'
  BY <1>1, <1>2, <1>3, Shapes1, ManagerShapes DEF Promoted, Undoes, Verifies, Gone, Positions, Opens
<1>6. ASSUME NEW x, Spares(x, c)
      PROVE  Spares(x, c)'
  BY <1>1, <1>2, <1>3, <1>6, ControlFacts, Shapes1, ManagerShapes
  DEF Promoted, Spares, Engaged, Stranded, Acting, Developing, Handing, Positions, Opens, Promoting,
      Rolling, Exchanging, Ended
<1>7. \A d \in Candidates : InOffice(d)' => InOffice(d)
  BY <1>1, <1>2, <1>3, OfficeKept DEF Active, Developing, Handing
<1>8. TakesOver(c)'
  <2>1. SUFFICES ASSUME InOffice(c)', by'[c] # c
                 PROVE  FALSE
    BY DEF TakesOver
  <2>2. PICK d \in Candidates : Active(d) /\ by[d] = c /\ d # c
    BY <1>2, <2>1 DEF InOffice, Apart, Active, Developing, Handing
  <2>3. Passed(d)
    BY <1>2, <2>1, <2>2 DEF Control, Serving
  <2>4. Engaged(c) /\ Engaged(d)
    BY <2>3 DEF Engaged, Passed, Acting, Developing, Handing
  <2> QED
    BY <2>2, <2>4 DEF Control, OneMission
<1> QED
  BY <1>2, <1>3, <1>4, <1>5, <1>6, <1>7, <1>8, RecordsStep DEF Tells

LEMMA RecordsRunUndone ==
    ASSUME Typed, Control, Disk, Records, NEW c \in Candidates, RunUndone(c)
    PROVE  Records'
<1>1. /\ Serving(c) /\ Positions(c) /\ Opens(c) /\ Lies(c)
      /\ Promoted(c) /\ Undoes(c) /\ Verifies(c) /\ TakesOver(c)
  BY DEF Control, Disk, Records
<1>2. RunUndoneTurn(c)
  BY <1>1, DoesRunUndone
<1>3. Still /\ Apart(c) /\ saved' = saved
  BY <1>2 DEF RunUndoneTurn, Turn, Still
<1> USE DEF RunUndone, IsAt, HeirAt, OpAt, RunUndoneTurn, Turn, Managing, Telling
<1>4. Promoted(c)'
  BY <1>1, <1>2, <1>3, ControlFacts, Shapes1, ManagerShapes, Constants
  DEF Promoted, Stands, Verifying, Positions, Opens, Developing, Handing, Promoting, Rolling,
      Exchanging, Ended
<1>5. Undoes(c)' /\ Verifies(c)'
  BY <1>1, <1>2, <1>3, Shapes1, ManagerShapes DEF Promoted, Undoes, Verifies, Gone, Positions, Opens
<1>6. ASSUME NEW x, Spares(x, c)
      PROVE  Spares(x, c)'
  BY <1>1, <1>2, <1>3, <1>6, ControlFacts, Shapes1, ManagerShapes
  DEF Promoted, Spares, Engaged, Stranded, Acting, Developing, Handing, Positions, Opens, Promoting,
      Rolling, Exchanging, Ended
<1>7. \A d \in Candidates : InOffice(d)' => InOffice(d)
  BY <1>1, <1>2, <1>3, OfficeKept DEF Active, Developing, Handing
<1>8. TakesOver(c)'
  BY <1>1, <1>2, <1>7, ControlFacts, Constants DEF TakesOver, Positions
<1> QED
  BY <1>2, <1>3, <1>4, <1>5, <1>6, <1>7, <1>8, RecordsStep DEF Tells

LEMMA RecordsRunUndoFails ==
    ASSUME Typed, Control, Disk, Records, NEW c \in Candidates, RunUndoFails(c)
    PROVE  Records'
<1>1. /\ Serving(c) /\ Positions(c) /\ Opens(c) /\ Lies(c)
      /\ Promoted(c) /\ Undoes(c) /\ Verifies(c) /\ TakesOver(c)
  BY DEF Control, Disk, Records
<1>2. RunUndoFailsTurn(c)
  BY <1>1, DoesRunUndoFails
<1>3. Still /\ Apart(c) /\ saved' = saved
  BY <1>2 DEF RunUndoFailsTurn, Turn, Still
<1> USE DEF RunUndoFails, IsAt, HeirAt, OpAt, RunUndoFailsTurn, Turn, Managing, Telling
<1>4. Promoted(c)'
  BY <1>1, <1>2, <1>3, ControlFacts, Shapes1, ManagerShapes, Constants
  DEF Promoted, Stands, Verifying, Positions, Opens, Developing, Handing, Promoting, Rolling,
      Exchanging, Ended
<1>5. Undoes(c)' /\ Verifies(c)'
  BY <1>1, <1>2, <1>3, Shapes1, ManagerShapes DEF Promoted, Undoes, Verifies, Gone, Positions, Opens
<1>6. ASSUME NEW x, Spares(x, c)
      PROVE  Spares(x, c)'
  BY <1>1, <1>2, <1>3, <1>6, ControlFacts, Shapes1, ManagerShapes
  DEF Promoted, Spares, Engaged, Stranded, Acting, Developing, Handing, Positions, Opens, Promoting,
      Rolling, Exchanging, Ended
<1>7. \A d \in Candidates : InOffice(d)' => InOffice(d)
  BY <1>1, <1>2, <1>3, OfficeKept DEF Active, Developing, Handing
<1>8. TakesOver(c)'
  BY <1>1, <1>2, <1>7, ControlFacts, Constants DEF TakesOver, Positions
<1> QED
  BY <1>2, <1>3, <1>4, <1>5, <1>6, <1>7, <1>8, RecordsStep DEF Tells

LEMMA RecordsClose ==
    ASSUME Typed, Control, Disk, Records, NEW c \in Candidates, Close(c)
    PROVE  Records'
<1>1. /\ Serving(c) /\ Positions(c) /\ Opens(c) /\ Lies(c)
      /\ Promoted(c) /\ Undoes(c) /\ Verifies(c) /\ TakesOver(c)
  BY DEF Control, Disk, Records
<1>2. CloseTurn(c)
  BY <1>1, DoesClose
<1>3. Still /\ Apart(c) /\ saved' = saved
  BY <1>2 DEF CloseTurn, Turn, Still
<1> USE DEF Close, IsAt, HeirAt, OpAt, CloseTurn, Turn, Managing, Telling
<1>4. Promoted(c)'
  BY <1>1, <1>2, <1>3, ControlFacts, Shapes1, ManagerShapes, Constants
  DEF Promoted, Stands, Verifying, Positions, Opens, Developing, Handing, Promoting, Rolling,
      Exchanging, Ended
<1>5. Undoes(c)' /\ Verifies(c)'
  BY <1>1, <1>2, <1>3, Shapes1, ManagerShapes DEF Promoted, Undoes, Verifies, Gone, Positions, Opens
<1>6. ASSUME NEW x, Spares(x, c)
      PROVE  Spares(x, c)'
  BY <1>1, <1>2, <1>3, <1>6, ControlFacts, Shapes1, ManagerShapes
  DEF Promoted, Spares, Engaged, Stranded, Acting, Developing, Handing, Positions, Opens, Promoting,
      Rolling, Exchanging, Ended
<1>7. \A d \in Candidates : InOffice(d)' => InOffice(d)
  BY <1>1, <1>2, <1>3, OfficeKept DEF Active, Developing, Handing
<1>8. TakesOver(c)'
  BY <1>1, <1>2, <1>7, ControlFacts, Constants DEF TakesOver, Positions
<1> QED
  BY <1>2, <1>3, <1>4, <1>5, <1>6, <1>7, <1>8, RecordsStep DEF Tells

LEMMA RecordsPublishFails ==
    ASSUME Typed, Control, Disk, Records, NEW c \in Candidates, PublishFails(c)
    PROVE  Records'
<1>1. /\ Serving(c) /\ Positions(c) /\ Opens(c) /\ Lies(c)
      /\ Promoted(c) /\ Undoes(c) /\ Verifies(c) /\ TakesOver(c)
  BY DEF Control, Disk, Records
<1>2. PublishFailsTurn(c)
  BY <1>1, DoesPublishFails
<1>3. Still /\ Apart(c) /\ saved' = saved
  BY <1>2 DEF PublishFailsTurn, Turn, Still
<1> USE DEF PublishFails, IsAt, HeirAt, OpAt, PublishFailsTurn, Turn, Managing, Telling
<1>9. /\ op[Runner(c)].mem = saved /\ saved.active \in Slots
      /\ saved.gens[saved.active] # Blank
  BY <1>1, TypeFacts, Constants DEF Lies, Promotes, Disk, RecordsSound, RepositoryState
<1>4. Promoted(c)'
  BY <1>9, <1>1, <1>2, <1>3, ControlFacts, Shapes1, ManagerShapes, Constants
  DEF Promoted, Stands, Verifying, Positions, Opens, Developing, Handing, Promoting, Rolling,
      Exchanging, Ended, Working
<1>5. Undoes(c)' /\ Verifies(c)'
  BY <1>1, <1>2, <1>3, Shapes1, ManagerShapes DEF Promoted, Undoes, Verifies, Gone, Positions,
     Opens, Working
<1>6. ASSUME NEW x, Spares(x, c)
      PROVE  Spares(x, c)'
  BY <1>9, <1>1, <1>2, <1>3, <1>6, ControlFacts, Shapes1, ManagerShapes
  DEF Promoted, Spares, Engaged, Stranded, Acting, Developing, Handing, Positions, Opens, Promoting,
      Rolling, Exchanging, Ended, Working
<1>7. \A d \in Candidates : InOffice(d)' => InOffice(d)
  BY <1>1, <1>2, <1>3, OfficeKept DEF Active, Developing, Handing
<1>8. TakesOver(c)'
  BY <1>1, <1>2, <1>7, ControlFacts, Constants DEF TakesOver, Positions
<1> QED
  BY <1>2, <1>3, <1>4, <1>5, <1>6, <1>7, <1>8, RecordsStep DEF Tells

LEMMA RecordsAnnounceFails ==
    ASSUME Typed, Control, Disk, Records, NEW c \in Candidates, AnnounceFails(c)
    PROVE  Records'
<1>1. /\ Serving(c) /\ Positions(c) /\ Opens(c) /\ Lies(c)
      /\ Promoted(c) /\ Undoes(c) /\ Verifies(c) /\ TakesOver(c)
  BY DEF Control, Disk, Records
<1>2. AnnounceFailsTurn(c)
  BY <1>1, DoesAnnounceFails
<1>3. Still /\ Apart(c) /\ saved' = saved
  BY <1>2 DEF AnnounceFailsTurn, Turn, Still
<1> USE DEF AnnounceFails, IsAt, HeirAt, OpAt, AnnounceFailsTurn, Turn, Managing, Telling
<1>4. Promoted(c)'
  BY <1>1, <1>2, <1>3, ControlFacts, Shapes1, ManagerShapes, Constants
  DEF Promoted, Stands, Verifying, Positions, Opens, Developing, Handing, Promoting, Rolling,
      Exchanging, Ended
<1>5. Undoes(c)' /\ Verifies(c)'
  BY <1>1, <1>2, <1>3, Shapes1, ManagerShapes DEF Promoted, Undoes, Verifies, Gone, Positions, Opens
<1>6. ASSUME NEW x, Spares(x, c)
      PROVE  Spares(x, c)'
  BY <1>1, <1>2, <1>3, <1>6, ControlFacts, Shapes1, ManagerShapes
  DEF Promoted, Spares, Engaged, Stranded, Acting, Developing, Handing, Positions, Opens, Promoting,
      Rolling, Exchanging, Ended
<1>7. \A d \in Candidates : InOffice(d)' => InOffice(d)
  BY <1>1, <1>2, <1>3, OfficeKept DEF Active, Developing, Handing
<1>8. TakesOver(c)'
  BY <1>1, <1>2, <1>7, ControlFacts, Constants DEF TakesOver, Positions
<1> QED
  BY <1>2, <1>3, <1>4, <1>5, <1>6, <1>7, <1>8, RecordsStep DEF Tells

LEMMA RecordsBoot ==
    ASSUME Typed, Control, Disk, Records, NEW c \in Candidates, Boot(c)
    PROVE  Records'
<1>1. /\ Serving(c) /\ Positions(c) /\ Opens(c) /\ Lies(c)
      /\ Promoted(c) /\ Undoes(c) /\ Verifies(c) /\ TakesOver(c)
  BY DEF Control, Disk, Records
<1>2. BootTurn(c)
  BY <1>1, DoesBoot
<1>3. Still /\ Apart(c) /\ saved' = saved
  BY <1>2 DEF BootTurn, Turn, Still
<1> USE DEF Boot, IsAt, HeirAt, OpAt, BootTurn, Turn, Managing, Telling
<1>4. Promoted(c)'
  BY <1>1, <1>2, <1>3, ControlFacts, Shapes1, ManagerShapes, Constants
  DEF Promoted, Stands, Verifying, Positions, Opens, Developing, Handing, Promoting, Rolling,
      Exchanging, Ended
<1>5. Undoes(c)' /\ Verifies(c)'
  BY <1>1, <1>2, <1>3, Shapes1, ManagerShapes DEF Promoted, Undoes, Verifies, Gone, Positions, Opens
<1>6. ASSUME NEW x, Spares(x, c)
      PROVE  Spares(x, c)'
  BY <1>1, <1>2, <1>3, <1>6, ControlFacts, Shapes1, ManagerShapes
  DEF Promoted, Spares, Engaged, Stranded, Acting, Developing, Handing, Positions, Opens, Promoting,
      Rolling, Exchanging, Ended
<1>7. \A d \in Candidates : InOffice(d)' => InOffice(d)
  BY <1>1, <1>2, <1>3, OfficeKept DEF Active, Developing, Handing
<1>8. TakesOver(c)'
  BY <1>1, <1>2, <1>7, ControlFacts, Constants DEF TakesOver, Positions
<1> QED
  BY <1>2, <1>3, <1>4, <1>5, <1>6, <1>7, <1>8, RecordsStep DEF Tells

LEMMA RecordsGiveUp ==
    ASSUME Typed, Control, Disk, Records, NEW c \in Candidates, GiveUp(c)
    PROVE  Records'
<1>1. /\ Serving(c) /\ Positions(c) /\ Opens(c) /\ Lies(c)
      /\ Promoted(c) /\ Undoes(c) /\ Verifies(c) /\ TakesOver(c)
  BY DEF Control, Disk, Records
<1>2. GiveUpTurn(c)
  BY <1>1, DoesGiveUp
<1>3. Still /\ Apart(c) /\ saved' = saved
  BY <1>2 DEF GiveUpTurn, Turn, Still
<1> USE DEF GiveUp, Deserted, IsAt, HeirAt, OpAt, GiveUpTurn, Turn, Managing, Telling
<1>4. Promoted(c)'
  BY <1>1, <1>2, <1>3, ControlFacts, Shapes1, ManagerShapes, Constants
  DEF Promoted, Stands, Verifying, Positions, Opens, Developing, Handing, Promoting, Rolling,
      Exchanging, Ended
<1>5. Undoes(c)' /\ Verifies(c)'
  BY <1>1, <1>2, <1>3, Shapes1, ManagerShapes DEF Promoted, Undoes, Verifies, Gone, Positions, Opens
<1>6. ASSUME NEW x, Spares(x, c)
      PROVE  Spares(x, c)'
  BY <1>1, <1>2, <1>3, <1>6, ControlFacts, Shapes1, ManagerShapes
  DEF Promoted, Spares, Engaged, Stranded, Acting, Developing, Handing, Positions, Opens, Promoting,
      Rolling, Exchanging, Ended
<1>7. \A d \in Candidates : InOffice(d)' => InOffice(d)
  BY <1>1, <1>2, <1>3, OfficeKept DEF Active, Developing, Handing
<1>8. TakesOver(c)'
  BY <1>1, <1>2, <1>7, ControlFacts, Constants DEF TakesOver, Positions
<1> QED
  BY <1>2, <1>3, <1>4, <1>5, <1>6, <1>7, <1>8, RecordsStep DEF Tells

LEMMA RecordsReleased ==
    ASSUME Typed, Control, Disk, Records, NEW c \in Candidates, Released(c)
    PROVE  Records'
<1>1. /\ Serving(c) /\ Positions(c) /\ Opens(c) /\ Lies(c)
      /\ Promoted(c) /\ Undoes(c) /\ Verifies(c) /\ TakesOver(c)
  BY DEF Control, Disk, Records
<1>2. ReleasedTurn(c)
  BY <1>1, DoesReleased
<1>3. Still /\ Apart(c) /\ saved' = saved
  BY <1>2 DEF ReleasedTurn, Turn, Still
<1> USE DEF Released, IsAt, HeirAt, OpAt, ReleasedTurn, Turn, Managing, Telling
<1>4. Promoted(c)'
  BY <1>1, <1>2, <1>3, ControlFacts, Shapes1, ManagerShapes, Constants
  DEF Promoted, Stands, Verifying, Positions, Opens, Developing, Handing, Promoting, Rolling,
      Exchanging, Ended
<1>5. Undoes(c)' /\ Verifies(c)'
  BY <1>1, <1>2, <1>3, Shapes1, ManagerShapes DEF Promoted, Undoes, Verifies, Gone, Positions, Opens
<1>6. ASSUME NEW x, Spares(x, c)
      PROVE  Spares(x, c)'
  BY <1>1, <1>2, <1>3, <1>6, ControlFacts, Shapes1, ManagerShapes
  DEF Promoted, Spares, Engaged, Stranded, Acting, Developing, Handing, Positions, Opens, Promoting,
      Rolling, Exchanging, Ended
<1>7. \A d \in Candidates : InOffice(d)' => InOffice(d)
  BY <1>1, <1>2, <1>3, OfficeKept DEF Active, Developing, Handing
<1>8. TakesOver(c)'
  BY <1>1, <1>2, <1>7, ControlFacts, Constants DEF TakesOver, Positions
<1> QED
  BY <1>2, <1>3, <1>4, <1>5, <1>6, <1>7, <1>8, RecordsStep DEF Tells

LEMMA RecordsClaim ==
    ASSUME Typed, Control, Disk, Records, NEW c \in Candidates, Claim(c)
    PROVE  Records'
<1>0. /\ Opened("held", NoCommit, 0).at = "held" /\ Opened("held", NoCommit, 0).mem = saved
      /\ Opened("held", NoCommit, 0).commit = NoCommit
  BY ManagerShapes, Constants
<1>1. /\ Serving(c) /\ Positions(c) /\ Opens(c) /\ Lies(c)
      /\ Promoted(c) /\ Undoes(c) /\ Verifies(c) /\ TakesOver(c)
  BY DEF Control, Disk, Records
<1>2. ClaimTurn(c)
  BY <1>1, DoesClaim
<1>3. Still /\ Apart(c) /\ saved' = saved
  BY <1>2 DEF ClaimTurn, Turn, Still
<1> USE DEF Claim, IsAt, HeirAt, OpAt, ClaimTurn, Turn, Managing, Telling
<1>4. Promoted(c)'
  BY <1>0, <1>1, <1>2, <1>3, ControlFacts, Shapes1, ManagerShapes, Constants
  DEF Promoted, Stands, Verifying, Positions, Opens, Developing, Handing, Promoting, Rolling,
      Exchanging, Ended
<1>5. Undoes(c)' /\ Verifies(c)'
  BY <1>0, <1>1, <1>2, <1>3, Shapes1, ManagerShapes DEF Promoted, Undoes, Verifies, Gone,
     Positions, Opens
<1>6. ASSUME NEW x, Spares(x, c)
      PROVE  Spares(x, c)'
  BY <1>0, <1>1, <1>2, <1>3, <1>6, ControlFacts, Shapes1, ManagerShapes
  DEF Promoted, Spares, Engaged, Stranded, Acting, Developing, Handing, Positions, Opens, Promoting,
      Rolling, Exchanging, Ended
<1>7. \A d \in Candidates : InOffice(d)' => InOffice(d)
  BY <1>1, <1>2, <1>3, OfficeKept DEF Active, Developing, Handing
<1>8. TakesOver(c)'
  BY <1>0, <1>1, <1>2, <1>7, ControlFacts, Constants DEF TakesOver, Positions
<1> QED
  BY <1>2, <1>3, <1>4, <1>5, <1>6, <1>7, <1>8, RecordsStep DEF Tells

LEMMA RecordsGatesPass ==
    ASSUME Typed, Control, Disk, Records, NEW c \in Candidates, Gates(c), heir'[c] = "check"
    PROVE  Records'
<1>0. LET n == [op[Heir(c)] EXCEPT !.at = "checkpoint"]
      IN  n.at = "checkpoint" /\ n.mem = op[Heir(c)].mem /\ n.commit = op[Heir(c)].commit
  <2>1. "checkpoint" \in Promoting \cup Rolling \cup Ended
    BY DEF Promoting
  <2>2. op[Heir(c)] \in Manager
    BY Shapes1
  <2> QED
    BY <2>1, <2>2, PlaceFacts
<1>1. /\ Serving(c) /\ Positions(c) /\ Opens(c) /\ Lies(c)
      /\ Promoted(c) /\ Undoes(c) /\ Verifies(c) /\ TakesOver(c)
  BY DEF Control, Disk, Records
<1>2. GatesPassTurn(c)
  BY <1>1, DoesGatesPass
<1>3. Still /\ Apart(c) /\ saved' = saved
  BY <1>2 DEF GatesPassTurn, Turn, Still
<1> USE DEF Gates, IsAt, HeirAt, OpAt, GatesPassTurn, Turn, Managing, Telling
<1>4. Promoted(c)'
  BY <1>0, <1>1, <1>2, <1>3, ControlFacts, Shapes1, ManagerShapes, Constants
  DEF Promoted, Stands, Verifying, Positions, Opens, Developing, Handing, Promoting, Rolling,
      Exchanging, Ended
<1>5. Undoes(c)' /\ Verifies(c)'
  BY <1>0, <1>1, <1>2, <1>3, Shapes1, ManagerShapes DEF Promoted, Undoes, Verifies, Gone,
     Positions, Opens
<1>6. ASSUME NEW x, Spares(x, c)
      PROVE  Spares(x, c)'
  <2>1. op'[Heir(c)].at = "checkpoint" /\ op'[Runner(c)] = op[Runner(c)]
    BY <1>0, <1>2
  <2>2. /\ run'[c] = run[c] /\ heir'[c] = "check" /\ heir[c] = "verify" /\ due'[c] = due[c]
        /\ cand'[c].gen = cand[c].gen /\ cand'[c].from = cand[c].from
    BY <1>2
  <2> QED
    BY <1>3, <1>6, <2>1, <2>2 DEF Spares, Engaged, Stranded, Exchanging
<1>7. \A d \in Candidates : InOffice(d)' => InOffice(d)
  BY <1>1, <1>2, <1>3, OfficeKept DEF Active, Developing, Handing
<1>8. TakesOver(c)'
  BY <1>0, <1>1, <1>2, <1>7, ControlFacts, Constants DEF TakesOver, Positions
<1> QED
  BY <1>2, <1>3, <1>4, <1>5, <1>6, <1>7, <1>8, RecordsStep DEF Tells

LEMMA RecordsGatesFail ==
    ASSUME Typed, Control, Disk, Records, NEW c \in Candidates, Gates(c), heir'[c] # "check"
    PROVE  Records'
<1>1. /\ Serving(c) /\ Positions(c) /\ Opens(c) /\ Lies(c)
      /\ Promoted(c) /\ Undoes(c) /\ Verifies(c) /\ TakesOver(c)
  BY DEF Control, Disk, Records
<1>2. GatesFailTurn(c)
  BY <1>1, DoesGatesFail
<1>3. Still /\ Apart(c) /\ saved' = saved
  BY <1>2 DEF GatesFailTurn, Turn, Still
<1> USE DEF Gates, IsAt, HeirAt, OpAt, GatesFailTurn, Turn, Managing, Telling
<1>4. Promoted(c)'
  BY <1>1, <1>2, <1>3, ControlFacts, Shapes1, ManagerShapes, Constants
  DEF Promoted, Stands, Verifying, Positions, Opens, Developing, Handing, Promoting, Rolling,
      Exchanging, Ended
<1>5. Undoes(c)' /\ Verifies(c)'
  BY <1>1, <1>2, <1>3, Shapes1, ManagerShapes DEF Promoted, Undoes, Verifies, Gone, Positions, Opens
<1>6. ASSUME NEW x, Spares(x, c)
      PROVE  Spares(x, c)'
  BY <1>1, <1>2, <1>3, <1>6, ControlFacts, Shapes1, ManagerShapes
  DEF Promoted, Spares, Engaged, Stranded, Acting, Developing, Handing, Positions, Opens, Promoting,
      Rolling, Exchanging, Ended
<1>7. \A d \in Candidates : InOffice(d)' => InOffice(d)
  BY <1>1, <1>2, <1>3, OfficeKept DEF Active, Developing, Handing
<1>8. TakesOver(c)'
  BY <1>1, <1>2, <1>7, ControlFacts, Constants DEF TakesOver, Positions
<1> QED
  BY <1>2, <1>3, <1>4, <1>5, <1>6, <1>7, <1>8, RecordsStep DEF Tells

LEMMA RecordsCheckFails ==
    ASSUME Typed, Control, Disk, Records, NEW c \in Candidates, CheckFails(c)
    PROVE  Records'
<1>1. /\ Serving(c) /\ Positions(c) /\ Opens(c) /\ Lies(c)
      /\ Promoted(c) /\ Undoes(c) /\ Verifies(c) /\ TakesOver(c)
  BY DEF Control, Disk, Records
<1>2. CheckFailsTurn(c)
  BY <1>1, DoesCheckFails
<1>3. Still /\ Apart(c) /\ saved' = saved
  BY <1>2 DEF CheckFailsTurn, Turn, Still
<1> USE DEF CheckFails, IsAt, HeirAt, OpAt, CheckFailsTurn, Turn, Managing, Telling
<1>4. Promoted(c)'
  BY <1>1, <1>2, <1>3, ControlFacts, Shapes1, ManagerShapes, Constants
  DEF Promoted, Stands, Verifying, Positions, Opens, Developing, Handing, Promoting, Rolling,
      Exchanging, Ended
<1>5. Undoes(c)' /\ Verifies(c)'
  BY <1>1, <1>2, <1>3, Shapes1, ManagerShapes DEF Promoted, Undoes, Verifies, Gone, Positions, Opens
<1>6. ASSUME NEW x, Spares(x, c)
      PROVE  Spares(x, c)'
  BY <1>1, <1>2, <1>3, <1>6, ControlFacts, Shapes1, ManagerShapes
  DEF Promoted, Spares, Engaged, Stranded, Acting, Developing, Handing, Positions, Opens, Promoting,
      Rolling, Exchanging, Ended
<1>7. \A d \in Candidates : InOffice(d)' => InOffice(d)
  BY <1>1, <1>2, <1>3, OfficeKept DEF Active, Developing, Handing
<1>8. TakesOver(c)'
  BY <1>1, <1>2, <1>7, ControlFacts, Constants DEF TakesOver, Positions
<1> QED
  BY <1>2, <1>3, <1>4, <1>5, <1>6, <1>7, <1>8, RecordsStep DEF Tells

LEMMA RecordsCompleteHandoff ==
    ASSUME Typed, Control, Disk, Records, NEW c \in Candidates, CompleteHandoff(c)
    PROVE  Records'
<1>1. /\ Serving(c) /\ Positions(c) /\ Opens(c) /\ Lies(c)
      /\ Promoted(c) /\ Undoes(c) /\ Verifies(c) /\ TakesOver(c)
  BY DEF Control, Disk, Records
<1>2. CompleteHandoffTurn(c)
  BY <1>1, DoesCompleteHandoff
<1>3. Still /\ Apart(c) /\ saved' = saved
  BY <1>2 DEF CompleteHandoffTurn, Turn, Still
<1> USE DEF CompleteHandoff, IsAt, HeirAt, OpAt, CompleteHandoffTurn, Turn, Managing, Telling
<1>4. Promoted(c)'
  BY <1>1, <1>2, <1>3, ControlFacts, Shapes1, ManagerShapes, Constants
  DEF Promoted, Stands, Verifying, Positions, Opens, Developing, Handing, Promoting, Rolling,
      Exchanging, Ended
<1>5. Undoes(c)' /\ Verifies(c)'
  BY <1>1, <1>2, <1>3, Shapes1, ManagerShapes DEF Promoted, Undoes, Verifies, Gone, Positions, Opens
<1>6. ASSUME NEW x, Spares(x, c)
      PROVE  Spares(x, c)'
  BY <1>1, <1>2, <1>3, <1>6, ControlFacts, Shapes1, ManagerShapes
  DEF Promoted, Spares, Engaged, Stranded, Acting, Developing, Handing, Positions, Opens, Promoting,
      Rolling, Exchanging, Ended
<1>7. \A d \in Candidates : InOffice(d)' => InOffice(d)
  BY <1>1, <1>2, <1>3, OfficeKept DEF Active, Developing, Handing
<1>8. TakesOver(c)'
  BY <1>1, <1>2, <1>7, ControlFacts, Constants DEF TakesOver, Positions
<1> QED
  BY <1>2, <1>3, <1>4, <1>5, <1>6, <1>7, <1>8, RecordsStep DEF Tells

LEMMA RecordsCompleteMission ==
    ASSUME Typed, Control, Disk, Records, NEW c \in Candidates, CompleteMission(c)
    PROVE  Records'
<1>1. /\ Serving(c) /\ Positions(c) /\ Opens(c) /\ Lies(c)
      /\ Promoted(c) /\ Undoes(c) /\ Verifies(c) /\ TakesOver(c)
  BY DEF Control, Disk, Records
<1>2. CompleteMissionTurn(c)
  BY <1>1, DoesCompleteMission
<1>3. Still /\ Apart(c) /\ saved' = saved
  BY <1>2 DEF CompleteMissionTurn, Turn, Still
<1> USE DEF CompleteMission, IsAt, HeirAt, OpAt, CompleteMissionTurn, Turn, Managing, Telling
<1>4. Promoted(c)'
  BY <1>1, <1>2, <1>3, ControlFacts, Shapes1, ManagerShapes, Constants
  DEF Promoted, Stands, Verifying, Positions, Opens, Developing, Handing, Promoting, Rolling,
      Exchanging, Ended
<1>5. Undoes(c)' /\ Verifies(c)'
  BY <1>1, <1>2, <1>3, Shapes1, ManagerShapes DEF Promoted, Undoes, Verifies, Gone, Positions, Opens
<1>6. ASSUME NEW x, Spares(x, c)
      PROVE  Spares(x, c)'
  BY <1>1, <1>2, <1>3, <1>6, ControlFacts, Shapes1, ManagerShapes
  DEF Promoted, Spares, Engaged, Stranded, Acting, Developing, Handing, Positions, Opens, Promoting,
      Rolling, Exchanging, Ended
<1>7. \A d \in Candidates : InOffice(d)' => InOffice(d)
  BY <1>1, <1>2, <1>3, OfficeKept DEF Active, Developing, Handing
<1>8. TakesOver(c)'
  BY <1>1, <1>2, <1>7, ControlFacts, Constants DEF TakesOver, Positions
<1> QED
  BY <1>2, <1>3, <1>4, <1>5, <1>6, <1>7, <1>8, RecordsStep DEF Tells

LEMMA RecordsCompletionFails ==
    ASSUME Typed, Control, Disk, Records, NEW c \in Candidates, CompletionFails(c)
    PROVE  Records'
<1>1. /\ Serving(c) /\ Positions(c) /\ Opens(c) /\ Lies(c)
      /\ Promoted(c) /\ Undoes(c) /\ Verifies(c) /\ TakesOver(c)
  BY DEF Control, Disk, Records
<1>2. CompletionFailsTurn(c)
  BY <1>1, DoesCompletionFails
<1>3. Still /\ Apart(c) /\ saved' = saved
  BY <1>2 DEF CompletionFailsTurn, Turn, Still
<1> USE DEF CompletionFails, IsAt, HeirAt, OpAt, CompletionFailsTurn, Turn, Managing, Telling
<1>4. Promoted(c)'
  BY <1>1, <1>2, <1>3, ControlFacts, Shapes1, ManagerShapes, Constants
  DEF Promoted, Stands, Verifying, Positions, Opens, Developing, Handing, Promoting, Rolling,
      Exchanging, Ended
<1>5. Undoes(c)' /\ Verifies(c)'
  BY <1>1, <1>2, <1>3, Shapes1, ManagerShapes DEF Promoted, Undoes, Verifies, Gone, Positions, Opens
<1>6. ASSUME NEW x, Spares(x, c)
      PROVE  Spares(x, c)'
  BY <1>1, <1>2, <1>3, <1>6, ControlFacts, Shapes1, ManagerShapes
  DEF Promoted, Spares, Engaged, Stranded, Acting, Developing, Handing, Positions, Opens, Promoting,
      Rolling, Exchanging, Ended
<1>7. \A d \in Candidates : InOffice(d)' => InOffice(d)
  BY <1>1, <1>2, <1>3, OfficeKept DEF Active, Developing, Handing
<1>8. TakesOver(c)'
  BY <1>1, <1>2, <1>7, ControlFacts, Constants DEF TakesOver, Positions
<1> QED
  BY <1>2, <1>3, <1>4, <1>5, <1>6, <1>7, <1>8, RecordsStep DEF Tells

LEMMA RecordsAccept ==
    ASSUME Typed, Control, Disk, Records, NEW c \in Candidates, Accept(c)
    PROVE  Records'
<1>1. /\ Serving(c) /\ Positions(c) /\ Opens(c) /\ Lies(c)
      /\ Promoted(c) /\ Undoes(c) /\ Verifies(c) /\ TakesOver(c)
  BY DEF Control, Disk, Records
<1>2. AcceptTurn(c)
  BY <1>1, DoesAccept
<1>3. Still /\ Apart(c) /\ saved' = saved
  BY <1>2 DEF AcceptTurn, Turn, Still
<1> USE DEF Accept, IsAt, HeirAt, OpAt, AcceptTurn, Turn, Managing, Telling
<1>4. Promoted(c)'
  BY <1>1, <1>2, <1>3, ControlFacts, Shapes1, ManagerShapes, Constants
  DEF Promoted, Stands, Verifying, Positions, Opens, Developing, Handing, Promoting, Rolling,
      Exchanging, Ended
<1>5. Undoes(c)' /\ Verifies(c)'
  BY <1>1, <1>2, <1>3, Shapes1, ManagerShapes DEF Promoted, Undoes, Verifies, Gone, Positions, Opens
<1>6. ASSUME NEW x, Spares(x, c)
      PROVE  Spares(x, c)'
  BY <1>1, <1>2, <1>3, <1>6, ControlFacts, Shapes1, ManagerShapes
  DEF Promoted, Spares, Engaged, Stranded, Acting, Developing, Handing, Positions, Opens, Promoting,
      Rolling, Exchanging, Ended
<1>7. \A d \in Candidates \ {c} : InOffice(d)' => InOffice(d)
  BY <1>2 DEF InOffice, Apart, Active, Developing, Handing
<1>8. TakesOver(c)'
  <2>1. run[c] \in {"wait", "lost"}
    BY <1>1, ControlFacts DEF Positions, Opens, Developing, Handing
  <2>2. mission[c] = "completed" /\ handoff[c] = "completed"
    BY <1>1 DEF Verifies
  <2>3. saved.active = cand[c].gen /\ cand[c].gen \in Slots /\ Fresh
    BY <1>1, <2>1 DEF Lies, Promoted, Stands, Verifying, Fresh
  <2>4. Holds(cand[c].gen)
    BY <2>3, TypeFacts, LineOfActive, LineStarts DEF Holds, Fresh
  <2> PICK x : x = cand[c].gen
    OBVIOUS
  <2>5. ASSUME NEW e \in Candidates \ {c}
        PROVE  Spares(cand[c].gen, e)'
    <3>1. ~Engaged(e)
      BY DEF Accept, Control, OneMission, Engaged, Stranded
    <3>2. Spares(x, e)
      BY <3>1, SparesQuiet
    <3>3. run[e] = "develop" => ~due[e]
      BY DEF Control, Positions
    <3>4. Spares(x, e)'
      BY <1>3, <2>5, <3>2, <3>3, SparesFrame DEF Apart
    <3> QED
      BY <1>2, <3>4 DEF Spares, Telling
  <2>6. Holds(cand[c].gen)'
    <3>1. Holds(x)'
      BY <1>3, <2>4, HoldsFrame
    <3> QED
      BY <1>2, <3>1 DEF Holds, Telling
  <2> QED
    BY <1>2, <2>1, <2>2, <2>5, <2>6 DEF TakesOver, Telling
<1> QED
  BY <1>2, <1>3, <1>4, <1>5, <1>6, <1>7, <1>8, RecordsStep DEF Tells

LEMMA RecordsAcceptFails ==
    ASSUME Typed, Control, Disk, Records, NEW c \in Candidates, AcceptFails(c)
    PROVE  Records'
<1>1. /\ Serving(c) /\ Positions(c) /\ Opens(c) /\ Lies(c)
      /\ Promoted(c) /\ Undoes(c) /\ Verifies(c) /\ TakesOver(c)
  BY DEF Control, Disk, Records
<1>2. AcceptFailsTurn(c)
  BY <1>1, DoesAcceptFails
<1>3. Still /\ Apart(c) /\ saved' = saved
  BY <1>2 DEF AcceptFailsTurn, Turn, Still
<1> USE DEF AcceptFails, IsAt, HeirAt, OpAt, AcceptFailsTurn, Turn, Managing, Telling
<1>4. Promoted(c)'
  BY <1>1, <1>2, <1>3, ControlFacts, Shapes1, ManagerShapes, Constants
  DEF Promoted, Stands, Verifying, Positions, Opens, Developing, Handing, Promoting, Rolling,
      Exchanging, Ended
<1>5. Undoes(c)' /\ Verifies(c)'
  BY <1>1, <1>2, <1>3, Shapes1, ManagerShapes DEF Promoted, Undoes, Verifies, Gone, Positions, Opens
<1>6. ASSUME NEW x, Spares(x, c)
      PROVE  Spares(x, c)'
  BY <1>1, <1>2, <1>3, <1>6, ControlFacts, Shapes1, ManagerShapes
  DEF Promoted, Spares, Engaged, Stranded, Acting, Developing, Handing, Positions, Opens, Promoting,
      Rolling, Exchanging, Ended
<1>7. \A d \in Candidates : InOffice(d)' => InOffice(d)
  BY <1>1, <1>2, <1>3, OfficeKept DEF Active, Developing, Handing
<1>8. TakesOver(c)'
  BY <1>1, <1>2, <1>7, ControlFacts, Constants DEF TakesOver, Positions
<1> QED
  BY <1>2, <1>3, <1>4, <1>5, <1>6, <1>7, <1>8, RecordsStep DEF Tells

LEMMA RecordsHeirUndone ==
    ASSUME Typed, Control, Disk, Records, NEW c \in Candidates, HeirUndone(c)
    PROVE  Records'
<1>1. /\ Serving(c) /\ Positions(c) /\ Opens(c) /\ Lies(c)
      /\ Promoted(c) /\ Undoes(c) /\ Verifies(c) /\ TakesOver(c)
  BY DEF Control, Disk, Records
<1>2. HeirUndoneTurn(c)
  BY <1>1, DoesHeirUndone
<1>3. Still /\ Apart(c) /\ saved' = saved
  BY <1>2 DEF HeirUndoneTurn, Turn, Still
<1> USE DEF HeirUndone, IsAt, HeirAt, OpAt, HeirUndoneTurn, Turn, Managing, Telling
<1>4. Promoted(c)'
  BY <1>1, <1>2, <1>3, ControlFacts, Shapes1, ManagerShapes, Constants
  DEF Promoted, Stands, Verifying, Positions, Opens, Developing, Handing, Promoting, Rolling,
      Exchanging, Ended
<1>5. Undoes(c)' /\ Verifies(c)'
  BY <1>1, <1>2, <1>3, Shapes1, ManagerShapes DEF Promoted, Undoes, Verifies, Gone, Positions, Opens
<1>6. ASSUME NEW x, Spares(x, c)
      PROVE  Spares(x, c)'
  BY <1>1, <1>2, <1>3, <1>6, ControlFacts, Shapes1, ManagerShapes
  DEF Promoted, Spares, Engaged, Stranded, Acting, Developing, Handing, Positions, Opens, Promoting,
      Rolling, Exchanging, Ended
<1>7. \A d \in Candidates : InOffice(d)' => InOffice(d)
  BY <1>1, <1>2, <1>3, OfficeKept DEF Active, Developing, Handing
<1>8. TakesOver(c)'
  BY <1>1, <1>2, <1>7, ControlFacts, Constants DEF TakesOver, Positions
<1> QED
  BY <1>2, <1>3, <1>4, <1>5, <1>6, <1>7, <1>8, RecordsStep DEF Tells

LEMMA RecordsHeirClosesAlone ==
    ASSUME Typed, Control, Disk, Records, NEW c \in Candidates, HeirCloses(c), run[c] = "lost"
    PROVE  Records'
<1>1. /\ Serving(c) /\ Positions(c) /\ Opens(c) /\ Lies(c)
      /\ Promoted(c) /\ Undoes(c) /\ Verifies(c) /\ TakesOver(c)
  BY DEF Control, Disk, Records
<1>2. HeirClosesAloneTurn(c)
  BY <1>1, DoesHeirClosesAlone
<1>3. Still /\ Apart(c) /\ saved' = saved
  BY <1>2 DEF HeirClosesAloneTurn, Turn, Still
<1> USE DEF HeirCloses, IsAt, HeirAt, OpAt, HeirClosesAloneTurn, Turn, Managing, Telling
<1>4. Promoted(c)'
  BY <1>1, <1>2, <1>3, ControlFacts, Shapes1, ManagerShapes, Constants
  DEF Promoted, Stands, Verifying, Positions, Opens, Developing, Handing, Promoting, Rolling,
      Exchanging, Ended
<1>5. Undoes(c)' /\ Verifies(c)'
  BY <1>1, <1>2, <1>3, Shapes1, ManagerShapes DEF Promoted, Undoes, Verifies, Gone, Positions, Opens
<1>6. ASSUME NEW x, Spares(x, c)
      PROVE  Spares(x, c)'
  BY <1>1, <1>2, <1>3, <1>6, ControlFacts, Shapes1, ManagerShapes
  DEF Promoted, Spares, Engaged, Stranded, Acting, Developing, Handing, Positions, Opens, Promoting,
      Rolling, Exchanging, Ended
<1>7. \A d \in Candidates : InOffice(d)' => InOffice(d)
  BY <1>1, <1>2, <1>3, OfficeKept DEF Active, Developing, Handing
<1>8. TakesOver(c)'
  BY <1>1, <1>2, <1>7, ControlFacts, Constants DEF TakesOver, Positions
<1> QED
  BY <1>2, <1>3, <1>4, <1>5, <1>6, <1>7, <1>8, RecordsStep DEF Tells

LEMMA RecordsHeirCloses ==
    ASSUME Typed, Control, Disk, Records, NEW c \in Candidates, HeirCloses(c), run[c] # "lost"
    PROVE  Records'
<1>1. /\ Serving(c) /\ Positions(c) /\ Opens(c) /\ Lies(c)
      /\ Promoted(c) /\ Undoes(c) /\ Verifies(c) /\ TakesOver(c)
  BY DEF Control, Disk, Records
<1>2. HeirClosesTurn(c)
  BY <1>1, DoesHeirCloses
<1>3. Still /\ Apart(c) /\ saved' = saved
  BY <1>2 DEF HeirClosesTurn, Turn, Still
<1> USE DEF HeirCloses, IsAt, HeirAt, OpAt, HeirClosesTurn, Turn, Managing, Telling
<1>4. Promoted(c)'
  BY <1>1, <1>2, <1>3, ControlFacts, Shapes1, ManagerShapes, Constants
  DEF Promoted, Stands, Verifying, Positions, Opens, Developing, Handing, Promoting, Rolling,
      Exchanging, Ended
<1>5. Undoes(c)' /\ Verifies(c)'
  BY <1>1, <1>2, <1>3, Shapes1, ManagerShapes DEF Promoted, Undoes, Verifies, Gone, Positions, Opens
<1>6. ASSUME NEW x, Spares(x, c)
      PROVE  Spares(x, c)'
  BY <1>1, <1>2, <1>3, <1>6, ControlFacts, Shapes1, ManagerShapes
  DEF Promoted, Spares, Engaged, Stranded, Acting, Developing, Handing, Positions, Opens, Promoting,
      Rolling, Exchanging, Ended
<1>7. \A d \in Candidates : InOffice(d)' => InOffice(d)
  BY <1>1, <1>2, <1>3, OfficeKept DEF Active, Developing, Handing
<1>8. TakesOver(c)'
  BY <1>1, <1>2, <1>7, ControlFacts, Constants DEF TakesOver, Positions
<1> QED
  BY <1>2, <1>3, <1>4, <1>5, <1>6, <1>7, <1>8, RecordsStep DEF Tells

LEMMA RecordsHeirUndoFails ==
    ASSUME Typed, Control, Disk, Records, NEW c \in Candidates, HeirUndoFails(c)
    PROVE  Records'
<1>1. /\ Serving(c) /\ Positions(c) /\ Opens(c) /\ Lies(c)
      /\ Promoted(c) /\ Undoes(c) /\ Verifies(c) /\ TakesOver(c)
  BY DEF Control, Disk, Records
<1>2. HeirUndoFailsTurn(c)
  BY <1>1, DoesHeirUndoFails
<1>3. Still /\ Apart(c) /\ saved' = saved
  BY <1>2 DEF HeirUndoFailsTurn, Turn, Still
<1> USE DEF HeirUndoFails, IsAt, HeirAt, OpAt, HeirUndoFailsTurn, Turn, Managing, Telling
<1>4. Promoted(c)'
  BY <1>1, <1>2, <1>3, ControlFacts, Shapes1, ManagerShapes, Constants
  DEF Promoted, Stands, Verifying, Positions, Opens, Developing, Handing, Promoting, Rolling,
      Exchanging, Ended
<1>5. Undoes(c)' /\ Verifies(c)'
  BY <1>1, <1>2, <1>3, Shapes1, ManagerShapes DEF Promoted, Undoes, Verifies, Gone, Positions, Opens
<1>6. ASSUME NEW x, Spares(x, c)
      PROVE  Spares(x, c)'
  BY <1>1, <1>2, <1>3, <1>6, ControlFacts, Shapes1, ManagerShapes
  DEF Promoted, Spares, Engaged, Stranded, Acting, Developing, Handing, Positions, Opens, Promoting,
      Rolling, Exchanging, Ended
<1>7. \A d \in Candidates : InOffice(d)' => InOffice(d)
  BY <1>1, <1>2, <1>3, OfficeKept DEF Active, Developing, Handing
<1>8. TakesOver(c)'
  BY <1>1, <1>2, <1>7, ControlFacts, Constants DEF TakesOver, Positions
<1> QED
  BY <1>2, <1>3, <1>4, <1>5, <1>6, <1>7, <1>8, RecordsStep DEF Tells

LEMMA RecordsReplace ==
    ASSUME Typed, Control, Disk, Records, NEW c \in Candidates, Replace(c)
    PROVE  Records'
<1>1. /\ Serving(c) /\ Positions(c) /\ Opens(c) /\ Lies(c)
      /\ Promoted(c) /\ Undoes(c) /\ Verifies(c) /\ TakesOver(c)
  BY DEF Control, Disk, Records
<1>2. ReplaceTurn(c)
  BY <1>1, DoesReplace
<1>3. Still /\ Apart(c) /\ saved' = saved
  BY <1>2 DEF ReplaceTurn, Turn, Still
<1> USE DEF Replace, IsAt, HeirAt, OpAt, ReplaceTurn, Turn, Managing, Telling
<1>4. Promoted(c)'
  BY <1>1, <1>2, <1>3, ControlFacts, Shapes1, ManagerShapes, Constants
  DEF Promoted, Stands, Verifying, Positions, Opens, Developing, Handing, Promoting, Rolling,
      Exchanging, Ended
<1>5. Undoes(c)' /\ Verifies(c)'
  BY <1>1, <1>2, <1>3, Shapes1, ManagerShapes DEF Promoted, Undoes, Verifies, Gone, Positions, Opens
<1>6. ASSUME NEW x, Spares(x, c)
      PROVE  Spares(x, c)'
  BY <1>1, <1>2, <1>3, <1>6, ControlFacts, Shapes1, ManagerShapes
  DEF Promoted, Spares, Engaged, Stranded, Acting, Developing, Handing, Positions, Opens, Promoting,
      Rolling, Exchanging, Ended
<1>7. \A d \in Candidates : InOffice(d)' => InOffice(d)
  BY <1>1, <1>2, <1>3, OfficeKept DEF Active, Developing, Handing
<1>8. TakesOver(c)'
  BY <1>1, <1>2, <1>7, ControlFacts, Constants DEF TakesOver, Positions
<1> QED
  BY <1>2, <1>3, <1>4, <1>5, <1>6, <1>7, <1>8, RecordsStep DEF Tells

LEMMA RecordsHeirCrashes ==
    ASSUME Typed, Control, Disk, Records, NEW c \in Candidates, HeirCrashes(c)
    PROVE  Records'
<1>1. /\ Serving(c) /\ Positions(c) /\ Opens(c) /\ Lies(c)
      /\ Promoted(c) /\ Undoes(c) /\ Verifies(c) /\ TakesOver(c)
  BY DEF Control, Disk, Records
<1>2. HeirCrashesTurn(c)
  BY <1>1, DoesHeirCrashes
<1>3. Still /\ Apart(c) /\ saved' = saved
  BY <1>2 DEF HeirCrashesTurn, Turn, Still
<1> USE DEF HeirCrashes, IsAt, HeirAt, OpAt, HeirCrashesTurn, Turn, Managing, Telling
<1>4. Promoted(c)'
  BY <1>1, <1>2, <1>3, ControlFacts, Shapes1, ManagerShapes, Constants
  DEF Promoted, Stands, Verifying, Positions, Opens, Developing, Handing, Promoting, Rolling,
      Exchanging, Ended
<1>5. Undoes(c)' /\ Verifies(c)'
  BY <1>1, <1>2, <1>3, Shapes1, ManagerShapes DEF Promoted, Undoes, Verifies, Gone, Positions, Opens
<1>6. ASSUME NEW x, Spares(x, c)
      PROVE  Spares(x, c)'
  BY <1>1, <1>2, <1>3, <1>6, ControlFacts, Shapes1, ManagerShapes
  DEF Promoted, Spares, Engaged, Stranded, Acting, Developing, Handing, Positions, Opens, Promoting,
      Rolling, Exchanging, Ended
<1>7. \A d \in Candidates : InOffice(d)' => InOffice(d)
  BY <1>1, <1>2, <1>3, OfficeKept DEF Active, Developing, Handing
<1>8. TakesOver(c)'
  BY <1>1, <1>2, <1>7, ControlFacts, Constants DEF TakesOver, Positions
<1> QED
  BY <1>2, <1>3, <1>4, <1>5, <1>6, <1>7, <1>8, RecordsStep DEF Tells

-----------------------------------------------------------------------------
(* What the records say, while processes die and are started.              *)

LEMMA RecordsProcessDies ==
    ASSUME Typed, Control, Records, NEW p \in Servers, ProcessDies(p)
    PROVE  Records'
<1>0. Still
  BY DoesProcessDies DEF Still, repo, files
<1>1. /\ UNCHANGED <<saved, own, record, due, by>> /\ (server' = server \/ server' = "none")
      /\ \A c \in Candidates :
            /\ \/ Active(c) /\ run'[c] = "lost"
               \/ run'[c] = run[c] /\ (by[c] = p => ~Active(c))
            /\ op'[Runner(c)] = IF by[c] = p THEN IdleManager ELSE op[Runner(c)]
            /\ \/ heir'[c] = "none" /\ op'[Heir(c)] = IdleManager
               \/ heir'[c] = heir[c] /\ op'[Heir(c)] = op[Heir(c)]
  BY DoesProcessDies DEF files
<1>2. ASSUME NEW c \in Candidates
      PROVE  /\ Promoted(c)' /\ Undoes(c)' /\ Verifies(c)'
             /\ \A x : Spares(x, c) => Spares(x, c)'
  <2>1. /\ cand'[c] = cand[c] /\ handoff'[c] = handoff[c] /\ mission'[c] = mission[c]
        /\ record'[c] = record[c] /\ due'[c] = due[c] /\ saved' = saved
    BY <1>1 DEF own
  <2>2. \/ Active(c) /\ run'[c] = "lost"
        \/ run'[c] = run[c] /\ op'[Runner(c)] = op[Runner(c)]
        \/ run'[c] = run[c] /\ ~Active(c) /\ op'[Runner(c)] = IdleManager
    BY <1>1
  <2>3. /\ op'[Runner(c)] \in {op[Runner(c)], IdleManager}
        /\ \/ heir'[c] = "none" /\ op'[Heir(c)] = IdleManager
           \/ heir'[c] = heir[c] /\ op'[Heir(c)] = op[Heir(c)]
    BY <1>1
  <2>4. Promoted(c) /\ Undoes(c) /\ Verifies(c) /\ Positions(c) /\ IdleManager.at = "idle"
    BY ManagerShapes DEF Records, Control
  <2>5. Stands(c)' /\ run'[c] # "promote" => Stands(c) /\ run[c] # "promote"
    BY <2>1, <2>2, <2>3, <2>4, ControlFacts
    DEF Stands, Verifying, Positions, Active, Developing, Handing
  <2>6. Promoted(c)'
    BY <2>1, <2>2, <2>3, <2>4, <2>5 DEF Promoted, Active, Developing, Handing, Exchanging
  <2>7. Undoes(c)' /\ Verifies(c)'
    BY <2>1, <2>2, <2>3, <2>4 DEF Undoes, Verifies, Gone, Active, Developing, Handing
  <2>8. Engaged(c)' => Engaged(c)
    BY <2>1, <2>2, <2>3, <2>4 DEF Engaged, Stranded, Acting, Active, Developing, Handing, Positions
  <2>9. run'[c] = "promote" => op'[Runner(c)] = op[Runner(c)] /\ run[c] = "promote"
    BY <2>2 DEF Active, Developing
  <2>10. \A x : Spares(x, c) => Spares(x, c)'
    BY <2>1, <2>3, <2>4, <2>8, <2>9 DEF Spares, Exchanging
  <2> QED
    BY <2>6, <2>7, <2>10
<1>3. ASSUME NEW c \in Candidates
      PROVE  TakesOver(c)'
  <2>1. SUFFICES ASSUME InOffice(c)', by'[c] # c
                 PROVE  TakesOver(c)'
    BY DEF TakesOver
  <2>2. /\ cand'[c] = cand[c] /\ handoff'[c] = handoff[c] /\ mission'[c] = mission[c]
        /\ record'[c] = record[c] /\ by'[c] = by[c] /\ InOffice(c) /\ run'[c] \in {run[c], "lost"}
    BY <1>1, <2>1, Constants DEF own, InOffice, Active, Developing, Handing
  <2> PICK x : x = cand[c].gen
    OBVIOUS
  <2>3. /\ mission[c] = "completed" /\ handoff[c] = "completed"
        /\ record[c] = "accepted" /\ run[c] \in {"wait", "retire", "over", "lost"}
        /\ Holds(x) /\ \A e \in Candidates \ {c} : Spares(x, e)
    BY <2>1, <2>2 DEF TakesOver, Records
  <2>4. Holds(x)' /\ \A e \in Candidates \ {c} : Spares(x, e)'
    BY <1>0, <1>2, <2>3, HoldsFrame
  <2>5. Holds(cand[c].gen)' /\ \A e \in Candidates \ {c} : Spares(cand[c].gen, e)'
    BY <2>2, <2>4 DEF Holds, Spares
  <2> QED
    BY <2>2, <2>3, <2>5 DEF TakesOver
<1> QED
  BY <1>2, <1>3 DEF Records

LEMMA RecordsRestart ==
    ASSUME Typed, Control, Records, Restart \/ UNCHANGED improvementVars
    PROVE  Records'
<1>1. /\ UNCHANGED <<saved, head, pins, journal, op, cand, handoff, mission, record, due, run, by,
                     heir>>
      /\ server' \in {server, "plain"}
  BY DEF Restart, repo, files, own, life, improvementVars
<1>2. Still
  BY <1>1 DEF Still
<1>3. ASSUME NEW c \in Candidates
      PROVE  Promoted(c)' /\ Undoes(c)' /\ Verifies(c)'
  <2>1. Promoted(c) /\ Undoes(c) /\ Verifies(c)
    BY DEF Records
  <2> QED
    BY <1>1, <2>1 DEF Promoted, Stands, Undoes, Verifies, Gone
<1>4. ASSUME NEW c \in Candidates
      PROVE  TakesOver(c)'
  <2>1. SUFFICES ASSUME InOffice(c)', by'[c] # c
                 PROVE  TakesOver(c)'
    BY DEF TakesOver
  <2>2. InOffice(c) /\ by[c] # c
    BY <1>1, <2>1, Constants DEF InOffice, Active
  <2> PICK x : x = cand[c].gen
    OBVIOUS
  <2>3. /\ mission[c] = "completed" /\ handoff[c] = "completed"
        /\ record[c] = "accepted" /\ run[c] \in {"wait", "retire", "over", "lost"}
        /\ Holds(x) /\ \A e \in Candidates \ {c} : Spares(x, e)
    BY <2>2 DEF TakesOver, Records
  <2>4. Holds(x)' /\ \A e \in Candidates \ {c} : Spares(x, e)'
    BY <1>1, <1>2, <2>3, HoldsFrame, SparesFrame
  <2>5. Holds(cand[c].gen)' /\ \A e \in Candidates \ {c} : Spares(cand[c].gen, e)'
    BY <1>1, <2>4 DEF Holds, Spares
  <2> QED
    BY <1>1, <2>3, <2>5 DEF TakesOver
<1> QED
  BY <1>3, <1>4 DEF Records

LEMMA RecordsStart ==
    ASSUME ImprovementInit
    PROVE  Records
<1> USE DEF ImprovementInit, GenerationsInit
<1>1. ASSUME NEW c \in Candidates
      PROVE  Promoted(c) /\ Undoes(c) /\ Verifies(c) /\ TakesOver(c)
  <2>1. /\ run[c] = "none" /\ heir[c] = "none" /\ mission[c] = "none" /\ ~due[c]
        /\ cand[c].gen = 0 /\ server = "plain"
    OBVIOUS
  <2>2. ~Stands(c)
    BY <2>1 DEF Stands, Verifying
  <2> QED
    BY <2>1, <2>2, Constants DEF Promoted, Undoes, Verifies, TakesOver, InOffice, Active,
       Developing, Handing
<1> QED
  BY <1>1 DEF Records

-----------------------------------------------------------------------------
(* What the records say, while a manager works.                            *)

LEMMA SparesQuietly ==
    ASSUME Control', NEW d \in Candidates, ~Engaged(d)', NEW x
    PROVE  Spares(x, d)'
<1>1. IdleManager.at = "idle"
  BY DEF IdleManager, Working
<1>2. op'[Runner(d)].at = "idle" /\ op'[Heir(d)].at = "idle" /\ run'[d] # "promote"
  BY <1>1 DEF Control, Opens, Engaged, Stranded, Acting, Developing, Handing
<1> QED
  BY <1>2 DEF Spares, Exchanging

\* A candidate the repository is brought behind is gone.
LEMMA BackAtParent ==
    ASSUME Typed, Disk, NEW c \in Candidates, Promoted(c), cand[c].gen # 0,
           saved.active = cand[c].from
    PROVE  Gone(c)
<1>1. /\ cand[c].gen \in Slots /\ saved.gens[cand[c].gen] # Blank
      /\ saved.gens[cand[c].gen].parent = cand[c].from
  BY DEF Promoted
<1>2. cand[c].from < cand[c].gen
  BY <1>1 DEF Disk, RecordsSound
<1>3. Descending(saved)
  <2>1. ASSUME NEW g \in Slots
        PROVE  saved.gens[g].parent < g
    <3>1. CASE saved.gens[g] = Blank
      BY <3>1, Constants DEF Slots
    <3>2. CASE saved.gens[g] # Blank
      BY <3>2 DEF Disk, RecordsSound
    <3> QED
      BY <3>1, <3>2
  <2> QED
    BY <2>1 DEF Descending
<1>4. ASSUME cand[c].gen \in Line(saved)
      PROVE  FALSE
  <2>1. cand[c].gen \in LineOf(saved, saved.active) /\ saved.active \in Nat
    BY <1>4, LineOfActive, TypeFacts, Constants DEF RepositoryState
  <2>2. cand[c].gen <= saved.active
    BY <1>3, <2>1, LineDescends, TypeFacts
  <2> QED
    BY <1>1, <1>2, <2>1, <2>2, Constants
<1> QED
  BY <1>4 DEF Gone

LEMMA RecordsWork ==
    ASSUME Typed, Control, Disk, Records, Control', UNCHANGED <<own, life>>,
           NEW c \in Candidates, NEW a \in {Runner(c), Heir(c)}, Goes(a),
           \A g \in Slots : saved.gens[g] # Blank => saved'.gens[g] = saved.gens[g],
           \A e \in Candidates : Gone(e) => Gone(e)',
           Stands(c) /\ run[c] # "promote" => saved'.active = saved.active,
           run[c] = "promote" /\ op'[Runner(c)].at = "done" =>
               saved'.gens[saved'.active].parent # 0,
           run[c] = "unpublish" /\ op'[Runner(c)].at \in Exchanging =>
               op'[Runner(c)].plan.to = op'[Runner(c)].goal,
           run[c] = "undo" /\ op'[Runner(c)].at = "done" => Gone(c)',
           heir[c] = "undo" /\ op'[Heir(c)].at = "done" => Gone(c)',
           \A x : Holds(x) /\ Spares(x, c) => Holds(x)' /\ Spares(x, c)'
    PROVE  Records'
<1>0. a \in Actors /\ op[a].at \in Promoting \cup Rolling /\ op'[a].goal = op[a].goal
  BY ActorFacts DEF Goes, Follows
<1>1. Engaged(c)
  BY <1>0, WorkerFacts
<1>2. \A b \in Actors : b # a => op'[b] = op[b]
  BY <1>0, GoesOthers
<1>3. /\ UNCHANGED <<cand, handoff, mission, record, due, run, by, heir, server>>
  BY DEF own, life
<1>4. /\ op'[Runner(c)].goal = op[Runner(c)].goal /\ op'[Heir(c)].goal = op[Heir(c)].goal
      /\ \A d \in Candidates : d # c =>
            op'[Runner(d)] = op[Runner(d)] /\ op'[Heir(d)] = op[Heir(d)]
  BY <1>0, <1>2, ActorFacts
<1>5. \A d \in Candidates : d # c => ~Engaged(d) /\ ~Engaged(d)'
  BY <1>1, <1>3 DEF Control, OneMission, Engaged, Stranded
<1>6. ASSUME NEW d \in Candidates
      PROVE  Promoted(d)' /\ Undoes(d)' /\ Verifies(d)'
  <2>1. Promoted(d) /\ Undoes(d) /\ Verifies(d)
    BY DEF Records
  <2>2. Verifies(d)'
    BY <1>3, <2>1 DEF Verifies
  <2>3. cand'[d].gen # 0 => /\ cand'[d].gen \in Slots /\ saved'.gens[cand'[d].gen] # Blank
                            /\ saved'.gens[cand'[d].gen].parent = cand'[d].from
                            /\ cand'[d].from # 0
    BY <1>3, <2>1 DEF Promoted
  <2>4. CASE d = c
    <3>1. Stands(c)' /\ run'[c] # "promote" => saved'.active = cand'[c].gen
      BY <1>3, <2>1, <2>4 DEF Promoted, Stands
    <3>2. Promoted(c)'
      BY <1>3, <1>4, <2>1, <2>3, <2>4, <3>1 DEF Promoted
    <3>3. Undoes(c)'
      BY <1>3, <2>1, <2>4 DEF Undoes
    <3> QED
      BY <2>2, <2>4, <3>2, <3>3
  <2>5. CASE d # c
    <3>1. ~Engaged(d)' /\ op'[Runner(d)] = op[Runner(d)] /\ op'[Heir(d)] = op[Heir(d)]
      BY <1>4, <1>5, <2>5
    <3>2. ~Stands(d)' /\ run'[d] # "promote"
      BY <3>1 DEF Stands, Engaged, Stranded, Acting, Verifying, Developing, Handing
    <3>3. Promoted(d)'
      BY <1>3, <2>1, <2>3, <3>1, <3>2 DEF Promoted
    <3>4. Undoes(d)'
      BY <1>3, <2>1, <3>1 DEF Undoes
    <3> QED
      BY <2>2, <3>3, <3>4
  <2> QED
    BY <2>4, <2>5
<1>7. ASSUME NEW d \in Candidates
      PROVE  TakesOver(d)'
  <2>1. SUFFICES ASSUME InOffice(d), by[d] # d
                 PROVE  TakesOver(d)'
    BY <1>3 DEF TakesOver, InOffice, Active
  <2> PICK x : x = cand[d].gen
    OBVIOUS
  <2>2. /\ mission[d] = "completed" /\ handoff[d] = "completed"
        /\ record[d] = "accepted" /\ run[d] \in {"wait", "retire", "over", "lost"}
        /\ Holds(x) /\ \A e \in Candidates \ {d} : Spares(x, e)
    BY <2>1 DEF TakesOver, Records
  <2>3. d # c
    <3>1. heir[d] = "none"
      BY <2>2 DEF Control, Positions
    <3>2. op[Runner(d)].at = "idle" /\ op[Heir(d)].at = "idle"
      BY <2>2, <3>1, ManagerShapes DEF Control, Opens
    <3> QED
      BY <1>0, <3>2 DEF Promoting, Rolling, Exchanging
  <2>4. Holds(x)' /\ Spares(x, c)'
    BY <2>2, <2>3
  <2>5. \A e \in Candidates \ {d} : Spares(x, e)'
    BY <1>5, <2>4, SparesQuietly
  <2>6. Holds(cand[d].gen)' /\ \A e \in Candidates \ {d} : Spares(cand[d].gen, e)'
    BY <1>3, <2>4, <2>5 DEF Holds, Spares
  <2> QED
    BY <1>3, <2>2, <2>6 DEF TakesOver
<1> QED
  BY <1>6, <1>7 DEF Records

\* Steps that change neither the recorded state nor the journal.
LEMMA RecordsQuiet ==
    ASSUME Typed, Control, Disk, Records, Control', UNCHANGED <<own, life>>,
           NEW c \in Candidates, NEW a \in {Runner(c), Heir(c)}, Goes(a),
           saved' = saved, journal' = journal,
           op'[a].at \in Exchanging => op[a].at \in Exchanging /\ op'[a].plan = op[a].plan,
           op'[a].at # "plan",
           op'[a].at = "done" => a = Heir(c) /\ heir[c] # "undo"
    PROVE  Records'
<1>0. a \in Actors /\ op[a].at \in Promoting \cup Rolling /\ op'[a].goal = op[a].goal
  BY ActorFacts DEF Goes, Follows
<1>1. \A b \in {Runner(c), Heir(c)} : b # a => op'[b] = op[b]
  BY <1>0, GoesOthers, ActorFacts
<1>2. UNCHANGED <<cand, due, run, heir>>
  BY DEF own, life
<1>3. Promoted(c) /\ Undoes(c)
  BY DEF Records
<1>4. \A e \in Candidates : Gone(e) => Gone(e)'
  BY <1>2 DEF Gone
<1>5. run[c] = "promote" /\ op'[Runner(c)].at = "done" => saved.gens[saved.active].parent # 0
  BY <1>1, <1>3, ActorFacts DEF Promoted
<1>6. run[c] = "unpublish" /\ op'[Runner(c)].at \in Exchanging =>
          op'[Runner(c)].plan.to = op'[Runner(c)].goal
  BY <1>0, <1>1, <1>3 DEF Promoted
<1>7. /\ run[c] = "undo" /\ op'[Runner(c)].at = "done" => Gone(c)'
      /\ heir[c] = "undo" /\ op'[Heir(c)].at = "done" => Gone(c)'
  BY <1>1, <1>3, <1>4, ActorFacts DEF Undoes
<1>8. ASSUME NEW x, Holds(x), Spares(x, c)
      PROVE  Holds(x)' /\ Spares(x, c)'
  <2>1. Holds(x)'
    BY <1>8 DEF Holds, Foreign, Names
  <2>2. Engaged(c)' = Engaged(c)
    BY DEF Engaged, Stranded, life
  <2>3. run[c] = "promote" /\ op'[Runner(c)].at = "done" => op[Runner(c)].at = "done"
    BY <1>1, ActorFacts
  <2>4. \A b \in {Runner(c), Heir(c)} :
            /\ op'[b].at \in Exchanging =>
                  op[b].at \in Exchanging /\ op'[b].plan = op[b].plan
            /\ op'[b].at = "plan" => op[b].at = "plan" /\ op'[b].goal = op[b].goal
    BY <1>1
  <2>5. Spares(x, c)'
    BY <1>2, <1>8, <2>2, <2>3, <2>4 DEF Spares
  <2> QED
    BY <2>1, <2>5
<1> QED
  BY <1>4, <1>5, <1>6, <1>7, <1>8, RecordsWork

LEMMA RecordsQuietWork ==
    ASSUME Typed, Control, Disk, Records, Control', UNCHANGED <<own, life>>,
           NEW c \in Candidates, NEW a \in {Runner(c), Heir(c)},
           \/ Checkpoint(a) \/ Activate(a) \/ Forward(a) \/ Restore(a) \/ Unpin(a) \/ Reset(a)
           \/ Reject(a) \/ WriteFails(a) \/ Torn(a)
    PROVE  Records'
<1>0. a \in Actors
  BY ActorFacts
<1>1. saved' = saved /\ journal' = journal
  BY DEF Checkpoint, Activate, Forward, Restore, Unpin, Reset, Reject, WriteFails, Torn, files
<1>2. CASE Checkpoint(a)
  <2>1. op[a].at \in Promoting
    BY <1>2 DEF Checkpoint, OpAt, Promoting
  <2>2. Goes(a) /\ op'[a].at \in {"publish", AfterCheckpoint(op[a])}
    BY <1>0, <1>2, GoesCheckpointed, GoesPinning DEF Turns
  <2>3. a = Runner(c) => op'[a].at # "done"
    BY <2>1, <2>2, WorkerFacts, Constants DEF AfterCheckpoint
  <2>4. a = Heir(c) => heir[c] # "undo"
    BY <2>1, WorkerFacts
  <2> QED
    BY <1>1, <2>2, <2>3, <2>4, RecordsQuiet DEF AfterCheckpoint, Exchanging
<1>3. CASE Activate(a)
  <2>1. op[a].at \in Promoting /\ op[a].at = "activate"
    BY <1>3 DEF Activate, OpAt, Promoting
  <2>2. /\ a = Runner(c) /\ op[a].commit = c /\ op[a].mem = saved
        /\ Promotes(c) /\ ~IsRecorded(saved, c) /\ run[c] = "promote"
    BY <2>1, RunnerOnly
  <2>3. saved.active \in Slots
    BY <2>1, <2>2, TypeFacts, Constants DEF Promotes, RepositoryState
  <2>4. ~AlreadyActive(op[a].mem, op[a].commit)
    BY <2>2, <2>3, Constants DEF AlreadyActive, ActiveCommit, IsRecorded
  <2>5. Goes(a) /\ op'[a].at = "forward"
    BY <1>0, <1>3, <2>4, GoesActivating DEF Turns
  <2> QED
    BY <1>1, <2>5, RecordsQuiet DEF Exchanging
<1>4. CASE Forward(a) \/ Restore(a) \/ Unpin(a)
  <2>1. Goes(a) /\ op'[a].at \in {"record", "unpin", "failed"}
    BY <1>0, <1>4, GoesForward, GoesRestore, GoesUnpin DEF Turns
  <2> QED
    BY <1>1, <2>1, RecordsQuiet DEF Exchanging
<1>5. CASE Reset(a)
  <2>1. Goes(a) /\ op'[a].at = "move" /\ op'[a].plan = op[a].plan /\ op[a].at \in Exchanging
    BY <1>0, <1>5, GoesReset DEF Turns, Reset, OpAt, Exchanging
  <2> QED
    BY <1>1, <2>1, RecordsQuiet
<1>6. CASE Reject(a) \/ WriteFails(a) \/ Torn(a)
  <2>1. Goes(a) /\ op'[a].at \in {"unpin", "restore", "failed"}
    BY <1>0, <1>6, GoesError DEF Turns, OnError
  <2> QED
    BY <1>1, <2>1, RecordsQuiet DEF Exchanging
<1> QED
  BY <1>2, <1>3, <1>4, <1>5, <1>6

\* A rollback that is done has brought the repository behind its candidate.
LEMMA RollbackDone ==
    ASSUME Typed, Control, Disk, Records, NEW c \in Candidates, NEW a \in {Runner(c), Heir(c)},
           op[a].at \in Rolling, op[a].goal \in {0, saved.active},
           \/ a = Runner(c) /\ run[c] = "undo"
           \/ a = Heir(c) /\ heir[c] = "undo"
    PROVE  Gone(c)
<1>1. Promoted(c)
  BY DEF Records
<1>2. cand[c].gen # 0 /\ op[a].goal = cand[c].from /\ cand[c].from # 0
  BY <1>1 DEF Promoted
<1> QED
  BY <1>1, <1>2, BackAtParent

LEMMA RecordsRecover ==
    ASSUME Typed, Control, Disk, Records, Control', UNCHANGED <<own, life>>,
           NEW c \in Candidates, NEW a \in {Runner(c), Heir(c)}, Recover(a)
    PROVE  Records'
<1>0. a \in Actors /\ op[a].at = "recover" /\ op[a].at \in Rolling
  BY ActorFacts DEF Recover, OpAt, Rolling
<1>1. saved' = saved /\ journal' = journal
  BY DEF Recover, files
<1>2. Turns(a, Recovers(a), op[a].mem, op[a].slot, journal)
  BY <1>0, GoesRecover
<1>3. Goes(a) /\ op'[a].plan = journal /\ op'[a].goal = op[a].goal /\ op'[a].at = Recovers(a)
  BY <1>2 DEF Turns
<1>4. \A b \in {Runner(c), Heir(c)} : b # a => op'[b] = op[b]
  BY <1>0, <1>3, GoesOthers, ActorFacts
<1>5. UNCHANGED <<cand, due, run, heir>>
  BY DEF own, life
<1>6. Promoted(c) /\ Undoes(c) /\ Opens(c) /\ Lies(c) /\ RollsBack(a)
  BY <1>0, RollerFacts DEF Records, Control
<1>7. /\ a = Runner(c) => run[c] = "undo"
      /\ a = Heir(c) => heir[c] \in {"boot", "resume", "replace", "undo"}
      /\ a = Heir(c) /\ heir[c] # "undo" => op[a].goal = 0
  <2>1. a = Runner(c) => run[c] \in {"unpublish", "undo"}
    BY <1>0, RollerFacts
  <2>2. run[c] = "unpublish" => op[Runner(c)].at # "recover"
    BY <1>6 DEF Opens, Exchanging, Ended
  <2> QED
    BY <1>0, <2>1, <2>2, RollerFacts
<1>8. (a = Heir(c) => heir[c] # "boot") => op[a].mem = saved
  BY <1>0, <1>6 DEF Lies, RollsAlone
<1>9. journal = NoJournal =>
          /\ op'[a].at \in {"plan", "done"}
          /\ op'[a].at = "done" => op[a].goal \in {0, op[a].mem.active}
          /\ op'[a].at = "plan" => op[a].goal # 0
  BY <1>3 DEF Recovers, AfterRecovery
<1>10. journal # NoJournal => op'[a].at \in Exchanging /\ ~Foreign
  <2>1. SUFFICES ASSUME journal # NoJournal
                 PROVE  op'[a].at \in Exchanging /\ ~Foreign
    OBVIOUS
  <2>2. op'[a].at \in Exchanging
    BY <1>3, <2>1 DEF Recovers, Exchanging
  <2>3. Resumable(op[a].mem, journal)
    BY <2>1 DEF Recover
  <2>4. \/ op[a].mem = saved
        \/ journal.to = saved.active
    BY <1>0, <1>6, <1>8, <2>1 DEF Lies, Boots
  <2>5. saved.active \in Names(journal)
    BY <2>3, <2>4 DEF Resumable, Names
  <2> QED
    BY <2>1, <2>2, <2>5 DEF Foreign
<1>11. \A e \in Candidates : Gone(e) => Gone(e)'
  BY <1>1, <1>5 DEF Gone
<1>12. run[c] \notin {"promote", "unpublish"} \/ op'[Runner(c)] = op[Runner(c)]
  BY <1>4, <1>7, ActorFacts
<1>13. /\ run[c] = "undo" /\ op'[Runner(c)].at = "done" => Gone(c)'
       /\ heir[c] = "undo" /\ op'[Heir(c)].at = "done" => Gone(c)'
  <2>1. ASSUME \/ a = Runner(c) /\ run[c] = "undo"
               \/ a = Heir(c) /\ heir[c] = "undo",
               op'[a].at = "done"
        PROVE  Gone(c)'
    <3>1. journal = NoJournal /\ op[a].mem = saved
      BY <1>8, <1>10, <2>1, ActorFacts DEF Exchanging
    <3>2. op[a].goal \in {0, saved.active}
      BY <1>9, <2>1, <3>1
    <3> QED
      BY <1>0, <1>11, <2>1, <3>2, RollbackDone
  <2> QED
    BY <1>4, <1>6, <1>11, <2>1 DEF Undoes
<1>14. ASSUME NEW x, Holds(x), Spares(x, c)
       PROVE  Holds(x)' /\ Spares(x, c)'
  <2>1. Holds(x)'
    BY <1>1, <1>14 DEF Holds, Foreign, Names
  <2>2. Engaged(c)' = Engaged(c) /\ Engaged(c)
    BY <1>0, WorkerFacts DEF Engaged, Stranded, life
  <2>3. op'[a].at \in Exchanging => x \in LineOf(saved, op'[a].plan.to)
    BY <1>3, <1>9, <1>10, <1>14 DEF Holds, Exchanging
  <2>4. op'[a].at = "plan" => x \in LineOf(saved, op'[a].goal)
    <3>1. SUFFICES ASSUME op'[a].at = "plan"
                   PROVE  x \in LineOf(saved, op[a].goal)
      BY <1>3
    <3>2. op[a].goal # 0
      BY <1>9, <1>10, <3>1 DEF Exchanging
    <3>3. op[a].goal = cand[c].from /\ cand[c].gen # 0
      BY <1>6, <1>7, <3>2 DEF Promoted
    <3> QED
      BY <1>14, <2>2, <3>3 DEF Spares
  <2>5. \A b \in {Runner(c), Heir(c)} :
            /\ op'[b].at \in Exchanging => x \in LineOf(saved, op'[b].plan.to)
            /\ op'[b].at = "plan" => x \in LineOf(saved, op'[b].goal)
    BY <1>4, <1>14, <2>3, <2>4 DEF Spares
  <2>6. Spares(x, c)'
    BY <1>1, <1>5, <1>12, <1>14, <2>2, <2>5 DEF Spares
  <2> QED
    BY <2>1, <2>6
<1> QED
  BY <1>1, <1>3, <1>6, <1>11, <1>12, <1>13, <1>14, RecordsWork DEF Promoted

LEMMA RecordsPlan ==
    ASSUME Typed, Control, Disk, Records, Control', UNCHANGED <<own, life>>,
           NEW c \in Candidates, NEW a \in {Runner(c), Heir(c)}, Plan(a)
    PROVE  Records'
<1>0. a \in Actors /\ op[a].at = "plan" /\ op[a].at \in Rolling
  BY ActorFacts DEF Plan, OpAt, Rolling
<1>1. saved' = saved /\ journal'.to = op[a].goal
  BY DEF Plan
<1>2. Turns(a, "reset", op[a].mem, op[a].slot, [from |-> op[a].mem.active, to |-> op[a].goal])
  BY <1>0, GoesPlan
<1>3. Goes(a) /\ op'[a].plan.to = op[a].goal /\ op'[a].goal = op[a].goal /\ op'[a].at = "reset"
  BY <1>2 DEF Turns
<1>4. \A b \in {Runner(c), Heir(c)} : b # a => op'[b] = op[b]
  BY <1>0, <1>3, GoesOthers, ActorFacts
<1>5. UNCHANGED <<cand, due, run, heir>>
  BY DEF own, life
<1>6. Promoted(c) /\ Undoes(c)
  BY DEF Records
<1>7. \A e \in Candidates : Gone(e) => Gone(e)'
  BY <1>1, <1>5 DEF Gone
<1>8. op'[Runner(c)] = op[Runner(c)] \/ op'[Runner(c)].at = "reset"
  BY <1>3, <1>4, ActorFacts
<1>9. run[c] = "unpublish" /\ op'[Runner(c)].at \in Exchanging =>
          op'[Runner(c)].plan.to = op'[Runner(c)].goal
  BY <1>3, <1>4, <1>6, ActorFacts DEF Promoted
<1>10. /\ run[c] = "undo" /\ op'[Runner(c)].at = "done" => Gone(c)'
       /\ heir[c] = "undo" /\ op'[Heir(c)].at = "done" => Gone(c)'
  BY <1>3, <1>4, <1>6, <1>7, ActorFacts DEF Undoes
<1>11. ASSUME NEW x, Holds(x), Spares(x, c)
       PROVE  Holds(x)' /\ Spares(x, c)'
  <2>1. x \in LineOf(saved, op[a].goal)
    BY <1>0, <1>11 DEF Spares
  <2>2. Holds(x)'
    BY <1>1, <1>11, <2>1 DEF Holds
  <2>3. Engaged(c)' = Engaged(c)
    BY DEF Engaged, Stranded, life
  <2>4. \A b \in {Runner(c), Heir(c)} :
            /\ op'[b].at \in Exchanging => x \in LineOf(saved, op'[b].plan.to)
            /\ op'[b].at = "plan" => x \in LineOf(saved, op'[b].goal)
    BY <1>3, <1>4, <1>11, <2>1 DEF Spares
  <2>5. Spares(x, c)'
    BY <1>1, <1>5, <1>8, <1>11, <2>3, <2>4 DEF Spares
  <2> QED
    BY <2>2, <2>5
<1> QED
  BY <1>1, <1>3, <1>6, <1>7, <1>8, <1>9, <1>10, <1>11, RecordsWork DEF Promoted

LEMMA RecordsMove ==
    ASSUME Typed, Control, Disk, Records, Typed', Control', UNCHANGED <<own, life>>,
           NEW c \in Candidates, NEW a \in {Runner(c), Heir(c)}, Move(a)
    PROVE  Records'
<1>0. a \in Actors /\ op[a].at = "move" /\ op[a].at \in Exchanging /\ op[a].at \in Rolling
  BY ActorFacts DEF Move, OpAt, Rolling, Exchanging
<1>1. /\ op[a].mem.gens = saved.gens /\ op[a].mem \in RepositoryState
  BY <1>0, RollerFacts
<1>2. /\ Leads(op[a].plan) /\ saved.active \in Names(op[a].plan) /\ ~Stands(c)
      /\ op[a].plan.to \in Slots /\ op[a].plan.from \in Slots
  BY <1>0, ExchangeFacts
<1>3. /\ saved'.gens = saved.gens /\ saved'.active = op[a].plan.to /\ journal' = op[a].plan
  BY <1>1 DEF Move, RepositoryState
<1>4. Turns(a, "unjournal", saved', op[a].slot, op[a].plan)
  <2>1. saved' = [op[a].mem EXCEPT !.active = op[a].plan.to]
    BY DEF Move
  <2> QED
    BY <1>0, <2>1, GoesMove
<1>5. Goes(a) /\ op'[a].plan = op[a].plan /\ op'[a].goal = op[a].goal /\ op'[a].at = "unjournal"
  BY <1>4 DEF Turns
<1>6. \A b \in {Runner(c), Heir(c)} : b # a => op'[b] = op[b]
  BY <1>0, <1>5, GoesOthers, ActorFacts
<1>7. UNCHANGED <<cand, due, run, heir>>
  BY DEF own, life
<1>8. Promoted(c) /\ Undoes(c) /\ Positions(c)
  BY DEF Records, Control
<1>9. saved' \in RepositoryState /\ saved \in RepositoryState
  BY DEF Typed, Managers
<1>10. ASSUME NEW g \in Nat
       PROVE  LineOf(saved', g) = LineOf(saved, g)
  BY <1>3, <1>9, LineOfSame
<1>11. Line(saved') = LineOf(saved, op[a].plan.to)
  BY <1>2, <1>3, <1>9, <1>10, LineOfActive, Constants
<1>12. Line(saved') \subseteq Line(saved)
  <2>1. CASE saved.active = op[a].plan.to
    BY <1>9, <1>11, <2>1, LineOfActive
  <2>2. CASE saved.active = op[a].plan.from
    <3>1. op[a].plan.to \in LineOf(saved, saved.active) /\ saved.active \in Nat
      BY <1>2, <2>2, Constants DEF Leads
    <3>2. LineOf(saved, op[a].plan.to) \subseteq LineOf(saved, saved.active)
      BY <1>9, <3>1, LineGoesOn
    <3> QED
      BY <1>9, <1>11, <3>2, LineOfActive
  <2> QED
    BY <1>2, <2>1, <2>2 DEF Names
<1>13. \A e \in Candidates : Gone(e) => Gone(e)'
  BY <1>7, <1>12 DEF Gone
<1>14. run[c] # "promote"
  <2>1. a = Runner(c) => run[c] \in {"unpublish", "undo"}
    BY <1>0, RollerFacts
  <2>2. a = Heir(c) => heir[c] \in {"boot", "resume", "replace", "undo"}
    BY <1>0, RollerFacts
  <2> QED
    BY <1>8, <2>1, <2>2 DEF Positions
<1>15. run[c] = "unpublish" /\ op'[Runner(c)].at \in Exchanging =>
           op'[Runner(c)].plan.to = op'[Runner(c)].goal
  BY <1>0, <1>5, <1>6, <1>8, ActorFacts DEF Promoted
<1>16. /\ run[c] = "undo" /\ op'[Runner(c)].at = "done" => Gone(c)'
       /\ heir[c] = "undo" /\ op'[Heir(c)].at = "done" => Gone(c)'
  BY <1>5, <1>6, <1>8, <1>13, ActorFacts DEF Undoes
<1>17. ASSUME NEW x, Holds(x), Spares(x, c)
       PROVE  Holds(x)' /\ Spares(x, c)'
  <2>1. x \in LineOf(saved, op[a].plan.to)
    BY <1>0, <1>17 DEF Spares
  <2>2. Holds(x)'
    BY <1>2, <1>3, <1>10, <1>11, <2>1, Constants DEF Holds
  <2>3. Engaged(c)' = Engaged(c)
    BY DEF Engaged, Stranded, life
  <2>4. \A b \in {Runner(c), Heir(c)} :
            /\ op'[b].at \in Exchanging => op[b].at \in Exchanging /\ op'[b].plan = op[b].plan
            /\ op'[b].at = "plan" => op[b].at = "plan" /\ op'[b].goal = op[b].goal
    BY <1>0, <1>5, <1>6
  <2>5. /\ cand[c].from \in Nat
        /\ \A b \in {Runner(c), Heir(c)} : op[b].plan.to \in Nat /\ op[b].goal \in Nat
    BY Shapes1, TypeFacts, ActorFacts, Constants DEF Rollback
  <2>6. Engaged(c)' /\ cand'[c].gen # 0 => x \in LineOf(saved', cand'[c].from)
    BY <1>7, <1>10, <1>17, <2>3, <2>5 DEF Spares
  <2>7. \A b \in {Runner(c), Heir(c)} :
            /\ op'[b].at \in Exchanging => x \in LineOf(saved', op'[b].plan.to)
            /\ op'[b].at = "plan" => x \in LineOf(saved', op'[b].goal)
    BY <1>10, <1>17, <2>4, <2>5 DEF Spares
  <2> QED
    BY <1>7, <1>14, <2>2, <2>6, <2>7 DEF Spares
<1> QED
  BY <1>2, <1>3, <1>5, <1>13, <1>14, <1>15, <1>16, <1>17, RecordsWork

LEMMA RecordsUnjournal ==
    ASSUME Typed, Control, Disk, Records, Control', UNCHANGED <<own, life>>,
           NEW c \in Candidates, NEW a \in {Runner(c), Heir(c)}, Unjournal(a)
    PROVE  Records'
<1>0. a \in Actors /\ op[a].at = "unjournal" /\ op[a].at \in Exchanging /\ op[a].at \in Rolling
  BY ActorFacts DEF Unjournal, OpAt, Rolling, Exchanging
<1>1. saved' = saved /\ journal' = NoJournal
  BY DEF Unjournal
<1>2. saved.active = op[a].plan.to /\ op[a].mem.active = op[a].plan.to
  BY <1>0, ExchangeFacts
<1>3. Turns(a, AfterRecovery(op[a]), op[a].mem, op[a].slot, op[a].plan)
  BY <1>0, GoesUnjournal
<1>4. /\ Goes(a) /\ op'[a].goal = op[a].goal
      /\ op'[a].at \in {"done", "plan"}
      /\ op'[a].at = "done" <=> op[a].goal \in {0, saved.active}
  BY <1>2, <1>3 DEF Turns, AfterRecovery
<1>5. \A b \in {Runner(c), Heir(c)} : b # a => op'[b] = op[b]
  BY <1>0, <1>4, GoesOthers, ActorFacts
<1>6. UNCHANGED <<cand, due, run, heir>>
  BY DEF own, life
<1>7. Promoted(c) /\ Undoes(c)
  BY DEF Records
<1>8. /\ a = Runner(c) => run[c] \in {"unpublish", "undo"}
      /\ a = Heir(c) => heir[c] \in {"boot", "resume", "replace", "undo"}
      /\ a = Heir(c) /\ heir[c] # "undo" => op[a].goal = 0
      /\ Engaged(c)
  BY <1>0, RollerFacts, WorkerFacts
<1>9. \A e \in Candidates : Gone(e) => Gone(e)'
  BY <1>1, <1>6 DEF Gone
<1>10. op'[a].at = "plan" => /\ op[a].goal # 0
                             /\ a = Runner(c) => run[c] = "undo"
                             /\ a = Heir(c) => heir[c] = "undo"
  <2>1. a = Runner(c) /\ run[c] = "unpublish" => op[a].plan.to = op[a].goal
    BY <1>0, <1>7 DEF Promoted
  <2> QED
    BY <1>2, <1>4, <1>8, <2>1
<1>11. run[c] # "promote" \/ op'[Runner(c)] = op[Runner(c)]
  BY <1>5, <1>8, ActorFacts
<1>12. run[c] = "unpublish" /\ op'[Runner(c)].at \in Exchanging =>
           op'[Runner(c)].plan.to = op'[Runner(c)].goal
  BY <1>4, <1>5, <1>7, ActorFacts DEF Promoted, Exchanging
<1>13. /\ run[c] = "undo" /\ op'[Runner(c)].at = "done" => Gone(c)'
       /\ heir[c] = "undo" /\ op'[Heir(c)].at = "done" => Gone(c)'
  <2>1. ASSUME \/ a = Runner(c) /\ run[c] = "undo"
               \/ a = Heir(c) /\ heir[c] = "undo",
               op'[a].at = "done"
        PROVE  Gone(c)'
    BY <1>0, <1>4, <1>9, <2>1, RollbackDone
  <2> QED
    BY <1>5, <1>7, <1>9, <2>1, ActorFacts DEF Undoes
<1>14. ASSUME NEW x, Holds(x), Spares(x, c)
       PROVE  Holds(x)' /\ Spares(x, c)'
  <2>1. Holds(x)'
    BY <1>1, <1>14 DEF Holds, Foreign
  <2>2. Engaged(c)' = Engaged(c)
    BY DEF Engaged, Stranded, life
  <2>3. op'[a].at = "plan" => x \in LineOf(saved, op'[a].goal)
    <3>1. SUFFICES ASSUME op'[a].at = "plan"
                   PROVE  x \in LineOf(saved, op[a].goal)
      BY <1>4
    <3>2. op[a].goal = cand[c].from /\ cand[c].gen # 0
      BY <1>7, <1>10, <3>1 DEF Promoted
    <3> QED
      BY <1>8, <1>14, <3>2 DEF Spares
  <2>4. \A b \in {Runner(c), Heir(c)} :
            /\ op'[b].at \in Exchanging => x \in LineOf(saved, op'[b].plan.to)
            /\ op'[b].at = "plan" => x \in LineOf(saved, op'[b].goal)
    BY <1>4, <1>5, <1>14, <2>3 DEF Spares, Exchanging
  <2>5. Spares(x, c)'
    BY <1>1, <1>6, <1>11, <1>14, <2>2, <2>4 DEF Spares
  <2> QED
    BY <2>1, <2>5
<1> QED
  BY <1>1, <1>4, <1>7, <1>9, <1>11, <1>12, <1>13, <1>14, RecordsWork DEF Promoted

LEMMA RecordsRecord ==
    ASSUME Typed, Control, Disk, Records, Typed', Control', Disk', UNCHANGED <<own, life>>,
           NEW c \in Candidates, NEW a \in {Runner(c), Heir(c)}, Record(a)
    PROVE  Records'
<1>0. a \in Actors /\ op[a].at = "record" /\ op[a].at \in Promoting
  BY ActorFacts DEF Record, OpAt, Promoting
<1>1. /\ a = Runner(c) /\ run[c] = "promote" /\ op[a].commit = c /\ op[a].mem = saved
      /\ Promotes(c) /\ heir[c] = "none" /\ op[Heir(c)] = IdleManager
  BY <1>0, RunnerOnly, WorkerFacts
<1> PICK g : g = op[a].slot
  OBVIOUS
<1>2. /\ g \in Slots /\ saved.active # 0 /\ saved.gens[g] = Blank /\ g >= saved.next
      /\ c \in Commits
  BY <1>0, <1>1, Constants DEF Promotes
<1>3. Turns(a, "done", With(saved, g, c), g, op[a].plan)
  BY <1>0, <1>1, GoesRecord
<1>4. saved' = With(saved, g, c) /\ saved' \in RepositoryState /\ saved \in RepositoryState
  BY <1>1 DEF Record, Typed, Managers
<1>5. /\ saved'.active = g /\ saved'.gens[g] = [commit |-> c, parent |-> saved.active]
      /\ \A h \in Slots : h # g => saved'.gens[h] = saved.gens[h]
  <2>1. saved'.active = g
    BY <1>2, <1>4, WithShape
  <2>2. /\ saved'.gens[g] = [commit |-> c, parent |-> saved.active]
        /\ \A h \in Slots : h # g => saved'.gens[h] = saved.gens[h]
    BY <1>2, <1>4, WithFacts
  <2> QED
    BY <2>1, <2>2
<1>6. Free(saved, g) /\ saved.active # g
  BY <1>2, NextIsFree DEF Disk
<1>7. Line(saved') = {g} \cup Line(saved)
  BY <1>2, <1>4, <1>6, LineGrows
<1>8. Goes(a) /\ op'[a].at = "done"
  BY <1>3 DEF Turns
<1>9. op'[Heir(c)].at = "idle"
  BY <1>0, <1>1, <1>8, GoesOthers, ActorFacts, ManagerShapes
<1>10. UNCHANGED <<cand, due, run, heir>>
  BY DEF own, life
<1>11. ASSUME NEW e \in Candidates, Gone(e)
       PROVE  Gone(e)'
  <2>1. Promoted(e)
    BY DEF Records
  <2>2. cand[e].gen # g
    BY <1>2, <1>11, <2>1 DEF Gone, Promoted
  <2> QED
    BY <1>7, <1>10, <1>11, <2>2 DEF Gone
<1>12. ASSUME NEW x, Holds(x), Spares(x, c)
       PROVE  Holds(x)' /\ Spares(x, c)'
  <2>1. Foreign'
    BY <1>1, <1>8, <1>10 DEF Disk, Lies, Stands, Fresh
  <2>2. Holds(x)'
    BY <1>7, <1>12, <2>1 DEF Holds
  <2>3. cand[c].gen = 0
    BY <1>1 DEF Records, Promoted
  <2>4. x \in LineOf(saved', saved'.gens[saved'.active].parent)
    <3>1. saved.active \in Nat
      BY <1>4, Constants DEF RepositoryState
    <3>2. LineOf(With(saved, g, c), saved.active) = LineOf(saved, saved.active)
      BY <1>2, <1>4, <1>6, <3>1, LineKept
    <3> QED
      BY <1>4, <1>5, <1>12, <3>2, LineOfActive DEF Holds
  <2>5. Spares(x, c)'
    BY <1>1, <1>8, <1>9, <1>10, <2>3, <2>4 DEF Spares, Exchanging
  <2> QED
    BY <2>2, <2>5
<1> QED
  BY <1>1, <1>2, <1>5, <1>8, <1>9, <1>11, <1>12, RecordsWork

LEMMA RecordsPublishCheckpoint ==
    ASSUME Typed, Control, Disk, Records, Control', UNCHANGED <<own, life>>,
           NEW c \in Candidates, NEW a \in {Runner(c), Heir(c)}, PublishCheckpoint(a)
    PROVE  Records'
<1>0. a \in Actors /\ op[a].at = "publish" /\ op[a].at \in Promoting
  BY ActorFacts DEF PublishCheckpoint, OpAt, Promoting
<1>1. /\ a = Runner(c) /\ run[c] = "promote" /\ op[a].commit = c /\ op[a].mem = saved
      /\ Promotes(c) /\ heir[c] = "none"
  BY <1>0, RunnerOnly, WorkerFacts
<1>2. op[a].slot \in Slots /\ saved.active = 0 /\ pins[op[a].slot] = head
  BY <1>0, <1>1 DEF Promotes, PublishCheckpoint
<1>3. \A g \in Slots : saved.gens[g] = Blank
  BY <1>2 DEF Disk, RecordsSound, NoGenerations
<1>4. Goes(a) /\ op'[a].at = "activate"
  <2>1. AfterCheckpoint(op[a]) = "activate"
    BY <1>1, Constants DEF AfterCheckpoint
  <2> QED
    BY <1>0, <1>2, <2>1, GoesPublish DEF Turns
<1>5. Line(saved) = {}
  <2>1. Line(saved) = LineOf(saved, 0)
    BY <1>2, TypeFacts, LineOfActive
  <2>2. {} \in SUBSET Slots /\ 0 \in Nat
    OBVIOUS
  <2> QED
    BY <2>1, <2>2, TypeFacts, LineLeast
<1>6. \A e \in Candidates : ~Gone(e)
  BY <1>3 DEF Records, Promoted, Gone
<1>7. \A x : ~Holds(x)
  BY <1>5 DEF Holds
<1> QED
  BY <1>1, <1>3, <1>4, <1>6, <1>7, RecordsWork

LEMMA RecordsManaged ==
    ASSUME Typed, Control, Disk, Records, Typed', Control', Disk',
           NEW a \in Actors, Managed(a) \/ Broken(a)
    PROVE  Records'
<1>1. PICK c \in Candidates : a \in {Runner(c), Heir(c)}
  BY ActorCases
<1>2. UNCHANGED <<own, life>>
  BY DEF Managed, Broken
<1> QED
  BY <1>1, <1>2, RecordsQuietWork, RecordsPublishCheckpoint, RecordsRecord, RecordsRecover,
     RecordsPlan, RecordsMove, RecordsUnjournal
  DEF Managed, Broken, Work

-----------------------------------------------------------------------------
(* The steps together.                                                     *)

RunStep(c) ==
    Promotion(c) \/ Finalization(c) \/ Succession(c) \/ PublishFails(c) \/ AnnounceFails(c)
    \/ CompletionFails(c) \/ HeirCrashes(c)

LEMMA RunTyped ==
    ASSUME Typed, Control, NEW c \in Candidates, RunStep(c)
    PROVE  Typed' /\ Control' /\ Apart(c) /\ Still
<1>1. Opens(c)
  BY DEF Control
<1>2. CASE Promotion(c)
  BY <1>1, <1>2, DoesStartRun, DoesEvaluated, DoesAbandon, DoesPublishPromotion, DoesBuildEnds,
     DoesAnnounce, DoesLaunch, DoesLaunched, DoesLaunchFails,
     ControlStartRun, ControlEvaluated, ControlAbandon, ControlPublishPromotion, ControlBuildEnds,
     ControlAnnounce, ControlLaunch, ControlLaunched, ControlLaunchFails
  DEF Promotion, StartRunTurn, EvaluatedTurn, AbandonTurn, PublishPromotionTurn, BuildEndsTurn,
      AnnounceTurn, LaunchTurn, LaunchedTurn, LaunchFailsTurn, Turn
<1>3. CASE Finalization(c)
  BY <1>3, DoesReply, DoesRelease, DoesReleaseFails, DoesWaitFails, DoesRetire, DoesServed,
     DoesRefinalize, DoesRunUndone, DoesRunUndoFails, DoesClose,
     ControlReply, ControlRelease, ControlReleaseFails, ControlWaitFails, ControlRetire,
     ControlServed, ControlRefinalize, ControlRunUndone, ControlRunUndoFails, ControlClose
  DEF Finalization, ReplyTurn, ReleaseTurn, ReleaseFailsTurn, WaitFailsTurn, RetireTurn,
      ServedTurn, RefinalizeTurn, RunUndoneTurn, RunUndoFailsTurn, CloseTurn, Turn
<1>4. CASE Succession(c)
  <2>1. CASE Gates(c)
    BY <2>1, DoesGatesPass, DoesGatesFail, ControlGatesPass, ControlGatesFail DEF GatesPassTurn,
       GatesFailTurn, Turn
  <2>2. CASE HeirCloses(c)
    BY <2>2, DoesHeirClosesAlone, DoesHeirCloses, ControlHeirClosesAlone, ControlHeirCloses
    DEF HeirClosesAloneTurn, HeirClosesTurn, Turn
  <2> QED
    BY <1>4, <2>1, <2>2, DoesBoot, DoesGiveUp, DoesReleased, DoesClaim, DoesCheckFails,
       DoesCompleteHandoff, DoesCompleteMission, DoesAccept, DoesAcceptFails, DoesHeirUndone,
       DoesHeirUndoFails, DoesReplace,
       ControlBoot, ControlGiveUp, ControlReleased, ControlClaim, ControlCheckFails,
       ControlCompleteHandoff, ControlCompleteMission, ControlAccept, ControlAcceptFails,
       ControlHeirUndone, ControlHeirUndoFails, ControlReplace
    DEF Succession, BootTurn, GiveUpTurn, ReleasedTurn, ClaimTurn, CheckFailsTurn,
        CompleteHandoffTurn, CompleteMissionTurn, AcceptTurn, AcceptFailsTurn, HeirUndoneTurn,
        HeirUndoFailsTurn, ReplaceTurn, Turn
<1>5. CASE PublishFails(c) \/ AnnounceFails(c) \/ CompletionFails(c) \/ HeirCrashes(c)
  BY <1>1, <1>5, DoesPublishFails, DoesAnnounceFails, DoesCompletionFails, DoesHeirCrashes,
     ControlPublishFails, ControlAnnounceFails, ControlCompletionFails, ControlHeirCrashes
  DEF PublishFailsTurn, AnnounceFailsTurn, CompletionFailsTurn, HeirCrashesTurn, Turn
<1> QED
  BY <1>2, <1>3, <1>4, <1>5 DEF RunStep

LEMMA RunDisk ==
    ASSUME Typed, Control, Disk, NEW c \in Candidates, RunStep(c)
    PROVE  Disk'
<1>1. CASE Promotion(c)
  BY <1>1, DiskStartRun, DiskEvaluated, DiskAbandon, DiskPublishPromotion, DiskBuildEnds,
     DiskAnnounce, DiskLaunch, DiskLaunched, DiskLaunchFails DEF Promotion
<1>2. CASE Finalization(c)
  BY <1>2, DiskReply, DiskRelease, DiskReleaseFails, DiskWaitFails, DiskRetire, DiskServed,
     DiskRefinalize, DiskRunUndone, DiskRunUndoFails, DiskClose DEF Finalization
<1>3. CASE Succession(c)
  BY <1>3, DiskBoot, DiskGiveUp, DiskReleased, DiskClaim, DiskGatesPass, DiskGatesFail,
     DiskCheckFails, DiskCompleteHandoff, DiskCompleteMission, DiskAccept, DiskAcceptFails,
     DiskHeirUndone, DiskHeirClosesAlone, DiskHeirCloses, DiskHeirUndoFails, DiskReplace
  DEF Succession
<1>4. CASE PublishFails(c) \/ AnnounceFails(c) \/ CompletionFails(c) \/ HeirCrashes(c)
  BY <1>4, DiskPublishFails, DiskAnnounceFails, DiskCompletionFails, DiskHeirCrashes
<1> QED
  BY <1>1, <1>2, <1>3, <1>4 DEF RunStep

LEMMA RunRecords ==
    ASSUME Typed, Control, Disk, Records, NEW c \in Candidates, RunStep(c)
    PROVE  Records'
<1>1. CASE Promotion(c)
  BY <1>1, RecordsStartRun, RecordsEvaluated, RecordsAbandon, RecordsPublishPromotion,
     RecordsBuildEnds, RecordsAnnounce, RecordsLaunch, RecordsLaunched, RecordsLaunchFails
  DEF Promotion
<1>2. CASE Finalization(c)
  BY <1>2, RecordsReply, RecordsRelease, RecordsReleaseFails, RecordsWaitFails, RecordsRetire,
     RecordsServed, RecordsRefinalize, RecordsRunUndone, RecordsRunUndoFails, RecordsClose
  DEF Finalization
<1>3. CASE Succession(c)
  BY <1>3, RecordsBoot, RecordsGiveUp, RecordsReleased, RecordsClaim, RecordsGatesPass,
     RecordsGatesFail, RecordsCheckFails, RecordsCompleteHandoff, RecordsCompleteMission,
     RecordsAccept, RecordsAcceptFails, RecordsHeirUndone, RecordsHeirClosesAlone,
     RecordsHeirCloses, RecordsHeirUndoFails, RecordsReplace
  DEF Succession
<1>4. CASE PublishFails(c) \/ AnnounceFails(c) \/ CompletionFails(c) \/ HeirCrashes(c)
  BY <1>4, RecordsPublishFails, RecordsAnnounceFails, RecordsCompletionFails, RecordsHeirCrashes
<1> QED
  BY <1>1, <1>2, <1>3, <1>4 DEF RunStep

\* Types, control, disk and records.
Improving == Typed /\ Control /\ Disk /\ Records

LEMMA ImprovingStarts ==
    ImprovementInit => Improving
BY ControlStarts, DiskStarts, RecordsStart DEF Improving

LEMMA ImprovingSteps ==
    Improving /\ [ImprovementNext]_improvementVars => Improving'
<1> SUFFICES ASSUME Typed, Control, Disk, Records, [ImprovementNext]_improvementVars
             PROVE  Improving'
  BY DEF Improving
<1>1. ASSUME NEW c \in Candidates, RunStep(c)
      PROVE  Improving'
  BY <1>1, RunTyped, RunDisk, RunRecords DEF Improving
<1>2. ASSUME NEW a \in Actors, Managed(a) \/ Broken(a)
      PROVE  Improving'
  <2>1. Typed' /\ Control'
    BY <1>2, ControlWork
  <2>2. Disk'
    BY <1>2, <2>1, DiskManaged
  <2> QED
    BY <1>2, <2>1, <2>2, RecordsManaged DEF Improving
<1>3. ASSUME NEW p \in Servers, ProcessDies(p)
      PROVE  Improving'
  BY <1>3, DoesProcessDies, ControlProcessDies, DiskProcessDies, RecordsProcessDies DEF Improving
<1>4. CASE Restart
  BY <1>4, ControlRestart, DiskRestart, RecordsRestart DEF Improving
<1>5. CASE UNCHANGED improvementVars
  <2>1. UNCHANGED <<repo, files, op, failures, own, life>>
    BY <1>5 DEF improvementVars
  <2>2. Typed'
    BY <2>1 DEF Typed, ImprovementTypeOK, GenerationsTypeOK, Managers, repo, files, own, life
  <2>3. Control'
    BY <2>1
    DEF Control, OneMission, OneRun, Engaged, Stranded, Active, Serving, Passed, Positions,
        Opens, life, own
  <2> QED
    BY <1>5, <2>2, <2>3, DiskRestart, RecordsRestart DEF Improving
<1> QED
  BY <1>1, <1>2, <1>3, <1>4, <1>5 DEF ImprovementNext, RunStep

LEMMA ImprovingAlways ==
    ImprovementSpec => []Improving
<1>1. ImprovementInit => Improving
  BY ImprovingStarts
<1>2. Improving /\ [ImprovementNext]_improvementVars => Improving'
  BY ImprovingSteps
<1> QED
  BY <1>1, <1>2, PTL DEF ImprovementSpec

\* Every variable has the shape its file, record or manager has.
THEOREM ImprovementTypeCorrect == ImprovementSpec => []ImprovementTypeOK
<1>1. Improving => ImprovementTypeOK
  BY DEF Improving, Typed
<1> QED
  BY <1>1, ImprovingAlways, PTL

\* Every recorded generation stays pinned at its commit, also when an activation
\* fails and its clean-up fails after it.
THEOREM PinsAlwaysHold == ImprovementSpec => []PinsHold
<1>1. Improving => PinsHold
  BY DEF Improving, Disk
<1> QED
  BY <1>1, ImprovingAlways, PTL

\* A process that took over serves a generation that is active or behind the
\* active one and whose mission is completed; the generation of a mission that is
\* reported as rolled back is neither.
THEOREM MissionsAreTruthful == ImprovementSpec => []MissionsTruthful
<1>1. Improving => MissionsTruthful
  <2>1. SUFFICES ASSUME Records
                 PROVE  MissionsTruthful
    BY DEF Improving
  <2>2. RolledBackGone
    BY <2>1 DEF RolledBackGone, Records, Undoes
  <2>3. ServesVerified
    BY <2>1 DEF ServesVerified, Verified, Records, TakesOver, InOffice, Holds
  <2> QED
    BY <2>2, <2>3 DEF MissionsTruthful
<1> QED
  BY <1>1, ImprovingAlways, PTL

-----------------------------------------------------------------------------
(* Why HEAD is where it is.                                                *)

\* A run or a successor moves nothing and has no cleanup to do.
LEMMA ExplainedRun ==
    ASSUME Typed, Control, Explained, NEW c \in Candidates, RunStep(c)
    PROVE  Explained'
<1>1. Apart(c) /\ Still /\ Opens(c)
  BY RunTyped DEF Control
<1>2. HeadExplained'
  BY <1>1 DEF Still, Explained, HeadExplained
<1>3. ASSUME NEW d \in Candidates, run'[d] = run[d], op'[Runner(d)] = op[Runner(d)]
      PROVE  Unpins(d)'
  BY <1>1, <1>3 DEF Still, Explained, Unpins
<1>4. \/ run'[c] # "promote" \/ op'[Runner(c)].at # "unpin"
      \/ run'[c] = run[c] /\ op'[Runner(c)] = op[Runner(c)]
  <2>1. CASE Promotion(c)
    <3>1. CASE Evaluated(c)
      <4>1. op'[Runner(c)] = OpenPromotion(c)
        BY <3>1, DoesEvaluated DEF EvaluatedTurn, Managing
      <4>2. OpenPromotion(c).at \in {"checkpoint", "activate"}
        BY DEF OpenPromotion, Opened, Working
      <4> QED
        BY <4>1, <4>2
    <3>2. CASE Launch(c)
      BY <3>2, DoesLaunch DEF LaunchTurn, Turn, Managing
    <3> QED
      BY <1>1, <2>1, <3>1, <3>2, DoesStartRun, DoesAbandon, DoesPublishPromotion, DoesBuildEnds,
         DoesAnnounce, DoesLaunched, DoesLaunchFails DEF Promotion, StartRunTurn, AbandonTurn,
         PublishPromotionTurn, BuildEndsTurn, AnnounceTurn, LaunchedTurn, LaunchFailsTurn, Turn
  <2>2. CASE Finalization(c)
    BY <2>2, DoesReply, DoesRelease, DoesReleaseFails, DoesWaitFails, DoesRetire, DoesServed,
       DoesRefinalize, DoesRunUndone, DoesRunUndoFails, DoesClose DEF Finalization, ReplyTurn,
       ReleaseTurn, ReleaseFailsTurn, WaitFailsTurn, RetireTurn, ServedTurn, RefinalizeTurn,
       RunUndoneTurn, RunUndoFailsTurn, CloseTurn, Turn
  <2>3. CASE Succession(c)
    <3>1. CASE Gates(c)
      BY <3>1, DoesGatesPass, DoesGatesFail DEF GatesPassTurn, GatesFailTurn, Turn, Managing
    <3>2. CASE HeirCloses(c)
      BY <3>2, DoesHeirClosesAlone, DoesHeirCloses DEF HeirClosesAloneTurn, HeirClosesTurn, Turn,
         Managing
    <3> QED
      BY <2>3, <3>1, <3>2, DoesBoot, DoesGiveUp, DoesReleased, DoesClaim, DoesCheckFails,
         DoesCompleteHandoff, DoesCompleteMission, DoesAccept, DoesAcceptFails, DoesHeirUndone,
         DoesHeirUndoFails, DoesReplace DEF Succession, BootTurn, GiveUpTurn, ReleasedTurn,
         ClaimTurn, CheckFailsTurn, CompleteHandoffTurn, CompleteMissionTurn, AcceptTurn,
         AcceptFailsTurn, HeirUndoneTurn, HeirUndoFailsTurn, ReplaceTurn, Turn, Managing
  <2>4. CASE PublishFails(c) \/ AnnounceFails(c) \/ CompletionFails(c) \/ HeirCrashes(c)
    BY <1>1, <2>4, DoesPublishFails, DoesAnnounceFails, DoesCompletionFails, DoesHeirCrashes
    DEF PublishFailsTurn, AnnounceFailsTurn, CompletionFailsTurn, HeirCrashesTurn, Turn, Managing
  <2> QED
    BY <2>1, <2>2, <2>3, <2>4 DEF RunStep
<1>5. Unpins(c)'
  BY <1>3, <1>4 DEF Unpins
<1>6. \A d \in Candidates \ {c} : Unpins(d)'
  BY <1>1, <1>3 DEF Apart, Unpins, Explained
<1> QED
  BY <1>2, <1>5, <1>6 DEF Explained

LEMMA ExplainedProcessDies ==
    ASSUME Typed, Explained, NEW p \in Servers, ProcessDies(p)
    PROVE  Explained'
<1>1. /\ UNCHANGED <<head, pins, saved, journal>>
      /\ \A c \in Candidates : run'[c] = "promote" =>
            run[c] = "promote" /\ op'[Runner(c)] = op[Runner(c)]
  BY DoesProcessDies DEF repo, files, Active, Developing
<1>2. HeadExplained'
  BY <1>1 DEF Explained, HeadExplained
<1>3. \A c \in Candidates : Unpins(c)'
  BY <1>1 DEF Explained, Unpins
<1> QED
  BY <1>2, <1>3 DEF Explained

\* A manager that works is the only one that could have a pin to drop.
LEMMA ExplainedWork ==
    ASSUME Typed, Control, Disk, Control', UNCHANGED life,
           NEW c \in Candidates, NEW a \in {Runner(c), Heir(c)},
           op[a].at \in Promoting \cup Rolling, Goes(a),
           HeadExplained',
           a = Runner(c) /\ op'[a].at = "unpin" => Unpins(c)'
    PROVE  Explained'
<1>1. Engaged(c)
  BY WorkerFacts
<1>2. ASSUME NEW d \in Candidates, d # c, run'[d] = "promote", op'[Runner(d)].at = "unpin"
      PROVE  FALSE
  <2>1. op'[Runner(d)] = op[Runner(d)]
    BY <1>2, GoesOthers, ActorFacts
  <2>2. op[Runner(d)].at \in Promoting
    BY <1>2, <2>1 DEF Promoting
  <2>3. Engaged(d)
    BY <2>2, WorkerFacts
  <2> QED
    BY <1>1, <1>2, <2>3 DEF Control, OneMission
<1>3. \A d \in Candidates \ {c} : Unpins(d)'
  BY <1>2 DEF Unpins
<1>4. CASE a = Heir(c)
  <2>1. op'[Runner(c)] = op[Runner(c)]
    BY <1>4, GoesOthers, ActorFacts
  <2>2. op[Runner(c)].at # "unpin"
    <3>1. SUFFICES ASSUME op[Runner(c)].at \in Promoting
                   PROVE  FALSE
      BY DEF Promoting
    <3>2. op[a] = IdleManager
      BY <1>4, <3>1, WorkerFacts
    <3> QED
      BY <3>2, ManagerShapes DEF Promoting, Rolling, Exchanging
  <2> QED
    BY <1>3, <2>1, <2>2 DEF Explained, Unpins
<1>5. CASE a = Runner(c)
  BY <1>3, <1>5 DEF Explained, Unpins
<1> QED
  BY <1>4, <1>5

LEMMA ExplainedCheckpoint ==
    ASSUME Typed, Control, Disk, Explained, Control', UNCHANGED life,
           NEW c \in Candidates, NEW a \in {Runner(c), Heir(c)},
           Checkpoint(a) \/ PublishCheckpoint(a)
    PROVE  Explained'
<1>0. a \in Actors /\ op[a].at \in {"checkpoint", "publish"} /\ op[a].at \in Promoting
  BY ActorFacts DEF Checkpoint, PublishCheckpoint, OpAt, Promoting
<1>1. /\ a = Runner(c) => run[c] = "promote" /\ Promotes(c)
      /\ a = Heir(c) => Fresh /\ op[a].at = "checkpoint"
  BY <1>0, WorkerFacts DEF Disk, Lies
<1>2. CASE Checkpoint(a)
  <2>1. Goes(a) /\ op'[a].at \in {"done", "activate", "publish"}
    BY <1>0, <1>2, GoesCheckpointed, GoesPinning DEF Turns, AfterCheckpoint
  <2>2. UNCHANGED <<head, saved, journal>> /\ op[a].at = "checkpoint"
    BY <1>2 DEF Checkpoint, OpAt, files
  <2>3. saved.active = 0 \/ head = ActiveCommit(saved)
    BY <1>1, <2>2 DEF Promotes, Fresh
  <2>4. HeadExplained'
    BY <2>2, <2>3 DEF HeadExplained
  <2> QED
    BY <1>0, <2>1, <2>4, ExplainedWork
<1>3. CASE PublishCheckpoint(a)
  <2>1. op[a].at = "publish" /\ a = Runner(c) /\ op[a].mem = saved /\ op[a].slot \in Slots
    BY <1>1, <1>3 DEF PublishCheckpoint, OpAt, Promotes
  <2>2. Goes(a) /\ op'[a].at \in {"done", "activate"}
    BY <1>0, <1>3, GoesPublish DEF Turns, AfterCheckpoint
  <2> PICK g : g = op[a].slot
    OBVIOUS
  <2>3. saved' = With(saved, g, pins[g]) /\ head = pins[g] /\ head' = head /\ g \in Slots
    BY <1>3, <2>1 DEF PublishCheckpoint, repo
  <2>4. saved'.active = g /\ saved'.gens[g].commit = head
    <3>1. saved \in RepositoryState /\ head \in Commits
      BY TypeFacts DEF Typed, ImprovementTypeOK, GenerationsTypeOK
    <3>2. /\ With(saved, g, head).active = g
          /\ With(saved, g, head).gens[g] = [commit |-> head, parent |-> saved.active]
      BY <2>3, <3>1, WithShape, WithFacts
    <3> QED
      BY <2>3, <3>2
  <2>5. HeadExplained'
    BY <2>3, <2>4 DEF HeadExplained, ActiveCommit, Commit
  <2> QED
    BY <1>0, <2>2, <2>5, ExplainedWork
<1> QED
  BY <1>2, <1>3

LEMMA ExplainedActivate ==
    ASSUME Typed, Control, Disk, Explained, Control', UNCHANGED life,
           NEW c \in Candidates, NEW a \in {Runner(c), Heir(c)}, Activate(a)
    PROVE  Explained'
<1>0. a \in Actors /\ op[a].at = "activate" /\ op[a].at \in Promoting
      /\ ActivationAdmitted(op[a].mem, op[a].commit)
  BY ActorFacts DEF Activate, OpAt, Promoting
<1>1. /\ a = Runner(c) /\ run[c] = "promote" /\ op[a].commit = c /\ op[a].mem = saved
  BY <1>0, RunnerOnly
<1>2. UNCHANGED <<head, saved, journal>>
  BY DEF Activate, files
<1>3. Goes(a) /\ op'[a].at \in {"done", "forward"}
  BY <1>0, GoesActivated, GoesActivating DEF Turns
<1>4. ASSUME NEW g \in Slots, saved.gens[g] = Blank, pins[g] = head
      PROVE  pins'[g] = head
  <2>1. CASE AlreadyActive(saved, c)
    BY <1>1, <1>4, <2>1 DEF Activate
  <2>2. CASE ~AlreadyActive(saved, c)
    <3> DEFINE f == First(Allocatable(saved, {NoCommit, c}))
    <3>1. f \in Allocatable(saved, {NoCommit, c})
      <4>1. Allocatable(saved, {NoCommit, c}) # {}
        BY <1>0, <1>1, <2>2 DEF ActivationAdmitted
      <4>2. Allocatable(saved, {NoCommit, c}) \in SUBSET Slots
        BY DEF Allocatable
      <4> QED
        BY <4>1, <4>2, FirstIsIn
    <3>2. pins' = [pins EXCEPT ![f] = c]
      BY <1>1, <2>2 DEF Activate
    <3> HIDE DEF f
    <3>3. f \in Slots /\ pins[f] \in {NoCommit, c}
      BY <3>1 DEF Allocatable
    <3>4. head # NoCommit
      BY TypeFacts, Constants DEF Typed, ImprovementTypeOK, GenerationsTypeOK
    <3> QED
      BY <1>4, <3>2, <3>3, <3>4, TypeFacts
  <2> QED
    BY <2>1, <2>2
<1>5. HeadExplained'
  BY <1>2, <1>4 DEF Explained, HeadExplained
<1> QED
  BY <1>0, <1>3, <1>5, ExplainedWork

LEMMA ExplainedForward ==
    ASSUME Typed, Control, Disk, Explained, Control', UNCHANGED life,
           NEW c \in Candidates, NEW a \in {Runner(c), Heir(c)},
           Forward(a) \/ Record(a)
    PROVE  Explained'
<1>0. a \in Actors /\ op[a].at \in {"forward", "record"} /\ op[a].at \in Promoting
  BY ActorFacts DEF Forward, Record, OpAt, Promoting
<1>1. /\ a = Runner(c) /\ run[c] = "promote" /\ op[a].commit = c /\ op[a].mem = saved
      /\ Promotes(c)
  BY <1>0, RunnerOnly
<1> PICK g : g = op[a].slot
  OBVIOUS
<1>2. g \in Slots /\ saved.gens[g] = Blank /\ pins[g] = c
  BY <1>0, <1>1 DEF Promotes
<1>3. Goes(a) /\ op'[a].at \in {"record", "done"}
  BY <1>0, GoesForward, GoesRecord DEF Turns
<1>4. CASE Forward(a)
  <2>1. head' = c /\ UNCHANGED <<pins, saved, journal>>
    BY <1>1, <1>4 DEF Forward, files
  <2>2. HeadExplained'
    BY <1>2, <2>1 DEF HeadExplained
  <2> QED
    BY <1>0, <1>3, <2>2, ExplainedWork
<1>5. CASE Record(a)
  <2>1. saved' = With(saved, g, c) /\ head = c /\ head' = head
    BY <1>1, <1>5 DEF Record, repo
  <2>2. saved'.active = g /\ saved'.gens[g].commit = c
    <3>1. saved \in RepositoryState /\ c \in Commits
      BY TypeFacts, Constants
    <3>2. /\ With(saved, g, c).active = g
          /\ With(saved, g, c).gens[g] = [commit |-> c, parent |-> saved.active]
      BY <1>2, <3>1, WithShape, WithFacts
    <3> QED
      BY <2>1, <3>2
  <2>3. HeadExplained'
    BY <1>2, <2>1, <2>2 DEF HeadExplained, ActiveCommit, Commit
  <2> QED
    BY <1>0, <1>3, <2>3, ExplainedWork
<1> QED
  BY <1>4, <1>5

\* The cleanup drops its pin only when HEAD is not there for it.
LEMMA ExplainedCleanup ==
    ASSUME Typed, Control, Disk, Explained, Control', UNCHANGED life,
           NEW c \in Candidates, NEW a \in {Runner(c), Heir(c)},
           Restore(a) \/ Unpin(a)
    PROVE  Explained'
<1>0. a \in Actors /\ op[a].at \in {"restore", "unpin"} /\ op[a].at \in Promoting
  BY ActorFacts DEF Restore, Unpin, OpAt, Promoting
<1>1. /\ a = Runner(c) /\ run[c] = "promote" /\ op[a].commit = c /\ op[a].mem = saved
      /\ Promotes(c)
  BY <1>0, RunnerOnly
<1> PICK g : g = op[a].slot
  OBVIOUS
<1>2. CASE Restore(a)
  <2>1. UNCHANGED <<pins, saved, journal>> /\ op[a].at = "restore"
        /\ \/ head = c /\ head' = ActiveCommit(saved)
           \/ head # c /\ head' = head
    BY <1>1, <1>2 DEF Restore, files, OpAt
  <2>2. pins[g] = c
    BY <1>1, <2>1 DEF Promotes
  <2>3. Goes(a) /\ op'[a].at = "unpin" /\ op'[a].slot = g
    BY <1>0, <1>2, GoesRestore DEF Turns
  <2>4. HeadExplained'
    BY <2>1 DEF Explained, HeadExplained
  <2>5. Unpins(c)'
    BY <1>1, <2>1, <2>2, <2>3 DEF Unpins
  <2> QED
    BY <1>0, <2>3, <2>4, <2>5, ExplainedWork
<1>3. CASE Unpin(a)
  <2>1. UNCHANGED <<head, saved, journal>> /\ pins' = [pins EXCEPT ![g] = NoCommit]
        /\ op[a].at = "unpin"
    BY <1>3 DEF Unpin, files, OpAt
  <2>2. saved.active = 0 \/ head = ActiveCommit(saved) \/ head # pins[g]
    BY <1>1, <2>1 DEF Explained, Unpins
  <2>3. Goes(a) /\ op'[a].at = "failed"
    BY <1>0, <1>3, GoesUnpin DEF Turns
  <2>4. HeadExplained'
    BY <2>1, <2>2, TypeFacts DEF Explained, HeadExplained
  <2> QED
    BY <1>0, <2>3, <2>4, ExplainedWork
<1> QED
  BY <1>2, <1>3

LEMMA ExplainedRollback ==
    ASSUME Typed, Control, Disk, Explained, Control', UNCHANGED life,
           NEW c \in Candidates, NEW a \in {Runner(c), Heir(c)},
           Recover(a) \/ Plan(a) \/ Reset(a) \/ Move(a) \/ Unjournal(a)
    PROVE  Explained'
<1>0. /\ a \in Actors /\ op[a].at \in Rolling
      /\ op[a].at \in {"reset", "move", "unjournal"} => op[a].at \in Exchanging
  BY ActorFacts DEF Recover, Plan, Reset, Move, Unjournal, OpAt, Rolling, Exchanging
<1>1. \A g : Commit(op[a].mem, g) = Commit(saved, g)
  BY <1>0, RollerFacts
<1>2. Goes(a) /\ op'[a].at # "unpin"
  <2>1. Goes(a)
    BY <1>0, GoesRecover, GoesPlan, GoesReset, GoesMove, GoesUnjournal DEF Turns
  <2> QED
    BY <1>0, <2>1 DEF Goes, Follows, Rolling, Exchanging, Ended, Promoting
<1>3. CASE Recover(a)
  <2>1. HeadExplained'
    BY <1>3 DEF Recover, repo, files, Explained, HeadExplained
  <2> QED
    BY <1>0, <1>2, <2>1, ExplainedWork
<1>4. CASE Plan(a)
  <2>1. op[a].mem = saved
    <3>1. op[a].at = "plan" /\ Lies(c) /\ Opens(c)
      BY <1>4 DEF Plan, OpAt, Disk, Control
    <3> QED
      BY <3>1 DEF Lies, RollsAlone, Opens, Rolling, Exchanging, Ended
  <2>2. head' = head /\ saved' = saved /\ head = ActiveCommit(saved)
    BY <1>4, <2>1 DEF Plan, repo, RollbackAdmitted
  <2>3. HeadExplained'
    BY <2>2 DEF HeadExplained
  <2> QED
    BY <1>0, <1>2, <2>3, ExplainedWork
<1>5. CASE Reset(a)
  <2>1. op[a].at = "reset" /\ head' = Commit(saved, op[a].plan.to)
        /\ UNCHANGED <<pins, saved, journal>>
    BY <1>1, <1>5 DEF Reset, OpAt, files
  <2>2. /\ saved.active \in {op[a].plan.from, op[a].plan.to} /\ saved.active # 0
        /\ journal = op[a].plan \/ saved.active = op[a].plan.to
        /\ op[a].plan.to \in Slots
    BY <1>0, <2>1, ExchangeFacts DEF Names
  <2>3. CASE saved.active = op[a].plan.to
    <3>1. HeadExplained'
      BY <2>1, <2>2, <2>3 DEF HeadExplained, ActiveCommit
    <3> QED
      BY <1>0, <1>2, <3>1, ExplainedWork
  <2>4. CASE saved.active = op[a].plan.from /\ journal = op[a].plan
    <3>1. journal # NoJournal
      BY <2>2, <2>4, Constants DEF NoJournal
    <3>2. HeadExplained'
      BY <2>1, <2>2, <2>4, <3>1 DEF HeadExplained, ActiveCommit
    <3> QED
      BY <1>0, <1>2, <3>2, ExplainedWork
  <2> QED
    BY <2>2, <2>3, <2>4
<1>6. CASE Move(a) \/ Unjournal(a)
  <2>1. /\ op[a].at \in {"move", "unjournal"} /\ head' = head
        /\ head = Commit(saved, op[a].plan.to) /\ op[a].plan.to \in Slots
    BY <1>0, <1>6, ExchangeFacts DEF Move, Unjournal, OpAt, repo
  <2>2. saved'.active = op[a].plan.to /\ saved'.gens = saved.gens
    <3>1. op[a].at = "unjournal" => saved.active = op[a].plan.to
      BY <1>0, ExchangeFacts
    <3>2. op[a].mem \in RepositoryState /\ op[a].mem.gens = saved.gens
      BY <1>0, RollerFacts
    <3> QED
      BY <1>6, <3>1, <3>2 DEF Move, Unjournal, OpAt, RepositoryState
  <2>3. HeadExplained'
    BY <2>1, <2>2 DEF HeadExplained, ActiveCommit, Commit
  <2> QED
    BY <1>0, <1>2, <2>3, ExplainedWork
<1> QED
  BY <1>3, <1>4, <1>5, <1>6

\* The cleanup of an activation is not refused: else HEAD could be left at a
\* commit whose pin is dropped next.
LEMMA ExplainedError ==
    ASSUME Typed, Control, Disk, Explained, Control', UNCHANGED life,
           "cleanup" \notin FailureKinds,
           NEW c \in Candidates, NEW a \in {Runner(c), Heir(c)},
           Reject(a) \/ WriteFails(a) \/ Torn(a)
    PROVE  Explained'
<1>0. a \in Actors
  BY ActorFacts
<1>1. Goes(a) /\ op'[a].at = OnError(op[a])
  BY <1>0, GoesError DEF Turns
<1>2. op[a].at \in Promoting \cup Rolling
  BY <1>1, <1>0, GoesError DEF Goes, Follows
<1>3. UNCHANGED <<head, pins, saved, journal>>
  BY DEF Reject, WriteFails, Torn, repo, files
<1>4. HeadExplained'
  BY <1>3 DEF Explained, HeadExplained
<1>5. ASSUME a = Runner(c), op'[a].at = "unpin"
      PROVE  Unpins(c)'
  <2>1. op[a].at \in {"publish", "restore"}
    BY <1>1, <1>2, <1>5 DEF OnError, Promoting, Rolling, Exchanging
  <2>2. op[a].at # "restore"
    BY DEF Reject, Rejects, OpAt, WriteFails, Torn, Failure
  <2>3. op[a].at = "publish" /\ run[c] = "promote"
    BY <1>2, <1>5, <2>1, <2>2, WorkerFacts DEF Promoting
  <2>4. saved.active = 0
    BY <1>5, <2>3 DEF Disk, Lies, Promotes
  <2> QED
    BY <1>3, <2>4 DEF Unpins
<1> QED
  BY <1>1, <1>2, <1>4, <1>5, ExplainedWork

LEMMA ExplainedSteps ==
    ASSUME "cleanup" \notin FailureKinds, Improving, Explained, Improving',
           [ImprovementNext]_improvementVars
    PROVE  Explained'
<1> USE DEF Improving
<1>1. ASSUME NEW c \in Candidates, RunStep(c)
      PROVE  Explained'
  BY <1>1, ExplainedRun
<1>2. ASSUME NEW a \in Actors, Managed(a) \/ Broken(a)
      PROVE  Explained'
  <2>1. PICK c \in Candidates : a \in {Runner(c), Heir(c)}
    BY ActorCases
  <2>2. UNCHANGED life
    BY <1>2 DEF Managed, Broken
  <2> QED
    BY <1>2, <2>1, <2>2, ExplainedCheckpoint, ExplainedActivate, ExplainedForward,
       ExplainedCleanup, ExplainedRollback, ExplainedError DEF Managed, Broken, Work
<1>3. ASSUME NEW p \in Servers, ProcessDies(p)
      PROVE  Explained'
  BY <1>3, ExplainedProcessDies
<1>4. CASE Restart \/ UNCHANGED improvementVars
  <2>1. UNCHANGED <<head, pins, saved, journal, op, run>>
    BY <1>4 DEF Restart, improvementVars, repo, files, life
  <2> QED
    BY <2>1 DEF Explained, HeadExplained, Unpins
<1> QED
  BY <1>1, <1>2, <1>3, <1>4 DEF ImprovementNext, RunStep

LEMMA ExplainedStarts ==
    ImprovementInit => Explained
BY DEF ImprovementInit, GenerationsInit, NoGenerations, Explained, HeadExplained, Unpins

\* HEAD and the recorded active generation differ only while a journal or the pin
\* of an unrecorded activation says why, and every recorded generation stays
\* pinned, whatever else fails and whoever dies.
THEOREM RepositoryAlwaysSound ==
    ASSUME "cleanup" \notin FailureKinds
    PROVE  ImprovementSpec => []RepositorySound
<1>1. ImprovementInit => Explained
  BY ExplainedStarts
<1>2. Improving /\ Explained /\ [ImprovementNext]_improvementVars /\ Improving' => Explained'
  BY ExplainedSteps
<1>3. Improving /\ Explained => RepositorySound
  BY DEF Improving, Disk, Explained, RepositorySound
<1> QED
  BY <1>1, <1>2, <1>3, ImprovingAlways, PTL DEF ImprovementSpec
=============================================================================
