---------------------------- MODULE ComputerProofs ----------------------------
(***************************************************************************)
(* What the leases of a computer node promise, for any number of agent     *)
(* runs, humans, screens and faults: a screen is leased once, an action    *)
(* that nobody aborted belongs to whoever controls the screen, control     *)
(* comes back with a view of the screen, and a paused agent waits for a    *)
(* human who has it.                                                       *)
(*                                                                         *)
(* The invariant is stated of the tables as values: screen leases SL, the  *)
(* index of owners OL, control leases CL, hand-back observations RS and    *)
(* the number n of lease ids given out.                                    *)
(***************************************************************************)
EXTENDS Computer, SequenceTheorems, TLAPS

Stages == {"none", "observing", "observed"}
PCs == Working \cup {"idle", "asking", "announcing", "parked", "ending", "ended"}
Phases == {"open", "closing", "closed"}

ScreenLease == [screen : Screens, owner : Owners, lapsed : BOOLEAN]
ControlLease == [holder : {"agent", "human"}, by : Owners \cup Humans,
                 generation : Generations, idle : BOOLEAN, manual : BOOLEAN]
RunState == [pc : PCs, lease : Nat, generation : Nat, seen : Nat, calls : Nat,
             live : BOOLEAN, cancelled : BOOLEAN]
HandBackState == [stage : Stages, lease : Nat, by : Owners \cup Humans \cup {None},
                  generation : Nat, fresh : BOOLEAN]
DrainState == [stage : {"none", "next", "try", "granted"}, rest : Seq(Owners), lease : Nat]

Known(n) == 0 .. n

\* The tables of leases: a screen and an owner have one lease, which the index
\* of owners finds, and no id is given out twice.
LeasesOK(SL, OL, CL, n) ==
    /\ n \in Nat /\ DOMAIN SL \subseteq 1 .. n
    /\ SL \in [DOMAIN SL -> ScreenLease]
    /\ CL \in [DOMAIN SL -> ControlLease]
    /\ OL \in [DOMAIN OL -> DOMAIN SL] /\ DOMAIN OL \subseteq Owners
    /\ \A k, l \in DOMAIN SL : k # l => SL[k].screen # SL[l].screen
    /\ \A l \in DOMAIN SL : SL[l].owner \in DOMAIN OL /\ OL[SL[l].owner] = l
    /\ \A o \in DOMAIN OL : SL[OL[o]].owner = o

\* A lease that run o, or a waiter being served, knows of is gone or its own.
Own(l, o, SL, n) == l \in Known(n) /\ (l \in DOMAIN SL => SL[l].owner = o)

\* What a run knows: its action belongs to the agent's control, and a run on
\* its way to sleep was interrupted by a generation it has not seen.
RunOK(r, o, SL, CL, n, phase) ==
    /\ Own(r.lease, o, SL, n)
    /\ r.live => r.pc = "acting"
    /\ r.live /\ phase = "open" =>
           /\ r.lease \in DOMAIN SL /\ CL[r.lease].holder = "agent"
           /\ CL[r.lease].generation = r.generation
    /\ r.pc \in {"pausing", "rechecking", "paused"} /\ r.lease \in DOMAIN SL =>
           CL[r.lease].generation > r.generation
    /\ r.pc = "paused" /\ phase = "open" =>
           r.lease \in DOMAIN SL /\ CL[r.lease].holder = "human"

\* A hand-back is of an earlier generation, or its observation will do.
HandBackOK(b, CL, n) ==
    /\ b.lease \in Known(n)
    /\ b.stage # "none" /\ b.lease \in DOMAIN CL =>
           /\ b.generation <= CL[b.lease].generation
           /\ b.generation = CL[b.lease].generation => b.fresh

\* Whoever got control back got it with an observation.
ResumesOK(CL, RS, phase) ==
    phase = "open" => \A l \in DOMAIN CL :
        CL[l].holder = "agent" /\ CL[l].generation > 1 =>
            l \in DOMAIN RS /\ RS[l] = [generation |-> CL[l].generation, fresh |-> TRUE]

\* The pass over the waiters serves its first one.
DrainOK(d, SL, n) ==
    /\ d \in DrainState
    /\ d.stage \in {"try", "granted"} => d.rest # <<>>
    /\ d.stage = "granted" => Own(d.lease, Head(d.rest), SL, n)

\* Whoever waits in the queue is parked, and waits there once.
WaitersOK(ws, rn) ==
    /\ ws \in Seq(Owners)
    /\ \A i, j \in DOMAIN ws : ws[i] = ws[j] => i = j
    /\ \A i \in DOMAIN ws : rn[ws[i]].pc = "parked"

IInv ==
    /\ closed \in Phases /\ node \in {"online", "degraded", "absent"} /\ maintenance \in BOOLEAN
    /\ LeasesOK(screenLeases, ownerLeaseIds, controlLeases, lastLease)
    /\ run \in [Owners -> RunState]
    /\ \A o \in Owners : RunOK(run[o], o, screenLeases, controlLeases, lastLease, closed)
    /\ handBacks \in [Origins -> HandBackState]
    /\ \A w \in Origins : HandBackOK(handBacks[w], controlLeases, lastLease)
    /\ ResumesOK(controlLeases, resumes, closed)
    /\ DrainOK(drain, screenLeases, lastLease)
    /\ WaitersOK(waiters, run)
    /\ candidates \subseteq [lease : Nat, by : Owners \cup Humans]

------------------------------------------------------------------------------
(* The operators on the tables. *)

\* A table without the rows of S.
LEMMA WithoutRows ==
    ASSUME NEW f, NEW S
    PROVE  /\ DOMAIN Without(f, S) = DOMAIN f \ S
           /\ \A x : x \in DOMAIN f /\ x \notin S => Without(f, S)[x] = f[x]
BY DEF Without, Restrict

LEMMA WithoutType ==
    ASSUME NEW f, NEW S, NEW T, f \in [DOMAIN f -> T]
    PROVE  Without(f, S) \in [DOMAIN f \ S -> T]
BY DEF Without, Restrict

\* A table with one more row.
LEMMA WithType ==
    ASSUME NEW f, NEW k, NEW T, NEW v \in T, f \in [DOMAIN f -> T]
    PROVE  With(f, k, v) \in [DOMAIN f \cup {k} -> T]
BY DEF With

\* A queue without o, when o is in it at most once.
LEMMA Dropped ==
    ASSUME NEW s \in Seq(Owners), NEW o,
           \A i, j \in DOMAIN s : s[i] = s[j] => i = j
    PROVE  /\ Drop(s, o) \in Seq(Owners)
           /\ \A i, j \in DOMAIN Drop(s, o) : Drop(s, o)[i] = Drop(s, o)[j] => i = j
           /\ \A i \in DOMAIN Drop(s, o) :
                 Drop(s, o)[i] # o /\ \E j \in DOMAIN s : Drop(s, o)[i] = s[j]
<1>1. CASE ~\E i \in DOMAIN s : s[i] = o
  BY <1>1 DEF Drop
<1>2. CASE \E i \in DOMAIN s : s[i] = o
  <2> DEFINE k == CHOOSE i \in DOMAIN s : s[i] = o
             t == RemoveAt(s, k)
             at(i) == IF i < k THEN i ELSE i + 1
  <2>1. k \in 1 .. Len(s) /\ s[k] = o /\ Len(s) \in Nat
    BY <1>2
  <2>2. Drop(s, o) = t
    BY <1>2 DEF Drop
  <2> HIDE DEF k
  <2>3. /\ t \in Seq(Owners) /\ Len(t) = Len(s) - 1
        /\ \A i \in 1 .. Len(s) - 1 : t[i] = s[at(i)]
    <3>1. /\ SubSeq(s, 1, k - 1) \in Seq(Owners) /\ SubSeq(s, k + 1, Len(s)) \in Seq(Owners)
          /\ Len(SubSeq(s, 1, k - 1)) = k - 1
          /\ Len(SubSeq(s, k + 1, Len(s))) = Len(s) - k
          /\ \A i \in 1 .. k - 1 : SubSeq(s, 1, k - 1)[i] = s[i]
          /\ \A i \in 1 .. Len(s) - k : SubSeq(s, k + 1, Len(s))[i] = s[k + i]
      BY <2>1
    <3> DEFINE u == SubSeq(s, 1, k - 1)
               v == SubSeq(s, k + 1, Len(s))
    <3>2. t = u \o v
      BY DEF RemoveAt
    <3>3. /\ u \in Seq(Owners) /\ v \in Seq(Owners)
          /\ Len(u) = k - 1 /\ Len(v) = Len(s) - k
          /\ \A i \in 1 .. k - 1 : u[i] = s[i]
          /\ \A i \in 1 .. Len(s) - k : v[i] = s[k + i]
      BY <3>1
    <3> HIDE DEF u, v, t
    <3>5. t \in Seq(Owners) /\ Len(t) = Len(u) + Len(v)
      BY <3>2, <3>3, ConcatProperties
    <3>6. /\ \A i \in 1 .. Len(u) : t[i] = u[i]
          /\ \A i \in Len(u) + 1 .. Len(u) + Len(v) : t[i] = v[i - Len(u)]
      BY <3>2, <3>3
    <3>7. Len(t) = Len(s) - 1
      BY <2>1, <3>3, <3>5
    <3>4. ASSUME NEW i \in 1 .. Len(s) - 1
          PROVE  t[i] = s[at(i)]
      <4>1. CASE i < k
        BY <2>1, <3>3, <3>6, <4>1
      <4>2. CASE ~(i < k)
        <5>1. t[i] = v[i - (k - 1)] /\ i - (k - 1) \in 1 .. Len(s) - k
          BY <2>1, <3>3, <3>6, <4>2
        <5>2. v[i - (k - 1)] = s[k + (i - (k - 1))] /\ k + (i - (k - 1)) = i + 1
          BY <2>1, <3>3, <5>1
        <5> QED
          BY <4>2, <5>1, <5>2
      <4> QED
        BY <4>1, <4>2
    <3> QED
      BY <3>4, <3>5, <3>7
  <2>4. DOMAIN t = 1 .. Len(s) - 1 /\ DOMAIN s = 1 .. Len(s)
    BY <2>3
  <2>5. \A i \in DOMAIN t : at(i) \in DOMAIN s /\ at(i) # k
    BY <2>1, <2>4
  <2>6. \A i, j \in DOMAIN t : at(i) = at(j) => i = j
    BY <2>1, <2>4
  <2> HIDE DEF t, at
  <2>7. \A i, j \in DOMAIN t : t[i] = t[j] => i = j
    BY <2>3, <2>4, <2>5, <2>6
  <2>8. \A i \in DOMAIN t : t[i] # o /\ \E j \in DOMAIN s : t[i] = s[j]
    BY <2>1, <2>3, <2>4, <2>5
  <2> QED
    BY <2>2, <2>3, <2>7, <2>8
<1> QED
  BY <1>1, <1>2

------------------------------------------------------------------------------
(* The leases of S are released. *)

\* The owners who lose a lease.
Losers(SL, S) == {SL[l].owner : l \in S}

LEMMA ReleasedLeases ==
    ASSUME NEW SL, NEW OL, NEW CL, NEW n, LeasesOK(SL, OL, CL, n),
           NEW S \in SUBSET DOMAIN SL
    PROVE  /\ LeasesOK(Without(SL, S), Without(OL, Losers(SL, S)), Without(CL, S), n)
           /\ DOMAIN Without(CL, S) = DOMAIN Without(SL, S)
<1> DEFINE SL2 == Without(SL, S)
           OL2 == Without(OL, Losers(SL, S))
           CL2 == Without(CL, S)
<1>1. /\ DOMAIN SL2 = DOMAIN SL \ S /\ \A l \in DOMAIN SL2 : SL2[l] = SL[l]
      /\ SL2 \in [DOMAIN SL2 -> ScreenLease]
  <2>1. /\ DOMAIN SL2 = DOMAIN SL \ S
        /\ \A x : x \in DOMAIN SL /\ x \notin S => SL2[x] = SL[x]
    BY WithoutRows
  <2>2. SL2 \in [DOMAIN SL \ S -> ScreenLease]
    BY WithoutType DEF LeasesOK
  <2> QED
    BY <2>1, <2>2
<1>2. /\ DOMAIN CL2 = DOMAIN SL2 /\ CL2 \in [DOMAIN SL2 -> ControlLease]
  <2>1. CL \in [DOMAIN CL -> ControlLease] /\ DOMAIN CL = DOMAIN SL
    BY DEF LeasesOK
  <2>2. CL2 \in [DOMAIN CL \ S -> ControlLease]
    BY <2>1, WithoutType
  <2> QED
    BY <1>1, <2>1, <2>2
<1>3. /\ DOMAIN OL2 = DOMAIN OL \ Losers(SL, S) /\ \A o \in DOMAIN OL2 : OL2[o] = OL[o]
      /\ OL2 = [o \in DOMAIN OL2 |-> OL2[o]]
  BY WithoutRows DEF Without, Restrict
<1> HIDE DEF SL2, OL2, CL2
<1>4. ASSUME NEW o \in DOMAIN OL2
      PROVE  OL2[o] \in DOMAIN SL2 /\ SL2[OL2[o]].owner = o /\ o \in Owners
  BY <1>1, <1>3 DEF LeasesOK, Losers
<1>5. ASSUME NEW l \in DOMAIN SL2
      PROVE  SL2[l].owner \in DOMAIN OL2 /\ OL2[SL2[l].owner] = l
  <2>1. SL[l].owner \notin Losers(SL, S)
    BY <1>1 DEF LeasesOK, Losers
  <2> QED
    BY <1>1, <1>3, <2>1 DEF LeasesOK
<1>6. OL2 \in [DOMAIN OL2 -> DOMAIN SL2]
  BY <1>3, <1>4
<1>7. n \in Nat /\ DOMAIN SL2 \subseteq 1 .. n
  BY <1>1 DEF LeasesOK
<1>8. \A k, l \in DOMAIN SL2 : k # l => SL2[k].screen # SL2[l].screen
  BY <1>1 DEF LeasesOK
<1>9. LeasesOK(SL2, OL2, CL2, n)
  BY <1>1, <1>2, <1>4, <1>5, <1>6, <1>7, <1>8 DEF LeasesOK
<1> QED
  BY <1>2, <1>9 DEF SL2, OL2, CL2

LEMMA ReleasedOwn ==
    ASSUME NEW SL, NEW n, NEW l, NEW o, NEW S, Own(l, o, SL, n)
    PROVE  Own(l, o, Without(SL, S), n)
<1>1. /\ DOMAIN Without(SL, S) = DOMAIN SL \ S
      /\ \A x : x \in DOMAIN SL /\ x \notin S => Without(SL, S)[x] = SL[x]
  BY WithoutRows
<1> QED
  BY <1>1 DEF Own

LEMMA ReleasedRun ==
    ASSUME NEW SL, NEW CL, NEW n, NEW phase, NEW S, DOMAIN CL = DOMAIN SL,
           NEW o, NEW r \in RunState, RunOK(r, o, SL, CL, n, phase)
    PROVE  /\ Interrupted(r, S) \in RunState
           /\ RunOK(Interrupted(r, S), o, Without(SL, S), Without(CL, S), n, phase)
           /\ r.pc # "paused" => Interrupted(r, S).pc = r.pc
           /\ Interrupted(r, S).pc # "parked" => r.pc # "parked"
<1> DEFINE q == Interrupted(r, S)
           SL2 == Without(SL, S)
           CL2 == Without(CL, S)
<1>1. /\ q.live = (r.live /\ r.lease \notin S)
      /\ q.pc = IF r.pc = "paused" /\ r.lease \in S THEN "bound" ELSE r.pc
      /\ q.lease = r.lease /\ q.generation = r.generation
      /\ q \in RunState
  BY DEF Interrupted, RunState, PCs, Working
<1>2. /\ DOMAIN SL2 = DOMAIN SL \ S /\ \A l \in DOMAIN SL2 : SL2[l] = SL[l]
      /\ \A l \in DOMAIN SL2 : CL2[l] = CL[l]
  <2>1. /\ DOMAIN SL2 = DOMAIN SL \ S
        /\ \A x : x \in DOMAIN SL /\ x \notin S => SL2[x] = SL[x]
    BY WithoutRows
  <2>2. \A x : x \in DOMAIN CL /\ x \notin S => CL2[x] = CL[x]
    BY WithoutRows
  <2> QED
    BY <2>1, <2>2
<1> HIDE DEF q, SL2, CL2
<1>3. RunOK(q, o, SL2, CL2, n, phase)
  <2>1. Own(q.lease, o, SL2, n)
    BY <1>1, <1>2 DEF RunOK, Own
  <2>2. q.live => q.pc = "acting"
    BY <1>1 DEF RunOK
  <2>3. q.live /\ phase = "open" =>
           /\ q.lease \in DOMAIN SL2 /\ CL2[q.lease].holder = "agent"
           /\ CL2[q.lease].generation = q.generation
    BY <1>1, <1>2 DEF RunOK
  <2>4. q.pc \in {"pausing", "rechecking", "paused"} /\ q.lease \in DOMAIN SL2 =>
           CL2[q.lease].generation > q.generation
    BY <1>1, <1>2 DEF RunOK
  <2>5. q.pc = "paused" /\ phase = "open" =>
           q.lease \in DOMAIN SL2 /\ CL2[q.lease].holder = "human"
    BY <1>1, <1>2 DEF RunOK
  <2> QED
    BY <2>1, <2>2, <2>3, <2>4, <2>5 DEF RunOK
<1> QED
  BY <1>1, <1>3 DEF q, SL2, CL2

LEMMA ReleasedHandBack ==
    ASSUME NEW CL, NEW n, NEW S, NEW b, HandBackOK(b, CL, n)
    PROVE  HandBackOK(b, Without(CL, S), n)
<1>1. /\ DOMAIN Without(CL, S) = DOMAIN CL \ S
      /\ \A x : x \in DOMAIN CL /\ x \notin S => Without(CL, S)[x] = CL[x]
  BY WithoutRows
<1> QED
  BY <1>1 DEF HandBackOK

LEMMA ReleasedResumes ==
    ASSUME NEW CL, NEW RS, NEW phase, NEW S, ResumesOK(CL, RS, phase)
    PROVE  ResumesOK(Without(CL, S), Without(RS, S), phase)
<1>1. /\ DOMAIN Without(CL, S) = DOMAIN CL \ S
      /\ \A x : x \in DOMAIN CL /\ x \notin S => Without(CL, S)[x] = CL[x]
  BY WithoutRows
<1>2. /\ DOMAIN Without(RS, S) = DOMAIN RS \ S
      /\ \A x : x \in DOMAIN RS /\ x \notin S => Without(RS, S)[x] = RS[x]
  BY WithoutRows
<1> QED
  BY <1>1, <1>2 DEF ResumesOK

LEMMA ReleasedDrain ==
    ASSUME NEW SL, NEW n, NEW S, NEW d, DrainOK(d, SL, n)
    PROVE  DrainOK(d, Without(SL, S), n)
BY ReleasedOwn DEF DrainOK

------------------------------------------------------------------------------
(* Owner o is granted screen s under a fresh id. *)

NewScreenLease(s, o) == [screen |-> s, owner |-> o, lapsed |-> FALSE]
NewControlLease(o) == [holder |-> "agent", by |-> o, generation |-> 1,
                       idle |-> FALSE, manual |-> TRUE]

LEMMA GrantedLeases ==
    ASSUME NEW SL, NEW OL, NEW CL, NEW n, LeasesOK(SL, OL, CL, n),
           NEW o \in Owners, o \notin DOMAIN OL,
           NEW s \in Screens, \A l \in DOMAIN SL : SL[l].screen # s
    PROVE  LeasesOK(With(SL, n + 1, NewScreenLease(s, o)), With(OL, o, n + 1),
                    With(CL, n + 1, NewControlLease(o)), n + 1)
<1> DEFINE SL2 == With(SL, n + 1, NewScreenLease(s, o))
           OL2 == With(OL, o, n + 1)
           CL2 == With(CL, n + 1, NewControlLease(o))
           D == DOMAIN SL
<1>1. /\ n \in Nat /\ D \subseteq 1 .. n /\ n + 1 \notin D
      /\ SL \in [D -> ScreenLease] /\ CL \in [D -> ControlLease] /\ DOMAIN CL = D
      /\ OL \in [DOMAIN OL -> D] /\ DOMAIN OL \subseteq Owners
  BY DEF LeasesOK
<1>2. /\ DOMAIN SL2 = D \cup {n + 1} /\ SL2[n + 1] = NewScreenLease(s, o)
      /\ \A l \in D : SL2[l] = SL[l]
      /\ SL2 \in [D \cup {n + 1} -> ScreenLease]
  <2>1. NewScreenLease(s, o) \in ScreenLease
    BY DEF NewScreenLease, ScreenLease
  <2>2. SL2 \in [D \cup {n + 1} -> ScreenLease]
    BY <1>1, <2>1, WithType
  <2> QED
    BY <1>1, <2>2 DEF With
<1>3. CL2 \in [D \cup {n + 1} -> ControlLease]
  <2>1. NewControlLease(o) \in ControlLease
    BY DEF NewControlLease, ControlLease, Generations
  <2> QED
    BY <1>1, <2>1, WithType
<1>4. /\ DOMAIN OL2 = DOMAIN OL \cup {o} /\ OL2[o] = n + 1
      /\ \A p \in DOMAIN OL : OL2[p] = OL[p]
      /\ OL2 \in [DOMAIN OL \cup {o} -> D \cup {n + 1}]
  <2>1. /\ DOMAIN OL2 = DOMAIN OL \cup {o} /\ OL2[o] = n + 1
        /\ \A x : x \in DOMAIN OL /\ x # o => OL2[x] = OL[x]
    BY DEF With
  <2>2. OL \in [DOMAIN OL -> D \cup {n + 1}]
    BY <1>1
  <2>3. OL2 \in [DOMAIN OL \cup {o} -> D \cup {n + 1}]
    BY <2>2, WithType
  <2> QED
    BY <2>1, <2>3
<1> HIDE DEF SL2, OL2, CL2
<1>5. \A k, l \in DOMAIN SL2 : k # l => SL2[k].screen # SL2[l].screen
  <2>1. NewScreenLease(s, o).screen = s
    BY DEF NewScreenLease
  <2> QED
    BY <1>2, <2>1 DEF LeasesOK
<1>6. \A l \in DOMAIN SL2 : SL2[l].owner \in DOMAIN OL2 /\ OL2[SL2[l].owner] = l
  <2>1. NewScreenLease(s, o).owner = o
    BY DEF NewScreenLease
  <2> QED
    BY <1>2, <1>4, <2>1 DEF LeasesOK
<1>7. \A p \in DOMAIN OL2 : SL2[OL2[p]].owner = p
  <2>1. NewScreenLease(s, o).owner = o
    BY DEF NewScreenLease
  <2> QED
    BY <1>1, <1>2, <1>4, <2>1 DEF LeasesOK
<1>8. n + 1 \in Nat /\ DOMAIN SL2 \subseteq 1 .. n + 1
  BY <1>1, <1>2
<1>9. LeasesOK(SL2, OL2, CL2, n + 1)
  BY <1>1, <1>2, <1>3, <1>4, <1>5, <1>6, <1>7, <1>8 DEF LeasesOK
<1> QED
  BY <1>9 DEF SL2, OL2, CL2

\* What was known of the leases before the grant holds after it.
LEMMA GrantedOwn ==
    ASSUME NEW SL, NEW n \in Nat, NEW v, NEW l, NEW o, Own(l, o, SL, n)
    PROVE  Own(l, o, With(SL, n + 1, v), n + 1)
<1>1. /\ DOMAIN With(SL, n + 1, v) = DOMAIN SL \cup {n + 1}
      /\ \A x : x \in DOMAIN SL /\ x # n + 1 => With(SL, n + 1, v)[x] = SL[x]
  BY DEF With
<1>2. l \in 0 .. n
  BY DEF Own, Known
<1>3. l \in 0 .. n + 1 /\ l # n + 1
  BY <1>2
<1> QED
  BY <1>1, <1>3 DEF Own, Known

LEMMA GrantedRun ==
    ASSUME NEW SL, NEW CL, NEW n \in Nat, NEW phase, NEW v, NEW c, DOMAIN CL = DOMAIN SL,
           NEW o, NEW r, RunOK(r, o, SL, CL, n, phase)
    PROVE  RunOK(r, o, With(SL, n + 1, v), With(CL, n + 1, c), n + 1, phase)
<1> DEFINE SL2 == With(SL, n + 1, v)
           CL2 == With(CL, n + 1, c)
<1>1. /\ DOMAIN SL2 = DOMAIN SL \cup {n + 1}
      /\ \A x : x \in DOMAIN SL /\ x # n + 1 => SL2[x] = SL[x]
  BY DEF With
<1>2. \A x : x \in DOMAIN CL /\ x # n + 1 => CL2[x] = CL[x]
  BY DEF With
<1>3. Own(r.lease, o, SL2, n + 1)
  BY GrantedOwn DEF RunOK
<1>4. r.lease # n + 1
  <2>1. r.lease \in 0 .. n
    BY DEF RunOK, Own, Known
  <2> QED
    BY <2>1
<1> HIDE DEF SL2, CL2
<1>5. RunOK(r, o, SL2, CL2, n + 1, phase)
  BY <1>1, <1>2, <1>3, <1>4 DEF RunOK
<1> QED
  BY <1>5 DEF SL2, CL2

LEMMA GrantedHandBack ==
    ASSUME NEW CL, NEW n \in Nat, NEW c, NEW b, HandBackOK(b, CL, n)
    PROVE  HandBackOK(b, With(CL, n + 1, c), n + 1)
<1>1. /\ DOMAIN With(CL, n + 1, c) = DOMAIN CL \cup {n + 1}
      /\ \A x : x \in DOMAIN CL /\ x # n + 1 => With(CL, n + 1, c)[x] = CL[x]
  BY DEF With
<1>2. b.lease \in 0 .. n
  BY DEF HandBackOK, Known
<1>3. b.lease \in 0 .. n + 1 /\ b.lease # n + 1
  BY <1>2
<1> QED
  BY <1>1, <1>3 DEF HandBackOK, Known

LEMMA GrantedResumes ==
    ASSUME NEW CL, NEW RS, NEW phase, NEW k, NEW o, ResumesOK(CL, RS, phase)
    PROVE  ResumesOK(With(CL, k, NewControlLease(o)), RS, phase)
<1>1. /\ DOMAIN With(CL, k, NewControlLease(o)) = DOMAIN CL \cup {k}
      /\ With(CL, k, NewControlLease(o))[k] = NewControlLease(o)
      /\ \A x : x \in DOMAIN CL /\ x # k => With(CL, k, NewControlLease(o))[x] = CL[x]
  BY DEF With
<1>2. NewControlLease(o).generation = 1
  BY DEF NewControlLease
<1> QED
  BY <1>1, <1>2 DEF ResumesOK

LEMMA GrantedDrain ==
    ASSUME NEW SL, NEW n \in Nat, NEW v, NEW d, DrainOK(d, SL, n)
    PROVE  DrainOK(d, With(SL, n + 1, v), n + 1)
BY GrantedOwn DEF DrainOK

------------------------------------------------------------------------------
(* Control of lease l becomes c. *)

LEMMA ChangedLeases ==
    ASSUME NEW SL, NEW OL, NEW CL, NEW n, LeasesOK(SL, OL, CL, n),
           NEW l \in DOMAIN SL, NEW c \in ControlLease
    PROVE  LeasesOK(SL, OL, [CL EXCEPT ![l] = c], n)
<1>1. [CL EXCEPT ![l] = c] \in [DOMAIN SL -> ControlLease]
  BY DEF LeasesOK
<1> QED
  BY <1>1 DEF LeasesOK

\* A run without an action under way sees a later generation only.
LEMMA ChangedRun ==
    ASSUME NEW SL, NEW CL \in [DOMAIN SL -> ControlLease], NEW n, NEW phase, NEW o,
           NEW r \in RunState, RunOK(r, o, SL, CL, n, phase),
           NEW l \in DOMAIN SL, NEW c \in ControlLease,
           c.generation >= CL[l].generation,
           r.lease = l /\ phase = "open" => ~r.live,
           r.lease = l /\ r.pc = "paused" => c.holder = "human"
    PROVE  RunOK(r, o, SL, [CL EXCEPT ![l] = c], n, phase)
<1> DEFINE CL2 == [CL EXCEPT ![l] = c]
<1>1. \A k \in DOMAIN SL : CL2[k] = IF k = l THEN c ELSE CL[k]
  OBVIOUS
<1>2. r.generation \in Nat /\ c.generation \in Nat /\ CL[l].generation \in Nat
  BY DEF RunState, ControlLease, Generations
<1> HIDE DEF CL2
<1>3. r.pc \in {"pausing", "rechecking", "paused"} /\ r.lease \in DOMAIN SL =>
           CL2[r.lease].generation > r.generation
  BY <1>1, <1>2 DEF RunOK
<1>4. r.pc = "paused" /\ phase = "open" =>
           r.lease \in DOMAIN SL /\ CL2[r.lease].holder = "human"
  BY <1>1 DEF RunOK
<1>5. r.live /\ phase = "open" =>
           /\ r.lease \in DOMAIN SL /\ CL2[r.lease].holder = "agent"
           /\ CL2[r.lease].generation = r.generation
  BY <1>1 DEF RunOK
<1>6. RunOK(r, o, SL, CL2, n, phase)
  BY <1>3, <1>4, <1>5 DEF RunOK
<1> QED
  BY <1>6 DEF CL2

\* A hand-back is overtaken by a later generation, whatever its observation.
LEMMA ChangedHandBack ==
    ASSUME NEW CL, CL \in [DOMAIN CL -> ControlLease], NEW n,
           NEW b \in HandBackState, HandBackOK(b, CL, n),
           NEW l \in DOMAIN CL, NEW c \in ControlLease,
           c.generation >= CL[l].generation,
           NEW fresh \in BOOLEAN,
           (b.lease = l /\ c.generation > CL[l].generation) \/ fresh = b.fresh
    PROVE  /\ [b EXCEPT !.fresh = fresh] \in HandBackState
           /\ HandBackOK([b EXCEPT !.fresh = fresh], [CL EXCEPT ![l] = c], n)
<1> DEFINE CL2 == [CL EXCEPT ![l] = c]
           d == [b EXCEPT !.fresh = fresh]
<1>1. /\ DOMAIN CL2 = DOMAIN CL
      /\ \A k \in DOMAIN CL : CL2[k] = IF k = l THEN c ELSE CL[k]
  OBVIOUS
<1>2. b.generation \in Nat /\ c.generation \in Nat /\ CL[l].generation \in Nat
  BY DEF HandBackState, ControlLease, Generations
<1>3. /\ d.stage = b.stage /\ d.lease = b.lease /\ d.generation = b.generation
      /\ d.fresh = fresh /\ d \in HandBackState
  BY DEF HandBackState
<1> HIDE DEF CL2, d
<1>4. HandBackOK(d, CL2, n)
  BY <1>1, <1>2, <1>3 DEF HandBackOK
<1> QED
  BY <1>3, <1>4 DEF CL2, d

\* A human needs no observation.
LEMMA ChangedResumes ==
    ASSUME NEW CL, NEW RS, NEW RS2, NEW phase, ResumesOK(CL, RS, phase),
           NEW l, NEW c, c.holder = "human",
           \A k : k \in DOMAIN RS /\ k # l => k \in DOMAIN RS2 /\ RS2[k] = RS[k]
    PROVE  ResumesOK([CL EXCEPT ![l] = c], RS2, phase)
<1>1. /\ DOMAIN [CL EXCEPT ![l] = c] = DOMAIN CL
      /\ \A k \in DOMAIN CL : [CL EXCEPT ![l] = c][k] = IF k = l THEN c ELSE CL[k]
  OBVIOUS
<1> QED
  BY <1>1 DEF ResumesOK

------------------------------------------------------------------------------
(* The steps that change one run. *)

\* A run without an action under way that is not on its way to sleep.
Awake(r) == ~r.live /\ r.pc \notin {"pausing", "rechecking", "paused"}

LEMMA AwakeRun ==
    ASSUME NEW SL, NEW CL, NEW n, NEW phase, NEW o, NEW r, NEW q,
           RunOK(r, o, SL, CL, n, phase), Awake(q), q.lease = r.lease
    PROVE  RunOK(q, o, SL, CL, n, phase)
BY DEF Awake, RunOK

\* Nothing but run o changes.
Still == UNCHANGED <<service, node, maintenance, waiters, drain, handBacks, candidates>>

LEMMA OneRun ==
    ASSUME IInv, NEW o \in Owners, NEW r \in RunState, run[o].pc # "parked",
           RunOK(r, o, screenLeases, controlLeases, lastLease, closed),
           run' = [run EXCEPT ![o] = r], Still
    PROVE  IInv'
<1>1. /\ run \in [Owners -> RunState]
      /\ \A p \in Owners : RunOK(run[p], p, screenLeases, controlLeases, lastLease, closed)
      /\ WaitersOK(waiters, run)
  BY DEF IInv
<1>2. /\ run' \in [Owners -> RunState]
      /\ \A p \in Owners : run'[p] = IF p = o THEN r ELSE run[p]
  BY <1>1
<1>3. \A p \in Owners : RunOK(run'[p], p, screenLeases, controlLeases, lastLease, closed)
  BY <1>1, <1>2
<1>4. WaitersOK(waiters, run')
  <2>1. waiters \in Seq(Owners)
    BY <1>1 DEF WaitersOK
  <2>2. \A i \in DOMAIN waiters : waiters[i] \in Owners /\ waiters[i] # o
    BY <1>1, <2>1 DEF WaitersOK
  <2> QED
    BY <1>1, <1>2, <2>2 DEF WaitersOK
<1> QED
  BY <1>2, <1>3, <1>4 DEF IInv, Still, service

\* What holds of a run.
LEMMA RunFacts ==
    ASSUME IInv, NEW o \in Owners
    PROVE  /\ run \in [Owners -> RunState] /\ run[o] \in RunState
           /\ RunOK(run[o], o, screenLeases, controlLeases, lastLease, closed)
           /\ LeasesOK(screenLeases, ownerLeaseIds, controlLeases, lastLease)
           /\ DOMAIN controlLeases = Leases
           /\ \A l \in Leases : /\ controlLeases[l] \in ControlLease
                                /\ screenLeases[l] \in ScreenLease
BY DEF IInv, LeasesOK, Leases

LEMMA KeeperFailsStep ==
    ASSUME IInv, NEW o \in Owners, KeeperFails(o)
    PROVE  IInv'
<1> DEFINE r == [run[o] EXCEPT !.cancelled = TRUE, !.live = FALSE,
                               !.pc = IF @ \in {"bound", "paused"} THEN "ending" ELSE @]
<1>1. run' = [run EXCEPT ![o] = r] /\ run[o].pc \in Working /\ Still
  BY RunFacts DEF KeeperFails, Still
<1>2. /\ r \in RunState /\ ~r.live /\ r.lease = run[o].lease /\ r.generation = run[o].generation
      /\ r.pc = IF run[o].pc \in {"bound", "paused"} THEN "ending" ELSE run[o].pc
  BY RunFacts DEF RunState, PCs
<1> HIDE DEF r
<1>3. RunOK(r, o, screenLeases, controlLeases, lastLease, closed)
  BY <1>2, RunFacts DEF RunOK
<1> QED
  BY <1>1, <1>2, <1>3, OneRun DEF Working

LEMMA CalledRun ==
    ASSUME NEW r \in RunState, ~r.live, NEW g \in Nat
    PROVE  LET called == [r EXCEPT !.calls = @ + 1, !.pc = "calling", !.generation = g]
           IN  called \in RunState /\ Awake(called) /\ called.lease = r.lease
<1>1. r.calls + 1 \in Nat /\ "calling" \in PCs
  BY DEF RunState, PCs, Working
<1> QED
  BY <1>1 DEF RunState, Awake

LEMMA CallStep ==
    ASSUME IInv, NEW o \in Owners, Call(o)
    PROVE  IInv'
<1> DEFINE l == run[o].lease
           idle == [run[o] EXCEPT !.calls = @ + 1]
           g == IF AgentHolds(l, o) THEN controlLeases[l].generation ELSE run[o].generation
           called == [run[o] EXCEPT !.calls = @ + 1, !.pc = "calling", !.generation = g]
           r == IF l \notin Leases THEN idle ELSE called
<1>1. run' = [run EXCEPT ![o] = r] /\ run[o].pc = "bound" /\ Still
  BY RunFacts DEF Call, Still
<1>2. ~run[o].live
  BY <1>1, RunFacts DEF RunOK
<1>3. idle \in RunState /\ Awake(idle) /\ idle.lease = run[o].lease
  BY <1>1, <1>2, RunFacts DEF RunState, Awake
<1>4. called \in RunState /\ Awake(called) /\ called.lease = run[o].lease
  <2>1. g \in Nat
    BY RunFacts DEF AgentHolds, RunState, ControlLease, Generations
  <2> QED
    BY <1>2, <2>1, RunFacts, CalledRun
<1> HIDE DEF idle, called
<1>5. r \in RunState /\ RunOK(r, o, screenLeases, controlLeases, lastLease, closed)
  BY <1>3, <1>4, RunFacts, AwakeRun
<1> QED
  BY <1>1, <1>5, OneRun

LEMMA BeginStep ==
    ASSUME IInv, NEW o \in Owners, Begin(o)
    PROVE  IInv'
<1> DEFINE acting == [run[o] EXCEPT !.pc = "acting", !.live = TRUE]
           refused == [run[o] EXCEPT !.pc = "catching"]
           may == MayAct(run[o].lease, o, run[o].generation) /\ ~run[o].cancelled
           r == IF may THEN acting ELSE refused
<1>1. run' = [run EXCEPT ![o] = r] /\ run[o].pc = "calling" /\ Still
  BY RunFacts DEF Begin, To, Still
<1>2. ~run[o].live
  BY <1>1, RunFacts DEF RunOK
<1>3. refused \in RunState /\ Awake(refused) /\ refused.lease = run[o].lease
  BY <1>2, RunFacts DEF RunState, Awake, PCs, Working
<1>4. /\ acting \in RunState /\ acting.pc = "acting" /\ acting.lease = run[o].lease
      /\ acting.generation = run[o].generation
  BY RunFacts DEF RunState, PCs, Working
<1>5. ASSUME may
      PROVE  RunOK(acting, o, screenLeases, controlLeases, lastLease, closed)
  <2> HIDE DEF acting
  <2>1. /\ run[o].lease \in DOMAIN screenLeases /\ controlLeases[run[o].lease].holder = "agent"
        /\ controlLeases[run[o].lease].generation = run[o].generation
    BY <1>5 DEF MayAct, AgentHolds, Leases
  <2> QED
    BY <1>4, <2>1, RunFacts DEF RunOK
<1> HIDE DEF acting, refused, may
<1>6. r \in RunState /\ RunOK(r, o, screenLeases, controlLeases, lastLease, closed)
  BY <1>3, <1>4, <1>5, RunFacts, AwakeRun
<1> QED
  BY <1>1, <1>6, OneRun

LEMMA FinishStep ==
    ASSUME IInv, NEW o \in Owners, Finish(o)
    PROVE  IInv'
<1> DEFINE done == [run[o] EXCEPT !.pc = "bound", !.live = FALSE, !.seen = run[o].generation]
           failed == [run[o] EXCEPT !.pc = "catching", !.live = FALSE]
           ok == run[o].live /\ MayAct(run[o].lease, o, run[o].generation)
           r == IF ok THEN done ELSE failed
<1>1. run' = [run EXCEPT ![o] = r] /\ run[o].pc = "acting" /\ Still
  BY RunFacts DEF Finish, Still
<1>2. /\ done \in RunState /\ Awake(done) /\ done.lease = run[o].lease
      /\ failed \in RunState /\ Awake(failed) /\ failed.lease = run[o].lease
  BY RunFacts DEF RunState, Awake, PCs, Working
<1> HIDE DEF done, failed, ok
<1>3. r \in RunState /\ RunOK(r, o, screenLeases, controlLeases, lastLease, closed)
  BY <1>2, RunFacts, AwakeRun
<1> QED
  BY <1>1, <1>3, OneRun

\* Another step of a run without an action under way.
LEMMA Goes ==
    ASSUME IInv, NEW o \in Owners, NEW pc \in PCs, run[o].pc # "parked", ~run[o].live,
           run' = [run EXCEPT ![o] = [run[o] EXCEPT !.pc = pc]], Still,
           pc \in {"pausing", "rechecking", "paused"} /\ run[o].lease \in Leases =>
               controlLeases[run[o].lease].generation > run[o].generation,
           pc = "paused" =>
               run[o].lease \in Leases /\ controlLeases[run[o].lease].holder = "human"
    PROVE  IInv'
<1> DEFINE r == [run[o] EXCEPT !.pc = pc]
<1>1. /\ r \in RunState /\ ~r.live /\ r.lease = run[o].lease /\ r.generation = run[o].generation
      /\ r.pc = pc
  BY RunFacts DEF RunState
<1>2. run' = [run EXCEPT ![o] = r]
  OBVIOUS
<1> HIDE DEF r
<1>3. RunOK(r, o, screenLeases, controlLeases, lastLease, closed)
  BY <1>1, RunFacts DEF RunOK, Leases
<1> QED
  BY <1>1, <1>2, <1>3, OneRun

LEMMA CatchStep ==
    ASSUME IInv, NEW o \in Owners, Catch(o)
    PROVE  IInv'
<1> DEFINE l == run[o].lease
           pc == IF run[o].cancelled THEN "ending"
                 ELSE IF l \in Leases /\ controlLeases[l].generation > run[o].generation
                 THEN "pausing" ELSE "bound"
<1>1. run' = [run EXCEPT ![o] = [run[o] EXCEPT !.pc = pc]] /\ run[o].pc = "catching" /\ Still
  BY RunFacts DEF Catch, To, Still
<1>2. ~run[o].live
  BY <1>1, RunFacts DEF RunOK
<1>3. /\ pc \in PCs /\ pc \notin {"rechecking", "paused"}
      /\ pc = "pausing" => controlLeases[l].generation > run[o].generation
  BY DEF PCs, Working
<1> HIDE DEF pc
<1> QED
  BY <1>1, <1>2, <1>3, Goes

\* The snapshot wakes the run, or leaves it asleep under a human.
LEMMA ResumeStep ==
    ASSUME IInv, NEW o \in Owners, NEW waiting \in {"rechecking", "paused"},
           run[o].pc \in {"pausing", "rechecking"}, Resume(o, waiting), Still
    PROVE  IInv'
<1> DEFINE l == run[o].lease
           seen == [run[o] EXCEPT !.pc = "bound", !.seen = controlLeases[l].generation]
<1>1. ~run[o].live
  BY RunFacts DEF RunOK
<1>2. CASE ~run[o].cancelled /\ l \in Leases /\ controlLeases[l].holder = "human"
  <2>1. run' = [run EXCEPT ![o] = [run[o] EXCEPT !.pc = waiting]]
    BY <1>2, RunFacts DEF Resume, To
  <2>2. waiting \in PCs
    BY DEF PCs, Working
  <2>3. controlLeases[l].generation > run[o].generation
    BY <1>2, RunFacts DEF RunOK, Leases
  <2> QED
    BY <1>1, <1>2, <2>1, <2>2, <2>3, Goes
<1>3. CASE ~run[o].cancelled /\ l \in Leases /\ run' = [run EXCEPT ![o] = seen]
  <2>1. controlLeases[l].generation \in Nat
    BY <1>3, RunFacts DEF ControlLease, Generations
  <2>2. seen \in RunState /\ Awake(seen) /\ seen.lease = run[o].lease
    BY <1>1, <2>1, RunFacts DEF RunState, Awake, PCs, Working
  <2> HIDE DEF seen
  <2>3. RunOK(seen, o, screenLeases, controlLeases, lastLease, closed)
    BY <2>2, RunFacts, AwakeRun
  <2> QED
    BY <1>3, <2>2, <2>3, OneRun
<1>4. CASE \E pc \in {"ending", "bound"} : run' = [run EXCEPT ![o] = [run[o] EXCEPT !.pc = pc]]
  <2>1. PICK pc \in {"ending", "bound"} : run' = [run EXCEPT ![o] = [run[o] EXCEPT !.pc = pc]]
    BY <1>4
  <2>2. pc \in PCs
    BY DEF PCs, Working
  <2> QED
    BY <1>1, <2>1, <2>2, Goes
<1>5. \/ ~run[o].cancelled /\ l \in Leases /\ controlLeases[l].holder = "human"
      \/ ~run[o].cancelled /\ l \in Leases /\ run' = [run EXCEPT ![o] = seen]
      \/ run' = [run EXCEPT ![o] = [run[o] EXCEPT !.pc = "ending"]]
      \/ run' = [run EXCEPT ![o] = [run[o] EXCEPT !.pc = "bound"]]
  BY RunFacts DEF Resume, To
<1> QED
  BY <1>2, <1>3, <1>4, <1>5

LEMMA PauseStep ==
    ASSUME IInv, NEW o \in Owners, Pause(o) \/ Recheck(o)
    PROVE  IInv'
<1>1. CASE Pause(o)
  BY <1>1, ResumeStep DEF Pause, Still
<1>2. CASE Recheck(o)
  BY <1>2, ResumeStep DEF Recheck, Still
<1> QED
  BY <1>1, <1>2

------------------------------------------------------------------------------
(* Admission. *)

\* A grant keeps what is known of the leases, and the owner has one.
LEMMA GrantKeeps ==
    ASSUME IInv, NEW o \in Owners, Grant(o)
    PROVE  /\ closed' = closed
           /\ LeasesOK(screenLeases, ownerLeaseIds, controlLeases, lastLease)'
           /\ \A p \in Owners :
                 RunOK(run[p], p, screenLeases', controlLeases', lastLease', closed)
           /\ \A w \in Origins : HandBackOK(handBacks[w], controlLeases', lastLease')
           /\ ResumesOK(controlLeases', resumes', closed)
           /\ \A d : DrainOK(d, screenLeases, lastLease) => DrainOK(d, screenLeases', lastLease')
           /\ Own(ownerLeaseIds'[o], o, screenLeases', lastLease')
           /\ ownerLeaseIds'[o] \in DOMAIN screenLeases'
<1>1. /\ LeasesOK(screenLeases, ownerLeaseIds, controlLeases, lastLease)
      /\ \A p \in Owners : RunOK(run[p], p, screenLeases, controlLeases, lastLease, closed)
      /\ \A w \in Origins : HandBackOK(handBacks[w], controlLeases, lastLease)
      /\ ResumesOK(controlLeases, resumes, closed)
      /\ lastLease \in Nat /\ DOMAIN controlLeases = DOMAIN screenLeases
  BY DEF IInv, LeasesOK
<1>2. CASE o \in DOMAIN ownerLeaseIds
  <2>1. UNCHANGED service
    BY <1>2 DEF Grant
  <2>2. /\ ownerLeaseIds[o] \in DOMAIN screenLeases
        /\ Own(ownerLeaseIds[o], o, screenLeases, lastLease)
    BY <1>1, <1>2 DEF LeasesOK, Own, Known
  <2> QED
    BY <1>1, <2>1, <2>2 DEF service
<1>3. CASE o \notin DOMAIN ownerLeaseIds
  <2>1. PICK s \in Free :
            /\ lastLease' = lastLease + 1
            /\ screenLeases' = With(screenLeases, lastLease + 1, NewScreenLease(s, o))
            /\ ownerLeaseIds' = With(ownerLeaseIds, o, lastLease + 1)
            /\ controlLeases' = With(controlLeases, lastLease + 1, NewControlLease(o))
            /\ UNCHANGED <<closed, resumes>>
    BY <1>3 DEF Grant, NewScreenLease, NewControlLease
  <2>2. s \in Screens /\ \A l \in DOMAIN screenLeases : screenLeases[l].screen # s
    BY DEF Free, Leases
  <2>3. LeasesOK(screenLeases, ownerLeaseIds, controlLeases, lastLease)'
    BY <1>1, <1>3, <2>1, <2>2, GrantedLeases
  <2>4. \A p \in Owners : RunOK(run[p], p, screenLeases', controlLeases', lastLease', closed)
    BY <1>1, <2>1, GrantedRun
  <2>5. \A w \in Origins : HandBackOK(handBacks[w], controlLeases', lastLease')
    BY <1>1, <2>1, GrantedHandBack
  <2>6. ResumesOK(controlLeases', resumes', closed)
    BY <1>1, <2>1, GrantedResumes
  <2>7. \A d : DrainOK(d, screenLeases, lastLease) => DrainOK(d, screenLeases', lastLease')
    BY <1>1, <2>1, GrantedDrain
  <2>8. ownerLeaseIds'[o] = lastLease'
    BY <2>1 DEF With
  <2>9. o \in DOMAIN ownerLeaseIds'
    BY <2>1 DEF With
  <2>10. /\ ownerLeaseIds'[o] \in DOMAIN screenLeases'
         /\ Own(ownerLeaseIds'[o], o, screenLeases', lastLease')
    BY <2>3, <2>9 DEF LeasesOK, Own, Known
  <2> QED
    BY <2>1, <2>3, <2>4, <2>5, <2>6, <2>7, <2>10
<1> QED
  BY <1>2, <1>3

\* The run that takes a grant.
LEMMA BoundRun ==
    ASSUME NEW r \in RunState, ~r.live, NEW l \in Nat, NEW g \in Nat, NEW o, NEW SL, NEW CL,
           NEW n, NEW phase, Own(l, o, SL, n)
    PROVE  Bound(r, l, g) \in RunState /\ RunOK(Bound(r, l, g), o, SL, CL, n, phase)
<1> DEFINE b == Bound(r, l, g)
<1>1. b \in RunState /\ ~b.live /\ b.pc = "bound" /\ b.lease = l
  BY DEF Bound, RunState, PCs, Working
<1> HIDE DEF b
<1>2. RunOK(b, o, SL, CL, n, phase)
  BY <1>1 DEF RunOK
<1> QED
  BY <1>1, <1>2 DEF b

LEMMA WaitersElsewhere ==
    ASSUME NEW ws, NEW rn, NEW rn2, WaitersOK(ws, rn),
           \A p \in Owners : rn[p].pc = "parked" => rn2[p].pc = "parked"
    PROVE  WaitersOK(ws, rn2)
<1>1. \A i \in DOMAIN ws : ws[i] \in Owners
  BY DEF WaitersOK
<1> QED
  BY <1>1 DEF WaitersOK

LEMMA AcquireStep ==
    ASSUME IInv, NEW o \in Owners, Acquire(o)
    PROVE  IInv'
<1>1. /\ run[o].pc = "asking" /\ ~run[o].live
      /\ UNCHANGED <<node, maintenance, waiters, drain, handBacks, candidates>>
  BY RunFacts DEF Acquire, RunOK
<1>2. CASE Grant(o) /\ run' = [run EXCEPT ![o] = Bound(run[o], ownerLeaseIds'[o],
                                        controlLeases'[ownerLeaseIds'[o]].generation)]
  <2> DEFINE b == Bound(run[o], ownerLeaseIds'[o], controlLeases'[ownerLeaseIds'[o]].generation)
  <2>1. /\ Own(ownerLeaseIds'[o], o, screenLeases', lastLease')
        /\ ownerLeaseIds'[o] \in DOMAIN screenLeases'
        /\ LeasesOK(screenLeases, ownerLeaseIds, controlLeases, lastLease)'
    BY <1>2, GrantKeeps
  <2>2. ownerLeaseIds'[o] \in Nat /\ controlLeases'[ownerLeaseIds'[o]].generation \in Nat
    BY <2>1 DEF LeasesOK, ControlLease, Generations
  <2>3. b \in RunState /\ RunOK(b, o, screenLeases', controlLeases', lastLease', closed)
    BY <1>1, <2>1, <2>2, BoundRun, RunFacts
  <2>4. run' = [run EXCEPT ![o] = b]
    BY <1>2
  <2> HIDE DEF b
  <2>5. /\ run' \in [Owners -> RunState] /\ \A p \in Owners : run'[p] = IF p = o THEN b ELSE run[p]
    BY <2>3, <2>4, RunFacts
  <2>6. \A p \in Owners : RunOK(run'[p], p, screenLeases', controlLeases', lastLease', closed)
    BY <1>2, <2>3, <2>5, GrantKeeps
  <2>7. WaitersOK(waiters, run')
    BY <1>1, <2>5, WaitersElsewhere DEF IInv
  <2> QED
    BY <1>1, <1>2, <2>1, <2>5, <2>6, <2>7, GrantKeeps DEF IInv
<1>3. CASE UNCHANGED service /\ \E pc \in {"announcing", "ended"} : run' = To(o, pc)
  <2>1. PICK pc \in {"announcing", "ended"} : run' = To(o, pc)
    BY <1>3
  <2>2. pc \in PCs /\ run' = [run EXCEPT ![o] = [run[o] EXCEPT !.pc = pc]] /\ Still
    BY <1>1, <1>3, <2>1, RunFacts DEF PCs, To, Still
  <2> QED
    BY <1>1, <2>2, Goes
<1> QED
  BY <1>2, <1>3 DEF Acquire, NoGrant

LEMMA ParkStep ==
    ASSUME IInv, NEW o \in Owners, Park(o)
    PROVE  IInv'
<1>1. /\ run[o].pc = "announcing" /\ ~run[o].live
      /\ UNCHANGED <<service, node, maintenance, drain, handBacks, candidates>>
  BY RunFacts DEF Park, RunOK
<1>2. CASE run' = To(o, "ended") /\ UNCHANGED waiters
  <2>1. "ended" \in PCs /\ run' = [run EXCEPT ![o] = [run[o] EXCEPT !.pc = "ended"]] /\ Still
    BY <1>1, <1>2, RunFacts DEF PCs, To, Still
  <2> QED
    BY <1>1, <2>1, Goes
<1>3. CASE run' = To(o, "parked") /\ waiters' = Append(waiters, o)
  <2> DEFINE r == [run[o] EXCEPT !.pc = "parked"]
  <2>1. r \in RunState /\ Awake(r) /\ r.lease = run[o].lease /\ r.pc = "parked"
    BY <1>1, RunFacts DEF RunState, PCs, Awake
  <2>2. run' = [run EXCEPT ![o] = r]
    BY <1>3 DEF To
  <2> HIDE DEF r
  <2>3. /\ run' \in [Owners -> RunState] /\ \A p \in Owners : run'[p] = IF p = o THEN r ELSE run[p]
    BY <2>1, <2>2, RunFacts
  <2>4. \A p \in Owners : RunOK(run'[p], p, screenLeases, controlLeases, lastLease, closed)
    BY <2>1, <2>3, RunFacts, AwakeRun
  <2>5. WaitersOK(waiters', run')
    <3>1. WaitersOK(waiters, run) /\ waiters \in Seq(Owners)
      BY DEF IInv, WaitersOK
    <3>2. /\ waiters' \in Seq(Owners) /\ DOMAIN waiters' = DOMAIN waiters \cup {Len(waiters) + 1}
          /\ waiters'[Len(waiters) + 1] = o
          /\ \A i \in DOMAIN waiters : waiters'[i] = waiters[i] /\ waiters[i] \in Owners
      BY <1>3, <3>1
    <3>3. \A i \in DOMAIN waiters : waiters[i] # o
      BY <1>1, <3>1 DEF WaitersOK
    <3> QED
      BY <2>1, <2>3, <3>1, <3>2, <3>3 DEF WaitersOK
  <2> QED
    BY <1>1, <2>3, <2>4, <2>5 DEF IInv, service
<1> QED
  BY <1>2, <1>3 DEF Park

LEMMA CancelStep ==
    ASSUME IInv, NEW o \in Owners, Cancel(o)
    PROVE  IInv'
<1> DEFINE r == [run[o] EXCEPT !.cancelled = TRUE, !.live = FALSE,
                               !.pc = CASE @ = "parked" -> "ended"
                                        [] @ \in {"bound", "paused"} -> "ending"
                                        [] OTHER -> @]
<1>1. /\ run' = [run EXCEPT ![o] = r] /\ waiters' = Drop(waiters, o)
      /\ UNCHANGED <<service, node, maintenance, drain, handBacks, candidates>>
  BY RunFacts DEF Cancel
<1>2. /\ r \in RunState /\ ~r.live /\ r.lease = run[o].lease /\ r.generation = run[o].generation
      /\ r.pc \in {run[o].pc, "ended", "ending"} /\ r.pc # "paused"
  <2>1. run[o].pc \in PCs
    BY RunFacts DEF RunState
  <2>2. (CASE run[o].pc = "parked" -> "ended"
           [] run[o].pc \in {"bound", "paused"} -> "ending"
           [] OTHER -> run[o].pc) \in (PCs \ {"paused"}) \cap {run[o].pc, "ended", "ending"}
    BY <2>1 DEF PCs, Working
  <2> QED
    BY <2>2, RunFacts DEF RunState
<1> HIDE DEF r
<1>3. RunOK(r, o, screenLeases, controlLeases, lastLease, closed)
  BY <1>2, RunFacts DEF RunOK
<1>4. /\ run' \in [Owners -> RunState] /\ \A p \in Owners : run'[p] = IF p = o THEN r ELSE run[p]
  BY <1>1, <1>2, RunFacts
<1>5. \A p \in Owners : RunOK(run'[p], p, screenLeases, controlLeases, lastLease, closed)
  BY <1>3, <1>4, RunFacts
<1>6. WaitersOK(waiters', run')
  <2>1. WaitersOK(waiters, run)
    BY DEF IInv
  <2>2. /\ waiters' \in Seq(Owners)
        /\ \A i, j \in DOMAIN waiters' : waiters'[i] = waiters'[j] => i = j
        /\ \A i \in DOMAIN waiters' :
              waiters'[i] # o /\ \E j \in DOMAIN waiters : waiters'[i] = waiters[j]
    BY <1>1, <2>1, Dropped DEF WaitersOK
  <2>3. \A i \in DOMAIN waiters' : waiters'[i] \in Owners
    BY <2>2
  <2> QED
    BY <1>4, <2>1, <2>2, <2>3 DEF WaitersOK
<1> QED
  BY <1>1, <1>4, <1>5, <1>6 DEF IInv, service

\* The pass over the waiters.
LEMMA DrainBeginsStep ==
    ASSUME IInv, DrainBegins
    PROVE  IInv'
<1>1. waiters \in Seq(Owners)
  BY DEF IInv, WaitersOK
<1>2. DrainOK(drain', screenLeases, lastLease)
  BY <1>1 DEF DrainBegins, Resting, DrainOK, DrainState
<1> QED
  BY <1>2 DEF IInv, DrainBegins, service

\* What is left of a pass is a queue of owners.
LEMMA RestingOK ==
    ASSUME NEW SL, NEW n
    PROVE  DrainOK(Resting, SL, n)
BY DEF DrainOK, DrainState, Resting

LEMMA DrainGoesOn ==
    ASSUME NEW SL, NEW n, NEW d, DrainOK(d, SL, n), d.rest # <<>>
    PROVE  /\ Head(d.rest) \in Owners
           /\ \A l \in Nat : DrainOK([d EXCEPT !.stage = "next", !.rest = Tail(@), !.lease = l], SL, n)
           /\ DrainOK([d EXCEPT !.stage = "next", !.rest = Tail(@)], SL, n)
<1>1. d \in DrainState /\ d.rest \in Seq(Owners)
  BY DEF DrainOK, DrainState
<1>2. Head(d.rest) \in Owners /\ Tail(d.rest) \in Seq(Owners)
  BY <1>1
<1> QED
  BY <1>1, <1>2 DEF DrainOK, DrainState

LEMMA DrainNextStep ==
    ASSUME IInv, DrainNext
    PROVE  IInv'
<1>1. DrainOK(drain, screenLeases, lastLease) /\ drain.stage = "next"
  BY DEF IInv, DrainNext
<1>2. CASE drain' = Resting
  BY <1>2, RestingOK DEF IInv, DrainNext, service
<1>3. CASE drain.rest # <<>> /\ drain' = [drain EXCEPT !.stage = "try"]
  <2>1. DrainOK(drain', screenLeases, lastLease)
    BY <1>1, <1>3 DEF DrainOK, DrainState
  <2> QED
    BY <2>1 DEF IInv, DrainNext, service
<1>4. CASE drain.rest # <<>> /\ drain' = [drain EXCEPT !.rest = Tail(@)]
  <2>1. drain.rest \in Seq(Owners) /\ Tail(drain.rest) \in Seq(Owners)
    BY <1>1, <1>4 DEF DrainOK, DrainState
  <2>2. DrainOK(drain', screenLeases, lastLease)
    BY <1>1, <1>4, <2>1 DEF DrainOK, DrainState
  <2> QED
    BY <2>2 DEF IInv, DrainNext, service
<1> QED
  BY <1>2, <1>3, <1>4 DEF DrainNext

LEMMA DrainTryStep ==
    ASSUME IInv, DrainTry
    PROVE  IInv'
<1> DEFINE o == Head(drain.rest)
<1>1. /\ DrainOK(drain, screenLeases, lastLease) /\ drain \in DrainState
      /\ drain.rest # <<>> /\ o \in Owners
      /\ UNCHANGED <<node, maintenance, waiters, handBacks, candidates, run>>
  <2>1. DrainOK(drain, screenLeases, lastLease) /\ drain.stage = "try"
    BY DEF IInv, DrainTry
  <2>2. drain \in DrainState /\ drain.rest # <<>>
    BY <2>1 DEF DrainOK
  <2> QED
    BY <2>1, <2>2, DrainGoesOn DEF DrainTry
<1> HIDE DEF o
<1>2. CASE Grant(o) /\ drain' = [drain EXCEPT !.stage = "granted", !.lease = ownerLeaseIds'[o]]
  <2>1. /\ Own(ownerLeaseIds'[o], o, screenLeases', lastLease')
        /\ ownerLeaseIds'[o] \in DOMAIN screenLeases'
        /\ LeasesOK(screenLeases, ownerLeaseIds, controlLeases, lastLease)'
    BY <1>1, <1>2, GrantKeeps
  <2>2. ownerLeaseIds'[o] \in Nat
    BY <2>1 DEF LeasesOK
  <2>3. /\ drain' \in DrainState /\ drain'.rest = drain.rest /\ drain'.lease = ownerLeaseIds'[o]
    BY <1>1, <1>2, <2>2 DEF DrainState
  <2>4. DrainOK(drain', screenLeases', lastLease')
    BY <1>1, <2>1, <2>3 DEF DrainOK, o
  <2> QED
    BY <1>1, <1>2, <2>1, <2>4, GrantKeeps DEF IInv
<1>3. CASE UNCHANGED service /\ drain' = [drain EXCEPT !.stage = "next", !.rest = Tail(@)]
  <2>1. DrainOK(drain', screenLeases, lastLease)
    BY <1>1, <1>3, DrainGoesOn
  <2> QED
    BY <1>1, <1>3, <2>1 DEF IInv, service
<1>4. CASE UNCHANGED service /\ drain' = Resting
  BY <1>1, <1>4, RestingOK DEF IInv, service
<1> QED
  BY <1>2, <1>3, <1>4 DEF DrainTry, NoGrant, o

LEMMA DrainGrantedStep ==
    ASSUME IInv, DrainGranted
    PROVE  IInv'
<1> DEFINE o == Head(drain.rest)
<1>1. /\ DrainOK(drain, screenLeases, lastLease) /\ drain.rest # <<>> /\ o \in Owners
      /\ Own(drain.lease, o, screenLeases, lastLease) /\ drain.lease \in Nat
      /\ UNCHANGED <<service, node, maintenance, handBacks, candidates>>
      /\ drain' = [drain EXCEPT !.stage = "next", !.rest = Tail(@), !.lease = 0]
      /\ waiters' = Drop(waiters, o)
  <2>1. DrainOK(drain, screenLeases, lastLease) /\ drain.stage = "granted"
    BY DEF IInv, DrainGranted
  <2>2. drain \in DrainState /\ drain.rest # <<>> /\ Own(drain.lease, o, screenLeases, lastLease)
    BY <2>1 DEF DrainOK
  <2>3. drain.lease \in Nat
    BY <2>2 DEF DrainState
  <2> QED
    BY <2>1, <2>2, <2>3, DrainGoesOn DEF DrainGranted
<1>2. DrainOK(drain', screenLeases, lastLease)
  BY <1>1, DrainGoesOn
<1>3. run' = IF Parked(o) THEN [run EXCEPT ![o] = Bound(run[o], drain.lease, 1)] ELSE run
  BY RunFacts, <1>1 DEF DrainGranted
<1> HIDE DEF o
<1>4. /\ WaitersOK(waiters, run) /\ waiters' \in Seq(Owners)
      /\ \A i, j \in DOMAIN waiters' : waiters'[i] = waiters'[j] => i = j
      /\ \A i \in DOMAIN waiters' :
            waiters'[i] # o /\ \E j \in DOMAIN waiters : waiters'[i] = waiters[j]
  BY <1>1, Dropped DEF IInv, WaitersOK
<1>5. Parked(o) => run[o].pc = "parked"
  BY <1>4 DEF Parked, WaitersOK
<1>6. /\ run' \in [Owners -> RunState]
      /\ \A p \in Owners : RunOK(run'[p], p, screenLeases, controlLeases, lastLease, closed)
      /\ \A p \in Owners : p # o => run'[p] = run[p]
  <2>1. CASE Parked(o)
    <3> DEFINE b == Bound(run[o], drain.lease, 1)
    <3>1. ~run[o].live
      BY <1>1, <1>5, <2>1, RunFacts DEF RunOK
    <3>2. b \in RunState /\ RunOK(b, o, screenLeases, controlLeases, lastLease, closed)
      BY <1>1, <3>1, BoundRun, RunFacts
    <3>3. run' = [run EXCEPT ![o] = b]
      BY <1>3, <2>1
    <3> HIDE DEF b
    <3> QED
      BY <1>1, <3>2, <3>3, RunFacts
  <2>2. CASE ~Parked(o)
    BY <1>1, <1>3, <2>2, RunFacts
  <2> QED
    BY <2>1, <2>2
<1>7. WaitersOK(waiters', run')
  <2>1. \A i \in DOMAIN waiters' : waiters'[i] \in Owners /\ waiters'[i] # o
    BY <1>4
  <2>2. \A i \in DOMAIN waiters' : run[waiters'[i]].pc = "parked"
    BY <1>4 DEF WaitersOK
  <2>3. \A i \in DOMAIN waiters' : run'[waiters'[i]].pc = "parked"
    BY <1>6, <2>1, <2>2
  <2> QED
    BY <1>4, <2>3 DEF WaitersOK
<1> QED
  BY <1>1, <1>2, <1>6, <1>7 DEF IInv, service

------------------------------------------------------------------------------
(* The lifetime of a lease. *)

\* The tables after the leases of S are released.
Freed(S) ==
    /\ resumes' = Without(resumes, S)
    /\ screenLeases' = Without(screenLeases, S)
    /\ ownerLeaseIds' = Without(ownerLeaseIds, Losers(screenLeases, S))
    /\ controlLeases' = Without(controlLeases, S)
    /\ lastLease' = lastLease

LEMMA FreedKeeps ==
    ASSUME IInv, NEW S \in SUBSET Leases, Freed(S)
    PROVE  /\ LeasesOK(screenLeases, ownerLeaseIds, controlLeases, lastLease)'
           /\ \A w \in Origins : HandBackOK(handBacks[w], controlLeases', lastLease')
           /\ ResumesOK(controlLeases', resumes', closed)
           /\ DrainOK(drain, screenLeases', lastLease')
<1>1. /\ LeasesOK(screenLeases, ownerLeaseIds, controlLeases, lastLease)
      /\ S \in SUBSET DOMAIN screenLeases
      /\ \A w \in Origins : HandBackOK(handBacks[w], controlLeases, lastLease)
      /\ ResumesOK(controlLeases, resumes, closed)
      /\ DrainOK(drain, screenLeases, lastLease)
  BY DEF IInv, Leases
<1>2. LeasesOK(screenLeases, ownerLeaseIds, controlLeases, lastLease)'
  BY <1>1, ReleasedLeases DEF Freed
<1>3. \A w \in Origins : HandBackOK(handBacks[w], controlLeases', lastLease')
  BY <1>1, ReleasedHandBack DEF Freed
<1>4. ResumesOK(controlLeases', resumes', closed)
  BY <1>1, ReleasedResumes DEF Freed
<1>5. DrainOK(drain, screenLeases', lastLease')
  BY <1>1, ReleasedDrain DEF Freed
<1> QED
  BY <1>2, <1>3, <1>4, <1>5

\* What becomes of the runs.
LEMMA InterruptedRuns ==
    ASSUME IInv, NEW S \in SUBSET Leases, Freed(S), NEW p \in Owners
    PROVE  /\ Interrupted(run[p], S) \in RunState
           /\ RunOK(Interrupted(run[p], S), p, screenLeases', controlLeases', lastLease', closed)
           /\ run[p].pc # "paused" => Interrupted(run[p], S).pc = run[p].pc
BY RunFacts, ReleasedRun DEF Freed, Leases

LEMMA FreedStep ==
    ASSUME IInv, NEW S \in SUBSET Leases, Freed(S),
           run' = [o \in Owners |-> Interrupted(run[o], S)],
           UNCHANGED <<closed, maintenance, waiters, drain, handBacks, candidates>>,
           node' \in {"online", "degraded", "absent"}
    PROVE  IInv'
<1>1. /\ run' \in [Owners -> RunState]
      /\ \A p \in Owners : RunOK(run'[p], p, screenLeases', controlLeases', lastLease', closed)
      /\ \A p \in Owners : run[p].pc = "parked" => run'[p].pc = "parked"
  BY InterruptedRuns
<1>2. WaitersOK(waiters, run')
  BY <1>1, WaitersElsewhere DEF IInv
<1> QED
  BY <1>1, <1>2, FreedKeeps DEF IInv

LEMMA ExpireStep ==
    ASSUME IInv, Expire
    PROVE  IInv'
<1> DEFINE S == {l \in Leases : screenLeases[l].lapsed}
<1>1. Freed(S) /\ run' = [o \in Owners |-> Interrupted(run[o], S)]
  BY DEF Expire, ReleaseAll, Freed, Losers
<1>2. S \in SUBSET Leases
  OBVIOUS
<1> HIDE DEF S
<1> QED
  BY <1>1, <1>2, FreedStep DEF Expire, IInv

LEMMA UnregisterStep ==
    ASSUME IInv, NEW force, Unregister(force)
    PROVE  IInv'
<1>1. Freed(Leases) /\ run' = [o \in Owners |-> Interrupted(run[o], Leases)]
  BY DEF Unregister, ReleaseAll, Freed, Losers
<1> QED
  BY <1>1, FreedStep DEF Unregister

LEMMA AskStep ==
    ASSUME IInv, NEW o \in Owners, Ask(o)
    PROVE  IInv'
<1> DEFINE S == {l \in Leases : screenLeases[l].lapsed}
           q(p) == Interrupted(run[p], S)
           r == [q(o) EXCEPT !.pc = "asking"]
<1>1. Freed(S) /\ run' = [[p \in Owners |-> q(p)] EXCEPT ![o].pc = "asking"]
  BY DEF Ask, Freed, Losers
<1>2. S \in SUBSET Leases
  OBVIOUS
<1>3. \A p \in Owners : run'[p] = IF p = o THEN r ELSE q(p)
  BY <1>1
<1>4. DOMAIN run' = Owners /\ run' = [p \in Owners |-> run'[p]]
  BY <1>1
<1> HIDE DEF S
<1>5. \A p \in Owners :
         /\ q(p) \in RunState
         /\ RunOK(q(p), p, screenLeases', controlLeases', lastLease', closed)
         /\ run[p].pc = "parked" => q(p).pc = "parked"
  BY <1>1, <1>2, InterruptedRuns
<1>6. run[o].pc = "idle" /\ q(o).pc = "idle"
  BY <1>1, <1>2, InterruptedRuns DEF Ask
<1>7. ~q(o).live
  BY <1>5, <1>6 DEF RunOK
<1> HIDE DEF q
<1>8. r \in RunState /\ Awake(r) /\ r.lease = q(o).lease
  BY <1>5, <1>7 DEF RunState, PCs, Awake
<1>9. RunOK(r, o, screenLeases', controlLeases', lastLease', closed)
  BY <1>5, <1>8, AwakeRun
<1> HIDE DEF r
<1>10. /\ run' \in [Owners -> RunState]
       /\ \A p \in Owners : RunOK(run'[p], p, screenLeases', controlLeases', lastLease', closed)
       /\ \A p \in Owners : run[p].pc = "parked" => run'[p].pc = "parked"
  BY <1>3, <1>4, <1>5, <1>6, <1>8, <1>9
<1>11. WaitersOK(waiters, run')
  BY <1>10, WaitersElsewhere DEF IInv
<1> QED
  BY <1>1, <1>2, <1>10, <1>11, FreedKeeps DEF IInv, Ask

\* A run whose lease stays.
LEMMA ElsewhereRun ==
    ASSUME NEW SL, NEW CL, NEW n, NEW phase, NEW S, DOMAIN CL = DOMAIN SL,
           NEW o, NEW r, RunOK(r, o, SL, CL, n, phase), r.lease \notin S
    PROVE  RunOK(r, o, Without(SL, S), Without(CL, S), n, phase)
<1> DEFINE SL2 == Without(SL, S)
           CL2 == Without(CL, S)
<1>1. /\ DOMAIN SL2 = DOMAIN SL \ S
      /\ \A x : x \in DOMAIN SL /\ x \notin S => SL2[x] = SL[x]
  BY WithoutRows
<1>2. \A x : x \in DOMAIN CL /\ x \notin S => CL2[x] = CL[x]
  BY WithoutRows
<1>3. Own(r.lease, o, SL2, n)
  BY <1>1 DEF RunOK, Own
<1> HIDE DEF SL2, CL2
<1>4. RunOK(r, o, SL2, CL2, n, phase)
  BY <1>1, <1>2, <1>3 DEF RunOK
<1> QED
  BY <1>4 DEF SL2, CL2

LEMMA EndStep ==
    ASSUME IInv, NEW o \in Owners, End(o)
    PROVE  IInv'
<1> DEFINE l == run[o].lease
           r == [run[o] EXCEPT !.pc = "ended"]
<1>1. /\ run' = [run EXCEPT ![o] = r] /\ run[o].pc \in {"ending", "bound"}
      /\ UNCHANGED <<closed, lastLease, node, maintenance, waiters, drain, handBacks, candidates>>
  BY DEF End, To
<1>2. ~run[o].live
  BY <1>1, RunFacts DEF RunOK
<1>3. r \in RunState /\ Awake(r) /\ r.lease = l
  BY <1>2, RunFacts DEF RunState, PCs, Awake
<1>4. CASE UNCHANGED <<resumes, screenLeases, ownerLeaseIds, controlLeases>>
  <2>1. Still
    BY <1>1, <1>4 DEF Still, service
  <2>2. "ended" \in PCs
    BY DEF PCs
  <2> QED
    BY <1>1, <1>2, <2>1, <2>2, Goes
<1>5. CASE /\ l \in Leases
           /\ resumes' = Without(resumes, {l})
           /\ screenLeases' = Without(screenLeases, {l})
           /\ ownerLeaseIds' = Without(ownerLeaseIds, {o})
           /\ controlLeases' = Without(controlLeases, {l})
  <2>1. screenLeases[l].owner = o
    BY <1>5, RunFacts DEF RunOK, Own, Leases
  <2>2. Freed({l}) /\ {l} \in SUBSET Leases
    BY <1>1, <1>5, <2>1 DEF Freed, Losers
  <2>3. \A p \in Owners : p # o => run[p].lease # l
    BY <1>5, <2>1, RunFacts DEF RunOK, Own, Leases
  <2> HIDE DEF l, r
  <2>4. \A p \in Owners : p # o =>
            RunOK(run[p], p, screenLeases', controlLeases', lastLease', closed)
    <3>1. SUFFICES ASSUME NEW p \in Owners, p # o
                   PROVE  RunOK(run[p], p, screenLeases', controlLeases', lastLease', closed)
      OBVIOUS
    <3>2. run[p].lease \notin {l}
      BY <2>3, <3>1
    <3> QED
      BY <1>1, <1>5, <3>2, ElsewhereRun, RunFacts DEF Leases
  <2>5. RunOK(run[o], o, screenLeases, controlLeases, lastLease, closed)
    BY RunFacts
  <2>6. RunOK(r, o, screenLeases', controlLeases', lastLease', closed)
    <3>1. Own(r.lease, o, screenLeases', lastLease')
      BY <1>1, <1>3, <1>5, <2>5, ReleasedOwn DEF RunOK, l
    <3> QED
      BY <1>3, <3>1 DEF RunOK, Awake
  <2>7. /\ run' \in [Owners -> RunState]
        /\ \A p \in Owners : RunOK(run'[p], p, screenLeases', controlLeases', lastLease', closed)
        /\ \A p \in Owners : run[p].pc = "parked" => run'[p].pc = "parked"
    BY <1>1, <1>3, <2>4, <2>6, RunFacts
  <2>8. WaitersOK(waiters, run')
    BY <2>7, WaitersElsewhere DEF IInv
  <2> QED
    BY <1>1, <2>2, <2>7, <2>8, FreedKeeps DEF IInv
<1> QED
  BY <1>4, <1>5 DEF End

\* The end of a lease's time, or its renewal, changes nothing else of it.
LEMMA LapsedFlag ==
    ASSUME IInv, NEW l \in Leases, NEW flag \in BOOLEAN,
           screenLeases' = [screenLeases EXCEPT ![l].lapsed = flag],
           UNCHANGED <<closed, ownerLeaseIds, controlLeases, resumes, lastLease, node, maintenance,
                       waiters, drain, handBacks, candidates, run>>
    PROVE  IInv'
<1>1. LeasesOK(screenLeases, ownerLeaseIds, controlLeases, lastLease)
  BY DEF IInv
<1>2. /\ DOMAIN screenLeases' = DOMAIN screenLeases
      /\ screenLeases' \in [DOMAIN screenLeases -> ScreenLease]
      /\ \A k \in DOMAIN screenLeases : /\ screenLeases'[k].owner = screenLeases[k].owner
                                        /\ screenLeases'[k].screen = screenLeases[k].screen
  <2>1. screenLeases \in [DOMAIN screenLeases -> ScreenLease]
    BY <1>1 DEF LeasesOK
  <2>2. [screenLeases[l] EXCEPT !.lapsed = flag] \in ScreenLease
    BY <2>1 DEF ScreenLease, Leases
  <2>3. /\ [screenLeases[l] EXCEPT !.lapsed = flag].owner = screenLeases[l].owner
        /\ [screenLeases[l] EXCEPT !.lapsed = flag].screen = screenLeases[l].screen
    BY <2>1 DEF ScreenLease, Leases
  <2> QED
    BY <2>1, <2>2, <2>3
<1>3. LeasesOK(screenLeases', ownerLeaseIds, controlLeases, lastLease)
  BY <1>1, <1>2 DEF LeasesOK
<1>4. \A k, o : Own(k, o, screenLeases, lastLease) => Own(k, o, screenLeases', lastLease)
  BY <1>2 DEF Own
<1>5. \A o \in Owners : RunOK(run[o], o, screenLeases', controlLeases, lastLease, closed)
  <2>1. \A o \in Owners : RunOK(run[o], o, screenLeases, controlLeases, lastLease, closed)
    BY DEF IInv
  <2> QED
    BY <1>2, <1>4, <2>1 DEF RunOK
<1>6. DrainOK(drain, screenLeases', lastLease)
  BY <1>4 DEF IInv, DrainOK
<1> QED
  BY <1>3, <1>5, <1>6 DEF IInv

LEMMA LapseStep ==
    ASSUME IInv, NEW l \in Leases, Lapse(l)
    PROVE  IInv'
BY LapsedFlag DEF Lapse

LEMMA RenewStep ==
    ASSUME IInv, NEW o \in Owners, Renew(o)
    PROVE  IInv'
BY LapsedFlag DEF Renew

------------------------------------------------------------------------------
(* Control. *)

\* Control of lease l becomes c, at a later generation: pending actions are
\* aborted unless none is possible, and no earlier hand-back can complete.
LEMMA ControlMoves ==
    ASSUME IInv, NEW l \in Leases, NEW c \in ControlLease,
           c.holder = "human", c.generation >= controlLeases[l].generation,
           controlLeases' = [controlLeases EXCEPT ![l] = c],
           \A o \in Owners :
               run[o].lease = l /\ run'[o] = run[o] /\ closed = "open" => ~run[o].live,
           \A o \in Owners : run'[o] \in {run[o], [run[o] EXCEPT !.live = FALSE]},
           run' = [o \in Owners |-> run'[o]],
           \A k : k \in DOMAIN resumes /\ k # l => k \in DOMAIN resumes' /\ resumes'[k] = resumes[k],
           handBacks' \in [Origins -> HandBackState],
           \A w \in Origins : HandBackOK(handBacks'[w], controlLeases', lastLease),
           candidates' \subseteq [lease : Nat, by : Owners \cup Humans],
           UNCHANGED <<closed, screenLeases, ownerLeaseIds, lastLease, node, maintenance,
                       waiters, drain>>
    PROVE  IInv'
<1>1. /\ LeasesOK(screenLeases, ownerLeaseIds, controlLeases, lastLease)
      /\ controlLeases \in [DOMAIN screenLeases -> ControlLease] /\ l \in DOMAIN screenLeases
  BY DEF IInv, LeasesOK, Leases
<1>2. LeasesOK(screenLeases, ownerLeaseIds, controlLeases', lastLease)
  BY <1>1, ChangedLeases
<1>3. ASSUME NEW o \in Owners
      PROVE  /\ run'[o] \in RunState /\ run'[o].pc = run[o].pc
             /\ RunOK(run'[o], o, screenLeases, controlLeases', lastLease, closed)
  <2> DEFINE q == [run[o] EXCEPT !.live = FALSE]
  <2>1. run[o] \in RunState /\ RunOK(run[o], o, screenLeases, controlLeases, lastLease, closed)
    BY RunFacts
  <2>2. CASE run'[o] = run[o]
    <3>1. RunOK(run[o], o, screenLeases, controlLeases', lastLease, closed)
      BY <1>1, <2>1, <2>2, ChangedRun
    <3> QED
      BY <2>1, <2>2, <3>1
  <2>3. CASE run'[o] = q
    <3>1. /\ q \in RunState /\ ~q.live /\ q.pc = run[o].pc /\ q.lease = run[o].lease
          /\ q.generation = run[o].generation
      BY <2>1 DEF RunState
    <3> HIDE DEF q
    <3>2. RunOK(q, o, screenLeases, controlLeases, lastLease, closed)
      BY <2>1, <3>1 DEF RunOK
    <3>3. RunOK(q, o, screenLeases, controlLeases', lastLease, closed)
      BY <1>1, <3>1, <3>2, ChangedRun
    <3> QED
      BY <2>3, <3>1, <3>3
  <2> QED
    BY <2>2, <2>3
<1>4. run' \in [Owners -> RunState]
  BY <1>3
<1>5. WaitersOK(waiters, run')
  BY <1>3, WaitersElsewhere DEF IInv
<1>6. ResumesOK(controlLeases', resumes', closed)
  BY ChangedResumes DEF IInv
<1> QED
  BY <1>2, <1>3, <1>4, <1>5, <1>6 DEF IInv

LEMMA GenerationType ==
    ASSUME NEW c \in ControlLease
    PROVE  c.generation \in Nat /\ c.generation >= 1
BY DEF ControlLease, Generations

\* Control passes to a human, who uses the screen and then rests.
LEMMA HumanControl ==
    ASSUME NEW c \in ControlLease, NEW h \in Humans, NEW manual \in BOOLEAN
    PROVE  [holder |-> "human", by |-> h, generation |-> c.generation + 1,
            idle |-> FALSE, manual |-> manual] \in ControlLease
BY GenerationType DEF ControlLease, Generations

LEMMA ActiveControl ==
    ASSUME NEW c \in ControlLease
    PROVE  LET d == [c EXCEPT !.generation = @ + 1, !.idle = FALSE]
           IN  /\ d \in ControlLease /\ d.holder = c.holder
               /\ d.generation = c.generation + 1
<1>1. c.generation + 1 \in Generations
  BY GenerationType DEF Generations
<1> QED
  BY <1>1 DEF ControlLease

LEMMA IdleControl ==
    ASSUME NEW c \in ControlLease
    PROVE  LET d == [c EXCEPT !.idle = TRUE]
           IN  d \in ControlLease /\ d.holder = c.holder /\ d.generation = c.generation
BY DEF ControlLease

LEMMA ControlFacts ==
    ASSUME IInv, NEW l \in Leases
    PROVE  /\ controlLeases[l] \in ControlLease /\ controlLeases[l].generation \in Nat
           /\ controlLeases \in [DOMAIN controlLeases -> ControlLease]
           /\ DOMAIN controlLeases = Leases
<1>1. LeasesOK(screenLeases, ownerLeaseIds, controlLeases, lastLease)
  BY DEF IInv
<1>2. /\ controlLeases \in [DOMAIN controlLeases -> ControlLease]
      /\ DOMAIN controlLeases = Leases
  BY <1>1 DEF LeasesOK, Leases
<1>3. controlLeases[l] \in ControlLease
  BY <1>2
<1> QED
  BY <1>2, <1>3, GenerationType

\* The agent has no action under way while a human has control.
LEMMA HumanAlone ==
    ASSUME IInv, closed = "open", NEW l \in Leases, controlLeases[l].holder = "human",
           NEW o \in Owners, run[o].lease = l
    PROVE  ~run[o].live
BY RunFacts DEF RunOK

\* The actions under lease l are aborted.
LEMMA AbortedRun ==
    ASSUME NEW r \in RunState, NEW l
    PROVE  LET q == [r EXCEPT !.live = @ /\ r.lease # l]
           IN  /\ q \in {r, [r EXCEPT !.live = FALSE]}
               /\ r.lease = l => ~q.live
<1> DEFINE q == [r EXCEPT !.live = r.live /\ r.lease # l]
<1>1. CASE r.lease = l
  <2>1. (r.live /\ r.lease # l) = FALSE
    BY <1>1
  <2>2. q = [r EXCEPT !.live = FALSE]
    BY <2>1
  <2>3. ~q.live
    BY <2>2 DEF RunState
  <2> QED
    BY <2>2, <2>3
<1>2. CASE r.lease # l
  <2>1. r.live \in BOOLEAN
    BY DEF RunState
  <2>2. (r.live /\ r.lease # l) = r.live
    BY <1>2, <2>1
  <2>3. q = [r EXCEPT !.live = r.live]
    BY <2>2
  <2>4. q = r
    BY <2>3 DEF RunState
  <2> QED
    BY <1>2, <2>4
<1> QED
  BY <1>1, <1>2

LEMMA AbortedRuns ==
    ASSUME IInv, NEW l,
           run' = [o \in Owners |-> [run[o] EXCEPT !.live = @ /\ run[o].lease # l]]
    PROVE  /\ run' = [o \in Owners |-> run'[o]]
           /\ \A o \in Owners : run'[o] \in {run[o], [run[o] EXCEPT !.live = FALSE]}
           /\ \A o \in Owners : run[o].lease = l /\ run'[o] = run[o] => ~run[o].live
<1>1. /\ run' = [o \in Owners |-> run'[o]]
      /\ \A o \in Owners : run'[o] = [run[o] EXCEPT !.live = @ /\ run[o].lease # l]
  OBVIOUS
<1>2. \A o \in Owners : /\ run'[o] \in {run[o], [run[o] EXCEPT !.live = FALSE]}
                        /\ run[o].lease = l => ~run'[o].live
  BY <1>1, AbortedRun, RunFacts
<1> QED
  BY <1>1, <1>2

\* The hand-backs of lease l are out of date once its generation moved on.
LEMMA StaleHandBacks ==
    ASSUME IInv, NEW l \in Leases, NEW c \in ControlLease,
           c.generation > controlLeases[l].generation,
           controlLeases' = [controlLeases EXCEPT ![l] = c],
           handBacks' = [w \in Origins |->
               IF handBacks[w].lease = l THEN [handBacks[w] EXCEPT !.fresh = FALSE]
                                         ELSE handBacks[w]]
    PROVE  /\ handBacks' \in [Origins -> HandBackState]
           /\ \A w \in Origins : HandBackOK(handBacks'[w], controlLeases', lastLease)
<1> SUFFICES ASSUME NEW w \in Origins
             PROVE  /\ handBacks'[w] \in HandBackState
                    /\ HandBackOK(handBacks'[w], controlLeases', lastLease)
  OBVIOUS
<1> DEFINE b == handBacks[w]
<1>1. /\ controlLeases \in [DOMAIN controlLeases -> ControlLease] /\ l \in DOMAIN controlLeases
      /\ b \in HandBackState /\ HandBackOK(b, controlLeases, lastLease)
      /\ controlLeases[l].generation \in Nat /\ c.generation \in Nat
  <2>1. b \in HandBackState /\ HandBackOK(b, controlLeases, lastLease)
    BY DEF IInv
  <2> HIDE DEF b
  <2> QED
    BY <2>1, ControlFacts, GenerationType
<1>2. CASE b.lease = l
  <2>1. handBacks'[w] = [b EXCEPT !.fresh = FALSE]
    BY <1>2
  <2>2. c.generation >= controlLeases[l].generation
    BY <1>1
  <2> HIDE DEF b
  <2>3. /\ [b EXCEPT !.fresh = FALSE] \in HandBackState
        /\ HandBackOK([b EXCEPT !.fresh = FALSE], [controlLeases EXCEPT ![l] = c], lastLease)
    BY <1>1, <1>2, <2>2, ChangedHandBack
  <2> QED
    BY <2>1, <2>3
<1>3. CASE b.lease # l
  <2>1. handBacks'[w] = b
    BY <1>3
  <2> HIDE DEF b
  <2>2. \A k \in DOMAIN controlLeases : k # l => controlLeases'[k] = controlLeases[k]
    BY <1>1
  <2>3. DOMAIN controlLeases' = DOMAIN controlLeases
    BY <1>1
  <2> QED
    BY <1>1, <1>3, <2>1, <2>2, <2>3 DEF HandBackOK
<1> QED
  BY <1>2, <1>3

LEMMA TakeOverStep ==
    ASSUME IInv, NEW h \in Humans, NEW l \in Leases, NEW manual \in BOOLEAN,
           TakeOver(h, l, manual)
    PROVE  IInv'
<1> DEFINE c == [holder |-> "human", by |-> h, generation |-> controlLeases[l].generation + 1,
                 idle |-> FALSE, manual |-> manual]
<1>1. controlLeases[l] \in ControlLease /\ controlLeases[l].generation \in Nat
  BY ControlFacts
<1>2. /\ c \in ControlLease /\ c.holder = "human" /\ c.generation > controlLeases[l].generation
      /\ c.generation >= controlLeases[l].generation
  <2>1. c \in ControlLease
    BY <1>1, HumanControl
  <2>2. c.holder = "human" /\ c.generation = controlLeases[l].generation + 1
    OBVIOUS
  <2> HIDE DEF c
  <2> QED
    BY <1>1, <2>1, <2>2
<1>3. controlLeases' = [controlLeases EXCEPT ![l] = c]
  BY DEF TakeOver
<1> HIDE DEF c
<1>4. /\ handBacks' \in [Origins -> HandBackState]
      /\ \A w \in Origins : HandBackOK(handBacks'[w], controlLeases', lastLease)
  BY <1>2, <1>3, StaleHandBacks DEF TakeOver
<1>5. /\ run' = [o \in Owners |-> run'[o]]
      /\ \A o \in Owners : run'[o] \in {run[o], [run[o] EXCEPT !.live = FALSE]}
      /\ \A o \in Owners : run[o].lease = l /\ run'[o] = run[o] => ~run[o].live
  BY AbortedRuns DEF TakeOver
<1>6. \A k : k \in DOMAIN resumes /\ k # l => k \in DOMAIN resumes' /\ resumes'[k] = resumes[k]
  <2>1. resumes' = Without(resumes, {l})
    BY DEF TakeOver
  <2> QED
    BY <2>1 DEF Without, Restrict
<1>7. candidates' \subseteq [lease : Nat, by : Owners \cup Humans]
  BY DEF TakeOver, IInv
<1>8. UNCHANGED <<closed, screenLeases, ownerLeaseIds, lastLease, node, maintenance, waiters, drain>>
  BY DEF TakeOver
<1> QED
  BY <1>2, <1>3, <1>4, <1>5, <1>6, <1>7, <1>8, ControlMoves

LEMMA HumanActsStep ==
    ASSUME IInv, NEW h \in Humans, NEW l \in Leases, HumanActs(h, l)
    PROVE  IInv'
<1> DEFINE c == [controlLeases[l] EXCEPT !.generation = @ + 1, !.idle = FALSE]
<1>1. /\ controlLeases[l] \in ControlLease /\ controlLeases[l].generation \in Nat
      /\ controlLeases[l].holder = "human"
  BY ControlFacts DEF HumanActs
<1>2. /\ c \in ControlLease /\ c.holder = "human" /\ c.generation > controlLeases[l].generation
      /\ c.generation >= controlLeases[l].generation
  <2>1. /\ c \in ControlLease /\ c.holder = controlLeases[l].holder
        /\ c.generation = controlLeases[l].generation + 1
    BY <1>1, ActiveControl
  <2> QED
    BY <1>1, <2>1
<1>3. controlLeases' = [controlLeases EXCEPT ![l] = c]
  BY DEF HumanActs
<1> HIDE DEF c
<1>4. /\ handBacks' \in [Origins -> HandBackState]
      /\ \A w \in Origins : HandBackOK(handBacks'[w], controlLeases', lastLease)
  BY <1>2, <1>3, StaleHandBacks DEF HumanActs
<1>5. /\ run' = [o \in Owners |-> run'[o]] /\ \A o \in Owners : run'[o] = run[o]
      /\ \A o \in Owners :
            run[o].lease = l /\ run'[o] = run[o] /\ closed = "open" => ~run[o].live
  <2>1. run' = run /\ run \in [Owners -> RunState]
    BY DEF HumanActs, IInv
  <2>2. \A o \in Owners : run[o].lease = l /\ closed = "open" => ~run[o].live
    BY <1>1, HumanAlone
  <2> QED
    BY <2>1, <2>2
<1>6. candidates' \subseteq [lease : Nat, by : Owners \cup Humans] /\ resumes' = resumes
  BY DEF HumanActs, IInv
<1>7. UNCHANGED <<closed, screenLeases, ownerLeaseIds, lastLease, node, maintenance, waiters, drain>>
  BY DEF HumanActs
<1> QED
  BY <1>2, <1>3, <1>4, <1>5, <1>6, <1>7, ControlMoves

LEMMA GoesIdleStep ==
    ASSUME IInv, NEW l \in Leases, GoesIdle(l)
    PROVE  IInv'
<1> DEFINE c == [controlLeases[l] EXCEPT !.idle = TRUE]
<1>1. /\ controlLeases[l] \in ControlLease /\ controlLeases[l].generation \in Nat
      /\ controlLeases[l].holder = "human"
  BY ControlFacts DEF GoesIdle
<1>2. /\ c \in ControlLease /\ c.holder = "human" /\ c.generation = controlLeases[l].generation
      /\ c.generation >= controlLeases[l].generation
  <2>1. /\ c \in ControlLease /\ c.holder = controlLeases[l].holder
        /\ c.generation = controlLeases[l].generation
    BY <1>1, IdleControl
  <2> QED
    BY <1>1, <2>1
<1>3. controlLeases' = [controlLeases EXCEPT ![l] = c]
  BY DEF GoesIdle
<1> HIDE DEF c
<1>4. /\ handBacks' \in [Origins -> HandBackState]
      /\ \A w \in Origins : HandBackOK(handBacks'[w], controlLeases', lastLease)
  <2>1. \A k \in DOMAIN controlLeases : controlLeases'[k].generation = controlLeases[k].generation
    BY <1>2, <1>3
  <2>2. DOMAIN controlLeases' = DOMAIN controlLeases
    BY <1>3
  <2>3. /\ handBacks' = handBacks /\ handBacks \in [Origins -> HandBackState]
        /\ \A w \in Origins : HandBackOK(handBacks[w], controlLeases, lastLease)
    BY DEF GoesIdle, IInv
  <2> QED
    BY <2>1, <2>2, <2>3 DEF HandBackOK
<1>5. /\ run' = [o \in Owners |-> run'[o]] /\ \A o \in Owners : run'[o] = run[o]
      /\ \A o \in Owners :
            run[o].lease = l /\ run'[o] = run[o] /\ closed = "open" => ~run[o].live
  <2>1. run' = run /\ run \in [Owners -> RunState]
    BY DEF GoesIdle, IInv
  <2>2. \A o \in Owners : run[o].lease = l /\ closed = "open" => ~run[o].live
    BY <1>1, HumanAlone
  <2> QED
    BY <2>1, <2>2
<1>6. candidates' \subseteq [lease : Nat, by : Owners \cup Humans] /\ resumes' = resumes
  BY DEF GoesIdle, IInv
<1>7. UNCHANGED <<closed, screenLeases, ownerLeaseIds, lastLease, node, maintenance, waiters, drain>>
  BY DEF GoesIdle
<1> QED
  BY <1>2, <1>3, <1>4, <1>5, <1>6, <1>7, ControlMoves

\* A later generation overtakes any hand-back.
LEMMA OvertakenHandBack ==
    ASSUME NEW CL, CL \in [DOMAIN CL -> ControlLease], NEW n,
           NEW b \in HandBackState, HandBackOK(b, CL, n),
           NEW l \in DOMAIN CL, NEW c \in ControlLease,
           c.generation > CL[l].generation
    PROVE  HandBackOK(b, [CL EXCEPT ![l] = c], n)
<1>1. /\ DOMAIN [CL EXCEPT ![l] = c] = DOMAIN CL
      /\ \A k \in DOMAIN CL : [CL EXCEPT ![l] = c][k] = IF k = l THEN c ELSE CL[k]
  OBVIOUS
<1>2. b.generation \in Nat /\ c.generation \in Nat /\ CL[l].generation \in Nat
  <2>1. CL[l] \in ControlLease
    OBVIOUS
  <2> QED
    BY <2>1, GenerationType DEF HandBackState
<1> QED
  BY <1>1, <1>2 DEF HandBackOK

\* The first body of a hand-back, of a client or of the sweep.
LEMMA PrepareStep ==
    ASSUME IInv, NEW w \in Origins, NEW h, NEW l, Prepare(w, h, l),
           candidates' \subseteq [lease : Nat, by : Owners \cup Humans]
    PROVE  IInv'
<1>1. UNCHANGED <<closed, screenLeases, ownerLeaseIds, lastLease, resumes, node, maintenance,
                  waiters, drain>>
  BY DEF Prepare
<1>2. CASE UNCHANGED <<controlLeases, run, handBacks>>
  BY <1>1, <1>2 DEF IInv
<1>3. CASE /\ l \in Leases /\ controlLeases[l].holder = "human" /\ controlLeases[l].by = h
           /\ ~UNCHANGED <<controlLeases, run, handBacks>>
  <2> DEFINE c == [controlLeases[l] EXCEPT !.generation = @ + 1, !.idle = FALSE]
             b == [stage |-> "observing", lease |-> l, by |-> h, fresh |-> TRUE,
                   generation |-> c.generation]
  <2>1. /\ controlLeases[l] \in ControlLease /\ controlLeases[l].generation \in Nat
        /\ controlLeases \in [DOMAIN controlLeases -> ControlLease] /\ l \in DOMAIN controlLeases
        /\ h \in Owners \cup Humans
    BY <1>3, ControlFacts DEF ControlLease
  <2>2. /\ c \in ControlLease /\ c.holder = "human" /\ c.generation \in Nat
        /\ c.generation > controlLeases[l].generation
        /\ c.generation >= controlLeases[l].generation
    <3>1. /\ c.generation = controlLeases[l].generation + 1 /\ c.holder = "human"
          /\ c \in ControlLease
      BY <1>3, <2>1, ActiveControl
    <3> QED
      BY <2>1, <3>1
  <2>3. controlLeases' = [controlLeases EXCEPT ![l] = c]
    BY <1>3 DEF Prepare
  <2>4. handBacks' = [handBacks EXCEPT ![w] = b]
    <3>1. controlLeases'[l] = c
      BY <2>1, <2>3
    <3> QED
      BY <1>3, <3>1 DEF Prepare
  <2>5. run' = [o \in Owners |-> [run[o] EXCEPT !.live = @ /\ run[o].lease # l]]
    BY <1>3 DEF Prepare
  <2> HIDE DEF c
  <2>6. b \in HandBackState /\ HandBackOK(b, controlLeases', lastLease)
    <3>1. b \in HandBackState
      <4>1. l \in Nat
        BY <1>3 DEF IInv, LeasesOK, Leases
      <4> QED
        BY <2>1, <2>2, <4>1 DEF HandBackState, Stages
    <3>2. l \in Known(lastLease)
      BY <1>3 DEF IInv, LeasesOK, Leases, Known
    <3>3. controlLeases'[l] = c
      BY <2>1, <2>3
    <3> QED
      BY <2>2, <3>1, <3>2, <3>3 DEF HandBackOK
  <2> HIDE DEF b
  <2>7. /\ handBacks' \in [Origins -> HandBackState]
        /\ \A v \in Origins : HandBackOK(handBacks'[v], controlLeases', lastLease)
    <3>1. /\ handBacks \in [Origins -> HandBackState]
          /\ \A v \in Origins : HandBackOK(handBacks[v], controlLeases, lastLease)
      BY DEF IInv
    <3>2. \A v \in Origins : HandBackOK(handBacks[v], controlLeases', lastLease)
      BY <2>1, <2>2, <2>3, <3>1, OvertakenHandBack
    <3> QED
      BY <2>4, <2>6, <3>1, <3>2
  <2>8. /\ run' = [o \in Owners |-> run'[o]]
        /\ \A o \in Owners : run'[o] \in {run[o], [run[o] EXCEPT !.live = FALSE]}
        /\ \A o \in Owners : run[o].lease = l /\ run'[o] = run[o] => ~run[o].live
    BY <2>5, AbortedRuns
  <2> QED
    BY <1>1, <1>3, <2>2, <2>3, <2>7, <2>8, ControlMoves
<1> QED
  BY <1>2, <1>3 DEF Prepare

LEMMA ClientHandsBackStep ==
    ASSUME IInv, NEW h, NEW l, ClientHandsBack(h, l)
    PROVE  IInv'
BY PrepareStep DEF ClientHandsBack, IInv, Origins

LEMMA SweepNextStep ==
    ASSUME IInv, SweepNext
    PROVE  IInv'
<1>1. PICK c \in candidates : Prepare("sweep", c.by, c.lease) /\ candidates' = candidates \ {c}
  BY DEF SweepNext
<1>2. candidates' \subseteq [lease : Nat, by : Owners \cup Humans]
  BY <1>1 DEF IInv
<1> QED
  BY <1>1, <1>2, PrepareStep DEF Origins

LEMMA SweepStep ==
    ASSUME IInv, Sweep
    PROVE  IInv'
<1>1. \A l \in Leases : l \in Nat /\ controlLeases[l].by \in Owners \cup Humans
  BY DEF IInv, LeasesOK, Leases, ControlLease
<1>2. candidates' \subseteq [lease : Nat, by : Owners \cup Humans]
  BY <1>1 DEF Sweep
<1> QED
  BY <1>2 DEF IInv, Sweep, service

LEMMA IdleHandBack ==
    ASSUME NEW CL, NEW n \in Nat
    PROVE  Idle \in HandBackState /\ HandBackOK(Idle, CL, n)
BY DEF Idle, HandBackState, Stages, HandBackOK, Known

LEMMA ObserveStep ==
    ASSUME IInv, NEW w \in Origins, Observe(w)
    PROVE  IInv'
<1> DEFINE b == [handBacks[w] EXCEPT !.stage = "observed", !.fresh = TRUE]
<1>1. /\ handBacks \in [Origins -> HandBackState] /\ lastLease \in Nat
      /\ \A v \in Origins : HandBackOK(handBacks[v], controlLeases, lastLease)
      /\ handBacks[w].stage = "observing"
  BY DEF IInv, LeasesOK, Observe
<1>2. handBacks' \in {[handBacks EXCEPT ![w] = b], [handBacks EXCEPT ![w] = Idle]}
  BY <1>1 DEF Observe
<1>3. b \in HandBackState /\ HandBackOK(b, controlLeases, lastLease)
  <2>1. handBacks[w] \in HandBackState
    BY <1>1
  <2>2. /\ b \in HandBackState /\ b.stage = "observed" /\ b.fresh = TRUE
        /\ b.lease = handBacks[w].lease /\ b.generation = handBacks[w].generation
    BY <2>1 DEF HandBackState, Stages
  <2> HIDE DEF b
  <2> QED
    BY <1>1, <2>2 DEF HandBackOK
<1> HIDE DEF b
<1>4. /\ handBacks' \in [Origins -> HandBackState]
      /\ \A v \in Origins : HandBackOK(handBacks'[v], controlLeases, lastLease)
  BY <1>1, <1>2, <1>3, IdleHandBack
<1> QED
  BY <1>4 DEF IInv, Observe, service

\* A run that the hand-back wakes, or leaves alone.
LEMMA WokenRun ==
    ASSUME NEW r \in RunState, NEW l, NEW g \in Nat
    PROVE  LET q == Woken(r, l, g)
           IN  /\ q \in RunState
               /\ \/ q = r /\ ~(r.pc = "paused" /\ r.lease = l /\ g > r.generation)
                  \/ /\ r.pc = "paused" /\ r.lease = l
                     /\ q.pc = "bound" /\ q.live = r.live /\ q.lease = r.lease
BY DEF Woken, RunState, PCs, Working

LEMMA HandBackStep ==
    ASSUME IInv, NEW w \in Origins, HandBack(w)
    PROVE  IInv'
<1> DEFINE b == handBacks[w]
           l == b.lease
<1>1. /\ handBacks \in [Origins -> HandBackState] /\ lastLease \in Nat
      /\ \A v \in Origins : HandBackOK(handBacks[v], controlLeases, lastLease)
      /\ b.stage = "observed" /\ handBacks' = [handBacks EXCEPT ![w] = Idle]
      /\ UNCHANGED <<closed, screenLeases, ownerLeaseIds, lastLease, node, maintenance, waiters,
                     drain, candidates>>
  BY DEF IInv, LeasesOK, HandBack
<1>2. CASE UNCHANGED <<controlLeases, resumes, run>>
  <2>1. /\ handBacks' \in [Origins -> HandBackState]
        /\ \A v \in Origins : HandBackOK(handBacks'[v], controlLeases, lastLease)
    BY <1>1, IdleHandBack
  <2> QED
    BY <1>1, <1>2, <2>1 DEF IInv
<1>3. CASE Undisturbed(b) /\ ~UNCHANGED <<controlLeases, resumes, run>>
  <2> DEFINE g == controlLeases[l].generation
             c == [holder |-> "agent", by |-> screenLeases[l].owner, generation |-> g,
                   idle |-> FALSE, manual |-> TRUE]
  <2>1. /\ l \in Leases /\ controlLeases[l].holder = "human" /\ b.generation = g
        /\ controlLeases' = [controlLeases EXCEPT ![l] = c]
        /\ resumes' = With(resumes, l, [generation |-> g, fresh |-> b.fresh])
        /\ run' = [o \in Owners |-> Woken(run[o], l, g)]
    BY <1>3 DEF HandBack, Undisturbed
  <2>2. /\ controlLeases[l] \in ControlLease /\ g \in Nat /\ g >= 1
        /\ controlLeases \in [DOMAIN controlLeases -> ControlLease] /\ DOMAIN controlLeases = Leases
    BY <2>1, ControlFacts, GenerationType
  <2>3. b.fresh = TRUE
    <3>1. b \in HandBackState /\ HandBackOK(b, controlLeases, lastLease)
      BY <1>1
    <3> QED
      BY <1>1, <2>1, <2>2, <3>1 DEF HandBackOK, HandBackState
  <2>4. c \in ControlLease /\ c.generation = g
    <3>1. screenLeases[l].owner \in Owners
      BY <2>1 DEF IInv, LeasesOK, Leases, ScreenLease
    <3> QED
      BY <2>2, <3>1 DEF ControlLease, Generations
  <2>5. LeasesOK(screenLeases, ownerLeaseIds, controlLeases', lastLease)
    BY <2>1, <2>4, ChangedLeases DEF IInv, Leases
  <2>6. ASSUME NEW o \in Owners
        PROVE  /\ run'[o] \in RunState /\ (run[o].pc = "parked" => run'[o].pc = "parked")
               /\ RunOK(run'[o], o, screenLeases, controlLeases', lastLease, closed)
    <3> DEFINE q == Woken(run[o], l, g)
    <3>1. /\ run[o] \in RunState
          /\ RunOK(run[o], o, screenLeases, controlLeases, lastLease, closed)
      BY RunFacts
    <3>2. /\ q \in RunState
          /\ \/ q = run[o] /\ ~(run[o].pc = "paused" /\ run[o].lease = l /\ g > run[o].generation)
             \/ /\ run[o].pc = "paused" /\ run[o].lease = l
                /\ q.pc = "bound" /\ q.live = run[o].live /\ q.lease = run[o].lease
      BY <2>2, <3>1, WokenRun
    <3>3. run'[o] = q
      BY <2>1
    <3> HIDE DEF q
    <3>4. CASE q = run[o] /\ ~(run[o].pc = "paused" /\ run[o].lease = l /\ g > run[o].generation)
      <4>1. ~(run[o].lease = l /\ run[o].pc = "paused")
        BY <2>1, <3>1, <3>4 DEF RunOK, Leases
      <4>2. run[o].lease = l /\ closed = "open" => ~run[o].live
        BY <2>1, HumanAlone
      <4>3. /\ controlLeases \in [DOMAIN screenLeases -> ControlLease] /\ l \in DOMAIN screenLeases
            /\ c.generation >= controlLeases[l].generation
        BY <2>1, <2>2, <2>4 DEF Leases
      <4> HIDE DEF l, c
      <4>4. RunOK(run[o], o, screenLeases, controlLeases', lastLease, closed)
        BY <2>1, <2>4, <3>1, <4>1, <4>2, <4>3, ChangedRun
      <4> QED
        BY <3>2, <3>3, <3>4, <4>4
    <3>5. CASE /\ run[o].pc = "paused" /\ run[o].lease = l
               /\ q.pc = "bound" /\ q.live = run[o].live /\ q.lease = run[o].lease
      <4>1. Awake(q)
        BY <3>1, <3>5 DEF Awake, RunOK
      <4>2. RunOK(q, o, screenLeases, controlLeases', lastLease, closed)
        BY <3>1, <3>5, <4>1 DEF Awake, RunOK
      <4> QED
        BY <3>2, <3>3, <3>5, <4>2
    <3> QED
      BY <3>2, <3>4, <3>5
  <2>7. run' \in [Owners -> RunState]
    BY <2>1, <2>6
  <2>8. WaitersOK(waiters, run')
    BY <2>6, WaitersElsewhere DEF IInv
  <2>9. ResumesOK(controlLeases', resumes', closed)
    <3>1. /\ DOMAIN resumes' = DOMAIN resumes \cup {l}
          /\ resumes'[l] = [generation |-> g, fresh |-> TRUE]
          /\ \A x : x \in DOMAIN resumes /\ x # l => resumes'[x] = resumes[x]
      BY <2>1, <2>3 DEF With
    <3>2. /\ DOMAIN controlLeases' = DOMAIN controlLeases /\ controlLeases'[l] = c
          /\ \A k \in DOMAIN controlLeases : k # l => controlLeases'[k] = controlLeases[k]
      BY <2>1, <2>2
    <3>3. ResumesOK(controlLeases, resumes, closed)
      BY DEF IInv
    <3> HIDE DEF l, c, g
    <3> QED
      BY <2>4, <3>1, <3>2, <3>3 DEF ResumesOK
  <2>10. /\ handBacks' \in [Origins -> HandBackState]
         /\ \A v \in Origins : HandBackOK(handBacks'[v], controlLeases', lastLease)
    <3>1. /\ DOMAIN controlLeases' = DOMAIN controlLeases
          /\ \A k \in DOMAIN controlLeases : controlLeases'[k].generation = controlLeases[k].generation
      BY <2>1, <2>2, <2>4
    <3>2. \A v \in Origins : HandBackOK(handBacks[v], controlLeases', lastLease)
      BY <1>1, <3>1 DEF HandBackOK
    <3> QED
      BY <1>1, <3>2, IdleHandBack
  <2> QED
    BY <1>1, <2>5, <2>6, <2>7, <2>8, <2>9, <2>10 DEF IInv
<1> QED
  BY <1>2, <1>3 DEF HandBack

------------------------------------------------------------------------------
(* The end of the service. *)

LEMMA CloseStep ==
    ASSUME IInv, Close
    PROVE  IInv'
<1> DEFINE pc(o) == CASE run[o].pc = "parked" -> "ended" [] run[o].pc = "paused" -> "bound"
                      [] OTHER -> run[o].pc
<1>1. /\ closed' = "closing" /\ waiters' = <<>>
      /\ run' = [o \in Owners |-> [run[o] EXCEPT !.live = FALSE, !.pc = pc(o)]]
      /\ UNCHANGED <<screenLeases, ownerLeaseIds, controlLeases, lastLease, node, maintenance,
                     drain, handBacks, candidates>>
  BY DEF Close
<1>2. ASSUME NEW o \in Owners
      PROVE  /\ run'[o] \in RunState
             /\ RunOK(run'[o], o, screenLeases, controlLeases, lastLease, "closing")
  <2>1. run[o] \in RunState /\ RunOK(run[o], o, screenLeases, controlLeases, lastLease, closed)
    BY RunFacts
  <2>2. run[o].pc \in PCs
    BY <2>1 DEF RunState
  <2>3. pc(o) \in (PCs \ {"parked", "paused"}) \cap {run[o].pc, "ended", "bound"}
    BY <2>2 DEF PCs, Working
  <2>4. run'[o] = [run[o] EXCEPT !.live = FALSE, !.pc = pc(o)]
    BY <1>1
  <2> HIDE DEF pc
  <2>5. /\ run'[o] \in RunState /\ ~run'[o].live /\ run'[o].pc = pc(o)
        /\ run'[o].lease = run[o].lease /\ run'[o].generation = run[o].generation
    BY <2>1, <2>3, <2>4 DEF RunState
  <2> QED
    BY <2>1, <2>3, <2>5 DEF RunOK
<1>3. run' \in [Owners -> RunState]
  BY <1>1, <1>2
<1>4. WaitersOK(waiters', run') /\ ResumesOK(controlLeases', resumes', closed')
  <2>1. ResumesOK(controlLeases', resumes', closed')
    BY <1>1 DEF ResumesOK
  <2>2. waiters' = <<>>
    BY <1>1
  <2>3. WaitersOK(waiters', run')
    BY <2>2 DEF WaitersOK
  <2> QED
    BY <2>1, <2>3
<1> QED
  BY <1>1, <1>2, <1>3, <1>4 DEF IInv, Phases

LEMMA ClosedStep ==
    ASSUME IInv, Closed
    PROVE  IInv'
<1>1. /\ closed' = "closed" /\ node' = "absent"
      /\ screenLeases' = <<>> /\ ownerLeaseIds' = <<>> /\ controlLeases' = <<>>
      /\ closed # "open"
      /\ UNCHANGED <<lastLease, resumes, maintenance, waiters, drain, handBacks, candidates, run>>
  BY DEF Closed
<1>2. /\ DOMAIN screenLeases' = {} /\ DOMAIN controlLeases' = {} /\ DOMAIN ownerLeaseIds' = {}
      /\ \A T : <<>> \in [{} -> T]
  BY <1>1
<1>3. LeasesOK(screenLeases', ownerLeaseIds', controlLeases', lastLease)
  <2>1. lastLease \in Nat
    BY DEF IInv, LeasesOK
  <2> QED
    BY <1>1, <1>2, <2>1 DEF LeasesOK
<1>4. \A o \in Owners : RunOK(run[o], o, screenLeases', controlLeases', lastLease, "closed")
  <2>1. \A o \in Owners : RunOK(run[o], o, screenLeases, controlLeases, lastLease, closed)
    BY DEF IInv
  <2> QED
    BY <1>2, <2>1 DEF RunOK, Own
<1>5. \A w \in Origins : HandBackOK(handBacks[w], controlLeases', lastLease)
  BY <1>2 DEF IInv, HandBackOK
<1>6. DrainOK(drain, screenLeases', lastLease)
  BY <1>2 DEF IInv, DrainOK, Own
<1>7. ResumesOK(controlLeases', resumes, "closed")
  BY DEF ResumesOK
<1> QED
  BY <1>1, <1>3, <1>4, <1>5, <1>6, <1>7 DEF IInv, Phases

------------------------------------------------------------------------------
\* The node comes, goes and is maintained without a lease changing.
LEMMA NodeStep ==
    ASSUME IInv, \/ \E availability \in {"online", "degraded"} : Refresh(availability)
                 \/ Register \/ Maintain \/ Maintained
    PROVE  IInv'
<1>1. /\ UNCHANGED <<service, waiters, drain, handBacks, candidates, run>>
      /\ node' \in {node, "online", "degraded"} /\ maintenance' \in {maintenance, TRUE, FALSE}
  BY DEF Refresh, Register, Maintain, Maintained
<1> QED
  BY <1>1 DEF IInv, service

LEMMA InitIInv == Init => IInv
<1> SUFFICES ASSUME Init PROVE IInv
  OBVIOUS
<1>1. /\ DOMAIN screenLeases = {} /\ DOMAIN controlLeases = {} /\ DOMAIN ownerLeaseIds = {}
      /\ \A T : <<>> \in [{} -> T]
      /\ screenLeases = <<>> /\ ownerLeaseIds = <<>> /\ controlLeases = <<>> /\ lastLease = 0
  BY DEF Init
<1>2. LeasesOK(screenLeases, ownerLeaseIds, controlLeases, lastLease)
  BY <1>1 DEF LeasesOK
<1>3. /\ run \in [Owners -> RunState]
      /\ \A o \in Owners : run[o].lease = 0 /\ ~run[o].live /\ run[o].pc = "idle"
  BY DEF Init, RunState, PCs
<1>4. \A o \in Owners : RunOK(run[o], o, screenLeases, controlLeases, lastLease, closed)
  BY <1>1, <1>3 DEF RunOK, Own, Known
<1>5. /\ handBacks \in [Origins -> HandBackState]
      /\ \A w \in Origins : HandBackOK(handBacks[w], controlLeases, lastLease)
  BY <1>1, IdleHandBack DEF Init
<1>6. ResumesOK(controlLeases, resumes, closed)
  BY <1>1 DEF ResumesOK
<1>7. DrainOK(drain, screenLeases, lastLease)
  BY RestingOK DEF Init
<1>8. WaitersOK(waiters, run)
  BY DEF Init, WaitersOK
<1> QED
  BY <1>2, <1>3, <1>4, <1>5, <1>6, <1>7, <1>8 DEF IInv, Init, Phases

LEMMA NextIInv == IInv /\ [Next]_vars => IInv'
<1> SUFFICES ASSUME IInv, [Next]_vars PROVE IInv'
  OBVIOUS
<1>1. ASSUME NEW o \in Owners, Agent(o) \/ Cancel(o)
      PROVE  IInv'
  BY <1>1, AskStep, AcquireStep, ParkStep, RenewStep, KeeperFailsStep, EndStep, CallStep,
     BeginStep, FinishStep, CatchStep, PauseStep, CancelStep DEF Agent
<1>2. CASE Timer
  BY <1>2, DrainBeginsStep, DrainNextStep, DrainTryStep, DrainGrantedStep, ExpireStep,
     SweepStep, SweepNextStep DEF Timer
<1>3. ASSUME NEW h \in Humans, Human(h)
      PROVE  IInv'
  BY <1>3, TakeOverStep, HumanActsStep, ClientHandsBackStep DEF Human
<1>4. ASSUME NEW l \in Leases, Lapse(l) \/ GoesIdle(l)
      PROVE  IInv'
  BY <1>4, LapseStep, GoesIdleStep
<1>5. ASSUME NEW w \in Origins, Observe(w) \/ HandBack(w)
      PROVE  IInv'
  BY <1>5, ObserveStep, HandBackStep
<1>6. CASE \/ \E availability \in {"online", "degraded"} : Refresh(availability)
           \/ Register \/ Maintain \/ Maintained
  BY <1>6, NodeStep
<1>7. CASE \/ \E force \in BOOLEAN : Unregister(force)
           \/ Close \/ Closed
  BY <1>7, UnregisterStep, CloseStep, ClosedStep
<1>8. CASE UNCHANGED vars
  BY <1>8 DEF IInv, vars, service
<1> QED
  BY <1>1, <1>2, <1>3, <1>4, <1>5, <1>6, <1>7, <1>8 DEF Next

LEMMA Invariance == Spec => []IInv
BY InitIInv, NextIInv, PTL DEF Spec

------------------------------------------------------------------------------
\* The tables, the queue and the runs keep their types.
THEOREM TypeCorrect == Spec => []TypeOK
<1>1. ASSUME IInv
      PROVE  TypeOK
  <2>1. LeasesOK(screenLeases, ownerLeaseIds, controlLeases, lastLease)
    BY <1>1 DEF IInv
  <2>2. /\ DOMAIN screenLeases \subseteq Ids /\ DOMAIN ownerLeaseIds \subseteq Owners
        /\ \A l \in DOMAIN screenLeases :
              screenLeases[l] \in [screen : Screens, owner : Owners, lapsed : BOOLEAN]
        /\ DOMAIN controlLeases = DOMAIN screenLeases
        /\ \A l \in DOMAIN controlLeases : controlLeases[l] \in
              [holder : {"agent", "human"}, by : Owners \cup Humans, generation : Generations,
               idle : BOOLEAN, manual : BOOLEAN]
    BY <2>1 DEF LeasesOK, ScreenLease, ControlLease, Ids
  <2>3. \A w \in Origins : handBacks[w].stage \in {"none", "observing", "observed"}
    BY <1>1 DEF IInv, HandBackState, Stages
  <2>4. \A o \in Owners : run[o].pc \in PCs
    BY <1>1 DEF IInv, RunState
  <2> QED
    BY <1>1, <2>2, <2>3, <2>4 DEF IInv, TypeOK, Phases, WaitersOK, PCs
<1> QED
  BY <1>1, Invariance, PTL

\* A screen and an owner have one lease; an action that nobody aborted is the
\* agent's who controls the screen; control came back with a fresh view.
THEOREM ActionsInControl == Spec => []ActsInControl
<1>1. ASSUME IInv
      PROVE  ActsInControl
  <2>1. Exclusive
    BY <1>1 DEF IInv, LeasesOK, Exclusive, Leases
  <2>2. LiveActionsInControl
    <3>1. SUFFICES ASSUME closed = "open", NEW o \in Owners, run[o].live
                   PROVE  /\ AgentHolds(run[o].lease, o)
                          /\ controlLeases[run[o].lease].generation = run[o].generation
      BY DEF LiveActionsInControl
    <3>2. RunOK(run[o], o, screenLeases, controlLeases, lastLease, closed)
      BY <1>1 DEF IInv
    <3> QED
      BY <3>1, <3>2 DEF RunOK, Own, AgentHolds, Leases
  <2>3. ReturnedWithView
    BY <1>1, RunFacts DEF IInv, ResumesOK, ReturnedWithView, LeasesOK, Leases
  <2> QED
    BY <2>1, <2>2, <2>3 DEF ActsInControl
<1> QED
  BY <1>1, Invariance, PTL

\* A hand-back, a release or an expiry never leaves an agent asleep.
THEOREM PausedAgentsWait == Spec => []PausedForHuman
<1>1. ASSUME IInv
      PROVE  PausedForHuman
  BY <1>1 DEF IInv, RunOK, PausedForHuman, Leases
<1> QED
  BY <1>1, Invariance, PTL
=============================================================================
