--------------------------- MODULE M3SessionProofs ---------------------------
(***************************************************************************)
(* Proofs about M3Session for every roster, election order, number of      *)
(* fragments and driver of the bank: with a handoff in fragments, nobody   *)
(* reigns twice and the session implements AuthorityLineage; a checkpoint  *)
(* is installed whole; no counter falls behind a replay floor that jumps   *)
(* over fragments; and a reigning player's bank is of its own epoch.       *)
(*                                                                         *)
(* The last section is about what a follower shows on the same wire        *)
(* (ActorReplication, instantiated here): net, FragmentCount and the       *)
(* bounds of the same name stand for its own there.                        *)
(***************************************************************************)
EXTENDS M3Session, TLAPS, WellFoundedInduction, FiniteSetTheorems, FunctionTheorems

CONSTANTS
    Snapshot, KeyframeTicks, InterpolationTicks, MaxExtrapolationTicks, SnapTicks, Capacity,
    MaxReprojections, MaxEnvelopes

VARIABLES
    sources, truth, follower, rider, projections

Replication == INSTANCE ActorReplication

-----------------------------------------------------------------------------
(* The election, as PeerSessionProofs has it.                              *)

\* A non-empty set of naturals has the least element Least names.
LEMMA LeastIsMember ==
    ASSUME NEW S \in SUBSET Nat, S # {}
    PROVE  Least(S) \in S /\ \A y \in S : Least(S) <= y
<1> DEFINE R == {ss \in Nat \X Nat : ss[1] < ss[2]}
<1>1. IsWellFoundedOn(R, Nat)
  BY NatLessThanWellFounded DEF OpToRel
<1>2. PICK x \in S : \A y \in S : <<y, x>> \notin R
  <2> HIDE DEF R
  <2>1. QED
    BY <1>1, WFMin
<1>3. \A y \in S : x <= y
  <2>1. SUFFICES ASSUME NEW y \in S, y < x PROVE FALSE
    OBVIOUS
  <2>2. <<y, x>> \in Nat \X Nat /\ <<y, x>>[1] < <<y, x>>[2]
    BY <2>1
  <2>3. <<y, x>> \in R
    BY <2>2
  <2>4. QED
    BY <1>2, <2>3
<1>4. QED
  BY <1>3 DEF Least

\* The election picks one of the survivors (expire_and_migrate never installs
\* somebody it has just expired).
LEMMA SuccessorSurvives ==
    ASSUME NEW S \in SUBSET Player, S # {}
    PROVE  Successor(S) \in S
<1> DEFINE ranked == {i \in DOMAIN Preference : Preference[i] \in S}
<1>1. CASE ranked # {}
  <2>1. ranked \in SUBSET Nat
    BY PreferenceAssumption
  <2>2. Least(ranked) \in ranked
    BY <1>1, <2>1, LeastIsMember
  <2>3. Preference[Least(ranked)] \in S
    BY <2>2
  <2>4. QED
    BY <1>1, <2>3 DEF Successor
<1>2. CASE ranked = {}
  <2>1. S \in SUBSET Nat
    BY PlayerAssumption
  <2>2. Least(S) \in S
    BY <2>1, LeastIsMember
  <2>3. QED
    BY <1>2, <2>2 DEF Successor
<1>3. QED
  BY <1>1, <1>2

\* A player always survives in its own view, and so has somebody to elect.
LEMMA ElectsAPlayer ==
    ASSUME NEW p \in Player, connected[p] \in SUBSET Player
    PROVE  /\ Survivors(p) \in SUBSET Player
           /\ p \in Survivors(p)
           /\ Successor(Survivors(p)) \in Survivors(p)
<1>1. Survivors(p) \in SUBSET Player /\ p \in Survivors(p)
  BY DEF Survivors
<1>2. QED
  BY <1>1, SuccessorSurvives

\* No claim is coherent to a player that is its own authority: it is never
\* silent to itself, and nobody else may claim its epoch.
LEMMA ReignerRefusesClaims ==
    ASSUME NEW p \in Player, NEW q, NEW e, q # p, authority[p] = p
    PROVE  ~AuthorityClaimIsCoherent(p, q, e)
BY DEF AuthorityClaimIsCoherent, CurrentAuthorityIsSilent

-----------------------------------------------------------------------------
\* The part of TypeOK the proofs need.
RosterOK ==
    /\ authority \in [Player -> Player]
    /\ epoch \in [Player -> Nat]
    /\ connected \in [Player -> SUBSET Player]
    /\ \A m \in net : m.sender \in Player /\ m.epoch \in Nat

RInv == RosterOK /\ SingleReign

\* A migration by timeout passes to the next epoch under a survivor.
LEMMA PollSucceeds ==
    ASSUME RosterOK, NEW p \in Player, PollAndMigrate(p)
    PROVE  \E a \in Player : Lineage!Succeed(p, a)
<1>1. Successor(Survivors(p)) \in Player
  BY ElectsAPlayer DEF RosterOK
<1>2. Lineage!Succeed(p, Successor(Survivors(p)))
  BY DEF PollAndMigrate, Lineage!Succeed
<1>3. QED
  BY <1>1, <1>2

\* A completed handoff moves a follower to its author, in the next epoch or to a
\* lower id of the same one, or changes neither authority nor epoch.
LEMMA HandoffSucceeds ==
    ASSUME RosterOK, NEW p \in Player, NEW m \in net, CompleteCheckpoint(p, m)
    PROVE  \/ UNCHANGED <<authority, epoch>>
           \/ Lineage!Succeed(p, m.sender)
           \/ Lineage!Converge(p, m.sender)
<1>1. m.sender \in Player /\ m.epoch \in Nat
  BY DEF RosterOK
<1>2. m.sender # p /\ AuthorityClaimIsCoherent(p, m.sender, m.epoch)
  BY DEF CompleteCheckpoint, FragmentAdmitted
<1>3. authority[p] # p
  BY <1>2, ReignerRefusesClaims
<1>4. CASE UNCHANGED <<authority, epoch>>
  BY <1>4
<1>5. CASE /\ authority' = [authority EXCEPT ![p] = m.sender]
           /\ epoch' = [epoch EXCEPT ![p] = m.epoch]
  <2>1. CASE m.epoch = epoch[p] + 1
    BY <1>3, <1>5, <2>1 DEF Lineage!Succeed
  <2>2. CASE m.epoch = epoch[p] /\ m.sender < authority[p]
    <3>1. epoch' = epoch
      BY <1>5, <2>2 DEF RosterOK
    <3>2. QED
      BY <1>3, <1>5, <2>2, <3>1 DEF Lineage!Converge
  <2>3. CASE m.epoch = epoch[p] /\ m.sender = authority[p]
    BY <1>5, <2>3 DEF RosterOK
  <2>4. QED
    BY <1>2, <2>1, <2>2, <2>3 DEF AuthorityClaimIsCoherent
<1>6. QED
  BY <1>4, <1>5 DEF CompleteCheckpoint

\* Every step is a step of the lineage or leaves it alone.
LEMMA M3LineageStep ==
    ASSUME RosterOK, [Next]_vars
    PROVE  [Lineage!Next]_<<authority, epoch>>
<1>1. ASSUME NEW p \in Player, PollAndMigrate(p)
      PROVE  Lineage!Next
  BY <1>1, PollSucceeds DEF Lineage!Next
<1>2. ASSUME NEW p \in Player, NEW m \in net, CompleteCheckpoint(p, m)
      PROVE  Lineage!Next \/ UNCHANGED <<authority, epoch>>
  <2>1. m.sender \in Player
    BY DEF RosterOK
  <2>2. QED
    BY <1>2, <2>1, HandoffSucceeds DEF Lineage!Next
<1>3. ASSUME NEW p \in Player,
             \/ Heartbeat(p) \/ Leave(p) \/ Crash(p) \/ AdvanceTick(p) \/ Overdue(p)
             \/ \E q \in Player : FallSilent(p, q)
             \/ \E m \in net : AcceptOrdinary(p, m) \/ AcceptFragment(p, m)
      PROVE  UNCHANGED <<authority, epoch>>
  BY <1>3 DEF Heartbeat, Leave, Crash, AdvanceTick, Overdue, FallSilent, Lapse,
              AcceptOrdinary, AcceptFragment, sessionVars
<1>4. CASE UNCHANGED vars
  BY <1>4 DEF vars, sessionVars
<1>5. QED
  BY <1>1, <1>2, <1>3, <1>4 DEF Next, Receive

\* What a step adds to the network: ordinary traffic, or the fragments of a player
\* that has just come to reign in the epoch they open.
LEMMA NewFragment ==
    ASSUME RosterOK, [Next]_vars, NEW m \in net', m \notin net
    PROVE  /\ m.sender \in Player /\ m.epoch \in Nat
           /\ m.kind = "Fragment" =>
                 authority'[m.sender] = m.sender /\ epoch'[m.sender] = m.epoch
<1>1. ASSUME NEW p \in Player, SendOne(p, "Heartbeat") \/ SendOne(p, "Leave")
      PROVE  /\ m.sender \in Player /\ m.epoch \in Nat
             /\ m.kind # "Fragment"
  <2>1. m.sender = p /\ m.epoch = epoch[p] /\ m.kind \in {"Heartbeat", "Leave"}
    BY <1>1 DEF SendOne
  <2>2. QED
    BY <2>1 DEF RosterOK
<1>2. ASSUME NEW p \in Player, PollAndMigrate(p)
      PROVE  /\ m.sender \in Player /\ m.epoch \in Nat
             /\ authority'[m.sender] = m.sender /\ epoch'[m.sender] = m.epoch
  <2>1. m \in Handoff(p) /\ Successor(Survivors(p)) = p
    BY <1>2 DEF PollAndMigrate
  <2>2. m.sender = p /\ m.epoch = epoch[p] + 1
    BY <2>1 DEF Handoff
  <2>3. authority' = [authority EXCEPT ![p] = p] /\ epoch' = [epoch EXCEPT ![p] = @ + 1]
    BY <1>2, <2>1 DEF PollAndMigrate
  <2>4. QED
    BY <2>2, <2>3 DEF RosterOK
<1>3. \E p \in Player :
         SendOne(p, "Heartbeat") \/ SendOne(p, "Leave") \/ PollAndMigrate(p)
  BY DEF Next, vars, Receive, Heartbeat, Leave, Crash, AdvanceTick, Overdue, FallSilent,
         AcceptOrdinary, AcceptFragment, CompleteCheckpoint
<1>4. QED
  BY <1>1, <1>2, <1>3

\* Connectivity flags stay flags of roster members.
LEMMA ConnectedStep ==
    ASSUME RosterOK, [Next]_vars
    PROVE  connected' \in [Player -> SUBSET Player]
<1> USE DEF RosterOK
<1>1. ASSUME NEW p \in Player, NEW m \in net, NEW n, NEW stays \in BOOLEAN,
             Heard(p, m.sender, n, stays)
      PROVE  connected' \in [Player -> SUBSET Player]
  <2>1. m.sender \in Player
    OBVIOUS
  <2>2. QED
    BY <1>1, <2>1 DEF Heard
<1>2. ASSUME NEW p \in Player, PollAndMigrate(p)
      PROVE  connected' \in [Player -> SUBSET Player]
  <2>1. Survivors(p) \in SUBSET Player
    BY ElectsAPlayer
  <2>2. QED
    BY <1>2, <2>1 DEF PollAndMigrate
<1>3. ASSUME NEW p \in Player, NEW m \in net, Receive(p, m)
      PROVE  connected' \in [Player -> SUBSET Player]
  <2>1. CASE AcceptOrdinary(p, m)
    <3>1. (m.kind # "Leave") \in BOOLEAN
      OBVIOUS
    <3>2. QED
      BY <2>1, <3>1, <1>1 DEF AcceptOrdinary
  <2>2. CASE AcceptFragment(p, m)
    BY <2>2 DEF AcceptFragment, sessionVars
  <2>3. CASE CompleteCheckpoint(p, m)
    BY <2>3, <1>1 DEF CompleteCheckpoint
  <2>4. QED
    BY <1>3, <2>1, <2>2, <2>3 DEF Receive
<1>4. ASSUME NEW p \in Player,
             \/ Heartbeat(p) \/ Leave(p) \/ Crash(p) \/ AdvanceTick(p) \/ Overdue(p)
             \/ \E q \in Player : FallSilent(p, q)
      PROVE  UNCHANGED connected
  BY <1>4 DEF Heartbeat, Leave, Crash, AdvanceTick, Overdue, FallSilent, Lapse,
              sessionVars
<1>5. CASE UNCHANGED vars
  BY <1>5 DEF vars, sessionVars
<1>6. QED
  BY <1>2, <1>3, <1>4, <1>5 DEF Next

LEMMA RosterStep ==
    ASSUME RosterOK, [Next]_vars
    PROVE  RosterOK'
<1>1. authority' \in [Player -> Player] /\ epoch' \in [Player -> Nat]
  BY M3LineageStep DEF RosterOK, Lineage!Next, Lineage!Succeed, Lineage!Converge
<1>2. \A m \in net' : m.sender \in Player /\ m.epoch \in Nat
  BY NewFragment DEF RosterOK
<1>3. QED
  BY <1>1, <1>2, ConnectedStep DEF RosterOK

\* A player that reigns stays in its reign: the lineage has no step for it.
LEMMA ReignerStays ==
    ASSUME RosterOK, [Next]_vars, NEW q \in Player, authority[q] = q
    PROVE  authority'[q] = q /\ epoch'[q] = epoch[q]
BY M3LineageStep DEF RosterOK, Lineage!Next, Lineage!Succeed, Lineage!Converge

LEMMA RInvariant == Spec => []RInv
<1>1. Init => RInv
  BY PlayerAssumption DEF Init, SessionInit, RInv, RosterOK, SingleReign
<1>2. ASSUME RInv, [Next]_vars PROVE SingleReign'
  <2>1. SUFFICES ASSUME NEW m \in net', m.kind = "Fragment"
                 PROVE  authority'[m.sender] = m.sender /\ epoch'[m.sender] = m.epoch
    BY DEF SingleReign
  <2>2. CASE m \in net
    <3>1. m.sender \in Player /\ authority[m.sender] = m.sender /\ epoch[m.sender] = m.epoch
      BY <1>2, <2>1, <2>2 DEF RInv, RosterOK, SingleReign
    <3>2. QED
      BY <1>2, <3>1, ReignerStays DEF RInv
  <2>3. CASE m \notin net
    BY <1>2, <2>1, <2>3, NewFragment DEF RInv
  <2>4. QED
    BY <2>2, <2>3
<1>3. RInv /\ [Next]_vars => RInv'
  BY <1>2, RosterStep DEF RInv
<1>4. QED
  BY <1>1, <1>3, PTL DEF Spec

-----------------------------------------------------------------------------
\* On wire 2.0, whoever signed a handoff reigns in the epoch it opened for as long
\* as the match runs: no claim, timeout or late fragment makes it reign elsewhere.
THEOREM M3ReignsOnce == Spec => []SingleReign
<1>1. RInv => SingleReign
  BY DEF RInv
<1>2. QED
  BY <1>1, RInvariant, PTL

\* A session whose handoffs come in fragments keeps what AuthorityLineage promises.
THEOREM M3KeepsLineage == Spec => ImplementsLineage
<1>1. Init => Lineage!Init
  BY DEF Init, SessionInit, Lineage!Init
<1>2. RInv /\ [Next]_vars => [Lineage!Next]_<<authority, epoch>>
  BY M3LineageStep DEF RInv
<1>3. QED
  BY <1>1, <1>2, RInvariant, PTL
     DEF Spec, ImplementsLineage, Lineage!Spec, Lineage!vars
-----------------------------------------------------------------------------
(* Reassembly.                                                             *)

\* Every envelope on the network is older than the next one of its sender.
SentBefore == \A m \in net : m.sequence < nextSequence[m.sender]

\* What is gathered is of one checkpoint, came over the network and holds no
\* index twice.
Gathered(r) ==
    /\ r.got \subseteq net
    /\ \A f \in r.got : Matches(r, f)
    /\ \A f, g \in r.got : f.index = g.index => f = g

AllGathered == \A p \in Player : Gathered(pending[p])

\* The inductive invariant: types need SentBefore and AllGathered, for without a
\* bound on the sequences gathered a new replay floor need not be a number.
SInv == TypeOK /\ SentBefore /\ AllGathered

LEMMA TypedRoster == TypeOK => RosterOK
BY DEF TypeOK, SessionTypeOK, RosterOK, Heartbeats, Fragments

Piece == [from : Player \cup {NoPlayer}, epoch : Nat, tick : Nat, got : SUBSET Fragments]

LEMMA NoPendingIsGathered == NoPending \in Piece /\ Gathered(NoPending)
BY DEF NoPending, Piece, Gathered

\* Filing a fragment that matches and whose index is new keeps a reassembly one.
LEMMA FiledIsGathered ==
    ASSUME SInv, NEW p \in Player, NEW m \in net, m.kind = "Fragment",
           Matches(Reassembly(p, m), m),
           \A f \in Reassembly(p, m).got : f.index # m.index
    PROVE  /\ m \in Fragments
           /\ Filed(Reassembly(p, m), m) \in Piece
           /\ Gathered(Filed(Reassembly(p, m), m))
           /\ Filed(Reassembly(p, m), m).got = Reassembly(p, m).got \cup {m}
           /\ Filed(Reassembly(p, m), m).from = m.sender
<1> DEFINE r == Reassembly(p, m)
<1>1. m \in Fragments
  BY DEF SInv, TypeOK, Heartbeats
<1>2. r \in Piece /\ Gathered(r)
  <2>1. CASE pending[p] = NoPending \/ p \in overdue
    BY <1>1, <2>1 DEF Reassembly, Piece, Gathered, Fragments
  <2>2. CASE ~(pending[p] = NoPending \/ p \in overdue)
    BY <2>2 DEF Reassembly, SInv, TypeOK, AllGathered, Piece
  <2>3. QED
    BY <2>1, <2>2
<1> HIDE DEF r
<1>3. Matches(r, m) /\ \A f \in r.got : f.index # m.index
  BY DEF r
<1>4. /\ Filed(r, m) \in Piece
      /\ Filed(r, m).got = r.got \cup {m}
      /\ Filed(r, m).from = r.from /\ Filed(r, m).epoch = r.epoch /\ Filed(r, m).tick = r.tick
  BY <1>1, <1>2 DEF Filed, Piece
<1>5. Gathered(Filed(r, m))
  BY <1>2, <1>3, <1>4 DEF Gathered, Matches
<1>6. QED
  BY <1>1, <1>3, <1>4, <1>5 DEF r, Matches

\* A complete reassembly holds every index: as many distinct indices as there
\* are.
LEMMA CompleteIsWhole ==
    ASSUME NEW r \in Piece, Gathered(r), Complete(r)
    PROVE  /\ {f.index : f \in r.got} = Index
           /\ r.got # {}
<1> DEFINE at == [f \in r.got |-> f.index]
<1>1. at \in [r.got -> Index] /\ \A f, g \in r.got : at[f] = at[g] => f = g
  BY DEF Piece, Fragments, Gathered
<1>2. FragmentCount \in Nat \ {0}
  BY M3Assumption
<1>3. IsFiniteSet(Index) /\ Cardinality(Index) = FragmentCount
  BY <1>2, FS_Interval DEF Index
<1>4. at \in Surjection(r.got, Index)
  <2> HIDE DEF at
  <2>1. at \in Injection(r.got, Index)
    BY <1>1, Fun_IsInj
  <2>2. QED
    BY <1>3, <2>1, FS_Injection DEF Complete
<1>5. \A i \in Index : \E f \in r.got : f.index = i
  BY <1>4 DEF Surjection
<1>6. 1 \in Index
  BY <1>2 DEF Index
<1>7. QED
  BY <1>1, <1>5, <1>6

\* The new replay floor is the sequence of one of the fragments: they are
\* bounded, having been sent.
LEMMA LastIsSent ==
    ASSUME NEW S, S # {}, NEW n \in Nat, \A f \in S : f.sequence \in Nat /\ f.sequence < n
    PROVE  \E f \in S : LastOf(S) = f.sequence
<1> DEFINE below == {n - f.sequence : f \in S}
<1>1. below \in SUBSET Nat /\ below # {}
  OBVIOUS
<1>2. Least(below) \in below /\ \A y \in below : Least(below) <= y
  BY <1>1, LeastIsMember
<1>3. PICK f \in S : Least(below) = n - f.sequence
  BY <1>2
<1>4. \A g \in S : n - f.sequence <= n - g.sequence
  BY <1>2, <1>3
<1>5. \A g \in S : g.sequence <= f.sequence
  BY <1>4
<1>6. \E k \in {g.sequence : g \in S} : \A g \in S : g.sequence <= k
  BY <1>5
<1>7. LastOf(S) \in {g.sequence : g \in S}
  BY <1>6 DEF LastOf
<1>8. QED
  BY <1>7

\* What a receiver completes is a whole checkpoint, and the floor it sets is one
\* of its fragments.
LEMMA FloorIsSent ==
    ASSUME SInv, NEW p \in Player, NEW m \in net, CompleteCheckpoint(p, m)
    PROVE  LET got == Filed(Reassembly(p, m), m).got
           IN  /\ got \in SUBSET Fragments
               /\ {f.index : f \in got} = Index
               /\ \A f, g \in got : f.sender = g.sender /\ f.epoch = g.epoch /\ f.tick = g.tick
               /\ \E f \in net : f.sender = m.sender /\ LastOf(got) = f.sequence
<1> DEFINE r == Filed(Reassembly(p, m), m)
<1>1. /\ m.kind = "Fragment" /\ Matches(Reassembly(p, m), m)
      /\ \A f \in Reassembly(p, m).got : f.index # m.index
      /\ Complete(r)
  BY DEF CompleteCheckpoint, FragmentAdmitted
<1>2. m \in Fragments /\ r \in Piece /\ Gathered(r) /\ r.from = m.sender
  BY <1>1, FiledIsGathered
<1> HIDE DEF r
<1>3. r.got \in SUBSET Fragments /\ r.got # {} /\ {f.index : f \in r.got} = Index
  BY <1>1, <1>2, CompleteIsWhole DEF Piece
<1>4. \A f \in r.got : f \in net /\ f.sender = m.sender /\ f.epoch = r.epoch /\ f.tick = r.tick
  BY <1>2 DEF Gathered, Matches
<1>5. m.sender \in Player /\ nextSequence[m.sender] \in Nat
  BY <1>2 DEF SInv, TypeOK, SessionTypeOK, Fragments
<1>6. \A f \in r.got : f.sequence \in Nat /\ f.sequence < nextSequence[m.sender]
  BY <1>3, <1>4 DEF SInv, SentBefore, Fragments
<1>7. \E f \in r.got : LastOf(r.got) = f.sequence
  BY <1>3, <1>5, <1>6, LastIsSent
<1>8. \E f \in net : f.sender = m.sender /\ LastOf(r.got) = f.sequence
  BY <1>4, <1>7
<1>9. QED
  BY <1>3, <1>4, <1>8 DEF r

-----------------------------------------------------------------------------
(* The inductive step.                                                     *)

\* The author's own checkpoint is whole, and numbered from its counter on.
LEMMA HandoffIsWhole ==
    ASSUME TypeOK, NEW p \in Player
    PROVE  /\ Handoff(p) \in SUBSET Fragments
           /\ {f.index : f \in Handoff(p)} = Index
           /\ \A f \in Handoff(p) :
                 /\ f.sender = p /\ f.epoch = epoch[p] + 1 /\ f.tick = CheckpointTick(p)
                 /\ f.sequence < nextSequence[p] + FragmentCount
<1>1. /\ FragmentCount \in Nat \ {0}
      /\ nextSequence[p] \in Nat \ {0} /\ epoch[p] \in Nat
      /\ CheckpointTick(p) \in Nat
  BY M3Assumption DEF TypeOK, SessionTypeOK, CheckpointTick
<1>2. \A i \in Index : /\ i \in Nat /\ nextSequence[p] + i - 1 \in Nat
                       /\ nextSequence[p] + i - 1 < nextSequence[p] + FragmentCount
  BY <1>1 DEF Index
<1>3. \A f \in Handoff(p) : \E i \in Index :
         f = [kind |-> "Fragment", sender |-> p, sequence |-> nextSequence[p] + i - 1,
              epoch |-> epoch[p] + 1, tick |-> CheckpointTick(p), index |-> i]
  BY DEF Handoff
<1>4. ASSUME NEW f \in Handoff(p)
      PROVE  /\ f \in Fragments
             /\ f.sender = p /\ f.epoch = epoch[p] + 1 /\ f.tick = CheckpointTick(p)
             /\ f.sequence < nextSequence[p] + FragmentCount
  BY <1>1, <1>2, <1>3 DEF Fragments
<1>5. ASSUME NEW i \in Index PROVE \E f \in Handoff(p) : f.index = i
  <2> DEFINE f == [kind |-> "Fragment", sender |-> p, sequence |-> nextSequence[p] + i - 1,
                   epoch |-> epoch[p] + 1, tick |-> CheckpointTick(p), index |-> i]
  <2>1. f \in Handoff(p) /\ f.index = i
    BY DEF Handoff
  <2>2. QED
    BY <2>1
<1>6. {f.index : f \in Handoff(p)} = Index
  BY <1>4, <1>5 DEF Fragments
<1>7. QED
  BY <1>4, <1>6

LEMMA M3CountersStep ==
    ASSUME TypeOK, [Next]_vars
    PROVE  /\ nextSequence' \in [Player -> Nat \ {0}]
           /\ net \subseteq net' /\ net' \subseteq Heartbeats \cup Fragments
           /\ \A q \in Player : nextSequence[q] <= nextSequence'[q]
           /\ \A m \in net' : m \notin net => m.sequence < nextSequence'[m.sender]
<1> DEFINE Counted ==
       /\ nextSequence' \in [Player -> Nat \ {0}]
       /\ net \subseteq net' /\ net' \subseteq Heartbeats \cup Fragments
       /\ \A q \in Player : nextSequence[q] <= nextSequence'[q]
       /\ \A m \in net' : m \notin net => m.sequence < nextSequence'[m.sender]
<1>1. ASSUME NEW p \in Player, NEW kind \in {"Heartbeat", "Leave"}, SendOne(p, kind)
      PROVE  Counted
  <2> DEFINE e == [kind |-> kind, sender |-> p, sequence |-> nextSequence[p], epoch |-> epoch[p]]
  <2>1. e \in Heartbeats /\ e.sender = p /\ e.sequence = nextSequence[p]
    BY DEF TypeOK, SessionTypeOK, Heartbeats
  <2>2. net' = net \cup {e} /\ nextSequence' = [nextSequence EXCEPT ![p] = @ + 1]
    BY <1>1 DEF SendOne
  <2> HIDE DEF e
  <2>3. QED
    BY <2>1, <2>2 DEF TypeOK, SessionTypeOK
<1>2. ASSUME NEW p \in Player, PollAndMigrate(p) PROVE Counted
  <2>1. CASE Successor(Survivors(p)) = p
    <3>1. /\ net' = net \cup Handoff(p)
          /\ nextSequence' = [nextSequence EXCEPT ![p] = @ + FragmentCount]
      BY <1>2, <2>1 DEF PollAndMigrate
    <3>2. FragmentCount \in Nat
      BY M3Assumption
    <3>3. QED
      BY <3>1, <3>2, HandoffIsWhole DEF TypeOK, SessionTypeOK
  <2>2. CASE Successor(Survivors(p)) # p
    BY <1>2, <2>2 DEF PollAndMigrate, TypeOK, SessionTypeOK
  <2>3. QED
    BY <2>1, <2>2
<1>3. CASE UNCHANGED <<net, nextSequence>>
  BY <1>3 DEF TypeOK, SessionTypeOK
<1>4. \/ UNCHANGED <<net, nextSequence>>
      \/ \E p \in Player :
            SendOne(p, "Heartbeat") \/ SendOne(p, "Leave") \/ PollAndMigrate(p)
  <2>1. ASSUME NEW p \in Player, NEW m \in net, Receive(p, m)
        PROVE  UNCHANGED <<net, nextSequence>>
    BY <2>1 DEF Receive, AcceptOrdinary, AcceptFragment, CompleteCheckpoint, sessionVars
  <2>2. ASSUME NEW p \in Player,
               \/ Crash(p) \/ AdvanceTick(p) \/ Overdue(p)
               \/ \E q \in Player : FallSilent(p, q)
        PROVE  UNCHANGED <<net, nextSequence>>
    BY <2>2 DEF Crash, AdvanceTick, Overdue, FallSilent, Lapse, sessionVars
  <2>3. CASE UNCHANGED vars
    BY <2>3 DEF vars, sessionVars
  <2>4. QED
    BY <2>1, <2>2, <2>3 DEF Next, Heartbeat, Leave
<1>5. QED
  BY <1>1, <1>2, <1>3, <1>4

\* A replay floor moves only to the sequence of an envelope of the network.
LEMMA M3FloorStep ==
    ASSUME SInv, [Next]_vars
    PROVE  /\ lastSequence' \in [Player -> [Player -> Nat]]
           /\ silent' \in [Player -> SUBSET Player]
           /\ \A p, q \in Player :
                 \/ lastSequence'[p][q] = lastSequence[p][q]
                 \/ \E m \in net : m.sender = q /\ lastSequence'[p][q] = m.sequence
<1> DEFINE Floors ==
       /\ lastSequence' \in [Player -> [Player -> Nat]]
       /\ silent' \in [Player -> SUBSET Player]
       /\ \A p, q \in Player :
             \/ lastSequence'[p][q] = lastSequence[p][q]
             \/ \E m \in net : m.sender = q /\ lastSequence'[p][q] = m.sequence
<1>0. /\ lastSequence \in [Player -> [Player -> Nat]]
      /\ silent \in [Player -> SUBSET Player]
      /\ \A m \in net : m.sender \in Player /\ m.sequence \in Nat
  BY DEF SInv, TypeOK, SessionTypeOK, Heartbeats, Fragments
<1>1. ASSUME NEW p \in Player, NEW m \in net, NEW stays, Heard(p, m.sender, m.sequence, stays)
      PROVE  Floors
  <2>1. lastSequence' = [lastSequence EXCEPT ![p][m.sender] = m.sequence]
        /\ silent' = [silent EXCEPT ![p] = @ \ {m.sender}]
    BY <1>1 DEF Heard
  <2>2. silent' \in [Player -> SUBSET Player]
    BY <1>0, <2>1
  <2>3. lastSequence' \in [Player -> [Player -> Nat]]
    BY <1>0, <2>1
  <2>4. \A r, q \in Player :
           \/ lastSequence'[r][q] = lastSequence[r][q]
           \/ m.sender = q /\ lastSequence'[r][q] = m.sequence
    BY <1>0, <2>1
  <2>5. QED
    BY <2>2, <2>3, <2>4
<1>2. ASSUME NEW p \in Player, NEW m \in net, CompleteCheckpoint(p, m)
      PROVE  Floors
  <2> DEFINE got == Filed(Reassembly(p, m), m).got
  <2>1. PICK f \in net : f.sender = m.sender /\ LastOf(got) = f.sequence
    BY <1>2, FloorIsSent
  <2>2. CASE Heard(p, m.sender, LastOf(got), TRUE)
    <3>1. Heard(p, f.sender, f.sequence, TRUE)
      BY <2>1, <2>2
    <3>2. QED
      BY <1>1, <3>1
  <2>3. CASE UNCHANGED <<lastSequence, silent>>
    BY <1>0, <2>3
  <2>4. QED
    BY <1>2, <2>2, <2>3 DEF CompleteCheckpoint
<1>3. ASSUME NEW p \in Player, NEW q \in Player, FallSilent(p, q) PROVE Floors
  BY <1>0, <1>3 DEF FallSilent, Lapse
<1>4. CASE UNCHANGED <<lastSequence, silent>>
  BY <1>0, <1>4
<1>5. \/ UNCHANGED <<lastSequence, silent>>
      \/ \E p \in Player, q \in Player : FallSilent(p, q)
      \/ \E p \in Player, m \in net : AcceptOrdinary(p, m) \/ CompleteCheckpoint(p, m)
  BY DEF Next, vars, sessionVars, Receive, Heartbeat, Leave, SendOne, Crash, AdvanceTick,
         Overdue, PollAndMigrate, AcceptFragment
<1>6. QED
  BY <1>1, <1>2, <1>3, <1>4, <1>5 DEF AcceptOrdinary

\* Reassemblies stay of one checkpoint each.
LEMMA GatheredStep ==
    ASSUME SInv, [Next]_vars
    PROVE  pending' \in [Player -> Piece] /\ AllGathered'
<1>0. pending \in [Player -> Piece] /\ AllGathered
  BY DEF SInv, TypeOK, Piece
<1>1. ASSUME NEW r, Gathered(r) PROVE Gathered(r)'
  BY <1>1, M3CountersStep DEF SInv, Gathered, Matches
<1>2. ASSUME NEW p \in Player, NEW r \in Piece, Gathered(r),
             pending' = [pending EXCEPT ![p] = r]
      PROVE  pending' \in [Player -> Piece] /\ AllGathered'
  <2>1. pending' \in [Player -> Piece]
    BY <1>0, <1>2
  <2>2. ASSUME NEW q \in Player PROVE Gathered(pending[q])'
    <3>1. CASE q = p
      BY <1>0, <1>1, <1>2, <3>1
    <3>2. CASE q # p
      <4>1. pending'[q] = pending[q] /\ Gathered(pending[q])
        BY <1>0, <1>2, <3>2 DEF AllGathered
      <4>2. QED
        BY <1>1, <4>1 DEF Gathered
    <3>3. QED
      BY <3>1, <3>2
  <2>3. QED
    BY <2>1, <2>2 DEF AllGathered
<1>3. ASSUME NEW p \in Player, NEW m \in net, AcceptFragment(p, m)
      PROVE  pending' \in [Player -> Piece] /\ AllGathered'
  <2>1. /\ m.kind = "Fragment" /\ Matches(Reassembly(p, m), m)
        /\ \A f \in Reassembly(p, m).got : f.index # m.index
        /\ pending' = [pending EXCEPT ![p] = Filed(Reassembly(p, m), m)]
    BY <1>3 DEF AcceptFragment, FragmentAdmitted
  <2>2. QED
    BY <1>2, <2>1, FiledIsGathered
<1>4. ASSUME NEW p \in Player,
             PollAndMigrate(p) \/ \E m \in net : CompleteCheckpoint(p, m)
      PROVE  pending' \in [Player -> Piece] /\ AllGathered'
  <2>1. pending' = [pending EXCEPT ![p] = NoPending]
    BY <1>4 DEF PollAndMigrate, CompleteCheckpoint
  <2>2. QED
    BY <1>2, <2>1, NoPendingIsGathered
<1>5. CASE UNCHANGED pending
  <2>1. \A q \in Player : Gathered(pending[q])'
    BY <1>0, <1>1, <1>5 DEF AllGathered
  <2>2. QED
    BY <1>0, <1>5, <2>1 DEF AllGathered
<1>6. \/ UNCHANGED pending
      \/ \E p \in Player, m \in net : AcceptFragment(p, m)
      \/ \E p \in Player : PollAndMigrate(p) \/ \E m \in net : CompleteCheckpoint(p, m)
  BY DEF Next, vars, Receive, Heartbeat, Leave, Crash, AdvanceTick, Overdue, FallSilent,
         AcceptOrdinary
<1>7. QED
  BY <1>3, <1>4, <1>5, <1>6

\* Every step keeps the types, and the strengthening they need.
LEMMA SInvStep ==
    ASSUME SInv, [Next]_vars
    PROVE  SInv'
<1> USE DEF SInv
<1>1. nextSequence' \in [Player -> Nat \ {0}] /\ net' \subseteq Heartbeats \cup Fragments
  BY M3CountersStep
<1>2. /\ lastSequence' \in [Player -> [Player -> Nat]]
      /\ silent' \in [Player -> SUBSET Player]
  BY M3FloorStep
<1>3. pending' \in [Player -> Piece] /\ AllGathered'
  BY GatheredStep
<1>4. authority' \in [Player -> Player] /\ connected' \in [Player -> SUBSET Player]
  BY TypedRoster, RosterStep DEF RosterOK
<1>5. epoch' \in [Player -> Nat \ {0}]
  <2>1. RosterOK /\ epoch \in [Player -> Nat \ {0}]
    BY TypedRoster DEF TypeOK, SessionTypeOK
  <2>2. QED
    BY <2>1, M3LineageStep DEF Lineage!Next, Lineage!Succeed, Lineage!Converge
<1>6. up' \subseteq Player /\ overdue' \subseteq Player /\ tick' \in [Player -> Nat]
  <2>1. ASSUME NEW p \in Player, AdvanceTick(p) PROVE tick' \in [Player -> Nat]
    BY <2>1 DEF AdvanceTick, TypeOK
  <2>2. ASSUME NEW p \in Player, NEW m \in net, Receive(p, m)
        PROVE  up' = up /\ overdue' \subseteq overdue /\ tick' = tick
    BY <2>2 DEF Receive, AcceptOrdinary, AcceptFragment, CompleteCheckpoint
  <2>3. ASSUME NEW p \in Player, ~AdvanceTick(p),
               \/ Heartbeat(p) \/ Leave(p) \/ Crash(p) \/ Overdue(p) \/ PollAndMigrate(p)
               \/ \E q \in Player : FallSilent(p, q)
        PROVE  up' \subseteq up /\ overdue' \subseteq overdue \cup {p} /\ tick' = tick
    BY <2>3 DEF Heartbeat, Leave, Crash, Overdue, PollAndMigrate, FallSilent
  <2>4. ASSUME NEW p \in Player, AdvanceTick(p) PROVE up' = up /\ overdue' = overdue
    BY <2>4 DEF AdvanceTick
  <2>5. QED
    BY <2>1, <2>2, <2>3, <2>4 DEF TypeOK, vars, Next
<1>7. bank' \in [Player -> [epoch : Nat, tick : Nat]] /\ installed' \in [Player -> SUBSET Fragments]
  <2> USE DEF TypeOK, SessionTypeOK
  <2>1. ASSUME NEW p \in Player, AdvanceTick(p)
        PROVE  bank' \in [Player -> [epoch : Nat, tick : Nat]] /\ installed' = installed
    <3>1. tick[p] + 1 \in Nat /\ bank \in [Player -> [epoch : Nat, tick : Nat]]
      OBVIOUS
    <3>2. installed' = installed
          /\ bank' \in {bank, [bank EXCEPT ![p].tick = tick[p] + 1]}
      BY <2>1 DEF AdvanceTick
    <3>3. QED
      BY ONLY <3>1, <3>2
  <2>2. ASSUME NEW p \in Player, NEW m \in net, CompleteCheckpoint(p, m)
        PROVE  bank' \in [Player -> [epoch : Nat, tick : Nat]]
               /\ installed' \in [Player -> SUBSET Fragments]
    <3>1. m \in Fragments /\ m.epoch \in Nat /\ m.tick \in Nat
      BY <2>2 DEF CompleteCheckpoint, FragmentAdmitted, Heartbeats, Fragments
    <3>2. Filed(Reassembly(p, m), m).got \in SUBSET Fragments
      BY <2>2, FloorIsSent
    <3>3. CASE UNCHANGED <<bank, installed>>
      BY <3>3
    <3>4. CASE /\ bank' = [bank EXCEPT ![p] = [epoch |-> m.epoch, tick |-> m.tick]]
               /\ installed' = [installed EXCEPT ![p] = Filed(Reassembly(p, m), m).got]
      BY <3>1, <3>2, <3>4
    <3>5. QED
      BY <2>2, <3>3, <3>4 DEF CompleteCheckpoint
  <2>3. ASSUME NEW p \in Player, PollAndMigrate(p)
        PROVE  bank' \in [Player -> [epoch : Nat, tick : Nat]]
               /\ installed' \in [Player -> SUBSET Fragments]
    <3>1. CASE bank' = Restored(p) /\ installed' = [installed EXCEPT ![p] = Handoff(p)]
      <4>1. /\ epoch[p] + 1 \in Nat /\ bank \in [Player -> [epoch : Nat, tick : Nat]]
            /\ installed \in [Player -> SUBSET Fragments] /\ Handoff(p) \in SUBSET Fragments
            /\ CheckpointTick(p) \in Nat
        BY HandoffIsWhole, M3Assumption DEF CheckpointTick
      <4>2. bank' = [bank EXCEPT ![p] = [epoch |-> epoch[p] + 1, tick |-> CheckpointTick(p)]]
        BY <3>1 DEF Restored
      <4>3. bank' \in [Player -> [epoch : Nat, tick : Nat]]
        BY ONLY <4>1, <4>2
      <4>4. QED
        BY <3>1, <4>1, <4>3
    <3>2. CASE UNCHANGED <<bank, installed>>
      BY <3>2
    <3>3. QED
      BY <2>3, <3>1, <3>2 DEF PollAndMigrate
  <2>4. ASSUME NEW p \in Player,
               \/ Heartbeat(p) \/ Leave(p) \/ Crash(p) \/ Overdue(p)
               \/ \E q \in Player : FallSilent(p, q)
               \/ \E m \in net : AcceptOrdinary(p, m) \/ AcceptFragment(p, m)
        PROVE  UNCHANGED <<bank, installed>>
    BY <2>4 DEF Heartbeat, Leave, Crash, Overdue, FallSilent, AcceptOrdinary, AcceptFragment
  <2>5. QED
    BY <2>1, <2>2, <2>3, <2>4 DEF vars, Next, Receive
<1>8. TypeOK'
  BY <1>1, <1>2, <1>3, <1>4, <1>5, <1>6, <1>7 DEF TypeOK, SessionTypeOK, Piece
<1>9. SentBefore'
  <2>1. SUFFICES ASSUME NEW m \in net' PROVE m.sequence < nextSequence'[m.sender]
    BY DEF SentBefore
  <2>2. m.sender \in Player /\ m.sequence \in Nat
    BY <1>1 DEF Heartbeats, Fragments
  <2>3. CASE m \in net
    <3>1. /\ nextSequence[m.sender] \in Nat /\ nextSequence'[m.sender] \in Nat
          /\ nextSequence[m.sender] <= nextSequence'[m.sender]
          /\ m.sequence < nextSequence[m.sender]
      BY <1>1, <2>2, <2>3, M3CountersStep DEF TypeOK, SessionTypeOK, SentBefore
    <3>2. QED
      BY <2>2, <3>1
  <2>4. CASE m \notin net
    BY <2>4, M3CountersStep
  <2>5. QED
    BY <2>3, <2>4
<1>10. QED
  BY <1>3, <1>8, <1>9

LEMMA SInvariant == Spec => []SInv
<1>1. Init => SInv
  <2>1. Init => TypeOK
    BY PlayerAssumption, NoPendingIsGathered
       DEF Init, SessionInit, TypeOK, SessionTypeOK, Piece
  <2>2. Init => SentBefore /\ AllGathered
    BY NoPendingIsGathered DEF Init, SentBefore, AllGathered
  <2>3. QED
    BY <2>1, <2>2 DEF SInv
<1>2. SInv /\ [Next]_vars => SInv'
  BY SInvStep
<1>3. QED
  BY <1>1, <1>2, PTL DEF Spec

-----------------------------------------------------------------------------
\* The state of a wire 2.0 match always has its types; in particular the replay
\* floor a completed checkpoint sets is a sequence that was sent.
THEOREM M3TypeCorrect == Spec => []TypeOK
<1>1. SInv => TypeOK
  BY DEF SInv
<1>2. QED
  BY <1>1, SInvariant, PTL

\* "Partial ... state is never installed": whatever order, mixture and repetition
\* of fragments arrives, a player runs on every fragment of one checkpoint.
THEOREM CheckpointsAreWhole == Spec => []WholeCheckpoint
<1>1. Init => WholeCheckpoint
  BY DEF Init, WholeCheckpoint
<1>2. ASSUME SInv, WholeCheckpoint, [Next]_vars PROVE WholeCheckpoint'
  <2> DEFINE Whole(S) == /\ {f.index : f \in S} = Index
                         /\ \A f, g \in S : /\ f.sender = g.sender /\ f.epoch = g.epoch
                                             /\ f.tick = g.tick
  <2>0. installed \in [Player -> SUBSET Fragments]
    BY <1>2 DEF SInv, TypeOK
  <2>1. ASSUME NEW p \in Player, NEW S, Whole(S), installed' = [installed EXCEPT ![p] = S]
        PROVE  WholeCheckpoint'
    BY <1>2, <2>0, <2>1 DEF WholeCheckpoint
  <2>2. CASE UNCHANGED installed
    BY <1>2, <2>2 DEF WholeCheckpoint
  <2>3. ASSUME NEW p \in Player, NEW m \in net, CompleteCheckpoint(p, m)
        PROVE  WholeCheckpoint'
    <3>1. Whole(Filed(Reassembly(p, m), m).got)
      BY <1>2, <2>3, FloorIsSent
    <3> HIDE DEF Whole
    <3>2. QED
      BY <2>1, <2>2, <2>3, <3>1 DEF CompleteCheckpoint
  <2>4. ASSUME NEW p \in Player, PollAndMigrate(p) PROVE WholeCheckpoint'
    <3>1. Whole(Handoff(p))
      BY <1>2, HandoffIsWhole DEF SInv
    <3> HIDE DEF Whole
    <3>2. QED
      BY <2>1, <2>2, <2>4, <3>1 DEF PollAndMigrate
  <2>5. \/ UNCHANGED installed
        \/ \E p \in Player, m \in net : CompleteCheckpoint(p, m)
        \/ \E p \in Player : PollAndMigrate(p)
    BY <1>2 DEF Next, vars, Receive, Heartbeat, Leave, Crash, AdvanceTick, Overdue, FallSilent,
                AcceptOrdinary, AcceptFragment
  <2>6. QED
    BY <2>2, <2>3, <2>4, <2>5
<1>3. QED
  BY <1>1, <1>2, SInvariant, PTL DEF Spec

\* No counter falls behind a replay floor, although a floor jumps over all the
\* fragments of a checkpoint at once.
THEOREM M3EnvelopesStayFresh == Spec => []NextEnvelopeIsFresh
<1>1. Init => NextEnvelopeIsFresh
  BY DEF Init, SessionInit, NextEnvelopeIsFresh
<1>2. ASSUME SInv, SInv', NextEnvelopeIsFresh, [Next]_vars PROVE NextEnvelopeIsFresh'
  <2>1. SUFFICES ASSUME NEW p \in Player, NEW q \in Player
                 PROVE  lastSequence'[p][q] < nextSequence'[q]
    BY DEF NextEnvelopeIsFresh
  <2>2. /\ nextSequence[q] \in Nat /\ nextSequence'[q] \in Nat
        /\ lastSequence'[p][q] \in Nat
    BY <1>2 DEF SInv, TypeOK, SessionTypeOK
  <2>3. nextSequence[q] <= nextSequence'[q]
    BY <1>2, M3CountersStep DEF SInv
  <2>4. lastSequence'[p][q] < nextSequence[q]
    BY <1>2, M3FloorStep DEF SInv, SentBefore, NextEnvelopeIsFresh
  <2>5. QED
    BY <2>2, <2>3, <2>4
<1>3. QED
  BY <1>1, <1>2, SInvariant, PTL DEF Spec

\* A player that reigns signs the state of its own epoch: its bank was restored
\* there by its own checkpoint or installed with the handoff, and never runs ahead.
THEOREM BankFollowsReign == Spec => []BankFitsReign
<1>1. Init => BankFitsReign
  BY DEF Init, SessionInit, BankFitsReign
<1>2. ASSUME SInv, BankFitsReign, [Next]_vars PROVE BankFitsReign'
  <2> USE DEF SInv, TypeOK, SessionTypeOK
  <2>1. ASSUME NEW p \in Player, PollAndMigrate(p) PROVE BankFitsReign'
    <3>1. /\ authority' = [authority EXCEPT ![p] = Successor(Survivors(p))]
          /\ epoch' = [epoch EXCEPT ![p] = @ + 1]
      BY <2>1 DEF PollAndMigrate
    <3>2. CASE Successor(Survivors(p)) = p
      <4>1. bank' = [bank EXCEPT ![p] = [epoch |-> epoch[p] + 1, tick |-> CheckpointTick(p)]]
        BY <2>1, <3>2 DEF PollAndMigrate, Restored
      <4>2. QED
        BY <1>2, <3>1, <4>1 DEF BankFitsReign
    <3>3. CASE Successor(Survivors(p)) # p
      <4>1. bank' = bank
        BY <2>1, <3>3 DEF PollAndMigrate
      <4>2. QED
        BY <1>2, <3>1, <3>3, <4>1 DEF BankFitsReign
    <3>4. QED
      BY <3>2, <3>3
  <2>2. ASSUME NEW p \in Player, NEW m \in net, CompleteCheckpoint(p, m) PROVE BankFitsReign'
    <3>1. CASE UNCHANGED <<authority, epoch, bank>>
      BY <1>2, <3>1 DEF BankFitsReign
    <3>2. CASE /\ authority' = [authority EXCEPT ![p] = m.sender]
               /\ epoch' = [epoch EXCEPT ![p] = m.epoch]
               /\ bank' = [bank EXCEPT ![p] = [epoch |-> m.epoch, tick |-> m.tick]]
      <4>1. m.epoch \in Nat
        BY <1>2 DEF Heartbeats, Fragments
      <4>2. QED
        BY <1>2, <3>2, <4>1 DEF BankFitsReign
    <3>3. QED
      BY <2>2, <3>1, <3>2 DEF CompleteCheckpoint
  <2>3. ASSUME NEW p \in Player, AdvanceTick(p) PROVE BankFitsReign'
    <3>1. UNCHANGED <<authority, epoch>>
      BY <2>3 DEF AdvanceTick, sessionVars
    <3>2. \A q \in Player : bank'[q].epoch = bank[q].epoch
      BY <1>2, <2>3 DEF AdvanceTick
    <3>3. QED
      BY <1>2, <3>1, <3>2 DEF BankFitsReign
  <2>4. ASSUME NEW p \in Player,
               \/ Heartbeat(p) \/ Leave(p) \/ Crash(p) \/ Overdue(p)
               \/ \E q \in Player : FallSilent(p, q)
               \/ \E m \in net : AcceptOrdinary(p, m) \/ AcceptFragment(p, m)
        PROVE  UNCHANGED <<authority, epoch, bank>>
    BY <2>4 DEF Heartbeat, Leave, Crash, Overdue, FallSilent, Lapse, AcceptOrdinary,
                AcceptFragment, sessionVars
  <2>5. CASE UNCHANGED <<authority, epoch, bank>>
    BY <1>2, <2>5 DEF BankFitsReign
  <2>6. UNCHANGED vars => UNCHANGED <<authority, epoch, bank>>
    BY DEF vars, sessionVars
  <2>7. QED
    BY <1>2, <2>1, <2>2, <2>3, <2>4, <2>5, <2>6 DEF Next, Receive
<1>3. QED
  BY <1>1, <1>2, SInvariant, PTL DEF Spec

-----------------------------------------------------------------------------
(* What a follower shows: THEOREM RidersAreShown.                            *)

\* Snapshots have the same fields, a buffer has room for one, lengths are numbers.
ReplicationBounds ==
    /\ \E F, V : Snapshot \subseteq [F -> V]
    /\ InterpolationTicks \in Nat /\ MaxExtrapolationTicks \in Nat /\ SnapTicks \in Nat
    /\ Capacity \in Nat \ {0} /\ MaxEpoch \in Nat \ {0}

LEMMA ReplicationCardinality == \A S : Replication!Cardinality(S) = Cardinality(S)
BY DEF Replication!Cardinality, Cardinality

Entry(e, t, s) == [epoch |-> e, tick |-> t, snapshot |-> s]

\* One snapshot at most is published at a tick of an epoch.
Chronicle(T, src) ==
    /\ \A x \in T : \E e \in Replication!Epoch, t \in Nat \ {0}, s \in Snapshot :
                       x = Entry(e, t, s) /\ t <= src[e].tick
    /\ \A x, y \in T : x.epoch = y.epoch /\ x.tick = y.tick => x = y

\* A keyframe, or the actor shown, of epoch e is one that was published.
Frame(k, e, T) ==
    \/ k = Replication!None
    \/ \E t \in Nat \ {0}, s \in Snapshot :
          k = [tick |-> t, snapshot |-> s] /\ Entry(e, t, s) \in T

Source(x, e, T) ==
    /\ x = [tick |-> x.tick, next |-> x.next, keyframe |-> x.keyframe]
    /\ x.tick \in Nat /\ x.next \in Nat \ {0} /\ Frame(x.keyframe, e, T)

Sources(src, T) ==
    /\ src = [e \in Replication!Epoch |-> src[e]]
    /\ \A e \in Replication!Epoch : Source(src[e], e, T)

\* An envelope that was sent, and the order of those of an epoch.
Sent(m, src, T) ==
    /\ m.epoch \in Replication!Epoch /\ m.sequence \in Nat /\ m.sequence < src[m.epoch].next
    /\ m.tick \in Nat /\ m.tick <= src[m.epoch].tick
    /\ m.kind = "Actor" =>
          m.snapshot \in Snapshot /\ m.tick # 0 /\ Entry(m.epoch, m.tick, m.snapshot) \in T
    /\ m.kind = "Delta" =>
          /\ m.tick # 0
          /\ \E b, s \in Snapshot :
               /\ Entry(m.epoch, m.base, b) \in T /\ Entry(m.epoch, m.tick, s) \in T
               /\ m.changed = Replication!Between(b, s)

Ordered(N) == \A m, n \in N : m.epoch = n.epoch /\ m.sequence < n.sequence => m.tick <= n.tick

\* Whatever the follower may still accept is no older than t.
Behind(t, e, floor, N, src) ==
    /\ t \in Nat /\ t <= src[e].tick
    /\ \A m \in N : m.epoch = e /\ m.sequence > floor => t <= m.tick

Session(f, N, src, T) ==
    /\ f = [epoch |-> f.epoch, last |-> f.last, keyframe |-> f.keyframe, actor |-> f.actor,
            pending |-> f.pending, match |-> f.match]
    /\ f.epoch \in Replication!Epoch /\ f.last \in [Replication!Epoch -> Nat]
    /\ Frame(f.keyframe, f.epoch, T) /\ Frame(f.actor, f.epoch, T)
    /\ Behind(f.actor.tick, f.epoch, f.last[f.epoch], N, src)
    /\ Behind(f.match.tick, f.epoch, f.last[f.epoch], N, src)
    /\ f.pending = [tick |-> f.pending.tick, floor |-> f.pending.floor, got |-> f.pending.got]
    /\ f.pending.got \subseteq N /\ \A g \in f.pending.got : g.epoch = f.epoch

Shown == [tick : Nat, pose : {s.pose : s \in Snapshot}]

Rising(b) == \A i, j \in 1..Len(b) : i < j => b[i].tick < b[j].tick

Near(b, render) ==
    b # <<>> => /\ render <= b[Len(b)].tick + MaxExtrapolationTicks
                /\ Replication!Target(b[Len(b)].tick) - render <= SnapTicks

Rider(r) ==
    /\ r = [buffer |-> r.buffer, render |-> r.render]
    /\ r.buffer \in Seq(Shown) /\ r.render \in Int /\ Rising(r.buffer) /\ Near(r.buffer, r.render)

ReplicationInv ==
    /\ Chronicle(truth, sources) /\ Sources(sources, truth)
    /\ (\A m \in net : Sent(m, sources, truth)) /\ Ordered(net)
    /\ Session(follower, net, sources, truth) /\ Rider(rider)

\* A delta restores the snapshot it was taken of, on its own base.
LEMMA DeltaRestores ==
    ASSUME ReplicationBounds, NEW b \in Snapshot, NEW s \in Snapshot
    PROVE  Replication!Apply(Replication!Between(b, s), b) = s
<1>1. PICK F, V : Snapshot \subseteq [F -> V]
  BY DEF ReplicationBounds
<1>2. b \in [F -> V] /\ s \in [F -> V]
  BY <1>1
<1> QED
  BY <1>2 DEF Replication!Apply, Replication!Between

LEMMA FrameGrows ==
    ASSUME NEW k, NEW e, NEW T, NEW U, T \subseteq U, Frame(k, e, T)
    PROVE  Frame(k, e, U)
BY DEF Frame

\* What was published stays so, and what is published next is later.
LEMMA NewEnvelopes ==
    ASSUME ReplicationBounds, ReplicationInv, NEW e \in Replication!Epoch,
           NEW S \in SUBSET Snapshot, NEW form \in {"none", "whole", "split"},
           S = {} \/ \E s \in Snapshot : S = {s}, Replication!AdvanceTick(e, S, form)
    PROVE  /\ \A m \in net' : m \in net
                \/ /\ m.epoch = e /\ m.sequence \in Nat /\ m.sequence >= sources[e].next
                   /\ m.sequence < sources'[e].next
                   /\ m.tick = sources[e].tick + 1
                   /\ m.kind = "Actor" =>
                         m.snapshot \in Snapshot /\ Entry(e, m.tick, m.snapshot) \in truth'
                   /\ m.kind = "Delta" =>
                         \E b, s \in Snapshot :
                            /\ Entry(e, m.base, b) \in truth /\ Entry(e, m.tick, s) \in truth'
                            /\ m.changed = Replication!Between(b, s)
           /\ net \subseteq net' /\ truth \subseteq truth'
           /\ sources' = [sources EXCEPT ![e] = sources'[e]]
           /\ sources'[e] = [tick |-> sources'[e].tick, next |-> sources'[e].next,
                             keyframe |-> sources'[e].keyframe]
           /\ sources'[e].tick = sources[e].tick + 1
           /\ sources'[e].next \in Nat /\ sources'[e].next >= sources[e].next
           /\ Frame(sources'[e].keyframe, e, truth')
           /\ \A x \in truth' : x \in truth \/ \E s \in S : x = Entry(e, sources[e].tick + 1, s)
<1> DEFINE t == sources[e].tick + 1
           actor == {Replication!ActorEnvelope(e, t, s) : s \in S}
           next == sources[e].next + Replication!Cardinality(S)
           envelopes == Replication!MatchEnvelopes(e, t, next, form)
           len == Replication!MatchLength(form)
<1>1. /\ net' = net \cup actor \cup envelopes
      /\ truth' = truth \cup {[epoch |-> e, tick |-> t, snapshot |-> s] : s \in S}
      /\ sources' = [sources EXCEPT ![e] =
            [tick |-> t, next |-> next + len,
             keyframe |-> IF \E m \in actor : m.kind = "Actor"
                          THEN [tick |-> t, snapshot |-> CHOOSE s \in S : TRUE]
                          ELSE @.keyframe]]
  BY DEF Replication!AdvanceTick
<1>2. sources[e].tick \in Nat /\ sources[e].next \in Nat \ {0} /\ Frame(sources[e].keyframe, e, truth)
      /\ sources = [d \in Replication!Epoch |-> sources[d]]
  BY DEF ReplicationInv, Sources, Source
<1>3. /\ S = {} => Replication!Cardinality(S) = 0
      /\ S # {} => Replication!Cardinality(S) = 1 /\ \E s \in Snapshot : S = {s}
  BY ReplicationCardinality, FS_EmptySet, FS_Singleton
<1>4. next \in Nat /\ next >= sources[e].next /\ (S # {} => next = sources[e].next + 1)
  BY <1>2, <1>3
<1>5. len \in Nat /\ \A m \in envelopes :
         /\ m.epoch = e /\ m.sequence \in Nat /\ m.sequence >= next /\ m.sequence < next + len
         /\ m.tick = t /\ m.kind \in {"Match", "Fragment"}
  <2> HIDE DEF next, t
  <2>1. FragmentCount \in Nat
    BY M3Assumption
  <2>2. CASE form = "none"
    BY <1>4, <2>2 DEF Replication!MatchEnvelopes, Replication!MatchLength
  <2>3. CASE form = "whole"
    BY <1>4, <2>3 DEF Replication!MatchEnvelopes, Replication!MatchLength
  <2>4. CASE form = "split"
    <3>1. len = FragmentCount + 1
      BY <2>4 DEF Replication!MatchLength
    <3>2. envelopes = {[kind |-> "Fragment", epoch |-> e, sequence |-> next + i,
                        tick |-> t, index |-> i] : i \in 1..FragmentCount}
      BY <2>4 DEF Replication!MatchEnvelopes
    <3> HIDE DEF envelopes, len
    <3>3. ASSUME NEW i \in 1..FragmentCount
          PROVE  next + i \in Nat /\ next + i >= next /\ next + i < next + len
      BY <1>4, <2>1, <3>1
    <3> QED
      BY <2>1, <3>1, <3>2, <3>3
  <2> QED
    BY <2>2, <2>3, <2>4
<1>6. \A x \in truth' : x \in truth \/ \E s \in S : x = Entry(e, t, s)
  BY <1>1 DEF Entry
<1>7. \A s \in S : Entry(e, t, s) \in truth'
  BY <1>1 DEF Entry
<1>8. \A m \in actor :
         /\ m.epoch = e /\ m.sequence \in Nat /\ m.sequence >= sources[e].next
         /\ m.sequence < next /\ m.tick = t
         /\ m.kind = "Actor" => m.snapshot \in S
         /\ m.kind = "Delta" =>
               \E b \in Snapshot, s \in S :
                  Entry(e, m.base, b) \in truth /\ m.changed = Replication!Between(b, s)
  <2> SUFFICES ASSUME NEW s \in S, NEW m, m = Replication!ActorEnvelope(e, t, s)
               PROVE  /\ m.epoch = e /\ m.sequence \in Nat /\ m.sequence >= sources[e].next
                      /\ m.sequence < next /\ m.tick = t
                      /\ m.kind = "Actor" => m.snapshot \in S
                      /\ m.kind = "Delta" =>
                            \E b \in Snapshot, x \in S :
                               /\ Entry(e, m.base, b) \in truth
                               /\ m.changed = Replication!Between(b, x)
    OBVIOUS
  <2>1. next = sources[e].next + 1
    BY <1>4
  <2> HIDE DEF next, t
  <2>2. CASE Replication!UsesDelta(sources[e], t)
    <3>1. m = [kind |-> "Delta", epoch |-> e, sequence |-> sources[e].next, tick |-> t,
               base |-> sources[e].keyframe.tick,
               changed |-> Replication!Between(sources[e].keyframe.snapshot, s)]
      BY <2>2 DEF Replication!ActorEnvelope
    <3>2. PICK k \in Nat \ {0}, b \in Snapshot :
             sources[e].keyframe = [tick |-> k, snapshot |-> b] /\ Entry(e, k, b) \in truth
      BY <1>2, <2>2 DEF Frame, Replication!UsesDelta
    <3>3. m.base = k /\ m.changed = Replication!Between(b, s)
      BY <3>1, <3>2
    <3> QED
      BY <1>2, <2>1, <3>1, <3>2, <3>3
  <2>3. CASE ~Replication!UsesDelta(sources[e], t)
    <3>1. m = [kind |-> "Actor", epoch |-> e, sequence |-> sources[e].next, tick |-> t,
               snapshot |-> s]
      BY <2>3 DEF Replication!ActorEnvelope
    <3> QED
      BY <1>2, <2>1, <3>1
  <2> QED
    BY <2>2, <2>3
<1>9. /\ sources' = [sources EXCEPT ![e] = sources'[e]]
      /\ sources'[e].tick = t /\ sources'[e].next = next + len
      /\ sources'[e] = [tick |-> sources'[e].tick, next |-> sources'[e].next,
                        keyframe |-> sources'[e].keyframe]
      /\ sources'[e].keyframe = IF \E m \in actor : m.kind = "Actor"
                                THEN [tick |-> t, snapshot |-> CHOOSE s \in S : TRUE]
                                ELSE sources[e].keyframe
  <2> HIDE DEF next, t, len, actor
  <2> QED
    BY <1>1, <1>2
<1>10. Frame(sources'[e].keyframe, e, truth')
  <2>1. CASE \E m \in actor : m.kind = "Actor"
    <3>1. (CHOOSE s \in S : TRUE) \in S
      BY <2>1
    <3>2. t \in Nat \ {0}
      BY <1>2
    <3> HIDE DEF t, actor
    <3> QED
      BY <1>7, <1>9, <2>1, <3>1, <3>2 DEF Frame
  <2>2. CASE ~\E m \in actor : m.kind = "Actor"
    BY <1>1, <1>2, <1>9, <2>2, FrameGrows
  <2> QED
    BY <2>1, <2>2
<1> HIDE DEF t, actor, next, envelopes, len
<1>11. ASSUME NEW m \in net', m \notin net
       PROVE  /\ m.epoch = e /\ m.sequence \in Nat /\ m.sequence >= sources[e].next
              /\ m.sequence < sources'[e].next
              /\ m.tick = t
              /\ m.kind = "Actor" =>
                    m.snapshot \in Snapshot /\ Entry(e, m.tick, m.snapshot) \in truth'
              /\ m.kind = "Delta" =>
                    \E b, s \in Snapshot :
                       /\ Entry(e, m.base, b) \in truth /\ Entry(e, m.tick, s) \in truth'
                       /\ m.changed = Replication!Between(b, s)
  <2>1. CASE m \in actor
    BY <1>2, <1>4, <1>5, <1>7, <1>8, <1>9, <2>1
  <2>2. CASE m \in envelopes
    BY <1>2, <1>4, <1>5, <1>9, <2>2
  <2> QED
    BY <1>1, <1>11, <2>1, <2>2
<1> QED
  BY <1>1, <1>2, <1>4, <1>5, <1>6, <1>9, <1>10, <1>11 DEF t

LEMMA PublishKeeps ==
    ASSUME ReplicationBounds, ReplicationInv, NEW e \in Replication!Epoch,
           NEW S \in SUBSET Snapshot, NEW form \in {"none", "whole", "split"},
           S = {} \/ \E s \in Snapshot : S = {s}, Replication!AdvanceTick(e, S, form)
    PROVE  ReplicationInv'
<1> DEFINE t == sources[e].tick + 1
<1>1. /\ \A m \in net' : m \in net
           \/ /\ m.epoch = e /\ m.sequence \in Nat /\ m.sequence >= sources[e].next
              /\ m.sequence < sources'[e].next
              /\ m.tick = t
              /\ m.kind = "Actor" =>
                    m.snapshot \in Snapshot /\ Entry(e, m.tick, m.snapshot) \in truth'
              /\ m.kind = "Delta" =>
                    \E b, s \in Snapshot :
                       /\ Entry(e, m.base, b) \in truth /\ Entry(e, m.tick, s) \in truth'
                       /\ m.changed = Replication!Between(b, s)
      /\ net \subseteq net' /\ truth \subseteq truth'
      /\ sources' = [sources EXCEPT ![e] = sources'[e]]
      /\ sources'[e] = [tick |-> sources'[e].tick, next |-> sources'[e].next,
                        keyframe |-> sources'[e].keyframe]
      /\ sources'[e].tick = t
      /\ sources'[e].next \in Nat /\ sources'[e].next >= sources[e].next
      /\ Frame(sources'[e].keyframe, e, truth')
      /\ \A x \in truth' : x \in truth \/ \E s \in S : x = Entry(e, t, s)
  BY NewEnvelopes
<1>2. UNCHANGED <<follower, rider>>
  BY DEF Replication!AdvanceTick
<1>3. /\ Chronicle(truth, sources) /\ Sources(sources, truth)
      /\ (\A m \in net : Sent(m, sources, truth)) /\ Ordered(net)
      /\ Session(follower, net, sources, truth) /\ Rider(rider)
  BY DEF ReplicationInv
<1>4. /\ \A d \in Replication!Epoch : sources[d].tick \in Nat /\ sources[d].next \in Nat \ {0}
      /\ sources = [d \in Replication!Epoch |-> sources[d]]
  BY <1>3 DEF Sources, Source
<1>5. /\ sources' = [d \in Replication!Epoch |-> sources'[d]]
      /\ \A d \in Replication!Epoch \ {e} : sources'[d] = sources[d]
  BY <1>1, <1>4
<1>6. \A d \in Replication!Epoch :
         sources'[d].tick \in Nat /\ sources'[d].tick >= sources[d].tick
         /\ sources'[d].next \in Nat \ {0} /\ sources'[d].next >= sources[d].next
  BY <1>1, <1>4, <1>5
<1>7. \A x \in truth : x.epoch = e => x.tick <= sources[e].tick /\ x.tick \in Nat
  <2> SUFFICES ASSUME NEW x \in truth, x.epoch = e PROVE x.tick <= sources[e].tick /\ x.tick \in Nat
    OBVIOUS
  <2>1. PICK d \in Replication!Epoch, k \in Nat \ {0}, s \in Snapshot :
           x = Entry(d, k, s) /\ k <= sources[d].tick
    BY <1>3 DEF Chronicle
  <2> QED
    BY <2>1 DEF Entry
<1>8. Chronicle(truth', sources')
  <2>1. ASSUME NEW x \in truth'
        PROVE  \E d \in Replication!Epoch, k \in Nat \ {0}, s \in Snapshot :
                  x = Entry(d, k, s) /\ k <= sources'[d].tick
    <3>1. CASE x \in truth
      <4>1. PICK d \in Replication!Epoch, k \in Nat \ {0}, s \in Snapshot :
               x = Entry(d, k, s) /\ k <= sources[d].tick
        BY <1>3, <3>1 DEF Chronicle
      <4>2. k <= sources'[d].tick
        BY <1>4, <1>6, <4>1
      <4> QED
        BY <4>1, <4>2
    <3>2. CASE \E s \in S : x = Entry(e, t, s)
      <4>1. t \in Nat \ {0} /\ t <= sources'[e].tick
        BY <1>1, <1>4
      <4> QED
        BY <3>2, <4>1
    <3> QED
      BY <1>1, <3>1, <3>2
  <2>2. ASSUME NEW x \in truth', NEW y \in truth', x.epoch = y.epoch, x.tick = y.tick
        PROVE  x = y
    <3>1. \A s : Entry(e, t, s).epoch = e /\ Entry(e, t, s).tick = t
      BY DEF Entry
    <3>2. CASE x \in truth /\ y \in truth
      BY <1>3, <2>2, <3>2 DEF Chronicle
    <3>3. CASE x \in truth /\ \E s \in S : y = Entry(e, t, s)
      BY <1>4, <1>7, <2>2, <3>1, <3>3
    <3>4. CASE y \in truth /\ \E s \in S : x = Entry(e, t, s)
      BY <1>4, <1>7, <2>2, <3>1, <3>4
    <3>5. CASE (\E s \in S : x = Entry(e, t, s)) /\ (\E s \in S : y = Entry(e, t, s))
      BY <3>5
    <3> QED
      BY <1>1, <3>2, <3>3, <3>4, <3>5
  <2> QED
    BY <2>1, <2>2 DEF Chronicle
<1>9. Sources(sources', truth')
  <2> SUFFICES ASSUME NEW d \in Replication!Epoch PROVE Source(sources'[d], d, truth')
    BY <1>5 DEF Sources
  <2>1. CASE d = e
    BY <1>1, <1>6, <2>1 DEF Source
  <2>2. CASE d # e
    <3>1. Source(sources[d], d, truth)
      BY <1>3 DEF Sources
    <3>2. Frame(sources[d].keyframe, d, truth')
      BY <1>1, <3>1, FrameGrows DEF Source
    <3> QED
      BY <1>5, <2>2, <3>1, <3>2 DEF Source
  <2> QED
    BY <2>1, <2>2
<1>10. ASSUME NEW m \in net' PROVE Sent(m, sources', truth')
  <2>1. CASE m \in net
    <3>1. Sent(m, sources, truth)
      BY <1>3, <2>1
    <3>2. m.epoch \in Replication!Epoch
      BY <3>1 DEF Sent
    <3>3. m.sequence < sources'[m.epoch].next /\ m.tick <= sources'[m.epoch].tick
      BY <1>4, <1>6, <3>1, <3>2 DEF Sent
    <3> QED
      BY <1>1, <3>1, <3>3 DEF Sent
  <2>2. CASE m \notin net
    <3>1. t \in Nat /\ t # 0 /\ t <= t
      BY <1>4
    <3> HIDE DEF t
    <3> QED
      BY <1>1, <2>2, <3>1 DEF Sent
  <2> QED
    BY <2>1, <2>2
<1>11. Ordered(net')
  <2> SUFFICES ASSUME NEW m \in net', NEW n \in net', m.epoch = n.epoch, m.sequence < n.sequence
               PROVE  m.tick <= n.tick
    BY DEF Ordered
  <2>1. CASE m \in net /\ n \in net
    BY <1>3, <2>1 DEF Ordered
  <2>2. CASE m \in net /\ n \notin net
    <3>1. m.tick \in Nat /\ m.tick <= sources[e].tick /\ n.tick = t
      BY <1>1, <1>3, <2>2 DEF Sent
    <3> QED
      BY <1>4, <3>1
  <2>3. CASE m \notin net /\ n \in net
    <3>1. n.sequence \in Nat /\ n.sequence < sources[e].next
          /\ m.sequence \in Nat /\ m.sequence >= sources[e].next
      BY <1>1, <1>3, <2>3 DEF Sent
    <3> QED
      BY <1>4, <3>1
  <2>4. CASE m \notin net /\ n \notin net
    BY <1>1, <1>4, <2>4
  <2> QED
    BY <2>1, <2>2, <2>3, <2>4
<1>12. ASSUME NEW k, Behind(k, follower.epoch, follower.last[follower.epoch], net, sources)
       PROVE  Behind(k, follower.epoch, follower.last[follower.epoch], net', sources')
  <2>1. k \in Nat /\ follower.epoch \in Replication!Epoch /\ k <= sources[follower.epoch].tick
    BY <1>3, <1>12 DEF Behind, Session
  <2>2. k <= sources'[follower.epoch].tick
    BY <1>4, <1>6, <2>1
  <2>3. ASSUME NEW m \in net', m.epoch = follower.epoch, m.sequence > follower.last[follower.epoch]
        PROVE  k <= m.tick
    <3>1. CASE m \in net
      BY <1>12, <2>3, <3>1 DEF Behind
    <3>2. CASE m \notin net
      <4>1. m.epoch = e /\ m.tick = t
        BY <1>1, <3>2
      <4> QED
        BY <1>4, <2>1, <2>3, <4>1
    <3> QED
      BY <3>1, <3>2
  <2> QED
    BY <2>1, <2>2, <2>3 DEF Behind
<1>13. Session(follower, net', sources', truth')
  <2>1. /\ Frame(follower.keyframe, follower.epoch, truth')
        /\ Frame(follower.actor, follower.epoch, truth')
    BY <1>1, <1>3, FrameGrows DEF Session
  <2>2. follower.pending.got \subseteq net'
    BY <1>1, <1>3 DEF Session
  <2> QED
    BY <1>3, <1>12, <2>1, <2>2 DEF Session
<1> QED
  BY <1>2, <1>3, <1>8, <1>9, <1>10, <1>11, <1>13 DEF ReplicationInv

\* A rider is shown a snapshot: the buffer stays in order and the render clock near.
LEMMA PushedKeeps ==
    ASSUME ReplicationBounds, NEW r, Rider(r), NEW t \in Nat, NEW s \in Snapshot
    PROVE  Rider(Replication!Pushed(r, t, s.pose))
<1> DEFINE b == r.buffer
           x == [tick |-> t, pose |-> s.pose]
           longer == Append(b, x)
           cut == IF Len(longer) > Capacity THEN Tail(longer) ELSE longer
           target == Replication!Target(t)
           render == IF b = <<>> \/ Replication!Drifted(r.render, target) THEN target ELSE r.render
<1>1. b \in Seq(Shown) /\ Len(b) \in Nat /\ r.render \in Int /\ Rising(b) /\ Near(b, r.render)
  BY DEF Rider
<1>2. CASE b # <<>> /\ t <= Replication!Latest(b)
  BY <1>2 DEF Replication!Pushed
<1>3. CASE ~(b # <<>> /\ t <= Replication!Latest(b))
  <2>1. Replication!Pushed(r, t, s.pose) = [buffer |-> cut, render |-> render]
    BY <1>3 DEF Replication!Pushed
  <2>2. x \in Shown /\ x.tick = t
    BY DEF Shown
  <2> HIDE DEF x
  <2>3. /\ longer \in Seq(Shown) /\ Len(longer) = Len(b) + 1 /\ longer[Len(b) + 1] = x
        /\ \A i \in 1..Len(b) : longer[i] = b[i]
    BY <1>1, <2>2
  <2>4. b # <<>> => Len(b) \in 1..Len(b) /\ b[Len(b)].tick \in Nat /\ b[Len(b)].tick < t
    <3> SUFFICES ASSUME b # <<>> PROVE Len(b) \in 1..Len(b) /\ b[Len(b)].tick \in Nat /\ b[Len(b)].tick < t
      OBVIOUS
    <3>1. Len(b) \in 1..Len(b)
      BY <1>1
    <3>2. b[Len(b)] \in Shown
      BY <1>1, <3>1
    <3>3. b[Len(b)].tick \in Nat
      BY <3>2 DEF Shown
    <3> QED
      BY <1>3, <3>1, <3>3 DEF Replication!Latest
  <2>5. \A i \in 1..Len(b) : b[i].tick \in Nat /\ b[i].tick < t
    <3> SUFFICES ASSUME NEW i \in 1..Len(b) PROVE b[i].tick \in Nat /\ b[i].tick < t
      OBVIOUS
    <3>1. b[i] \in Shown
      BY <1>1
    <3>2. b[i].tick \in Nat
      BY <3>1 DEF Shown
    <3>3. b # <<>> /\ (i = Len(b) \/ i < Len(b))
      BY <1>1
    <3>4. i < Len(b) => b[i].tick < b[Len(b)].tick
      BY <1>1, <2>4, <3>3 DEF Rising
    <3> QED
      BY <2>4, <3>2, <3>3, <3>4
  <2> HIDE DEF longer
  <2>6. Rising(longer)
    <3> SUFFICES ASSUME NEW i \in 1..Len(longer), NEW j \in 1..Len(longer), i < j
                 PROVE  longer[i].tick < longer[j].tick
      BY DEF Rising
    <3>1. i \in 1..Len(b) /\ (j \in 1..Len(b) \/ j = Len(b) + 1)
      BY <1>1, <2>3
    <3> QED
      BY <1>1, <2>2, <2>3, <2>5, <3>1 DEF Rising
  <2>7. /\ cut \in Seq(Shown) /\ Len(cut) \in Nat /\ cut # <<>> /\ cut[Len(cut)] = x /\ Rising(cut)
    <3>1. CASE Len(longer) > Capacity
      <4>1. Capacity \in Nat \ {0}
        BY DEF ReplicationBounds
      <4>2. /\ cut \in Seq(Shown) /\ Len(cut) = Len(longer) - 1
            /\ \A i \in 1..Len(cut) : cut[i] = longer[i + 1] /\ i + 1 \in 1..Len(longer)
        <5>1. longer # <<>>
          BY <1>1, <2>3
        <5>2. cut = Tail(longer)
          BY <3>1
        <5> QED
          BY <1>1, <2>3, <5>1, <5>2
      <4>3. Len(cut) = Len(b) /\ Len(b) >= 1
        BY <1>1, <2>3, <3>1, <4>1, <4>2
      <4> HIDE DEF cut
      <4>4. cut[Len(cut)] = x /\ cut # <<>>
        <5>1. Len(b) \in 1..Len(cut)
          BY <1>1, <4>3
        <5>2. cut[Len(b)] = longer[Len(b) + 1]
          BY <4>2, <5>1
        <5>3. cut # <<>>
          BY <1>1, <4>3
        <5> QED
          BY <2>3, <4>3, <5>2, <5>3
      <4>5. Rising(cut)
        <5> SUFFICES ASSUME NEW i \in 1..Len(cut), NEW j \in 1..Len(cut), i < j
                     PROVE  cut[i].tick < cut[j].tick
          BY DEF Rising
        <5>1. i + 1 < j + 1
          OBVIOUS
        <5> QED
          BY <2>6, <4>2, <5>1 DEF Rising
      <4> QED
        BY <1>1, <4>2, <4>3, <4>4, <4>5
    <3>2. CASE ~(Len(longer) > Capacity)
      BY <1>1, <2>3, <2>6, <3>2
    <3> QED
      BY <3>1, <3>2
  <2> HIDE DEF cut
  <2>8. target \in Int /\ target <= t
    BY DEF ReplicationBounds, Replication!Target
  <2>9. render \in Int
    BY <1>1, <2>8
  <2>10. render <= t + MaxExtrapolationTicks /\ target - render <= SnapTicks
    <3>1. MaxExtrapolationTicks \in Nat /\ SnapTicks \in Nat
      BY DEF ReplicationBounds
    <3>2. CASE b = <<>> \/ Replication!Drifted(r.render, target)
      <4>1. render = target
        BY <3>2
      <4> HIDE DEF target, render
      <4> QED
        BY <2>8, <3>1, <4>1
    <3>3. CASE ~(b = <<>> \/ Replication!Drifted(r.render, target))
      <4>1. render = r.render /\ b # <<>>
        BY <3>3
      <4>2. target - r.render <= SnapTicks
        BY <1>1, <2>8, <3>1, <3>3 DEF Replication!Drifted
      <4>3. r.render <= b[Len(b)].tick + MaxExtrapolationTicks
        BY <1>1, <4>1 DEF Near
      <4> HIDE DEF target, render, b
      <4> QED
        BY <1>1, <2>4, <3>1, <4>1, <4>2, <4>3
    <3> QED
      BY <3>2, <3>3
  <2> HIDE DEF render
  <2>11. Near(cut, render)
    BY <2>2, <2>7, <2>10 DEF Near
  <2> QED
    BY <2>1, <2>7, <2>9, <2>11 DEF Rider
<1> QED
  BY <1>2, <1>3

LEMMA BehindStays ==
    ASSUME ReplicationInv, NEW t, NEW e, NEW low \in Nat, NEW high \in Nat, low <= high,
           Behind(t, e, low, net, sources)
    PROVE  Behind(t, e, high, net, sources)
<1>1. \A m \in net : m.sequence \in Nat
  BY DEF ReplicationInv, Sent
<1> QED
  BY <1>1 DEF Behind

LEMMA BehindAccepted ==
    ASSUME ReplicationInv, NEW m \in net, NEW floor \in Nat, m.sequence <= floor
    PROVE  Behind(m.tick, m.epoch, floor, net, sources)
<1>1. \A n \in net : n.sequence \in Nat
  BY DEF ReplicationInv, Sent
<1>2. m.tick \in Nat /\ m.tick <= sources[m.epoch].tick /\ m.sequence \in Nat
  BY DEF ReplicationInv, Sent
<1>3. ASSUME NEW n \in net, n.epoch = m.epoch, n.sequence > floor PROVE m.tick <= n.tick
  <2>1. m.sequence < n.sequence
    BY <1>1, <1>2, <1>3
  <2> QED
    BY <1>3, <2>1 DEF ReplicationInv, Ordered
<1> QED
  BY <1>2, <1>3 DEF Behind

\* What the follower has of its authority, with its floor raised to n.
LEMMA FollowerHas ==
    ASSUME ReplicationInv
    PROVE  /\ follower = [epoch |-> follower.epoch, last |-> follower.last,
                          keyframe |-> follower.keyframe, actor |-> follower.actor,
                          pending |-> follower.pending, match |-> follower.match]
           /\ follower.epoch \in Replication!Epoch /\ follower.last \in [Replication!Epoch -> Nat]
           /\ follower.last[follower.epoch] \in Nat
           /\ follower.actor.tick \in Nat /\ follower.match.tick \in Nat
           /\ \A n \in Nat : n >= follower.last[follower.epoch] =>
                 /\ Behind(follower.actor.tick, follower.epoch, n, net, sources)
                 /\ Behind(follower.match.tick, follower.epoch, n, net, sources)
<1>1. Session(follower, net, sources, truth)
  BY DEF ReplicationInv
<1>2. follower.last[follower.epoch] \in Nat
  BY <1>1 DEF Session
<1>3. follower.actor.tick \in Nat /\ follower.match.tick \in Nat
  BY <1>1 DEF Session, Behind
<1>4. ASSUME NEW n \in Nat, n >= follower.last[follower.epoch]
      PROVE  /\ Behind(follower.actor.tick, follower.epoch, n, net, sources)
             /\ Behind(follower.match.tick, follower.epoch, n, net, sources)
  <2>1. follower.last[follower.epoch] <= n
    BY <1>2, <1>4
  <2> QED
    BY <1>1, <1>2, <2>1, BehindStays DEF Session
<1> QED
  BY <1>1, <1>2, <1>3, <1>4 DEF Session

\* The follower takes an actor of envelope m, with a keyframe k.
LEMMA ActorTaken ==
    ASSUME ReplicationBounds, ReplicationInv, NEW m \in net, m.epoch = follower.epoch,
           m.sequence > follower.last[m.epoch], NEW s \in Snapshot, m.tick # 0,
           Entry(m.epoch, m.tick, s) \in truth, NEW k, Frame(k, follower.epoch, truth),
           follower' = [epoch |-> follower.epoch,
                        last |-> [follower.last EXCEPT ![m.epoch] = m.sequence],
                        keyframe |-> k, actor |-> [tick |-> m.tick, snapshot |-> s],
                        pending |-> follower.pending, match |-> follower.match],
           rider' = Replication!Pushed(rider, m.tick, s.pose), UNCHANGED <<sources, net, truth>>
    PROVE  ReplicationInv' /\ Replication!NothingRewinds
<1>1. m.tick \in Nat /\ m.sequence \in Nat
  BY DEF ReplicationInv, Sent
<1>2. /\ follower.epoch \in Replication!Epoch /\ follower.last \in [Replication!Epoch -> Nat]
      /\ follower.last[follower.epoch] \in Nat
      /\ follower.actor.tick \in Nat /\ follower.match.tick \in Nat
      /\ m.sequence >= follower.last[follower.epoch]
      /\ Behind(follower.match.tick, follower.epoch, m.sequence, net, sources)
  <2>1. follower.last[follower.epoch] \in Nat
    BY FollowerHas
  <2>2. m.sequence >= follower.last[follower.epoch]
    BY <1>1, <2>1
  <2> QED
    BY <1>1, <2>1, <2>2, FollowerHas
<1>3. /\ follower'.epoch = follower.epoch /\ follower'.keyframe = k
      /\ follower'.actor = [tick |-> m.tick, snapshot |-> s]
      /\ follower'.pending = follower.pending /\ follower'.match = follower.match
      /\ follower'.last = [follower.last EXCEPT ![m.epoch] = m.sequence]
      /\ follower' = [epoch |-> follower'.epoch, last |-> follower'.last,
                      keyframe |-> follower'.keyframe, actor |-> follower'.actor,
                      pending |-> follower'.pending, match |-> follower'.match]
  OBVIOUS
<1>4. follower'.last \in [Replication!Epoch -> Nat] /\ follower'.last[follower.epoch] = m.sequence
  BY <1>1, <1>2, <1>3
<1>5. follower'.actor.tick = m.tick /\ Frame(follower'.actor, follower.epoch, truth)
  BY <1>1, <1>3 DEF Frame
<1>6. Behind(m.tick, follower.epoch, m.sequence, net, sources)
  <2>1. m.sequence <= m.sequence
    BY <1>1
  <2> QED
    BY <1>1, <2>1, BehindAccepted
<1>7. Session(follower', net, sources, truth)
  BY <1>2, <1>3, <1>4, <1>5, <1>6 DEF Session, ReplicationInv
<1>8. Rider(rider')
  BY <1>1, PushedKeeps DEF ReplicationInv
<1>9. ReplicationInv'
  BY <1>7, <1>8 DEF ReplicationInv
<1>10. follower.actor.tick <= m.tick
  BY DEF ReplicationInv, Session, Behind
<1>11. Replication!NothingRewinds
  BY <1>1, <1>2, <1>3, <1>4, <1>5, <1>10 DEF Replication!NothingRewinds
<1> QED
  BY <1>9, <1>11

LEMMA ActorKeeps ==
    ASSUME ReplicationBounds, ReplicationInv, NEW m \in net, Replication!AcceptActor(m)
    PROVE  ReplicationInv' /\ Replication!NothingRewinds
<1>1. /\ m.kind = "Actor" /\ m.epoch = follower.epoch /\ m.sequence > follower.last[m.epoch]
      /\ rider' = Replication!Pushed(rider, m.tick, m.snapshot.pose)
      /\ UNCHANGED <<sources, net, truth>>
      /\ follower' = [follower EXCEPT !.last[m.epoch] = m.sequence,
                    !.keyframe = [tick |-> m.tick, snapshot |-> m.snapshot],
                    !.actor = [tick |-> m.tick, snapshot |-> m.snapshot]]
  BY DEF Replication!AcceptActor, Replication!FromAuthority, Replication!Newer, Replication!Show
<1>2. /\ m.snapshot \in Snapshot /\ m.tick # 0 /\ m.tick \in Nat
      /\ Entry(m.epoch, m.tick, m.snapshot) \in truth
  BY <1>1 DEF ReplicationInv, Sent
<1>3. Frame([tick |-> m.tick, snapshot |-> m.snapshot], follower.epoch, truth)
  BY <1>1, <1>2 DEF Frame
<1>4. PICK k : k = [tick |-> m.tick, snapshot |-> m.snapshot]
  OBVIOUS
<1>5. follower' = [epoch |-> follower.epoch,
                   last |-> [follower.last EXCEPT ![m.epoch] = m.sequence],
                   keyframe |-> k, actor |-> k,
                   pending |-> follower.pending, match |-> follower.match]
  BY <1>1, <1>4, FollowerHas
<1> QED
  BY <1>1, <1>2, <1>3, <1>4, <1>5, ActorTaken

LEMMA DeltaKeeps ==
    ASSUME ReplicationBounds, ReplicationInv, NEW m \in net, Replication!AcceptDelta(m)
    PROVE  ReplicationInv' /\ Replication!NothingRewinds
<1> DEFINE s == Replication!Apply(m.changed, follower.keyframe.snapshot)
<1>1. /\ m.kind = "Delta" /\ m.epoch = follower.epoch /\ m.sequence > follower.last[m.epoch]
      /\ follower.keyframe # Replication!None /\ follower.keyframe.tick = m.base
      /\ rider' = Replication!Pushed(rider, m.tick, s.pose)
      /\ UNCHANGED <<sources, net, truth>>
      /\ follower' = [follower EXCEPT !.last[m.epoch] = m.sequence,
                                      !.actor = [tick |-> m.tick, snapshot |-> s]]
  BY DEF Replication!AcceptDelta, Replication!FromAuthority, Replication!Newer, Replication!Show,
         Replication!Base
<1>2. PICK b \in Snapshot, x \in Snapshot :
         /\ Entry(m.epoch, m.base, b) \in truth /\ Entry(m.epoch, m.tick, x) \in truth
         /\ m.changed = Replication!Between(b, x) /\ m.tick # 0
  BY <1>1 DEF ReplicationInv, Sent
<1>3. PICK t \in Nat \ {0}, y \in Snapshot :
         follower.keyframe = [tick |-> t, snapshot |-> y] /\ Entry(follower.epoch, t, y) \in truth
  BY <1>1 DEF ReplicationInv, Session, Frame
<1>4. t = m.base /\ follower.keyframe.snapshot = y
  BY <1>1, <1>3
<1>5. y = b
  <2>1. /\ Entry(m.epoch, m.base, b).epoch = m.epoch /\ Entry(m.epoch, m.base, b).tick = m.base
        /\ Entry(m.epoch, m.base, y).epoch = m.epoch /\ Entry(m.epoch, m.base, y).tick = m.base
    BY DEF Entry
  <2>2. Entry(m.epoch, m.base, y) \in truth
    BY <1>1, <1>3, <1>4
  <2>3. Entry(m.epoch, m.base, b) = Entry(m.epoch, m.base, y)
    BY <1>2, <2>1, <2>2 DEF ReplicationInv, Chronicle
  <2>4. Entry(m.epoch, m.base, b).snapshot = b /\ Entry(m.epoch, m.base, y).snapshot = y
    BY DEF Entry
  <2> QED
    BY <2>3, <2>4
<1>6. s = x
  BY <1>2, <1>4, <1>5, DeltaRestores
<1> HIDE DEF s
<1>7. PICK k : k = follower.keyframe
  OBVIOUS
<1>8. follower' = [epoch |-> follower.epoch,
                   last |-> [follower.last EXCEPT ![m.epoch] = m.sequence],
                   keyframe |-> k, actor |-> [tick |-> m.tick, snapshot |-> x],
                   pending |-> follower.pending, match |-> follower.match]
  BY <1>1, <1>6, <1>7, FollowerHas
<1>9. Frame(k, follower.epoch, truth)
  BY <1>7 DEF ReplicationInv, Session
<1> QED
  BY <1>1, <1>2, <1>6, <1>8, <1>9, ActorTaken

\* The follower takes the match state of envelope m, its floor raised to n.
LEMMA MatchTaken ==
    ASSUME ReplicationBounds, ReplicationInv, NEW m \in net, m.epoch = follower.epoch,
           NEW n \in Nat, n >= m.sequence, n >= follower.last[follower.epoch],
           follower.match.tick <= m.tick,
           follower' = [epoch |-> follower.epoch,
                        last |-> [follower.last EXCEPT ![follower.epoch] = n],
                        keyframe |-> follower.keyframe, actor |-> follower.actor,
                        pending |-> Replication!NoReassembly, match |-> [tick |-> m.tick]],
           UNCHANGED <<sources, net, truth, rider>>
    PROVE  ReplicationInv' /\ Replication!NothingRewinds
<1>1. m.tick \in Nat /\ m.sequence \in Nat /\ m.sequence <= n
  BY DEF ReplicationInv, Sent
<1>2. /\ follower.epoch \in Replication!Epoch /\ follower.last \in [Replication!Epoch -> Nat]
      /\ follower.last[follower.epoch] \in Nat
      /\ follower.actor.tick \in Nat /\ follower.match.tick \in Nat
      /\ Behind(follower.actor.tick, follower.epoch, n, net, sources)
  BY FollowerHas
<1>3. /\ follower'.epoch = follower.epoch /\ follower'.keyframe = follower.keyframe
      /\ follower'.actor = follower.actor
      /\ follower'.pending = Replication!NoReassembly /\ follower'.match = [tick |-> m.tick]
      /\ follower'.last = [follower.last EXCEPT ![follower.epoch] = n]
      /\ follower' = [epoch |-> follower'.epoch, last |-> follower'.last,
                      keyframe |-> follower'.keyframe, actor |-> follower'.actor,
                      pending |-> follower'.pending, match |-> follower'.match]
  OBVIOUS
<1>4. follower'.last \in [Replication!Epoch -> Nat] /\ follower'.last[follower.epoch] = n
  BY <1>2, <1>3
<1>5. Behind(follower'.match.tick, follower.epoch, n, net, sources) /\ follower'.match.tick = m.tick
  BY <1>1, <1>3, BehindAccepted
<1>6. /\ follower'.pending = [tick |-> follower'.pending.tick, floor |-> follower'.pending.floor,
                              got |-> follower'.pending.got]
      /\ follower'.pending.got = {}
  BY <1>3 DEF Replication!NoReassembly
<1>7. Session(follower', net, sources, truth)
  BY <1>2, <1>3, <1>4, <1>5, <1>6 DEF Session, ReplicationInv
<1>8. ReplicationInv'
  BY <1>7 DEF ReplicationInv
<1>9. Replication!NothingRewinds
  BY <1>1, <1>2, <1>3, <1>4, <1>5 DEF Replication!NothingRewinds
<1> QED
  BY <1>8, <1>9

LEMMA MatchKeeps ==
    ASSUME ReplicationBounds, ReplicationInv, NEW m \in net, Replication!AcceptMatch(m)
    PROVE  ReplicationInv' /\ Replication!NothingRewinds
<1>1. /\ m.epoch = follower.epoch /\ m.sequence > follower.last[m.epoch]
      /\ UNCHANGED <<sources, net, truth, rider>>
      /\ follower' = [follower EXCEPT !.last[m.epoch] = m.sequence,
                      !.pending = Replication!NoReassembly, !.match = [tick |-> m.tick]]
  BY DEF Replication!AcceptMatch, Replication!FromAuthority, Replication!Newer
<1>2. m.sequence \in Nat /\ follower.last[follower.epoch] \in Nat
  BY FollowerHas DEF ReplicationInv, Sent
<1>3. follower.match.tick <= m.tick
  BY <1>1 DEF ReplicationInv, Session, Behind
<1>4. follower' = [epoch |-> follower.epoch,
                   last |-> [follower.last EXCEPT ![follower.epoch] = m.sequence],
                   keyframe |-> follower.keyframe, actor |-> follower.actor,
                   pending |-> Replication!NoReassembly, match |-> [tick |-> m.tick]]
  BY <1>1, FollowerHas
<1>5. m.sequence >= m.sequence /\ m.sequence >= follower.last[follower.epoch]
  BY <1>1, <1>2
<1> QED
  BY <1>1, <1>2, <1>3, <1>4, <1>5, MatchTaken

\* The follower files a fragment, or throws its reassembly away.
LEMMA PendingKeeps ==
    ASSUME ReplicationInv, NEW p, p = [tick |-> p.tick, floor |-> p.floor, got |-> p.got],
           p.got \subseteq net, \A g \in p.got : g.epoch = follower.epoch,
           follower' = [follower EXCEPT !.pending = p], UNCHANGED <<sources, net, truth, rider>>
    PROVE  ReplicationInv' /\ Replication!NothingRewinds
<1>1. follower' = [epoch |-> follower.epoch, last |-> follower.last,
                   keyframe |-> follower.keyframe, actor |-> follower.actor,
                   pending |-> p, match |-> follower.match]
  BY FollowerHas
<1>2. Session(follower', net, sources, truth)
  BY <1>1 DEF ReplicationInv, Session
<1>3. Replication!NothingRewinds
  BY <1>1, FollowerHas DEF Replication!NothingRewinds
<1> QED
  BY <1>2, <1>3 DEF ReplicationInv

\* The highest sequence number of some envelopes of the follower's epoch.
LEMMA HighestIsOne ==
    ASSUME ReplicationInv, NEW G \in SUBSET net, \A g \in G : g.epoch = follower.epoch, NEW m \in G
    PROVE  Replication!Highest(G) \in Nat /\ m.sequence <= Replication!Highest(G)
<1> DEFINE Q == {g.sequence : g \in G}
           bounds == {n \in Nat : \A g \in G : g.sequence <= n}
<1>1. \A g \in G : g.sequence \in Nat /\ g.sequence < sources[follower.epoch].next
  BY DEF ReplicationInv, Sent
<1>2. sources[follower.epoch].next \in Nat
  BY FollowerHas DEF ReplicationInv, Sources, Source
<1>3. sources[follower.epoch].next \in bounds
  BY <1>1, <1>2
<1>4. bounds \in SUBSET Nat /\ bounds # {}
  BY <1>3
<1>5. Least(bounds) \in bounds /\ \A y \in bounds : Least(bounds) <= y
  BY <1>4, LeastIsMember
<1>6. PICK n \in bounds : \A y \in bounds : n <= y
  BY <1>5
<1>7. \E g \in G : g.sequence = n
  <2> SUFFICES ASSUME \A g \in G : g.sequence # n PROVE FALSE
    OBVIOUS
  <2>1. n \in Nat /\ \A g \in G : g.sequence <= n
    BY <1>6
  <2>2. \A g \in G : g.sequence <= n - 1
    BY <1>1, <2>1
  <2>3. n # 0
    BY <1>1, <2>1
  <2>4. n - 1 \in bounds
    BY <2>1, <2>2, <2>3
  <2> QED
    BY <1>6, <2>1, <2>4
<1>8. \E k \in Q : \A g \in G : k >= g.sequence
  <2>1. \A g \in G : n >= g.sequence
    BY <1>1, <1>6
  <2> QED
    BY <1>7, <2>1
<1>9. Replication!Highest(G) \in Q /\ \A g \in G : Replication!Highest(G) >= g.sequence
  BY <1>8 DEF Replication!Highest
<1>10. Replication!Highest(G) \in Nat
  BY <1>1, <1>9
<1> QED
  BY <1>1, <1>9, <1>10

LEMMA FragmentKeeps ==
    ASSUME ReplicationBounds, ReplicationInv, NEW m \in net, NEW late \in BOOLEAN,
           Replication!AcceptFragment(m, late)
    PROVE  ReplicationInv' /\ Replication!NothingRewinds
<1> DEFINE p == Replication!Reassembly(m, late)
           filed == [p EXCEPT !.got = @ \cup {m}]
           high == Replication!Highest(filed.got)
<1>1. /\ m.epoch = follower.epoch /\ follower.match.tick < m.tick
      /\ UNCHANGED <<sources, net, truth, rider>>
      /\ follower' =
            IF Replication!Repeats(p, m) THEN [follower EXCEPT !.pending = p]
            ELSE IF ~Replication!Whole(filed.got) THEN [follower EXCEPT !.pending = filed]
            ELSE IF high <= follower.last[m.epoch]
            THEN [follower EXCEPT !.pending = Replication!NoReassembly]
            ELSE [follower EXCEPT !.pending = Replication!NoReassembly, !.match = [tick |-> m.tick],
                  !.last[m.epoch] = high]
  BY DEF Replication!AcceptFragment, Replication!FromAuthority
<1>2. /\ follower.pending = [tick |-> follower.pending.tick, floor |-> follower.pending.floor,
                             got |-> follower.pending.got]
      /\ follower.pending.got \subseteq net /\ \A g \in follower.pending.got : g.epoch = follower.epoch
  BY DEF ReplicationInv, Session
<1>3. /\ Replication!NoReassembly =
            [tick |-> Replication!NoReassembly.tick, floor |-> Replication!NoReassembly.floor,
             got |-> Replication!NoReassembly.got]
      /\ Replication!NoReassembly.got = {}
  BY DEF Replication!NoReassembly
<1>4. /\ p = [tick |-> p.tick, floor |-> p.floor, got |-> p.got]
      /\ p.got \subseteq net /\ \A g \in p.got : g.epoch = follower.epoch
  <2> DEFINE kept == IF late THEN Replication!NoReassembly ELSE follower.pending
  <2>1. /\ kept = [tick |-> kept.tick, floor |-> kept.floor, got |-> kept.got]
        /\ kept.got \subseteq net /\ \A g \in kept.got : g.epoch = follower.epoch
    BY <1>2, <1>3
  <2>2. p = kept \/ p = [tick |-> m.tick, floor |-> follower.last[m.epoch], got |-> {}]
    BY DEF Replication!Reassembly
  <2> HIDE DEF kept, p
  <2> QED
    BY <2>1, <2>2
<1> HIDE DEF p
<1>5. /\ filed = [tick |-> filed.tick, floor |-> filed.floor, got |-> filed.got]
      /\ filed.got = p.got \cup {m}
  BY <1>4
<1>6. filed.got \subseteq net /\ (\A g \in filed.got : g.epoch = follower.epoch) /\ m \in filed.got
  BY <1>1, <1>4, <1>5
<1> HIDE DEF filed
<1>7. high \in Nat /\ m.sequence <= high
  BY <1>6, HighestIsOne
<1> HIDE DEF high
<1>8. CASE \E r : /\ r = [tick |-> r.tick, floor |-> r.floor, got |-> r.got]
                  /\ r.got \subseteq net /\ \A g \in r.got : g.epoch = follower.epoch
                  /\ follower' = [follower EXCEPT !.pending = r]
  BY <1>1, <1>8, PendingKeeps
<1>9. CASE /\ follower' = [follower EXCEPT !.pending = Replication!NoReassembly,
                             !.match = [tick |-> m.tick], !.last[m.epoch] = high]
           /\ ~(high <= follower.last[m.epoch])
  <2>1. m.sequence \in Nat /\ m.tick \in Nat /\ follower.match.tick \in Nat
        /\ follower.last[follower.epoch] \in Nat
    BY FollowerHas DEF ReplicationInv, Sent
  <2>2. follower' = [epoch |-> follower.epoch,
                     last |-> [follower.last EXCEPT ![follower.epoch] = high],
                     keyframe |-> follower.keyframe, actor |-> follower.actor,
                     pending |-> Replication!NoReassembly, match |-> [tick |-> m.tick]]
    BY <1>1, <1>9, FollowerHas
  <2>3. high >= m.sequence /\ high >= follower.last[follower.epoch]
        /\ follower.match.tick <= m.tick
    BY <1>1, <1>7, <1>9, <2>1
  <2> QED
    BY <1>1, <1>7, <2>2, <2>3, MatchTaken
<1> QED
  BY <1>1, <1>3, <1>4, <1>5, <1>6, <1>8, <1>9

\* A session built anew around the floors of the old one.
LEMMA FreshSessionKeeps ==
    ASSUME ReplicationInv, NEW e \in Replication!Epoch
    PROVE  Session(Replication!FreshSession(e, follower.last), net, sources, truth)
<1> DEFINE f == Replication!FreshSession(e, follower.last)
<1>1. f = [epoch |-> e, last |-> follower.last, keyframe |-> Replication!None,
           actor |-> Replication!None, pending |-> Replication!NoReassembly,
           match |-> Replication!None]
  BY DEF Replication!FreshSession
<1>2. Replication!None.tick = 0 /\ Replication!NoReassembly.got = {}
      /\ Replication!NoReassembly = [tick |-> Replication!NoReassembly.tick,
           floor |-> Replication!NoReassembly.floor, got |-> Replication!NoReassembly.got]
  BY DEF Replication!None, Replication!NoReassembly
<1>3. sources[e].tick \in Nat /\ \A m \in net : m.tick \in Nat
  BY DEF ReplicationInv, Sources, Source, Sent
<1>4. \A floor : Behind(0, e, floor, net, sources)
  BY <1>3 DEF Behind
<1>5. Frame(Replication!None, e, truth)
  BY DEF Frame
<1>6. follower.last \in [Replication!Epoch -> Nat]
  BY FollowerHas
<1> HIDE DEF f
<1>7. /\ f.epoch = e /\ f.last = follower.last /\ f.keyframe = Replication!None
      /\ f.actor = Replication!None /\ f.pending = Replication!NoReassembly
      /\ f.match = Replication!None
      /\ f = [epoch |-> f.epoch, last |-> f.last, keyframe |-> f.keyframe, actor |-> f.actor,
              pending |-> f.pending, match |-> f.match]
  BY <1>1
<1>8. Session(f, net, sources, truth)
  BY <1>2, <1>4, <1>5, <1>6, <1>7 DEF Session
<1> QED
  BY <1>8 DEF f

LEMMA SucceedKeeps ==
    ASSUME ReplicationBounds, ReplicationInv, Replication!Succeed
    PROVE  ReplicationInv' /\ Replication!NothingRewinds
<1>1. /\ follower.epoch < MaxEpoch
      /\ follower' = Replication!FreshSession(follower.epoch + 1, follower.last)
      /\ UNCHANGED <<sources, net, truth, rider>>
  BY DEF Replication!Succeed, Replication!Succeeded
<1>2. follower.epoch + 1 \in Replication!Epoch /\ follower.epoch + 1 # follower.epoch
  BY <1>1, FollowerHas DEF ReplicationBounds, Replication!Epoch
<1>3. Session(follower', net, sources, truth)
  BY <1>1, <1>2, FreshSessionKeeps
<1>4. follower'.epoch = follower.epoch + 1
  BY <1>1 DEF Replication!FreshSession
<1> QED
  BY <1>1, <1>2, <1>3, <1>4 DEF ReplicationInv, Replication!NothingRewinds

LEMMA ReprojectKeeps ==
    ASSUME ReplicationBounds, ReplicationInv, Replication!Reproject
    PROVE  ReplicationInv' /\ Replication!NothingRewinds
<1>1. UNCHANGED <<net, truth, rider>>
  BY DEF Replication!Reproject
<1>2. follower.last[follower.epoch] \in Nat /\ follower.actor.tick \in Nat
      /\ follower.match.tick \in Nat /\ follower.epoch \in Replication!Epoch
  BY FollowerHas
<1>3. CASE follower' = Replication!FreshSession(follower.epoch, follower.last) /\ UNCHANGED sources
  <2>1. Session(follower', net, sources, truth)
    BY <1>2, <1>3, FreshSessionKeeps
  <2>2. /\ follower'.epoch = follower.epoch /\ follower'.last = follower.last
        /\ follower'.actor = Replication!None /\ follower'.match = Replication!None
    BY <1>3 DEF Replication!FreshSession
  <2>3. Replication!NothingRewinds
    BY <1>2, <2>2 DEF Replication!NothingRewinds
  <2> QED
    BY <1>1, <1>3, <2>1, <2>3 DEF ReplicationInv
<1>4. CASE \E e \in Replication!Epoch :
              /\ sources' = [sources EXCEPT ![e].keyframe = Replication!None] /\ UNCHANGED follower
  <2>1. PICK e \in Replication!Epoch :
           sources' = [sources EXCEPT ![e].keyframe = Replication!None] /\ UNCHANGED follower
    BY <1>4
  <2>2. /\ sources = [d \in Replication!Epoch |-> sources[d]]
        /\ \A d \in Replication!Epoch : Source(sources[d], d, truth)
    BY DEF ReplicationInv, Sources
  <2>3. \A d \in Replication!Epoch \ {e} : sources'[d] = sources[d]
    BY <2>1, <2>2
  <2>4. sources'[e] = [tick |-> sources[e].tick, next |-> sources[e].next,
                       keyframe |-> Replication!None]
    <3>1. sources'[e] = [sources[e] EXCEPT !.keyframe = Replication!None]
      BY <2>1, <2>2
    <3> QED
      BY <2>2, <3>1 DEF Source
  <2>5. Source(sources'[e], e, truth)
    BY <2>2, <2>4 DEF Source, Frame
  <2>6. sources' = [d \in Replication!Epoch |-> sources'[d]]
    BY <2>1, <2>2
  <2>7. Sources(sources', truth)
    BY <2>2, <2>3, <2>5, <2>6 DEF Sources
  <2>8. \A d \in Replication!Epoch :
           sources'[d].tick = sources[d].tick /\ sources'[d].next = sources[d].next
    BY <2>3, <2>4
  <2>9. Chronicle(truth, sources')
    BY <2>8 DEF ReplicationInv, Chronicle
  <2>10. \A m \in net : Sent(m, sources', truth)
    BY <2>8 DEF ReplicationInv, Sent
  <2>11. Session(follower, net, sources', truth)
    BY <1>2, <2>8 DEF ReplicationInv, Session, Behind
  <2>12. Replication!NothingRewinds
    BY <1>2, <2>1 DEF Replication!NothingRewinds
  <2> QED
    BY <1>1, <2>1, <2>7, <2>9, <2>10, <2>11, <2>12 DEF ReplicationInv
<1> QED
  BY <1>3, <1>4 DEF Replication!Reproject

LEMMA ProcessKeeps ==
    ASSUME ReplicationBounds, ReplicationInv, Replication!Process
    PROVE  ReplicationInv' /\ Replication!NothingRewinds
<1> DEFINE b == rider.buffer
<1>1. /\ b # <<>> /\ rider.render < b[Len(b)].tick + MaxExtrapolationTicks
      /\ rider' = [rider EXCEPT !.render = @ + 1]
      /\ UNCHANGED <<sources, net, truth, follower>>
  BY DEF Replication!Process, Replication!Latest
<1>2. Rider(rider)
  BY DEF ReplicationInv
<1>3. rider' = [buffer |-> b, render |-> rider.render + 1] /\ b \in Seq(Shown) /\ rider.render \in Int
  BY <1>1, <1>2 DEF Rider
<1>4. b[Len(b)].tick \in Nat
  <2>1. b[Len(b)] \in Shown
    BY <1>1, <1>3
  <2> QED
    BY <2>1 DEF Shown
<1>5. Replication!Target(b[Len(b)].tick) \in Int
  BY <1>4 DEF ReplicationBounds, Replication!Target
<1>6. Replication!Target(b[Len(b)].tick) - rider.render <= SnapTicks
  BY <1>1, <1>2 DEF Rider, Near
<1>7. MaxExtrapolationTicks \in Nat /\ SnapTicks \in Nat
  BY DEF ReplicationBounds
<1> HIDE DEF b
<1>8. Near(b, rider.render + 1)
  BY <1>1, <1>3, <1>4, <1>5, <1>6, <1>7 DEF Near
<1>9. Rider(rider')
  BY <1>2, <1>3, <1>8 DEF Rider, b
<1>10. Replication!NothingRewinds
  BY <1>1, FollowerHas DEF Replication!NothingRewinds
<1> QED
  BY <1>1, <1>9, <1>10 DEF ReplicationInv

LEMMA ReplicationStep ==
    ASSUME ReplicationBounds, ReplicationInv, [Replication!Next]_Replication!vars
    PROVE  ReplicationInv' /\ [Replication!NothingRewinds]_Replication!vars
<1>1. CASE UNCHANGED Replication!vars
  BY <1>1 DEF Replication!vars, ReplicationInv
<1>2. CASE Replication!Publish
  <2>1. UNCHANGED follower
    BY <1>2 DEF Replication!Publish, Replication!AdvanceTick
  <2>2. ReplicationInv'
    <3>1. PICK e \in Replication!Epoch, form \in {"none", "whole", "split"} :
             \/ Replication!AdvanceTick(e, {}, form)
             \/ \E s \in Snapshot : Replication!AdvanceTick(e, {s}, form)
      BY <1>2 DEF Replication!Publish
    <3>2. PICK S \in SUBSET Snapshot : /\ S = {} \/ \E s \in Snapshot : S = {s}
                                       /\ Replication!AdvanceTick(e, S, form)
      BY <3>1
    <3> QED
      BY <3>2, PublishKeeps
  <2>3. Replication!NothingRewinds
    BY <2>1, FollowerHas DEF Replication!NothingRewinds
  <2> QED
    BY <2>2, <2>3
<1>3. CASE Replication!Receive
  BY <1>3, ActorKeeps, DeltaKeeps, MatchKeeps, FragmentKeeps DEF Replication!Receive
<1> QED
  BY <1>1, <1>2, <1>3, SucceedKeeps, ReprojectKeeps, ProcessKeeps DEF Replication!Next

\* The least of some places of a sequence, and the greatest.
LEMMA PlacesHaveEnds ==
    ASSUME NEW n \in Nat, NEW S \in SUBSET (1..n), S # {}
    PROVE  /\ \E i \in S : \A j \in S : i <= j
           /\ \E i \in S : \A j \in S : j <= i
<1>1. S \in SUBSET Nat
  OBVIOUS
<1>2. \E i \in S : \A j \in S : i <= j
  BY <1>1, LeastIsMember
<1> DEFINE R == {k \in 1..n : n + 1 - k \in S}
<1>3. R \in SUBSET Nat /\ R # {}
  <2>1. PICK i \in S : TRUE
    OBVIOUS
  <2>2. n + 1 - i \in 1..n /\ n + 1 - (n + 1 - i) = i
    OBVIOUS
  <2>3. n + 1 - i \in R
    BY <2>2
  <2>4. \A k \in R : k \in Nat
    OBVIOUS
  <2> HIDE DEF R
  <2> QED
    BY <2>3, <2>4
<1>4. PICK k \in R : \A j \in R : k <= j
  BY <1>3, LeastIsMember
<1>5. ASSUME NEW j \in S PROVE j <= n + 1 - k
  <2>1. n + 1 - j \in 1..n /\ n + 1 - (n + 1 - j) = j
    OBVIOUS
  <2>2. n + 1 - j \in R
    BY <2>1
  <2>3. k <= n + 1 - j /\ k \in 1..n
    BY <1>4, <2>2
  <2> QED
    BY <2>3
<1> QED
  BY <1>2, <1>4, <1>5

\* The stance of a buffer in order, for every render tick.
LEMMA StanceOfNewest ==
    ASSUME NEW b \in Seq(Shown), b # <<>>, Rising(b), NEW render \in Int
    PROVE  LET past == {i \in DOMAIN b : b[i].tick <= render}
               shown == IF past = {} THEN 1 ELSE CHOOSE i \in past : \A j \in past : j <= i
           IN  Replication!StanceAt(b, render) = b[shown].pose
<1> DEFINE n == Len(b)
           past == {i \in DOMAIN b : b[i].tick <= render}
           shown == IF past = {} THEN 1 ELSE CHOOSE i \in past : \A j \in past : j <= i
           later == {i \in 2..n : render <= b[i].tick}
           first == CHOOSE j \in later : \A k \in later : j <= k
<1>1. DOMAIN b = 1..n /\ n \in Nat /\ n >= 1
  OBVIOUS
<1>2. \A i \in 1..n : b[i].tick \in Nat
  <2>1. \A i \in 1..n : b[i] \in Shown
    BY <1>1
  <2> QED
    BY <2>1 DEF Shown
<1>3. \A i, j \in 1..n : i < j => b[i].tick < b[j].tick
  BY DEF Rising
<1>4. ASSUME NEW i \in past, \A j \in past : j <= i PROVE shown = i
  <2>1. shown \in past /\ \A j \in past : j <= shown
    BY <1>4
  <2>2. past \subseteq Nat
    BY <1>1
  <2> HIDE DEF past, shown
  <2>3. shown <= i /\ i <= shown /\ shown \in Nat /\ i \in Nat
    BY <1>4, <2>1, <2>2
  <2> QED
    BY <2>3
<1>5. Replication!StanceAt(b, render) =
         IF render <= b[1].tick THEN b[1].pose
         ELSE IF later = {} THEN b[n].pose
         ELSE Replication!StanceBetween(b[first - 1], b[first], render)
  BY DEF Replication!StanceAt
<1> HIDE DEF n
<1>6. \A i : i \in past <=> i \in 1..n /\ b[i].tick <= render
  BY <1>1
<1>7. \A i : i \in later <=> i \in 2..n /\ render <= b[i].tick
  OBVIOUS
<1>8. CASE render <= b[1].tick
  <2>1. \A i \in past : i = 1
    <3> SUFFICES ASSUME NEW i \in past, i # 1 PROVE FALSE
      OBVIOUS
    <3>1. i \in 1..n /\ 1 \in 1..n /\ 1 < i
      BY <1>1, <1>6
    <3>2. b[1].tick < b[i].tick /\ b[i].tick <= render /\ b[1].tick \in Nat /\ b[i].tick \in Nat
      BY <1>2, <1>3, <1>6, <3>1
    <3> QED
      BY <1>8, <3>2
  <2>2. shown = 1
    <3>1. CASE past = {}
      BY <3>1
    <3>2. CASE past # {}
      <4>1. 1 \in past /\ \A j \in past : j <= 1
        BY <2>1, <3>2
      <4> QED
        BY <1>4, <4>1
    <3> QED
      BY <3>1, <3>2
  <2> HIDE DEF shown
  <2> QED
    BY <1>5, <1>8, <2>2 DEF shown
<1>9. CASE ~(render <= b[1].tick) /\ later = {}
  <2>1. n \in past
    <3>1. b[n].tick <= render
      BY <1>1, <1>2, <1>7, <1>9
    <3> QED
      BY <1>1, <1>6, <3>1
  <2>2. \A j \in past : j <= n
    BY <1>1, <1>6
  <2>3. shown = n
    BY <1>4, <2>1, <2>2
  <2> HIDE DEF shown, later
  <2> QED
    BY <1>5, <1>9, <2>3 DEF shown
<1>10. CASE ~(render <= b[1].tick) /\ later # {}
  <2>1. first \in later /\ \A k \in later : first <= k
    <3>1. later \in SUBSET (1..n)
      BY <1>1, <1>7
    <3> HIDE DEF later
    <3>2. \E j \in later : \A k \in later : j <= k
      BY <1>1, <1>10, <3>1, PlacesHaveEnds
    <3> QED
      BY <3>2
  <2> HIDE DEF first
  <2>2. /\ first \in 2..n /\ first \in 1..n /\ first - 1 \in 1..n /\ first - 1 < first
        /\ render <= b[first].tick
    BY <1>1, <1>7, <2>1
  <2>3. b[first - 1].tick <= render
    <3>1. CASE first = 2
      BY <1>1, <1>2, <1>10, <3>1
    <3>2. CASE first # 2
      <4>1. first - 1 \in 2..n /\ first - 1 \notin later
        BY <1>1, <2>1, <2>2, <3>2
      <4>2. ~(render <= b[first - 1].tick)
        BY <1>7, <4>1
      <4> QED
        BY <1>2, <2>2, <4>2
    <3> QED
      BY <3>1, <3>2
  <2>4. CASE render < b[first].tick
    <3>1. first - 1 \in past
      BY <1>6, <2>2, <2>3
    <3>2. ASSUME NEW j \in past PROVE j <= first - 1
      <4> SUFFICES ASSUME ~(j <= first - 1) PROVE FALSE
        OBVIOUS
      <4>1. j \in 1..n /\ b[j].tick <= render /\ (j = first \/ first < j)
        BY <1>1, <1>6, <2>2
      <4>2. b[first].tick <= b[j].tick /\ b[j].tick \in Nat /\ b[first].tick \in Nat
        BY <1>2, <1>3, <2>2, <4>1
      <4> QED
        BY <2>4, <4>1, <4>2
    <3>3. shown = first - 1
      BY <1>4, <3>1, <3>2
    <3>4. Replication!StanceBetween(b[first - 1], b[first], render) = b[first - 1].pose
      BY <2>4 DEF Replication!StanceBetween
    <3> HIDE DEF shown, later
    <3> QED
      BY <1>5, <1>10, <3>3, <3>4 DEF shown
  <2>5. CASE ~(render < b[first].tick)
    <3>1. render = b[first].tick
      BY <1>2, <2>2, <2>5
    <3>2. first \in past
      BY <1>6, <2>2, <3>1
    <3>3. ASSUME NEW j \in past PROVE j <= first
      <4> SUFFICES ASSUME ~(j <= first) PROVE FALSE
        OBVIOUS
      <4>1. j \in 1..n /\ b[j].tick <= render /\ first < j
        BY <1>1, <1>6, <2>2
      <4>2. b[first].tick < b[j].tick /\ b[j].tick \in Nat /\ b[first].tick \in Nat
        BY <1>2, <1>3, <2>2, <4>1
      <4> QED
        BY <3>1, <4>1, <4>2
    <3>4. shown = first
      BY <1>4, <3>2, <3>3
    <3>5. Replication!StanceBetween(b[first - 1], b[first], render) = b[first].pose
      BY <2>5 DEF Replication!StanceBetween
    <3> HIDE DEF shown, later
    <3> QED
      BY <1>5, <1>10, <3>4, <3>5 DEF shown
  <2> QED
    BY <2>4, <2>5
<1> QED
  BY <1>8, <1>9, <1>10

\* Whatever is lost, repeated, overtaken or projected anew: the actor a follower shows is
\* one its authority published at that tick, neither actor nor score nor replay floor goes
\* back within an epoch (accept_authenticated, M3ActorSnapshotDelta::apply,
\* accept_match_state_fragment), the stance shown is that of the newest snapshot at or
\* before the render tick, and the render clock stays near the snapshots (SnapshotBuffer,
\* NetworkRider).
THEOREM RidersAreShown ==
    ReplicationBounds =>
        (Replication!Spec => /\ [](/\ Replication!SnapshotIsPublished /\ Replication!StanceIsDiscrete
                                   /\ Replication!RenderStaysNear)
                             /\ [][Replication!NothingRewinds]_Replication!vars)
<1> SUFFICES ASSUME ReplicationBounds
             PROVE  Replication!Spec =>
                       /\ [](/\ Replication!SnapshotIsPublished /\ Replication!StanceIsDiscrete
                             /\ Replication!RenderStaysNear)
                       /\ [][Replication!NothingRewinds]_Replication!vars
  OBVIOUS
<1>1. Replication!Init => ReplicationInv
  <2> SUFFICES ASSUME Replication!Init PROVE ReplicationInv
    OBVIOUS
  <2>1. /\ sources = [e \in Replication!Epoch |->
                        [tick |-> 0, next |-> 1, keyframe |-> Replication!None]]
        /\ net = {} /\ truth = {} /\ rider = [buffer |-> <<>>, render |-> 0]
        /\ follower = Replication!FreshSession(1, [e \in Replication!Epoch |-> 0])
    BY DEF Replication!Init
  <2>2. 1 \in Replication!Epoch
    BY DEF ReplicationBounds, Replication!Epoch
  <2>3. Chronicle(truth, sources) /\ Ordered(net) /\ \A m \in net : Sent(m, sources, truth)
    BY <2>1 DEF Chronicle, Ordered
  <2>4. Sources(sources, truth)
    BY <2>1 DEF Sources, Source, Frame
  <2>5. Rider(rider)
    BY <2>1 DEF Rider, Rising, Near
  <2>6. follower = [epoch |-> 1, last |-> [e \in Replication!Epoch |-> 0],
                    keyframe |-> Replication!None, actor |-> Replication!None,
                    pending |-> Replication!NoReassembly, match |-> Replication!None]
    BY <2>1 DEF Replication!FreshSession
  <2>7. /\ Replication!None.tick = 0 /\ Replication!NoReassembly.got = {}
        /\ Replication!NoReassembly = [tick |-> Replication!NoReassembly.tick,
             floor |-> Replication!NoReassembly.floor, got |-> Replication!NoReassembly.got]
    BY DEF Replication!None, Replication!NoReassembly
  <2>8. Behind(0, 1, 0, net, sources) /\ Frame(Replication!None, 1, truth)
    BY <2>1, <2>2 DEF Behind, Frame
  <2>9. Session(follower, net, sources, truth)
    <3>1. /\ follower.epoch = 1 /\ follower.last = [e \in Replication!Epoch |-> 0]
          /\ follower.last[1] = 0 /\ follower.keyframe = Replication!None
          /\ follower.actor = Replication!None /\ follower.pending = Replication!NoReassembly
          /\ follower.match = Replication!None
      BY <2>2, <2>6
    <3>2. follower.last \in [Replication!Epoch -> Nat]
      BY <3>1
    <3>3. follower = [epoch |-> follower.epoch, last |-> follower.last,
                      keyframe |-> follower.keyframe, actor |-> follower.actor,
                      pending |-> follower.pending, match |-> follower.match]
      BY <2>6
    <3> QED
      BY <2>2, <2>7, <2>8, <3>1, <3>2, <3>3 DEF Session
  <2> QED
    BY <2>3, <2>4, <2>5, <2>9 DEF ReplicationInv
<1>2. ReplicationInv /\ [Replication!Next]_Replication!vars =>
         ReplicationInv' /\ [Replication!NothingRewinds]_Replication!vars
  BY ReplicationStep
<1>3. ReplicationInv => /\ Replication!SnapshotIsPublished /\ Replication!StanceIsDiscrete
                        /\ Replication!RenderStaysNear
  <2> SUFFICES ASSUME ReplicationInv
               PROVE  /\ Replication!SnapshotIsPublished /\ Replication!StanceIsDiscrete
                      /\ Replication!RenderStaysNear
    OBVIOUS
  <2>1. Replication!SnapshotIsPublished
    <3> SUFFICES ASSUME follower.actor # Replication!None
                 PROVE  Entry(follower.epoch, follower.actor.tick, follower.actor.snapshot) \in truth
      BY DEF Replication!SnapshotIsPublished, Entry
    <3>1. PICK t \in Nat \ {0}, s \in Snapshot :
             follower.actor = [tick |-> t, snapshot |-> s] /\ Entry(follower.epoch, t, s) \in truth
      BY DEF ReplicationInv, Session, Frame
    <3> QED
      BY <3>1
  <2>2. Rider(rider)
    BY DEF ReplicationInv
  <2>3. Replication!StanceIsDiscrete
    BY <2>2, StanceOfNewest DEF Replication!StanceIsDiscrete, Rider
  <2>4. Replication!RenderStaysNear
    BY <2>2 DEF Replication!RenderStaysNear, Replication!Latest, Rider, Near
  <2> QED
    BY <2>1, <2>3, <2>4
<1> QED
  BY <1>1, <1>2, <1>3, PTL DEF Replication!Spec
=============================================================================
