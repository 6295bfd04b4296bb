--------------------------- MODULE PeerSessionProofs ---------------------------
(***************************************************************************)
(* Proofs about PeerSession for every roster, election order and set of    *)
(* shots.                                                                  *)
(***************************************************************************)
EXTENDS PeerSession, TLAPS, WellFoundedInduction

-----------------------------------------------------------------------------
(* The election.                                                           *)

\* A non-empty set of naturals has the least element Least names.
LEMMA LeastIsMember ==
    ASSUME NEW S \in SUBSET Nat, S # {}
    PROVE  Least(S) \in S /\ \A y \in S : Least(S) <= y
<1> DEFINE R == {ss \in Nat \X Nat : ss[1] < ss[2]}
<1>1. IsWellFoundedOn(R, Nat)
  BY NatLessThanWellFounded DEF OpToRel
<1>2. PICK x \in S : \A y \in S : <<y, x>> \notin R
  <2> HIDE DEF R
  <2>1. QED
    BY <1>1, WFMin
<1>3. \A y \in S : x <= y
  <2>1. SUFFICES ASSUME NEW y \in S, y < x PROVE FALSE
    OBVIOUS
  <2>2. <<y, x>> \in Nat \X Nat /\ <<y, x>>[1] < <<y, x>>[2]
    BY <2>1
  <2>3. <<y, x>> \in R
    BY <2>2
  <2>4. QED
    BY <1>2, <2>3
<1>4. QED
  BY <1>3 DEF Least

\* The election picks one of the survivors (expire_and_migrate never installs
\* somebody it has just expired).
LEMMA SuccessorSurvives ==
    ASSUME NEW S \in SUBSET Player, S # {}
    PROVE  Successor(S) \in S
<1> DEFINE ranked == {i \in DOMAIN Preference : Preference[i] \in S}
<1>1. CASE ranked # {}
  <2>1. ranked \in SUBSET Nat
    BY PreferenceAssumption
  <2>2. Least(ranked) \in ranked
    BY <1>1, <2>1, LeastIsMember
  <2>3. Preference[Least(ranked)] \in S
    BY <2>2
  <2>4. QED
    BY <1>1, <2>3 DEF Successor
<1>2. CASE ranked = {}
  <2>1. S \in SUBSET Nat
    BY PlayerAssumption
  <2>2. Least(S) \in S
    BY <2>1, LeastIsMember
  <2>3. QED
    BY <1>2, <2>2 DEF Successor
<1>3. QED
  BY <1>1, <1>2

\* A player always survives in its own view, and so has somebody to elect.
LEMMA ElectsAPlayer ==
    ASSUME NEW p \in Player, connected[p] \in SUBSET Player
    PROVE  /\ Survivors(p) \in SUBSET Player
           /\ p \in Survivors(p)
           /\ Successor(Survivors(p)) \in Survivors(p)
<1>1. Survivors(p) \in SUBSET Player /\ p \in Survivors(p)
  BY DEF Survivors
<1>2. QED
  BY <1>1, SuccessorSurvives

\* No claim is coherent to a player that is its own authority: it is never
\* silent to itself, and nobody else may claim its epoch.
LEMMA ReignerRefusesClaims ==
    ASSUME NEW p \in Player, NEW q, NEW e, q # p, authority[p] = p
    PROVE  ~AuthorityClaimIsCoherent(p, q, e)
BY DEF AuthorityClaimIsCoherent, CurrentAuthorityIsSilent

-----------------------------------------------------------------------------
(* The inductive invariant.                                                *)

\* Commands and results are about shots that were fired; a shot has one
\* command, of its shooter, and everything about it belongs to one epoch.
OneCommandPerShot ==
    /\ \A m \in net : AboutShot(m) => m.shot \in fired
    /\ \A m, n \in net : AboutShot(m) /\ AboutShot(n) /\ m.shot = n.shot
          => m.epoch = n.epoch
    /\ \A m \in net : m.kind = "ShotCommand" => m.sender = m.shot[1]
    /\ \A m, n \in net : m.kind = "ShotCommand" /\ n.kind = "ShotCommand" /\ m.shot = n.shot
          => m = n

\* p accepted the result of s, in an epoch before the one p reigns in, if any.
Received(p, s) ==
    \E m \in net :
        /\ m.kind = "ShotResult" /\ m.shot = s
        /\ <<m.epoch, s>> \in applied[p]
        /\ m.epoch <= epoch[p]
        /\ authority[p] = p => m.epoch < epoch[p]

\* p resolved s itself, and the command is behind its replay floor.
Resolved(p, s) ==
    /\ authority[p] = p
    /\ \A c \in net : c.kind = "ShotCommand" /\ c.shot = s /\ c.sender # p
          => c.sequence <= lastSequence[p][c.sender]

HitEvidence ==
    \A p \in Player : \A s \in Shot :
        hits[p][s] # 0 => s \in fired /\ (Received(p, s) \/ Resolved(p, s))

IInv == TypeOK /\ SingleReign /\ OneCommandPerShot /\ HitEvidence /\ NoDoubleHit

-----------------------------------------------------------------------------
(* Facts about the operators the actions are built from.                   *)

LEMMA SurvivorsArePlayers ==
    ASSUME TypeOK, NEW p \in Player
    PROVE  /\ Survivors(p) \in SUBSET Player
           /\ p \in Survivors(p)
           /\ Successor(Survivors(p)) \in Survivors(p)
BY ElectsAPlayer DEF TypeOK, SessionTypeOK

-----------------------------------------------------------------------------
(* Type correctness.                                                       *)

LEMMA InitTypeOK == Init => TypeOK
BY PlayerAssumption DEF Init, SessionInit, TypeOK, SessionTypeOK

LEMMA MessageType ==
    ASSUME TypeOK, NEW p \in Player, NEW kind \in Kind, NEW s \in Shot \cup {NoShot},
           kind \in {"ShotCommand", "ShotResult"} => s \in Shot
    PROVE  Message(p, kind, s) \in Envelope
BY DEF TypeOK, SessionTypeOK, Message, Envelope, AboutShot

LEMMA HeardType ==
    ASSUME TypeOK, NEW p \in Player, NEW q \in Player, NEW seq \in Nat, NEW stays \in BOOLEAN,
           Heard(p, q, seq, stays)
    PROVE  /\ lastSequence' \in [Player -> [Player -> Nat]]
           /\ silent' \in [Player -> SUBSET Player]
           /\ connected' \in [Player -> SUBSET Player]
<1>1. lastSequence' \in [Player -> [Player -> Nat]]
  BY DEF Heard, TypeOK, SessionTypeOK
<1>2. silent' \in [Player -> SUBSET Player]
  BY DEF Heard, TypeOK, SessionTypeOK
<1>3. connected' \in [Player -> SUBSET Player]
  BY DEF Heard, TypeOK, SessionTypeOK
<1>4. QED
  BY <1>1, <1>2, <1>3

LEMMA ResolveType ==
    ASSUME TypeOK, NEW p \in Player, NEW s \in Shot, ResolveAndBroadcast(p, s)
    PROVE  /\ net' \subseteq Envelope
           /\ nextSequence' \in [Player -> Nat \ {0}]
           /\ receipts' \in [Player -> SUBSET (Nat \X Shot)]
           /\ hits' \in [Player -> [Shot -> Nat]]
<1>1. Message(p, "ShotResult", s) \in Envelope
  BY MessageType DEF Kind
<1>2. net' \subseteq Envelope /\ nextSequence' \in [Player -> Nat \ {0}]
  BY <1>1 DEF ResolveAndBroadcast, Send, TypeOK, SessionTypeOK
<1>3. receipts' \in [Player -> SUBSET (Nat \X Shot)]
  BY DEF ResolveAndBroadcast, TypeOK, SessionTypeOK
<1>4. hits' \in [Player -> [Shot -> Nat]]
  BY DEF ResolveAndBroadcast, Apply, TypeOK
<1>5. QED
  BY <1>2, <1>3, <1>4

\* Every step keeps the types: the election installs a roster member, epochs
\* and sequences stay positive, and envelopes stay well formed.
LEMMA TypeStep == TypeOK /\ [Next]_vars => TypeOK'
<1> SUFFICES ASSUME TypeOK, [Next]_vars PROVE TypeOK'
  OBVIOUS
<1> USE DEF TypeOK, SessionTypeOK
<1>1. ASSUME NEW p \in Player, Heartbeat(p) PROVE TypeOK'
  <2>1. Message(p, "Heartbeat", NoShot) \in Envelope
    BY MessageType DEF Kind
  <2>2. QED
    BY <1>1, <2>1 DEF Heartbeat, Send
<1>2. ASSUME NEW p \in Player, NEW s \in Shot, FireAsFollower(p, s) PROVE TypeOK'
  <2>1. Message(p, "ShotCommand", s) \in Envelope
    BY MessageType DEF Kind
  <2>2. QED
    BY <1>2, <2>1 DEF FireAsFollower, Send
<1>3. ASSUME NEW p \in Player, NEW s \in Shot, FireAsAuthority(p, s) PROVE TypeOK'
  <2>1. ResolveAndBroadcast(p, s)
    BY <1>3 DEF FireAsAuthority
  <2>2. QED
    BY <1>3, <2>1, ResolveType DEF FireAsAuthority
<1>4. ASSUME NEW p \in Player, Leave(p) PROVE TypeOK'
  <2>1. Message(p, "Leave", NoShot) \in Envelope
    BY MessageType DEF Kind
  <2>2. QED
    BY <1>4, <2>1 DEF Leave, Send
<1>5. ASSUME NEW p \in Player, Crash(p) PROVE TypeOK'
  BY <1>5 DEF Crash, sessionVars
<1>6. ASSUME NEW p \in Player, NEW q \in Player, FallSilent(p, q) PROVE TypeOK'
  BY <1>6 DEF FallSilent, Lapse
<1>7. ASSUME NEW p \in Player, NEW m \in net, Receive(p, m) PROVE TypeOK'
  <2>1. m \in Envelope /\ m.sender \in Player /\ m.sequence \in Nat /\ m.epoch \in Nat
    BY DEF Envelope
  <2>2. CASE AcceptHeartbeat(p, m)
    <3>1. Heard(p, m.sender, m.sequence, TRUE)
      BY <2>2 DEF AcceptHeartbeat
    <3>2. QED
      BY <2>1, <2>2, <3>1, HeardType DEF AcceptHeartbeat
  <2>3. CASE AcceptLeave(p, m)
    <3>1. Heard(p, m.sender, m.sequence, FALSE)
      BY <2>3 DEF AcceptLeave
    <3>2. QED
      BY <2>1, <2>3, <3>1, HeardType DEF AcceptLeave
  <2>4. CASE IgnoreCommand(p, m)
    <3>1. Heard(p, m.sender, m.sequence, TRUE)
      BY <2>4 DEF IgnoreCommand
    <3>2. QED
      BY <2>1, <2>4, <3>1, HeardType DEF IgnoreCommand
  <2>5. CASE ResolveCommand(p, m)
    <3>1. Heard(p, m.sender, m.sequence, TRUE) /\ ResolveAndBroadcast(p, m.shot)
      BY <2>5 DEF ResolveCommand
    <3>2. m.shot \in Shot
      BY <2>1, <2>5 DEF ResolveCommand, Envelope, AboutShot
    <3>3. QED
      BY <2>1, <2>5, <3>1, <3>2, HeardType, ResolveType DEF ResolveCommand
  <2>6. CASE AcceptResult(p, m)
    <3>1. Heard(p, m.sender, m.sequence, TRUE)
      BY <2>6 DEF AcceptResult
    <3>2. m.shot \in Shot
      BY <2>1, <2>6 DEF AcceptResult, Envelope, AboutShot
    <3>3. applied' \in [Player -> SUBSET (Nat \X Shot)]
      BY <2>1, <2>6, <3>2 DEF AcceptResult
    <3>4. hits' \in [Player -> [Shot -> Nat]]
      BY <2>6, <3>2 DEF AcceptResult, Apply
    <3>5. QED
      BY <2>1, <2>6, <3>1, <3>3, <3>4, HeardType DEF AcceptResult
  <2>7. CASE AcceptMigration(p, m)
    <3>1. Heard(p, m.sender, m.sequence, TRUE)
      BY <2>7 DEF AcceptMigration
    <3>2. {m.source} \X m.resolved \in SUBSET (Nat \X Shot)
      BY <2>1 DEF Envelope
    <3>3. applied' \in [Player -> SUBSET (Nat \X Shot)]
          /\ receipts' \in [Player -> SUBSET (Nat \X Shot)]
      BY <2>7, <3>2 DEF AcceptMigration
    <3>4. authority' \in [Player -> Player] /\ epoch' \in [Player -> Nat \ {0}]
      <4>1. m.epoch \in Nat \ {0}
        BY <2>1, <2>7 DEF AcceptMigration, Admitted
      <4>2. CASE ClaimWins(p, m.sender, m.epoch)
        <5>1. authority' = [authority EXCEPT ![p] = m.sender]
              /\ epoch' = [epoch EXCEPT ![p] = m.epoch]
          BY <2>7, <4>2 DEF AcceptMigration
        <5>2. QED
          BY <2>1, <4>1, <5>1
      <4>3. CASE ~ClaimWins(p, m.sender, m.epoch)
        BY <2>7, <4>3 DEF AcceptMigration
      <4>4. QED
        BY <4>2, <4>3
    <3>5. QED
      BY <2>1, <2>7, <3>1, <3>3, <3>4, HeardType DEF AcceptMigration
  <2>8. QED
    BY <1>7, <2>2, <2>3, <2>4, <2>5, <2>6, <2>7 DEF Receive
<1>8. ASSUME NEW p \in Player, PollQuietly(p) PROVE TypeOK'
  BY <1>8, SurvivorsArePlayers DEF PollQuietly
<1>9. ASSUME NEW p \in Player, PollAndMigrate(p) PROVE TypeOK'
  <2>1. Survivors(p) \in SUBSET Player /\ Successor(Survivors(p)) \in Player
    BY SurvivorsArePlayers
  <2>2. Handoff(p) \in Envelope
    BY DEF Handoff, Envelope, Kind, AboutShot
  <2>3. authority' \in [Player -> Player] /\ epoch' \in [Player -> Nat \ {0}]
        /\ connected' \in [Player -> SUBSET Player]
    BY <1>9, <2>1 DEF PollAndMigrate
  <2>4. net' \subseteq Envelope /\ nextSequence' \in [Player -> Nat \ {0}]
    BY <1>9, <2>2 DEF PollAndMigrate, Send
  <2>5. QED
    BY <1>9, <2>3, <2>4 DEF PollAndMigrate
<1>10. CASE UNCHANGED vars
  BY <1>10 DEF vars, sessionVars
<1>11. QED
  BY <1>1, <1>2, <1>3, <1>4, <1>5, <1>6, <1>7, <1>8, <1>9, <1>10 DEF Next, Poll

\* The state of a match always has its types, however many players it has.
THEOREM TypeCorrect == Spec => []TypeOK
BY InitTypeOK, TypeStep, PTL DEF Spec

-----------------------------------------------------------------------------
(* A reign is never ended by a message.                                    *)

\* Only a handoff p accepts or a timeout at p moves p to another authority or epoch.
LEMMA WhoMoves ==
    ASSUME TypeOK, [Next]_vars, NEW p \in Player
    PROVE  \/ authority'[p] = authority[p] /\ epoch'[p] = epoch[p]
           \/ \E m \in net : AcceptMigration(p, m)
           \/ PollAndMigrate(p)
<1> SUFFICES ASSUME authority'[p] # authority[p] \/ epoch'[p] # epoch[p]
             PROVE  (\E m \in net : AcceptMigration(p, m)) \/ PollAndMigrate(p)
  OBVIOUS
<1> USE DEF TypeOK, SessionTypeOK
<1>1. ASSUME NEW r \in Player, r # p, NEW m \in net, AcceptMigration(r, m) PROVE FALSE
  <2>1. CASE ClaimWins(r, m.sender, m.epoch)
    BY <1>1, <2>1 DEF AcceptMigration
  <2>2. CASE ~ClaimWins(r, m.sender, m.epoch)
    BY <1>1, <2>2 DEF AcceptMigration
  <2>3. QED
    BY <2>1, <2>2
<1>2. ASSUME NEW r \in Player, r # p, PollAndMigrate(r) PROVE FALSE
  BY <1>2 DEF PollAndMigrate
<1>3. ASSUME NEW r \in Player, NEW m \in net, Receive(r, m), ~AcceptMigration(r, m)
      PROVE  FALSE
  BY <1>3 DEF Receive, AcceptHeartbeat, AcceptLeave, IgnoreCommand, ResolveCommand,
              AcceptResult
<1>4. ASSUME NEW r \in Player,
             \/ Heartbeat(r) \/ Leave(r) \/ Crash(r) \/ PollQuietly(r)
             \/ \E q \in Player : FallSilent(r, q)
             \/ \E s \in Shot : FireAsFollower(r, s) \/ FireAsAuthority(r, s)
      PROVE  FALSE
  BY <1>4 DEF Heartbeat, Leave, Crash, PollQuietly, FallSilent, Lapse, FireAsFollower,
              FireAsAuthority, sessionVars
<1>5. ~UNCHANGED vars
  BY DEF vars, sessionVars
<1>6. QED
  BY <1>1, <1>2, <1>3, <1>4, <1>5 DEF Next, Poll

\* authority and epoch of p move together, and only when p is a follower.
LEMMA AuthorityMoves ==
    ASSUME TypeOK, [Next]_vars, NEW p \in Player,
           authority'[p] # authority[p] \/ epoch'[p] # epoch[p]
    PROVE  /\ authority[p] # p
           /\ epoch'[p] >= epoch[p]
           /\ authority'[p] = p => epoch'[p] = epoch[p] + 1
<1> USE DEF TypeOK, SessionTypeOK
<1>1. CASE \E m \in net : AcceptMigration(p, m)
  <2>1. PICK m \in net : AcceptMigration(p, m)
    BY <1>1
  <2>2. m.sender \in Player /\ m.epoch \in Nat /\ m.sender # p
        /\ AuthorityClaimIsCoherent(p, m.sender, m.epoch)
    BY <2>1 DEF AcceptMigration, Admitted, Envelope
  <2>3. authority[p] # p
    BY <2>2, ReignerRefusesClaims
  <2>4. CASE ClaimWins(p, m.sender, m.epoch)
    <3>1. authority'[p] = m.sender /\ epoch'[p] = m.epoch
      BY <2>1, <2>4 DEF AcceptMigration
    <3>2. QED
      BY <2>2, <2>3, <2>4, <3>1 DEF ClaimWins
  <2>5. CASE ~ClaimWins(p, m.sender, m.epoch)
    BY <2>1, <2>5 DEF AcceptMigration
  <2>6. QED
    BY <2>4, <2>5
<1>2. CASE PollAndMigrate(p)
  BY <1>2 DEF PollAndMigrate
<1>3. QED
  BY <1>1, <1>2, WhoMoves

\* "A live authority fails closed against remote usurpation", for every roster.
THEOREM LiveAuthorityHolds == Spec => LiveAuthorityIsNotDeposed
<1>1. TypeOK /\ [Next]_vars =>
        [\A p \in Player : authority[p] = p =>
            authority'[p] = p /\ epoch'[p] = epoch[p]]_vars
  BY AuthorityMoves
<1>2. QED
  BY <1>1, TypeCorrect, PTL DEF Spec, LiveAuthorityIsNotDeposed

-----------------------------------------------------------------------------
(* What a step may add to the network.                                     *)

\* The one envelope a step may send, by its kind.
LEMMA NewEnvelope ==
    ASSUME TypeOK, [Next]_vars, NEW m \in net', m \notin net
    PROVE  \/ m.kind \in {"Heartbeat", "Leave"}
           \/ \E p \in Player, s \in Shot :
                 FireAsFollower(p, s) /\ m = Message(p, "ShotCommand", s)
           \/ \E p \in Player, s \in Shot :
                 FireAsAuthority(p, s) /\ m = Message(p, "ShotResult", s)
           \/ \E p \in Player, c \in net :
                 ResolveCommand(p, c) /\ m = Message(p, "ShotResult", c.shot)
           \/ \E p \in Player : /\ PollAndMigrate(p) /\ m = Handoff(p)
                                /\ Successor(Survivors(p)) = p
<1>1. ASSUME NEW p \in Player, Heartbeat(p) \/ Leave(p) PROVE m.kind \in {"Heartbeat", "Leave"}
  BY <1>1 DEF Heartbeat, Leave, Send, Message
<1>2. ASSUME NEW p \in Player, NEW s \in Shot, FireAsFollower(p, s)
      PROVE  m = Message(p, "ShotCommand", s)
  BY <1>2 DEF FireAsFollower, Send
<1>3. ASSUME NEW p \in Player, NEW s \in Shot, FireAsAuthority(p, s)
      PROVE  m = Message(p, "ShotResult", s)
  BY <1>3 DEF FireAsAuthority, ResolveAndBroadcast, Send
<1>4. ASSUME NEW p \in Player, NEW c \in net, ResolveCommand(p, c)
      PROVE  m = Message(p, "ShotResult", c.shot)
  BY <1>4 DEF ResolveCommand, ResolveAndBroadcast, Send
<1>5. ASSUME NEW p \in Player, PollAndMigrate(p)
      PROVE  m = Handoff(p) /\ Successor(Survivors(p)) = p
  <2>1. CASE Successor(Survivors(p)) = p
    BY <1>5, <2>1 DEF PollAndMigrate, Send
  <2>2. CASE Successor(Survivors(p)) # p
    BY <1>5, <2>2 DEF PollAndMigrate
  <2>3. QED
    BY <2>1, <2>2
<1>6. ASSUME NEW p \in Player, NEW c \in net, Receive(p, c), ~ResolveCommand(p, c) PROVE FALSE
  BY <1>6 DEF Receive, AcceptHeartbeat, AcceptLeave, IgnoreCommand, AcceptResult, AcceptMigration
<1>7. ASSUME NEW p \in Player,
             Crash(p) \/ PollQuietly(p) \/ \E q \in Player : FallSilent(p, q)
      PROVE  FALSE
  BY <1>7 DEF Crash, PollQuietly, FallSilent
<1>8. ~UNCHANGED vars
  BY DEF vars
<1>9. QED
  BY <1>1, <1>2, <1>3, <1>4, <1>5, <1>6, <1>7, <1>8 DEF Next, Poll

\* Nothing a player signed as authority outlives its reign.
LEMMA ReignStep == TypeOK /\ SingleReign /\ [Next]_vars => SingleReign'
<1> SUFFICES ASSUME TypeOK, SingleReign, [Next]_vars,
                    NEW m \in net', m.kind \in {"ShotResult", "MigrationSnapshot"}
             PROVE  authority'[m.sender] = m.sender /\ epoch'[m.sender] = m.epoch
  BY DEF SingleReign
<1>1. CASE m \in net
  <2>1. m.sender \in Player
    BY <1>1 DEF TypeOK, Envelope
  <2>2. authority[m.sender] = m.sender /\ epoch[m.sender] = m.epoch
    BY <1>1 DEF SingleReign
  <2>3. QED
    BY <2>1, <2>2, AuthorityMoves
<1>2. CASE m \notin net
  <2>1. ASSUME NEW p \in Player, NEW s \in Shot, FireAsFollower(p, s),
               m = Message(p, "ShotCommand", s)
        PROVE  FALSE
    BY <2>1 DEF Message
  <2>2. ASSUME NEW p \in Player, NEW s \in Shot, FireAsAuthority(p, s),
               m = Message(p, "ShotResult", s)
        PROVE  authority'[m.sender] = m.sender /\ epoch'[m.sender] = m.epoch
    BY <2>2 DEF FireAsAuthority, Message
  <2>3. ASSUME NEW p \in Player, NEW c \in net, ResolveCommand(p, c),
               m = Message(p, "ShotResult", c.shot)
        PROVE  authority'[m.sender] = m.sender /\ epoch'[m.sender] = m.epoch
    BY <2>3 DEF ResolveCommand, Message
  <2>4. ASSUME NEW p \in Player, PollAndMigrate(p), m = Handoff(p),
               Successor(Survivors(p)) = p
        PROVE  authority'[m.sender] = m.sender /\ epoch'[m.sender] = m.epoch
    BY <2>4 DEF PollAndMigrate, Handoff, TypeOK, SessionTypeOK
  <2>5. QED
    BY <1>2, <2>1, <2>2, <2>3, <2>4, NewEnvelope
<1>3. QED
  BY <1>1, <1>2

\* A player is authority in at most one epoch of its session.
THEOREM ReignsOnce == Spec => []SingleReign
<1>1. Init => SingleReign
  BY DEF Init, SingleReign
<1>2. QED
  BY <1>1, ReignStep, TypeCorrect, PTL DEF Spec

-----------------------------------------------------------------------------
(* No shot hits twice.                                                     *)

\* What steps only ever add to: the network, by at most one envelope, the
\* shots fired, the results applied and the replay floors.
Grows ==
    /\ net \subseteq net'
    /\ \A m, n \in net' : m \notin net /\ n \notin net => m = n
    /\ fired \subseteq fired'
    /\ \A p \in Player : applied[p] \subseteq applied'[p]
    /\ \A p, q \in Player : lastSequence[p][q] <= lastSequence'[p][q]

LEMMA HeardGrows ==
    ASSUME TypeOK, NEW p \in Player, NEW m \in net, Admitted(p, m), NEW stays,
           Heard(p, m.sender, m.sequence, stays)
    PROVE  \A r, q \in Player : lastSequence[r][q] <= lastSequence'[r][q]
<1>1. m.sender \in Player /\ m.sequence \in Nat /\ m.sequence > lastSequence[p][m.sender]
  BY DEF TypeOK, Envelope, Admitted
<1>2. lastSequence' = [lastSequence EXCEPT ![p][m.sender] = m.sequence]
  BY DEF Heard
<1>3. QED
  BY <1>1, <1>2 DEF TypeOK, SessionTypeOK

LEMMA GrowsStep ==
    ASSUME TypeOK, [Next]_vars
    PROVE  Grows
<1>0. \A r, q \in Player : lastSequence[r][q] \in Nat
  BY DEF TypeOK, SessionTypeOK
<1>1. ASSUME NEW p \in Player, Heartbeat(p) PROVE Grows
  BY <1>0, <1>1 DEF Heartbeat, Send, Grows
<1>2. ASSUME NEW p \in Player, NEW s \in Shot, FireAsFollower(p, s) PROVE Grows
  BY <1>0, <1>2 DEF FireAsFollower, Send, Grows
<1>3. ASSUME NEW p \in Player, NEW s \in Shot, FireAsAuthority(p, s) PROVE Grows
  BY <1>0, <1>3 DEF FireAsAuthority, ResolveAndBroadcast, Send, Grows
<1>4. ASSUME NEW p \in Player, Leave(p) PROVE Grows
  BY <1>0, <1>4 DEF Leave, Send, Grows
<1>5. ASSUME NEW p \in Player, Crash(p) PROVE Grows
  BY <1>0, <1>5 DEF Crash, sessionVars, Grows
<1>6. ASSUME NEW p \in Player, NEW q \in Player, FallSilent(p, q) PROVE Grows
  BY <1>0, <1>6 DEF FallSilent, Lapse, Grows
<1>7. ASSUME NEW p \in Player, NEW m \in net, Receive(p, m) PROVE Grows
  <2>1. \E stays : Admitted(p, m) /\ Heard(p, m.sender, m.sequence, stays)
    BY <1>7 DEF Receive, AcceptHeartbeat, AcceptLeave, IgnoreCommand, ResolveCommand,
                AcceptResult, AcceptMigration
  <2>2. \A r, q \in Player : lastSequence[r][q] <= lastSequence'[r][q]
    BY <2>1, HeardGrows
  <2>3. CASE AcceptHeartbeat(p, m) \/ AcceptLeave(p, m) \/ IgnoreCommand(p, m)
    BY <2>2, <2>3 DEF AcceptHeartbeat, AcceptLeave, IgnoreCommand, Grows
  <2>4. CASE ResolveCommand(p, m)
    BY <2>2, <2>4 DEF ResolveCommand, ResolveAndBroadcast, Send, Grows
  <2>5. CASE AcceptResult(p, m)
    <3>1. \A r \in Player : applied[r] \subseteq applied'[r]
      BY <2>5 DEF AcceptResult, TypeOK
    <3>2. QED
      BY <2>2, <2>5, <3>1 DEF AcceptResult, Grows
  <2>6. CASE AcceptMigration(p, m)
    <3>1. \A r \in Player : applied[r] \subseteq applied'[r]
      BY <2>6 DEF AcceptMigration, TypeOK
    <3>2. QED
      BY <2>2, <2>6, <3>1 DEF AcceptMigration, Grows
  <2>7. QED
    BY <1>7, <2>3, <2>4, <2>5, <2>6 DEF Receive
<1>8. ASSUME NEW p \in Player, PollQuietly(p) PROVE Grows
  BY <1>0, <1>8 DEF PollQuietly, Grows
<1>9. ASSUME NEW p \in Player, PollAndMigrate(p) PROVE Grows
  <2>1. CASE Successor(Survivors(p)) = p
    BY <1>0, <1>9, <2>1 DEF PollAndMigrate, Send, Grows
  <2>2. CASE Successor(Survivors(p)) # p
    BY <1>0, <1>9, <2>2 DEF PollAndMigrate, Grows
  <2>3. QED
    BY <2>1, <2>2
<1>10. CASE UNCHANGED vars
  BY <1>0, <1>10 DEF vars, sessionVars, Grows
<1>11. QED
  BY <1>1, <1>2, <1>3, <1>4, <1>5, <1>6, <1>7, <1>8, <1>9, <1>10 DEF Next, Poll

\* Everything about one shot stays in the epoch of its only command.
LEMMA CommandStep ==
    ASSUME TypeOK, OneCommandPerShot, [Next]_vars
    PROVE  OneCommandPerShot'
<1>1. fired \subseteq fired'
  BY GrowsStep DEF Grows
<1>2. ASSUME NEW m \in net', AboutShot(m), m \notin net
      PROVE  /\ m.shot \in fired'
             /\ m.kind = "ShotCommand" => m.sender = m.shot[1] /\ m.shot \notin fired
             /\ \A n \in net : AboutShot(n) /\ n.shot = m.shot => n.epoch = m.epoch
  <2>1. ASSUME NEW p \in Player, NEW s \in Shot, FireAsFollower(p, s),
               m = Message(p, "ShotCommand", s)
        PROVE  /\ m.shot \in fired' /\ m.shot \notin fired /\ m.sender = m.shot[1]
               /\ \A n \in net : AboutShot(n) => n.shot # m.shot
    BY <2>1 DEF FireAsFollower, Message, OneCommandPerShot
  <2>2. ASSUME NEW p \in Player, NEW s \in Shot, FireAsAuthority(p, s),
               m = Message(p, "ShotResult", s)
        PROVE  /\ m.shot \in fired' /\ m.kind = "ShotResult"
               /\ \A n \in net : AboutShot(n) => n.shot # m.shot
    BY <2>2 DEF FireAsAuthority, Message, OneCommandPerShot
  <2>3. ASSUME NEW p \in Player, NEW c \in net, ResolveCommand(p, c),
               m = Message(p, "ShotResult", c.shot)
        PROVE  /\ m.shot \in fired' /\ m.kind = "ShotResult"
               /\ \A n \in net : AboutShot(n) /\ n.shot = m.shot => n.epoch = m.epoch
    <3>1. c.kind = "ShotCommand" /\ c.epoch = epoch[p] /\ AboutShot(c)
      BY <2>3 DEF ResolveCommand, Admitted, AboutShot
    <3>2. m.shot = c.shot /\ m.epoch = epoch[p] /\ m.kind = "ShotResult"
      BY <2>3 DEF Message
    <3>3. QED
      BY <1>1, <3>1, <3>2 DEF OneCommandPerShot
  <2>4. ASSUME NEW p \in Player, m = Handoff(p) PROVE FALSE
    BY <1>2, <2>4 DEF Handoff, AboutShot
  <2>5. m.kind \notin {"Heartbeat", "Leave"}
    BY <1>2 DEF AboutShot
  <2>6. QED
    BY <1>2, <2>1, <2>2, <2>3, <2>4, <2>5, NewEnvelope
<1>3. \A m, n \in net' : m \notin net /\ n \notin net => m = n
  BY GrowsStep DEF Grows
<1>4. \A m \in net' : AboutShot(m) => m.shot \in fired'
  BY <1>1, <1>2 DEF OneCommandPerShot
<1>5. \A m, n \in net' : AboutShot(m) /\ AboutShot(n) /\ m.shot = n.shot => m.epoch = n.epoch
  BY <1>2, <1>3 DEF OneCommandPerShot
<1>6. \A m \in net' : m.kind = "ShotCommand" => m.sender = m.shot[1]
  BY <1>2 DEF OneCommandPerShot, AboutShot
<1>7. \A m, n \in net' : m.kind = "ShotCommand" /\ n.kind = "ShotCommand" /\ m.shot = n.shot
         => m = n
  BY <1>2, <1>3 DEF OneCommandPerShot, AboutShot
<1>8. QED
  BY <1>4, <1>5, <1>6, <1>7 DEF OneCommandPerShot, AboutShot

\* The evidence of a hit stays: a result once applied, a command once passed.
LEMMA EvidenceStays ==
    ASSUME TypeOK, OneCommandPerShot, [Next]_vars, NEW p \in Player, NEW s \in Shot,
           s \in fired, Received(p, s) \/ Resolved(p, s)
    PROVE  s \in fired' /\ (Received(p, s)' \/ Resolved(p, s)')
<1> USE GrowsStep
<1>1. s \in fired'
  BY DEF Grows
<1>2. CASE Received(p, s)
  <2>1. PICK m \in net : /\ m.kind = "ShotResult" /\ m.shot = s
                         /\ <<m.epoch, s>> \in applied[p]
                         /\ m.epoch <= epoch[p]
                         /\ authority[p] = p => m.epoch < epoch[p]
    BY <1>2 DEF Received
  <2>2. m \in net' /\ <<m.epoch, s>> \in applied'[p]
    BY <2>1 DEF Grows
  <2>3. m.epoch \in Nat /\ epoch[p] \in Nat
    BY <2>1 DEF TypeOK, SessionTypeOK, Envelope
  <2>4. m.epoch <= epoch'[p] /\ (authority'[p] = p => m.epoch < epoch'[p])
    <3>1. CASE authority'[p] = authority[p] /\ epoch'[p] = epoch[p]
      BY <2>1, <3>1
    <3>2. CASE ~(authority'[p] = authority[p] /\ epoch'[p] = epoch[p])
      <4>1. epoch'[p] >= epoch[p] /\ (authority'[p] = p => epoch'[p] = epoch[p] + 1)
        BY <3>2, AuthorityMoves
      <4>2. epoch'[p] \in Nat
        BY TypeStep DEF TypeOK, SessionTypeOK
      <4>3. QED
        BY <2>1, <2>3, <4>1, <4>2
    <3>3. QED
      BY <3>1, <3>2
  <2>5. QED
    BY <1>1, <2>1, <2>2, <2>4 DEF Received
<1>3. CASE Resolved(p, s)
  <2>1. authority'[p] = p
    BY <1>3, AuthorityMoves DEF Resolved
  <2>2. ASSUME NEW c \in net', c.kind = "ShotCommand", c.shot = s, c.sender # p
        PROVE  c.sequence <= lastSequence'[p][c.sender]
    <3>1. c \in net
      <4>1. SUFFICES ASSUME c \notin net PROVE FALSE
        OBVIOUS
      <4>2. ASSUME NEW r \in Player, NEW t \in Shot, FireAsFollower(r, t),
                   c = Message(r, "ShotCommand", t)
            PROVE  FALSE
        BY <2>2, <4>2 DEF FireAsFollower, Message
      <4>3. QED
        BY <2>2, <4>1, <4>2, NewEnvelope DEF Message, Handoff
    <3>2. c.sequence <= lastSequence[p][c.sender]
      BY <1>3, <2>2, <3>1 DEF Resolved
    <3>3. c.sender \in Player /\ c.sequence \in Nat /\ lastSequence[p][c.sender] \in Nat
          /\ lastSequence'[p][c.sender] \in Nat
      BY <3>1, TypeStep DEF TypeOK, SessionTypeOK, Envelope
    <3>4. QED
      BY <3>2, <3>3 DEF Grows
  <2>3. QED
    BY <1>1, <2>1, <2>2 DEF Resolved
<1>4. QED
  BY <1>2, <1>3

\* A step that hands p a result of s: p had none before, and now has evidence.
HitIsFirst(p, s) ==
    /\ hits' = [hits EXCEPT ![p][s] = @ + 1]
    /\ hits[p][s] = 0
    /\ s \in fired' /\ (Received(p, s)' \/ Resolved(p, s)')

LEMMA OwnShotIsFirst ==
    ASSUME IInv, [Next]_vars, NEW p \in Player, NEW s \in Shot, FireAsAuthority(p, s)
    PROVE  HitIsFirst(p, s)
<1>1. hits' = [hits EXCEPT ![p][s] = @ + 1]
  BY DEF FireAsAuthority, ResolveAndBroadcast, Apply
<1>2. s \notin fired /\ s \in fired' /\ authority'[p] = p
  BY DEF FireAsAuthority
<1>3. hits[p][s] = 0
  BY <1>2 DEF IInv, HitEvidence
<1>4. \A c \in net' : c.kind = "ShotCommand" => c.shot # s
  BY <1>2 DEF FireAsAuthority, ResolveAndBroadcast, Send, Message, IInv, OneCommandPerShot,
              AboutShot
<1>5. Resolved(p, s)'
  BY <1>2, <1>4 DEF Resolved
<1>6. QED
  BY <1>1, <1>2, <1>3, <1>5 DEF HitIsFirst

LEMMA CommandIsFirst ==
    ASSUME IInv, [Next]_vars, NEW p \in Player, NEW m \in net, ResolveCommand(p, m)
    PROVE  m.shot \in Shot /\ HitIsFirst(p, m.shot)
<1>1. /\ hits' = [hits EXCEPT ![p][m.shot] = @ + 1]
      /\ m.kind = "ShotCommand" /\ AboutShot(m)
      /\ authority[p] = p /\ authority'[p] = p
      /\ m.epoch = epoch[p] /\ m.sender # p
      /\ m.sequence > lastSequence[p][m.sender]
      /\ Heard(p, m.sender, m.sequence, TRUE)
  BY DEF ResolveCommand, ResolveAndBroadcast, Apply, Admitted, AboutShot
<1>2. /\ m.sender \in Player /\ m.sequence \in Nat /\ m.shot \in Shot
      /\ lastSequence[p][m.sender] \in Nat
  BY <1>1 DEF IInv, TypeOK, SessionTypeOK, Envelope
<1>3. m.shot \in fired /\ m.shot \in fired'
  BY <1>1, GrowsStep DEF IInv, OneCommandPerShot, Grows
<1>4. hits[p][m.shot] = 0
  <2>1. SUFFICES ASSUME hits[p][m.shot] # 0 PROVE FALSE
    OBVIOUS
  <2>2. Received(p, m.shot) \/ Resolved(p, m.shot)
    BY <1>2, <2>1 DEF IInv, HitEvidence
  <2>3. CASE Received(p, m.shot)
    <3>1. PICK n \in net : n.kind = "ShotResult" /\ n.shot = m.shot /\ n.epoch < epoch[p]
      BY <1>1, <2>3 DEF Received
    <3>2. n.epoch = m.epoch
      BY <1>1, <3>1 DEF IInv, OneCommandPerShot, AboutShot
    <3>3. epoch[p] \in Nat
      BY DEF IInv, TypeOK, SessionTypeOK
    <3>4. QED
      BY <1>1, <3>1, <3>2, <3>3
  <2>4. CASE Resolved(p, m.shot)
    <3>1. m.sequence <= lastSequence[p][m.sender]
      BY <1>1, <2>4 DEF Resolved
    <3>2. QED
      BY <1>1, <1>2, <3>1
  <2>5. QED
    BY <2>2, <2>3, <2>4
<1>5. \A c \in net' : c.kind = "ShotCommand" /\ c.shot = m.shot => c = m
  BY <1>1, CommandStep, GrowsStep DEF IInv, OneCommandPerShot, Grows
<1>6. lastSequence'[p][m.sender] = m.sequence
  BY <1>1, <1>2 DEF Heard, IInv, TypeOK, SessionTypeOK
<1>7. Resolved(p, m.shot)'
  BY <1>1, <1>2, <1>5, <1>6 DEF Resolved
<1>8. QED
  BY <1>1, <1>2, <1>3, <1>4, <1>7 DEF HitIsFirst

LEMMA ResultIsFirst ==
    ASSUME IInv, [Next]_vars, NEW p \in Player, NEW m \in net, AcceptResult(p, m)
    PROVE  m.shot \in Shot /\ HitIsFirst(p, m.shot)
<1>1. /\ hits' = [hits EXCEPT ![p][m.shot] = @ + 1]
      /\ m.kind = "ShotResult" /\ AboutShot(m)
      /\ m.sender = authority[p] /\ m.sender # p
      /\ UNCHANGED <<authority, epoch>>
      /\ m.epoch = epoch[p]
      /\ <<m.epoch, m.shot>> \notin applied[p]
      /\ applied' = [applied EXCEPT ![p] = @ \cup {<<m.epoch, m.shot>>}]
  BY DEF AcceptResult, Apply, Admitted, AboutShot
<1>2. m.shot \in Shot /\ m.epoch \in Nat /\ m \in net'
  BY <1>1, GrowsStep DEF IInv, TypeOK, Envelope, Grows
<1>3. m.shot \in fired /\ m.shot \in fired'
  BY <1>1, GrowsStep DEF IInv, OneCommandPerShot, Grows
<1>4. hits[p][m.shot] = 0
  <2>1. SUFFICES ASSUME hits[p][m.shot] # 0 PROVE FALSE
    OBVIOUS
  <2>2. Received(p, m.shot) \/ Resolved(p, m.shot)
    BY <1>2, <2>1 DEF IInv, HitEvidence
  <2>3. ~Resolved(p, m.shot)
    BY <1>1 DEF Resolved
  <2>4. PICK n \in net : n.kind = "ShotResult" /\ n.shot = m.shot
                         /\ <<n.epoch, m.shot>> \in applied[p]
    BY <2>2, <2>3 DEF Received
  <2>5. n.epoch = m.epoch
    BY <1>1, <2>4 DEF IInv, OneCommandPerShot, AboutShot
  <2>6. QED
    BY <1>1, <2>4, <2>5
<1>5. <<m.epoch, m.shot>> \in applied'[p]
  BY <1>1 DEF IInv, TypeOK
<1>6. Received(p, m.shot)'
  BY <1>1, <1>2, <1>5 DEF Received
<1>7. QED
  BY <1>1, <1>2, <1>3, <1>4, <1>6 DEF HitIsFirst

LEMMA HitStep ==
    ASSUME IInv, [Next]_vars
    PROVE  HitEvidence' /\ NoDoubleHit'
<1>1. CASE UNCHANGED hits
  BY <1>1, EvidenceStays DEF IInv, HitEvidence, NoDoubleHit
<1>2. ASSUME NEW p \in Player, NEW s \in Shot, HitIsFirst(p, s)
      PROVE  HitEvidence' /\ NoDoubleHit'
  <2>1. \A r \in Player, t \in Shot :
           hits'[r][t] = IF r = p /\ t = s THEN 1 ELSE hits[r][t]
    BY <1>2 DEF HitIsFirst, IInv, TypeOK
  <2>2. NoDoubleHit'
    BY <2>1 DEF IInv, NoDoubleHit
  <2>3. HitEvidence'
    BY <1>2, <2>1, EvidenceStays DEF HitIsFirst, IInv, HitEvidence
  <2>4. QED
    BY <2>2, <2>3
<1>3. \/ UNCHANGED hits
      \/ \E p \in Player, s \in Shot : FireAsAuthority(p, s)
      \/ \E p \in Player, m \in net : ResolveCommand(p, m) \/ AcceptResult(p, m)
  BY DEF Next, vars, Poll, Receive, Heartbeat, FireAsFollower, Leave, Crash, FallSilent,
         AcceptHeartbeat, AcceptLeave, IgnoreCommand, AcceptMigration, PollQuietly,
         PollAndMigrate
<1>4. QED
  BY <1>1, <1>2, <1>3, OwnShotIsFirst, CommandIsFirst, ResultIsFirst

\* No player is ever handed the result of a shot twice: not by a replay, not by
\* two authorities of a split election, not across handoffs.
THEOREM ShotsHitOnce == Spec => []NoDoubleHit
<1>1. Init => IInv
  <2>1. Init => SingleReign /\ OneCommandPerShot
    BY DEF Init, SingleReign, OneCommandPerShot
  <2>2. Init => HitEvidence /\ NoDoubleHit
    BY DEF Init, HitEvidence, NoDoubleHit
  <2>3. QED
    BY <2>1, <2>2, InitTypeOK DEF IInv
<1>2. IInv /\ [Next]_vars => IInv'
  BY TypeStep, ReignStep, CommandStep, HitStep DEF IInv
<1>3. IInv => NoDoubleHit
  BY DEF IInv
<1>4. QED
  BY <1>1, <1>2, <1>3, PTL DEF Spec

-----------------------------------------------------------------------------
(* Succession is orderly.                                                  *)

\* "Epochs advance one at a time, and only over an authority that left or fell
\* silent", whatever mix of timeouts and handoffs moves a follower.
THEOREM SuccessionIsOrderly == Spec => OrderlySuccession
<1> DEFINE Orderly(p) ==
       /\ epoch'[p] \in {epoch[p], epoch[p] + 1}
       /\ epoch'[p] # epoch[p] => authority[p] \notin connected[p] \ silent[p]
       /\ epoch'[p] = epoch[p] => authority'[p] <= authority[p]
<1>1. ASSUME TypeOK, [Next]_vars, NEW p \in Player PROVE Orderly(p)
  <2> USE DEF TypeOK, SessionTypeOK
  <2>1. authority[p] \in Nat
    BY <1>1, PlayerAssumption
  <2>2. CASE authority'[p] = authority[p] /\ epoch'[p] = epoch[p]
    BY <2>1, <2>2
  <2>3. CASE \E m \in net : AcceptMigration(p, m)
    <3>1. PICK m \in net : AcceptMigration(p, m)
      BY <2>3
    <3>2. /\ m.sender \in Player /\ m.epoch \in Nat
          /\ AuthorityClaimIsCoherent(p, m.sender, m.epoch)
      BY <1>1, <3>1 DEF AcceptMigration, Envelope
    <3>3. CASE ClaimWins(p, m.sender, m.epoch)
      <4>1. authority'[p] = m.sender /\ epoch'[p] = m.epoch
        BY <1>1, <3>1, <3>3 DEF AcceptMigration
      <4>2. epoch[p] \in Nat /\ m.sender \in Nat
        BY <1>1, <3>2, PlayerAssumption
      <4>3. CASE m.epoch = epoch[p] /\ m.sender < authority[p]
        BY <2>1, <4>1, <4>2, <4>3
      <4>4. CASE m.epoch = epoch[p] + 1 /\ CurrentAuthorityIsSilent(p)
        BY <4>1, <4>2, <4>4 DEF CurrentAuthorityIsSilent
      <4>5. QED
        BY <3>2, <3>3, <4>2, <4>3, <4>4 DEF ClaimWins, AuthorityClaimIsCoherent
    <3>4. CASE ~ClaimWins(p, m.sender, m.epoch)
      BY <2>2, <3>1, <3>4 DEF AcceptMigration
    <3>5. QED
      BY <3>3, <3>4
  <2>4. CASE PollAndMigrate(p)
    <3>1. epoch'[p] = epoch[p] + 1 /\ authority[p] \notin Survivors(p)
      BY <1>1, <2>4 DEF PollAndMigrate
    <3>2. epoch[p] \in Nat
      BY <1>1
    <3>3. QED
      BY <3>1, <3>2 DEF Survivors
  <2>5. \/ authority'[p] = authority[p] /\ epoch'[p] = epoch[p]
        \/ \E m \in net : AcceptMigration(p, m)
        \/ PollAndMigrate(p)
    BY <1>1, WhoMoves
  <2>6. QED
    BY <2>2, <2>3, <2>4, <2>5
<1>2. TypeOK /\ [Next]_vars => [\A p \in Player : Orderly(p)]_vars
  BY <1>1
<1>3. QED
  BY <1>2, TypeCorrect, PTL DEF Spec, OrderlySuccession

-----------------------------------------------------------------------------
(* The next envelope of a player is never taken for a replay.              *)

\* Every envelope on the network is older than the next one of its sender.
SentBefore == \A m \in net : m.sequence < nextSequence[m.sender]

FreshInv == TypeOK /\ SentBefore /\ NextEnvelopeIsFresh

\* Sequence counters never run back, and an envelope takes the number its
\* sender's counter leaves.
LEMMA SendStep ==
    ASSUME TypeOK, NEW p \in Player, NEW m \in Envelope, Send(p, m),
           m.sender = p, m.sequence = nextSequence[p]
    PROVE  /\ net' = net \cup {m}
           /\ \A q \in Player : nextSequence[q] <= nextSequence'[q]
           /\ m.sequence < nextSequence'[m.sender]
BY DEF Send, TypeOK, SessionTypeOK

LEMMA CountersStep ==
    ASSUME TypeOK, [Next]_vars
    PROVE  /\ \A q \in Player : nextSequence[q] <= nextSequence'[q]
           /\ \A m \in net' : m \notin net => m.sequence < nextSequence'[m.sender]
<1> DEFINE Counted == /\ \A q \in Player : nextSequence[q] <= nextSequence'[q]
                      /\ \A m \in net' : m \notin net => m.sequence < nextSequence'[m.sender]
<1>1. ASSUME NEW p \in Player, NEW kind \in Kind, NEW s \in Shot \cup {NoShot},
             kind \in {"ShotCommand", "ShotResult"} => s \in Shot,
             Send(p, Message(p, kind, s))
      PROVE  Counted
  <2>1. Message(p, kind, s) \in Envelope
    BY <1>1, MessageType
  <2>2. Message(p, kind, s).sender = p /\ Message(p, kind, s).sequence = nextSequence[p]
    BY DEF Message
  <2>3. QED
    BY <1>1, <2>1, <2>2, SendStep
<1>2. ASSUME NEW p \in Player, Heartbeat(p) \/ Leave(p) PROVE Counted
  BY <1>1, <1>2 DEF Heartbeat, Leave, Kind
<1>3. ASSUME NEW p \in Player, NEW s \in Shot, FireAsFollower(p, s) \/ FireAsAuthority(p, s)
      PROVE  Counted
  BY <1>1, <1>3 DEF FireAsFollower, FireAsAuthority, ResolveAndBroadcast, Kind
<1>4. ASSUME NEW p \in Player, NEW m \in net, ResolveCommand(p, m) PROVE Counted
  <2>1. m.shot \in Shot
    BY <1>4 DEF ResolveCommand, TypeOK, Envelope, AboutShot
  <2>2. QED
    BY <1>1, <1>4, <2>1 DEF ResolveCommand, ResolveAndBroadcast, Kind
<1>5. ASSUME NEW p \in Player, PollAndMigrate(p) PROVE Counted
  <2>1. CASE Successor(Survivors(p)) = p
    <3>1. Send(p, Handoff(p))
      BY <1>5, <2>1 DEF PollAndMigrate
    <3>2. Handoff(p) \in Envelope
      BY DEF Handoff, Envelope, Kind, AboutShot, TypeOK, SessionTypeOK
    <3>3. Handoff(p).sender = p /\ Handoff(p).sequence = nextSequence[p]
      BY DEF Handoff
    <3>4. QED
      BY <3>1, <3>2, <3>3, SendStep
  <2>2. CASE Successor(Survivors(p)) # p
    BY <1>5, <2>2 DEF PollAndMigrate, TypeOK, SessionTypeOK
  <2>3. QED
    BY <2>1, <2>2
<1>6. CASE UNCHANGED <<net, nextSequence>>
  BY <1>6 DEF TypeOK, SessionTypeOK
<1>7. \/ UNCHANGED <<net, nextSequence>>
      \/ \E p \in Player : Heartbeat(p) \/ Leave(p) \/ PollAndMigrate(p)
      \/ \E p \in Player, s \in Shot : FireAsFollower(p, s) \/ FireAsAuthority(p, s)
      \/ \E p \in Player, m \in net : ResolveCommand(p, m)
  <2>1. ASSUME NEW p \in Player, NEW m \in net, Receive(p, m), ~ResolveCommand(p, m)
        PROVE  UNCHANGED <<net, nextSequence>>
    BY <2>1 DEF Receive, AcceptHeartbeat, AcceptLeave, IgnoreCommand, AcceptResult,
                AcceptMigration
  <2>2. ASSUME NEW p \in Player,
               Crash(p) \/ PollQuietly(p) \/ \E q \in Player : FallSilent(p, q)
        PROVE  UNCHANGED <<net, nextSequence>>
    BY <2>2 DEF Crash, sessionVars, PollQuietly, FallSilent, Lapse
  <2>3. CASE UNCHANGED vars
    BY <2>3 DEF vars, sessionVars
  <2>4. QED
    BY <2>1, <2>2, <2>3 DEF Next, Poll
<1>8. QED
  BY <1>2, <1>3, <1>4, <1>5, <1>6, <1>7

\* A replay floor moves only to the sequence of an envelope of the network.
LEMMA FloorStep ==
    ASSUME TypeOK, [Next]_vars, NEW p \in Player, NEW q \in Player
    PROVE  \/ lastSequence'[p][q] = lastSequence[p][q]
           \/ \E m \in net : m.sender = q /\ lastSequence'[p][q] = m.sequence
<1>1. ASSUME NEW r \in Player, NEW m \in net, Receive(r, m)
      PROVE  \/ lastSequence'[p][q] = lastSequence[p][q]
             \/ m.sender = q /\ lastSequence'[p][q] = m.sequence
  <2>1. lastSequence' = [lastSequence EXCEPT ![r][m.sender] = m.sequence]
    BY <1>1 DEF Receive, AcceptHeartbeat, AcceptLeave, IgnoreCommand, ResolveCommand,
                AcceptResult, AcceptMigration, Heard
  <2>2. QED
    BY <2>1 DEF TypeOK, SessionTypeOK
<1>2. UNCHANGED lastSequence \/ \E r \in Player, m \in net : Receive(r, m)
  BY DEF Next, vars, sessionVars, Poll, Heartbeat, FireAsFollower, FireAsAuthority, Leave,
         Crash, FallSilent, Lapse, PollQuietly, PollAndMigrate
<1>3. QED
  BY <1>1, <1>2

\* A counter never restarts behind the floors others keep for its player, on any
\* roster and through any number of epochs and handoffs.
THEOREM EnvelopesStayFresh == Spec => []NextEnvelopeIsFresh
<1>1. Init => FreshInv
  <2>1. Init => SentBefore /\ NextEnvelopeIsFresh
    BY DEF Init, SessionInit, SentBefore, NextEnvelopeIsFresh
  <2>2. QED
    BY <2>1, InitTypeOK DEF FreshInv
<1>2. ASSUME FreshInv, [Next]_vars PROVE FreshInv'
  <2>1. TypeOK'
    BY <1>2, TypeStep DEF FreshInv
  <2>2. \A q \in Player : /\ nextSequence[q] \in Nat /\ nextSequence'[q] \in Nat
                          /\ nextSequence[q] <= nextSequence'[q]
    BY <1>2, <2>1, CountersStep DEF FreshInv, TypeOK, SessionTypeOK
  <2>3. SentBefore'
    <3>1. SUFFICES ASSUME NEW m \in net' PROVE m.sequence < nextSequence'[m.sender]
      BY DEF SentBefore
    <3>2. m.sender \in Player /\ m.sequence \in Nat
      BY <2>1 DEF TypeOK, Envelope
    <3>3. CASE m \in net
      BY <1>2, <2>2, <3>2, <3>3 DEF FreshInv, SentBefore
    <3>4. CASE m \notin net
      BY <1>2, <3>4, CountersStep DEF FreshInv
    <3>5. QED
      BY <3>3, <3>4
  <2>4. NextEnvelopeIsFresh'
    <3>1. SUFFICES ASSUME NEW p \in Player, NEW q \in Player
                   PROVE  lastSequence'[p][q] < nextSequence'[q]
      BY DEF NextEnvelopeIsFresh
    <3>2. lastSequence'[p][q] < nextSequence[q]
      BY <1>2, FloorStep DEF FreshInv, SentBefore, NextEnvelopeIsFresh
    <3>3. lastSequence'[p][q] \in Nat
      BY <2>1 DEF TypeOK, SessionTypeOK
    <3>4. QED
      BY <2>2, <3>2, <3>3
  <2>5. QED
    BY <2>1, <2>3, <2>4 DEF FreshInv
<1>3. FreshInv => NextEnvelopeIsFresh
  BY DEF FreshInv
<1>4. QED
  BY <1>1, <1>2, <1>3, PTL DEF Spec

-----------------------------------------------------------------------------
(* The session implements the lineage.                                     *)

\* A step of one player's session is a step of the lineage, or leaves it alone.
LEMMA LineageStep == TypeOK /\ [Next]_vars => [Lineage!Next]_<<authority, epoch>>
<1> SUFFICES ASSUME TypeOK, [Next]_vars
             PROVE  Lineage!Next \/ UNCHANGED <<authority, epoch>>
  OBVIOUS
<1> USE DEF TypeOK, SessionTypeOK
<1>1. ASSUME NEW p \in Player, NEW m \in net, AcceptMigration(p, m)
      PROVE  Lineage!Next \/ UNCHANGED <<authority, epoch>>
  <2>1. m.sender \in Player /\ m.epoch \in Nat /\ m.sender # p
        /\ AuthorityClaimIsCoherent(p, m.sender, m.epoch)
    BY <1>1 DEF AcceptMigration, Admitted, Envelope
  <2>2. authority[p] # p
    BY <2>1, ReignerRefusesClaims
  <2>3. CASE ~ClaimWins(p, m.sender, m.epoch)
    BY <1>1, <2>3 DEF AcceptMigration
  <2>4. CASE ClaimWins(p, m.sender, m.epoch)
    <3>1. authority' = [authority EXCEPT ![p] = m.sender]
          /\ epoch' = [epoch EXCEPT ![p] = m.epoch]
      BY <1>1, <2>4 DEF AcceptMigration
    <3>2. CASE m.epoch = epoch[p] + 1
      <4>1. Lineage!Succeed(p, m.sender)
        BY <2>2, <3>1, <3>2 DEF Lineage!Succeed
      <4>2. QED
        BY <2>1, <4>1 DEF Lineage!Next
    <3>3. CASE m.epoch = epoch[p] /\ m.sender < authority[p]
      <4>1. Lineage!Converge(p, m.sender)
        BY <2>2, <3>1, <3>3 DEF Lineage!Converge
      <4>2. QED
        BY <2>1, <4>1 DEF Lineage!Next
    <3>4. QED
      BY <2>1, <2>4, <3>2, <3>3 DEF ClaimWins, AuthorityClaimIsCoherent
  <2>5. QED
    BY <2>3, <2>4
<1>2. ASSUME NEW p \in Player, PollAndMigrate(p)
      PROVE  Lineage!Next
  <2>1. Successor(Survivors(p)) \in Player
    BY SurvivorsArePlayers
  <2>2. Lineage!Succeed(p, Successor(Survivors(p)))
    BY <1>2 DEF PollAndMigrate, Lineage!Succeed
  <2>3. QED
    BY <2>1, <2>2 DEF Lineage!Next
<1>3. ASSUME NEW p \in Player, NEW m \in net, Receive(p, m), ~AcceptMigration(p, m)
      PROVE  UNCHANGED <<authority, epoch>>
  BY <1>3 DEF Receive, AcceptHeartbeat, AcceptLeave, IgnoreCommand, ResolveCommand,
              AcceptResult
<1>4. ASSUME NEW p \in Player,
             \/ Heartbeat(p) \/ Leave(p) \/ Crash(p) \/ PollQuietly(p)
             \/ \E q \in Player : FallSilent(p, q)
             \/ \E s \in Shot : FireAsFollower(p, s) \/ FireAsAuthority(p, s)
      PROVE  UNCHANGED <<authority, epoch>>
  BY <1>4 DEF Heartbeat, Leave, Crash, PollQuietly, FallSilent, Lapse, FireAsFollower,
              FireAsAuthority, sessionVars
<1>5. CASE UNCHANGED vars
  BY <1>5 DEF vars, sessionVars
<1>6. QED
  BY <1>1, <1>2, <1>3, <1>4, <1>5 DEF Next, Poll

\* The wire 1.2 session keeps what AuthorityLineage promises, whatever the network
\* does: a follower moves one epoch ahead or to a lower id inside its epoch, and a
\* player that reigns stays.
THEOREM SessionKeepsLineage == Spec => ImplementsLineage
<1>1. Init => Lineage!Init
  BY DEF Init, SessionInit, Lineage!Init
<1>2. QED
  BY <1>1, LineageStep, TypeCorrect, PTL
     DEF Spec, ImplementsLineage, Lineage!Spec, Lineage!vars
=============================================================================
