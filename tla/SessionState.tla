---------------------------- MODULE SessionState ----------------------------
(***************************************************************************)
(* The state every peer of a match keeps about the others                  *)
(* (spurfire-net/src/lib.rs, struct SessionState) and the rules both wire  *)
(* versions share: who is silent, who succeeds the authority, and which    *)
(* signed authority claim a receiver may believe.                          *)
(*                                                                         *)
(* Time.  The code compares now_ms - last_seen_ms with                     *)
(* HEARTBEAT_TIMEOUT_MS and with nothing else, so a peer's clock is        *)
(* abstracted to silent[p]: the peers whose last accepted envelope is at   *)
(* least that old on p's clock.                                            *)
(***************************************************************************)
EXTENDS Naturals, Sequences, FiniteSets

CONSTANTS
    Player,       \* the roster; PlayerIds are ordered, so they are numbers
    Preference,   \* migration_preference: the match-start election order
    FirstAuthority  \* the authority every session is created with

ASSUME PlayerAssumption ==
    Player \subseteq Nat /\ IsFiniteSet(Player) /\ FirstAuthority \in Player

\* configure_migration_preference admits only an order of the exact roster;
\* a session that was never configured keeps the empty one.
ASSUME PreferenceAssumption ==
    /\ Preference \in Seq(Player)
    /\ Preference # <<>> => \A q \in Player :
          \E i \in DOMAIN Preference : Preference[i] = q

VARIABLES
    authority,    \* authority[p]: the player p takes its truth from
    epoch,        \* epoch[p]: authority_epoch
    nextSequence, \* nextSequence[p]: the sequence of p's next envelope
    lastSequence, \* lastSequence[p][q]: replay floor of q at p
    silent,       \* silent[p]: peers past the heartbeat timeout at p
    connected     \* connected[p]: peers whose connected flag is set at p

sessionVars ==
    <<authority, epoch, nextSequence, lastSequence, silent, connected>>

SessionTypeOK ==
    /\ authority \in [Player -> Player]
    /\ epoch \in [Player -> Nat \ {0}]
    /\ nextSequence \in [Player -> Nat \ {0}]
    /\ lastSequence \in [Player -> [Player -> Nat]]
    /\ silent \in [Player -> SUBSET Player]
    /\ connected \in [Player -> SUBSET Player]

\* Fault: the first sequence collides with the initial replay floor.
SessionInitFromZero ==
    /\ authority = [p \in Player |-> FirstAuthority]
    /\ epoch = [p \in Player |-> 1]
    /\ nextSequence = [p \in Player |-> 0]
    /\ lastSequence = [p \in Player |-> [q \in Player |-> 0]]
    /\ silent = [p \in Player |-> {}]
    /\ connected = [p \in Player |-> Player]

SessionInit ==
    /\ authority = [p \in Player |-> FirstAuthority]
    /\ epoch = [p \in Player |-> 1]
    /\ nextSequence = [p \in Player |-> 1]
    /\ lastSequence = [p \in Player |-> [q \in Player |-> 0]]
    /\ silent = [p \in Player |-> {}]
    /\ connected = [p \in Player |-> Player]

-----------------------------------------------------------------------------
\* Fault: only a Leave ends a connection, the timeout does not.
SurvivorsByFlag(p) == connected[p] \cup {p}

\* The players p would still elect from: itself, and every peer that is both
\* connected and fresh.  expire_and_migrate and deterministic_successor apply
\* the same test.
Survivors(p) == (connected[p] \ silent[p]) \cup {p}

Least(S) == CHOOSE x \in S : \A y \in S : x <= y

\* The first survivor of the migration preference, else the lowest id.
Successor(S) ==
    LET ranked == {i \in DOMAIN Preference : Preference[i] \in S}
    IN  IF ranked # {} THEN Preference[Least(ranked)] ELSE Least(S)

CurrentAuthorityIsSilent(p) ==
    authority[p] # p /\ authority[p] \in silent[p]

\* Fault: an advance is believed over an authority that is still heard.
ClaimIsNext(p, q, e) ==
    \/ e = epoch[p] /\ q <= authority[p]
    \/ e = epoch[p] + 1 /\ q = Successor(Survivors(p))

\* Fault: a live authority yields to a lower id of its own epoch.
SplitYields(p, q, e) ==
    \/ e = epoch[p] /\ q <= authority[p]
    \/ /\ e = epoch[p] + 1
       /\ CurrentAuthorityIsSilent(p)
       /\ q = Successor(Survivors(p))

\* authority_claim_is_coherent for a self-nomination of q for epoch e at p.
AuthorityClaimIsCoherent(p, q, e) ==
    \/ /\ e = epoch[p]
       /\ q = authority[p] \/ (q < authority[p] /\ CurrentAuthorityIsSilent(p))
    \/ /\ e = epoch[p] + 1
       /\ CurrentAuthorityIsSilent(p)
       /\ q = Successor(Survivors(p))

\* What a receiver that accepted a coherent claim of q for epoch e installs.
ClaimWins(p, q, e) == e > epoch[p] \/ (e = epoch[p] /\ q < authority[p])

-----------------------------------------------------------------------------
\* Replay floor, freshness and connectivity after p accepted an envelope.
Heard(p, q, seq, stays) ==
    /\ lastSequence' = [lastSequence EXCEPT ![p][q] = seq]
    /\ silent' = [silent EXCEPT ![p] = @ \ {q}]
    /\ connected' = [connected EXCEPT ![p] = IF stays THEN @ \cup {q} ELSE @ \ {q}]

\* HEARTBEAT_TIMEOUT_MS passes at p without an accepted envelope of q.
Lapse(p, q) ==
    /\ q # p /\ q \notin silent[p]
    /\ silent' = [silent EXCEPT ![p] = @ \cup {q}]
    /\ UNCHANGED <<authority, epoch, nextSequence, lastSequence, connected>>

=============================================================================
