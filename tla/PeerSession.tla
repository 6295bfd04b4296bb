----------------------------- MODULE PeerSession -----------------------------
(***************************************************************************)
(* A match on the wire-1.2 session: SessionState::accept behind            *)
(* SecureSession (spurfire-net/src/lib.rs), driven by the native           *)
(* PeerSession node (spurfire-gdext/src/peer_session.rs) and the lobby     *)
(* bridge (game/scripts/lobby_peer_bridge.gd).                             *)
(*                                                                         *)
(* Peers exchange signed envelopes over UDP.  The network is the set of    *)
(* envelopes ever sent: any of them may reach any peer late, twice, out of *)
(* order or never.  Every peer signs with its own roster key and sends     *)
(* from its own endpoint, so the identity checks of SecureSession hold of  *)
(* every envelope of the set.                                              *)
(***************************************************************************)
EXTENDS SessionState

CONSTANTS
    Shot,         \* (shooter, tick) pairs, as <<player, tick>>
    NoShot,       \* the shot of an envelope that carries none
    Lossy,        \* TRUE: a running peer may fall silent through packet loss
    MaxHeartbeats, \* bound on the heartbeats sent in all
    MaxEpoch,     \* bound on elections
    MaxDown       \* bound on players that crash or leave

ASSUME ShotAssumption ==
    /\ Shot \subseteq Player \X Nat
    /\ NoShot \notin Shot
    /\ Lossy \in BOOLEAN
    /\ MaxHeartbeats \in Nat /\ MaxEpoch \in Nat /\ MaxDown \in Nat

VARIABLES
    net,       \* every envelope sent so far
    up,        \* players whose bridge runs (neither crashed nor quiesced)
    fired,     \* shots their shooter already fired (its tick moved on)
    applied,   \* applied[p]: applied_shot_results, as <<epoch, shot>>
    receipts,  \* receipts[p]: combat_receipts, as <<epoch, shot>>
    hits       \* hits[p][s]: times p was handed a result of shot s (history)

vars == <<sessionVars, net, up, fired, applied, receipts, hits>>

Kind == {"Heartbeat", "ShotCommand", "ShotResult", "MigrationSnapshot", "Leave"}

AboutShot(m) == m.kind \in {"ShotCommand", "ShotResult"}

Envelope ==
    {m \in [sender : Player, sequence : Nat, epoch : Nat, kind : Kind,
            shot : Shot \cup {NoShot}, source : Nat, resolved : SUBSET Shot] :
        AboutShot(m) => m.shot \in Shot}

TypeOK ==
    /\ SessionTypeOK
    /\ net \subseteq Envelope
    /\ up \subseteq Player
    /\ fired \subseteq Shot
    /\ applied \in [Player -> SUBSET (Nat \X Shot)]
    /\ receipts \in [Player -> SUBSET (Nat \X Shot)]
    /\ hits \in [Player -> [Shot -> Nat]]

Init ==
    /\ SessionInit
    /\ net = {}
    /\ up = Player
    /\ fired = {}
    /\ applied = [p \in Player |-> {}]
    /\ receipts = [p \in Player |-> {}]
    /\ hits = [p \in Player |-> [s \in Shot |-> 0]]

-----------------------------------------------------------------------------
\* SessionState::envelope: the next sequence, stamped with p's epoch.
Message(p, kind, s) ==
    [sender |-> p, sequence |-> nextSequence[p], epoch |-> epoch[p],
     kind |-> kind, shot |-> s, source |-> 0, resolved |-> {}]

\* Fault: the sequence counter restarts with the epoch.
SendRestarting(p, m) ==
    /\ net' = net \cup {m}
    /\ nextSequence' = [nextSequence EXCEPT ![p] =
                          IF m.kind = "MigrationSnapshot" THEN 1 ELSE @ + 1]

Send(p, m) ==
    /\ net' = net \cup {m}
    /\ nextSequence' = [nextSequence EXCEPT ![p] = @ + 1]

\* Hand the result of shot s to the scene of p.
Apply(p, s) == hits' = [hits EXCEPT ![p][s] = @ + 1]

\* resolve_shot_command, make_shot_result and the local application: what the
\* authority p does with a command in one handler.
ResolveAndBroadcast(p, s) ==
    /\ Send(p, Message(p, "ShotResult", s))
    /\ receipts' = [receipts EXCEPT ![p] = @ \cup {<<epoch[p], s>>}]
    /\ Apply(p, s)

-----------------------------------------------------------------------------
\* Hello, heartbeat, probe or input: ordinary traffic of any roster member.
Heartbeat(p) ==
    /\ p \in up
    /\ Cardinality({m \in net : m.kind = "Heartbeat"}) < MaxHeartbeats
    /\ Send(p, Message(p, "Heartbeat", NoShot))
    /\ UNCHANGED <<authority, epoch, lastSequence, silent, connected,
                   up, fired, applied, receipts, hits>>

\* A follower's trigger pull becomes a command to all peers.
FireAsFollower(p, s) ==
    /\ p \in up /\ s[1] = p /\ s \notin fired /\ authority[p] # p
    /\ fired' = fired \cup {s}
    /\ Send(p, Message(p, "ShotCommand", s))
    /\ UNCHANGED <<authority, epoch, lastSequence, silent, connected,
                   up, applied, receipts, hits>>

\* The authority's own trigger pull is resolved on the spot.
FireAsAuthority(p, s) ==
    /\ p \in up /\ s[1] = p /\ s \notin fired /\ authority[p] = p
    /\ fired' = fired \cup {s}
    /\ ResolveAndBroadcast(p, s)
    /\ UNCHANGED <<authority, epoch, lastSequence, silent, connected, up, applied>>

\* send_leave: one Leave to all, then the bridge is quiesced for good.
Leave(p) ==
    /\ p \in up /\ Cardinality(Player \ up) < MaxDown
    /\ up' = up \ {p}
    /\ Send(p, Message(p, "Leave", NoShot))
    /\ UNCHANGED <<authority, epoch, lastSequence, silent, connected,
                   fired, applied, receipts, hits>>

Crash(p) ==
    /\ p \in up /\ Cardinality(Player \ up) < MaxDown
    /\ up' = up \ {p}
    /\ UNCHANGED <<sessionVars, net, fired, applied, receipts, hits>>

\* Every timeout p owes to players that are gone has come, and no election is
\* due at p.
Settled(p) == (Player \ up) \subseteq silent[p] /\ authority[p] \in Survivors(p)

\* Without loss a player falls silent when it is gone, or when it stays in
\* another epoch, whose traffic accept refuses.  Elections are due within one
\* poll of each other, long before the timeout such a refusal starts.
FallSilent(p, q) ==
    /\ p \in up
    /\ \/ Lossy
       \/ q \notin up
       \/ epoch[p] # epoch[q] /\ Settled(p) /\ Settled(q)
    /\ Lapse(p, q)
    /\ UNCHANGED <<net, up, fired, applied, receipts, hits>>

-----------------------------------------------------------------------------
\* Fault: no replay floor.
AdmittedAnySequence(p, m) ==
    /\ p \in up /\ m.sender # p
    /\ m.epoch >= epoch[p]
    /\ m.kind # "MigrationSnapshot" => m.epoch = epoch[p]

\* The checks of SessionState::accept that every envelope must pass.
Admitted(p, m) ==
    /\ p \in up /\ m.sender # p
    /\ m.epoch >= epoch[p]
    /\ m.kind # "MigrationSnapshot" => m.epoch = epoch[p]
    /\ m.sequence > lastSequence[p][m.sender]

AcceptHeartbeat(p, m) ==
    /\ m.kind = "Heartbeat" /\ Admitted(p, m)
    /\ Heard(p, m.sender, m.sequence, TRUE)
    /\ UNCHANGED <<authority, epoch, nextSequence, net, up, fired,
                   applied, receipts, hits>>

AcceptLeave(p, m) ==
    /\ m.kind = "Leave" /\ Admitted(p, m)
    /\ Heard(p, m.sender, m.sequence, FALSE)
    /\ UNCHANGED <<authority, epoch, nextSequence, net, up, fired,
                   applied, receipts, hits>>

\* A follower drops the command, and the combat kernel may refuse it.
IgnoreCommand(p, m) ==
    /\ m.kind = "ShotCommand" /\ Admitted(p, m)
    /\ Heard(p, m.sender, m.sequence, TRUE)
    /\ UNCHANGED <<authority, epoch, nextSequence, net, up, fired,
                   applied, receipts, hits>>

ResolveCommand(p, m) ==
    /\ m.kind = "ShotCommand" /\ Admitted(p, m)
    /\ authority[p] = p
    /\ Heard(p, m.sender, m.sequence, TRUE)
    /\ ResolveAndBroadcast(p, m.shot)
    /\ UNCHANGED <<authority, epoch, up, fired, applied>>

\* Authority-only truth (results here; snapshots pass the same role check).
AcceptResult(p, m) ==
    /\ m.kind = "ShotResult" /\ Admitted(p, m)
    /\ m.sender = authority[p]
    /\ <<m.epoch, m.shot>> \notin applied[p]
    /\ Heard(p, m.sender, m.sequence, TRUE)
    /\ applied' = [applied EXCEPT ![p] = @ \cup {<<m.epoch, m.shot>>}]
    /\ Apply(p, m.shot)
    /\ UNCHANGED <<authority, epoch, nextSequence, net, up, fired, receipts>>

\* The checkpoint continues the receiver's epoch, or repeats the handoff into
\* the epoch the receiver already reached on its own.
InEpochWindow(p, m) ==
    /\ m.source + 1 = m.epoch
    /\ m.source = epoch[p] \/ m.epoch = epoch[p]

AcceptMigration(p, m) ==
    /\ m.kind = "MigrationSnapshot" /\ Admitted(p, m)
    /\ InEpochWindow(p, m)
    /\ AuthorityClaimIsCoherent(p, m.sender, m.epoch)
    /\ Heard(p, m.sender, m.sequence, TRUE)
    /\ LET carried == {m.source} \X m.resolved
       IN  /\ applied' = [applied EXCEPT ![p] = @ \cup carried]
           /\ receipts' = [receipts EXCEPT ![p] = @ \cup carried]
    /\ IF ClaimWins(p, m.sender, m.epoch)
       THEN /\ authority' = [authority EXCEPT ![p] = m.sender]
            /\ epoch' = [epoch EXCEPT ![p] = m.epoch]
       ELSE UNCHANGED <<authority, epoch>>
    /\ UNCHANGED <<nextSequence, net, up, fired, hits>>

-----------------------------------------------------------------------------
\* poll_migration on a follower, every 250 ms: expire_and_migrate refreshes the
\* connected flags and stops there while the authority is connected.
PollQuietly(p) ==
    /\ p \in up /\ authority[p] # p
    /\ authority[p] \in Survivors(p)
    /\ connected[p] # Survivors(p)
    /\ connected' = [connected EXCEPT ![p] = Survivors(p)]
    /\ UNCHANGED <<authority, epoch, nextSequence, lastSequence, silent,
                   net, up, fired, applied, receipts, hits>>

\* The checkpoint p signs when it elects itself: the receipts of the epoch it
\* leaves, stamped with the epoch it enters.
Handoff(p) ==
    [sender |-> p, sequence |-> nextSequence[p], epoch |-> epoch[p] + 1,
     kind |-> "MigrationSnapshot", shot |-> NoShot, source |-> epoch[p],
     resolved |-> {s \in Shot : <<epoch[p], s>> \in receipts[p]}]

\* Otherwise every follower advances one epoch on its own, and the one that
\* elects itself advertises the checkpoint once.
PollAndMigrate(p) ==
    LET next == Successor(Survivors(p))
    IN  /\ p \in up /\ authority[p] # p /\ epoch[p] < MaxEpoch
        /\ authority[p] \notin Survivors(p)
        /\ connected' = [connected EXCEPT ![p] = Survivors(p)]
        /\ authority' = [authority EXCEPT ![p] = next]
        /\ epoch' = [epoch EXCEPT ![p] = @ + 1]
        /\ IF next = p THEN Send(p, Handoff(p)) ELSE UNCHANGED <<net, nextSequence>>
        /\ UNCHANGED <<lastSequence, silent, up, fired, applied, receipts, hits>>

-----------------------------------------------------------------------------
Receive(p, m) ==
    \/ AcceptHeartbeat(p, m)
    \/ AcceptLeave(p, m)
    \/ IgnoreCommand(p, m)
    \/ ResolveCommand(p, m)
    \/ AcceptResult(p, m)
    \/ AcceptMigration(p, m)

Poll(p) == PollQuietly(p) \/ PollAndMigrate(p)

Next ==
    \E p \in Player :
        \/ Heartbeat(p)
        \/ \E s \in Shot : FireAsFollower(p, s) \/ FireAsAuthority(p, s)
        \/ Leave(p)
        \/ Crash(p)
        \/ \E q \in Player : FallSilent(p, q)
        \/ \E m \in net : Receive(p, m)
        \/ Poll(p)

Spec == Init /\ [][Next]_vars

\* The bridge polls every 250 ms, and the clock of a running peer reaches the
\* timeout of a peer it hears nothing acceptable from; a handoff that stays
\* acceptable is not lost.
FairSpec ==
    /\ Spec
    /\ \A p \in Player :
          /\ WF_vars(Poll(p))
          /\ \A q \in Player : WF_vars(~Lossy /\ FallSilent(p, q))
          /\ WF_vars(\E m \in net : AcceptMigration(p, m))

-----------------------------------------------------------------------------
(* Properties.                                                             *)

\* A player is authority in at most one epoch of its session: whatever result
\* or handoff it ever signed belongs to the epoch it still reigns in.
SingleReign ==
    \A m \in net : m.kind \in {"ShotResult", "MigrationSnapshot"} =>
        authority[m.sender] = m.sender /\ epoch[m.sender] = m.epoch

\* No player is handed the result of one shot twice, across replays, split
\* elections and handoffs ("Combat receipts prevent damage/ammo replay").
NoDoubleHit == \A p \in Player : \A s \in Shot : hits[p][s] <= 1

\* "A live authority fails closed against remote usurpation": nothing a peer
\* receives or observes deposes it while it is its own authority.
LiveAuthorityIsNotDeposed ==
    [][\A p \in Player : authority[p] = p =>
          authority'[p] = p /\ epoch'[p] = epoch[p]]_vars

\* Epochs advance one at a time, and only over an authority that left or fell
\* silent; inside an epoch the authority only ever moves to a lower id.
OrderlySuccession ==
    [][\A p \in Player :
          /\ epoch'[p] \in {epoch[p], epoch[p] + 1}
          /\ epoch'[p] # epoch[p] => authority[p] \notin connected[p] \ silent[p]
          /\ epoch'[p] = epoch[p] => authority'[p] <= authority[p]]_vars

\* No envelope a player has yet to send can be taken for a replay: the replay
\* floor the others keep for it stays below its next sequence, through
\* elections and handoffs ("Counters ... never [reset] on epoch change").
NextEnvelopeIsFresh ==
    \A p, q \in Player : lastSequence[p][q] < nextSequence[q]

\* Two players never hold authority in the same epoch.
OneAuthorityPerEpoch ==
    \A p, q \in up : authority[p] = p /\ authority[q] = q /\ epoch[p] = epoch[q]
        => p = q

\* Survivors of lost authorities end up in one epoch under one running player.
Convergence ==
    <>[](\A p, q \in up : /\ authority[p] = authority[q] /\ authority[p] \in up
                         /\ epoch[p] = epoch[q])

\* What both wire versions promise about authority (see AuthorityLineage).
Lineage == INSTANCE AuthorityLineage WITH authority <- authority, epoch <- epoch
ImplementsLineage == Lineage!Spec
=============================================================================
