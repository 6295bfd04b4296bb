------------------------------ MODULE M3Session ------------------------------
(***************************************************************************)
(* Authority migration on the live wire 2.0: M3SecureSession               *)
(* (spurfire-net/src/v2.rs) under poll_m3_migration and                    *)
(* accept_m3_packet_with_source (spurfire-gdext/src/peer_session.rs).      *)
(* The successor's checkpoint no longer fits one datagram: it travels as   *)
(* independently signed fragments, and a receiver installs it, together    *)
(* with the new authority, only when every fragment of it has arrived.     *)
(*                                                                         *)
(* Beside its session every peer keeps the gameplay bank (combat authority *)
(* and bounty kernel).  A checkpoint is built from it, and is canonical    *)
(* only if the bank is at the peer's epoch and tick.                       *)
(***************************************************************************)
EXTENDS SessionState

CONSTANTS
    FragmentCount, \* fragments of one checkpoint
    FixtureTick,   \* 0: the bridge, which builds its checkpoint from the bank;
                   \* otherwise migration_smoke, whose peers hold one constant
                   \* checkpoint of this tick and call expire_and_migrate
    Lossy,         \* TRUE: a running peer may fall silent through packet loss
    NoPlayer,      \* the claimant of an empty reassembly
    MaxHeartbeats, MaxEpoch, MaxDown, MaxTick  \* bounds

ASSUME M3Assumption ==
    /\ FragmentCount \in Nat \ {0}
    /\ FixtureTick \in Nat /\ Lossy \in BOOLEAN
    /\ NoPlayer \notin Player
    /\ MaxHeartbeats \in Nat /\ MaxEpoch \in Nat /\ MaxDown \in Nat /\ MaxTick \in Nat

VARIABLES
    net,        \* every envelope sent so far
    up,         \* players whose bridge runs
    tick,       \* tick[p]: simulation_tick
    bank,       \* bank[p]: epoch and tick of the gameplay bank; tick 0 before
                \* its first advance
    pending,    \* pending[p]: pending_migration
    overdue,    \* overdue: players whose pending_migration passed the timeout
    installed   \* installed[p]: the fragments of the checkpoint p runs on
                \* (history)

vars == <<sessionVars, net, up, tick, bank, pending, overdue, installed>>

Index == 1..FragmentCount

\* A checkpoint is named by its author, the epoch it opens and its tick: its
\* state_hash covers the three.
Heartbeats == [kind : {"Heartbeat", "Leave"}, sender : Player, sequence : Nat, epoch : Nat]
Fragments == [kind : {"Fragment"}, sender : Player, sequence : Nat, epoch : Nat,
              tick : Nat, index : Index]

NoPending == [from |-> NoPlayer, epoch |-> 0, tick |-> 0, got |-> {}]

TypeOK ==
    /\ SessionTypeOK
    /\ net \subseteq Heartbeats \cup Fragments
    /\ up \subseteq Player
    /\ tick \in [Player -> Nat]
    /\ bank \in [Player -> [epoch : Nat, tick : Nat]]
    /\ pending \in [Player -> [from : Player \cup {NoPlayer}, epoch : Nat,
                               tick : Nat, got : SUBSET Fragments]]
    /\ overdue \subseteq Player
    /\ installed \in [Player -> SUBSET Fragments]

Init ==
    /\ SessionInit
    /\ net = {}
    /\ up = Player
    /\ tick = [p \in Player |-> 0]
    /\ bank = [p \in Player |-> [epoch |-> 1, tick |-> 0]]
    /\ pending = [p \in Player |-> NoPending]
    /\ overdue = {}
    /\ installed = [p \in Player |-> {}]

-----------------------------------------------------------------------------
SendOne(p, kind) ==
    /\ net' = net \cup {[kind |-> kind, sender |-> p,
                         sequence |-> nextSequence[p], epoch |-> epoch[p]]}
    /\ nextSequence' = [nextSequence EXCEPT ![p] = @ + 1]

Heartbeat(p) ==
    /\ p \in up
    /\ Cardinality({m \in net : m.kind = "Heartbeat"}) < MaxHeartbeats
    /\ SendOne(p, "Heartbeat")
    /\ UNCHANGED <<authority, epoch, lastSequence, silent, connected,
                   up, tick, bank, pending, overdue, installed>>

Leave(p) ==
    /\ p \in up /\ Cardinality(Player \ up) < MaxDown
    /\ up' = up \ {p}
    /\ SendOne(p, "Leave")
    /\ UNCHANGED <<authority, epoch, lastSequence, silent, connected,
                   tick, bank, pending, overdue, installed>>

Crash(p) ==
    /\ p \in up /\ Cardinality(Player \ up) < MaxDown
    /\ up' = up \ {p}
    /\ UNCHANGED <<sessionVars, net, tick, bank, pending, overdue, installed>>

Fixture == FixtureTick > 0

\* advance_shared_tick: advance_m3_actor and advance_m5_match move the bank of
\* the authority and return at once on everybody else.  migration_smoke runs no
\* kernels.
AdvanceTick(p) ==
    /\ p \in up /\ tick[p] < MaxTick
    /\ tick' = [tick EXCEPT ![p] = @ + 1]
    /\ bank' = IF authority[p] = p /\ ~Fixture
               THEN [bank EXCEPT ![p].tick = tick[p] + 1]
               ELSE bank
    /\ UNCHANGED <<sessionVars, net, up, pending, overdue, installed>>

FallSilent(p, q) ==
    /\ p \in up /\ (Lossy \/ q \notin up)
    /\ Lapse(p, q)
    /\ UNCHANGED <<net, up, tick, bank, pending, overdue, installed>>

\* HEARTBEAT_TIMEOUT_MS passes since the first fragment of the reassembly.
Overdue(p) ==
    /\ p \in up /\ pending[p] # NoPending /\ p \notin overdue
    /\ overdue' = overdue \cup {p}
    /\ UNCHANGED <<sessionVars, net, up, tick, bank, pending, installed>>

-----------------------------------------------------------------------------
AcceptOrdinary(p, m) ==
    /\ p \in up /\ m.sender # p
    /\ m.kind \in {"Heartbeat", "Leave"}
    /\ m.epoch = epoch[p]
    /\ m.sequence > lastSequence[p][m.sender]
    /\ Heard(p, m.sender, m.sequence, m.kind # "Leave")
    /\ UNCHANGED <<authority, epoch, nextSequence,
                   net, up, tick, bank, pending, overdue, installed>>

\* The checks of accept_migration_fragment before a fragment is filed.
FragmentAdmitted(p, m) ==
    /\ p \in up /\ m.sender # p /\ m.kind = "Fragment"
    /\ m.epoch >= epoch[p]
    /\ AuthorityClaimIsCoherent(p, m.sender, m.epoch)
    /\ m.sequence > lastSequence[p][m.sender]

\* The reassembly the fragment is filed in: the pending one, unless there is
\* none or it is overdue.
Reassembly(p, m) ==
    IF pending[p] = NoPending \/ p \in overdue
    THEN [from |-> m.sender, epoch |-> m.epoch, tick |-> m.tick, got |-> {}]
    ELSE pending[p]

\* Fault: fragments of one epoch are filed together whoever signed them.
MatchesEpoch(r, m) == r.epoch = m.epoch

Matches(r, m) == r.from = m.sender /\ r.epoch = m.epoch /\ r.tick = m.tick

Filed(r, m) == [r EXCEPT !.got = @ \cup {m}]

Complete(r) == Cardinality(r.got) = FragmentCount

AcceptFragment(p, m) ==
    LET r == Reassembly(p, m)
    IN  /\ FragmentAdmitted(p, m)
        /\ Matches(r, m)
        /\ \A f \in r.got : f.index # m.index
        /\ ~Complete(Filed(r, m))
        /\ pending' = [pending EXCEPT ![p] = Filed(r, m)]
        /\ overdue' = overdue \ {p}
        /\ UNCHANGED <<sessionVars, net, up, tick, bank, installed>>

\* Highest sequence of the fragments of a checkpoint.
LastOf(S) == CHOOSE n \in {f.sequence : f \in S} : \A f \in S : f.sequence <= n

\* The last missing fragment: the checkpoint, its author and its epoch are
\* installed together, or the reassembly is dropped whole because the replay
\* floor has passed one of its fragments meanwhile.
CompleteCheckpoint(p, m) ==
    LET r == Reassembly(p, m)
        got == Filed(r, m).got
        usable == \A f \in got : f.sequence > lastSequence[p][m.sender]
    IN  /\ FragmentAdmitted(p, m)
        /\ Matches(r, m)
        /\ \A f \in r.got : f.index # m.index
        /\ Complete(Filed(r, m))
        /\ pending' = [pending EXCEPT ![p] = NoPending]
        /\ overdue' = overdue \ {p}
        /\ IF usable
           THEN /\ Heard(p, m.sender, LastOf(got), TRUE)
                /\ authority' = [authority EXCEPT ![p] = m.sender]
                /\ epoch' = [epoch EXCEPT ![p] = m.epoch]
                /\ bank' = [bank EXCEPT ![p] = [epoch |-> m.epoch, tick |-> m.tick]]
                /\ installed' = [installed EXCEPT ![p] = got]
           ELSE UNCHANGED <<authority, epoch, lastSequence, silent, connected,
                            bank, installed>>
        /\ UNCHANGED <<nextSequence, net, up, tick>>

-----------------------------------------------------------------------------
\* build_m3_checkpoint returns a canonical checkpoint.
CheckpointBuilds(p) ==
    bank[p].epoch = epoch[p] /\ bank[p].tick = tick[p] /\ tick[p] > 0

\* The tick of the checkpoint p has to hand over.
CheckpointTick(p) == IF Fixture THEN FixtureTick ELSE tick[p]

\* Fault: fragments are numbered from the sequence after the next.
HandoffLate(p) ==
    {[kind |-> "Fragment", sender |-> p, sequence |-> nextSequence[p] + i,
      epoch |-> epoch[p] + 1, tick |-> CheckpointTick(p), index |-> i] : i \in Index}

\* Fault: fragments are indexed from zero.
HandoffFromZero(p) ==
    {[kind |-> "Fragment", sender |-> p, sequence |-> nextSequence[p] + i - 1,
      epoch |-> epoch[p] + 1, tick |-> CheckpointTick(p), index |-> i - 1] : i \in Index}

Handoff(p) ==
    {[kind |-> "Fragment", sender |-> p, sequence |-> nextSequence[p] + i - 1,
      epoch |-> epoch[p] + 1, tick |-> CheckpointTick(p), index |-> i] : i \in Index}

\* Fault: the successor restores its bank at the epoch it leaves.
RestoredAtSource(p) ==
    [bank EXCEPT ![p] = [epoch |-> epoch[p], tick |-> CheckpointTick(p)]]

\* restore_m3_checkpoint of the successor's own checkpoint
\* (continued_match_state in migration_smoke).
Restored(p) ==
    [bank EXCEPT ![p] = [epoch |-> epoch[p] + 1, tick |-> CheckpointTick(p)]]

\* poll_m3_migration: nothing moves unless the checkpoint builds first; the
\* successor alone restores its bank at the new epoch and sends the fragments,
\* once.  migration_smoke has its checkpoint already, and the successor sends it
\* before anything else.
PollAndMigrate(p) ==
    LET next == Successor(Survivors(p))
    IN  /\ p \in up /\ authority[p] # p /\ epoch[p] < MaxEpoch
        /\ Fixture \/ CheckpointBuilds(p)
        /\ authority[p] \notin Survivors(p)
        /\ connected' = [connected EXCEPT ![p] = Survivors(p)]
        /\ authority' = [authority EXCEPT ![p] = next]
        /\ epoch' = [epoch EXCEPT ![p] = @ + 1]
        /\ pending' = [pending EXCEPT ![p] = NoPending]
        /\ overdue' = overdue \ {p}
        /\ IF next = p
           THEN /\ net' = net \cup Handoff(p)
                /\ nextSequence' = [nextSequence EXCEPT ![p] = @ + FragmentCount]
                /\ bank' = Restored(p)
                /\ installed' = [installed EXCEPT ![p] = Handoff(p)]
           ELSE UNCHANGED <<net, nextSequence, bank, installed>>
        /\ UNCHANGED <<lastSequence, silent, up, tick>>

-----------------------------------------------------------------------------
Receive(p, m) ==
    \/ AcceptOrdinary(p, m)
    \/ AcceptFragment(p, m)
    \/ CompleteCheckpoint(p, m)

Next ==
    \E p \in Player :
        \/ Heartbeat(p)
        \/ Leave(p)
        \/ Crash(p)
        \/ AdvanceTick(p)
        \/ \E q \in Player : FallSilent(p, q)
        \/ Overdue(p)
        \/ \E m \in net : Receive(p, m)
        \/ PollAndMigrate(p)

Spec == Init /\ [][Next]_vars

\* The bridge polls every 250 ms, simulation ticks go on, the timeout of a
\* player that is gone comes, and fragments that stay acceptable arrive.
FairSpec ==
    /\ Spec
    /\ \A p \in Player :
          /\ WF_vars(PollAndMigrate(p))
          /\ WF_vars(AdvanceTick(p))
          /\ \A q \in Player : WF_vars(q \notin up /\ FallSilent(p, q))
          /\ WF_vars(\E m \in net : AcceptFragment(p, m) \/ CompleteCheckpoint(p, m))

-----------------------------------------------------------------------------
(* Properties.                                                             *)

\* The gameplay state a player runs on after a handoff is exactly one
\* checkpoint: every fragment of it, signed by one player for one epoch at one
\* tick ("partial ... state is never installed").
WholeCheckpoint ==
    \A p \in Player : installed[p] # {} =>
        /\ {f.index : f \in installed[p]} = Index
        /\ \A f, g \in installed[p] :
              f.sender = g.sender /\ f.epoch = g.epoch /\ f.tick = g.tick

\* The bank never runs ahead of the session, and a player that reigns runs on a
\* bank of its own epoch, so what it signs is the state of that epoch.
BankFitsReign ==
    \A p \in Player :
        /\ bank[p].epoch <= epoch[p]
        /\ authority[p] = p => bank[p].epoch = epoch[p]

\* Whoever signed a fragment still reigns in the epoch it opened.
SingleReign ==
    \A m \in net : m.kind = "Fragment" =>
        authority[m.sender] = m.sender /\ epoch[m.sender] = m.epoch

\* No envelope a player has yet to send can be taken for a replay, although the
\* replay floor jumps over all fragments of a checkpoint at once.
NextEnvelopeIsFresh ==
    \A p, q \in Player : lastSequence[p][q] < nextSequence[q]

\* "After two seconds of authority silence it selects the best surviving
\* candidate": a running player whose authority is gone ends up under another.
\* It holds where a checkpoint is at hand, as in migration_smoke, and not under
\* the bridge, whose followers have none to hand over.
AuthorityLossIsSurvived ==
    \A p \in Player :
        (p \in up /\ authority[p] \notin up) ~> (p \notin up \/ authority[p] \in up)

\* What both wire versions promise about authority (see AuthorityLineage).
Lineage == INSTANCE AuthorityLineage WITH authority <- authority, epoch <- epoch
ImplementsLineage == Lineage!Spec
=============================================================================
