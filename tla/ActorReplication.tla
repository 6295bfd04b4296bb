-------------------------- MODULE ActorReplication --------------------------
(***************************************************************************)
(* What a follower shows of the authority's match on the live wire 2.0:    *)
(* actor snapshots sent as deltas against a keyframe and match states cut  *)
(* into fragments (M3SecureSession, spurfire-net/src/v2.rs), built by      *)
(* _advance_m3_tick (lobby_peer_bridge.gd) and shown by NetworkRider over  *)
(* SnapshotBuffer.                                                         *)
(*                                                                         *)
(* One follower listens to the authority of every epoch in turn.  The      *)
(* network keeps every envelope, so each is lost, repeated or overtaken at *)
(* will.  The order in which authorities succeed each other is M3Session's *)
(* subject: here the follower moves to the next epoch whenever it likes,   *)
(* and a former authority may go on sending.                               *)
(***************************************************************************)
EXTENDS Integers, Sequences, FiniteSets

CONSTANTS
    Snapshot,            \* actor snapshots the authority may publish
    FragmentCount,       \* fragments of a match state too long for a datagram
    KeyframeTicks,       \* M3_ACTOR_KEYFRAME_TICKS
    InterpolationTicks, MaxExtrapolationTicks, SnapTicks,
    Capacity,            \* snapshots a SnapshotBuffer keeps
    MaxTick, MaxEpoch, MaxReprojections,
    MaxEnvelopes         \* bounds

VARIABLES
    sources,    \* sources[e]: tick, next_sequence and sent_actor_keyframes of
                \* the authority of epoch e
    net,        \* every envelope sent so far
    truth,      \* every snapshot published, with its epoch and tick (history)
    follower,   \* its M3SecureSession
    rider,      \* its NetworkRider: buffered snapshots and render clock
    projections \* how often the session was projected anew

vars == <<sources, net, truth, follower, rider, projections>>

Epoch == 1..MaxEpoch
None == [tick |-> 0]

\* The fields a delta replaces.  A rider is its pose; a horse has a health, a
\* state and a recall with its ready tick (0 for none).
Canonical(s) ==
    /\ (s.horse = "Available") = (s.health > 0)
    /\ IF s.recall = "HorsePresent"
       THEN s.horse \in {"Available", "Bolting"} /\ s.ready = 0
       ELSE s.horse = "Despawned" /\ s.ready > 0

Between(base, current) ==
    [f \in {g \in DOMAIN current : base[g] # current[g]} |-> current[f]]

Apply(changed, base) ==
    [f \in DOMAIN base |-> IF f \in DOMAIN changed THEN changed[f] ELSE base[f]]

NoReassembly == [tick |-> 0, floor |-> 0, got |-> {}]

\* M3SecureSession::new keeps the SessionState it is given and nothing else.
FreshSession(epoch, last) ==
    [epoch |-> epoch, last |-> last, keyframe |-> None, actor |-> None,
     pending |-> NoReassembly, match |-> None]

Init ==
    /\ sources = [e \in Epoch |-> [tick |-> 0, next |-> 1, keyframe |-> None]]
    /\ net = {}
    /\ truth = {}
    /\ follower = FreshSession(1, [e \in Epoch |-> 0])
    /\ rider = [buffer |-> <<>>, render |-> 0]
    /\ projections = 0

-----------------------------------------------------------------------------
\* The authority advances one tick.  It publishes the actor, the match state,
\* both or neither: every third tick and every thirtieth in the code.

UsesDelta(source, tick) ==
    /\ source.keyframe # None
    /\ tick > source.keyframe.tick
    /\ tick - source.keyframe.tick < KeyframeTicks

ActorEnvelope(e, tick, s) ==
    LET source == sources[e]
    IN IF UsesDelta(source, tick)
       THEN [kind |-> "Delta", epoch |-> e, sequence |-> source.next, tick |-> tick,
             base |-> source.keyframe.tick,
             changed |-> Between(source.keyframe.snapshot, s)]
       ELSE [kind |-> "Actor", epoch |-> e, sequence |-> source.next, tick |-> tick,
             snapshot |-> s]

\* A whole match state, or, when that does not fit, its fragments.  The try
\* that did not fit has used up a sequence number.
MatchEnvelopes(e, tick, from, form) ==
    CASE form = "none" -> {}
      [] form = "whole" -> {[kind |-> "Match", epoch |-> e, sequence |-> from, tick |-> tick]}
      [] form = "split" -> {[kind |-> "Fragment", epoch |-> e, sequence |-> from + i,
                             tick |-> tick, index |-> i] : i \in 1..FragmentCount}

MatchLength(form) ==
    CASE form = "none" -> 0 [] form = "whole" -> 1 [] form = "split" -> FragmentCount + 1

\* S is the snapshot published, or empty.
AdvanceTick(e, S, form) ==
    LET tick == sources[e].tick + 1
        actor == {ActorEnvelope(e, tick, s) : s \in S}
        next == sources[e].next + Cardinality(S)
    IN /\ sources[e].tick < MaxTick
       /\ Cardinality(net) + Cardinality(S) + MatchLength(form) <= MaxEnvelopes
       /\ \A s \in S : Canonical(s)
       /\ net' = net \cup actor \cup MatchEnvelopes(e, tick, next, form)
       /\ truth' = truth \cup {[epoch |-> e, tick |-> tick, snapshot |-> s] : s \in S}
       /\ sources' = [sources EXCEPT ![e] =
            [tick |-> tick, next |-> next + MatchLength(form),
             keyframe |-> IF \E m \in actor : m.kind = "Actor"
                          THEN [tick |-> tick, snapshot |-> CHOOSE s \in S : TRUE]
                          ELSE @.keyframe]]
       /\ UNCHANGED <<follower, rider, projections>>

-----------------------------------------------------------------------------
\* Receiving.  Every envelope is signed by its sender; the sender of epoch e
\* is the authority of e, so the follower takes it only while it is at e.

Newer(m) == m.sequence > follower.last[m.epoch]
FromAuthority(m) == m.epoch = follower.epoch

Base(m) ==
    /\ follower.keyframe # None
    /\ follower.keyframe.tick = m.base
    /\ m.base < m.tick

\* NetworkRider::push_snapshot: strictly newer ticks only; the render clock
\* jumps to its target when it has drifted too far.
Target(tick) == IF tick > InterpolationTicks THEN tick - InterpolationTicks ELSE 0
Latest(buffer) == buffer[Len(buffer)].tick

Drifted(render, target) == render - target > SnapTicks \/ target - render > SnapTicks

Pushed(r, tick, pose) ==
    IF r.buffer # <<>> /\ tick <= Latest(r.buffer) THEN r
    ELSE LET longer == Append(r.buffer, [tick |-> tick, pose |-> pose])
         IN [buffer |-> IF Len(longer) > Capacity THEN Tail(longer) ELSE longer,
             render |-> IF r.buffer = <<>> \/ Drifted(r.render, Target(tick))
                        THEN Target(tick) ELSE r.render]

Show(m, s) == rider' = Pushed(rider, m.tick, s.pose)

AcceptActor(m) ==
    /\ m.kind = "Actor" /\ FromAuthority(m) /\ Newer(m)
    /\ follower' = [follower EXCEPT !.last[m.epoch] = m.sequence,
                    !.keyframe = [tick |-> m.tick, snapshot |-> m.snapshot],
                    !.actor = [tick |-> m.tick, snapshot |-> m.snapshot]]
    /\ Show(m, m.snapshot)
    /\ UNCHANGED <<sources, net, truth, projections>>

AcceptDelta(m) ==
    /\ m.kind = "Delta" /\ FromAuthority(m) /\ Base(m)
    /\ LET s == Apply(m.changed, follower.keyframe.snapshot)
       IN /\ Canonical(s)
          /\ Newer(m)
          /\ follower' = [follower EXCEPT !.last[m.epoch] = m.sequence,
                          !.actor = [tick |-> m.tick, snapshot |-> s]]
          /\ Show(m, s)
    /\ UNCHANGED <<sources, net, truth, projections>>

AcceptMatch(m) ==
    /\ m.kind = "Match" /\ FromAuthority(m) /\ Newer(m)
    /\ follower' = [follower EXCEPT !.last[m.epoch] = m.sequence,
                    !.pending = NoReassembly, !.match = [tick |-> m.tick]]
    /\ UNCHANGED <<sources, net, truth, rider, projections>>

\* What is left of the reassembly when m arrives: the clock may have run out
\* on it (overdue), or m belongs to a newer state.
Reassembly(m, overdue) ==
    LET kept == IF overdue THEN NoReassembly ELSE follower.pending
    IN IF kept.tick = m.tick THEN kept
       ELSE [tick |-> m.tick, floor |-> follower.last[m.epoch], got |-> {}]

Refused(m, overdue) == ~overdue /\ m.tick < follower.pending.tick

Repeats(p, m) ==
    \/ m.sequence <= p.floor
    \/ \E g \in p.got : g.index = m.index \/ g.sequence = m.sequence

Highest(got) == CHOOSE n \in {g.sequence : g \in got} : \A g \in got : n >= g.sequence

\* reassemble_m5_match_state: every fragment of one state, once.
Whole(got) ==
    /\ Cardinality(got) = FragmentCount
    /\ {g.index : g \in got} = 1..FragmentCount
    /\ Cardinality({g.tick : g \in got}) = 1

\* A completed state is taken unless a later envelope was accepted meanwhile.
AcceptFragment(m, overdue) ==
    /\ m.kind = "Fragment" /\ FromAuthority(m)
    /\ follower.match.tick < m.tick
    /\ ~Refused(m, overdue)
    /\ LET p == Reassembly(m, overdue)
           filed == [p EXCEPT !.got = @ \cup {m}]
       IN follower' =
            IF Repeats(p, m) THEN [follower EXCEPT !.pending = p]
            ELSE IF ~Whole(filed.got) THEN [follower EXCEPT !.pending = filed]
            ELSE IF Highest(filed.got) <= follower.last[m.epoch]
            THEN [follower EXCEPT !.pending = NoReassembly]
            ELSE [follower EXCEPT !.pending = NoReassembly, !.match = [tick |-> m.tick],
                  !.last[m.epoch] = Highest(filed.got)]
    /\ UNCHANGED <<sources, net, truth, rider, projections>>

\* Fault: the keyframe of the former authority stays.
SucceededKeepingKeyframe(session) ==
    [session EXCEPT !.epoch = @ + 1, !.pending = NoReassembly, !.match = None,
                    !.actor = None]

\* expire_and_migrate, an accepted claim or an installed checkpoint.
Succeeded(session) == FreshSession(session.epoch + 1, session.last)

Succeed ==
    /\ follower.epoch < MaxEpoch
    /\ follower' = Succeeded(follower)
    /\ UNCHANGED <<sources, net, truth, rider, projections>>

\* Every lobby projection builds the session anew around its SessionState, on
\* the follower and on the authority.
Reproject ==
    /\ projections < MaxReprojections
    /\ projections' = projections + 1
    /\ \/ /\ follower' = FreshSession(follower.epoch, follower.last)
          /\ UNCHANGED sources
       \/ \E e \in Epoch : /\ sources[e].keyframe # None
                           /\ sources' = [sources EXCEPT ![e].keyframe = None]
                           /\ UNCHANGED follower
    /\ UNCHANGED <<net, truth, rider>>

\* One frame: the render clock moves, never far beyond the newest snapshot.
Process ==
    /\ rider.buffer # <<>>
    /\ rider.render < Latest(rider.buffer) + MaxExtrapolationTicks
    /\ rider' = [rider EXCEPT !.render = @ + 1]
    /\ UNCHANGED <<sources, net, truth, follower, projections>>

Receive ==
    \E m \in net : \/ AcceptActor(m) \/ AcceptDelta(m) \/ AcceptMatch(m)
                   \/ \E overdue \in BOOLEAN : AcceptFragment(m, overdue)

Publish ==
    \E e \in Epoch, form \in {"none", "whole", "split"} :
        AdvanceTick(e, {}, form) \/ \E s \in Snapshot : AdvanceTick(e, {s}, form)

Next == Publish \/ Receive \/ Succeed \/ Reproject \/ Process

Spec == Init /\ [][Next]_vars

-----------------------------------------------------------------------------
\* SnapshotBuffer::sample: the pose is interpolated, the stance is not.  The
\* stance of the earlier snapshot is shown until the later one's tick is
\* reached; snapshots here carry one value for both.
StanceBetween(before, after, render) ==
    IF render < after.tick THEN before.pose ELSE after.pose

StanceAt(buffer, render) ==
    LET later == {i \in 2..Len(buffer) : render <= buffer[i].tick}
        i == CHOOSE j \in later : \A k \in later : j <= k
    IN IF render <= buffer[1].tick THEN buffer[1].pose
       ELSE IF later = {} THEN buffer[Len(buffer)].pose
       ELSE StanceBetween(buffer[i - 1], buffer[i], render)

\* Whatever was lost, repeated, overtaken or projected anew, the actor a
\* follower shows is one its authority published at that tick: a delta is never
\* put on another keyframe, nor on one of another epoch
\* (received_actor_keyframes, M3ActorSnapshotDelta::apply).
SnapshotIsPublished ==
    follower.actor # None =>
        [epoch |-> follower.epoch, tick |-> follower.actor.tick,
         snapshot |-> follower.actor.snapshot] \in truth

\* Within an epoch neither the actor nor the score goes back in time, although
\* whole and fragmented match states of several ticks arrive interleaved
\* (accept_authenticated, accept_match_state_fragment).
NothingRewinds ==
    follower'.epoch = follower.epoch =>
        /\ follower'.actor # None => follower'.actor.tick >= follower.actor.tick
        /\ follower'.match # None => follower'.match.tick >= follower.match.tick
        /\ follower'.last[follower.epoch] >= follower.last[follower.epoch]

\* The stance a remote rider shows is that of the newest snapshot at or before
\* the render tick, for every render tick (SnapshotBuffer::sample).
StanceIsDiscrete ==
    rider.buffer # <<>> =>
        LET past == {i \in DOMAIN rider.buffer : rider.buffer[i].tick <= rider.render}
            shown == IF past = {} THEN 1 ELSE CHOOSE i \in past : \A j \in past : j <= i
        IN StanceAt(rider.buffer, rider.render) = rider.buffer[shown].pose

\* The render clock never runs away from the snapshots, in either direction:
\* after a stall the next snapshot brings it back (NetworkRider::push_snapshot,
\* process).
RenderStaysNear ==
    rider.buffer # <<>> =>
        /\ rider.render <= Latest(rider.buffer) + MaxExtrapolationTicks
        /\ Target(Latest(rider.buffer)) - rider.render <= SnapTicks

=============================================================================
