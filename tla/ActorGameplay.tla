--------------------------- MODULE ActorGameplay ---------------------------
(* One rider's actor and the two adapters that drive it: the Godot          *)
(* M3GameplayController ("controller": interact doubles as the spur key,    *)
(* recall credits are applied and fatal effects acknowledged) and the       *)
(* authority of a lobby ("lobby": separate keys, spur credits, respawns,    *)
(* nothing acknowledges a fatal effect).                                    *)
EXTENDS ActorKernel

CONSTANTS
    MaxTick,      \* the last tick a behaviour reaches
    MaxEpoch,     \* the last authority epoch
    MaxEvents,    \* damages, credits, acknowledgements, respawns and handoffs
    TickSteps,    \* how far one advance moves the clock
    DamageSeqs,   \* damage and credit sequence numbers within a tick
    FootKeys,     \* for each adapter, the on-foot keys explored: [sprint, crouch]
    Damages,      \* horse damage amounts
    Credits       \* recall credits: damage dealt, or Objective (-1)

VARIABLES
    adapter,      \* who drives the actor
    actor,        \* ActorGameplayKernel
    epoch,        \* authority_epoch of the bank
    events,       \* how many of them have happened
    failed        \* an advance of a fresh tick returned an error

vars == <<adapter, actor, epoch, events, failed>>

(* The inputs of one tick; the controller has one key for both purposes and *)
(* reports the rider mounted exactly while its mode says so.                *)
Inputs(t) ==
    {[tick |-> t, sprint |-> k.sprint, crouch |-> k.crouch, dir |-> k.sprint,
      reload |-> FALSE, spur |-> s, mounted |-> m, mount |-> x] :
        k \in FootKeys[adapter], s \in BOOLEAN, m \in BOOLEAN, x \in {"none", "running", "standing"}}

Allowed(in) ==
    adapter = "controller" =>
        /\ in.mount # "none" => in.spur
        /\ in.mounted = (ActorMode(actor) = "Mounted")

Init ==
    /\ adapter \in {"controller", "lobby"}
    /\ actor = NewActor /\ epoch = 1 /\ events = 0 /\ failed = FALSE

(* advance_tick of the adapter; ticks may be skipped.                       *)
AdvanceTick(t, in) ==
    /\ Allowed(in) /\ t > actor.tick
    /\ LET step == ActorAdvance(actor, in)
       IN  actor' = step.next /\ failed' = ~step.ok
    /\ UNCHANGED <<adapter, epoch, events>>

Event == events < MaxEvents /\ events' = events + 1

(* Horse damage is authored at the actor's tick, once per sequence number.  *)
ApplyHorseDamage(seq, amount, away) ==
    LET id == <<epoch, Max({0, actor.tick}), seq>>
    IN  /\ ActorDamageApplies(actor, id, amount)
        /\ actor' = ActorDamaged(actor, id, amount, away)
        /\ Event /\ UNCHANGED <<adapter, epoch, failed>>

ApplyRecallCredit(t, seq, damage) ==
    /\ adapter = "controller"
    /\ RecallCreditAccepted(actor.recall, <<epoch, t, seq>>)
    /\ actor' = [actor EXCEPT !.recall = RecallCredited(@, <<epoch, t, seq>>, damage)]
    /\ Event /\ UNCHANGED <<adapter, epoch, failed>>

AcknowledgeHorseLossEffects(id) ==
    /\ adapter = "controller"
    /\ actor.pending # NoPending
    /\ actor' = ActorAcknowledged(actor, id)
    /\ Event /\ UNCHANGED <<adapter, epoch, failed>>

IssueSpurCredit(kind) ==
    /\ adapter = "lobby"
    /\ actor' = [actor EXCEPT !.spur = SpurIssued(@, epoch, actor.tick, kind)]
    /\ Event /\ UNCHANGED <<adapter, epoch, failed>>

(* A lobby authority respawns an eliminated rider at the tick it advanced.  *)
Respawn ==
    /\ adapter = "lobby" /\ actor.tick # NoTick
    /\ actor' = ActorRespawned(actor)
    /\ Event /\ UNCHANGED <<adapter, epoch, failed>>

(* The checkpoint is restored, as it is, into the next epoch.               *)
RestoreCheckpoint ==
    /\ ActorRestorable(actor) /\ epoch < MaxEpoch
    /\ epoch' = epoch + 1
    /\ Event /\ UNCHANGED <<adapter, actor, failed>>

Next ==
    \/ \E t \in {actor.tick + n : n \in TickSteps} \cap 0..MaxTick :
          \E in \in Inputs(t) : AdvanceTick(t, in)
    \/ \E seq \in DamageSeqs, amount \in Damages, away \in {"ahead", "aside"} :
          ApplyHorseDamage(seq, amount, away)
    \/ \E t \in 0..MaxTick, seq \in DamageSeqs, damage \in Credits : ApplyRecallCredit(t, seq, damage)
    \/ \E id \in {actor.pending.id, NoId} : AcknowledgeHorseLossEffects(id)
    \/ \E kind \in {"Jump", "SaddleDiveElimination"} : IssueSpurCredit(kind)
    \/ Respawn
    \/ RestoreCheckpoint

Spec == Init /\ [][Next]_vars
-----------------------------------------------------------------------------
(* A fresh tick never fails half way through the kernels: whatever the keys, *)
(* ActorGameplayKernel::advance_tick returns Ok, so no error leaves the      *)
(* horse advanced and the rider not.                                         *)
FreshTickSucceeds == ~failed

(* Once the fatal effect of a horse loss has been delivered, the actor's own *)
(* checkpoint passes restore_checkpoint whatever bolt, stun, roll, cooldown, *)
(* return, charge or respawn it is in.                                       *)
OwnCheckpointRestores ==
    actor.tick # NoTick /\ actor.pending = NoPending => ActorRestorable(actor)

(* A return never starts before the recall floor: MIN_RECALL_TICKS after the *)
(* bolt ended, unless this step spent a full Spur meter.                     *)
RecallFloor ==
    actor.recall.state \in {"CoolingDown", "Ready"}
    /\ actor'.recall.state = "Hoofbeats"
    => \/ actor'.tick >= actor.recall.lostTick + MinRecall
       \/ actor.spur.meter = SpurMax /\ actor'.spur.meter = 0

(* A rider without a horse gets one back at full health and only through the *)
(* mount window, a standing return horse or a respawn; the tick of the loss  *)
(* and its bolt lie behind it.                                               *)
HorseComesBackWhole ==
    actor.horse.state # "Available" /\ actor'.horse.state = "Available"
    => /\ actor'.horse.health = MaxHealth
       /\ actor'.foot.state = "Standing"
       /\ actor'.recall.row # NoRow =>
             /\ actor'.recall.row.remount >= actor.lossTick + BoltTicks + HoofTicks
                                              + DustTicks + GallopTicks - WindowTicks
             /\ actor'.recall.row.lost = actor.lossTick
=============================================================================
