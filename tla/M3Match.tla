------------------------------ MODULE M3Match ------------------------------
(* The composed authority of a lobby (M3CombatAuthority and the Bounty Run  *)
(* match that PeerSession keeps beside it): the actors, rifles, rewind      *)
(* targets and scoreboard of a roster, driven frame by frame as             *)
(* lobby_peer_bridge.gd does.  A frame advances every actor, records every  *)
(* pose, advances the match and respawns whoever is due; the shots and      *)
(* objective interactions of that tick follow.  A handoff carries it into   *)
(* the next epoch.                                                          *)
EXTENDS ActorKernel, CombatKernel, BountyKernel

CONSTANTS
    Roster,       \* the players
    Seeds,        \* lobby seeds
    RiderHealth,  \* M3_RIDER_MAX_HEALTH
    ShotDamage,   \* WeaponStats::damage_at
    RowsKept,     \* how many snapshots of a rider are kept
    Authority,    \* the player whose machine authors each epoch
    Keys,         \* what the bridge may read of each player in a frame:
                  \* [reload, spur, mount, stale, rider]
    Ranges,       \* whether hits are beyond LONG_HIT_DISTANCE_MM
    LastFrame,    \* the last tick a behaviour reaches
    MaxShots,     \* shot commands of a behaviour
    MaxHandoffs   \* handoffs of a behaviour

VARIABLES
    actors,       \* M3AuthorityBank, by player
    shooters,     \* CombatAuthority::shooters, by player
    riders,       \* the rider targets of the registry, by player
    horses,       \* the horse targets of the registry, by player
    clocks,       \* reload_clocks, by player: [tick, held]
    sequence,     \* next_horse_damage_sequence
    bounty,       \* BountyMatchKernel
    stances,      \* stance_id of _actor_states, by player
    history,      \* authority_rider_history, by player: tick -> stance
    epoch,        \* authority_epoch
    shots         \* how many shot commands were resolved

vars == <<actors, shooters, riders, horses, clocks, sequence, bounty, stances, history, epoch, shots>>

(* stale: the player's last input is too old, or too new, to be stepped with;    *)
(* rider: the stance its own controller publishes, if this is its machine.       *)
NoKeys == [reload |-> FALSE, spur |-> FALSE, mount |-> "none", stale |-> FALSE, rider |-> "Mounted"]

Init ==
    /\ actors = [p \in Roster |-> NewActor]
    /\ shooters = [p \in Roster |-> NewShooter("rifle")]
    /\ riders = [p \in Roster |-> NewTarget(RiderHealth)]
    /\ horses = [p \in Roster |-> NewTarget(MaxHealth)]
    /\ clocks = [p \in Roster |-> [tick |-> NoTick, held |-> FALSE]]
    /\ sequence = 1 /\ epoch = 1 /\ shots = 0
    /\ \E seed \in Seeds : bounty = NewMatch(Roster, seed, 0)
    /\ stances = [p \in Roster |-> "Mounted"]
    /\ history = [p \in Roster |-> [t \in {} |-> "Mounted"]]

-----------------------------------------------------------------------------
(* The stance a frame begins with: the authority copies its own rider's, a     *)
(* remote rider's is stepped from its input, where interact dismounts and      *)
(* mounts whatever the horse is doing (_record_actor_state,                    *)
(* _predict_actor_step).  Nobody jumps or dives here.                          *)
Posed(p, keys) ==
    CASE p = Authority[epoch] -> keys.rider
      [] p # Authority[epoch] /\ bounty.players[p].alive /\ ~keys.stale /\ keys.mount # "none" ->
            IF stances[p] = "Mounted" THEN "OnFoot" ELSE "Mounted"
      [] OTHER -> stances[p]

(* The input the bridge builds from a player's buttons; the spur key spends   *)
(* from the saddle when the stance is a mounted one.                          *)
TickInput(p, t, keys, stance) ==
    [tick |-> t, sprint |-> FALSE, crouch |-> FALSE, dir |-> FALSE,
     reload |-> shooters[p].rifle.reload # Never, spur |-> keys.spur, mount |-> keys.mount,
     mounted |-> stance = "Mounted"]

(* M3CombatAuthority::advance_actor's reload half: the clock runs by the ticks *)
(* since the last advance, paused while the rider cannot fire; a fresh press   *)
(* starts a reload unless one just completed.                                  *)
ReloadAdvanced(p, t, pressed, next) ==
    LET rifle   == shooters[p].rifle
        paused  == next.horse.state # "Available" /\ ~FootCanFire(next.foot)
        elapsed == IF clocks[p].tick = NoTick THEN 0 ELSE t - clocks[p].tick
        moved   == ReloadBy(rifle, elapsed, paused)
        done    == rifle.reload # Never /\ moved.reload = Never
    IN  IF pressed /\ ~clocks[p].held /\ ~paused /\ ~done
        THEN RequestM3Reload(moved) ELSE moved

(* The stance after the actor's tick: on_foot_active puts a rider on its feet.  *)
Stance(actor, posed) == IF actor.horse.state = "Available" THEN posed ELSE "OnFoot"

(* record_authority_rider_snapshot keeps the last rows; older ones are beyond   *)
(* the lag window by then.                                                      *)
SnapshotTaken(h, t, stance) ==
    [u \in {v \in DOMAIN h : v > t - RowsKept} \cup {t} |-> IF u = t THEN stance ELSE h[u]]

(* One frame: _advance_m3_tick up to advance_m5_match and its respawns.         *)
Frame(keys) ==
    LET t     == bounty.tick + 1
        held  == [p \in Roster |-> IF bounty.players[p].alive THEN keys[p] ELSE NoKeys]
        posed == [p \in Roster |-> Posed(p, keys[p])]
        step  == [p \in Roster |-> ActorAdvance(actors[p], TickInput(p, t, held[p], posed[p]))]
        gone  == RespawnedBy(bounty, t)
        moved == [p \in Roster |-> step[p].next]
        shown == [p \in Roster |-> Stance(moved[p], posed[p])]
    IN  /\ t <= LastFrame
        /\ \A p \in Roster : step[p].ok
        /\ bounty' = MatchAdvanced(bounty, t)
        /\ actors' = [p \in Roster |-> IF p \in gone THEN ActorRespawned(moved[p]) ELSE moved[p]]
        /\ shooters' = [p \in Roster |->
             [shooters[p] EXCEPT !.rifle =
                LET rifle == ReloadAdvanced(p, t, held[p].reload, moved[p])
                IN  IF p \in gone THEN RifleRespawned(rifle, t) ELSE rifle]]
        /\ clocks' = [p \in Roster |-> [tick |-> t, held |-> p \notin gone /\ held[p].reload]]
        /\ horses' = [p \in Roster |->
             [PoseRecorded(horses[p], t, moved[p].horse.state = "Available") EXCEPT
                !.health = IF p \in gone THEN MaxHealth ELSE moved[p].horse.health]]
        /\ riders' = [p \in Roster |->
             [PoseRecorded(riders[p], t, TRUE) EXCEPT !.health = IF p \in gone THEN RiderHealth ELSE @]]
        /\ history' = [p \in Roster |-> SnapshotTaken(history[p], t, shown[p])]
        /\ stances' = [p \in Roster |-> IF p \in gone THEN "Mounted" ELSE shown[p]]
        /\ UNCHANGED <<sequence, epoch, shots>>

-----------------------------------------------------------------------------
(* resolve_m3_shot_command.  Everything is prepared on clones: a call that      *)
(* fails anywhere changes nothing, so each action states when it succeeds.      *)

Command(p, t, near) ==
    [tick |-> t, weapon |-> "rifle", aimed |-> TRUE, near |-> near,
     seed |-> shooters[p].rifle.index]

Verdict(p, t, near) ==
    Validate(shooters[p], Command(p, t, near), bounty.tick, TRUE, Riding(history[p][t], 0))

Admitted(p, t) ==
    /\ ~bounty.finished /\ t \in DOMAIN history[p]
    /\ shots < MaxShots /\ shots' = shots + 1

(* A refusal after the watermark and a miss keep what they did to the rifle.    *)
ShotWithoutHit(p, t, near) ==
    /\ Admitted(p, t)
    /\ shooters' = [shooters EXCEPT ![p] = Verdict(p, t, near).shooter]
    /\ UNCHANGED <<actors, riders, horses, clocks, sequence, bounty, stances, history, epoch>>

(* The Spur credit of a hit from the saddle, which must be accepted.            *)
SpurPaid(bank, p, t, kind) ==
    IF history[p][t] = "Mounted"
    THEN [bank EXCEPT ![p].spur = SpurIssued(@, epoch, bounty.tick, kind)] ELSE bank

SpurPayable(p, t) ==
    history[p][t] = "Mounted" =>
        LET spur == actors[p].spur IN SpurCreditAccepted(spur, <<epoch, bounty.tick, spur.next>>)

LongHitScored(b, p, t, far) ==
    IF far /\ history[p][t] = "Mounted" THEN RecordMountedLongHit(b, p) ELSE b

ShotHitsRider(p, t, q, far) ==
    LET fatal   == riders[q].health <= ShotDamage
        damaged == LongHitScored(RecordDamage(bounty, p, q, ShotDamage), p, t, far)
    IN  /\ Admitted(p, t)
        /\ Verdict(p, t, TRUE).reason = "none" /\ Hittable(riders[q], t) /\ p # q
        /\ SpurPayable(p, t) /\ DamageAccepted(bounty, bounty.tick, p, q, ShotDamage)
        /\ shooters' = [shooters EXCEPT ![p] = Verdict(p, t, TRUE).shooter]
        /\ riders' = [riders EXCEPT ![q] = Struck(@, ShotDamage)]
        /\ actors' = SpurPaid(actors, p, t, IF fatal THEN "MountedElimination" ELSE "MountedHit")
        /\ bounty' = IF fatal THEN RecordElimination(damaged, p, q, FALSE) ELSE damaged
        /\ UNCHANGED <<horses, clocks, sequence, stances, history, epoch>>

(* Horse damage is dated to the authority's tick, the hit to the command's.     *)
ShotHitsHorse(p, t, q, far) ==
    LET id     == <<epoch, bounty.tick, sequence>>
        spooks == horses[q].health <= ShotDamage
        scored == LongHitScored(bounty, p, t, far)
    IN  /\ Admitted(p, t)
        /\ Verdict(p, t, TRUE).reason = "none" /\ Hittable(horses[q], t) /\ p # q
        /\ ActorDamageApplies(actors[q], id, ShotDamage) /\ SpurPayable(p, t)
        /\ spooks => HorseBoltAccepted(bounty, bounty.tick, p, q)
        /\ shooters' = [shooters EXCEPT ![p] = Verdict(p, t, TRUE).shooter]
        /\ horses' = [horses EXCEPT ![q] = Struck(@, ShotDamage)]
        /\ actors' = SpurPaid([actors EXCEPT ![q] = ActorDamaged(@, id, ShotDamage, "aside")],
                              p, t, "MountedHit")
        /\ sequence' = sequence + 1
        /\ bounty' = IF spooks THEN RecordHorseBolt(scored, p) ELSE scored
        /\ UNCHANGED <<riders, clocks, stances, history, epoch>>

(* complete_m5_objective: the ammo wagon refills the rifle.                     *)
TakeObjective(p) ==
    /\ CompletionAccepted(bounty, bounty.tick, p, bounty.objective.id)
    /\ bounty' = CompleteObjective(bounty, p)
    /\ IF bounty.objective.kind = "AmmoWagon"
       THEN /\ shooters' = [shooters EXCEPT ![p].rifle = RefillEquipped(@)]
            /\ clocks' = [clocks EXCEPT ![p].held = FALSE]
       ELSE UNCHANGED <<shooters, clocks>>
    /\ UNCHANGED <<actors, riders, horses, sequence, stances, history, epoch, shots>>

-----------------------------------------------------------------------------
(* is_bounded_and_canonical, restore_m3_checkpoint and restore_components: what *)
(* has to hold of every component, and of the graph they form.  A rider whose   *)
(* actor is mounted is not on foot, and only such a rider is not.               *)
StanceFits(p) == (stances[p] = "OnFoot") = (ActorMode(actors[p]) # "Mounted")

GraphRestorable ==
    /\ sequence # 0 /\ MatchValid(bounty)
    /\ \A p \in Roster :
          /\ ShooterRestorable(shooters[p]) /\ ReloadRestorable(shooters[p].rifle)
          /\ riders[p].health <= RiderHealth
          /\ horses[p].health = actors[p].horse.health
          /\ actors[p].tick = clocks[p].tick
          /\ StanceFits(p)

Restorable == GraphRestorable /\ \A p \in Roster : ActorRestorable(actors[p])

Handoff ==
    /\ epoch <= MaxHandoffs /\ Restorable
    /\ epoch' = epoch + 1
    /\ shooters' = [p \in Roster |->
         [RestoredShooter(shooters[p]) EXCEPT !.rifle.reload = shooters[p].rifle.reload]]
    /\ riders' = [p \in Roster |-> NewTarget(riders[p].health)]
    /\ horses' = [p \in Roster |-> NewTarget(horses[p].health)]
    /\ history' = [p \in Roster |-> [t \in {} |-> "Mounted"]]
    /\ UNCHANGED <<actors, clocks, sequence, bounty, stances, shots>>

Next ==
    \/ \E keys \in {f \in [Roster -> UNION {Keys[p] : p \in Roster}] : \A p \in Roster : f[p] \in Keys[p]} :
          Frame(keys)
    \/ \E p \in Roster, t \in 1..LastFrame, near \in BOOLEAN : ShotWithoutHit(p, t, near)
    \/ \E p, q \in Roster, t \in 1..LastFrame, far \in Ranges : ShotHitsRider(p, t, q, far)
    \/ \E p, q \in Roster, t \in 1..LastFrame, far \in Ranges : ShotHitsHorse(p, t, q, far)
    \/ \E p \in Roster : TakeObjective(p)
    \/ Handoff

Spec == Init /\ [][Next]_vars
-----------------------------------------------------------------------------
(* Two kernels keep each health: a horse has the same in its actor and in the   *)
(* rewind registry, and a rider without any is exactly one the match counts as  *)
(* eliminated, through regeneration, remount, respawn and handoff.              *)
HealthAgrees ==
    \A p \in Roster :
        /\ horses[p].health = actors[p].horse.health
        /\ bounty.players[p].alive = (riders[p].health > 0)

(* Between frames three things can stop a running match from moving to a new    *)
(* authority, and no other: a horse-loss effect nobody acknowledged, a rider    *)
(* the bridge shows on foot beside the horse its actor still rides, and a       *)
(* horse shot down since the last frame, its rider still shown in the saddle.   *)
Afoot(p) == stances[p] = "OnFoot" /\ actors[p].horse.state = "Available"
ShotDown(p) == stances[p] # "OnFoot" /\ actors[p].horse.boltStart = bounty.tick

RunningMatchMigrates ==
    \/ bounty.tick = 0 \/ bounty.finished \/ Restorable
    \/ \E p \in Roster : ~PendingValid(actors[p]) \/ Afoot(p) \/ ShotDown(p)

(* Rounds are made by a respawn or an ammo wagon only, and spent one at a time  *)
(* by accepted shots.                                                           *)
RoundsAreConserved ==
    \A p \in Roster :
      LET ammo(s) == s[p].rifle.ammo[s[p].rifle.weapon]
          total(s) == ammo(s).mag + ammo(s).res
          fired    == shooters'[p].rifle.index - shooters[p].rifle.index
      IN  \/ total(shooters') = total(shooters) - fired
          \/ ammo(shooters') = FullAmmo /\ fired = 0
               /\ \/ ~bounty.players[p].alive /\ bounty'.players[p].alive
                  \/ bounty.objective.kind = "AmmoWagon" /\ bounty'.objective.completed

(* No two shots of a rider are closer than the cadence, whatever historical      *)
(* ticks the commands carry, and no handoff or respawn forgets the last one.     *)
CadenceIsKept ==
    \A p \in Roster :
      LET before == shooters[p].rifle
          after  == shooters'[p].rifle
      IN  /\ after.shotTick >= before.shotTick
          /\ after.index > before.index /\ before.shotTick # Never
               => after.shotTick >= before.shotTick + Cadence
=============================================================================
