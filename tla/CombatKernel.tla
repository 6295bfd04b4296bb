---------------------------- MODULE CombatKernel ----------------------------
(* The rifle of one shooter, the targets an authority keeps and the checks  *)
(* it makes of a shot command (combat/kernel.rs).  Ammunition, cadence,     *)
(* reload, holstering, dive context, replay watermarks and the rewind       *)
(* history are kept; recoil, spread, sway and ray geometry are abstracted:  *)
(* a spread seed is the shot index it is derived from, and where a ray      *)
(* would hit is an input restricted to the targets the rewind allows.       *)
EXTENDS Integers, Sequences, FiniteSetsExt

CONSTANTS
    Magazine,         \* WeaponStats::magazine_capacity
    Reserve,          \* WeaponStats::reserve_capacity
    ReloadTicks,      \* WeaponStats::reload_ticks
    Cadence,          \* WeaponStats::cadence_ticks
    DiveCap,          \* dive_shot_cap
    HistoryTicks,     \* ROLLBACK_WINDOW_MS: how long a pose is kept
    LagTicks          \* MAX_LAG_COMPENSATION_MS: how old a command may be

Never == -1
FullAmmo == [mag |-> Magazine, res |-> Reserve]
NoDive == [id |-> 0, weapon |-> "none", count |-> 0, closed |-> TRUE]

(* RidingState: stance, the dive it claims (0 for none), and the two flags  *)
(* that gate fire and reload.                                               *)
Riding(stance, dive) == [stance |-> stance, dive |-> dive, stumbling |-> FALSE, sprint |-> FALSE]
Consistent(r) == (r.stance = "SaddleDive") = (r.dive # 0)
CarriesMountedWeapon(stance) == stance \in {"Mounted", "MountedAirborne", "SaddleDive"}

NewRifle(weapon) ==
    [ammo |-> [w \in {weapon} |-> FullAmmo], weapon |-> weapon, holstered |-> FALSE,
     reload |-> Never, shotTick |-> Never, clock |-> 0, index |-> 0,
     riding |-> Riding("Mounted", 0), dive |-> NoDive]

RifleRespawned(k, t) ==
    [k EXCEPT !.ammo = [w \in DOMAIN @ |-> FullAmmo], !.holstered = FALSE,
              !.reload = Never, !.riding = Riding("Mounted", 0), !.dive = NoDive, !.clock = t]

OpenDive(k) == k.dive.id # 0 /\ ~k.dive.closed
Holster(k) == [k EXCEPT !.holstered = TRUE, !.reload = Never]
RefillEquipped(k) == [k EXCEPT !.ammo[k.weapon] = FullAmmo, !.reload = Never]

CanEquip(k, w) == ~OpenDive(k) /\ k.riding.stance # "SaddleDive" /\ w \in DOMAIN k.ammo
Equip(k, w) == [k EXCEPT !.weapon = w, !.holstered = FALSE, !.reload = Never]

(* Fault: a reload leaves the reserve alone. *)
ReloadByForFree(k, elapsed, paused) ==
    LET active == IF paused THEN k.reload ELSE k.reload + elapsed
        ammo   == k.ammo[k.weapon]
    IN  IF k.reload = Never THEN k
        ELSE IF active < ReloadTicks THEN [k EXCEPT !.reload = active]
        ELSE [k EXCEPT !.reload = Never,
                       !.ammo[k.weapon].mag = ammo.mag + Min({Magazine - ammo.mag, ammo.res})]

(* advance_reload_by: a reload that reaches its length moves rounds.        *)
ReloadBy(k, elapsed, paused) ==
    LET active == IF paused THEN k.reload ELSE k.reload + elapsed
        ammo   == k.ammo[k.weapon]
        loaded == Min({Magazine - ammo.mag, ammo.res})
    IN  IF k.reload = Never THEN k
        ELSE IF active < ReloadTicks THEN [k EXCEPT !.reload = active]
        ELSE [k EXCEPT !.reload = Never,
                       !.ammo[k.weapon] = [mag |-> ammo.mag + loaded, res |-> ammo.res - loaded]]

RifleAdvanced(k, t, r) ==
    LET ridden == [k EXCEPT !.riding = r]
        kept   == IF CarriesMountedWeapon(r.stance) THEN ridden ELSE Holster(ridden)
    IN  [ReloadBy(kept, t - k.clock, r.sprint) EXCEPT !.clock = t]

CanReload(k) ==
    /\ ~k.holstered /\ k.reload = Never
    /\ k.ammo[k.weapon].mag < Magazine /\ k.ammo[k.weapon].res > 0

BeginReload(k) == IF CanReload(k) THEN [k EXCEPT !.reload = 0] ELSE k

(* request_m3_reload of the authority and request_reload of a local rider.  *)
RequestM3Reload(k) == IF OpenDive(k) THEN k ELSE BeginReload(k)

RequestReload(k, t, r) ==
    IF t >= k.clock /\ ~OpenDive(k) /\ r.stance = "Mounted" /\ Consistent(r)
    THEN BeginReload(RifleAdvanced(k, t, r)) ELSE k

(* restore_m3_reload's conditions on an active reload.                      *)
ReloadRestorable(k) ==
    k.reload # Never =>
        /\ ~k.holstered /\ k.reload < ReloadTicks
        /\ k.ammo[k.weapon].mag < Magazine /\ k.ammo[k.weapon].res > 0

(* begin_saddle_dive: a reload due before the launch tick still completes,  *)
(* one due on it is cancelled.                                              *)
CanBeginDive(k, t, w) ==
    /\ t >= k.clock /\ w = k.weapon /\ ~OpenDive(k)
    /\ k.riding.stance = "Mounted" /\ Consistent(k.riding)

BeginDive(k, id, t) ==
    LET before == IF t - 1 > k.clock THEN RifleAdvanced(k, t - 1, k.riding) ELSE k
    IN  [before EXCEPT
            !.reload = Never, !.clock = t,
            !.riding.stance = "SaddleDive", !.riding.dive = id,
            !.dive = [id |-> id, weapon |-> k.weapon, count |-> 0, closed |-> FALSE]]

(* Fault: a landing leaves the dive context open. *)
FinishDiveStillOpen(k, t) ==
    Holster([k EXCEPT !.clock = t, !.riding.stance = "Prone", !.riding.dive = 0])

FinishDive(k, t) ==
    Holster([k EXCEPT !.dive.closed = TRUE, !.clock = t,
                      !.riding.stance = "Prone", !.riding.dive = 0])

(* The checks of a dive shot, made before any state moves.                  *)
DiveRejection(k, r) ==
    CASE r.stance # "SaddleDive" -> "none"
      [] r.stance = "SaddleDive" /\ (k.dive.id = 0 \/ r.dive # k.dive.id) -> "Dismounted"
      [] r.stance = "SaddleDive" /\ k.dive.id = r.dive /\ k.dive.closed -> "Dismounted"
      [] r.stance = "SaddleDive" /\ k.dive.id = r.dive /\ ~k.dive.closed
            /\ k.weapon # k.dive.weapon -> "Weapon"
      [] r.stance = "SaddleDive" /\ k.dive.id = r.dive /\ ~k.dive.closed
            /\ k.weapon = k.dive.weapon /\ k.dive.count >= DiveCap -> "Rate"
      [] OTHER -> "none"

(* The checks made after the rifle advanced to the shot's tick.             *)
FireRejection(k, t, r, seed) ==
    CASE r.stance = "MountedAirborne" -> "Airborne"
      [] r.stance \notin {"Mounted", "MountedAirborne", "SaddleDive"} -> "Dismounted"
      [] OTHER ->
           IF r.stumbling THEN "Stumble"
           ELSE IF k.holstered THEN "Holstered"
           ELSE IF k.reload # Never THEN "Reloading"
           ELSE IF k.shotTick # Never /\ t - k.shotTick < Cadence THEN "Rate"
           ELSE IF k.ammo[k.weapon].mag = 0 THEN "Empty"
           ELSE IF seed # k.index THEN "SpreadSeed" ELSE "none"

(* request_fire_detailed: the rifle it leaves and the reason of a refusal.  *)
Fire(k, t, r, seed) ==
    LET now    == RifleAdvanced(k, t, r)
        reason == FireRejection(now, t, r, seed)
        fired  == [now EXCEPT !.ammo[k.weapon].mag = @ - 1, !.shotTick = t, !.index = @ + 1,
                              !.dive.count = IF r.stance = "SaddleDive" THEN @ + 1 ELSE @]
    IN  IF t < k.clock THEN [rifle |-> k, reason |-> "TickReplay"]
        ELSE IF ~Consistent(r) \/ (OpenDive(k) /\ r.stance # "SaddleDive")
        THEN [rifle |-> k, reason |-> "Dismounted"]
        ELSE IF DiveRejection(k, r) # "none"
        THEN [rifle |-> k, reason |-> DiveRejection(k, r)]
        ELSE IF reason # "none" THEN [rifle |-> now, reason |-> reason]
        ELSE [rifle |-> fired, reason |-> "none"]

-----------------------------------------------------------------------------
(* TargetRegistry: a target is its health and its pose history, a function  *)
(* from recorded ticks to whether the pose was active.                      *)

NewTarget(health) == [health |-> health, poses |-> [t \in {} |-> FALSE]]

(* push_geometry: a strictly newer pose, pruned to the rewind window.      *)
PoseRecorded(target, t, active) ==
    [target EXCEPT !.poses =
        [u \in {v \in DOMAIN @ : v >= t - HistoryTicks} \cup {t} |->
            IF u = t THEN active ELSE @[u]]]

(* geometry_at: the newest pose not after t; nearest_hit's conditions.      *)
PosesUntil(target, t) == {u \in DOMAIN target.poses : u <= t}

Hittable(target, t) ==
    /\ target.health > 0 /\ PosesUntil(target, t) # {}
    /\ target.poses[Max(PosesUntil(target, t))]

Struck(target, damage) == [target EXCEPT !.health = Max({0, @ - damage})]
-----------------------------------------------------------------------------
(* CombatAuthority: a shooter is its rifle and its command watermark.       *)

NewShooter(weapon) == [rifle |-> NewRifle(weapon), command |-> Never]

(* Fault: a handoff forgets how many shots were fired. *)
RestoredShooterFromZero(s) ==
    LET w == s.rifle.weapon
    IN  [rifle |-> [NewRifle(w) EXCEPT
                      !.ammo[w] = s.rifle.ammo[w], !.shotTick = s.rifle.shotTick,
                      !.clock = IF s.command # Never THEN s.command
                                ELSE Max({0, s.rifle.shotTick})],
         command |-> s.command]

(* restore_shooter: what survives of a shooter in a handoff.                *)
RestoredShooter(s) ==
    LET w == s.rifle.weapon
    IN  [rifle |-> [NewRifle(w) EXCEPT
                      !.ammo[w] = s.rifle.ammo[w], !.shotTick = s.rifle.shotTick,
                      !.clock = IF s.command # Never THEN s.command
                                ELSE Max({0, s.rifle.shotTick}),
                      !.index = s.rifle.index],
         command |-> s.command]

ShooterRestorable(s) ==
    /\ (s.rifle.shotTick # Never) = (s.rifle.index > 0)
    /\ s.rifle.shotTick # Never => s.command # Never
    /\ s.command # Never => s.rifle.shotTick <= s.command

(* validate_shot up to the hit: cmd is [tick, weapon, aimed, near, seed],    *)
(* snapshot whether the rider snapshot is one of that shooter and tick.      *)
Validate(s, cmd, authorityTick, snapshot, r) ==
    LET refuse(reason) == [shooter |-> s, reason |-> reason]
        seen           == [s EXCEPT !.command = cmd.tick]
        fire           == Fire(s.rifle, cmd.tick, r, cmd.seed)
    IN  IF ~snapshot \/ ~Consistent(r) THEN refuse("RiderSnapshot")
        ELSE IF cmd.tick > authorityTick THEN refuse("TickFuture")
        ELSE IF authorityTick - cmd.tick > LagTicks THEN refuse("TickStale")
        ELSE IF cmd.tick <= s.command THEN refuse("TickReplay")
        ELSE IF cmd.weapon # s.rifle.weapon THEN [shooter |-> seen, reason |-> "Weapon"]
        ELSE IF ~cmd.aimed THEN [shooter |-> seen, reason |-> "InvalidDirection"]
        ELSE IF ~cmd.near THEN [shooter |-> seen, reason |-> "OriginLeash"]
        ELSE [shooter |-> [seen EXCEPT !.rifle = fire.rifle], reason |-> fire.reason]
=============================================================================
