----------------------------- MODULE SaddleDive -----------------------------
(* The three native controllers of a rider composed as m2_gameplay.gd does:  *)
(* SaddleDiveController (rider and telemetry), MountedWeaponController       *)
(* (rifle, stance it believes in, accepted-shot ledger) and the run-out half *)
(* of HorseController.  A frame installs the combat context, advances the    *)
(* rider and the rifle, lets combat act, then moves the bodies and settles   *)
(* observations.  Damage, deaths and shot results arrive at any point.       *)
EXTENDS DiveKernel, CombatKernel

CONSTANTS
    Loadout,       \* the owned weapons
    Buttons,       \* what a frame reads: [interact, grounded, fast, near, sprint]
    LastTick,      \* the last tick a behaviour reaches
    MaxIncidents,  \* damages, deaths, epoch changes, resets and match ends
    Wounds         \* damage amounts

VARIABLES
    dive,          \* SaddleDiveKernel
    runout,        \* HorseRunoutKernel
    rifle,         \* the weapon controller's CombatKernel
    riding,        \* the weapon controller's own RidingState
    footing,       \* mounted_grounded, as the rider controller last read it
    ledger,        \* ShotAttributionLedger: [accepted, resolved]
    clock,         \* simulation_tick
    phase,         \* "idle" between frames, "combat" inside one
    incidents      \* how many incidents have happened

vars == <<dive, runout, rifle, riding, footing, ledger, clock, phase, incidents>>

FirstWeapon == CHOOSE w \in Loadout : TRUE

Init ==
    /\ dive = NewDive /\ runout = NewRunout
    /\ rifle = [NewRifle(FirstWeapon) EXCEPT !.ammo = [w \in Loadout |-> FullAmmo]]
    /\ riding = Riding("Mounted", 0) /\ footing = TRUE
    /\ ledger = [accepted |-> {}, resolved |-> {}]
    /\ clock = 0 /\ phase = "idle" /\ incidents = 0

(* A weapon is the pair of its kernel and the stance the controller holds;   *)
(* synchronize_authoritative_stance installs a stance at the current tick.   *)
Synced(w, stance) ==
    LET r == [w.riding EXCEPT !.stance = stance, !.dive = 0]
    IN  [rifle |-> RifleAdvanced(w.rifle, w.rifle.clock, r), riding |-> r]

WeaponLaunched(w, id, t) ==
    [rifle |-> BeginDive(w.rifle, id, t),
     riding |-> [w.riding EXCEPT !.stance = "SaddleDive", !.dive = id]]

WeaponLanded(w, t) ==
    [rifle |-> FinishDive(w.rifle, t), riding |-> [w.riding EXCEPT !.stance = "Prone", !.dive = 0]]

(* complete_remount: an open context is closed first, the rifle unholstered. *)
WeaponRemounted(w, t) ==
    LET closed == IF OpenDive(w.rifle) THEN FinishDive(w.rifle, t) ELSE w.rifle
        r      == [w.riding EXCEPT !.stance = "Mounted", !.dive = 0]
        now    == RifleAdvanced(closed, t, r)
    IN  [rifle |-> Equip(now, now.weapon), riding |-> r]

(* prepare_authoritative_combat: commands first, then the transitions that   *)
(* the commands have not applied, in the order the rider made them.          *)
WeaponFollows(w, before, after, t) ==
    LET recovered == RecoveredAt(before, t).state
        commanded == IF after.state = "Mounted" /\ before.state # "Mounted"
                     THEN WeaponRemounted(w, t) ELSE w
    IN  IF after.state = "SaddleDive" /\ before.state = "Mounted" THEN WeaponLaunched(w, after.id, t)
        ELSE IF after.state = "OnFoot" /\ before.state = "Mounted" THEN Synced(w, "OnFoot")
        ELSE IF recovered # before.state THEN Synced(commanded, recovered)
        ELSE commanded

HorseFollows(before, after, t) ==
    CASE before.state = "Mounted" /\ after.state = "SaddleDive" -> RunoutStarted(t)
      [] before.state = "Mounted" /\ after.state = "OnFoot" -> StoppedForDismount
      [] before.state # "Mounted" /\ after.state = "Mounted" -> RunoutRemounted(runout)
      [] OTHER -> runout

(* set_rider_context asserts the stance the rider published.                 *)
ContextMatches == RiderStance(dive) = riding.stance /\ (riding.dive # 0 => riding.dive = dive.id)

(* The launch preflight of advance_tick, on the weapon it just synchronized. *)
Launchable(w) == CanBeginDive(w.rifle, clock + 1, w.rifle.weapon) /\ runout.state = "PlayerControlled"

BeginFrame(in) ==
    LET t     == clock + 1
        given == [rifle |-> rifle, riding |-> [riding EXCEPT !.sprint = in.sprint]]
        w     == IF dive.state # "Mounted" THEN given
                 ELSE Synced(given, IF in.grounded THEN "Mounted" ELSE "MountedAirborne")
        held  == dive.state = "Mounted" /\ in.interact /\ in.grounded /\ in.fast /\ ~Launchable(w)
        next  == IF held THEN dive
                 ELSE DiveBegun(dive, t, in, runout.state = "Idle", rifle.weapon)
        armed == WeaponFollows(w, dive, next, t)
    IN  /\ phase = "idle" /\ t <= LastTick /\ ContextMatches
        /\ clock' = t /\ phase' = "combat" /\ footing' = in.grounded
        /\ dive' = next /\ runout' = HorseFollows(dive, next, t)
        /\ riding' = armed.riding /\ rifle' = RifleAdvanced(armed.rifle, t, armed.riding)
        /\ UNCHANGED <<ledger, incidents>>

(* "M2 combat context rejected": the frame is given up.                      *)
RefuseFrame ==
    /\ phase = "idle" /\ clock < LastTick /\ ~ContextMatches
    /\ clock' = clock + 1
    /\ UNCHANGED <<dive, runout, rifle, riding, footing, ledger, phase, incidents>>

-----------------------------------------------------------------------------
(* can_accept_authority_shot                                                 *)
SnapshotMatches ==
    /\ dive.tick = clock /\ RiderStance(dive) = riding.stance /\ dive.id = riding.dive
    /\ \/ riding.stance = "Mounted"
       \/ riding.stance = "SaddleDive" /\ dive.rows[dive.id].weapon = rifle.weapon
                                       /\ dive.rows[dive.id].landing = Unset

(* request_fire of the controller: the attempt is recorded whatever follows. *)
RequestFire ==
    LET tried == ShotAttempted(dive, clock)
        shot  == [tick |-> clock, dive |-> riding.dive, weapon |-> rifle.weapon]
        fire  == Fire(rifle, clock, riding, rifle.index)
        heard == SnapshotMatches /\ \A s \in ledger.accepted : s.tick # clock
    IN  /\ phase = "combat"
        /\ IF heard /\ fire.reason = "none"
           THEN /\ rifle' = fire.rifle /\ dive' = ShotAccepted(tried, shot)
                /\ ledger' = [ledger EXCEPT !.accepted = @ \cup {shot}]
           ELSE /\ rifle' = IF heard THEN fire.rifle ELSE rifle
                /\ dive' = tried /\ UNCHANGED ledger
        /\ UNCHANGED <<runout, riding, footing, clock, phase, incidents>>

Reload ==
    /\ phase = "combat"
    /\ rifle' = RequestReload(rifle, clock, riding)
    /\ UNCHANGED <<dive, runout, riding, footing, ledger, clock, phase, incidents>>

EquipWeapon(w) ==
    /\ phase = "combat" /\ riding.stance # "SaddleDive" /\ CanEquip(rifle, w)
    /\ rifle' = Equip(rifle, w)
    /\ UNCHANGED <<dive, runout, riding, footing, ledger, clock, phase, incidents>>

(* The horse's external tick, the rider's motion and the settled watermark.  *)
EndFrame(step, contact) ==
    LET horse  == RunoutBegun(runout, clock)
        moved  == DiveMoved(dive, contact)
        landed == dive.state = "SaddleDive" /\ moved.state = "Prone"
        armed  == IF landed THEN WeaponLanded([rifle |-> rifle, riding |-> riding], clock)
                  ELSE [rifle |-> rifle, riding |-> riding]
    IN  /\ phase = "combat" /\ step <= MaximumStep(horse)
        /\ phase' = "idle"
        /\ runout' = RunoutMoved(horse, step)
        /\ dive' = SettledThrough(moved, clock)
        /\ rifle' = armed.rifle /\ riding' = armed.riding
        /\ UNCHANGED <<footing, ledger, clock, incidents>>

-----------------------------------------------------------------------------
(* apply_authority_result and the local resolutions: any accepted shot, at   *)
(* any later time, any number of times.                                      *)
ResultArrives(shot, hit) ==
    /\ shot \in ledger.accepted /\ shot.tick \notin ledger.resolved
    /\ ledger' = [ledger EXCEPT !.resolved = @ \cup {shot.tick}]
    /\ dive' = ShotResolved(dive, shot, hit)
    /\ UNCHANGED <<runout, rifle, riding, footing, clock, phase, incidents>>

Incident == incidents < MaxIncidents /\ incidents' = incidents + 1

(* An observation may be delivered again, at any later point.                *)
ApplyExternalDamage(t, amount) ==
    LET o == [epoch |-> dive.epoch, tick |-> t, seq |-> 1, amount |-> amount]
    IN  /\ Incident \/ (SeenBefore(dive, o) /\ UNCHANGED incidents)
        /\ dive' = ExternalDamage(dive, o)
        /\ UNCHANGED <<runout, rifle, riding, footing, ledger, clock, phase>>

RiderDeath(t) ==
    /\ Incident /\ dive' = ObserveDeath(dive, t)
    /\ UNCHANGED <<runout, rifle, riding, footing, ledger, clock, phase>>

AdvanceAuthorityEpoch ==
    /\ Incident /\ dive' = [dive EXCEPT !.epoch = @ + 1]
    /\ UNCHANGED <<runout, rifle, riding, footing, ledger, clock, phase>>

EndMatch ==
    /\ Incident /\ dive' = Censored(dive, "MatchEnded")
    /\ UNCHANGED <<runout, rifle, riding, footing, ledger, clock, phase>>

(* reset_rider takes a whole frame.  process_effects then replays the        *)
(* transition: out of the air, prone or recovery the weapon is put in the    *)
(* saddle a second time, with the footing of the last frame.                 *)
ResetRider ==
    LET fresh == WeaponRemounted([rifle |-> rifle, riding |-> riding], clock + 1)
        armed == IF dive.state \in {"Mounted", "OnFoot"} THEN fresh
                 ELSE Synced(fresh, IF footing THEN "Mounted" ELSE "MountedAirborne")
    IN  /\ phase = "idle" /\ clock < LastTick /\ Incident
        /\ clock' = clock + 1
        /\ dive' = DiveReset(dive, clock + 1) /\ runout' = NewRunout
        /\ rifle' = armed.rifle /\ riding' = armed.riding
        /\ UNCHANGED <<footing, ledger, phase>>

Next ==
    \/ \E in \in Buttons : BeginFrame(in)
    \/ RefuseFrame
    \/ RequestFire
    \/ Reload
    \/ \E w \in Loadout : EquipWeapon(w)
    \/ \E step \in 0..RunoutStep, contact \in {"none", "good", "bad"} : EndFrame(step, contact)
    \/ \E shot \in ledger.accepted, hit \in BOOLEAN : ResultArrives(shot, hit)
    \/ \E t \in 0..clock, amount \in Wounds : ApplyExternalDamage(t, amount)
    \/ \E t \in 0..clock : RiderDeath(t)
    \/ AdvanceAuthorityEpoch
    \/ EndMatch
    \/ ResetRider

Spec == Init /\ [][Next]_vars
-----------------------------------------------------------------------------
(* A rider is in the saddle exactly while the horse is under control, and    *)
(* the rifle's dive context is open exactly while the rider is in the air,   *)
(* whatever lands, dies, resets or is refused.                               *)
ControllersFollowRider ==
    /\ (dive.state = "Mounted") = (runout.state = "PlayerControlled")
    /\ OpenDive(rifle) = (dive.state = "SaddleDive")
    /\ OpenDive(rifle) => rifle.dive.id = dive.id

(* A dive's damage is that of its bad landing and of every distinct          *)
(* observation dated within the inclusive window, delivered early, late or   *)
(* twice; a finalized row stops counting.                                    *)
WindowDamageCountedOnce ==
    \A i \in DOMAIN dive.rows :
        LET row == dive.rows[i]
            due == {o \in dive.seen : InWindow(row, o.tick)}
            sum(S) == MapThenSumSet(LAMBDA o : o.amount, S) + (IF row.bad THEN BadDamage ELSE 0)
        IN  /\ row.counted \subseteq due /\ row.taken = sum(row.counted)
            /\ ~row.final => row.counted = due

(* A shot of a dive is counted once: accepted ones were attempted, lie       *)
(* within the flight, are the rounds the rifle spent in it and never exceed  *)
(* the cap; hits are resolved shots.                                         *)
DiveShotsAgree ==
    /\ \A i \in DOMAIN dive.rows :
          LET row == dive.rows[i]
          IN  /\ row.hits \subseteq row.resolved /\ row.resolved \subseteq row.accepted
              /\ row.accepted \subseteq row.attempts /\ Cardinality(row.accepted) <= DiveCap
              /\ \A t \in row.accepted : t >= row.launch /\ (row.landing # Unset => t <= row.landing)
              /\ \A s \in ledger.accepted : s.dive = i /\ ~row.final => s.tick \in row.accepted
    /\ rifle.dive.id \in DOMAIN dive.rows
          => rifle.dive.count = Cardinality({s \in ledger.accepted : s.dive = rifle.dive.id})

(* A landed row that was finalized never changes again.                      *)
LandedRowsAreFinal ==
    \A i \in DOMAIN dive.rows :
      dive.rows[i].final /\ dive.rows[i].landing # Unset => dive'.rows[i] = dive.rows[i]

(* death_within_3s tells the truth about every landed death.                 *)
DeathWindowIsTrue ==
    \A i \in DOMAIN dive.rows :
        LET row == dive.rows[i]
        IN  row.landing # Unset /\ row.death # Unset
              => (row.within = "yes") = (row.death <= row.landing + DeathWindow)

(* The horse is idle by the end of its run-out and never ran past the cap.   *)
RunoutEnds ==
    /\ runout.travel <= MaxTravel
    /\ phase = "idle" /\ runout.state = "Runout"
         => clock < runout.launch + RunoutTicks /\ runout.travel < MaxTravel

(* m2_gameplay.gd: "M2 combat context rejected before tick": the stance the  *)
(* rider publishes is the one the weapon holds when a frame begins, as long  *)
(* as the rider only plays: no damage, death, epoch change, match end or     *)
(* reset.  (A reset loses it in a way of its own, see ResetRider.)           *)
FrameContextAccepted == phase = "idle" /\ incidents = 0 => ContextMatches
=============================================================================
