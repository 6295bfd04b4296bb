----------------------------- MODULE DiveKernel -----------------------------
(* The Saddle Dive state machine of a rider and its instrumentation rows     *)
(* (SaddleDiveKernel, RiderHealthKernel), and the run-out of the horse it    *)
(* left (HorseRunoutKernel).  Positions, velocities and launch geometry are  *)
(* abstracted: whether the horse is fast, grounded and near, and how a       *)
(* landing is, are inputs.                                                   *)
EXTENDS Integers, Sequences, FiniteSetsExt

CONSTANTS
    Health,        \* PROTOTYPE_RIDER_HEALTH
    BadDamage,     \* BAD_LANDING_DAMAGE
    ProneTicks,    \* 400 ms, doubled by a bad landing
    RecoveryTicks, \* 400 ms
    DeathWindow,   \* 3 s, both ends included
    RunoutTicks,   \* 2 s
    RunoutStep,    \* how far the horse moves in its first tick, in units
    MaxTravel      \* HORSE_MAX_TRAVEL_MM, in units

Unset == -1
NoLanding == [id |-> 0, tick |-> Unset, bad |-> FALSE]

(* A row of the instrumentation table with the sets that deduplicate it.     *)
NewDiveRow(t, weapon) ==
    [launch |-> t, weapon |-> weapon, landing |-> Unset, bad |-> FALSE,
     attempts |-> {}, accepted |-> {}, resolved |-> {}, hits |-> {},
     taken |-> 0, counted |-> {}, death |-> Unset, within |-> "unknown",
     remount |-> Unset, reason |-> "none", final |-> FALSE]

NewDive ==
    [state |-> "Mounted", tick |-> Unset, moved |-> FALSE, held |-> FALSE, grounded |-> TRUE,
     id |-> 0, landing |-> NoLanding, health |-> Health, seen |-> {}, watermark |-> Unset,
     rows |-> << >>, epoch |-> 0]

RiderStance(d) ==
    IF d.state = "Mounted" /\ ~d.grounded THEN "MountedAirborne" ELSE d.state

(* maybe_finalize: what each outcome still waits for.                        *)
ShouldFinalize(d, row) ==
    LET settled == row.accepted = row.resolved
    IN  \/ row.final
        \/ row.reason \in {"MatchEnded", "Reset"}
        \/ row.reason = "DiedAirborne" /\ settled /\ (d.moved \/ d.tick > row.death)
        \/ row.reason = "DiedBeforeRemount" /\ settled
        \/ row.reason = "none" /\ settled /\ row.within # "unknown" /\ row.remount # Unset

Finalized(d, row) == [row EXCEPT !.final = ShouldFinalize(d, row)]

(* A change of every open row that Applies, followed by maybe_finalize.      *)
OpenRowsChanged(d, Applies(_), Change(_)) ==
    [d EXCEPT !.rows =
        [i \in DOMAIN @ |-> IF ~@[i].final /\ Applies(@[i]) THEN Finalized(d, Change(@[i])) ELSE @[i]]]

InWindow(row, t) == row.landing # Unset /\ t >= row.landing /\ t <= row.landing + DeathWindow

-----------------------------------------------------------------------------
(* advance_recovery_boundaries: prone, then recovery, then ready, however    *)
(* many boundaries the tick crosses.                                         *)
ProneEnds(landing) == landing.tick + (IF landing.bad THEN 2 ELSE 1) * ProneTicks

RecoveredAt(d, t) ==
    [d EXCEPT !.state =
        CASE @ \in {"Prone", "Recovery"} /\ t >= ProneEnds(d.landing) + RecoveryTicks -> "OnFoot"
          [] @ = "Prone" /\ t >= ProneEnds(d.landing)
                /\ t < ProneEnds(d.landing) + RecoveryTicks -> "Recovery"
          [] OTHER -> @]

LaunchDive(d, t, weapon) ==
    [d EXCEPT !.state = "SaddleDive", !.id = Len(d.rows) + 1, !.landing = NoLanding,
              !.rows = Append(@, NewDiveRow(t, weapon))]

OrdinaryDismount(d) == [d EXCEPT !.state = "OnFoot", !.id = 0, !.landing = NoLanding]

CompleteRemount(d, t, grounded) ==
    LET mounted == [d EXCEPT !.state = "Mounted", !.id = 0, !.landing = NoLanding,
                             !.grounded = grounded]
    IN  IF d.id = 0 THEN mounted
        ELSE [mounted EXCEPT !.rows[d.id] =
                Finalized(d, IF ~@.final /\ @.remount = Unset THEN [@ EXCEPT !.remount = t] ELSE @)]

(* begin_tick: timers first, then the rising interact edge.  in is           *)
(* [interact, grounded, fast, near], idle whether the horse is retrievable.  *)
DiveBegun(d, t, in, idle, weapon) ==
    LET edge  == in.interact /\ ~d.held
        timed == [RecoveredAt([d EXCEPT !.tick = t, !.moved = FALSE], t) EXCEPT !.held = in.interact]
        seen  == [timed EXCEPT !.grounded = in.grounded]
    IN  CASE timed.state = "Mounted" /\ ~(edge /\ in.grounded) -> seen
          [] timed.state = "Mounted" /\ edge /\ in.grounded /\ in.fast -> LaunchDive(seen, t, weapon)
          [] timed.state = "Mounted" /\ edge /\ in.grounded /\ ~in.fast -> OrdinaryDismount(seen)
          [] timed.state = "OnFoot" /\ edge /\ idle /\ in.near ->
                CompleteRemount(timed, t, in.grounded)
          [] OTHER -> timed

(* settle_observations_through: the watermark closes elapsed windows.        *)
SettledThrough(d, t) ==
    IF d.tick = Unset \/ t > d.tick \/ t <= d.watermark THEN d
    ELSE OpenRowsChanged([d EXCEPT !.watermark = t],
           LAMBDA row : row.within = "unknown" /\ row.landing # Unset /\ t >= row.landing + DeathWindow,
           LAMBDA row : [row EXCEPT !.within = "no"])

-----------------------------------------------------------------------------
(* observe_death_internal: every open row launched by then dies, in the air  *)
(* or before a remount, and learns whether that was within the window.       *)
Died(d, t) ==
    OpenRowsChanged(d,
        LAMBDA row : row.death = Unset /\ t >= row.launch,
        LAMBDA row :
          [row EXCEPT
             !.death = t,
             !.within = IF row.landing = Unset THEN @
                        ELSE IF t <= row.landing + DeathWindow THEN "yes" ELSE "no",
             !.reason = IF row.landing = Unset THEN "DiedAirborne"
                        ELSE IF row.remount = Unset \/ t < row.remount THEN "DiedBeforeRemount"
                        ELSE @])

ObserveDeath(d, t) == Died([d EXCEPT !.health = 0], t)

(* apply_external_damage: once per observation, to every open window; an     *)
(* observation is [epoch, tick, seq, amount].                                *)
SeenBefore(d, o) ==
    \E p \in d.seen : p.epoch = o.epoch /\ p.tick = o.tick /\ p.seq = o.seq

(* Fault: an observation delivered again is counted again. *)
ExternalDamageAgain(d, o) ==
    LET hurt     == [d EXCEPT !.health = Max({0, @ - o.amount}), !.seen = @ \cup {o}]
        hit(row) == [row EXCEPT !.taken = @ + o.amount, !.counted = @ \cup {o}]
        counted  == [hurt EXCEPT !.rows =
                       [i \in DOMAIN d.rows |-> IF ~d.rows[i].final /\ InWindow(d.rows[i], o.tick)
                                                THEN hit(d.rows[i]) ELSE d.rows[i]]]
    IN  IF o.epoch # d.epoch THEN d
        ELSE IF d.health > 0 /\ hurt.health = 0 THEN Died(counted, o.tick) ELSE counted

ExternalDamage(d, o) ==
    LET hurt     == [d EXCEPT !.health = Max({0, @ - o.amount}), !.seen = @ \cup {o}]
        hit(row) == [row EXCEPT !.taken = @ + o.amount, !.counted = @ \cup {o}]
        counted  == [hurt EXCEPT !.rows =
                       [i \in DOMAIN d.rows |-> IF ~d.rows[i].final /\ InWindow(d.rows[i], o.tick)
                                                THEN hit(d.rows[i]) ELSE d.rows[i]]]
    IN  IF o.epoch # d.epoch \/ SeenBefore(d, o) THEN d
        ELSE IF d.health > 0 /\ hurt.health = 0 THEN Died(counted, o.tick) ELSE counted

(* land_dive: the row learns its landing (finalized or not), retained        *)
(* observations are attributed, a bad landing hurts once.                    *)
LandDive(d, t, bad) ==
    LET row    == d.rows[d.id]
        landed == [row EXCEPT
                     !.landing = t, !.bad = bad, !.taken = IF bad THEN @ + BadDamage ELSE @,
                     !.within = IF row.death = Unset THEN @
                                ELSE IF row.death <= t + DeathWindow THEN "yes" ELSE "no",
                     !.reason = IF row.death = Unset THEN @ ELSE "DiedBeforeRemount"]
        late   == IF row.final THEN {} ELSE {o \in d.seen : InWindow(landed, o.tick)}
        full   == [landed EXCEPT !.counted = @ \cup late,
                                 !.taken = @ + MapThenSumSet(LAMBDA o : o.amount, late)]
        prone  == [d EXCEPT !.state = "Prone", !.landing = [id |-> d.id, tick |-> t, bad |-> bad],
                            !.rows[d.id] = full]
        hurt   == IF bad THEN [prone EXCEPT !.health = Max({0, @ - BadDamage})] ELSE prone
        dead   == IF d.health > 0 /\ hurt.health = 0 THEN Died(hurt, t) ELSE hurt
    IN  [dead EXCEPT !.rows[d.id] = Finalized(dead, @)]

(* resolve_motion: contact is "none", "good" or "bad".                       *)
DiveMoved(d, contact) ==
    LET moved == [d EXCEPT !.moved = TRUE]
    IN  IF d.state = "SaddleDive" /\ contact # "none"
        THEN LandDive(moved, d.tick, contact = "bad") ELSE moved

ShotAttempted(d, t) ==
    IF d.tick = t /\ d.state = "SaddleDive" THEN [d EXCEPT !.rows[d.id].attempts = @ \cup {t}] ELSE d

(* record_accepted_shot of a dive shot; refused once the row is final.       *)
AcceptsShot(d, shot) ==
    LET row == d.rows[shot.dive]
    IN  /\ ~row.final /\ shot.tick >= row.launch /\ shot.weapon = row.weapon
        /\ row.landing = Unset \/ shot.tick <= row.landing
        /\ shot.tick \notin row.accepted

ShotAccepted(d, shot) ==
    IF shot.dive # 0 /\ AcceptsShot(d, shot)
    THEN [d EXCEPT !.rows[shot.dive].accepted = @ \cup {shot.tick}] ELSE d

(* record_authority_result                                                   *)
ShotResolved(d, shot, hit) ==
    LET row  == d.rows[shot.dive]
        next == [row EXCEPT !.resolved = @ \cup {shot.tick},
                            !.hits = IF hit THEN @ \cup {shot.tick} ELSE @]
    IN  IF shot.dive = 0 \/ row.final \/ shot.tick \notin row.accepted \/ shot.tick \in row.resolved
        THEN d ELSE [d EXCEPT !.rows[shot.dive] = Finalized(d, next)]

(* censor_open_rows, alone for end_match and as part of reset.               *)
Censored(d, reason) ==
    OpenRowsChanged(d, LAMBDA row : TRUE, LAMBDA row : [row EXCEPT !.reason = reason])

DiveReset(d, t) ==
    [Censored(d, "Reset") EXCEPT
        !.state = "Mounted", !.tick = Max({@, t}), !.moved = TRUE, !.id = 0,
        !.landing = NoLanding, !.grounded = TRUE, !.held = FALSE, !.health = Health]
-----------------------------------------------------------------------------
(* HorseRunoutKernel                                                         *)

NewRunout == [state |-> "PlayerControlled", launch |-> Unset, clock |-> Unset, travel |-> 0]
RunoutStarted(t) == [state |-> "Runout", launch |-> t, clock |-> Unset, travel |-> 0]
StoppedForDismount == [NewRunout EXCEPT !.state = "Idle"]
RunoutRemounted(h) == [NewRunout EXCEPT !.travel = h.travel]

RunoutBegun(h, t) ==
    [h EXCEPT !.clock = t,
              !.state = IF @ = "Runout" /\ (t >= h.launch + RunoutTicks \/ h.travel >= MaxTravel)
                        THEN "Idle" ELSE @]

(* The largest step of a tick: linear deceleration, rounded up, and never    *)
(* beyond what is left of the travel.                                        *)
MaximumStep(h) ==
    LET left == RunoutTicks - (h.clock - h.launch)
    IN  IF h.state # "Runout" THEN 0
        ELSE Min({(RunoutStep * left + RunoutTicks - 1) \div RunoutTicks, MaxTravel - h.travel})

RunoutMoved(h, step) ==
    IF h.state # "Runout" THEN h
    ELSE [h EXCEPT !.travel = @ + step,
                   !.state = IF h.travel + step >= MaxTravel THEN "Idle" ELSE @]
=============================================================================
