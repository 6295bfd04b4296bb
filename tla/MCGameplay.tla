----------------------------- MODULE MCGameplay -----------------------------
(* The gameplay kernels on small instances: one behaviour runs one component *)
(* and leaves the others at their initial states.  The tick constants are    *)
(* scaled down so that every phase keeps an inside and both its ends.        *)
EXTENDS Integers, Sequences, FiniteSets

VARIABLES
    component,                                             \* which one runs
    adapter, actor, epoch, events, failed,                 \* ActorGameplay
    solo, scored,                                          \* BountyMatch
    actors, shooters, riders, horses, clocks, sequence,    \* M3Match
    bounty, stances, history, reign, shots,
    dive, runout, rifle, riding, footing, ledger, clock,   \* SaddleDive
    phase, incidents

Idle == [sprint |-> FALSE, crouch |-> FALSE]
Roll == [sprint |-> TRUE, crouch |-> TRUE]

Actor == INSTANCE ActorGameplay WITH
    MaxHealth <- 2, TickRate <- 2, RegenRate <- 1, RegenDelay <- 1, BoltTicks <- 2,
    StunTicks <- 1, StaminaTicks <- 1, StaminaRegen <- 2, RollTicks <- 1, RollCooldown <- 2,
    BufferTicks <- 1, BaseRecall <- 3, MinRecall <- 2, DamageUnit <- 2, HoofTicks <- 1,
    DustTicks <- 1, GallopTicks <- 2, WindowTicks <- 1, SpurMax <- 8, StyleCap <- 6,
    ChargeTicks <- 2, MaxTick <- 8, MaxEpoch <- 2, MaxEvents <- 2, TickSteps <- {1},
    DamageSeqs <- {1}, Damages <- {1, 2}, Credits <- {1, -1},
    FootKeys <- [controller |-> {Idle, Roll}, lobby |-> {Idle}]

Bounty == INSTANCE BountyMatch WITH
    bounty <- solo,
    Duration <- 3, RespawnDelay <- 1, SpeedBuff <- 2, RevealCadence <- 2, RevealTicks <- 1,
    ObjectiveCadence <- 1, ObjectiveTicks <- 1, AssistWindow <- 2, AssistDamage <- 30,
    LongHitCap <- 10, HorseBuff <- 3, SignalInterval <- 1, MaxScore <- 1000,
    Roster <- {1, 2, 3}, Seeds <- {2}, MatchTicks <- 4, MatchSteps <- {1, 2}, MatchEvents <- 3

NoKeys == [reload |-> FALSE, spur |-> FALSE, mount |-> "none", stale |-> FALSE, rider |-> "Mounted"]
ShooterKeys ==
    {NoKeys, [NoKeys EXCEPT !.reload = TRUE, !.mount = "running", !.stale = TRUE],
     [NoKeys EXCEPT !.spur = TRUE, !.mount = "running", !.rider = "OnFoot"]}

Match == INSTANCE M3Match WITH
    epoch <- reign,
    MaxHealth <- 2, TickRate <- 2, RegenRate <- 1, RegenDelay <- 2, BoltTicks <- 1,
    StunTicks <- 1, StaminaTicks <- 1, StaminaRegen <- 2, RollTicks <- 1, RollCooldown <- 2,
    BufferTicks <- 1, BaseRecall <- 1, MinRecall <- 1, DamageUnit <- 2, HoofTicks <- 1,
    DustTicks <- 1, GallopTicks <- 1, WindowTicks <- 1, SpurMax <- 8, StyleCap <- 4,
    ChargeTicks <- 2, Magazine <- 2, Reserve <- 2, ReloadTicks <- 2, Cadence <- 2,
    DiveCap <- 1, HistoryTicks <- 2, LagTicks <- 1, Duration <- 4, RespawnDelay <- 2,
    SpeedBuff <- 2, RevealCadence <- 9, RevealTicks <- 2, ObjectiveCadence <- 2,
    ObjectiveTicks <- 1, AssistWindow <- 2, AssistDamage <- 1, LongHitCap <- 10,
    HorseBuff <- 2, SignalInterval <- 1, MaxScore <- 1000, Roster <- {1, 2}, Seeds <- {2},
    RiderHealth <- 2, ShotDamage <- 2, Authority <- <<2, 1>>, Keys <- <<ShooterKeys, {NoKeys}>>,
    RowsKept <- 2, Ranges <- {TRUE}, LastFrame <- 4, MaxShots <- 2, MaxHandoffs <- 1

Dive == INSTANCE SaddleDive WITH
    Health <- 2, BadDamage <- 1, ProneTicks <- 1, RecoveryTicks <- 1, DeathWindow <- 1,
    RunoutTicks <- 2, RunoutStep <- 1, MaxTravel <- 2, Magazine <- 1, Reserve <- 1,
    ReloadTicks <- 2, Cadence <- 1, DiveCap <- 1, HistoryTicks <- 2, LagTicks <- 1,
    Loadout <- {"rifle"}, LastTick <- 4, MaxIncidents <- 1, Wounds <- {1},
    Buttons <- {[interact |-> i, grounded |-> g, fast |-> TRUE, near |-> TRUE, sprint |-> FALSE] :
                   i \in BOOLEAN, g \in BOOLEAN}

(* The same with fewer ticks, a horse that stays on the ground and more      *)
(* happening to its rider: several observations in one window.               *)
Hurt == INSTANCE SaddleDive WITH
    Health <- 2, BadDamage <- 1, ProneTicks <- 1, RecoveryTicks <- 1, DeathWindow <- 1,
    RunoutTicks <- 2, RunoutStep <- 0, MaxTravel <- 2, Magazine <- 1, Reserve <- 1,
    ReloadTicks <- 2, Cadence <- 1, DiveCap <- 1, HistoryTicks <- 2, LagTicks <- 1,
    Loadout <- {"rifle"}, LastTick <- 3, MaxIncidents <- 2, Wounds <- {1},
    Buttons <- {[interact |-> i, grounded |-> TRUE, fast |-> TRUE, near |-> TRUE, sprint |-> FALSE] :
                   i \in BOOLEAN}

actorVars == <<adapter, actor, epoch, events, failed>>
bountyVars == <<solo, scored>>
matchVars == <<actors, shooters, riders, horses, clocks, sequence, bounty, stances, history, reign, shots>>
diveVars == <<dive, runout, rifle, riding, footing, ledger, clock, phase, incidents>>
vars == <<component, actorVars, bountyVars, matchVars, diveVars>>
diving == component \in {"dive", "hurt"}

Init ==
    /\ component \in {"actor", "bounty", "match", "dive", "hurt"}
    /\ Actor!Init /\ (component # "actor" => adapter = "lobby")
    /\ Bounty!Init /\ Match!Init /\ Dive!Init

Next ==
    /\ UNCHANGED component
    /\ \/ component = "actor" /\ Actor!Next /\ UNCHANGED <<bountyVars, matchVars, diveVars>>
       \/ component = "bounty" /\ Bounty!Next /\ UNCHANGED <<actorVars, matchVars, diveVars>>
       \/ component = "match" /\ Match!Next /\ UNCHANGED <<actorVars, bountyVars, diveVars>>
       \/ component = "hurt" /\ Hurt!Next /\ UNCHANGED <<actorVars, bountyVars, matchVars>>
       \/ component = "dive" /\ Dive!Next /\ UNCHANGED <<actorVars, bountyVars, matchVars>>

Spec == Init /\ [][Next]_vars
-----------------------------------------------------------------------------
(* ActorGameplayKernel::advance_tick never fails half way through a fresh    *)
(* tick: no error leaves the horse advanced and the rider not.               *)
FreshTickSucceeds == component = "actor" => Actor!FreshTickSucceeds

(* What an authority hands over or publishes is accepted on the other side:  *)
(* an actor's own checkpoint restores once its fatal effects were delivered, *)
(* the checkpoint of a running Bounty Run match passes restore_checkpoint,   *)
(* only an undelivered horse-loss effect, a horse just shot down or a rider  *)
(* shown on foot beside its horse stops a running match from moving, and     *)
(* followers accept every keyframe, the last ones of a match included.       *)
CheckpointsRestore ==
    /\ component = "actor" => Actor!OwnCheckpointRestores
    /\ component = "bounty" => Bounty!ScoreboardMigrates /\ Bounty!KeyframesAreCanonical
    /\ component = "match" => Match!RunningMatchMigrates

(* Eliminations, deaths, assists and their points add up, and no dynamic     *)
(* objective is paid twice, whatever ticks are skipped (BountyMatchKernel).  *)
ScoresAddUp ==
    component = "bounty" => Bounty!ScoreboardAddsUp /\ Bounty!ObjectivesPayOnce

(* Kernels that keep the same fact agree on it: the actors, the rewind       *)
(* registry and the match on who is hurt and who is out; the horse, the      *)
(* rifle and the rider on who is in the saddle and in the air; a dive's      *)
(* shots are the rounds it spent, attempted in the air, under the cap.       *)
KernelsAgree ==
    /\ component = "match" => Match!HealthAgrees
    /\ diving => Dive!ControllersFollowRider /\ Dive!DiveShotsAgree

(* Rounds appear through a respawn or an ammo wagon only and leave one per   *)
(* accepted shot, and two shots of a rider are a cadence apart, across       *)
(* handoffs, respawns and commands for historical ticks (fire, reload).      *)
ShotsAreEarned ==
    [][component = "match" => Match!RoundsAreConserved /\ Match!CadenceIsKept]_vars

(* A lost horse is not recalled before its floor unless a full Spur meter    *)
(* pays for it, and comes back whole, no earlier than its return takes.      *)
HorsesComeBackInTime ==
    [][component = "actor" => Actor!RecallFloor /\ Actor!HorseComesBackWhole]_vars

(* The telemetry of a dive is true and then final: every observation in the  *)
(* window after its landing is counted, and counted once however often it is *)
(* delivered, death_within_3s is true of every landed death, a landed row    *)
(* that was finalized never changes again, and the riderless horse is idle   *)
(* by the end of its run-out.                                                *)
DivesAreTrue ==
    [][diving =>
          /\ Dive!WindowDamageCountedOnce' /\ Dive!DeathWindowIsTrue' /\ Dive!RunoutEnds'
          /\ Dive!LandedRowsAreFinal]_vars

(* The stance a rider publishes is the one its weapon holds as a frame begins,  *)
(* as long as nothing happens to the rider but its own play.                    *)
FrameContextAccepted == component = "dive" => Dive!FrameContextAccepted
=============================================================================
