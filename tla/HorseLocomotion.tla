--------------------------- MODULE HorseLocomotion ---------------------------
(***************************************************************************)
(* The mounted horse: HorseKernel (spurfire-gdext/src/locomotion.rs) and   *)
(* the adapter that steps it once per physics tick and feeds back what the *)
(* engine's collision resolution left of the requested motion              *)
(* (spurfire-gdext/src/horse_controller.rs).                               *)
(*                                                                         *)
(* Speeds are small integers along and across the heading, times are       *)
(* counted in ticks, terrain and slope act as percentages.  Where the      *)
(* horse is, which way it looks and the size of its turn are left out: the *)
(* turn is kept as the sign and strength of the yaw rate.  The engine      *)
(* (move_and_slide, is_on_floor) is external: it may take speed away, push *)
(* the horse sideways and take or give the floor, except that a rising     *)
(* horse leaves it.  The adapter never reports a power turn or a stagger.  *)
(* The run-out of a riderless horse is in SaddleDive.                      *)
(***************************************************************************)
EXTENDS Integers

CONSTANTS
    Row,            \* archetype -> its design row, in model units
    Input,          \* the sampled inputs considered
    Ground,         \* the terrain observations considered
    Buff,           \* buff -> speed percentage
    Coyote, Buffer, Recovery, ReverseHold, DownshiftDelay, TapWindow,  \* ticks
    SidestepLimit,  \* forward speed from which a sidestep is refused
    SlideSpeed,     \* speed of a steep slide
    DownhillBonus,  \* percent gained downhill
    UphillPercent,  \* percent kept uphill
    MaxTicks, MaxChanges  \* bounds on ticks, and on calls between them

VARIABLES
    horse,    \* the state of HorseKernel
    setup,    \* archetype, charge and buffs installed in the kernel
    body,     \* velocity and floor contact of the engine's character body
    control,  \* input gate and double-tap memory of the adapter
    seen      \* history: floor contact, presses and what the last tick did

vars == <<horse, setup, body, control, seen>>

Idle == 0  Walk == 1  Trot == 2  Gallop == 3
TapNever == TapWindow + 1

Lesser(a, b) == IF a < b THEN a ELSE b
Greater(a, b) == IF a > b THEN a ELSE b
Size(x) == IF x < 0 THEN -x ELSE x
Within(x, low, high) == Lesser(Greater(x, low), high)
MoveTowards(x, target, most) == Within(target, x - most, x + most)
Ticked(timer) == Greater(timer - 1, 0)

FreshState ==
    [gait |-> Idle, forward |-> 0, lateral |-> 0, rise |-> 0, turn |-> 0,
     footing |-> 100, grounded |-> TRUE, coyote |-> Coyote, buffer |-> 0, recovery |-> 0,
     slow |-> 0, hold |-> 0]

Unused == [floor |-> 0, press |-> Buffer, settled |-> Recovery, jumped |-> FALSE,
           stepped |-> FALSE, ceiling |-> 0, ticks |-> 0, changes |-> 0]

Init ==
    /\ horse = FreshState
    /\ setup = [row |-> "Mustang", charge |-> FALSE, buffs |-> {}]
    /\ body = [forward |-> 0, lateral |-> 0, rise |-> 0, floor |-> TRUE]
    /\ control = [enabled |-> TRUE, tap |-> TapNever, doubled |-> FALSE]
    /\ seen = Unused

Stats(s) == Row[s.row]

\* m5_speed_multiplier, applied to a speed.
Buffed(s, speed) ==
    LET Of(b) == IF b \in s.buffs THEN Buff[b] ELSE 100
    IN  (speed * Of("respawn") * Of("station")) \div 10000

TargetSpeed(s, gait) ==
    CASE gait = Idle -> 0
      [] gait = Walk -> Stats(s).walk
      [] gait = Trot -> Stats(s).trot
      [] gait = Gallop -> Stats(s).gallop

-----------------------------------------------------------------------------
\* What the engine's motion does to the kernel, and the caps of a row.

ForwardCap(s) == Buffed(s, IF s.charge THEN Stats(s).sprint ELSE Stats(s).gallop)

Clamped(s, h) ==
    [h EXCEPT !.forward = Within(@, -Stats(s).reverse, ForwardCap(s)),
              !.lateral = Within(@, -Stats(s).sidestep, Stats(s).sidestep)]

ResolveMotion(s, h, b) ==
    [h EXCEPT !.forward = b.forward,
              !.lateral = Within(b.lateral, -Stats(s).sidestep, Stats(s).sidestep),
              !.rise = b.rise,
              !.recovery = IF ~h.grounded /\ b.floor THEN Recovery ELSE @,
              !.grounded = b.floor]

\* The clamp of the kernel alone is undone by the next resolve_motion: the
\* adapter also hands the clamped velocity to the body.
Moved(h, b) == [b EXCEPT !.forward = h.forward, !.lateral = h.lateral]

-----------------------------------------------------------------------------
\* The parts of HorseKernel::step, in its order.

Commanded(h, in) ==
    CASE in.gait = "up" -> Lesser(h.gait + 1, Gallop)
      [] in.gait = "down" -> Greater(h.gait - 1, Idle)
      [] in.gait = "none" /\ h.gait = Idle /\ in.throttle > 0 -> Walk
      [] OTHER -> h.gait

Jumps(h, floor) == (floor \/ h.coyote > 0) /\ h.buffer > 0

\* Fault: a jump leaves the coyote time running.
JumpedKeepingCoyote(h) ==
    [h EXCEPT !.rise = 1, !.grounded = FALSE, !.buffer = 0, !.recovery = 0]

Jumped(h) ==
    [h EXCEPT !.rise = 1, !.grounded = FALSE, !.coyote = 0, !.buffer = 0, !.recovery = 0]

Contact(h, in, floor) ==
    [h EXCEPT !.grounded = floor,
              !.recovery = Ticked(@),
              !.coyote = IF floor THEN Coyote ELSE Ticked(@),
              !.buffer = IF in.jump THEN Buffer ELSE @]

IntegrateVertical(h, in, floor) ==
    LET contact == Contact(h, in, floor)
    IN  IF Jumps(contact, floor)
        THEN Jumped(contact)
        ELSE [contact EXCEPT !.buffer = Ticked(@),
                             !.rise = IF floor THEN Greater(@, 0) ELSE Greater(@ - 1, -1)]

SidestepBlockReason(h, in, ground) ==
    CASE in.steer = 0 -> "None"
      [] in.steer # 0 /\ in.throttle > 0 -> "ForwardInput"
      [] OTHER ->
            IF h.gait # Idle \/ Size(h.forward) >= SidestepLimit THEN "ForwardMotion"
            ELSE IF ~h.grounded THEN "Airborne"
            ELSE IF h.recovery > 0 THEN "LandingRecovery"
            ELSE IF in.hard THEN "PowerTurn"
            ELSE IF ground.steep \/ ground.camber THEN "OffCamber"
            ELSE "None"

\* A sidestep stops the turn; an idle horse turns only off-camber.
IntegrateSteering(h, in, reason, sidestep) ==
    LET target == IF h.gait # Idle THEN -in.steer * (IF h.grounded THEN 2 ELSE 1)
                  ELSE IF reason = "OffCamber" THEN -in.steer ELSE 0
    IN  IF sidestep \/ h.lateral # 0
        THEN [h EXCEPT !.turn = 0]
        ELSE [h EXCEPT !.turn = MoveTowards(@, target, 1)]

\* Bad ground is felt at once and shaken off over time.
Footing(s, h, ground) ==
    IF s.charge THEN 100
    ELSE IF ground.percent < h.footing THEN ground.percent
    ELSE MoveTowards(h.footing, ground.percent, 25)

Slope(ground) == CASE ground.slope = "up" -> UphillPercent
                   [] ground.slope = "down" -> 100 + DownhillBonus
                   [] ground.slope = "level" -> 100

GaitCap(s, h, ground) ==
    Buffed(s, IF s.charge THEN Stats(s).sprint
              ELSE (TargetSpeed(s, h.gait) * Footing(s, h, ground) * Slope(ground)) \div 10000)

Settling(h, sidestep) == ~sidestep /\ h.lateral # 0

\* The speed the horse makes for, how fast, and the reverse hold that remains.
Longitudinal(s, h, in, ground, sidestep) ==
    LET Make(target, rate, hold) == [target |-> target, rate |-> rate, hold |-> hold]
        stats == Stats(s)
        accel == stats.accel * (IF s.charge THEN 2 ELSE 1)
        back == Make(-stats.reverse, stats.accel, h.hold)
    IN  CASE in.hard /\ s.charge /\ in.steer # 0 -> Make(h.forward, 0, 0)
          [] in.hard /\ ~(s.charge /\ in.steer # 0) -> Make(0, stats.hardBrake, 0)
          [] ~in.hard /\ (sidestep \/ (in.throttle > 0 /\ Settling(h, sidestep))) ->
                Make(0, stats.brake, 0)
          [] OTHER ->
                IF in.brake > 0
                THEN IF h.forward > 0 THEN Make(0, stats.brake, 0)
                     ELSE IF h.forward < 0 THEN back
                     ELSE IF h.hold + 1 >= ReverseHold
                     THEN [back EXCEPT !.hold = Lesser(h.hold + 1, ReverseHold)]
                     ELSE Make(0, stats.brake, h.hold + 1)
                ELSE IF in.throttle > 0
                THEN Make(GaitCap(s, h, ground), accel, 0)
                ELSE Make(0, stats.coast, 0)

\* A steep slide takes the horse downhill, whatever the rider does; the
\* reverse hold is left as it was.
SteepSlide(h, ground) ==
    [h EXCEPT !.forward = MoveTowards(@, ground.downhill * SlideSpeed, SlideSpeed),
              !.lateral = 0,
              !.rise = Lesser(@, 0)]

IntegrateHorizontal(s, h, in, ground, sidestep) ==
    IF ground.steep THEN SteepSlide(h, ground)
    ELSE LET long == Longitudinal(s, h, in, ground, sidestep)
             cap == Stats(s).sidestep
         IN  [h EXCEPT !.forward = MoveTowards(@, long.target, long.rate),
                       !.hold = IF in.brake = 0 \/ sidestep THEN 0 ELSE long.hold,
                       !.lateral = MoveTowards(@, IF sidestep THEN in.steer * cap ELSE 0, 1),
                       !.footing = Footing(s, h, ground)]

Decaying(in) == in.throttle = 0 \/ in.brake > 0 \/ in.hard

Upshifts(s, h, in) ==
    /\ ~Decaying(in)
    /\ h.gait \in {Walk, Trot}
    /\ 100 * Size(h.forward) >= 85 * TargetSpeed(s, h.gait)

\* apply_auto_upshift, else apply_auto_downshift; a commanded gait waits.
Shifted(s, h, in, commanded) ==
    IF commanded THEN [h EXCEPT !.slow = 0]
    ELSE IF Upshifts(s, h, in) THEN [h EXCEPT !.gait = @ + 1]
    ELSE IF h.gait = Idle \/ ~Decaying(in) \/ Size(h.forward) >= Stats(s).floor[h.gait]
    THEN [h EXCEPT !.slow = 0]
    ELSE IF h.slow + 1 >= DownshiftDelay
    THEN [h EXCEPT !.gait = @ - 1, !.slow = 0]
    ELSE [h EXCEPT !.slow = @ + 1]

\* HorseKernel::step without a reset: what it leaves and what it did.
Step(s, h, in, ground, floor) ==
    LET geared == [h EXCEPT !.gait = Commanded(h, in)]
        vertical == IntegrateVertical(geared, in, floor)
        reason == SidestepBlockReason(vertical, in, ground)
        sidestep == in.steer # 0 /\ reason = "None"
        steered == IntegrateSteering(vertical, in, reason, sidestep)
        moving == IntegrateHorizontal(s, steered, in, ground, sidestep)
    IN  [state |-> Shifted(s, moving, in, geared.gait # h.gait),
         jumped |-> Jumps(Contact(geared, in, floor), floor),
         stepped |-> Size(moving.lateral) > Size(h.lateral),
         cap |-> Greater(GaitCap(s, steered, ground), SlideSpeed)]

-----------------------------------------------------------------------------
\* The adapter.

NoInput == [throttle |-> 0, back |-> "up", steer |-> 0, hard |-> FALSE, gait |-> "none",
            jump |-> FALSE, reset |-> FALSE]

\* sample_input: a second tap of back within the window brakes hard until it
\* is released and shifts down.
Doubles(in) == in.back = "press" /\ Lesser(control.tap + 1, TapNever) <= TapWindow

Tapped(in) ==
    [control EXCEPT
        !.tap = IF in.back = "press" THEN 0 ELSE Lesser(@ + 1, TapNever),
        !.doubled = in.back # "up" /\ (@ \/ Doubles(in))]

Untapped == [control EXCEPT !.tap = TapNever, !.doubled = FALSE]

Sampled(in) ==
    [throttle |-> in.throttle, brake |-> IF in.back = "up" THEN 0 ELSE 1, steer |-> in.steer,
     hard |-> in.hard \/ Tapped(in).doubled,
     gait |-> CASE in.gait = "up" /\ Doubles(in) -> "both"
                [] in.gait # "up" /\ Doubles(in) -> "down"
                [] OTHER -> in.gait,
     jump |-> in.jump, reset |-> in.reset]

\* reset, and apply_kernel_transform: the body stands still at the spawn, its
\* floor contact is the old one until it moves.
Reset ==
    /\ horse' = FreshState
    /\ body' = [body EXCEPT !.forward = 0, !.lateral = 0, !.rise = 0]
    /\ control' = Untapped
    /\ seen' = [Unused EXCEPT !.ceiling = seen.ceiling, !.ticks = seen.ticks + 1,
                              !.changes = seen.changes]
    /\ UNCHANGED setup

\* move_and_slide: what the engine may leave of the requested motion.
Resolved(h) ==
    {b \in [forward : {h.forward, 0}, lateral : {h.lateral, 1},
            rise : {IF h.rise < 0 THEN 0 ELSE h.rise, h.rise}, floor : BOOLEAN] :
        /\ b.lateral # h.lateral => b.forward # h.forward
        /\ h.rise > 0 => ~b.floor
        /\ h.rise < 0 => b.rise = (IF b.floor THEN 0 ELSE h.rise)}

\* The history of a tick: ages of the last unused floor contact and press.
Watched(in, out) ==
    LET Aged(age, now, most) == IF now THEN 0
                                ELSE IF seen.jumped THEN most ELSE Lesser(age + 1, most)
    IN  [floor |-> Aged(seen.floor, body.floor, Coyote),
         press |-> Aged(seen.press, in.jump, Buffer),
         settled |-> IF body.floor THEN Lesser(seen.settled + 1, Recovery) ELSE 0,
         jumped |-> out.jumped, stepped |-> out.stepped,
         ceiling |-> Greater(seen.ceiling, out.cap),
         ticks |-> seen.ticks + 1, changes |-> seen.changes]

\* simulate_player_control: the kernel takes the engine's motion, steps, asks
\* for its new motion and takes what the engine leaves of it.  sync_tuning
\* clamps first, and resolve_motion overwrites the clamp.
Tick(in, ground) ==
    /\ ~in.reset
    /\ \E sample \in {Sampled(in)},
          met \in {ResolveMotion(setup, Clamped(setup, horse), body)} :
          \E out \in {Step(setup, met, sample, ground, body.floor)} :
             /\ \E b \in Resolved(out.state) :
                   /\ body' = b
                   /\ horse' = ResolveMotion(setup, out.state, b)
             /\ seen' = Watched(sample, out)
    /\ control' = IF control.enabled THEN Tapped(in) ELSE Untapped
    /\ UNCHANGED setup

SimulatePlayerControl ==
    \E in \in IF control.enabled THEN Input ELSE {NoInput} :
        \/ in.reset /\ Reset
        \/ \E ground \in Ground : Tick(in, ground)

\* A tick longer than maximum_dt: the step is refused after the kernel has
\* taken the engine's motion and the input was sampled.
RefusedTick ==
    \E in \in IF control.enabled THEN Input ELSE {NoInput} :
        /\ horse' = ResolveMotion(setup, Clamped(setup, horse), body)
        /\ control' = IF control.enabled THEN Tapped(in) ELSE Untapped
        /\ seen' = [seen EXCEPT !.ticks = @ + 1]
        /\ UNCHANGED <<setup, body>>

\* The body falls below the kill plane: the next step resets.
FallOut == ~body.floor /\ Reset

\* respawn_at, reset_horse.
RespawnAt == Reset

Changed == [seen EXCEPT !.changes = @ + 1]

SetArchetype(a) ==
    LET changed == [setup EXCEPT !.row = a]
        clamped == Clamped(changed, horse)
    IN  /\ a # setup.row
        /\ setup' = changed
        /\ horse' = clamped
        /\ body' = Moved(clamped, body)
        /\ seen' = [Changed EXCEPT !.ceiling = Greater(ForwardCap(changed), SlideSpeed)]
        /\ UNCHANGED control

SetMajesticChargeActive(active) ==
    /\ setup' = [setup EXCEPT !.charge = active]
    /\ horse' = [horse EXCEPT !.footing = IF active THEN 100 ELSE @]
    /\ seen' = Changed
    /\ UNCHANGED <<body, control>>

SetBuffActive(b, active) ==
    /\ setup' = [setup EXCEPT !.buffs = IF active THEN @ \union {b} ELSE @ \ {b}]
    /\ seen' = Changed
    /\ UNCHANGED <<horse, body, control>>

\* set_match_input_enabled, set_presentation_input_enabled: a dead rider's
\* horse is stopped where it stands; a closed gate forgets the taps.
SetInputEnabled(enabled) ==
    /\ control' = [Untapped EXCEPT !.enabled = enabled]
    /\ IF enabled
       THEN UNCHANGED <<horse, body>>
       ELSE LET stopped == [body EXCEPT !.forward = 0, !.lateral = 0, !.rise = 0]
            IN  body' = stopped /\ horse' = ResolveMotion(setup, horse, stopped)
    /\ seen' = Changed
    /\ UNCHANGED setup

Next ==
    \/ /\ seen.ticks < MaxTicks
       /\ \/ SimulatePlayerControl
          \/ RefusedTick
          \/ FallOut
          \/ RespawnAt
    \/ /\ seen.changes < MaxChanges
       /\ \/ \E a \in DOMAIN Row : SetArchetype(a)
          \/ \E active \in BOOLEAN : SetMajesticChargeActive(active)
          \/ \E b \in DOMAIN Buff, active \in BOOLEAN : SetBuffActive(b, active)
          \/ \E enabled \in BOOLEAN : SetInputEnabled(enabled)

Spec == Init /\ [][Next]_vars

-----------------------------------------------------------------------------
\* Properties.

\* Every jump is earned: it answers a press of its own no older than the
\* buffer and leaves a floor contact (or a respawn) of its own no older than
\* the coyote time, however presses, bumps and respawns interleave; and a
\* sidestep starts only when the horse has stood on the floor for the landing
\* recovery.
JumpsAreEarned ==
    /\ seen.jumped => seen.floor < Coyote /\ seen.press < Buffer
    /\ seen.stepped => seen.settled >= Recovery

\* No diagonal launch: while the sideways speed of a sidestep or a collision
\* settles, the horse gains no forward speed except by sliding downhill,
\* whatever the rider presses and whether or not a charge or a buff is on.
NoDiagonalLaunch == body.lateral # 0 => body'.forward <= Greater(body.forward, SlideSpeed)

\* A change of archetype takes the speed down to the new row for good: the
\* horse is never faster than some cap that was in force since then, although
\* the caps of charge, buffs and slopes come and go and the kernel is
\* overwritten by the engine's motion every tick.
SpeedIsEarned == body.forward <= seen.ceiling /\ horse.forward <= seen.ceiling
=============================================================================
