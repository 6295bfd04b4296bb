---------------------------- MODULE ActorKernel ----------------------------
(* The deterministic kernels of one rider: horse vitality, on-foot         *)
(* movement, horse recall, the Spur meter and their composition (m3.rs,    *)
(* m4.rs).  Every kernel is a record and every method an operator from a   *)
(* record to the record it leaves behind.                                  *)
(*                                                                         *)
(* Ticks are naturals and an absent Option<tick> is NoTick, so that        *)
(* tick_is_not_after(a, b) is a <= b.  Identities (epoch, tick, sequence)  *)
(* are triples ordered lexicographically with NoId below all of them.      *)
(* Velocities, sway and positions are left out: a mount attempt carries    *)
(* whether the rider is in range, damage whether its source is straight    *)
(* behind the horse ("ahead", the default heading [0, 1]) or to a side.    *)
EXTENDS Integers, Sequences, FiniteSetsExt

CONSTANTS
    MaxHealth,        \* HorseVitalityClass::max_health
    TickRate,         \* M3_TICK_RATE_HZ
    RegenRate,        \* HORSE_REGEN_HEALTH_PER_SECOND
    RegenDelay,       \* HORSE_REGEN_DELAY_TICKS
    BoltTicks,        \* HORSE_BOLT_TICKS
    StunTicks,        \* SPOOK_STUN_TICKS
    StaminaTicks,     \* ON_FOOT_STAMINA_TICKS
    StaminaRegen,     \* ON_FOOT_STAMINA_REGEN_TICKS
    RollTicks,        \* TACTICAL_ROLL_TICKS
    RollCooldown,     \* TACTICAL_ROLL_COOLDOWN_TICKS
    BufferTicks,      \* ON_FOOT_INPUT_BUFFER_TICKS
    BaseRecall,       \* BASE_RECALL_TICKS
    MinRecall,        \* MIN_RECALL_TICKS
    DamageUnit,       \* damage that earns one second of recall (25)
    HoofTicks,        \* HOOFBEAT_TICKS
    DustTicks,        \* DUST_REVEAL_TICKS
    GallopTicks,      \* GALLOP_IN_TICKS
    WindowTicks,      \* RUNNING_MOUNT_WINDOW_TICKS
    SpurMax,          \* SPUR_METER_MAX
    StyleCap,         \* MOVEMENT_STYLE_SPUR_CAP
    ChargeTicks       \* MAJESTIC_CHARGE_TICKS

NoTick == -1
NoId == <<0, NoTick, 0>>

(* The derived ordering of HorseDamageId, RecallCreditId and SpurCreditId. *)
IdLess(x, y) ==
    \/ x[1] < y[1]
    \/ x[1] = y[1] /\ x[2] < y[2]
    \/ x[1] = y[1] /\ x[2] = y[2] /\ x[3] < y[3]

-----------------------------------------------------------------------------
(* HorseVitalityKernel.  last_damage_tick is the tick of lastId.           *)

NewHorse ==
    [health |-> MaxHealth, state |-> "Available", boltStart |-> NoTick,
     away |-> "ahead", lastId |-> NoId, tick |-> NoTick, regen |-> 0]

HorseAccepts(h, id) ==
    /\ h.state = "Available"
    /\ IdLess(h.lastId, id)
    /\ h.tick \in {NoTick, id[2]}

HorseDamaged(h, id, amount, away) ==
    LET left == IF amount >= h.health THEN 0 ELSE h.health - amount
        hit  == [h EXCEPT !.lastId = id, !.health = left, !.regen = 0]
    IN  IF h.health > 0 /\ left = 0
        THEN [hit EXCEPT !.state = "Bolting", !.boltStart = id[2], !.away = away]
        ELSE hit

HorseRegenerated(h, t) ==
    LET boundary == h.lastId[2] + RegenDelay
        start    == IF h.tick = NoTick THEN boundary
                    ELSE Max({h.tick + 1, boundary})
        units    == h.regen + (t - start + 1) * RegenRate
        health   == Min({MaxHealth, h.health + units \div TickRate})
    IN  IF h.state = "Available" /\ h.health < MaxHealth
           /\ h.lastId # NoId /\ t >= start
        THEN [h EXCEPT !.health = health,
                       !.regen = IF health = MaxHealth THEN 0 ELSE units % TickRate]
        ELSE h

HorseDespawns(h, t) == h.state = "Bolting" /\ t - h.boltStart >= BoltTicks

HorseAdvanced(h, t) ==
    [HorseRegenerated(h, t) EXCEPT
        !.tick = t, !.state = IF HorseDespawns(h, t) THEN "Despawned" ELSE @]

HorseRestored(h) ==
    [h EXCEPT !.health = MaxHealth, !.state = "Available", !.boltStart = NoTick,
              !.away = "ahead", !.regen = 0]

HorseValid(h) ==
    /\ h.health <= MaxHealth /\ h.regen < TickRate
    /\ h.lastId[2] <= h.tick /\ h.boltStart <= h.tick
    /\ h.health = MaxHealth => h.regen = 0
    /\ CASE h.state = "Available" -> h.health > 0 /\ h.boltStart = NoTick
         [] h.state = "Bolting" ->
              /\ h.health = 0 /\ h.boltStart # NoTick
              /\ h.tick - h.boltStart < BoltTicks
         [] h.state = "Despawned" ->
              /\ h.health = 0 /\ h.boltStart # NoTick
              /\ h.tick - h.boltStart >= BoltTicks

-----------------------------------------------------------------------------
(* OnFootKernel.  An input says whether sprint and crouch are held and      *)
(* whether a usable direction is given.                                     *)

StaminaFull == StaminaTicks * StaminaRegen

NewFoot ==
    [tick |-> NoTick, state |-> "Standing", stamina |-> StaminaFull,
     crouch |-> FALSE, buffer |-> NoTick, rollStart |-> NoTick,
     cooldown |-> 0, rollExit |-> NoTick, stunUntil |-> NoTick]

SpookRefused(f, t) == f.tick >= t \/ f.state = "SpookStunned"

SpookStunned(f, t) ==
    [f EXCEPT !.state = "SpookStunned", !.stunUntil = t + StunTicks,
              !.buffer = NoTick, !.rollStart = NoTick]

(* Standing, sprinting, crouching or rolling, once a stun or a roll ended.  *)
FootChoice(f, in) ==
    LET sprint == in.sprint /\ in.dir /\ f.stamina \div StaminaRegen > 0
    IN  CASE f.state = "Rolling" -> f
          [] f.state # "Rolling" /\ sprint /\ f.buffer >= in.tick
                /\ in.tick >= f.cooldown ->
                [f EXCEPT !.state = "Rolling", !.rollStart = in.tick,
                          !.cooldown = in.tick + RollCooldown, !.buffer = NoTick]
          [] OTHER ->
                [f EXCEPT !.state = IF in.crouch THEN "Crouched"
                                    ELSE IF sprint THEN "Sprinting" ELSE "Standing"]

FootStamina(f) ==
    [f EXCEPT !.stamina =
        IF f.state = "Sprinting" THEN Max({0, @ - StaminaRegen})
        ELSE Min({StaminaFull, @ + StaminaTicks})]

FootAdvanced(f, in) ==
    LET edge    == in.crouch /\ ~f.crouch
        seen    == [f EXCEPT !.tick = in.tick, !.crouch = in.crouch]
        stunned == f.state = "SpookStunned" /\ in.tick < f.stunUntil
        awake   == IF f.state = "SpookStunned"
                   THEN [seen EXCEPT !.state = "Standing", !.stunUntil = NoTick]
                   ELSE seen
        aimed   == IF edge THEN [awake EXCEPT !.buffer = in.tick + BufferTicks] ELSE awake
        ended   == IF aimed.state = "Rolling" /\ in.tick - aimed.rollStart >= RollTicks
                   THEN [aimed EXCEPT !.state = "Standing", !.rollStart = NoTick,
                                      !.rollExit = aimed.rollStart + RollTicks]
                   ELSE aimed
    IN  IF stunned THEN seen ELSE FootStamina(FootChoice(ended, in))

FootCanFire(f) == f.state \notin {"SpookStunned", "Rolling"}

FootValid(f) ==
    /\ f.stamina <= StaminaFull
    /\ CASE f.state = "SpookStunned" ->
              f.rollStart = NoTick /\ f.stunUntil # NoTick /\ f.tick < f.stunUntil
         [] f.state = "Rolling" ->
              /\ f.stunUntil = NoTick /\ f.rollStart # NoTick
              /\ f.tick # NoTick =>
                    f.rollStart <= f.tick /\ f.tick - f.rollStart < RollTicks
         [] OTHER -> f.stunUntil = NoTick /\ f.rollStart = NoTick
    /\ f.rollExit <= f.tick

-----------------------------------------------------------------------------
(* RecallKernel.  The telemetry row is [lost, remount], NoRow when absent.  *)

NoRow == [lost |-> NoTick, remount |-> NoTick]

NewRecall ==
    [state |-> "HorsePresent", tick |-> NoTick, lossTick |-> NoTick,
     lostTick |-> NoTick, enter |-> NoTick, earned |-> 0, remainder |-> 0,
     credit |-> NoId, row |-> NoRow]

LoseRefused(r, despawn, loss) == r.state # "HorsePresent" \/ loss > despawn

HorseLost(r, despawn, loss) ==
    [NewRecall EXCEPT
        !.state = "CoolingDown", !.tick = despawn, !.lossTick = loss,
        !.lostTick = despawn, !.enter = despawn,
        !.row = [lost |-> loss, remount |-> NoTick]]

RecallCreditAccepted(r, id) ==
    /\ r.state \in {"CoolingDown", "Ready"}
    /\ IdLess(r.credit, id)
    /\ r.lostTick # NoTick /\ r.lostTick <= id[2] /\ id[2] <= r.tick

(* damage is the damage dealt, or Objective for an objective tick.          *)
Objective == -1

RecallCredited(r, id, damage) ==
    LET total   == r.remainder + damage
        seconds == IF damage = Objective THEN 2 ELSE total \div DamageUnit
    IN  [r EXCEPT !.credit = id,
                  !.remainder = IF damage = Objective THEN @ ELSE total % DamageUnit,
                  !.earned = Min({BaseRecall - MinRecall, @ + seconds * TickRate})]

(* Fault: the cooldown is counted from the loss, not from the end of the bolt. *)
ReadyTickFromLoss(r) == r.lossTick + Max({MinRecall, BaseRecall - r.earned})

ReadyTick(r) == r.lostTick + Max({MinRecall, BaseRecall - r.earned})

(* The return phases in order, each with the ticks it lasts.                *)
ReturnPhases ==
    <<[state |-> "Hoofbeats", ticks |-> HoofTicks],
      [state |-> "DustReveal", ticks |-> DustTicks],
      [state |-> "GallopIn", ticks |-> GallopTicks - WindowTicks],
      [state |-> "MountWindow", ticks |-> WindowTicks],
      [state |-> "WaitingMount", ticks |-> 0]>>

(* The while loop of advance_tick: the phase i the recall is in moves to the *)
(* last phase j whose boundary, the end of phases i .. j-1, is not after t.  *)
PhaseAt(r, t) ==
    LET i      == CHOOSE k \in 1..5 : ReturnPhases[k].state = r.state
        end[k \in i..5] == IF k = i THEN r.enter
                           ELSE end[k - 1] + ReturnPhases[k - 1].ticks
        j      == Max({k \in i..5 : k = i \/ t >= end[k]})
    IN  [r EXCEPT !.state = ReturnPhases[j].state, !.enter = end[j]]

RecallAdvanced(r, t) ==
    LET now == [r EXCEPT !.tick = t]
    IN  CASE r.state = "CoolingDown" /\ t >= ReadyTick(r) ->
               [now EXCEPT !.state = "Ready", !.enter = ReadyTick(r)]
          [] r.state \in {ReturnPhases[k].state : k \in 1..5} -> PhaseAt(now, t)
          [] OTHER -> now

(* request_recall from Ready, request_recall_instant from either state.     *)
RecallRequested(r, t) == [r EXCEPT !.state = "Hoofbeats", !.enter = t]

CanMount(r, t, near, moving) ==
    /\ r.tick = t /\ near /\ r.row # NoRow
    /\ \/ r.state = "MountWindow" /\ moving
       \/ r.state = "WaitingMount" /\ ~moving

Mounted(r, t) ==
    [r EXCEPT !.row.remount = t, !.state = "HorsePresent", !.enter = t]

RecallValid(r) ==
    /\ r.earned <= BaseRecall - MinRecall /\ r.remainder < DamageUnit
    /\ r.credit # NoId =>
          r.lostTick # NoTick /\ r.lostTick <= r.credit[2] /\ r.credit[2] <= r.tick
    /\ IF r.state = "HorsePresent"
       THEN IF r.row = NoRow
            THEN [r EXCEPT !.tick = NoTick] = NewRecall
            ELSE /\ r.row.lost = r.lossTick /\ r.lostTick # NoTick
                 /\ r.enter = r.row.remount /\ r.lostTick <= r.row.remount
       ELSE /\ NoTick \notin {r.lossTick, r.lostTick, r.enter}
            /\ r.lossTick <= r.lostTick /\ r.lostTick <= r.enter /\ r.enter <= r.tick
            /\ r.row = [lost |-> r.lossTick, remount |-> NoTick]

-----------------------------------------------------------------------------
(* SpurKernel (m4.rs).  A credit kind is its evidence; kinds without points *)
(* (a landing with a collision, a friendly near miss) are refused.          *)

NewSpur ==
    [tick |-> NoTick, meter |-> 0, style |-> 0, lastId |-> NoId, next |-> 1,
     held |-> FALSE, start |-> NoTick, end |-> NoTick]

SpurPoints(kind) ==
    CASE kind = "Jump" -> 4 [] kind = "CleanLanding" -> 2 [] kind = "NearMiss" -> 3
      [] kind = "MountedHit" -> 2 [] kind = "MountedElimination" -> 6
      [] kind = "SaddleDiveElimination" -> 8

IsStyle(kind) == kind \in {"Jump", "CleanLanding"}

(* issue_credit and the apply_credit it calls, the points already granted.  *)
SpurCreditAccepted(s, id) == id[3] # 0 /\ id[2] <= s.tick /\ IdLess(s.lastId, id)

SpurGrant(s, kind) ==
    LET source == IF IsStyle(kind) THEN Min({SpurPoints(kind), StyleCap - s.style})
                  ELSE SpurPoints(kind)
    IN  Min({source, SpurMax - s.meter})

SpurIssued(s, epoch, t, kind) ==
    LET id == <<epoch, t, s.next>>
    IN  IF ~SpurCreditAccepted(s, id) THEN s
        ELSE [s EXCEPT !.lastId = id, !.next = @ + 1,
                       !.meter = @ + SpurGrant(s, kind),
                       !.style = IF IsStyle(kind) THEN @ + SpurGrant(s, kind) ELSE @]

ChargeActive(s) == s.end # NoTick /\ s.tick < s.end

(* What a press of the spend key buys: a charge when mounted, an instant    *)
(* return when the horse is gone, nothing otherwise.                        *)
SpurAdvanced(s, t, pressed, context) ==
    LET over   == s.end # NoTick /\ t >= s.end
        now    == [s EXCEPT !.tick = t, !.held = pressed,
                            !.start = IF over THEN NoTick ELSE @,
                            !.end = IF over THEN NoTick ELSE @]
        buys   == pressed /\ ~s.held /\ s.meter = SpurMax /\ ~ChargeActive(now)
    IN  CASE buys /\ context = "Mounted" ->
               [spur |-> [now EXCEPT !.meter = 0, !.start = t, !.end = t + ChargeTicks],
                spend |-> "Charge"]
          [] buys /\ context = "HorseAbsent" ->
               [spur |-> [now EXCEPT !.meter = 0], spend |-> "Return"]
          [] OTHER -> [spur |-> now, spend |-> "none"]

SpurValid(s) ==
    /\ s.meter <= SpurMax /\ s.style <= StyleCap /\ s.next > 0
    /\ s.lastId # NoId => s.lastId[3] < s.next /\ s.lastId[2] <= s.tick
    /\ \/ s.start = NoTick /\ s.end = NoTick
       \/ s.start # NoTick /\ s.end = s.start + ChargeTicks
          /\ s.start <= s.tick /\ s.tick < s.end

-----------------------------------------------------------------------------
(* ActorGameplayKernel.  pending is the fatal effect awaiting delivery: the *)
(* damage identity and the heading it carries, NoPending when there is none.*)

NoPending == [id |-> NoId, away |-> "ahead"]

NewActor ==
    [tick |-> NoTick, horse |-> NewHorse, foot |-> NewFoot, recall |-> NewRecall,
     lossTick |-> NoTick, pending |-> NoPending, spur |-> NewSpur]

ActorRespawned(a) ==
    [NewActor EXCEPT !.tick = a.tick, !.horse.tick = a.tick, !.foot.tick = a.tick,
                     !.recall.tick = a.tick, !.spur = a.spur]

ActorMode(a) ==
    CASE a.horse.state = "Available" -> "Mounted"
      [] a.horse.state # "Available" /\ a.foot.state = "SpookStunned" -> "SpookStunned"
      [] a.horse.state # "Available" /\ a.foot.state # "SpookStunned"
            /\ a.recall.state \in {ReturnPhases[k].state : k \in 1..5} -> "ReturningHorse"
      [] OTHER -> "OnFoot"

ActorAcknowledged(a, id) ==
    IF a.pending # NoPending /\ a.pending.id = id
    THEN [a EXCEPT !.pending = NoPending] ELSE a

(* apply_horse_damage: refused as a whole when the stun is refused.         *)
ActorDamageApplies(a, id, amount) ==
    /\ a.tick \in {NoTick, id[2]}
    /\ HorseAccepts(a.horse, id)
    /\ a.horse.health > 0 /\ amount >= a.horse.health => ~SpookRefused(a.foot, id[2])

(* Fault: a fatal hit does not note the tick of the loss. *)
ActorDamagedUndated(a, id, amount, away) ==
    LET horse == HorseDamaged(a.horse, id, amount, away)
    IN  IF ~ActorDamageApplies(a, id, amount) THEN a
        ELSE IF horse.state = "Available" THEN [a EXCEPT !.horse = horse]
        ELSE [a EXCEPT !.horse = horse, !.foot = SpookStunned(@, id[2]),
                       !.pending = [id |-> id, away |-> away]]

ActorDamaged(a, id, amount, away) ==
    LET horse == HorseDamaged(a.horse, id, amount, away)
    IN  IF ~ActorDamageApplies(a, id, amount) THEN a
        ELSE IF horse.state = "Available" THEN [a EXCEPT !.horse = horse]
        ELSE [a EXCEPT !.horse = horse, !.foot = SpookStunned(@, id[2]),
                       !.lossTick = id[2], !.pending = [id |-> id, away |-> away]]

SpurContext(horse, recall, mounted) ==
    CASE horse.state = "Available" /\ mounted -> "Mounted"
      [] horse.state = "Despawned" /\ recall.state \in {"CoolingDown", "Ready"} -> "HorseAbsent"
      [] OTHER -> "Ineligible"

(* One tick of the composed actor: in carries the tick, the on-foot keys, a  *)
(* spur press, whether the adapter calls the rider mounted, and an interact  *)
(* press in range of a moving or a standing return horse ("none" otherwise). *)
(* ok is FALSE where advance_tick returns an error; the error leaves some    *)
(* kernels advanced and others not, and next is then not meaningful.         *)
ActorAdvance(a, in) ==
    LET t        == in.tick
        despawns == HorseDespawns(a.horse, t)
        despawn  == a.horse.boltStart + BoltTicks
        horse    == HorseAdvanced(a.horse, t)
        lost     == IF despawns THEN HorseLost(a.recall, despawn, a.lossTick) ELSE a.recall
        bought   == SpurAdvanced(a.spur, t, in.spur, SpurContext(horse, lost, in.mounted))
        onFoot   == horse.state # "Available"
        foot     == IF onFoot THEN FootAdvanced(a.foot, in) ELSE a.foot
        runs     == horse.state = "Despawned" /\ (despawns => t > despawn)
        timed    == IF runs THEN RecallAdvanced(lost, t) ELSE lost
        asked    == IF \/ bought.spend = "Return"
                       \/ in.spur /\ timed.state = "Ready" /\ timed.tick = t
                    THEN RecallRequested(timed, t) ELSE timed
        mounts   == in.mount # "none" /\ CanMount(asked, t, TRUE, in.mount = "running")
    IN  [ok |-> /\ a.tick < t /\ a.horse.tick < t /\ a.spur.tick < t
                /\ despawns => a.lossTick # NoTick /\ ~LoseRefused(a.recall, despawn, a.lossTick)
                /\ onFoot => /\ a.foot.tick < t
                             /\ a.foot.state = "SpookStunned" => a.foot.stunUntil # NoTick
                             /\ a.foot.state = "Rolling" => a.foot.rollStart # NoTick
                /\ runs => lost.tick < t
                /\ bought.spend = "Return" =>
                      timed.state \in {"CoolingDown", "Ready"} /\ timed.tick = t,
         next |-> [a EXCEPT
                     !.tick = t, !.spur = bought.spur,
                     !.horse = IF mounts THEN HorseRestored(horse) ELSE horse,
                     !.foot = IF mounts THEN NewFoot ELSE foot,
                     !.recall = IF mounts THEN Mounted(asked, t) ELSE asked,
                     !.lossTick = IF mounts THEN NoTick ELSE @],
         spend |-> bought.spend, remounted |-> mounts]

(* ActorGameplayKernel::restore_checkpoint, for a checkpoint of this wire.   *)
CrossKernelValid(a) ==
    CASE a.horse.state = "Available" ->
           a.recall.state = "HorsePresent" /\ a.lossTick = NoTick
      [] a.horse.state = "Bolting" ->
           a.recall.state = "HorsePresent" /\ a.lossTick = a.horse.boltStart
      [] a.horse.state = "Despawned" ->
           a.recall.state # "HorsePresent" /\ a.lossTick = a.recall.lossTick

PendingValid(a) ==
    a.pending # NoPending =>
        /\ a.pending.id = a.horse.lastId /\ a.pending.away = a.horse.away
        /\ a.pending.id[2] = IF a.recall.lossTick # NoTick THEN a.recall.lossTick
                             ELSE a.lossTick

ActorRestorable(a) ==
    /\ HorseValid(a.horse) /\ FootValid(a.foot)
    /\ RecallValid(a.recall) /\ SpurValid(a.spur)
    /\ \A k \in {a.horse, a.foot, a.recall, a.spur} : k.tick <= a.tick
    /\ CrossKernelValid(a) /\ PendingValid(a)
=============================================================================
