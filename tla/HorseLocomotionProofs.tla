----------------------- MODULE HorseLocomotionProofs -----------------------
(***************************************************************************)
(* The mounted horse, for every design row, input, ground and length of    *)
(* its timers: jumps and sidesteps are earned, no speed is gained out of a *)
(* sidestep, and no speed is left over from an archetype that is gone.     *)
(* The kernel and the body of the engine overwrite each other every tick;  *)
(* the invariant says what they agree on, and how the timers of the kernel *)
(* relate to the floor contact and the presses that were really seen.      *)
(*                                                                         *)
(* Then the rider's actor, of which that horse is one half: vitality,      *)
(* footing, recall and the Spur meter, for every constant of the design.   *)
(* Last the saddle dive, which throws the rider off that horse: its rows,  *)
(* its runout and its death window, for every length of its phases.        *)
(***************************************************************************)
EXTENDS HorseLocomotion, Sequences, TLAPS

DesignRow ==
    [walk : Nat, trot : Nat, gallop : Nat, sprint : Nat, accel : Nat, brake : Nat,
     hardBrake : Nat, coast : Nat, reverse : Nat, sidestep : Nat \ {0}, floor : [1..3 -> Nat]]

\* Speeds, percentages and times are numbers; there is a Mustang; every row sidesteps, and
\* a jump has some buffer and some coyote time.
HorseBounds ==
    /\ Row \in [DOMAIN Row -> DesignRow] /\ "Mustang" \in DOMAIN Row
    /\ Buff \in [{"respawn", "station"} -> Nat]
    /\ \A in \in Input : in.steer \in {-1, 0, 1}
    /\ \A g \in Ground :
          g.percent \in Nat /\ g.slope \in {"up", "down", "level"} /\ g.downhill \in {-1, 0, 1}
    /\ Coyote \in Nat \ {0} /\ Buffer \in Nat \ {0} /\ Recovery \in Nat
    /\ SlideSpeed \in Nat /\ DownhillBonus \in Nat /\ UphillPercent \in Nat

Setup(s) == s.row \in DOMAIN Row /\ s.charge \in BOOLEAN

\* A kernel state has these fields; the turn, the rise and the counters of the gearbox
\* matter to nothing below.
Mount(h) ==
    /\ h = [gait |-> h.gait, forward |-> h.forward, lateral |-> h.lateral, rise |-> h.rise,
            turn |-> h.turn, footing |-> h.footing, grounded |-> h.grounded,
            coyote |-> h.coyote, buffer |-> h.buffer, recovery |-> h.recovery,
            slow |-> h.slow, hold |-> h.hold]
    /\ h.gait \in 0..3 /\ h.forward \in Int /\ h.lateral \in Int /\ h.footing \in Int
    /\ h.grounded \in BOOLEAN /\ h.coyote \in Nat /\ h.buffer \in Nat /\ h.recovery \in Nat

Body(b) ==
    /\ b = [forward |-> b.forward, lateral |-> b.lateral, rise |-> b.rise, floor |-> b.floor]
    /\ b.forward \in Int /\ b.lateral \in Int /\ b.floor \in BOOLEAN

Seen(n) ==
    /\ n = [floor |-> n.floor, press |-> n.press, settled |-> n.settled, jumped |-> n.jumped,
            stepped |-> n.stepped, ceiling |-> n.ceiling, ticks |-> n.ticks,
            changes |-> n.changes]
    /\ n.floor \in Nat /\ n.press \in Nat /\ n.settled \in Nat /\ n.jumped \in BOOLEAN
    /\ n.stepped \in BOOLEAN /\ n.ceiling \in Nat

\* A timer that runs was started by a contact, or a press, of that age, which no jump has
\* used; a horse on the floor that has not recovered has not stood there for long.
Timers(h, b, n) ==
    /\ n.jumped => h.coyote = 0 /\ h.buffer = 0
    /\ ~n.jumped /\ h.coyote > 0 => h.coyote + n.floor <= Coyote
    /\ ~n.jumped /\ h.buffer > 0 => h.buffer + n.press < Buffer
    /\ b.floor => h.recovery + n.settled >= Recovery

Earned(n) ==
    /\ n.jumped => n.floor < Coyote /\ n.press < Buffer
    /\ n.stepped => n.settled >= Recovery

Paced(h, b, n) == h.forward = b.forward /\ b.forward <= n.ceiling

HorseInv ==
    /\ Mount(horse) /\ Setup(setup) /\ Body(body) /\ Seen(seen)
    /\ Timers(horse, body, seen) /\ Earned(seen) /\ Paced(horse, body, seen)
    /\ setup = [row |-> setup.row, charge |-> setup.charge, buffs |-> setup.buffs]

-----------------------------------------------------------------------------
(* Arithmetic and the design rows.                                         *)

LEMMA Between ==
    ASSUME NEW x \in Int, NEW low \in Int, NEW high \in Int
    PROVE  /\ Within(x, low, high) \in Int /\ Within(x, low, high) <= high
           /\ low <= high => Within(x, low, high) >= low
           /\ x >= low => Within(x, low, high) <= x
           /\ low <= 0 => Within(x, low, high) <= Greater(x, 0)
           /\ low < 0 /\ high > 0 /\ x # 0 => Within(x, low, high) # 0
BY DEF Within, Lesser, Greater

LEMMA Towards ==
    ASSUME NEW x \in Int, NEW target \in Int, NEW most \in Nat
    PROVE  /\ MoveTowards(x, target, most) \in Int
           /\ MoveTowards(x, target, most) <= Greater(x, target)
           /\ target = 0 => Size(MoveTowards(x, target, most)) <= Size(x)
BY DEF MoveTowards, Within, Lesser, Greater, Size

LEMMA TickedIs ==
    ASSUME NEW t \in Nat
    PROVE  Ticked(t) \in Nat /\ Ticked(t) <= t /\ Ticked(t) >= t - 1 /\ (t > 0 => Ticked(t) = t - 1)
BY DEF Ticked, Greater

LEMMA StatsAre ==
    ASSUME HorseBounds, NEW s, Setup(s) PROVE Stats(s) \in DesignRow
BY DEF HorseBounds, Setup, Stats

LEMMA BuffedIs ==
    ASSUME HorseBounds, NEW s, NEW speed \in Int PROVE Buffed(s, speed) \in Int
<1> DEFINE Of(b) == IF b \in s.buffs THEN Buff[b] ELSE 100
<1>1. Of("respawn") \in Int /\ Of("station") \in Int
  BY DEF HorseBounds
<1>2. Buffed(s, speed) = (speed * Of("respawn") * Of("station")) \div 10000
  BY DEF Buffed
<1> HIDE DEF Of
<1>3. PICK p \in Int : p = speed * Of("respawn") * Of("station")
  BY <1>1
<1>4. p \div 10000 \in Int
  BY <1>3
<1> QED
  BY <1>2, <1>3, <1>4

LEMMA CapsAre ==
    ASSUME HorseBounds, NEW s, Setup(s), NEW h, Mount(h), NEW g \in Ground
    PROVE  ForwardCap(s) \in Int /\ Footing(s, h, g) \in Int /\ GaitCap(s, h, g) \in Int
<1>1. /\ Stats(s).walk \in Int /\ Stats(s).trot \in Int /\ Stats(s).gallop \in Int
      /\ Stats(s).sprint \in Int
  BY StatsAre DEF DesignRow
<1>2. ForwardCap(s) \in Int
  BY <1>1, BuffedIs DEF ForwardCap
<1>3. Footing(s, h, g) \in Int
  <2>1. g.percent \in Int /\ h.footing \in Int
    BY DEF HorseBounds, Mount
  <2>2. MoveTowards(h.footing, g.percent, 25) \in Int
    BY <2>1, Towards
  <2> QED
    BY <2>1, <2>2 DEF Footing
<1>4. TargetSpeed(s, h.gait) \in Int
  BY <1>1 DEF Mount, TargetSpeed, Idle, Walk, Trot, Gallop
<1>5. Slope(g) \in Int
  BY DEF HorseBounds, Slope
<1>6. (TargetSpeed(s, h.gait) * Footing(s, h, g) * Slope(g)) \div 10000 \in Int
  <2>1. PICK p \in Int : p = TargetSpeed(s, h.gait) * Footing(s, h, g) * Slope(g)
    BY <1>3, <1>4, <1>5
  <2>2. p \div 10000 \in Int
    OBVIOUS
  <2> QED
    BY <2>1, <2>2
<1>7. GaitCap(s, h, g) \in Int
  BY <1>1, <1>6, BuffedIs DEF GaitCap
<1> QED
  BY <1>2, <1>3, <1>7

-----------------------------------------------------------------------------
(* What the parts of a tick leave.                                         *)

LEMMA ClampedIs ==
    ASSUME HorseBounds, NEW s, Setup(s), NEW h, Mount(h), ForwardCap(s) \in Int
    PROVE  LET c == Clamped(s, h)
           IN  /\ Mount(c) /\ c.grounded = h.grounded /\ c.coyote = h.coyote /\ c.buffer = h.buffer
               /\ c.recovery = h.recovery
               /\ c.forward = Within(h.forward, -Stats(s).reverse, ForwardCap(s))
<1>1. Stats(s).reverse \in Nat /\ Stats(s).sidestep \in Nat
  BY StatsAre DEF DesignRow
<1> DEFINE back == -Stats(s).reverse
           left == -Stats(s).sidestep
<1>2. back \in Int /\ left \in Int /\ Stats(s).sidestep \in Int /\ h.forward \in Int /\ h.lateral \in Int
  BY <1>1 DEF Mount
<1> HIDE DEF back, left
<1>3. PICK x \in Int : x = Within(h.forward, back, ForwardCap(s))
  BY <1>2, Between
<1>4. PICK y \in Int : y = Within(h.lateral, left, Stats(s).sidestep)
  BY <1>2, Between
<1>5. Clamped(s, h) = [h EXCEPT !.forward = x, !.lateral = y]
  BY <1>3, <1>4 DEF Clamped, back, left
<1>6. Clamped(s, h) = [gait |-> h.gait, forward |-> x, lateral |-> y, rise |-> h.rise,
            turn |-> h.turn, footing |-> h.footing, grounded |-> h.grounded,
            coyote |-> h.coyote, buffer |-> h.buffer, recovery |-> h.recovery,
            slow |-> h.slow, hold |-> h.hold]
  BY <1>5 DEF Mount
<1> QED
  BY <1>3, <1>6 DEF Mount, back

LEMMA ResolvedIs ==
    ASSUME HorseBounds, NEW s, Setup(s), NEW h, Mount(h), NEW b, Body(b)
    PROVE  LET m == ResolveMotion(s, h, b)
           IN  /\ Mount(m) /\ m.forward = b.forward /\ m.grounded = b.floor /\ m.gait = h.gait
               /\ m.coyote = h.coyote /\ m.buffer = h.buffer
               /\ m.recovery = IF ~h.grounded /\ b.floor THEN Recovery ELSE h.recovery
               /\ m.lateral = Within(b.lateral, -Stats(s).sidestep, Stats(s).sidestep)
<1>1. Stats(s).sidestep \in Nat
  BY StatsAre DEF DesignRow
<1>2. PICK y \in Int : y = Within(b.lateral, -Stats(s).sidestep, Stats(s).sidestep)
  BY <1>1, Between DEF Body
<1>3. PICK r \in Nat : r = IF ~h.grounded /\ b.floor THEN Recovery ELSE h.recovery
  BY DEF Mount, HorseBounds
<1>4. ResolveMotion(s, h, b) = [h EXCEPT !.forward = b.forward, !.lateral = y, !.rise = b.rise,
                                         !.recovery = r, !.grounded = b.floor]
  BY <1>2, <1>3 DEF ResolveMotion
<1>5. ResolveMotion(s, h, b) = [gait |-> h.gait, forward |-> b.forward, lateral |-> y, rise |-> b.rise,
            turn |-> h.turn, footing |-> h.footing, grounded |-> b.floor,
            coyote |-> h.coyote, buffer |-> h.buffer, recovery |-> r,
            slow |-> h.slow, hold |-> h.hold]
  BY <1>4 DEF Mount
<1> QED
  BY <1>2, <1>3, <1>5 DEF Mount, Body

LEMMA GearedIs ==
    ASSUME NEW h, Mount(h), NEW in
    PROVE  LET g == [h EXCEPT !.gait = Commanded(h, in)]
           IN  /\ Mount(g) /\ g.forward = h.forward /\ g.lateral = h.lateral
               /\ g.grounded = h.grounded /\ g.coyote = h.coyote /\ g.buffer = h.buffer
               /\ g.recovery = h.recovery
<1>1. PICK x : x = Commanded(h, in)
  OBVIOUS
<1>2. x \in 0..3
  BY <1>1 DEF Commanded, Mount, Lesser, Greater, Idle, Walk, Gallop
<1>3. [h EXCEPT !.gait = x] = [gait |-> x, forward |-> h.forward, lateral |-> h.lateral, rise |-> h.rise,
            turn |-> h.turn, footing |-> h.footing, grounded |-> h.grounded,
            coyote |-> h.coyote, buffer |-> h.buffer, recovery |-> h.recovery,
            slow |-> h.slow, hold |-> h.hold]
  BY DEF Mount
<1> QED
  BY <1>1, <1>2, <1>3 DEF Mount

\* The vertical part: what the timers are after a tick, with and without a jump.
LEMMA VerticalIs ==
    ASSUME HorseBounds, NEW h, Mount(h), NEW in, NEW floor \in BOOLEAN
    PROVE  LET v == IntegrateVertical(h, in, floor)
               coyote == IF floor THEN Coyote ELSE Ticked(h.coyote)
               buffer == IF in.jump THEN Buffer ELSE h.buffer
               jumps == Jumps(Contact(h, in, floor), floor)
           IN  /\ Mount(v) /\ v.forward = h.forward /\ v.lateral = h.lateral /\ v.gait = h.gait
               /\ coyote \in Nat /\ buffer \in Nat
               /\ jumps = ((floor \/ coyote > 0) /\ buffer > 0)
               /\ jumps => ~v.grounded /\ v.coyote = 0 /\ v.buffer = 0 /\ v.recovery = 0
               /\ ~jumps => /\ v.grounded = floor /\ v.coyote = coyote /\ v.buffer = Ticked(buffer)
                            /\ v.recovery = Ticked(h.recovery)
<1> DEFINE c == Contact(h, in, floor)
           coyote == IF floor THEN Coyote ELSE Ticked(h.coyote)
           buffer == IF in.jump THEN Buffer ELSE h.buffer
<1>1. coyote \in Nat /\ buffer \in Nat /\ Ticked(h.recovery) \in Nat
  BY TickedIs DEF Mount, HorseBounds
<1>2. c = [gait |-> h.gait, forward |-> h.forward, lateral |-> h.lateral, rise |-> h.rise,
            turn |-> h.turn, footing |-> h.footing, grounded |-> floor,
            coyote |-> coyote, buffer |-> buffer, recovery |-> Ticked(h.recovery),
            slow |-> h.slow, hold |-> h.hold]
  <2>1. PICK x : x = Ticked(h.recovery)
    OBVIOUS
  <2>2. PICK y : y = coyote
    OBVIOUS
  <2>3. PICK z : z = buffer
    OBVIOUS
  <2>4. c = [h EXCEPT !.grounded = floor, !.recovery = x, !.coyote = y, !.buffer = z]
    BY <2>1, <2>2, <2>3 DEF Contact
  <2> HIDE DEF c, coyote, buffer
  <2>5. c = [gait |-> h.gait, forward |-> h.forward, lateral |-> h.lateral, rise |-> h.rise,
            turn |-> h.turn, footing |-> h.footing, grounded |-> floor,
            coyote |-> y, buffer |-> z, recovery |-> x, slow |-> h.slow, hold |-> h.hold]
    BY <2>4 DEF Mount
  <2> QED
    BY <2>1, <2>2, <2>3, <2>5
<1> HIDE DEF c, coyote, buffer
<1>3. Jumps(c, floor) = ((floor \/ coyote > 0) /\ buffer > 0)
  BY <1>2 DEF Jumps
<1>4. CASE Jumps(c, floor)
  <2>1. IntegrateVertical(h, in, floor) = Jumped(c)
    BY <1>4 DEF IntegrateVertical, c
  <2>2. Jumped(c) =
           [gait |-> h.gait, forward |-> h.forward, lateral |-> h.lateral, rise |-> 1,
            turn |-> h.turn, footing |-> h.footing, grounded |-> FALSE,
            coyote |-> 0, buffer |-> 0, recovery |-> 0, slow |-> h.slow, hold |-> h.hold]
    <3>1. PICK x, y, z : x = coyote /\ y = buffer /\ z = Ticked(h.recovery)
      OBVIOUS
    <3>2. c = [gait |-> h.gait, forward |-> h.forward, lateral |-> h.lateral, rise |-> h.rise,
            turn |-> h.turn, footing |-> h.footing, grounded |-> floor,
            coyote |-> x, buffer |-> y, recovery |-> z, slow |-> h.slow, hold |-> h.hold]
      BY <1>2, <3>1
    <3>3. PICK w : w = [c EXCEPT !.rise = 1, !.grounded = FALSE]
      OBVIOUS
    <3>4. w = [gait |-> h.gait, forward |-> h.forward, lateral |-> h.lateral, rise |-> 1,
            turn |-> h.turn, footing |-> h.footing, grounded |-> FALSE,
            coyote |-> x, buffer |-> y, recovery |-> z, slow |-> h.slow, hold |-> h.hold]
      BY <3>2, <3>3
    <3>5. Jumped(c) = [w EXCEPT !.coyote = 0, !.buffer = 0, !.recovery = 0]
      BY <3>3 DEF Jumped
    <3> QED
      BY <3>4, <3>5
  <2>3. PICK v : v = Jumped(c)
    OBVIOUS
  <2>4. /\ Mount(v) /\ v.forward = h.forward /\ v.lateral = h.lateral /\ v.gait = h.gait
        /\ ~v.grounded /\ v.coyote = 0 /\ v.buffer = 0 /\ v.recovery = 0
    BY <2>2, <2>3 DEF Mount
  <2> QED
    BY <1>1, <1>3, <1>4, <2>1, <2>3, <2>4 DEF c, coyote, buffer
<1>5. CASE ~Jumps(c, floor)
  <2>1. PICK r : r = IF floor THEN Greater(c.rise, 0) ELSE Greater(c.rise - 1, -1)
    OBVIOUS
  <2>2. PICK t \in Nat : t = Ticked(buffer)
    BY <1>1, TickedIs
  <2>3. IntegrateVertical(h, in, floor) = [c EXCEPT !.buffer = t, !.rise = r]
    BY <1>2, <1>5, <2>1, <2>2 DEF IntegrateVertical, c
  <2>4. IntegrateVertical(h, in, floor) =
           [gait |-> h.gait, forward |-> h.forward, lateral |-> h.lateral, rise |-> r,
            turn |-> h.turn, footing |-> h.footing, grounded |-> floor,
            coyote |-> coyote, buffer |-> t, recovery |-> Ticked(h.recovery),
            slow |-> h.slow, hold |-> h.hold]
    BY <1>2, <2>3
  <2> QED
    BY <1>1, <1>3, <1>5, <2>2, <2>4 DEF Mount, c, coyote, buffer
<1> QED
  BY <1>4, <1>5

\* Two kernel states that differ in the turn, the gait and the gearbox counters alone.
Alike(g, h) ==
    /\ g.forward = h.forward /\ g.lateral = h.lateral /\ g.grounded = h.grounded
    /\ g.coyote = h.coyote /\ g.buffer = h.buffer /\ g.recovery = h.recovery

LEMMA SteeredIs ==
    ASSUME NEW h, Mount(h), NEW in, NEW reason, NEW sidestep
    PROVE  LET g == IntegrateSteering(h, in, reason, sidestep)
           IN  Mount(g) /\ Alike(g, h) /\ g.gait = h.gait
<1>1. PICK t : IntegrateSteering(h, in, reason, sidestep) = [h EXCEPT !.turn = t]
  BY DEF IntegrateSteering
<1>2. [h EXCEPT !.turn = t] = [gait |-> h.gait, forward |-> h.forward, lateral |-> h.lateral,
            rise |-> h.rise, turn |-> t, footing |-> h.footing, grounded |-> h.grounded,
            coyote |-> h.coyote, buffer |-> h.buffer, recovery |-> h.recovery,
            slow |-> h.slow, hold |-> h.hold]
  BY DEF Mount
<1> QED
  BY <1>1, <1>2 DEF Mount, Alike

\* What the horse makes for: never more than its cap, and nothing while it settles.
LEMMA LongitudinalIs ==
    ASSUME HorseBounds, NEW s, Setup(s), NEW h, Mount(h), NEW in, NEW g \in Ground,
           NEW sidestep \in BOOLEAN
    PROVE  LET long == Longitudinal(s, h, in, g, sidestep)
           IN  /\ long.target \in Int /\ long.rate \in Nat
               /\ long.target <= h.forward \/ long.target <= 0 \/ long.target <= GaitCap(s, h, g)
               /\ h.lateral # 0 => long.target <= h.forward \/ long.target <= 0
<1> DEFINE long == Longitudinal(s, h, in, g, sidestep)
           stats == Stats(s)
           cap == GaitCap(s, h, g)
           accel == stats.accel * (IF s.charge THEN 2 ELSE 1)
<1>1. /\ stats.reverse \in Nat /\ stats.accel \in Nat /\ stats.brake \in Nat
      /\ stats.hardBrake \in Nat /\ stats.coast \in Nat
  BY StatsAre DEF DesignRow
<1>2. accel \in Nat
  BY <1>1
<1>3. cap \in Int /\ h.forward \in Int
  BY CapsAre DEF Mount
<1>4. -stats.reverse \in Int /\ -stats.reverse <= 0
  BY <1>1
<1>5. \/ long.target = h.forward /\ long.rate = 0
      \/ long.target = 0 /\ long.rate \in {stats.hardBrake, stats.brake, stats.coast}
      \/ long.target = -stats.reverse /\ long.rate = stats.accel
      \/ /\ long.target = cap /\ long.rate = accel
         /\ in.throttle > 0 /\ ~(sidestep \/ Settling(h, sidestep))
  <2> HIDE DEF cap, stats, accel
  <2> DEFINE Make(target, rate, hold) == [target |-> target, rate |-> rate, hold |-> hold]
             back == Make(-stats.reverse, stats.accel, h.hold)
             rest == IF in.brake > 0
                     THEN IF h.forward > 0 THEN Make(0, stats.brake, 0)
                          ELSE IF h.forward < 0 THEN back
                          ELSE IF h.hold + 1 >= ReverseHold
                          THEN [back EXCEPT !.hold = Lesser(h.hold + 1, ReverseHold)]
                          ELSE Make(0, stats.brake, h.hold + 1)
                     ELSE IF in.throttle > 0
                     THEN Make(cap, accel, 0)
                     ELSE Make(0, stats.coast, 0)
  <2>1. \/ long = Make(h.forward, 0, 0)
        \/ long = Make(0, stats.hardBrake, 0)
        \/ long = Make(0, stats.brake, 0)
        \/ long = rest /\ ~(sidestep \/ (in.throttle > 0 /\ Settling(h, sidestep)))
    <3>1. CASE in.hard /\ s.charge /\ in.steer # 0
      BY <3>1 DEF Longitudinal
    <3>2. CASE in.hard /\ ~(s.charge /\ in.steer # 0)
      BY <3>2 DEF Longitudinal, stats
    <3>3. CASE ~in.hard /\ (sidestep \/ (in.throttle > 0 /\ Settling(h, sidestep)))
      BY <3>3 DEF Longitudinal, stats
    <3>4. CASE ~in.hard /\ ~(sidestep \/ (in.throttle > 0 /\ Settling(h, sidestep)))
      BY <3>4 DEF Longitudinal, stats, cap, accel
    <3> QED
      BY <3>1, <3>2, <3>3, <3>4
  <2> HIDE DEF long
  <2>2. ASSUME long = rest, ~(sidestep \/ (in.throttle > 0 /\ Settling(h, sidestep)))
        PROVE  \/ long.target = 0 /\ long.rate \in {stats.brake, stats.coast}
               \/ long.target = -stats.reverse /\ long.rate = stats.accel
               \/ /\ long.target = cap /\ long.rate = accel
                  /\ in.throttle > 0 /\ ~(sidestep \/ Settling(h, sidestep))
    BY <2>2
  <2> QED
    BY <2>1, <2>2
<1>6. h.lateral # 0 => sidestep \/ Settling(h, sidestep)
  BY DEF Settling
<1> HIDE DEF long, stats, cap, accel
<1> QED
  BY <1>1, <1>2, <1>3, <1>4, <1>5, <1>6 DEF long, cap

LEMMA HorizontalIs ==
    ASSUME HorseBounds, NEW s, Setup(s), NEW h, Mount(h), NEW in, in.steer \in Int,
           NEW g \in Ground, NEW sidestep \in BOOLEAN
    PROVE  LET m == IntegrateHorizontal(s, h, in, g, sidestep)
               cap == Greater(GaitCap(s, h, g), SlideSpeed)
           IN  /\ Mount(m) /\ m.gait = h.gait /\ m.grounded = h.grounded /\ m.coyote = h.coyote
               /\ m.buffer = h.buffer /\ m.recovery = h.recovery
               /\ cap \in Nat /\ (m.forward <= h.forward \/ m.forward <= cap)
               /\ h.lateral # 0 => m.forward <= h.forward \/ m.forward <= SlideSpeed
               /\ Size(m.lateral) > Size(h.lateral) => sidestep
<1> DEFINE m == IntegrateHorizontal(s, h, in, g, sidestep)
           cap == Greater(GaitCap(s, h, g), SlideSpeed)
<1>1. h.forward \in Int /\ h.lateral \in Int /\ SlideSpeed \in Nat /\ GaitCap(s, h, g) \in Int
  BY CapsAre DEF Mount, HorseBounds
<1>2. cap \in Nat /\ cap >= SlideSpeed /\ cap >= GaitCap(s, h, g)
  BY <1>1 DEF Greater
<1> HIDE DEF cap
<1>3. CASE g.steep
  <2>1. PICK r : r = Lesser(h.rise, 0)
    OBVIOUS
  <2>2. g.downhill * SlideSpeed \in Int /\ g.downhill * SlideSpeed <= SlideSpeed
    <3>1. g.downhill = -1 \/ g.downhill = 0 \/ g.downhill = 1
      BY DEF HorseBounds
    <3> QED
      BY <1>1, <3>1
  <2>3. PICK x : x = MoveTowards(h.forward, g.downhill * SlideSpeed, SlideSpeed)
    OBVIOUS
  <2>4. x \in Int /\ x <= Greater(h.forward, g.downhill * SlideSpeed)
    BY <1>1, <2>2, <2>3, Towards
  <2>5. x <= h.forward \/ x <= SlideSpeed
    BY <1>1, <2>2, <2>4 DEF Greater
  <2>6. m = [h EXCEPT !.forward = x, !.lateral = 0, !.rise = r]
    BY <1>3, <2>1, <2>3 DEF IntegrateHorizontal, SteepSlide
  <2> HIDE DEF m
  <2>7. m = [gait |-> h.gait, forward |-> x, lateral |-> 0,
            rise |-> r, turn |-> h.turn, footing |-> h.footing, grounded |-> h.grounded,
            coyote |-> h.coyote, buffer |-> h.buffer, recovery |-> h.recovery,
            slow |-> h.slow, hold |-> h.hold]
    BY <2>6 DEF Mount
  <2>8. Mount(m) /\ m.gait = h.gait /\ m.grounded = h.grounded /\ m.coyote = h.coyote
        /\ m.buffer = h.buffer /\ m.recovery = h.recovery /\ m.forward = x /\ m.lateral = 0
    BY <2>4, <2>7 DEF Mount
  <2>9. ~(Size(m.lateral) > Size(h.lateral))
    BY <1>1, <2>8 DEF Size
  <2>10. m.forward <= h.forward \/ m.forward <= cap
    BY <1>1, <1>2, <2>4, <2>5, <2>8
  <2> QED
    BY <1>2, <2>5, <2>8, <2>9, <2>10 DEF m, cap
<1>4. CASE ~g.steep
  <2> DEFINE long == Longitudinal(s, h, in, g, sidestep)
             side == IF sidestep THEN in.steer * Stats(s).sidestep ELSE 0
  <2>1. /\ long.target \in Int /\ long.rate \in Nat
        /\ long.target <= h.forward \/ long.target <= 0 \/ long.target <= GaitCap(s, h, g)
        /\ h.lateral # 0 => long.target <= h.forward \/ long.target <= 0
    BY LongitudinalIs
  <2>2. side \in Int
    <3>1. Stats(s).sidestep \in Int
      BY StatsAre DEF DesignRow
    <3> QED
      BY <3>1
  <2>3. m = [h EXCEPT !.forward = MoveTowards(@, long.target, long.rate),
                      !.hold = IF in.brake = 0 \/ sidestep THEN 0 ELSE long.hold,
                      !.lateral = MoveTowards(@, side, 1),
                      !.footing = Footing(s, h, g)]
    BY <1>4 DEF IntegrateHorizontal
  <2>4. ~sidestep => side = 0
    OBVIOUS
  <2> HIDE DEF m, long, side
  <2>5. PICK x : x = MoveTowards(h.forward, long.target, long.rate)
    OBVIOUS
  <2>6. PICK y : y = MoveTowards(h.lateral, side, 1)
    OBVIOUS
  <2>7. PICK z : z = IF in.brake = 0 \/ sidestep THEN 0 ELSE long.hold
    OBVIOUS
  <2>8. PICK f \in Int : f = Footing(s, h, g)
    BY CapsAre
  <2>9. m = [h EXCEPT !.forward = x, !.hold = z, !.lateral = y, !.footing = f]
    BY <2>3, <2>5, <2>6, <2>7, <2>8
  <2>10. m = [gait |-> h.gait, forward |-> x, lateral |-> y,
            rise |-> h.rise, turn |-> h.turn, footing |-> f, grounded |-> h.grounded,
            coyote |-> h.coyote, buffer |-> h.buffer, recovery |-> h.recovery,
            slow |-> h.slow, hold |-> z]
    BY <2>9 DEF Mount
  <2>11. x \in Int /\ x <= Greater(h.forward, long.target)
    BY <1>1, <2>1, <2>5, Towards
  <2>12. y \in Int /\ (side = 0 => Size(y) <= Size(h.lateral))
    BY <1>1, <2>2, <2>6, Towards
  <2>13. Mount(m) /\ m.gait = h.gait /\ m.grounded = h.grounded /\ m.coyote = h.coyote
        /\ m.buffer = h.buffer /\ m.recovery = h.recovery /\ m.forward = x /\ m.lateral = y
    BY <2>8, <2>10, <2>11, <2>12 DEF Mount
  <2>14. Size(m.lateral) > Size(h.lateral) => sidestep
    <3>1. Size(y) \in Int /\ Size(h.lateral) \in Int
      BY <1>1, <2>12 DEF Size
    <3> QED
      BY <2>4, <2>12, <2>13, <3>1
  <2>15. x <= h.forward \/ x <= cap
    BY <1>1, <1>2, <2>1, <2>11 DEF Greater
  <2>16. h.lateral # 0 => x <= h.forward \/ x <= SlideSpeed
    BY <1>1, <2>1, <2>11 DEF Greater
  <2> QED
    BY <1>2, <2>13, <2>14, <2>15, <2>16 DEF m, cap
<1> QED
  BY <1>3, <1>4

LEMMA ShiftedIs ==
    ASSUME NEW s, NEW h, Mount(h), NEW in, NEW commanded
    PROVE  LET g == Shifted(s, h, in, commanded) IN Mount(g) /\ Alike(g, h)
<1>1. ASSUME NEW n \in 0..3, NEW w, NEW g,
             g = [gait |-> n, forward |-> h.forward, lateral |-> h.lateral,
                  rise |-> h.rise, turn |-> h.turn, footing |-> h.footing,
                  grounded |-> h.grounded, coyote |-> h.coyote, buffer |-> h.buffer,
                  recovery |-> h.recovery, slow |-> w, hold |-> h.hold]
      PROVE  Mount(g) /\ Alike(g, h)
  BY <1>1 DEF Mount, Alike
<1>2. ASSUME NEW w, NEW g, g = [h EXCEPT !.slow = w]
      PROVE  Mount(g) /\ Alike(g, h)
  <2>1. g = [gait |-> h.gait, forward |-> h.forward, lateral |-> h.lateral,
                  rise |-> h.rise, turn |-> h.turn, footing |-> h.footing,
                  grounded |-> h.grounded, coyote |-> h.coyote, buffer |-> h.buffer,
                  recovery |-> h.recovery, slow |-> w, hold |-> h.hold]
    BY <1>2 DEF Mount
  <2>2. h.gait \in 0..3
    BY DEF Mount
  <2> QED
    BY <1>1, <2>1, <2>2
<1>3. ASSUME NEW n \in 0..3, NEW g, g = [h EXCEPT !.gait = n]
      PROVE  Mount(g) /\ Alike(g, h)
  <2>1. g = [gait |-> n, forward |-> h.forward, lateral |-> h.lateral,
                  rise |-> h.rise, turn |-> h.turn, footing |-> h.footing,
                  grounded |-> h.grounded, coyote |-> h.coyote, buffer |-> h.buffer,
                  recovery |-> h.recovery, slow |-> h.slow, hold |-> h.hold]
    BY <1>3 DEF Mount
  <2> QED
    BY <1>1, <2>1
<1>4. ASSUME NEW n \in 0..3, NEW g, g = [h EXCEPT !.gait = n, !.slow = 0]
      PROVE  Mount(g) /\ Alike(g, h)
  <2>1. PICK k : k = [h EXCEPT !.gait = n]
    OBVIOUS
  <2>2. k = [gait |-> n, forward |-> h.forward, lateral |-> h.lateral,
                  rise |-> h.rise, turn |-> h.turn, footing |-> h.footing,
                  grounded |-> h.grounded, coyote |-> h.coyote, buffer |-> h.buffer,
                  recovery |-> h.recovery, slow |-> h.slow, hold |-> h.hold]
    BY <2>1 DEF Mount
  <2>3. g = [k EXCEPT !.slow = 0]
    BY <1>4, <2>1
  <2>4. g = [gait |-> n, forward |-> h.forward, lateral |-> h.lateral,
                  rise |-> h.rise, turn |-> h.turn, footing |-> h.footing,
                  grounded |-> h.grounded, coyote |-> h.coyote, buffer |-> h.buffer,
                  recovery |-> h.recovery, slow |-> 0, hold |-> h.hold]
    BY <2>2, <2>3
  <2> QED
    BY <1>1, <2>4
<1>5. PICK g : g = Shifted(s, h, in, commanded)
  OBVIOUS
<1>6. h.gait \in 0..3
  BY DEF Mount
<1>7. Upshifts(s, h, in) => h.gait + 1 \in 0..3
  BY <1>6 DEF Upshifts, Walk, Trot
<1>8. h.gait # Idle => h.gait - 1 \in 0..3
  BY <1>6 DEF Idle
<1>9. \/ \E w : g = [h EXCEPT !.slow = w]
      \/ \E n \in 0..3 : g = [h EXCEPT !.gait = n]
      \/ \E n \in 0..3 : g = [h EXCEPT !.gait = n, !.slow = 0]
  BY <1>5, <1>7, <1>8 DEF Shifted
<1> QED
  BY <1>2, <1>3, <1>4, <1>5, <1>9

\* What one step of the kernel does: where each of its results comes from.
StepOf(out, h, in, floor) ==
    LET coyote == IF floor THEN Coyote ELSE Ticked(h.coyote)
        buffer == IF in.jump THEN Buffer ELSE h.buffer
    IN  /\ Mount(out.state) /\ out.jumped \in BOOLEAN /\ out.stepped \in BOOLEAN
        /\ out.cap \in Nat /\ coyote \in Nat /\ buffer \in Nat
        /\ out.state.forward <= h.forward \/ out.state.forward <= out.cap
        /\ h.lateral # 0 => out.state.forward <= h.forward \/ out.state.forward <= SlideSpeed
        /\ out.jumped => /\ floor \/ coyote > 0
                         /\ buffer > 0
                         /\ ~out.state.grounded
                         /\ out.state.coyote = 0 /\ out.state.buffer = 0
                         /\ out.state.recovery = 0
        /\ ~out.jumped => /\ out.state.grounded = floor /\ out.state.coyote = coyote
                          /\ out.state.buffer = Ticked(buffer)
                          /\ out.state.recovery = Ticked(h.recovery)
        /\ out.stepped => out.state.grounded /\ out.state.recovery = 0

LEMMA StepIs ==
    ASSUME HorseBounds, NEW s, Setup(s), NEW h, Mount(h), NEW in, in.steer \in Int,
           NEW g \in Ground, NEW floor \in BOOLEAN
    PROVE  StepOf(Step(s, h, in, g, floor), h, in, floor)
<1> DEFINE geared == [h EXCEPT !.gait = Commanded(h, in)]
           vertical == IntegrateVertical(geared, in, floor)
           reason == SidestepBlockReason(vertical, in, g)
           sidestep == in.steer # 0 /\ reason = "None"
           steered == IntegrateSteering(vertical, in, reason, sidestep)
           moving == IntegrateHorizontal(s, steered, in, g, sidestep)
           state == Shifted(s, moving, in, geared.gait # h.gait)
           jumps == Jumps(Contact(geared, in, floor), floor)
           cap == Greater(GaitCap(s, steered, g), SlideSpeed)
           coyote == IF floor THEN Coyote ELSE Ticked(h.coyote)
           buffer == IF in.jump THEN Buffer ELSE h.buffer
           out == Step(s, h, in, g, floor)
<1>1. out = [state |-> state, jumped |-> jumps,
             stepped |-> Size(moving.lateral) > Size(h.lateral), cap |-> cap]
  BY DEF Step
<1>2. /\ Mount(geared) /\ geared.forward = h.forward /\ geared.lateral = h.lateral
      /\ geared.coyote = h.coyote /\ geared.buffer = h.buffer /\ geared.recovery = h.recovery
  BY GearedIs
<1> HIDE DEF geared
<1>3. /\ Mount(vertical) /\ vertical.forward = h.forward /\ vertical.lateral = h.lateral
      /\ coyote \in Nat /\ buffer \in Nat
      /\ jumps = ((floor \/ coyote > 0) /\ buffer > 0)
      /\ jumps => /\ ~vertical.grounded /\ vertical.coyote = 0 /\ vertical.buffer = 0
                  /\ vertical.recovery = 0
      /\ ~jumps => /\ vertical.grounded = floor /\ vertical.coyote = coyote
                   /\ vertical.buffer = Ticked(buffer) /\ vertical.recovery = Ticked(h.recovery)
  <2>1. LET v == IntegrateVertical(geared, in, floor)
            c == IF floor THEN Coyote ELSE Ticked(geared.coyote)
            b == IF in.jump THEN Buffer ELSE geared.buffer
            j == Jumps(Contact(geared, in, floor), floor)
        IN  /\ Mount(v) /\ v.forward = geared.forward /\ v.lateral = geared.lateral
            /\ c \in Nat /\ b \in Nat
            /\ j = ((floor \/ c > 0) /\ b > 0)
            /\ j => ~v.grounded /\ v.coyote = 0 /\ v.buffer = 0 /\ v.recovery = 0
            /\ ~j => /\ v.grounded = floor /\ v.coyote = c /\ v.buffer = Ticked(b)
                     /\ v.recovery = Ticked(geared.recovery)
    BY <1>2, VerticalIs
  <2> HIDE DEF vertical, jumps
  <2> QED
    BY <1>2, <2>1 DEF vertical, jumps
<1> HIDE DEF vertical, jumps, coyote, buffer
<1>4. sidestep \in BOOLEAN
  OBVIOUS
<1>5. sidestep => vertical.grounded /\ vertical.recovery = 0
  <2>1. SUFFICES ASSUME in.steer # 0, reason = "None"
                 PROVE  vertical.grounded /\ vertical.recovery = 0
    OBVIOUS
  <2>2. vertical.recovery \in Nat
    BY <1>3 DEF Mount
  <2>3. ~(in.throttle > 0)
    BY <2>1 DEF SidestepBlockReason
  <2>4. vertical.grounded /\ ~(vertical.recovery > 0)
    BY <2>1, <2>3 DEF SidestepBlockReason
  <2> QED
    BY <2>2, <2>4
<1> HIDE DEF reason, sidestep
<1>6. Mount(steered) /\ Alike(steered, vertical)
  BY <1>3, SteeredIs
<1> HIDE DEF steered
<1>7. /\ Mount(moving) /\ moving.grounded = steered.grounded /\ moving.coyote = steered.coyote
      /\ moving.buffer = steered.buffer /\ moving.recovery = steered.recovery
      /\ cap \in Nat /\ (moving.forward <= steered.forward \/ moving.forward <= cap)
      /\ steered.lateral # 0 => \/ moving.forward <= steered.forward
                                \/ moving.forward <= SlideSpeed
      /\ Size(moving.lateral) > Size(steered.lateral) => sidestep
  BY <1>4, <1>6, HorizontalIs
<1> HIDE DEF moving, cap
<1>8. Mount(state) /\ Alike(state, moving)
  BY <1>7, ShiftedIs
<1> HIDE DEF state
<1>9. jumps \in BOOLEAN
  BY <1>3
<1> HIDE DEF out
<1>10. /\ out.state = state /\ out.jumped = jumps /\ out.cap = cap
       /\ out.stepped = (Size(moving.lateral) > Size(h.lateral))
  BY <1>1
<1>11. /\ state.forward = moving.forward /\ steered.forward = h.forward
       /\ steered.lateral = h.lateral
       /\ state.grounded = vertical.grounded /\ state.coyote = vertical.coyote
       /\ state.buffer = vertical.buffer /\ state.recovery = vertical.recovery
  BY <1>3, <1>6, <1>7, <1>8 DEF Alike
<1>12. out.stepped => sidestep
  BY <1>7, <1>10, <1>11
<1>13. out.stepped \in BOOLEAN
  BY <1>10
<1>14. /\ state.forward <= h.forward \/ state.forward <= cap
       /\ h.lateral # 0 => state.forward <= h.forward \/ state.forward <= SlideSpeed
  BY <1>7, <1>11
<1>15. /\ jumps => /\ floor \/ coyote > 0
                   /\ buffer > 0
                   /\ ~state.grounded
                   /\ state.coyote = 0 /\ state.buffer = 0 /\ state.recovery = 0
       /\ ~jumps => /\ state.grounded = floor /\ state.coyote = coyote
                    /\ state.buffer = Ticked(buffer) /\ state.recovery = Ticked(h.recovery)
  BY <1>3, <1>11
<1>16. out.stepped => state.grounded /\ state.recovery = 0
  BY <1>5, <1>11, <1>12
<1> QED
  BY <1>3, <1>7, <1>8, <1>9, <1>10, <1>13, <1>14, <1>15, <1>16 DEF StepOf, out, coyote, buffer

-----------------------------------------------------------------------------
(* The ticks and the calls between them.                                   *)

\* The kernel takes the motion of the body: nothing it agrees on with the body is lost.
LEMMA MetIs ==
    ASSUME HorseBounds, HorseInv, NEW h, Mount(h), h.grounded = horse.grounded,
           h.coyote = horse.coyote, h.buffer = horse.buffer, h.recovery = horse.recovery,
           NEW b, Body(b), b.floor = body.floor, b.forward = body.forward \/ b.forward = 0
    PROVE  LET m == ResolveMotion(setup, h, b)
           IN  /\ Mount(m) /\ Timers(m, b, seen) /\ Paced(m, b, seen)
               /\ m.lateral = 0 => b.lateral = 0
<1> DEFINE m == ResolveMotion(setup, h, b)
<1>1. /\ Mount(m) /\ m.forward = b.forward /\ m.coyote = horse.coyote /\ m.buffer = horse.buffer
      /\ m.recovery = IF ~horse.grounded /\ b.floor THEN Recovery ELSE horse.recovery
      /\ m.lateral = Within(b.lateral, -Stats(setup).sidestep, Stats(setup).sidestep)
  BY ResolvedIs DEF HorseInv
<1> HIDE DEF m
<1>2. Timers(m, b, seen)
  <2>1. b.floor => m.recovery + seen.settled >= Recovery
    BY <1>1 DEF HorseInv, Timers, HorseBounds, Seen
  <2> QED
    BY <1>1, <2>1 DEF HorseInv, Timers
<1>3. Paced(m, b, seen)
  BY <1>1 DEF HorseInv, Paced, Seen
<1>4. m.lateral = 0 => b.lateral = 0
  <2>1. PICK n \in Nat \ {0} : n = Stats(setup).sidestep
    BY StatsAre DEF HorseInv, DesignRow
  <2>2. m.lateral = Within(b.lateral, -n, n) /\ -n \in Int /\ n \in Int /\ -n < 0 /\ n > 0
    BY <1>1, <2>1
  <2>3. b.lateral \in Int
    BY DEF Body
  <2> QED
    BY <2>2, <2>3, Between
<1> QED
  BY <1>1, <1>2, <1>3, <1>4 DEF m

\* The clamp of sync_tuning is overwritten by the motion of the body.
LEMMA RefreshedIs ==
    ASSUME HorseBounds, HorseInv
    PROVE  LET m == ResolveMotion(setup, Clamped(setup, horse), body)
           IN  /\ Mount(m) /\ Timers(m, body, seen) /\ Paced(m, body, seen)
               /\ m.lateral = 0 => body.lateral = 0
<1>1. ForwardCap(setup) \in Int
  <2>1. Stats(setup).gallop \in Int /\ Stats(setup).sprint \in Int
    BY StatsAre DEF DesignRow, HorseInv
  <2> QED
    BY <2>1, BuffedIs DEF ForwardCap
<1>2. PICK c : c = Clamped(setup, horse)
  OBVIOUS
<1>3. /\ Mount(c) /\ c.grounded = horse.grounded /\ c.coyote = horse.coyote
      /\ c.buffer = horse.buffer /\ c.recovery = horse.recovery
  BY <1>1, <1>2, ClampedIs DEF HorseInv
<1>4. Body(body)
  BY DEF HorseInv
<1> QED
  BY <1>2, <1>3, <1>4, MetIs

LEMMA TickKeeps ==
    ASSUME HorseBounds, HorseInv, NEW in, in.steer \in Int, NEW g \in Ground, Tick(in, g)
    PROVE  HorseInv' /\ NoDiagonalLaunch
<1>1. PICK sample \in {Sampled(in)},
           met \in {ResolveMotion(setup, Clamped(setup, horse), body)} :
           \E out \in {Step(setup, met, sample, g, body.floor)} :
              /\ \E b \in Resolved(out.state) :
                    body' = b /\ horse' = ResolveMotion(setup, out.state, b)
              /\ seen' = Watched(sample, out)
  BY DEF Tick
<1>2. PICK out \in {Step(setup, met, sample, g, body.floor)} :
              /\ \E b \in Resolved(out.state) :
                    body' = b /\ horse' = ResolveMotion(setup, out.state, b)
              /\ seen' = Watched(sample, out)
  BY <1>1
<1>3. PICK b \in Resolved(out.state) :
              body' = b /\ horse' = ResolveMotion(setup, out.state, b)
  BY <1>2
<1>4. sample.steer \in Int
  <2>1. sample = Sampled(in)
    BY <1>1
  <2> QED
    BY <2>1 DEF Sampled
<1>5. Mount(met) /\ Timers(met, body, seen) /\ Paced(met, body, seen)
      /\ (met.lateral = 0 => body.lateral = 0)
  BY <1>1, RefreshedIs
<1>6. body.floor \in BOOLEAN /\ Setup(setup)
  BY DEF HorseInv, Body
<1> DEFINE coyote == IF body.floor THEN Coyote ELSE Ticked(met.coyote)
           buffer == IF sample.jump THEN Buffer ELSE met.buffer
           state == out.state
<1>7. /\ Mount(state) /\ out.jumped \in BOOLEAN /\ out.stepped \in BOOLEAN
      /\ out.cap \in Nat /\ coyote \in Nat /\ buffer \in Nat
      /\ state.forward <= met.forward \/ state.forward <= out.cap
      /\ met.lateral # 0 => state.forward <= met.forward \/ state.forward <= SlideSpeed
      /\ out.jumped => /\ body.floor \/ coyote > 0
                       /\ buffer > 0
                       /\ ~state.grounded
                       /\ state.coyote = 0 /\ state.buffer = 0 /\ state.recovery = 0
      /\ ~out.jumped => /\ state.grounded = body.floor /\ state.coyote = coyote
                        /\ state.buffer = Ticked(buffer) /\ state.recovery = Ticked(met.recovery)
      /\ out.stepped => state.grounded /\ state.recovery = 0
  <2>1. out = Step(setup, met, sample, g, body.floor)
    BY <1>2
  <2>2. StepOf(out, met, sample, body.floor)
    BY <1>4, <1>5, <1>6, <2>1, StepIs
  <2> QED
    BY <2>2 DEF StepOf
<1> HIDE DEF state
<1>8. Body(b) /\ (b.forward = state.forward \/ b.forward = 0)
  <2>1. b \in [forward : {state.forward, 0}, lateral : {state.lateral, 1},
               rise : {IF state.rise < 0 THEN 0 ELSE state.rise, state.rise}, floor : BOOLEAN]
    BY <1>3 DEF Resolved, state
  <2>2. state.forward \in Int /\ state.lateral \in Int
    BY <1>7 DEF Mount
  <2> QED
    BY <2>1, <2>2 DEF Body
<1>9. PICK m : m = ResolveMotion(setup, state, b)
  OBVIOUS
<1>10. /\ Mount(m) /\ m.forward = b.forward /\ m.coyote = state.coyote /\ m.buffer = state.buffer
       /\ m.recovery = IF ~state.grounded /\ b.floor THEN Recovery ELSE state.recovery
  BY <1>6, <1>7, <1>8, <1>9, ResolvedIs
<1>11. horse' = m /\ body' = b
  BY <1>3, <1>9 DEF state
<1> DEFINE Aged(age, now, most) == IF now THEN 0
                                   ELSE IF seen.jumped THEN most ELSE Lesser(age + 1, most)
<1>12. PICK n : n = Watched(sample, out)
  OBVIOUS
<1>13. n = [floor |-> Aged(seen.floor, body.floor, Coyote),
            press |-> Aged(seen.press, sample.jump, Buffer),
            settled |-> IF body.floor THEN Lesser(seen.settled + 1, Recovery) ELSE 0,
            jumped |-> out.jumped, stepped |-> out.stepped,
            ceiling |-> Greater(seen.ceiling, out.cap),
            ticks |-> seen.ticks + 1, changes |-> seen.changes]
  BY <1>12 DEF Watched
<1>14. /\ n.floor = Aged(seen.floor, body.floor, Coyote)
       /\ n.press = Aged(seen.press, sample.jump, Buffer)
       /\ n.settled = IF body.floor THEN Lesser(seen.settled + 1, Recovery) ELSE 0
       /\ n.jumped = out.jumped /\ n.stepped = out.stepped
       /\ n.ceiling = Greater(seen.ceiling, out.cap)
       /\ n = [floor |-> n.floor, press |-> n.press, settled |-> n.settled, jumped |-> n.jumped,
               stepped |-> n.stepped, ceiling |-> n.ceiling, ticks |-> n.ticks,
               changes |-> n.changes]
  <2> HIDE DEF Aged
  <2> QED
    BY <1>13
<1>15. /\ Coyote \in Nat \ {0} /\ Buffer \in Nat \ {0} /\ Recovery \in Nat
       /\ seen.floor \in Nat /\ seen.press \in Nat /\ seen.settled \in Nat /\ seen.ceiling \in Nat
       /\ seen.jumped \in BOOLEAN
       /\ met.coyote \in Nat /\ met.buffer \in Nat /\ met.recovery \in Nat
  BY <1>5 DEF HorseBounds, HorseInv, Seen, Mount
<1>16. Seen(n)
  <2>1. n.floor \in Nat /\ n.press \in Nat
    BY <1>14, <1>15 DEF Lesser
  <2>2. n.settled \in Nat
    BY <1>6, <1>14, <1>15 DEF Lesser
  <2>3. n.ceiling \in Nat
    BY <1>7, <1>14, <1>15 DEF Greater
  <2> QED
    BY <1>7, <1>14, <2>1, <2>2, <2>3 DEF Seen
<1>17. ~body.floor => n.floor = IF seen.jumped THEN Coyote ELSE Lesser(seen.floor + 1, Coyote)
  BY <1>14
<1>18. body.floor => n.floor = 0
  BY <1>14
<1>19. (seen.jumped => met.coyote = 0 /\ met.buffer = 0)
       /\ (~seen.jumped /\ met.coyote > 0 => met.coyote + seen.floor <= Coyote)
       /\ (~seen.jumped /\ met.buffer > 0 => met.buffer + seen.press < Buffer)
       /\ (body.floor => met.recovery + seen.settled >= Recovery)
  BY <1>5 DEF Timers
\* The floor contact: a coyote time that runs is at most as young as the contact.
<1>20. coyote > 0 => coyote + n.floor <= Coyote
  <2>1. CASE body.floor
    BY <1>15, <1>18, <2>1
  <2>2. CASE ~body.floor
    <3>1. SUFFICES ASSUME Ticked(met.coyote) > 0 PROVE Ticked(met.coyote) + n.floor <= Coyote
      BY <2>2
    <3>2. met.coyote > 0 /\ Ticked(met.coyote) = met.coyote - 1
      BY <1>15, <3>1, TickedIs
    <3>3. ~seen.jumped /\ met.coyote + seen.floor <= Coyote
      BY <1>19, <3>2
    <3>4. n.floor = Lesser(seen.floor + 1, Coyote)
      BY <1>17, <2>2, <3>3
    <3> QED
      BY <1>15, <3>2, <3>3, <3>4 DEF Lesser
  <2> QED
    BY <2>1, <2>2
<1>21. buffer > 0 => buffer + n.press <= Buffer /\ n.press < Buffer
  <2>1. CASE sample.jump
    <3>1. n.press = 0 /\ buffer = Buffer
      BY <1>14, <2>1
    <3> QED
      BY <1>15, <3>1
  <2>2. CASE ~sample.jump
    <3>1. SUFFICES ASSUME met.buffer > 0 PROVE met.buffer + n.press <= Buffer /\ n.press < Buffer
      BY <2>2
    <3>2. ~seen.jumped /\ met.buffer + seen.press < Buffer
      BY <1>19, <3>1, <1>15
    <3>3. n.press = Lesser(seen.press + 1, Buffer)
      BY <1>14, <2>2, <3>2
    <3> QED
      BY <1>15, <3>1, <3>2, <3>3 DEF Lesser
  <2> QED
    BY <2>1, <2>2
<1>22. body.floor => Ticked(met.recovery) + n.settled >= Recovery
  <2>1. SUFFICES ASSUME body.floor PROVE Ticked(met.recovery) + n.settled >= Recovery
    OBVIOUS
  <2>2. n.settled = Lesser(seen.settled + 1, Recovery)
    BY <1>14, <2>1
  <2>3. Ticked(met.recovery) \in Nat /\ Ticked(met.recovery) >= met.recovery - 1
    BY <1>15, TickedIs
  <2> QED
    BY <1>15, <1>19, <2>1, <2>2, <2>3 DEF Lesser
<1> HIDE DEF coyote, buffer, Aged
<1>23. Timers(m, b, n)
  <2>1. n.jumped => m.coyote = 0 /\ m.buffer = 0
    BY <1>7, <1>10, <1>14
  <2>2. ~n.jumped /\ m.coyote > 0 => m.coyote + n.floor <= Coyote
    BY <1>7, <1>10, <1>14, <1>20
  <2>3. ~n.jumped /\ m.buffer > 0 => m.buffer + n.press < Buffer
    <3>1. SUFFICES ASSUME ~n.jumped, m.buffer > 0 PROVE m.buffer + n.press < Buffer
      OBVIOUS
    <3>2. m.buffer = Ticked(buffer)
      BY <1>7, <1>10, <1>14, <3>1
    <3>3. buffer > 0 /\ Ticked(buffer) = buffer - 1
      BY <1>7, <3>1, <3>2, TickedIs
    <3> QED
      BY <1>7, <1>15, <1>16, <1>21, <3>2, <3>3 DEF Seen
  <2>4. b.floor => m.recovery + n.settled >= Recovery
    <3>1. SUFFICES ASSUME b.floor PROVE m.recovery + n.settled >= Recovery
      OBVIOUS
    <3>2. CASE ~state.grounded
      <4>1. m.recovery = Recovery
        BY <1>10, <3>1, <3>2
      <4> QED
        BY <1>15, <1>16, <4>1 DEF Seen
    <3>3. CASE state.grounded
      <4>1. ~out.jumped /\ body.floor /\ state.recovery = Ticked(met.recovery)
        BY <1>7, <3>3
      <4>2. m.recovery = state.recovery
        BY <1>10, <3>3
      <4> QED
        BY <1>22, <4>1, <4>2
    <3> QED
      BY <3>2, <3>3
  <2> QED
    BY <2>1, <2>2, <2>3, <2>4 DEF Timers
<1>24. Earned(n)
  <2>1. ASSUME n.jumped PROVE n.floor < Coyote
    <3>1. body.floor \/ coyote > 0
      BY <1>7, <1>14, <2>1
    <3>2. CASE body.floor
      BY <1>15, <1>18, <3>2
    <3>3. CASE coyote > 0
      BY <1>7, <1>15, <1>16, <1>20, <3>3 DEF Seen
    <3> QED
      BY <3>1, <3>2, <3>3
  <2>2. ASSUME n.jumped PROVE n.press < Buffer
    BY <1>7, <1>14, <1>21, <2>2
  <2>3. ASSUME n.stepped PROVE n.settled >= Recovery
    <3>1. state.grounded /\ state.recovery = 0
      BY <1>7, <1>14, <2>3
    <3>2. ~out.jumped /\ body.floor /\ Ticked(met.recovery) = 0
      BY <1>7, <3>1
    <3> QED
      BY <1>16, <1>22, <3>2, <1>15 DEF Seen
  <2> QED
    BY <2>1, <2>2, <2>3 DEF Earned
<1>25. met.forward = body.forward /\ body.forward <= seen.ceiling /\ body.forward \in Int
       /\ state.forward \in Int
  BY <1>5, <1>7 DEF Paced, HorseInv, Body, Mount
<1>26. Paced(m, b, n)
  <2>1. b.forward <= n.ceiling
    BY <1>7, <1>8, <1>14, <1>15, <1>25 DEF Greater
  <2> QED
    BY <1>10, <2>1 DEF Paced
<1>27. NoDiagonalLaunch
  <2>1. SUFFICES ASSUME body.lateral # 0 PROVE b.forward <= Greater(body.forward, SlideSpeed)
    BY <1>11 DEF NoDiagonalLaunch
  <2>2. state.forward <= body.forward \/ state.forward <= SlideSpeed
    BY <1>5, <1>7, <1>25, <2>1
  <2>3. SlideSpeed \in Nat
    BY DEF HorseBounds
  <2> QED
    BY <1>8, <1>25, <2>2, <2>3 DEF Greater
<1>28. seen' = n /\ setup' = setup
  BY <1>2, <1>12 DEF Tick
<1>29. HorseInv'
  BY <1>8, <1>10, <1>11, <1>16, <1>23, <1>24, <1>26, <1>28
  DEF HorseInv
<1> QED
  BY <1>27, <1>29

\* A horse and a body at the spawn.
LEMMA Fresh ==
    ASSUME HorseBounds, NEW b, NEW n, Body(b), b.forward = 0, Seen(n), n.floor = 0,
           n.settled = Recovery, n.press = Buffer, ~n.jumped, ~n.stepped
    PROVE  /\ Mount(FreshState) /\ Timers(FreshState, b, n) /\ Earned(n)
           /\ Paced(FreshState, b, n)
<1>1. PICK h : h = FreshState
  OBVIOUS
<1>2. Mount(h) /\ h.coyote = Coyote /\ h.buffer = 0 /\ h.recovery = 0 /\ h.forward = 0
  BY <1>1 DEF FreshState, Mount, Idle, HorseBounds
<1>3. Timers(h, b, n)
  BY <1>2 DEF Timers, HorseBounds
<1>4. Paced(h, b, n)
  BY <1>2 DEF Paced, Seen
<1> QED
  BY <1>1, <1>2, <1>3, <1>4 DEF Earned

LEMMA ResetKeeps ==
    ASSUME HorseBounds, HorseInv, Reset
    PROVE  HorseInv' /\ NoDiagonalLaunch
<1>1. PICK b : b = [body EXCEPT !.forward = 0, !.lateral = 0, !.rise = 0]
  OBVIOUS
<1>2. b = [forward |-> 0, lateral |-> 0, rise |-> 0, floor |-> body.floor]
  BY <1>1 DEF HorseInv, Body
<1>3. Body(b) /\ b.forward = 0
  BY <1>2 DEF HorseInv, Body
<1>4. PICK n : n = [Unused EXCEPT !.ceiling = seen.ceiling, !.ticks = seen.ticks + 1,
                                  !.changes = seen.changes]
  OBVIOUS
<1>5. n = [floor |-> 0, press |-> Buffer, settled |-> Recovery, jumped |-> FALSE,
           stepped |-> FALSE, ceiling |-> seen.ceiling, ticks |-> seen.ticks + 1,
           changes |-> seen.changes]
  BY <1>4 DEF Unused
<1>6. /\ Seen(n) /\ n.floor = 0 /\ n.settled = Recovery /\ n.press = Buffer
      /\ ~n.jumped /\ ~n.stepped
  <2>1. seen.ceiling \in Nat /\ Buffer \in Nat /\ Recovery \in Nat
    BY DEF HorseInv, Seen, HorseBounds
  <2> QED
    BY <1>5, <2>1 DEF Seen
<1>7. horse' = FreshState /\ body' = b /\ seen' = n /\ setup' = setup
  BY <1>1, <1>4 DEF Reset
<1>8. NoDiagonalLaunch
  <2>1. body'.forward = 0 /\ SlideSpeed \in Nat /\ body.forward \in Int
    BY <1>3, <1>7 DEF HorseBounds, HorseInv, Body
  <2> QED
    BY <2>1 DEF NoDiagonalLaunch, Greater
<1> QED
  BY <1>3, <1>6, <1>7, <1>8, Fresh DEF HorseInv

LEMMA RefusedKeeps ==
    ASSUME HorseBounds, HorseInv, RefusedTick
    PROVE  HorseInv' /\ NoDiagonalLaunch
<1>1. PICK m : m = ResolveMotion(setup, Clamped(setup, horse), body)
  OBVIOUS
<1>2. Mount(m) /\ Timers(m, body, seen) /\ Paced(m, body, seen)
  BY <1>1, RefreshedIs
<1>3. PICK n : n = [seen EXCEPT !.ticks = seen.ticks + 1]
  OBVIOUS
<1>4. /\ Seen(n) /\ n.floor = seen.floor /\ n.press = seen.press /\ n.settled = seen.settled
      /\ n.jumped = seen.jumped /\ n.stepped = seen.stepped /\ n.ceiling = seen.ceiling
  BY <1>3 DEF HorseInv, Seen
<1>5. horse' = m /\ body' = body /\ seen' = n /\ setup' = setup
  BY <1>1, <1>3 DEF RefusedTick
<1>6. Timers(m, body, n) /\ Earned(n) /\ Paced(m, body, n)
  BY <1>2, <1>4 DEF Timers, Earned, Paced, HorseInv
<1>7. NoDiagonalLaunch
  <2>1. SlideSpeed \in Nat /\ body.forward \in Int
    BY DEF HorseBounds, HorseInv, Body
  <2> QED
    BY <1>5, <2>1 DEF NoDiagonalLaunch, Greater
<1> QED
  BY <1>2, <1>4, <1>5, <1>6, <1>7 DEF HorseInv

\* The calls between ticks count themselves and leave the rest of the history alone.
LEMMA ChangedIs ==
    ASSUME HorseInv
    PROVE  LET n == Changed
           IN  /\ Seen(n) /\ n.floor = seen.floor /\ n.press = seen.press
               /\ n.settled = seen.settled /\ n.jumped = seen.jumped
               /\ n.stepped = seen.stepped /\ n.ceiling = seen.ceiling
<1>1. PICK k : k = seen.changes + 1
  OBVIOUS
<1>2. Changed = [seen EXCEPT !.changes = k]
  BY <1>1 DEF Changed
<1> QED
  BY <1>2 DEF HorseInv, Seen

LEMMA ArchetypeKeeps ==
    ASSUME HorseBounds, HorseInv, NEW a \in DOMAIN Row, SetArchetype(a)
    PROVE  HorseInv' /\ NoDiagonalLaunch
<1>1. PICK s : s = [setup EXCEPT !.row = a]
  OBVIOUS
<1>2. Setup(s) /\ s = [row |-> s.row, charge |-> s.charge, buffs |-> s.buffs]
  BY <1>1 DEF HorseInv, Setup
<1>3. PICK h : h = Clamped(s, horse)
  OBVIOUS
<1>4. ForwardCap(s) \in Int
  <2>1. Stats(s).gallop \in Int /\ Stats(s).sprint \in Int
    BY <1>2, StatsAre DEF DesignRow
  <2> QED
    BY <2>1, BuffedIs DEF ForwardCap
<1>5. PICK back \in Int : back = -Stats(s).reverse /\ back <= 0
  <2>1. Stats(s).reverse \in Nat
    BY <1>2, StatsAre DEF DesignRow
  <2> QED
    BY <2>1
<1>6. /\ Mount(h) /\ h.grounded = horse.grounded /\ h.coyote = horse.coyote
      /\ h.buffer = horse.buffer /\ h.recovery = horse.recovery
      /\ h.forward = Within(horse.forward, back, ForwardCap(s))
  BY <1>2, <1>3, <1>4, <1>5, ClampedIs DEF HorseInv
<1>7. h.forward \in Int /\ horse.forward \in Int /\ SlideSpeed \in Nat
      /\ h.forward <= ForwardCap(s) /\ h.forward <= Greater(horse.forward, 0)
  <2>1. horse.forward \in Int
    BY DEF HorseInv, Mount
  <2> QED
    BY <1>4, <1>5, <1>6, <2>1, Between DEF HorseBounds, Mount
<1>8. PICK b : b = Moved(h, body)
  OBVIOUS
<1>9. b = [forward |-> h.forward, lateral |-> h.lateral, rise |-> body.rise, floor |-> body.floor]
  BY <1>8 DEF Moved, HorseInv, Body
<1>10. Body(b) /\ b.forward = h.forward /\ b.floor = body.floor
  BY <1>6, <1>9 DEF Body, HorseInv, Mount
<1>11. PICK c : c = Greater(ForwardCap(s), SlideSpeed)
  OBVIOUS
<1>12. c \in Nat /\ h.forward <= c
  BY <1>4, <1>7, <1>11 DEF Greater
<1>13. PICK n : n = [Changed EXCEPT !.ceiling = c]
  OBVIOUS
<1>14. /\ Seen(n) /\ n.floor = seen.floor /\ n.press = seen.press
       /\ n.settled = seen.settled /\ n.jumped = seen.jumped
       /\ n.stepped = seen.stepped /\ n.ceiling = c
  <2>1. PICK k : k = Changed
    OBVIOUS
  <2>2. /\ Seen(k) /\ k.floor = seen.floor /\ k.press = seen.press
        /\ k.settled = seen.settled /\ k.jumped = seen.jumped /\ k.stepped = seen.stepped
    BY <2>1, ChangedIs
  <2>3. n = [floor |-> k.floor, press |-> k.press, settled |-> k.settled, jumped |-> k.jumped,
             stepped |-> k.stepped, ceiling |-> c, ticks |-> k.ticks, changes |-> k.changes]
    BY <1>13, <2>1, <2>2 DEF Seen
  <2> QED
    BY <1>12, <2>2, <2>3 DEF Seen
<1>15. setup' = s /\ horse' = h /\ body' = b /\ seen' = n
  BY <1>1, <1>3, <1>8, <1>11, <1>13 DEF SetArchetype
<1>16. Timers(h, b, n) /\ Earned(n) /\ Paced(h, b, n)
  BY <1>6, <1>10, <1>12, <1>14 DEF HorseInv, Timers, Earned, Paced
<1>17. NoDiagonalLaunch
  <2>1. h.forward <= Greater(body.forward, SlideSpeed)
    <3>1. horse.forward = body.forward
      BY DEF HorseInv, Paced
    <3> QED
      BY <1>7, <3>1 DEF Greater
  <2> QED
    BY <1>10, <1>15, <2>1 DEF NoDiagonalLaunch
<1> QED
  BY <1>2, <1>6, <1>10, <1>14, <1>15, <1>16, <1>17 DEF HorseInv

\* A call that touches neither the body nor a timer.
LEMMA TuningKeeps ==
    ASSUME HorseBounds, HorseInv, Setup(setup)',
           (setup = [row |-> setup.row, charge |-> setup.charge, buffs |-> setup.buffs])',
           NEW f, f \in Int, horse' = [horse EXCEPT !.footing = f],
           body' = body, seen' = Changed
    PROVE  HorseInv' /\ NoDiagonalLaunch
<1>1. PICK h : h = horse'
  OBVIOUS
<1>2. h = [gait |-> horse.gait, forward |-> horse.forward, lateral |-> horse.lateral,
           rise |-> horse.rise, turn |-> horse.turn, footing |-> f, grounded |-> horse.grounded,
           coyote |-> horse.coyote, buffer |-> horse.buffer, recovery |-> horse.recovery,
           slow |-> horse.slow, hold |-> horse.hold]
  BY <1>1 DEF HorseInv, Mount
<1>3. /\ Mount(h) /\ h.forward = horse.forward /\ h.coyote = horse.coyote
      /\ h.buffer = horse.buffer /\ h.recovery = horse.recovery
  BY <1>2 DEF HorseInv, Mount
<1>4. PICK n : n = Changed
  OBVIOUS
<1>5. /\ Seen(n) /\ n.floor = seen.floor /\ n.press = seen.press
      /\ n.settled = seen.settled /\ n.jumped = seen.jumped
      /\ n.stepped = seen.stepped /\ n.ceiling = seen.ceiling
  BY <1>4, ChangedIs
<1>6. Timers(h, body, n) /\ Earned(n) /\ Paced(h, body, n)
  BY <1>3, <1>5 DEF HorseInv, Timers, Earned, Paced
<1>7. NoDiagonalLaunch
  <2>1. SlideSpeed \in Nat /\ body.forward \in Int
    BY DEF HorseBounds, HorseInv, Body
  <2> QED
    BY <2>1 DEF NoDiagonalLaunch, Greater
<1>8. seen' = n
  BY <1>4
<1> QED
  BY <1>1, <1>3, <1>5, <1>6, <1>7, <1>8 DEF HorseInv

LEMMA ChargeKeeps ==
    ASSUME HorseBounds, HorseInv, NEW active \in BOOLEAN, SetMajesticChargeActive(active)
    PROVE  HorseInv' /\ NoDiagonalLaunch
<1>1. PICK s : s = [setup EXCEPT !.charge = active]
  OBVIOUS
<1>2. Setup(s) /\ s = [row |-> s.row, charge |-> s.charge, buffs |-> s.buffs]
  BY <1>1 DEF HorseInv, Setup
<1>3. PICK f \in Int : f = IF active THEN 100 ELSE horse.footing
  BY DEF HorseInv, Mount
<1>4. horse' = [horse EXCEPT !.footing = f]
  BY <1>3 DEF SetMajesticChargeActive
<1>5. setup' = s /\ body' = body /\ seen' = Changed
  BY <1>1 DEF SetMajesticChargeActive
<1>6. Setup(setup)' /\ (setup = [row |-> setup.row, charge |-> setup.charge, buffs |-> setup.buffs])'
  BY <1>2, <1>5
<1> QED
  BY <1>4, <1>5, <1>6, TuningKeeps

LEMMA BuffKeeps ==
    ASSUME HorseBounds, HorseInv, NEW b, NEW active \in BOOLEAN, SetBuffActive(b, active)
    PROVE  HorseInv' /\ NoDiagonalLaunch
<1>1. PICK k : k = IF active THEN setup.buffs \union {b} ELSE setup.buffs \ {b}
  OBVIOUS
<1>2. PICK s : s = [setup EXCEPT !.buffs = k]
  OBVIOUS
<1>3. Setup(s) /\ s = [row |-> s.row, charge |-> s.charge, buffs |-> s.buffs]
  BY <1>2 DEF HorseInv, Setup
<1>4. setup' = s /\ horse' = horse /\ body' = body /\ seen' = Changed
  BY <1>1, <1>2 DEF SetBuffActive
<1>5. horse' = [horse EXCEPT !.footing = horse.footing] /\ horse.footing \in Int
  BY <1>4 DEF HorseInv, Mount
<1>6. Setup(setup)' /\ (setup = [row |-> setup.row, charge |-> setup.charge, buffs |-> setup.buffs])'
  BY <1>3, <1>4
<1> QED
  BY <1>4, <1>5, <1>6, TuningKeeps

LEMMA GateKeeps ==
    ASSUME HorseBounds, HorseInv, NEW enabled \in BOOLEAN, SetInputEnabled(enabled)
    PROVE  HorseInv' /\ NoDiagonalLaunch
<1>1. setup' = setup /\ seen' = Changed
  BY DEF SetInputEnabled
<1>2. Setup(setup)' /\ (setup = [row |-> setup.row, charge |-> setup.charge, buffs |-> setup.buffs])'
  BY <1>1 DEF HorseInv
<1>3. CASE enabled
  <2>1. horse' = horse /\ body' = body
    BY <1>3 DEF SetInputEnabled
  <2>2. horse' = [horse EXCEPT !.footing = horse.footing] /\ horse.footing \in Int
    BY <2>1 DEF HorseInv, Mount
  <2> QED
    BY <1>1, <1>2, <2>1, <2>2, TuningKeeps
<1>4. CASE ~enabled
  <2>1. PICK b : b = [body EXCEPT !.forward = 0, !.lateral = 0, !.rise = 0]
    OBVIOUS
  <2>2. b = [forward |-> 0, lateral |-> 0, rise |-> 0, floor |-> body.floor]
    BY <2>1 DEF HorseInv, Body
  <2>3. Body(b) /\ b.forward = 0 /\ b.floor = body.floor
    BY <2>2 DEF HorseInv, Body
  <2>4. body' = b /\ horse' = ResolveMotion(setup, horse, b)
    BY <1>4, <2>1 DEF SetInputEnabled
  <2>5. PICK h : h = ResolveMotion(setup, horse, b)
    OBVIOUS
  <2>6. Mount(h) /\ Timers(h, b, seen) /\ Paced(h, b, seen)
    <3>1. Mount(horse)
      BY DEF HorseInv
    <3> QED
      BY <2>3, <2>5, <3>1, MetIs
  <2>7. PICK n : n = Changed
    OBVIOUS
  <2>8. /\ Seen(n) /\ n.floor = seen.floor /\ n.press = seen.press
        /\ n.settled = seen.settled /\ n.jumped = seen.jumped
        /\ n.stepped = seen.stepped /\ n.ceiling = seen.ceiling
    BY <2>7, ChangedIs
  <2>9. Timers(h, b, n) /\ Earned(n) /\ Paced(h, b, n)
    BY <2>6, <2>8 DEF HorseInv, Timers, Earned, Paced
  <2>10. NoDiagonalLaunch
    <3>1. SlideSpeed \in Nat /\ body.forward \in Int /\ body'.forward = 0
      BY <2>3, <2>4 DEF HorseBounds, HorseInv, Body
    <3> QED
      BY <3>1 DEF NoDiagonalLaunch, Greater
  <2>11. horse' = h /\ body' = b /\ seen' = n
    BY <1>1, <2>4, <2>5, <2>7
  <2> QED
    BY <1>2, <2>3, <2>6, <2>8, <2>9, <2>10, <2>11 DEF HorseInv
<1> QED
  BY <1>3, <1>4

LEMMA HorseStarts == ASSUME HorseBounds, Init PROVE HorseInv
<1>1. PICK b : b = [forward |-> 0, lateral |-> 0, rise |-> 0, floor |-> TRUE]
  OBVIOUS
<1>2. Body(b) /\ b.forward = 0
  BY <1>1 DEF Body
<1>3. PICK n : n = Unused
  OBVIOUS
<1>4. /\ Seen(n) /\ n.floor = 0 /\ n.settled = Recovery /\ n.press = Buffer
      /\ ~n.jumped /\ ~n.stepped
  BY <1>3 DEF Unused, Seen, HorseBounds
<1>5. PICK s : s = [row |-> "Mustang", charge |-> FALSE, buffs |-> {}]
  OBVIOUS
<1>6. Setup(s) /\ s = [row |-> s.row, charge |-> s.charge, buffs |-> s.buffs]
  BY <1>5 DEF Setup, HorseBounds
<1>7. horse = FreshState /\ setup = s /\ body = b /\ seen = n
  BY <1>1, <1>3, <1>5 DEF Init
<1> QED
  BY <1>2, <1>4, <1>6, <1>7, Fresh DEF HorseInv

LEMMA HorseStep ==
    ASSUME HorseBounds, HorseInv, [Next]_vars
    PROVE  HorseInv' /\ NoDiagonalLaunch
<1>1. CASE UNCHANGED vars
  <2>1. horse' = horse /\ setup' = setup /\ body' = body /\ seen' = seen
    BY <1>1 DEF vars
  <2>2. SlideSpeed \in Nat /\ body.forward \in Int
    BY DEF HorseBounds, HorseInv, Body
  <2>3. NoDiagonalLaunch
    BY <2>1, <2>2 DEF NoDiagonalLaunch, Greater
  <2> QED
    BY <2>1, <2>3 DEF HorseInv
<1>2. CASE SimulatePlayerControl
  <2>1. PICK in \in IF control.enabled THEN Input ELSE {NoInput} :
           (in.reset /\ Reset) \/ \E g \in Ground : Tick(in, g)
    BY <1>2 DEF SimulatePlayerControl
  <2>2. in.steer \in Int
    BY <2>1 DEF HorseBounds, NoInput
  <2> QED
    BY <2>1, <2>2, ResetKeeps, TickKeeps
<1>3. CASE RefusedTick
  BY <1>3, RefusedKeeps
<1>4. CASE FallOut \/ RespawnAt
  BY <1>4, ResetKeeps DEF FallOut, RespawnAt
<1>5. ASSUME NEW a \in DOMAIN Row, SetArchetype(a) PROVE HorseInv' /\ NoDiagonalLaunch
  BY <1>5, ArchetypeKeeps
<1>6. ASSUME NEW active \in BOOLEAN, SetMajesticChargeActive(active)
      PROVE  HorseInv' /\ NoDiagonalLaunch
  BY <1>6, ChargeKeeps
<1>7. ASSUME NEW b, NEW active \in BOOLEAN, SetBuffActive(b, active)
      PROVE  HorseInv' /\ NoDiagonalLaunch
  BY <1>7, BuffKeeps
<1>8. ASSUME NEW enabled \in BOOLEAN, SetInputEnabled(enabled)
      PROVE  HorseInv' /\ NoDiagonalLaunch
  BY <1>8, GateKeeps
<1> QED
  BY <1>1, <1>2, <1>3, <1>4, <1>5, <1>6, <1>7, <1>8 DEF Next

\* However presses, bumps, falls, refused ticks, respawns and changes of the tuning
\* interleave: a jump answers a press and a floor contact of its own that are recent
\* enough, a sidestep starts on a horse that has recovered from its landing, no forward
\* speed is gained while a sideways speed settles except by sliding downhill, and the
\* horse is never faster than some cap in force since the last change of archetype.
THEOREM MotionStaysEarned ==
    HorseBounds => (Spec => /\ [](JumpsAreEarned /\ SpeedIsEarned)
                            /\ [][NoDiagonalLaunch]_vars)
<1> SUFFICES ASSUME HorseBounds
             PROVE  Spec => [](JumpsAreEarned /\ SpeedIsEarned) /\ [][NoDiagonalLaunch]_vars
  OBVIOUS
<1>1. Init => HorseInv
  BY HorseStarts
<1>2. HorseInv /\ [Next]_vars => HorseInv' /\ [NoDiagonalLaunch]_vars
  BY HorseStep
<1>3. HorseInv => JumpsAreEarned /\ SpeedIsEarned
  BY DEF HorseInv, Earned, JumpsAreEarned, Paced, SpeedIsEarned
<1> QED
  BY <1>1, <1>2, <1>3, PTL DEF Spec

-----------------------------------------------------------------------------
(* The rider as a whole: vitality, footing, recall and Spur, driven by either *)
(* of the two adapters.                                                       *)
CONSTANTS
    MaxHealth, TickRate, RegenRate, RegenDelay, BoltTicks, StunTicks, StaminaTicks, StaminaRegen,
    RollTicks, RollCooldown, BufferTicks, BaseRecall, MinRecall, DamageUnit, HoofTicks,
    DustTicks, GallopTicks, WindowTicks, SpurMax, StyleCap, ChargeTicks,
    MaxTick, MaxEpoch, MaxEvents, TickSteps, DamageSeqs, FootKeys, Damages, Credits

VARIABLES adapter, actor, epoch, events, failed

Actor == INSTANCE ActorGameplay

\* Health, meters and times are counted; a horse has some health, and whatever lasts lasts
\* for at least a tick; the shortest recall is no longer than the usual one, and the mount
\* window lies within the gallop that brings the horse back.
ActorBounds ==
    /\ MaxHealth \in Nat \ {0} /\ TickRate \in Nat \ {0} /\ RegenRate \in Nat
    /\ RegenDelay \in Nat /\ BoltTicks \in Nat \ {0} /\ StunTicks \in Nat
    /\ StaminaTicks \in Nat /\ StaminaRegen \in Nat /\ RollTicks \in Nat \ {0}
    /\ RollCooldown \in Nat /\ BufferTicks \in Nat
    /\ BaseRecall \in Nat /\ MinRecall \in Nat /\ MinRecall <= BaseRecall
    /\ DamageUnit \in Nat \ {0} /\ HoofTicks \in Nat /\ DustTicks \in Nat
    /\ GallopTicks \in Nat /\ WindowTicks \in Nat /\ WindowTicks <= GallopTicks
    /\ SpurMax \in Nat /\ StyleCap \in Nat /\ ChargeTicks \in Nat \ {0}
    /\ Damages \subseteq Nat /\ Credits \subseteq Nat \cup {-1} /\ MaxTick \in Nat

Returning == {"Hoofbeats", "DustReveal", "GallopIn", "MountWindow", "WaitingMount"}

\* How long after the request a return phase begins.
Offset(phase) ==
    CASE phase = "Hoofbeats" -> 0
      [] phase = "DustReveal" -> HoofTicks
      [] phase = "GallopIn" -> HoofTicks + DustTicks
      [] phase = "MountWindow" -> HoofTicks + DustTicks + (GallopTicks - WindowTicks)
      [] phase = "WaitingMount" -> HoofTicks + DustTicks + GallopTicks

\* The tick at which damage is authored.
Now(n) == IF n = -1 THEN 0 ELSE n

HorseFits(h, n) ==
    /\ h = [health |-> h.health, state |-> h.state, boltStart |-> h.boltStart, away |-> h.away,
            lastId |-> h.lastId, tick |-> h.tick, regen |-> h.regen]
    /\ h.tick = n
    /\ h.health \in 0..MaxHealth /\ h.regen \in Nat /\ h.regen < TickRate
    /\ h.health = MaxHealth => h.regen = 0
    /\ h.lastId[2] \in Int /\ h.lastId[2] <= Now(n)
    /\ h.boltStart \in Int /\ h.boltStart <= Now(n)
    /\ \/ h.state = "Available" /\ h.health > 0 /\ h.boltStart = -1
       \/ h.state = "Bolting" /\ h.health = 0 /\ h.boltStart >= 0 /\ n - h.boltStart < BoltTicks
       \/ h.state = "Despawned" /\ h.health = 0 /\ h.boltStart >= 0
          /\ n - h.boltStart >= BoltTicks

FootFits(f, n) ==
    /\ f = [tick |-> f.tick, state |-> f.state, stamina |-> f.stamina, crouch |-> f.crouch,
            buffer |-> f.buffer, rollStart |-> f.rollStart, cooldown |-> f.cooldown,
            rollExit |-> f.rollExit, stunUntil |-> f.stunUntil]
    /\ f.tick \in Int /\ -1 <= f.tick /\ f.tick <= n
    /\ f.stamina \in Int /\ f.stamina <= Actor!StaminaFull
    /\ f.rollExit \in Int /\ f.rollExit <= f.tick
    /\ f.rollStart \in Int /\ f.stunUntil \in Int
    /\ \/ f.state = "SpookStunned" /\ f.rollStart = -1 /\ f.stunUntil # -1 /\ f.tick < f.stunUntil
       \/ /\ f.state = "Rolling" /\ f.stunUntil = -1 /\ f.rollStart # -1
          /\ f.rollStart <= f.tick /\ f.tick - f.rollStart < RollTicks
       \/ f.state \in {"Standing", "Sprinting", "Crouched"} /\ f.stunUntil = -1 /\ f.rollStart = -1

IsRecall(r) ==
    /\ r = [state |-> r.state, tick |-> r.tick, lossTick |-> r.lossTick, lostTick |-> r.lostTick,
            enter |-> r.enter, earned |-> r.earned, remainder |-> r.remainder,
            credit |-> r.credit, row |-> r.row]
    /\ r.row = [lost |-> r.row.lost, remount |-> r.row.remount]
    /\ r.tick \in Int /\ r.lossTick \in Int /\ r.lostTick \in Int /\ r.enter \in Int
    /\ r.earned \in Nat /\ r.earned <= BaseRecall - MinRecall
    /\ r.remainder \in Nat /\ r.remainder < DamageUnit
    /\ r.credit[2] \in Int
    /\ r.credit # Actor!NoId =>
          r.lostTick # -1 /\ r.lostTick <= r.credit[2] /\ r.credit[2] <= r.tick

\* A horse that is away: the bolt lies behind it, Ready came no earlier than the floor,
\* and a return phase no earlier than the phases before it take.
Away(r) ==
    /\ r.lossTick >= 0 /\ r.lostTick = r.lossTick + BoltTicks
    /\ r.lostTick <= r.enter /\ r.enter <= r.tick
    /\ r.row = [lost |-> r.lossTick, remount |-> -1]
    /\ \/ r.state = "CoolingDown"
       \/ r.state = "Ready" /\ r.enter >= r.lostTick + MinRecall
       \/ r.state \in Returning /\ r.enter >= r.lostTick + Offset(r.state)

Home(r) ==
    /\ r.state = "HorsePresent"
    /\ \/ r.row = Actor!NoRow /\ [r EXCEPT !.tick = -1] = Actor!NewRecall
       \/ /\ r.row.lost = r.lossTick /\ r.lostTick >= 0
          /\ r.enter = r.row.remount /\ r.lostTick <= r.row.remount

RecallFits(r, n) == IsRecall(r) /\ r.tick <= n /\ (Home(r) \/ Away(r))

SpurFits(s, n) ==
    /\ s = [tick |-> s.tick, meter |-> s.meter, style |-> s.style, lastId |-> s.lastId,
            next |-> s.next, held |-> s.held, start |-> s.start, end |-> s.end]
    /\ s.tick = n /\ s.meter \in Int /\ s.meter <= SpurMax /\ s.style \in Int
    /\ s.style <= StyleCap /\ s.next \in Nat \ {0}
    /\ s.lastId[2] \in Int /\ s.lastId[3] \in Int
    /\ s.lastId # Actor!NoId => s.lastId[3] < s.next /\ s.lastId[2] <= s.tick
    /\ s.start \in Int /\ s.end \in Int
    /\ \/ s.start = -1 /\ s.end = -1
       \/ s.start # -1 /\ s.end = s.start + ChargeTicks /\ s.start <= s.tick /\ s.tick < s.end

\* What the kernels know of each other: whose horse is where, and since when.
Crossed(h, r, loss) ==
    \/ h.state = "Available" /\ Home(r) /\ loss = -1
    \/ h.state = "Bolting" /\ Home(r) /\ loss = h.boltStart
    \/ h.state = "Despawned" /\ Away(r) /\ loss = r.lossTick

ActorFits(a) ==
    /\ a = [tick |-> a.tick, horse |-> a.horse, foot |-> a.foot, recall |-> a.recall,
            lossTick |-> a.lossTick, pending |-> a.pending, spur |-> a.spur]
    /\ a.tick \in Int /\ a.tick >= -1
    /\ HorseFits(a.horse, a.tick) /\ FootFits(a.foot, a.tick) /\ RecallFits(a.recall, a.tick)
    /\ SpurFits(a.spur, a.tick)
    /\ Crossed(a.horse, a.recall, a.lossTick)

ActorInv == ActorFits(actor) /\ failed = FALSE

-----------------------------------------------------------------------------
(* The greater and the lesser of two numbers. *)

LEMMA MaxOfTwo ==
    ASSUME NEW a \in Int, NEW b \in Int
    PROVE  Actor!Max({a, b}) = IF a >= b THEN a ELSE b
BY DEF Actor!Max

LEMMA MinOfTwo ==
    ASSUME NEW a \in Int, NEW b \in Int
    PROVE  Actor!Min({a, b}) = IF a <= b THEN a ELSE b
BY DEF Actor!Min

LEMMA Divided ==
    ASSUME NEW n \in Nat, NEW d \in Nat \ {0}
    PROVE  n \div d \in Nat /\ n % d \in Nat /\ n % d < d
OBVIOUS

LEMMA PhaseRows ==
    LET P == Actor!ReturnPhases
    IN  /\ P[1].state = "Hoofbeats" /\ P[2].state = "DustReveal" /\ P[3].state = "GallopIn"
        /\ P[4].state = "MountWindow" /\ P[5].state = "WaitingMount"
        /\ P[1].ticks = HoofTicks /\ P[2].ticks = DustTicks
        /\ P[3].ticks = GallopTicks - WindowTicks /\ P[4].ticks = WindowTicks
BY DEF Actor!ReturnPhases

LEMMA PhasesAre == {Actor!ReturnPhases[k].state : k \in 1..5} = Returning
<1>1. 1..5 = {1, 2, 3, 4, 5}
  OBVIOUS
<1> QED
  BY <1>1, PhaseRows DEF Returning

LEMMA GreatestPhase ==
    ASSUME NEW S \in SUBSET (1..5), S # {}
    PROVE  Actor!Max(S) \in S
<1>1. ASSUME NEW k \in S, \A m \in S : m <= k PROVE Actor!Max(S) \in S
  BY <1>1 DEF Actor!Max
<1>2. \A m \in S : m = 1 \/ m = 2 \/ m = 3 \/ m = 4 \/ m = 5
  OBVIOUS
<1>3. \E k \in S : \A m \in S : m <= k
  <2>1. CASE 5 \in S
    BY <1>2, <2>1
  <2>2. CASE 5 \notin S /\ 4 \in S
    BY <1>2, <2>2
  <2>3. CASE 5 \notin S /\ 4 \notin S /\ 3 \in S
    BY <1>2, <2>3
  <2>4. CASE 5 \notin S /\ 4 \notin S /\ 3 \notin S /\ 2 \in S
    BY <1>2, <2>4
  <2>5. CASE 5 \notin S /\ 4 \notin S /\ 3 \notin S /\ 2 \notin S
    <3>1. PICK k \in S : TRUE
      OBVIOUS
    <3>2. k = 1 /\ \A m \in S : m = 1
      BY <1>2, <2>5
    <3> QED
      BY <3>2
  <2> QED
    BY <2>1, <2>2, <2>3, <2>4, <2>5
<1> QED
  BY <1>1, <1>3

\* A return moves through its phases on time, however many boundaries a tick crosses.
LEMMA PhaseMoves ==
    ASSUME ActorBounds, NEW r, r.state \in Returning, r.enter \in Int, NEW t \in Int, r.enter <= t
    PROVE  \E phase \in Returning, e \in Int :
              /\ Actor!PhaseAt(r, t) = [r EXCEPT !.state = phase, !.enter = e]
              /\ e - Offset(phase) = r.enter - Offset(r.state)
              /\ r.enter <= e /\ e <= t
<1> DEFINE P == Actor!ReturnPhases
           i == CHOOSE k \in 1..5 : P[k].state = r.state
           end == CHOOSE f : f = [k \in i..5 |-> IF k = i THEN r.enter ELSE f[k - 1] + P[k - 1].ticks]
           j == Actor!Max({k \in i..5 : k = i \/ t >= end[k]})
           O(k) == Offset(P[k].state)
<1>1. i \in 1..5 /\ P[i].state = r.state
  BY PhaseRows DEF Returning
<1>2. \A k \in 1..5 : O(k) \in Nat
  BY PhaseRows DEF Offset, ActorBounds
<1>3. \A k \in 2..5 : O(k) = O(k - 1) + P[k - 1].ticks /\ O(k) >= O(k - 1)
  <2>1. O(1) = 0 /\ O(2) = HoofTicks /\ O(3) = HoofTicks + DustTicks
        /\ O(4) = HoofTicks + DustTicks + (GallopTicks - WindowTicks)
        /\ O(5) = HoofTicks + DustTicks + GallopTicks
    BY PhaseRows DEF Offset
  <2> HIDE DEF O, P
  <2>2. \A k \in 2..5 : k = 2 \/ k = 3 \/ k = 4 \/ k = 5
    OBVIOUS
  <2>3. 2 - 1 = 1 /\ 3 - 1 = 2 /\ 4 - 1 = 3 /\ 5 - 1 = 4
    OBVIOUS
  <2> QED
    BY <2>1, <2>2, <2>3, PhaseRows DEF ActorBounds, P
<1>4. Actor!PhaseAt(r, t) = [r EXCEPT !.state = P[j].state, !.enter = end[j]]
  BY DEF Actor!PhaseAt
<1> HIDE DEF i, O, P
<1>5. end = [k \in i..5 |-> IF k = i THEN r.enter ELSE end[k - 1] + P[k - 1].ticks]
  <2> DEFINE Fits(f) == f = [k \in i..5 |-> IF k = i THEN r.enter ELSE f[k - 1] + P[k - 1].ticks]
             g == [k \in i..5 |-> r.enter + O(k) - O(i)]
  <2>1. ASSUME NEW k \in i..5
        PROVE  g[k] = IF k = i THEN r.enter ELSE g[k - 1] + P[k - 1].ticks
    <3>1. k \in 1..5 /\ O(k) \in Nat /\ O(i) \in Nat
      BY <1>1, <1>2
    <3>2. CASE k = i
      BY <3>1, <3>2
    <3>3. CASE k # i
      <4>1. k - 1 \in i..5 /\ k \in 2..5 /\ k - 1 \in 1..5
        BY <1>1, <3>3
      <4>2. O(k) = O(k - 1) + P[k - 1].ticks /\ O(k - 1) \in Nat
        BY <1>2, <1>3, <4>1
      <4>3. g[k] = r.enter + O(k) - O(i) /\ g[k - 1] = r.enter + O(k - 1) - O(i)
        BY <4>1
      <4>4. P[k - 1].ticks \in Int
        <5>1. k = 2 \/ k = 3 \/ k = 4 \/ k = 5
          BY <4>1
        <5>2. 2 - 1 = 1 /\ 3 - 1 = 2 /\ 4 - 1 = 3 /\ 5 - 1 = 4
          OBVIOUS
        <5> QED
          BY <5>1, <5>2, PhaseRows DEF ActorBounds, P
      <4> HIDE DEF g
      <4> QED
        BY <3>1, <3>3, <4>2, <4>3, <4>4
    <3> QED
      BY <3>2, <3>3
  <2>2. Fits(g)
    BY <2>1
  <2> HIDE DEF g
  <2>3. Fits(CHOOSE f : Fits(f))
    BY <2>2
  <2> QED
    BY <2>3
<1> HIDE DEF end
<1>6. \A k \in i..5 : end[k] = r.enter + O(k) - O(i)
  <2>1. ASSUME NEW k \in i..5
        PROVE  /\ k = i => end[k] = r.enter + O(k) - O(i)
               /\ k # i /\ end[k - 1] = r.enter + O(k - 1) - O(i) => end[k] = r.enter + O(k) - O(i)
    <3>1. k \in 1..5 /\ O(k) \in Nat /\ O(i) \in Nat
      BY <1>1, <1>2
    <3>2. CASE k = i
      <4>1. end[k] = r.enter
        BY <1>5, <3>2
      <4> QED
        BY <3>1, <3>2, <4>1
    <3>3. CASE k # i
      <4>1. end[k] = end[k - 1] + P[k - 1].ticks
        BY <1>5, <3>3
      <4>2. k \in 2..5 /\ k - 1 \in 1..5
        BY <1>1, <3>3
      <4>3. O(k) = O(k - 1) + P[k - 1].ticks /\ O(k - 1) \in Nat
        BY <1>2, <1>3, <4>2
      <4>4. P[k - 1].ticks \in Int
        <5>1. k = 2 \/ k = 3 \/ k = 4 \/ k = 5
          BY <4>2
        <5>2. 2 - 1 = 1 /\ 3 - 1 = 2 /\ 4 - 1 = 3 /\ 5 - 1 = 4
          OBVIOUS
        <5> QED
          BY <5>1, <5>2, PhaseRows DEF ActorBounds, P
      <4> QED
        BY <3>1, <3>3, <4>1, <4>3, <4>4
    <3> QED
      BY <3>2, <3>3
  <2> DEFINE Right(k) == k \in i..5 => end[k] = r.enter + O(k) - O(i)
  <2>2. \A k \in 1..5 : (k = 1 \/ Right(k - 1)) => Right(k)
    <3> SUFFICES ASSUME NEW k \in 1..5, k = 1 \/ Right(k - 1), k \in i..5
                 PROVE  end[k] = r.enter + O(k) - O(i)
      OBVIOUS
    <3>1. k = i \/ (k # i /\ k - 1 \in i..5)
      BY <1>1
    <3> QED
      BY <1>1, <2>1, <3>1
  <2>3. 2 - 1 = 1 /\ 3 - 1 = 2 /\ 4 - 1 = 3 /\ 5 - 1 = 4 /\ 1 \in 1..5 /\ 2 \in 1..5
        /\ 3 \in 1..5 /\ 4 \in 1..5 /\ 5 \in 1..5
    OBVIOUS
  <2> HIDE DEF Right
  <2>4. Right(1)
    BY <2>2, <2>3
  <2>5. Right(2)
    BY <2>2, <2>3, <2>4
  <2>6. Right(3)
    BY <2>2, <2>3, <2>5
  <2>7. Right(4)
    BY <2>2, <2>3, <2>6
  <2>8. Right(5)
    BY <2>2, <2>3, <2>7
  <2>9. \A k \in i..5 : k = 1 \/ k = 2 \/ k = 3 \/ k = 4 \/ k = 5
    BY <1>1
  <2> QED
    BY <2>4, <2>5, <2>6, <2>7, <2>8, <2>9 DEF Right
<1>7. j \in i..5 /\ (j = i \/ t >= end[j])
  <2> DEFINE S == {k \in i..5 : k = i \/ t >= end[k]}
  <2>1. S \in SUBSET (1..5) /\ i \in S
    BY <1>1
  <2> HIDE DEF S
  <2>2. Actor!Max(S) \in S
    BY <2>1, GreatestPhase
  <2> QED
    BY <2>2 DEF S
<1> HIDE DEF j
<1>8. j \in 1..5 /\ end[j] = r.enter + O(j) - O(i) /\ O(j) \in Nat /\ O(i) \in Nat
  BY <1>1, <1>2, <1>6, <1>7
<1>9. O(j) >= O(i)
  <2>1. O(2) >= O(1) /\ O(3) >= O(2) /\ O(4) >= O(3) /\ O(5) >= O(4)
    <3>1. 2 - 1 = 1 /\ 3 - 1 = 2 /\ 4 - 1 = 3 /\ 5 - 1 = 4 /\ 2 \in 2..5 /\ 3 \in 2..5
          /\ 4 \in 2..5 /\ 5 \in 2..5
      OBVIOUS
    <3> QED
      BY <1>3, <3>1
  <2>2. O(1) \in Nat /\ O(2) \in Nat /\ O(3) \in Nat /\ O(4) \in Nat /\ O(5) \in Nat
    BY <1>2
  <2>3. (i = 1 \/ i = 2 \/ i = 3 \/ i = 4 \/ i = 5) /\ (j = 1 \/ j = 2 \/ j = 3 \/ j = 4 \/ j = 5)
        /\ i <= j
    BY <1>1, <1>7
  <2> QED
    BY <2>1, <2>2, <2>3
<1>10. P[j].state \in Returning
  <2>1. j = 1 \/ j = 2 \/ j = 3 \/ j = 4 \/ j = 5
    BY <1>8
  <2> QED
    BY <2>1, PhaseRows DEF Returning, P
<1>11. O(i) = Offset(r.state) /\ O(j) = Offset(P[j].state)
  BY <1>1 DEF O
<1>12. PICK e \in Int : e = end[j]
  BY <1>8
<1>13. /\ e - Offset(P[j].state) = r.enter - Offset(r.state)
       /\ r.enter <= e /\ e <= t
  BY <1>6, <1>7, <1>8, <1>9, <1>11, <1>12
<1> QED
  BY <1>4, <1>10, <1>12, <1>13

-----------------------------------------------------------------------------
(* The kernels, one by one.                                                *)

LEMMA HorseRegeneratedIs ==
    ASSUME ActorBounds, NEW h, NEW n \in Int, HorseFits(h, n), NEW t \in Int, t > n
    PROVE  LET g == Actor!HorseRegenerated(h, t)
           IN  /\ g = [health |-> g.health, state |-> h.state, boltStart |-> h.boltStart,
                       away |-> h.away, lastId |-> h.lastId, tick |-> n, regen |-> g.regen]
               /\ g.health \in 0..MaxHealth /\ g.regen \in Nat /\ g.regen < TickRate
               /\ g.health = MaxHealth => g.regen = 0
               /\ IF h.state = "Available" THEN g.health > 0 ELSE g.health = h.health
<1> DEFINE g == Actor!HorseRegenerated(h, t)
           boundary == h.lastId[2] + RegenDelay
           start == IF h.tick = Actor!NoTick THEN boundary ELSE Actor!Max({h.tick + 1, boundary})
           units == h.regen + (t - start + 1) * RegenRate
           health == Actor!Min({MaxHealth, h.health + units \div TickRate})
           regen == IF health = MaxHealth THEN 0 ELSE units % TickRate
           runs == /\ h.state = "Available" /\ h.health < MaxHealth
                   /\ h.lastId # Actor!NoId /\ t >= start
<1>1. g = IF runs THEN [h EXCEPT !.health = health, !.regen = regen] ELSE h
  BY DEF Actor!HorseRegenerated
<1>2. CASE ~runs
  <2>1. g = h
    BY <1>1, <1>2
  <2> HIDE DEF g, runs
  <2>2. g.health \in 0..MaxHealth /\ g.regen \in Nat /\ g.regen < TickRate
        /\ (g.health = MaxHealth => g.regen = 0)
        /\ (IF h.state = "Available" THEN g.health > 0 ELSE g.health = h.health)
    BY <2>1 DEF HorseFits
  <2>3. g = [health |-> g.health, state |-> h.state, boltStart |-> h.boltStart,
             away |-> h.away, lastId |-> h.lastId, tick |-> n, regen |-> g.regen]
    BY <2>1 DEF HorseFits
  <2> QED
    BY <2>2, <2>3 DEF g
<1>3. CASE runs
  <2>1. h.health \in 1..MaxHealth /\ h.regen \in Nat /\ boundary \in Int /\ h.tick \in Int
        /\ TickRate \in Nat \ {0} /\ RegenRate \in Nat /\ MaxHealth \in Nat
        /\ h.state = "Available" /\ t >= start
    BY <1>3 DEF HorseFits, ActorBounds
  <2>2. start \in Int
    BY <2>1, MaxOfTwo
  <2> HIDE DEF start
  <2>3. PICK p \in Nat : p = (t - start + 1) * RegenRate
    <3>1. t - start + 1 \in Nat
      BY <2>1, <2>2
    <3> QED
      BY <2>1, <3>1
  <2>4. units \in Nat
    BY <2>1, <2>3
  <2> HIDE DEF units
  <2>5. units \div TickRate \in Nat /\ units % TickRate \in Nat /\ units % TickRate < TickRate
    BY <2>1, <2>4, Divided
  <2>6. health = IF MaxHealth <= h.health + units \div TickRate THEN MaxHealth
                 ELSE h.health + units \div TickRate
    BY <2>1, <2>5, MinOfTwo
  <2>7. health \in 1..MaxHealth
    BY <2>1, <2>5, <2>6
  <2> HIDE DEF health
  <2>8. regen \in Nat /\ regen < TickRate /\ (health = MaxHealth => regen = 0)
    BY <2>1, <2>5
  <2> HIDE DEF regen
  <2>9. g = [h EXCEPT !.health = health, !.regen = regen]
    BY <1>1, <1>3
  <2> HIDE DEF g, runs
  <2>10. g = [health |-> health, state |-> h.state, boltStart |-> h.boltStart,
              away |-> h.away, lastId |-> h.lastId, tick |-> n, regen |-> regen]
    BY <2>9 DEF HorseFits
  <2>11. g.health = health /\ g.regen = regen
    BY <2>10
  <2>12. g.health \in 0..MaxHealth /\ g.health > 0
    BY <2>1, <2>7, <2>11
  <2>13. g.regen \in Nat /\ g.regen < TickRate /\ (g.health = MaxHealth => g.regen = 0)
    BY <2>8, <2>11
  <2>14. g = [health |-> g.health, state |-> h.state, boltStart |-> h.boltStart,
              away |-> h.away, lastId |-> h.lastId, tick |-> n, regen |-> g.regen]
    BY <2>10, <2>11
  <2> QED
    BY <2>1, <2>12, <2>13, <2>14 DEF g
<1> QED
  BY <1>2, <1>3

LEMMA HorseAdvancedFits ==
    ASSUME ActorBounds, NEW h, NEW n \in Int, n >= -1, HorseFits(h, n), NEW t \in Int, t > n
    PROVE  LET g == Actor!HorseAdvanced(h, t)
           IN  /\ HorseFits(g, t) /\ g.boltStart = h.boltStart
               /\ g.state = IF Actor!HorseDespawns(h, t) THEN "Despawned" ELSE h.state
<1> DEFINE k == Actor!HorseRegenerated(h, t)
           g == Actor!HorseAdvanced(h, t)
           state == IF Actor!HorseDespawns(h, t) THEN "Despawned" ELSE h.state
<1>1. /\ k = [health |-> k.health, state |-> h.state, boltStart |-> h.boltStart,
              away |-> h.away, lastId |-> h.lastId, tick |-> n, regen |-> k.regen]
      /\ k.health \in 0..MaxHealth /\ k.regen \in Nat /\ k.regen < TickRate
      /\ k.health = MaxHealth => k.regen = 0
      /\ IF h.state = "Available" THEN k.health > 0 ELSE k.health = h.health
  BY HorseRegeneratedIs
<1>2. g = [k EXCEPT !.tick = t, !.state = IF Actor!HorseDespawns(h, t) THEN "Despawned" ELSE k.state]
  BY DEF Actor!HorseAdvanced
<1> HIDE DEF k, g
<1>3. PICK c, d : c = k.health /\ d = k.regen
  OBVIOUS
<1>4. k = [health |-> c, state |-> h.state, boltStart |-> h.boltStart,
           away |-> h.away, lastId |-> h.lastId, tick |-> n, regen |-> d]
  BY <1>1, <1>3
<1>5. k.state = h.state
  BY <1>4
<1>6. PICK x : x = state
  OBVIOUS
<1>7. g = [k EXCEPT !.tick = t, !.state = x]
  BY <1>2, <1>5, <1>6
<1>8. g = [health |-> c, state |-> x, boltStart |-> h.boltStart,
           away |-> h.away, lastId |-> h.lastId, tick |-> t, regen |-> d]
  BY <1>4, <1>7
<1>9. /\ g.health = c /\ g.state = x /\ g.boltStart = h.boltStart /\ g.lastId = h.lastId
      /\ g.tick = t /\ g.regen = d /\ g.away = h.away
  BY <1>8
<1>10. g = [health |-> g.health, state |-> g.state, boltStart |-> g.boltStart, away |-> g.away,
            lastId |-> g.lastId, tick |-> g.tick, regen |-> g.regen]
  BY <1>8, <1>9
<1>11. Now(t) = t /\ Now(n) <= t
  BY DEF Now
<1>12. h.lastId[2] \in Int /\ h.boltStart \in Int /\ h.lastId[2] <= Now(t) /\ h.boltStart <= Now(t)
  <2>1. Now(n) \in Int
    BY DEF Now
  <2> QED
    BY <1>11, <2>1 DEF HorseFits
<1>13. \/ g.state = "Available" /\ g.health > 0 /\ g.boltStart = -1
       \/ g.state = "Bolting" /\ g.health = 0 /\ g.boltStart >= 0 /\ t - g.boltStart < BoltTicks
       \/ g.state = "Despawned" /\ g.health = 0 /\ g.boltStart >= 0
          /\ t - g.boltStart >= BoltTicks
  <2>1. BoltTicks \in Nat
    BY DEF ActorBounds
  <2>2. CASE h.state = "Available"
    <3>1. x = "Available" /\ h.boltStart = -1
      BY <1>6, <2>2 DEF Actor!HorseDespawns, HorseFits
    <3> QED
      BY <1>1, <1>3, <1>9, <2>2, <3>1
  <2>3. CASE h.state = "Bolting"
    <3>1. h.health = 0 /\ h.boltStart >= 0 /\ k.health = 0
      BY <1>1, <2>3 DEF HorseFits
    <3>2. x = IF t - h.boltStart >= BoltTicks THEN "Despawned" ELSE "Bolting"
      BY <1>6, <2>3 DEF Actor!HorseDespawns
    <3> QED
      BY <1>3, <1>9, <1>12, <2>1, <3>1, <3>2
  <2>4. CASE h.state = "Despawned"
    <3>1. h.health = 0 /\ h.boltStart >= 0 /\ k.health = 0 /\ n - h.boltStart >= BoltTicks
      BY <1>1, <2>4 DEF HorseFits
    <3>2. x = "Despawned"
      BY <1>6, <2>4 DEF Actor!HorseDespawns
    <3> QED
      BY <1>3, <1>9, <1>12, <2>1, <3>1, <3>2
  <2> QED
    BY <2>2, <2>3, <2>4 DEF HorseFits
<1>14. HorseFits(g, t)
  BY <1>1, <1>3, <1>9, <1>10, <1>12, <1>13 DEF HorseFits
<1> QED
  BY <1>6, <1>9, <1>14 DEF g

IsFoot(f) ==
    f = [tick |-> f.tick, state |-> f.state, stamina |-> f.stamina, crouch |-> f.crouch,
         buffer |-> f.buffer, rollStart |-> f.rollStart, cooldown |-> f.cooldown,
         rollExit |-> f.rollExit, stunUntil |-> f.stunUntil]

\* An on-foot kernel at tick t that is neither stunned nor done with its roll.
Afoot(f, t) ==
    /\ IsFoot(f) /\ f.tick = t /\ f.stamina \in Int /\ f.stamina <= Actor!StaminaFull
    /\ f.rollExit \in Int /\ f.rollExit <= t /\ f.stunUntil = -1 /\ f.rollStart \in Int
    /\ \/ f.state = "Rolling" /\ f.rollStart # -1 /\ f.rollStart <= t /\ t - f.rollStart < RollTicks
       \/ f.state \in {"Standing", "Sprinting", "Crouched"} /\ f.rollStart = -1

LEMMA StaminaIs == ASSUME ActorBounds PROVE Actor!StaminaFull \in Nat
BY DEF ActorBounds, Actor!StaminaFull

LEMMA FootChosen ==
    ASSUME ActorBounds, NEW t \in Int, t >= 0, NEW f, Afoot(f, t), NEW in, in.tick = t
    PROVE  Afoot(Actor!FootChoice(f, in), t)
<1> DEFINE sprint == in.sprint /\ in.dir /\ f.stamina \div StaminaRegen > 0
           g == Actor!FootChoice(f, in)
<1>1. CASE f.state = "Rolling"
  <2>1. g = f
    BY <1>1 DEF Actor!FootChoice
  <2> QED
    BY <2>1
<1>2. CASE f.state # "Rolling" /\ sprint /\ f.buffer >= in.tick /\ in.tick >= f.cooldown
  <2>1. PICK c : c = t + RollCooldown
    OBVIOUS
  <2>2. g = [f EXCEPT !.state = "Rolling", !.rollStart = t, !.cooldown = c, !.buffer = Actor!NoTick]
    BY <1>2, <2>1 DEF Actor!FootChoice
  <2> HIDE DEF g
  <2>3. g = [tick |-> f.tick, state |-> "Rolling", stamina |-> f.stamina, crouch |-> f.crouch,
             buffer |-> Actor!NoTick, rollStart |-> t, cooldown |-> c,
             rollExit |-> f.rollExit, stunUntil |-> f.stunUntil]
    BY <2>2 DEF Afoot, IsFoot
  <2>4. IsFoot(g) /\ g.tick = f.tick /\ g.state = "Rolling" /\ g.stamina = f.stamina
        /\ g.rollStart = t /\ g.rollExit = f.rollExit /\ g.stunUntil = f.stunUntil
    BY <2>3 DEF IsFoot
  <2>5. t # -1 /\ t <= t /\ t - t < RollTicks
    BY DEF ActorBounds
  <2> QED
    BY <2>4, <2>5 DEF Afoot, g
<1>3. CASE f.state # "Rolling" /\ ~(sprint /\ f.buffer >= in.tick /\ in.tick >= f.cooldown)
  <2>1. PICK x \in {"Standing", "Sprinting", "Crouched"} :
           x = IF in.crouch THEN "Crouched" ELSE IF sprint THEN "Sprinting" ELSE "Standing"
    OBVIOUS
  <2>2. g = [f EXCEPT !.state = x]
    BY <1>3, <2>1 DEF Actor!FootChoice
  <2> HIDE DEF g
  <2>3. g = [tick |-> f.tick, state |-> x, stamina |-> f.stamina, crouch |-> f.crouch,
             buffer |-> f.buffer, rollStart |-> f.rollStart, cooldown |-> f.cooldown,
             rollExit |-> f.rollExit, stunUntil |-> f.stunUntil]
    BY <2>2 DEF Afoot, IsFoot
  <2>4. IsFoot(g) /\ g.tick = f.tick /\ g.state = x /\ g.stamina = f.stamina
        /\ g.rollStart = f.rollStart /\ g.rollExit = f.rollExit /\ g.stunUntil = f.stunUntil
    BY <2>3 DEF IsFoot
  <2> QED
    BY <1>3, <2>4 DEF Afoot, g
<1> QED
  BY <1>1, <1>2, <1>3

LEMMA FootTires ==
    ASSUME ActorBounds, NEW t \in Int, NEW f, Afoot(f, t)
    PROVE  Afoot(Actor!FootStamina(f), t)
<1> DEFINE g == Actor!FootStamina(f)
<1>1. StaminaRegen \in Nat /\ StaminaTicks \in Nat /\ f.stamina \in Int
      /\ f.stamina <= Actor!StaminaFull /\ Actor!StaminaFull \in Nat
  BY StaminaIs DEF ActorBounds, Afoot
<1>2. PICK x : x = IF f.state = "Sprinting" THEN Actor!Max({0, f.stamina - StaminaRegen})
                   ELSE Actor!Min({Actor!StaminaFull, f.stamina + StaminaTicks})
  OBVIOUS
<1>3. x \in Int /\ x <= Actor!StaminaFull
  <2>1. Actor!Max({0, f.stamina - StaminaRegen}) =
           IF 0 >= f.stamina - StaminaRegen THEN 0 ELSE f.stamina - StaminaRegen
    BY <1>1, MaxOfTwo
  <2>2. Actor!Min({Actor!StaminaFull, f.stamina + StaminaTicks}) =
           IF Actor!StaminaFull <= f.stamina + StaminaTicks THEN Actor!StaminaFull
           ELSE f.stamina + StaminaTicks
    BY <1>1, MinOfTwo
  <2> QED
    BY <1>1, <1>2, <2>1, <2>2
<1>4. g = [f EXCEPT !.stamina = x]
  BY <1>2 DEF Actor!FootStamina
<1> HIDE DEF g
<1>5. g = [tick |-> f.tick, state |-> f.state, stamina |-> x, crouch |-> f.crouch,
           buffer |-> f.buffer, rollStart |-> f.rollStart, cooldown |-> f.cooldown,
           rollExit |-> f.rollExit, stunUntil |-> f.stunUntil]
  BY <1>4 DEF Afoot, IsFoot
<1>6. IsFoot(g) /\ g.tick = f.tick /\ g.state = f.state /\ g.stamina = x
      /\ g.rollStart = f.rollStart /\ g.rollExit = f.rollExit /\ g.stunUntil = f.stunUntil
  BY <1>5 DEF IsFoot
<1> QED
  BY <1>3, <1>6 DEF Afoot, g

LEMMA AfootFits ==
    ASSUME NEW t \in Int, t >= 0, NEW f, Afoot(f, t) PROVE FootFits(f, t)
BY DEF Afoot, FootFits, IsFoot

LEMMA FootAdvancedFits ==
    ASSUME ActorBounds, NEW n \in Int, n >= -1, NEW f, FootFits(f, n), NEW t \in Int, t > n,
           NEW in, in.tick = t
    PROVE  FootFits(Actor!FootAdvanced(f, in), t)
<1> DEFINE edge == in.crouch /\ ~f.crouch
           noted == [f EXCEPT !.tick = in.tick, !.crouch = in.crouch]
           stunned == f.state = "SpookStunned" /\ in.tick < f.stunUntil
           awake == IF f.state = "SpookStunned"
                    THEN [noted EXCEPT !.state = "Standing", !.stunUntil = Actor!NoTick]
                    ELSE noted
           aimed == IF edge THEN [awake EXCEPT !.buffer = in.tick + BufferTicks] ELSE awake
           rolled == aimed.state = "Rolling" /\ in.tick - aimed.rollStart >= RollTicks
           ended == IF rolled
                    THEN [aimed EXCEPT !.state = "Standing", !.rollStart = Actor!NoTick,
                                       !.rollExit = aimed.rollStart + RollTicks]
                    ELSE aimed
<1>1. Actor!FootAdvanced(f, in) =
         IF stunned THEN noted ELSE Actor!FootStamina(Actor!FootChoice(ended, in))
  BY DEF Actor!FootAdvanced
<1>2. PICK c : c = in.crouch
  OBVIOUS
<1>3. noted = [tick |-> t, state |-> f.state, stamina |-> f.stamina, crouch |-> c,
              buffer |-> f.buffer, rollStart |-> f.rollStart, cooldown |-> f.cooldown,
              rollExit |-> f.rollExit, stunUntil |-> f.stunUntil]
  <2>1. noted = [f EXCEPT !.tick = t, !.crouch = c]
    BY <1>2
  <2> HIDE DEF noted
  <2>2. IsFoot(f)
    BY DEF FootFits, IsFoot
  <2> QED
    BY <2>1, <2>2 DEF IsFoot
<1> HIDE DEF noted
<1>4. Actor!NoTick = -1 /\ RollTicks \in Nat
  BY DEF Actor!NoTick, ActorBounds
<1>5. f.tick \in Int /\ f.tick < t /\ f.rollExit \in Int /\ f.rollExit <= t
      /\ f.rollStart \in Int /\ f.stunUntil \in Int
  BY DEF FootFits
<1>6. CASE stunned
  <2>1. noted.tick = t /\ noted.state = f.state /\ noted.stamina = f.stamina
        /\ noted.rollStart = f.rollStart /\ noted.rollExit = f.rollExit
        /\ noted.stunUntil = f.stunUntil /\ IsFoot(noted)
    BY <1>3 DEF IsFoot
  <2>2. f.state = "SpookStunned" /\ t < f.stunUntil /\ f.rollStart = -1 /\ f.stunUntil # -1
    BY <1>6 DEF FootFits
  <2>3. FootFits(noted, t)
    BY <1>5, <2>1, <2>2 DEF FootFits, IsFoot
  <2> QED
    BY <1>1, <1>6, <2>3
<1>7. CASE ~stunned
  <2>1. PICK x, u : /\ awake = [tick |-> t, state |-> x, stamina |-> f.stamina, crouch |-> c,
                         buffer |-> f.buffer, rollStart |-> f.rollStart, cooldown |-> f.cooldown,
                         rollExit |-> f.rollExit, stunUntil |-> u]
                    /\ u = -1
                    /\ x = IF f.state = "SpookStunned" THEN "Standing" ELSE f.state
    <3>1. CASE f.state = "SpookStunned"
      <4>1. awake = [noted EXCEPT !.state = "Standing", !.stunUntil = -1]
        BY <1>4, <3>1
      <4>2. awake = [tick |-> t, state |-> "Standing", stamina |-> f.stamina, crouch |-> c,
                     buffer |-> f.buffer, rollStart |-> f.rollStart, cooldown |-> f.cooldown,
                     rollExit |-> f.rollExit, stunUntil |-> -1]
        BY <1>3, <4>1
      <4> QED
        BY <3>1, <4>2
    <3>2. CASE f.state # "SpookStunned"
      <4>1. awake = noted /\ f.stunUntil = -1
        BY <3>2 DEF FootFits
      <4> QED
        BY <1>3, <3>2, <4>1
    <3> QED
      BY <3>1, <3>2
  <2> HIDE DEF awake
  <2>2. PICK b : aimed = [tick |-> t, state |-> x, stamina |-> f.stamina, crouch |-> c,
                          buffer |-> b, rollStart |-> f.rollStart, cooldown |-> f.cooldown,
                          rollExit |-> f.rollExit, stunUntil |-> u]
    <3>1. CASE edge
      <4>1. PICK z : z = in.tick + BufferTicks
        OBVIOUS
      <4>2. aimed = [awake EXCEPT !.buffer = z]
        BY <3>1, <4>1
      <4>3. aimed = [tick |-> t, state |-> x, stamina |-> f.stamina, crouch |-> c,
                     buffer |-> z, rollStart |-> f.rollStart, cooldown |-> f.cooldown,
                     rollExit |-> f.rollExit, stunUntil |-> u]
        BY <2>1, <4>2
      <4> QED
        BY <4>3
    <3>2. CASE ~edge
      <4>1. aimed = awake
        BY <3>2
      <4> QED
        BY <2>1, <4>1
    <3> QED
      BY <3>1, <3>2
  <2> HIDE DEF aimed
  <2>3. aimed.state = x /\ aimed.rollStart = f.rollStart
    BY <2>2
  <2>4. Afoot(ended, t)
    <3>1. CASE rolled
      <4>1. PICK z : z = f.rollStart + RollTicks
        OBVIOUS
      <4>2. ended = [aimed EXCEPT !.state = "Standing", !.rollStart = -1, !.rollExit = z]
        BY <1>4, <2>3, <3>1, <4>1
      <4> HIDE DEF ended
      <4>3. ended = [tick |-> t, state |-> "Standing", stamina |-> f.stamina, crouch |-> c,
                     buffer |-> b, rollStart |-> -1, cooldown |-> f.cooldown,
                     rollExit |-> z, stunUntil |-> u]
        BY <2>2, <4>2
      <4>4. IsFoot(ended) /\ ended.tick = t /\ ended.state = "Standing"
            /\ ended.stamina = f.stamina /\ ended.rollStart = -1 /\ ended.rollExit = z
            /\ ended.stunUntil = u
        BY <4>3 DEF IsFoot
      <4>5. z \in Int /\ z <= t
        BY <1>4, <1>5, <2>3, <3>1, <4>1
      <4>6. f.stamina \in Int /\ f.stamina <= Actor!StaminaFull
        BY DEF FootFits
      <4> QED
        BY <2>1, <4>4, <4>5, <4>6 DEF Afoot
    <3>2. CASE ~rolled
      <4>1. ended = aimed
        BY <3>2
      <4> HIDE DEF ended
      <4>2. IsFoot(ended) /\ ended.tick = t /\ ended.state = x
            /\ ended.stamina = f.stamina /\ ended.rollStart = f.rollStart
            /\ ended.rollExit = f.rollExit /\ ended.stunUntil = u
        BY <2>2, <4>1 DEF IsFoot
      <4>3. f.stamina \in Int /\ f.stamina <= Actor!StaminaFull
        BY DEF FootFits
      <4>4. CASE x = "Rolling"
        <5>1. f.state = "Rolling"
          BY <2>1, <4>4
        <5>2. f.rollStart # -1 /\ f.rollStart <= f.tick
          BY <5>1 DEF FootFits
        <5>3. t - f.rollStart < RollTicks
          BY <1>4, <1>5, <2>3, <3>2, <4>4
        <5>4. f.rollStart <= t
          BY <1>5, <5>2
        <5> QED
          BY <1>5, <2>1, <4>2, <4>3, <4>4, <5>2, <5>3, <5>4 DEF Afoot
      <4>5. CASE x # "Rolling"
        <5>1. x \in {"Standing", "Sprinting", "Crouched"} /\ f.rollStart = -1
          BY <2>1, <4>5 DEF FootFits
        <5> QED
          BY <1>5, <2>1, <4>2, <4>3, <5>1 DEF Afoot
      <4> QED
        BY <4>4, <4>5
    <3> QED
      BY <3>1, <3>2
  <2> HIDE DEF ended
  <2>5. Afoot(Actor!FootStamina(Actor!FootChoice(ended, in)), t)
    BY <2>4, FootChosen, FootTires
  <2> QED
    BY <1>1, <1>7, <2>5, AfootFits
<1> QED
  BY <1>6, <1>7

LEMMA HorseDamagedFits ==
    ASSUME ActorBounds, NEW n \in Int, n >= -1, NEW h, HorseFits(h, n), h.state = "Available",
           NEW id, id[2] = Now(n), NEW amount \in Nat, NEW away
    PROVE  /\ HorseFits(Actor!HorseDamaged(h, id, amount, away), n)
           /\ \/ Actor!HorseDamaged(h, id, amount, away).state = "Available"
              \/ /\ Actor!HorseDamaged(h, id, amount, away).state = "Bolting"
                 /\ Actor!HorseDamaged(h, id, amount, away).boltStart = Now(n)
                 /\ h.health > 0 /\ amount >= h.health
<1> DEFINE left == IF amount >= h.health THEN 0 ELSE h.health - amount
           hit == [h EXCEPT !.lastId = id, !.health = left, !.regen = 0]
           g == Actor!HorseDamaged(h, id, amount, away)
<1>1. g = IF h.health > 0 /\ left = 0
          THEN [hit EXCEPT !.state = "Bolting", !.boltStart = id[2], !.away = away] ELSE hit
  BY DEF Actor!HorseDamaged
<1>2. h.health \in 0..MaxHealth /\ h.health > 0 /\ MaxHealth \in Nat /\ h.boltStart = -1
      /\ BoltTicks \in Nat \ {0} /\ h.tick = n /\ TickRate \in Nat \ {0}
  BY DEF HorseFits, ActorBounds
<1>3. PICK c \in 0..MaxHealth : c = left
  BY <1>2
<1>4. hit = [h EXCEPT !.lastId = id, !.health = c, !.regen = 0]
  BY <1>3
<1> HIDE DEF hit, g
<1>5. hit = [health |-> c, state |-> "Available", boltStart |-> -1, away |-> h.away,
             lastId |-> id, tick |-> n, regen |-> 0]
  BY <1>2, <1>4 DEF HorseFits
<1>6. Now(n) \in Int /\ Now(n) >= 0 /\ n <= Now(n) /\ n - Now(n) < BoltTicks
  BY <1>2 DEF Now
<1>7. CASE amount >= h.health
  <2>1. c = 0 /\ g = [hit EXCEPT !.state = "Bolting", !.boltStart = Now(n), !.away = away]
    BY <1>1, <1>2, <1>3, <1>7
  <2>2. g = [health |-> 0, state |-> "Bolting", boltStart |-> Now(n), away |-> away,
             lastId |-> id, tick |-> n, regen |-> 0]
    BY <1>5, <2>1
  <2>3. g.health = 0 /\ g.state = "Bolting" /\ g.boltStart = Now(n) /\ g.lastId = id
        /\ g.tick = n /\ g.regen = 0 /\ g.away = away
    BY <2>2
  <2>4. g = [health |-> g.health, state |-> g.state, boltStart |-> g.boltStart, away |-> g.away,
             lastId |-> g.lastId, tick |-> g.tick, regen |-> g.regen]
    BY <2>2, <2>3
  <2>5. HorseFits(g, n)
    BY <1>2, <1>6, <2>3, <2>4 DEF HorseFits
  <2> QED
    BY <1>2, <1>7, <2>3, <2>5 DEF g
<1>8. CASE ~(amount >= h.health)
  <2>1. c > 0 /\ g = hit
    BY <1>1, <1>2, <1>3, <1>8
  <2>2. g.health = c /\ g.state = "Available" /\ g.boltStart = -1 /\ g.lastId = id
        /\ g.tick = n /\ g.regen = 0 /\ g.away = h.away
    BY <1>5, <2>1
  <2>3. g = [health |-> g.health, state |-> g.state, boltStart |-> g.boltStart, away |-> g.away,
             lastId |-> g.lastId, tick |-> g.tick, regen |-> g.regen]
    BY <1>5, <2>1, <2>2
  <2>4. HorseFits(g, n)
    BY <1>2, <1>6, <2>1, <2>2, <2>3 DEF HorseFits
  <2> QED
    BY <2>2, <2>4 DEF g
<1> QED
  BY <1>7, <1>8

LEMMA HorseRestoredFits ==
    ASSUME ActorBounds, NEW n \in Int, n >= 0, NEW h, HorseFits(h, n)
    PROVE  /\ HorseFits(Actor!HorseRestored(h), n)
           /\ Actor!HorseRestored(h).state = "Available"
           /\ Actor!HorseRestored(h).health = MaxHealth
<1> DEFINE g == Actor!HorseRestored(h)
<1>1. g = [h EXCEPT !.health = MaxHealth, !.state = "Available", !.boltStart = -1,
                    !.away = "ahead", !.regen = 0]
  BY DEF Actor!HorseRestored, Actor!NoTick
<1> HIDE DEF g
<1>2. g = [health |-> MaxHealth, state |-> "Available", boltStart |-> -1, away |-> "ahead",
           lastId |-> h.lastId, tick |-> h.tick, regen |-> 0]
  BY <1>1 DEF HorseFits
<1>3. g.health = MaxHealth /\ g.state = "Available" /\ g.boltStart = -1 /\ g.lastId = h.lastId
      /\ g.tick = h.tick /\ g.regen = 0 /\ g.away = "ahead"
  BY <1>2
<1>4. g = [health |-> g.health, state |-> g.state, boltStart |-> g.boltStart, away |-> g.away,
           lastId |-> g.lastId, tick |-> g.tick, regen |-> g.regen]
  BY <1>2, <1>3
<1>5. h.tick = n /\ h.lastId[2] \in Int /\ h.lastId[2] <= Now(n) /\ -1 <= Now(n)
      /\ MaxHealth \in 0..MaxHealth /\ MaxHealth > 0 /\ TickRate \in Nat \ {0}
  BY DEF HorseFits, ActorBounds, Now
<1> QED
  BY <1>3, <1>4, <1>5 DEF HorseFits, g

LEMMA SpookedFits ==
    ASSUME ActorBounds, NEW n \in Int, n >= -1, NEW f, FootFits(f, n),
           ~Actor!SpookRefused(f, Now(n))
    PROVE  FootFits(Actor!SpookStunned(f, Now(n)), n)
<1> DEFINE g == Actor!SpookStunned(f, Now(n))
<1>1. f.tick \in Int /\ -1 <= f.tick /\ f.tick <= n /\ f.tick < Now(n) /\ Now(n) \in Nat
      /\ StunTicks \in Nat
  BY DEF FootFits, Actor!SpookRefused, Now, ActorBounds
<1>2. PICK u \in Int : u = Now(n) + StunTicks
  BY <1>1
<1>3. u # -1 /\ f.tick < u
  BY <1>1, <1>2
<1>4. g = [f EXCEPT !.state = "SpookStunned", !.stunUntil = u, !.buffer = -1, !.rollStart = -1]
  BY <1>2 DEF Actor!SpookStunned, Actor!NoTick
<1> HIDE DEF g
<1>5. g = [tick |-> f.tick, state |-> "SpookStunned", stamina |-> f.stamina, crouch |-> f.crouch,
           buffer |-> -1, rollStart |-> -1, cooldown |-> f.cooldown,
           rollExit |-> f.rollExit, stunUntil |-> u]
  BY <1>4 DEF FootFits
<1>6. IsFoot(g) /\ g.tick = f.tick /\ g.state = "SpookStunned" /\ g.stamina = f.stamina
      /\ g.rollStart = -1 /\ g.rollExit = f.rollExit /\ g.stunUntil = u
  BY <1>5 DEF IsFoot
<1>7. f.stamina \in Int /\ f.stamina <= Actor!StaminaFull /\ f.rollExit \in Int /\ f.rollExit <= f.tick
  BY DEF FootFits
<1> QED
  BY <1>1, <1>3, <1>6, <1>7 DEF FootFits, IsFoot, g

LEMMA NewFootFits ==
    ASSUME ActorBounds, NEW n \in Int, n >= -1
    PROVE  FootFits(Actor!NewFoot, n) /\ Actor!NewFoot.state = "Standing"
BY StaminaIs DEF FootFits, Actor!NewFoot, Actor!NoTick

LEMMA HorseLostIsAway ==
    ASSUME ActorBounds, NEW r, NEW loss \in Int, loss >= 0, NEW d \in Int, d = loss + BoltTicks
    PROVE  /\ IsRecall(Actor!HorseLost(r, d, loss)) /\ Away(Actor!HorseLost(r, d, loss))
           /\ Actor!HorseLost(r, d, loss).tick = d
           /\ Actor!HorseLost(r, d, loss).lossTick = loss
           /\ Actor!HorseLost(r, d, loss).state = "CoolingDown"
<1> DEFINE g == Actor!HorseLost(r, d, loss)
<1>1. PICK w : w = [lost |-> loss, remount |-> -1]
  OBVIOUS
<1>2. g = [state |-> "CoolingDown", tick |-> d, lossTick |-> loss,
           lostTick |-> d, enter |-> d, earned |-> 0, remainder |-> 0,
           credit |-> Actor!NoId, row |-> w]
  <2>1. PICK z : z = Actor!NewRecall
    OBVIOUS
  <2>2. PICK nd, no : nd = -1 /\ no = Actor!NoRow
    OBVIOUS
  <2>3. z = [state |-> "HorsePresent", tick |-> nd, lossTick |-> nd, lostTick |-> nd,
             enter |-> nd, earned |-> 0, remainder |-> 0, credit |-> Actor!NoId, row |-> no]
    BY <2>1, <2>2 DEF Actor!NewRecall, Actor!NoTick
  <2>4. g = [z EXCEPT !.state = "CoolingDown", !.tick = d, !.lossTick = loss,
                      !.lostTick = d, !.enter = d, !.row = w]
    BY <1>1, <2>1 DEF Actor!HorseLost, Actor!NoTick
  <2> HIDE DEF g
  <2> QED
    BY <2>3, <2>4
<1> HIDE DEF g
<1>3. g.state = "CoolingDown" /\ g.tick = d /\ g.lossTick = loss /\ g.lostTick = d
      /\ g.enter = d /\ g.earned = 0 /\ g.remainder = 0 /\ g.credit = Actor!NoId /\ g.row = w
  BY <1>2
<1>4. g = [state |-> g.state, tick |-> g.tick, lossTick |-> g.lossTick, lostTick |-> g.lostTick,
           enter |-> g.enter, earned |-> g.earned, remainder |-> g.remainder,
           credit |-> g.credit, row |-> g.row]
  BY <1>2, <1>3
<1>5. w = [lost |-> w.lost, remount |-> w.remount]
  BY <1>1
<1>6. Actor!NoId[2] \in Int /\ 0 <= BaseRecall - MinRecall /\ 0 < DamageUnit
  BY DEF Actor!NoId, Actor!NoTick, ActorBounds
<1>7. IsRecall(g)
  BY <1>3, <1>4, <1>5, <1>6 DEF IsRecall
<1>8. Away(g)
  BY <1>1, <1>3 DEF Away, ActorBounds
<1> QED
  BY <1>3, <1>7, <1>8 DEF g

\* Only the tick, the phase and its beginning change.
Phased(g, r, t, x, e) ==
    g = [state |-> x, tick |-> t, lossTick |-> r.lossTick, lostTick |-> r.lostTick,
         enter |-> e, earned |-> r.earned, remainder |-> r.remainder,
         credit |-> r.credit, row |-> r.row]

LEMMA PhasedIsAway ==
    ASSUME ActorBounds, NEW r, IsRecall(r), Away(r), NEW t \in Int, r.tick <= t, NEW x, NEW e \in Int,
           r.lostTick <= e, e <= t,
           \/ x = "CoolingDown"
           \/ x = "Ready" /\ e >= r.lostTick + MinRecall
           \/ x \in Returning /\ e >= r.lostTick + Offset(x),
           NEW g, Phased(g, r, t, x, e)
    PROVE  /\ IsRecall(g) /\ Away(g) /\ g.tick = t /\ g.state = x /\ g.lossTick = r.lossTick
           /\ g.lostTick = r.lostTick
<1>1. g.state = x /\ g.tick = t /\ g.lossTick = r.lossTick /\ g.lostTick = r.lostTick
      /\ g.enter = e /\ g.earned = r.earned /\ g.remainder = r.remainder
      /\ g.credit = r.credit /\ g.row = r.row
  BY DEF Phased
<1>2. g = [state |-> g.state, tick |-> g.tick, lossTick |-> g.lossTick, lostTick |-> g.lostTick,
           enter |-> g.enter, earned |-> g.earned, remainder |-> g.remainder,
           credit |-> g.credit, row |-> g.row]
  BY <1>1 DEF Phased
<1>3. IsRecall(g)
  <2>1. r.credit # Actor!NoId =>
          r.lostTick # -1 /\ r.lostTick <= r.credit[2] /\ r.credit[2] <= t
    BY DEF IsRecall
  <2> QED
    BY <1>1, <1>2, <2>1 DEF IsRecall
<1>4. Away(g)
  BY <1>1 DEF Away
<1> QED
  BY <1>1, <1>3, <1>4

LEMMA RecallAdvancedAway ==
    ASSUME ActorBounds, NEW r, IsRecall(r), Away(r), NEW t \in Int, r.tick <= t
    PROVE  /\ IsRecall(Actor!RecallAdvanced(r, t)) /\ Away(Actor!RecallAdvanced(r, t))
           /\ Actor!RecallAdvanced(r, t).tick = t
           /\ Actor!RecallAdvanced(r, t).lossTick = r.lossTick
           /\ Actor!RecallAdvanced(r, t).lostTick = r.lostTick
           /\ r.state \in {"CoolingDown", "Ready"} <=>
                 Actor!RecallAdvanced(r, t).state \in {"CoolingDown", "Ready"}
<1> DEFINE g == Actor!RecallAdvanced(r, t)
           now == [r EXCEPT !.tick = t]
           ready == Actor!ReadyTick(r)
<1>1. now = [state |-> r.state, tick |-> t, lossTick |-> r.lossTick, lostTick |-> r.lostTick,
             enter |-> r.enter, earned |-> r.earned, remainder |-> r.remainder,
             credit |-> r.credit, row |-> r.row]
  BY DEF IsRecall
<1>2. /\ r.state = "CoolingDown" /\ t >= ready => g = [now EXCEPT !.state = "Ready", !.enter = ready]
      /\ r.state \in Returning => g = Actor!PhaseAt(now, t)
      /\ ~(r.state = "CoolingDown" /\ t >= ready) /\ r.state \notin Returning => g = now
  <2>1. g = CASE r.state = "CoolingDown" /\ t >= ready -> [now EXCEPT !.state = "Ready", !.enter = ready]
              [] r.state \in Returning -> Actor!PhaseAt(now, t)
              [] OTHER -> now
    BY PhasesAre DEF Actor!RecallAdvanced
  <2>2. ~(r.state = "CoolingDown" /\ r.state \in Returning)
    BY DEF Returning
  <2> HIDE DEF g, now, ready
  <2> QED
    BY <2>1, <2>2
<1>3. r.lostTick \in Int /\ r.enter \in Int /\ r.lostTick <= r.enter /\ r.enter <= t
      /\ r.earned \in Nat /\ MinRecall \in Nat /\ BaseRecall \in Nat
  BY DEF IsRecall, Away, ActorBounds
<1>4. ready \in Int /\ ready >= r.lostTick + MinRecall /\ ready >= r.lostTick
  <2>1. Actor!Max({MinRecall, BaseRecall - r.earned}) =
           IF MinRecall >= BaseRecall - r.earned THEN MinRecall ELSE BaseRecall - r.earned
    BY <1>3, MaxOfTwo
  <2> QED
    BY <1>3, <2>1 DEF Actor!ReadyTick
<1> HIDE DEF g, now, ready
<1>5. CASE r.state = "CoolingDown" /\ t >= ready
  <2>1. Phased(g, r, t, "Ready", ready)
    BY <1>1, <1>2, <1>5 DEF Phased
  <2>2. /\ IsRecall(g) /\ Away(g) /\ g.tick = t /\ g.state = "Ready" /\ g.lossTick = r.lossTick
        /\ g.lostTick = r.lostTick
    BY <1>3, <1>4, <1>5, <2>1, PhasedIsAway
  <2> QED
    BY <1>5, <2>2 DEF g
<1>6. CASE r.state \in Returning
  <2>1. now.state = r.state /\ now.enter = r.enter
    BY <1>1
  <2>2. PICK phase \in Returning, e \in Int :
              /\ Actor!PhaseAt(now, t) = [now EXCEPT !.state = phase, !.enter = e]
              /\ e - Offset(phase) = now.enter - Offset(now.state)
              /\ now.enter <= e /\ e <= t
    BY <1>3, <1>6, <2>1, PhaseMoves
  <2>3. Phased(g, r, t, phase, e)
    <3>1. g = [now EXCEPT !.state = phase, !.enter = e]
      BY <1>2, <1>6, <2>2
    <3>2. PICK x, b : x = phase /\ b = e
      OBVIOUS
    <3>3. g = [now EXCEPT !.state = x, !.enter = b]
      BY <3>1, <3>2
    <3>4. Phased(g, r, t, x, b)
      BY <1>1, <3>3 DEF Phased
    <3> QED
      BY <3>2, <3>4
  <2>4. Offset(phase) \in Nat /\ Offset(r.state) \in Nat
    BY <1>6 DEF Offset, Returning, ActorBounds
  <2>5. r.enter >= r.lostTick + Offset(r.state)
    BY <1>6 DEF Away, Returning
  <2>6. e >= r.lostTick + Offset(phase) /\ e >= r.lostTick
    BY <1>3, <2>1, <2>2, <2>4, <2>5
  <2>7. /\ IsRecall(g) /\ Away(g) /\ g.tick = t /\ g.state = phase /\ g.lossTick = r.lossTick
        /\ g.lostTick = r.lostTick
    BY <2>2, <2>3, <2>6, PhasedIsAway
  <2>8. r.state \notin {"CoolingDown", "Ready"} /\ phase \notin {"CoolingDown", "Ready"}
    BY <1>6 DEF Returning
  <2> QED
    BY <2>7, <2>8 DEF g
<1>7. CASE ~(r.state = "CoolingDown" /\ t >= ready) /\ r.state \notin Returning
  <2>1. Phased(g, r, t, r.state, r.enter)
    BY <1>1, <1>2, <1>7 DEF Phased
  <2>2. \/ r.state = "CoolingDown"
        \/ r.state = "Ready" /\ r.enter >= r.lostTick + MinRecall
    BY <1>7 DEF Away
  <2>3. /\ IsRecall(g) /\ Away(g) /\ g.tick = t /\ g.state = r.state /\ g.lossTick = r.lossTick
        /\ g.lostTick = r.lostTick
    BY <1>3, <2>1, <2>2, PhasedIsAway
  <2> QED
    BY <2>3 DEF g
<1> QED
  BY <1>5, <1>6, <1>7

LEMMA RequestedIsAway ==
    ASSUME ActorBounds, NEW r, IsRecall(r), Away(r), NEW t \in Int, r.tick = t
    PROVE  /\ IsRecall(Actor!RecallRequested(r, t)) /\ Away(Actor!RecallRequested(r, t))
           /\ Actor!RecallRequested(r, t).tick = t
           /\ Actor!RecallRequested(r, t).state = "Hoofbeats"
           /\ Actor!RecallRequested(r, t).lossTick = r.lossTick
           /\ Actor!RecallRequested(r, t).lostTick = r.lostTick
<1> DEFINE g == Actor!RecallRequested(r, t)
<1>1. g = [r EXCEPT !.state = "Hoofbeats", !.enter = t]
  BY DEF Actor!RecallRequested
<1> HIDE DEF g
<1>2. Phased(g, r, t, "Hoofbeats", t)
  BY <1>1 DEF Phased, IsRecall
<1>3. r.lostTick \in Int /\ r.lostTick <= t
  BY DEF IsRecall, Away
<1>4. "Hoofbeats" \in Returning /\ Offset("Hoofbeats") = 0
  BY DEF Returning, Offset
<1>5. t >= r.lostTick + Offset("Hoofbeats")
  BY <1>3, <1>4
<1>6. /\ IsRecall(g) /\ Away(g) /\ g.tick = t /\ g.state = "Hoofbeats" /\ g.lossTick = r.lossTick
      /\ g.lostTick = r.lostTick
  <2>1. PICK x : x = "Hoofbeats"
    OBVIOUS
  <2>2. x \in Returning /\ t >= r.lostTick + Offset(x) /\ Phased(g, r, t, x, t) /\ t <= t /\ r.tick <= t
    BY <1>2, <1>4, <1>5, <2>1
  <2>3. /\ IsRecall(g) /\ Away(g) /\ g.tick = t /\ g.state = x /\ g.lossTick = r.lossTick
        /\ g.lostTick = r.lostTick
    BY <1>3, <2>2, PhasedIsAway
  <2> QED
    BY <2>1, <2>3
<1> QED
  BY <1>6 DEF g

LEMMA CreditedIsAway ==
    ASSUME ActorBounds, NEW r, IsRecall(r), Away(r), NEW id, id[2] \in Int,
           Actor!RecallCreditAccepted(r, id), NEW damage \in Nat \cup {-1}
    PROVE  /\ IsRecall(Actor!RecallCredited(r, id, damage))
           /\ Away(Actor!RecallCredited(r, id, damage))
           /\ Actor!RecallCredited(r, id, damage).tick = r.tick
           /\ Actor!RecallCredited(r, id, damage).state = r.state
           /\ Actor!RecallCredited(r, id, damage).lossTick = r.lossTick
<1> DEFINE g == Actor!RecallCredited(r, id, damage)
           total == r.remainder + damage
           seconds == IF damage = -1 THEN 2 ELSE total \div DamageUnit
<1>1. /\ r.remainder \in Nat /\ r.remainder < DamageUnit /\ DamageUnit \in Nat \ {0}
      /\ r.earned \in Nat /\ BaseRecall - MinRecall \in Nat /\ TickRate \in Nat
      /\ r.lostTick # -1 /\ r.lostTick <= id[2] /\ id[2] <= r.tick
  BY DEF IsRecall, ActorBounds, Actor!RecallCreditAccepted, Actor!NoTick
<1>2. PICK q \in Nat : q = IF damage = -1 THEN r.remainder ELSE total % DamageUnit
  <2>1. damage # -1 => total \in Nat
    BY <1>1
  <2> QED
    BY <1>1, <2>1, Divided
<1>3. q < DamageUnit
  <2>1. damage # -1 => total \in Nat
    BY <1>1
  <2>2. damage # -1 => total % DamageUnit < DamageUnit
    BY <1>1, <2>1, Divided
  <2> QED
    BY <1>1, <1>2, <2>2
<1>4. PICK e \in Nat : e = Actor!Min({BaseRecall - MinRecall, r.earned + seconds * TickRate})
                       /\ e <= BaseRecall - MinRecall
  <2>1. seconds \in Nat
    <3>1. damage # -1 => total \in Nat
      BY <1>1
    <3> QED
      BY <1>1, <3>1, Divided
  <2> HIDE DEF seconds
  <2>2. PICK m \in Nat : m = seconds * TickRate
    BY <1>1, <2>1
  <2>3. Actor!Min({BaseRecall - MinRecall, r.earned + m}) =
           IF BaseRecall - MinRecall <= r.earned + m THEN BaseRecall - MinRecall ELSE r.earned + m
    BY <1>1, <2>2, MinOfTwo
  <2> QED
    BY <1>1, <2>2, <2>3
<1>5. PICK x, y : x = q /\ y = e
  OBVIOUS
<1>6. g = [r EXCEPT !.credit = id, !.remainder = x, !.earned = y]
  BY <1>2, <1>4, <1>5 DEF Actor!RecallCredited, Actor!Objective
<1> HIDE DEF g, total, seconds
<1>7. g = [state |-> r.state, tick |-> r.tick, lossTick |-> r.lossTick, lostTick |-> r.lostTick,
           enter |-> r.enter, earned |-> y, remainder |-> x, credit |-> id, row |-> r.row]
  BY <1>6 DEF IsRecall
<1>8. g.state = r.state /\ g.tick = r.tick /\ g.lossTick = r.lossTick /\ g.lostTick = r.lostTick
      /\ g.enter = r.enter /\ g.earned = y /\ g.remainder = x /\ g.credit = id /\ g.row = r.row
  BY <1>7
<1>9. g = [state |-> g.state, tick |-> g.tick, lossTick |-> g.lossTick, lostTick |-> g.lostTick,
           enter |-> g.enter, earned |-> g.earned, remainder |-> g.remainder,
           credit |-> g.credit, row |-> g.row]
  BY <1>7, <1>8
<1>10. IsRecall(g)
  BY <1>1, <1>3, <1>4, <1>5, <1>8, <1>9 DEF IsRecall
<1>11. Away(g)
  BY <1>8 DEF Away
<1> QED
  BY <1>8, <1>10, <1>11 DEF g

\* A horse is mounted no sooner than the bolt and the phases before the window take.
LEMMA MountedIsHome ==
    ASSUME ActorBounds, NEW r, IsRecall(r), Away(r), NEW t \in Int, NEW near, NEW moving,
           Actor!CanMount(r, t, near, moving)
    PROVE  /\ IsRecall(Actor!Mounted(r, t)) /\ Home(Actor!Mounted(r, t))
           /\ Actor!Mounted(r, t).tick = t
           /\ Actor!Mounted(r, t).row.lost = r.lossTick
           /\ Actor!Mounted(r, t).row.remount = t
           /\ t >= r.lossTick + BoltTicks + HoofTicks + DustTicks + GallopTicks - WindowTicks
<1> DEFINE g == Actor!Mounted(r, t)
<1>1. r.tick = t /\ r.state \in {"MountWindow", "WaitingMount"}
  BY DEF Actor!CanMount
<1>2. r.lossTick \in Int /\ r.lossTick >= 0 /\ r.lostTick = r.lossTick + BoltTicks /\ r.enter \in Int
      /\ r.lostTick \in Int /\ r.lostTick <= t /\ r.enter <= t /\ BoltTicks \in Nat
      /\ r.row = [lost |-> r.lossTick, remount |-> -1]
  BY <1>1 DEF IsRecall, Away, ActorBounds
<1>3. r.enter >= r.lostTick + Offset(r.state)
  BY <1>1 DEF Away
<1>4. Offset(r.state) \in Nat /\ Offset(r.state) >= HoofTicks + DustTicks + (GallopTicks - WindowTicks)
  BY <1>1 DEF Offset, ActorBounds
<1>5. t >= r.lossTick + BoltTicks + HoofTicks + DustTicks + GallopTicks - WindowTicks
  BY <1>2, <1>3, <1>4 DEF ActorBounds
<1>6. PICK w : w = [r.row EXCEPT !.remount = t]
  OBVIOUS
<1>7. w = [lost |-> r.lossTick, remount |-> t]
  BY <1>2, <1>6
<1>8. g = [r EXCEPT !.row = w, !.state = "HorsePresent", !.enter = t]
  BY <1>6 DEF Actor!Mounted, IsRecall
<1> HIDE DEF g
<1>9. g = [state |-> "HorsePresent", tick |-> r.tick, lossTick |-> r.lossTick, lostTick |-> r.lostTick,
           enter |-> t, earned |-> r.earned, remainder |-> r.remainder, credit |-> r.credit, row |-> w]
  BY <1>8 DEF IsRecall
<1>10. g.state = "HorsePresent" /\ g.tick = r.tick /\ g.lossTick = r.lossTick
       /\ g.lostTick = r.lostTick /\ g.enter = t /\ g.earned = r.earned
       /\ g.remainder = r.remainder /\ g.credit = r.credit /\ g.row = w
  BY <1>9
<1>11. g = [state |-> g.state, tick |-> g.tick, lossTick |-> g.lossTick, lostTick |-> g.lostTick,
            enter |-> g.enter, earned |-> g.earned, remainder |-> g.remainder,
            credit |-> g.credit, row |-> g.row]
  BY <1>9, <1>10
<1>12. w.lost = r.lossTick /\ w.remount = t /\ w = [lost |-> w.lost, remount |-> w.remount]
  BY <1>7
<1>13. IsRecall(g)
  BY <1>10, <1>11, <1>12 DEF IsRecall
<1>14. Home(g)
  BY <1>2, <1>10, <1>12 DEF Home
<1> QED
  BY <1>1, <1>5, <1>10, <1>12, <1>13, <1>14 DEF g

LEMMA SpurAdvancedFits ==
    ASSUME ActorBounds, NEW n \in Int, n >= -1, NEW s, SpurFits(s, n), NEW t \in Int, t > n,
           NEW pressed, NEW context
    PROVE  /\ SpurFits(Actor!SpurAdvanced(s, t, pressed, context).spur, t)
           /\ Actor!SpurAdvanced(s, t, pressed, context).spend = "Return" =>
                 /\ context = "HorseAbsent" /\ s.meter = SpurMax
                 /\ Actor!SpurAdvanced(s, t, pressed, context).spur.meter = 0
<1> DEFINE g == Actor!SpurAdvanced(s, t, pressed, context)
           over == s.end # Actor!NoTick /\ t >= s.end
           now == [s EXCEPT !.tick = t, !.held = pressed,
                            !.start = IF over THEN Actor!NoTick ELSE @,
                            !.end = IF over THEN Actor!NoTick ELSE @]
           buys == pressed /\ ~s.held /\ s.meter = SpurMax /\ ~Actor!ChargeActive(now)
           charged == [now EXCEPT !.meter = 0, !.start = t, !.end = t + ChargeTicks]
           spent == [now EXCEPT !.meter = 0]
<1>1. /\ buys /\ context = "Mounted" => g = [spur |-> charged, spend |-> "Charge"]
      /\ buys /\ context = "HorseAbsent" => g = [spur |-> spent, spend |-> "Return"]
      /\ ~(buys /\ context = "Mounted") /\ ~(buys /\ context = "HorseAbsent") =>
            g = [spur |-> now, spend |-> "none"]
  <2>1. g = CASE buys /\ context = "Mounted" -> [spur |-> charged, spend |-> "Charge"]
              [] buys /\ context = "HorseAbsent" -> [spur |-> spent, spend |-> "Return"]
              [] OTHER -> [spur |-> now, spend |-> "none"]
    BY DEF Actor!SpurAdvanced
  <2> HIDE DEF g, charged, spent, now, buys
  <2> QED
    BY <2>1
<1>2. /\ s.meter \in Int /\ s.meter <= SpurMax /\ SpurMax \in Nat /\ s.start \in Int /\ s.end \in Int
      /\ ChargeTicks \in Nat \ {0} /\ s.tick = n /\ Actor!NoTick = -1
  BY DEF SpurFits, ActorBounds, Actor!NoTick
<1>3. PICK x, y : /\ x = IF over THEN -1 ELSE s.start
                  /\ y = IF over THEN -1 ELSE s.end
  OBVIOUS
<1>4. x \in Int /\ y \in Int
      /\ \/ x = -1 /\ y = -1
         \/ x # -1 /\ y = x + ChargeTicks /\ x <= t /\ t < y
  <2>1. CASE s.start = -1 /\ s.end = -1
    BY <1>2, <1>3, <2>1
  <2>2. CASE s.start # -1 /\ s.end = s.start + ChargeTicks /\ s.start <= n /\ n < s.end
    BY <1>2, <1>3, <2>2
  <2> QED
    BY <1>2, <2>1, <2>2 DEF SpurFits
<1>5. now = [s EXCEPT !.tick = t, !.held = pressed, !.start = x, !.end = y]
  BY <1>2, <1>3
<1> HIDE DEF g, over, now, buys
<1>6. ASSUME NEW z, NEW m, NEW b, NEW e,
             z = [tick |-> t, meter |-> m, style |-> s.style, lastId |-> s.lastId,
                  next |-> s.next, held |-> pressed, start |-> b, end |-> e],
             m \in Int, m <= SpurMax, b \in Int, e \in Int,
             \/ b = -1 /\ e = -1
             \/ b # -1 /\ e = b + ChargeTicks /\ b <= t /\ t < e
      PROVE  SpurFits(z, t) /\ z.meter = m
  <2>1. z.tick = t /\ z.meter = m /\ z.style = s.style /\ z.lastId = s.lastId /\ z.next = s.next
        /\ z.held = pressed /\ z.start = b /\ z.end = e
    BY <1>6
  <2>2. z = [tick |-> z.tick, meter |-> z.meter, style |-> z.style, lastId |-> z.lastId,
             next |-> z.next, held |-> z.held, start |-> z.start, end |-> z.end]
    BY <1>6, <2>1
  <2>3. s.lastId # Actor!NoId => s.lastId[3] < s.next /\ s.lastId[2] <= t
    BY DEF SpurFits
  <2> QED
    BY <1>6, <2>1, <2>2, <2>3 DEF SpurFits
<1>7. now = [tick |-> t, meter |-> s.meter, style |-> s.style, lastId |-> s.lastId,
             next |-> s.next, held |-> pressed, start |-> x, end |-> y]
  BY <1>5 DEF SpurFits
<1>8. SpurFits(now, t)
  BY <1>2, <1>4, <1>6, <1>7
<1>9. SpurFits(charged, t)
  <2>1. PICK e : e = t + ChargeTicks
    OBVIOUS
  <2>2. charged = [now EXCEPT !.meter = 0, !.start = t, !.end = e]
    BY <2>1
  <2> HIDE DEF charged
  <2>3. charged = [tick |-> t, meter |-> 0, style |-> s.style, lastId |-> s.lastId,
                   next |-> s.next, held |-> pressed, start |-> t, end |-> e]
    BY <1>7, <2>2
  <2>4. 0 \in Int /\ 0 <= SpurMax /\ e \in Int /\ t # -1 /\ t <= t /\ t < e
    BY <1>2, <2>1
  <2> QED
    BY <1>6, <2>1, <2>3, <2>4
<1>10. SpurFits(spent, t) /\ spent.meter = 0
  <2> HIDE DEF spent
  <2>1. spent = [tick |-> t, meter |-> 0, style |-> s.style, lastId |-> s.lastId,
                 next |-> s.next, held |-> pressed, start |-> x, end |-> y]
    BY <1>7 DEF spent
  <2> QED
    BY <1>2, <1>4, <1>6, <2>1
<1> HIDE DEF charged, spent
<1>11. CASE buys /\ context = "Mounted"
  <2>1. g.spur = charged /\ g.spend = "Charge"
    BY <1>1, <1>11
  <2> QED
    BY <1>9, <2>1 DEF g
<1>12. CASE buys /\ context = "HorseAbsent"
  <2>1. g.spur = spent /\ g.spend = "Return"
    BY <1>1, <1>12
  <2>2. s.meter = SpurMax
    BY <1>12 DEF buys
  <2> QED
    BY <1>10, <1>12, <2>1, <2>2 DEF g
<1>13. CASE ~(buys /\ context = "Mounted") /\ ~(buys /\ context = "HorseAbsent")
  <2>1. g.spur = now /\ g.spend = "none"
    BY <1>1, <1>13
  <2> QED
    BY <1>8, <2>1 DEF g
<1> QED
  BY <1>11, <1>12, <1>13

LEMMA SpurIssuedFits ==
    ASSUME ActorBounds, NEW n \in Int, NEW s, SpurFits(s, n), NEW b,
           NEW kind \in {"Jump", "SaddleDiveElimination"}
    PROVE  SpurFits(Actor!SpurIssued(s, b, n, kind), n)
<1> DEFINE g == Actor!SpurIssued(s, b, n, kind)
           id == <<b, n, s.next>>
           grant == Actor!SpurGrant(s, kind)
<1>1. s.meter \in Int /\ s.meter <= SpurMax /\ s.style \in Int /\ s.style <= StyleCap
      /\ s.next \in Nat \ {0} /\ SpurMax \in Nat /\ StyleCap \in Nat /\ s.tick = n
  BY DEF SpurFits, ActorBounds
<1>2. CASE ~Actor!SpurCreditAccepted(s, id)
  BY <1>2 DEF Actor!SpurIssued
<1>3. CASE Actor!SpurCreditAccepted(s, id)
  <2>1. Actor!SpurPoints(kind) \in Nat
    BY DEF Actor!SpurPoints
  <2>2. PICK source \in Int :
           /\ source = IF Actor!IsStyle(kind)
                       THEN Actor!Min({Actor!SpurPoints(kind), StyleCap - s.style})
                       ELSE Actor!SpurPoints(kind)
           /\ Actor!IsStyle(kind) => source <= StyleCap - s.style
    <3>1. Actor!Min({Actor!SpurPoints(kind), StyleCap - s.style}) =
             IF Actor!SpurPoints(kind) <= StyleCap - s.style THEN Actor!SpurPoints(kind)
             ELSE StyleCap - s.style
      BY <1>1, <2>1, MinOfTwo
    <3> QED
      BY <1>1, <2>1, <3>1
  <2>3. grant = IF source <= SpurMax - s.meter THEN source ELSE SpurMax - s.meter
    <3>1. grant = Actor!Min({source, SpurMax - s.meter})
      BY <2>2 DEF Actor!SpurGrant
    <3> QED
      BY <1>1, <3>1, MinOfTwo
  <2> HIDE DEF grant
  <2>4. grant \in Int /\ s.meter + grant <= SpurMax
        /\ (Actor!IsStyle(kind) => s.style + grant <= StyleCap)
    BY <1>1, <2>2, <2>3
  <2>5. PICK m, y, x, i : /\ m = s.meter + grant /\ x = s.next + 1 /\ i = id
                          /\ y = IF Actor!IsStyle(kind) THEN s.style + grant ELSE s.style
    OBVIOUS
  <2>6. g = [s EXCEPT !.lastId = i, !.next = x, !.meter = m, !.style = y]
    BY <1>3, <2>5 DEF Actor!SpurIssued, grant
  <2> HIDE DEF g
  <2>7. g = [tick |-> s.tick, meter |-> m, style |-> y, lastId |-> i, next |-> x,
             held |-> s.held, start |-> s.start, end |-> s.end]
    BY <2>6 DEF SpurFits
  <2>8. g.tick = n /\ g.meter = m /\ g.style = y /\ g.lastId = i /\ g.next = x
        /\ g.held = s.held /\ g.start = s.start /\ g.end = s.end
    BY <1>1, <2>7
  <2>9. g = [tick |-> g.tick, meter |-> g.meter, style |-> g.style, lastId |-> g.lastId,
             next |-> g.next, held |-> g.held, start |-> g.start, end |-> g.end]
    BY <2>7
  <2>10. i[2] = n /\ i[3] = s.next
    BY <2>5
  <2>11. m \in Int /\ m <= SpurMax /\ y \in Int /\ y <= StyleCap /\ x \in Nat \ {0} /\ s.next < x
    BY <1>1, <2>4, <2>5
  <2>12. /\ s.start \in Int /\ s.end \in Int
         /\ \/ s.start = -1 /\ s.end = -1
            \/ s.start # -1 /\ s.end = s.start + ChargeTicks /\ s.start <= s.tick /\ s.tick < s.end
    BY DEF SpurFits
  <2>13. SpurFits(g, n)
    BY <1>1, <2>8, <2>9, <2>10, <2>11, <2>12 DEF SpurFits
  <2> QED
    BY <2>13 DEF g
<1> QED
  BY <1>2, <1>3

-----------------------------------------------------------------------------
(* One tick of the composed actor, in the order the kernels are called.    *)

Despawn(a) == a.horse.boltStart + BoltTicks

LostAt(a, t) ==
    IF Actor!HorseDespawns(a.horse, t) THEN Actor!HorseLost(a.recall, Despawn(a), a.lossTick)
    ELSE a.recall

Runs(a, t) ==
    /\ Actor!HorseAdvanced(a.horse, t).state = "Despawned"
    /\ Actor!HorseDespawns(a.horse, t) => t > Despawn(a)

TimedAt(a, t) == IF Runs(a, t) THEN Actor!RecallAdvanced(LostAt(a, t), t) ELSE LostAt(a, t)

BoughtAt(a, in) ==
    Actor!SpurAdvanced(a.spur, in.tick, in.spur,
        Actor!SpurContext(Actor!HorseAdvanced(a.horse, in.tick), LostAt(a, in.tick), in.mounted))

AskedAt(a, in) ==
    IF \/ BoughtAt(a, in).spend = "Return"
       \/ in.spur /\ TimedAt(a, in.tick).state = "Ready" /\ TimedAt(a, in.tick).tick = in.tick
    THEN Actor!RecallRequested(TimedAt(a, in.tick), in.tick) ELSE TimedAt(a, in.tick)

Mounts(a, in) == in.mount # "none" /\ Actor!CanMount(AskedAt(a, in), in.tick, TRUE, in.mount = "running")

\* While the horse is there or bolting nothing of the recall moves; once it is gone, the
\* recall is away, at this tick, and lost when the horse was.
LEMMA RecallIsTimed ==
    ASSUME ActorBounds, NEW a, ActorFits(a), NEW t \in Int, t > a.tick
    PROVE  LET steed == Actor!HorseAdvanced(a.horse, t)
           IN  /\ steed.state \in {"Available", "Bolting"} =>
                     /\ TimedAt(a, t) = a.recall /\ Home(a.recall) /\ LostAt(a, t) = a.recall
                     /\ steed.state = a.horse.state
                     /\ ~Actor!HorseDespawns(a.horse, t) /\ ~Runs(a, t)
               /\ steed.state = "Despawned" =>
                     /\ IsRecall(TimedAt(a, t)) /\ Away(TimedAt(a, t)) /\ TimedAt(a, t).tick = t
                     /\ TimedAt(a, t).lossTick = a.lossTick
                     /\ a.horse.state = "Despawned" => TimedAt(a, t).lostTick = a.recall.lostTick
                     /\ LostAt(a, t).state \in {"CoolingDown", "Ready"} =>
                           TimedAt(a, t).state \in {"CoolingDown", "Ready"}
                     /\ Runs(a, t) => LostAt(a, t).tick < t
                     /\ Actor!HorseDespawns(a.horse, t) =>
                           /\ a.lossTick # -1
                           /\ ~Actor!LoseRefused(a.recall, Despawn(a), a.lossTick)
               /\ steed.state \in {"Available", "Bolting", "Despawned"}
<1> DEFINE steed == Actor!HorseAdvanced(a.horse, t)
           lost == LostAt(a, t)
           timed == TimedAt(a, t)
           gone == Actor!HorseDespawns(a.horse, t)
<1>1. a.tick \in Int /\ a.tick >= -1 /\ HorseFits(a.horse, a.tick) /\ RecallFits(a.recall, a.tick)
      /\ Crossed(a.horse, a.recall, a.lossTick)
  BY DEF ActorFits
<1>2. HorseFits(steed, t) /\ steed.state = IF gone THEN "Despawned" ELSE a.horse.state
  BY <1>1, HorseAdvancedFits
<1>3. a.horse.state \in {"Available", "Bolting", "Despawned"}
  BY <1>1 DEF HorseFits
<1>4. gone => a.horse.state = "Bolting" /\ t - a.horse.boltStart >= BoltTicks
  BY DEF Actor!HorseDespawns
<1>5. /\ gone => lost = Actor!HorseLost(a.recall, Despawn(a), a.lossTick)
      /\ ~gone => lost = a.recall
  BY DEF LostAt
<1>6. timed = IF Runs(a, t) THEN Actor!RecallAdvanced(lost, t) ELSE lost
  BY DEF TimedAt
<1>7. Runs(a, t) <=> steed.state = "Despawned" /\ (gone => t > Despawn(a))
  BY DEF Runs
<1>8. IsRecall(a.recall) /\ a.recall.tick <= a.tick /\ a.recall.tick \in Int
      /\ a.recall.lossTick \in Int
  BY <1>1 DEF RecallFits, IsRecall
<1> HIDE DEF steed, lost, timed, gone
<1>9. CASE ~gone /\ a.horse.state \in {"Available", "Bolting"}
  <2>1. Home(a.recall) /\ steed.state = a.horse.state /\ lost = a.recall /\ ~Runs(a, t)
    BY <1>1, <1>2, <1>5, <1>7, <1>9 DEF Crossed
  <2>2. timed = a.recall
    BY <1>6, <2>1
  <2> QED
    BY <1>3, <1>9, <2>1, <2>2 DEF steed, lost, timed, gone
<1>10. CASE ~gone /\ a.horse.state = "Despawned"
  <2>1. Away(a.recall) /\ steed.state = "Despawned" /\ lost = a.recall /\ Runs(a, t)
        /\ a.lossTick = a.recall.lossTick
    BY <1>1, <1>2, <1>5, <1>7, <1>10 DEF Crossed
  <2>2. a.recall.tick <= t /\ a.recall.tick < t
    BY <1>1, <1>8
  <2>3. PICK r : r = a.recall
    OBVIOUS
  <2>4. timed = Actor!RecallAdvanced(r, t)
    BY <1>6, <2>1, <2>3
  <2>5. /\ IsRecall(timed) /\ Away(timed) /\ timed.tick = t /\ timed.lossTick = r.lossTick
        /\ timed.lostTick = r.lostTick
        /\ r.state \in {"CoolingDown", "Ready"} <=> timed.state \in {"CoolingDown", "Ready"}
    BY <1>8, <2>1, <2>2, <2>3, <2>4, RecallAdvancedAway
  <2> QED
    BY <1>10, <2>1, <2>2, <2>3, <2>5 DEF steed, lost, timed, gone
<1>11. CASE gone
  <2>1. a.horse.state = "Bolting" /\ a.lossTick = a.horse.boltStart /\ Home(a.recall)
        /\ a.horse.boltStart \in Int /\ a.horse.boltStart >= 0 /\ BoltTicks \in Nat
        /\ t - a.horse.boltStart >= BoltTicks
    BY <1>1, <1>4, <1>11 DEF Crossed, HorseFits, ActorBounds
  <2>2. steed.state = "Despawned"
    BY <1>2, <1>11
  <2>3. PICK d \in Int, l \in Int : d = Despawn(a) /\ l = a.lossTick
    BY <2>1 DEF Despawn
  <2>4. l >= 0 /\ d = l + BoltTicks /\ d <= t
    BY <2>1, <2>3 DEF Despawn
  <2>5. lost = Actor!HorseLost(a.recall, d, l)
    BY <1>5, <1>11, <2>3
  <2>6. IsRecall(lost) /\ Away(lost) /\ lost.tick = d /\ lost.lossTick = l /\ lost.state = "CoolingDown"
    BY <2>4, <2>5, HorseLostIsAway
  <2>7. a.lossTick # -1 /\ ~Actor!LoseRefused(a.recall, Despawn(a), a.lossTick)
    <3>1. l # -1 /\ ~(l > d)
      BY <2>1, <2>4
    <3>2. a.recall.state = "HorsePresent"
      BY <2>1 DEF Home
    <3> QED
      BY <2>3, <3>1, <3>2 DEF Actor!LoseRefused
  <2>8. CASE t > d
    <3>1. timed = Actor!RecallAdvanced(lost, t) /\ lost.tick <= t /\ lost.tick < t
      BY <1>6, <1>7, <2>2, <2>3, <2>6, <2>8
    <3>2. /\ IsRecall(timed) /\ Away(timed) /\ timed.tick = t /\ timed.lossTick = lost.lossTick
          /\ lost.state \in {"CoolingDown", "Ready"} <=> timed.state \in {"CoolingDown", "Ready"}
      BY <2>6, <3>1, RecallAdvancedAway
    <3> QED
      BY <2>1, <2>2, <2>3, <2>6, <2>7, <3>1, <3>2 DEF steed, lost, timed, gone
  <2>9. CASE ~(t > d)
    <3>1. timed = lost /\ ~Runs(a, t) /\ d = t
      BY <1>6, <1>7, <1>11, <2>3, <2>4, <2>9
    <3> QED
      BY <2>1, <2>2, <2>3, <2>6, <2>7, <3>1 DEF steed, lost, timed, gone
  <2> QED
    BY <2>8, <2>9
<1> QED
  BY <1>3, <1>9, <1>10, <1>11

LEMMA RecallIsAsked ==
    ASSUME ActorBounds, NEW a, ActorFits(a), NEW in, in.tick \in Int, in.tick > a.tick
    PROVE  LET t == in.tick
               steed == Actor!HorseAdvanced(a.horse, t)
               asked == AskedAt(a, in)
               bought == BoughtAt(a, in)
           IN  /\ SpurFits(bought.spur, t)
               /\ steed.state \in {"Available", "Bolting"} =>
                     asked = a.recall /\ bought.spend # "Return" /\ ~Mounts(a, in)
               /\ steed.state = "Despawned" =>
                     /\ IsRecall(asked) /\ Away(asked) /\ asked.tick = t
                     /\ asked.lossTick = a.lossTick
                     /\ bought.spend = "Return" => TimedAt(a, t).state \in {"CoolingDown", "Ready"}
               /\ a.recall.state \in {"CoolingDown", "Ready"} /\ asked.state = "Hoofbeats" =>
                     \/ t >= a.recall.lostTick + MinRecall
                     \/ a.spur.meter = SpurMax /\ bought.spur.meter = 0
<1> DEFINE t == in.tick
           steed == Actor!HorseAdvanced(a.horse, t)
           asked == AskedAt(a, in)
           bought == BoughtAt(a, in)
           timed == TimedAt(a, t)
           lost == LostAt(a, t)
           context == Actor!SpurContext(steed, lost, in.mounted)
<1>1. a.tick \in Int /\ a.tick >= -1 /\ SpurFits(a.spur, a.tick) /\ Crossed(a.horse, a.recall, a.lossTick)
      /\ HorseFits(a.horse, a.tick)
  BY DEF ActorFits
<1>2. bought = Actor!SpurAdvanced(a.spur, t, in.spur, context)
  BY DEF BoughtAt
<1>3. /\ SpurFits(bought.spur, t)
      /\ bought.spend = "Return" => context = "HorseAbsent" /\ a.spur.meter = SpurMax /\ bought.spur.meter = 0
  <2> HIDE DEF context, bought
  <2>1. PICK c : c = context
    OBVIOUS
  <2>2. bought = Actor!SpurAdvanced(a.spur, t, in.spur, c)
    BY <1>2, <2>1
  <2> QED
    BY <1>1, <2>1, <2>2, SpurAdvancedFits
<1>4. context = "HorseAbsent" => steed.state = "Despawned" /\ lost.state \in {"CoolingDown", "Ready"}
  <2> HIDE DEF steed, lost
  <2>1. context = "HorseAbsent" \/ context = "Mounted" \/ context = "Ineligible"
    BY DEF Actor!SpurContext
  <2>2. ~(steed.state = "Despawned" /\ lost.state \in {"CoolingDown", "Ready"}) =>
           context \in {"Mounted", "Ineligible"}
    BY DEF Actor!SpurContext
  <2> QED
    BY <2>2
<1>5. asked = IF \/ bought.spend = "Return"
                 \/ in.spur /\ timed.state = "Ready" /\ timed.tick = t
              THEN Actor!RecallRequested(timed, t) ELSE timed
  BY DEF AskedAt
<1>6. /\ steed.state \in {"Available", "Bolting"} =>
            timed = a.recall /\ Home(a.recall) /\ steed.state = a.horse.state
      /\ steed.state = "Despawned" =>
            /\ IsRecall(timed) /\ Away(timed) /\ timed.tick = t /\ timed.lossTick = a.lossTick
            /\ a.horse.state = "Despawned" => timed.lostTick = a.recall.lostTick
            /\ lost.state \in {"CoolingDown", "Ready"} => timed.state \in {"CoolingDown", "Ready"}
      /\ steed.state \in {"Available", "Bolting", "Despawned"}
  BY RecallIsTimed
<1>7. Mounts(a, in) => asked.state \in {"MountWindow", "WaitingMount"}
  BY DEF Mounts, Actor!CanMount
<1> HIDE DEF steed, asked, bought, timed, lost, context
<1>8. CASE steed.state \in {"Available", "Bolting"}
  <2>1. timed.state = "HorsePresent" /\ timed = a.recall /\ bought.spend # "Return"
    BY <1>3, <1>4, <1>6, <1>8 DEF Home
  <2>2. asked = a.recall
    BY <1>5, <2>1
  <2>3. ~Mounts(a, in) /\ a.recall.state \notin {"CoolingDown", "Ready"}
    BY <1>7, <2>1, <2>2
  <2> QED
    BY <1>3, <1>8, <2>1, <2>2, <2>3 DEF steed, asked, bought, timed
<1>9. CASE steed.state = "Despawned"
  <2>1. bought.spend = "Return" => timed.state \in {"CoolingDown", "Ready"}
    BY <1>3, <1>4, <1>6, <1>9
  <2>2. IsRecall(timed) /\ Away(timed) /\ timed.tick = t /\ timed.lossTick = a.lossTick
    BY <1>6, <1>9
  <2>3. IsRecall(asked) /\ Away(asked) /\ asked.tick = t /\ asked.lossTick = a.lossTick
    <3>1. CASE asked = timed
      BY <2>2, <3>1
    <3>2. CASE asked = Actor!RecallRequested(timed, t)
      BY <2>2, <3>2, RequestedIsAway
    <3> QED
      BY <1>5, <3>1, <3>2
  <2>4. ASSUME a.recall.state \in {"CoolingDown", "Ready"}, asked.state = "Hoofbeats"
        PROVE  \/ t >= a.recall.lostTick + MinRecall
               \/ a.spur.meter = SpurMax /\ bought.spur.meter = 0
    <3>1. a.horse.state = "Despawned"
      BY <1>1, <2>4 DEF Crossed, Home
    <3>2. ~Actor!HorseDespawns(a.horse, t)
      BY <3>1 DEF Actor!HorseDespawns
    <3>3. lost = a.recall
      BY <3>2 DEF lost, LostAt
    <3>4. timed.state \in {"CoolingDown", "Ready"} /\ timed.lostTick = a.recall.lostTick
      BY <1>6, <1>9, <2>4, <3>1, <3>3
    <3>5. CASE bought.spend = "Return"
      BY <1>3, <3>5
    <3>6. CASE bought.spend # "Return"
      <4>1. timed.state = "Ready"
        BY <1>5, <2>4, <3>4, <3>6
      <4>2. timed.enter >= timed.lostTick + MinRecall /\ timed.enter <= t
            /\ timed.enter \in Int /\ timed.lostTick \in Int /\ MinRecall \in Nat
        BY <2>2, <4>1 DEF Away, IsRecall, ActorBounds, Returning
      <4> QED
        BY <3>4, <4>2
    <3> QED
      BY <3>5, <3>6
  <2> QED
    BY <1>3, <1>9, <2>1, <2>3, <2>4 DEF steed, asked, bought, timed
<1> QED
  BY <1>6, <1>8, <1>9

\* What one tick leaves behind: a fitting actor at that tick, in every kernel, with what
\* the two promises about the recall and the remount ask of the step.
LEMMA AdvanceFits ==
    ASSUME ActorBounds, NEW a, ActorFits(a), NEW in, in.tick \in Int, in.tick > a.tick
    PROVE  LET next == Actor!ActorAdvance(a, in).next
           IN  /\ ActorFits(next) /\ next.tick = in.tick /\ next.pending = a.pending
               /\ a.recall.state \in {"CoolingDown", "Ready"} /\ next.recall.state = "Hoofbeats" =>
                     \/ in.tick >= a.recall.lostTick + MinRecall
                     \/ a.spur.meter = SpurMax /\ next.spur.meter = 0
               /\ a.horse.state # "Available" /\ next.horse.state = "Available" =>
                     /\ next.horse.health = MaxHealth /\ next.foot.state = "Standing"
                     /\ next.recall.row.lost = a.lossTick
                     /\ next.recall.row.remount >= a.lossTick + BoltTicks + HoofTicks
                                                     + DustTicks + GallopTicks - WindowTicks
<1> DEFINE t == in.tick
           steed == Actor!HorseAdvanced(a.horse, t)
           asked == AskedAt(a, in)
           bought == BoughtAt(a, in)
           mounts == Mounts(a, in)
           foot == IF steed.state # "Available" THEN Actor!FootAdvanced(a.foot, in) ELSE a.foot
           next == Actor!ActorAdvance(a, in).next
<1>1. a.tick \in Int /\ a.tick >= -1 /\ HorseFits(a.horse, a.tick) /\ FootFits(a.foot, a.tick)
      /\ RecallFits(a.recall, a.tick) /\ Crossed(a.horse, a.recall, a.lossTick)
  BY DEF ActorFits
<1>2. next = [a EXCEPT !.tick = t, !.spur = bought.spur,
                       !.horse = IF mounts THEN Actor!HorseRestored(steed) ELSE steed,
                       !.foot = IF mounts THEN Actor!NewFoot ELSE foot,
                       !.recall = IF mounts THEN Actor!Mounted(asked, t) ELSE asked,
                       !.lossTick = IF mounts THEN -1 ELSE @]
  BY DEF Actor!ActorAdvance, LostAt, Despawn, Runs, TimedAt, BoughtAt, AskedAt, Mounts, Actor!NoTick
<1>3. PICK s, h, f, r, l :
        /\ s = bought.spur
        /\ h = IF mounts THEN Actor!HorseRestored(steed) ELSE steed
        /\ f = IF mounts THEN Actor!NewFoot ELSE foot
        /\ r = IF mounts THEN Actor!Mounted(asked, t) ELSE asked
        /\ l = IF mounts THEN -1 ELSE a.lossTick
  OBVIOUS
<1>4. next = [a EXCEPT !.tick = t, !.spur = s, !.horse = h, !.foot = f, !.recall = r, !.lossTick = l]
  BY <1>2, <1>3
<1> HIDE DEF next
<1>5. next = [tick |-> t, horse |-> h, foot |-> f, recall |-> r, lossTick |-> l,
              pending |-> a.pending, spur |-> s]
  BY <1>4 DEF ActorFits
<1>6. next.tick = t /\ next.horse = h /\ next.foot = f /\ next.recall = r /\ next.lossTick = l
      /\ next.pending = a.pending /\ next.spur = s
  BY <1>5
<1>7. /\ SpurFits(bought.spur, t)
      /\ steed.state \in {"Available", "Bolting"} => asked = a.recall /\ ~mounts
      /\ steed.state = "Despawned" =>
            IsRecall(asked) /\ Away(asked) /\ asked.tick = t /\ asked.lossTick = a.lossTick
      /\ a.recall.state \in {"CoolingDown", "Ready"} /\ asked.state = "Hoofbeats" =>
            \/ t >= a.recall.lostTick + MinRecall
            \/ a.spur.meter = SpurMax /\ bought.spur.meter = 0
  BY RecallIsAsked
<1>8. /\ steed.state \in {"Available", "Bolting"} => steed.state = a.horse.state
      /\ steed.state \in {"Available", "Bolting", "Despawned"}
  BY RecallIsTimed
<1>9. HorseFits(steed, t) /\ steed.boltStart = a.horse.boltStart
  BY <1>1, HorseAdvancedFits
<1>10. FootFits(foot, t)
  <2>1. FootFits(Actor!FootAdvanced(a.foot, in), t)
    BY <1>1, FootAdvancedFits
  <2>2. FootFits(a.foot, t)
    BY <1>1 DEF FootFits
  <2> QED
    BY <2>1, <2>2
<1>11. mounts => Actor!CanMount(asked, t, TRUE, in.mount = "running")
  BY DEF Mounts
<1> HIDE DEF steed, asked, bought, mounts, foot
<1>12. CASE mounts
  <2>1. steed.state = "Despawned" /\ IsRecall(asked) /\ Away(asked) /\ asked.lossTick = a.lossTick
    BY <1>7, <1>8, <1>12
  <2>2. /\ IsRecall(r) /\ Home(r) /\ r.tick = t /\ r.row.lost = a.lossTick /\ r.row.remount = t
        /\ t >= a.lossTick + BoltTicks + HoofTicks + DustTicks + GallopTicks - WindowTicks
    <3>1. r = Actor!Mounted(asked, t)
      BY <1>3, <1>12
    <3>2. PICK m : m = (in.mount = "running")
      OBVIOUS
    <3>3. Actor!CanMount(asked, t, TRUE, m)
      BY <1>11, <1>12, <3>2
    <3> QED
      BY <2>1, <3>1, <3>3, MountedIsHome
  <2>3. HorseFits(h, t) /\ h.state = "Available" /\ h.health = MaxHealth
    <3>1. h = Actor!HorseRestored(steed) /\ t >= 0
      BY <1>1, <1>3, <1>12
    <3> QED
      BY <1>9, <3>1, HorseRestoredFits
  <2>4. FootFits(f, t) /\ f.state = "Standing"
    <3>1. f = Actor!NewFoot /\ t >= -1
      BY <1>1, <1>3, <1>12
    <3> QED
      BY <3>1, NewFootFits
  <2>5. SpurFits(s, t) /\ l = -1
    BY <1>3, <1>7, <1>12
  <2>6. r.state # "Hoofbeats"
    BY <2>2 DEF Home
  <2>7. RecallFits(r, t) /\ Crossed(h, r, l)
    BY <2>2, <2>3, <2>5 DEF RecallFits, Crossed
  <2>8. ActorFits(next)
    BY <1>1, <1>5, <1>6, <2>3, <2>4, <2>5, <2>7 DEF ActorFits
  <2> QED
    BY <1>6, <2>2, <2>3, <2>4, <2>6, <2>8 DEF next
<1>13. CASE ~mounts
  <2>1. h = steed /\ f = foot /\ r = asked /\ l = a.lossTick /\ s = bought.spur
    BY <1>3, <1>13
  <2>2. RecallFits(r, t) /\ Crossed(h, r, l)
    <3>1. CASE steed.state \in {"Available", "Bolting"}
      <4>1. r = a.recall /\ steed.state = a.horse.state
        BY <1>7, <1>8, <2>1, <3>1
      <4>2. RecallFits(r, t)
        <5>1. a.recall.tick \in Int /\ a.recall.tick <= a.tick
          BY <1>1 DEF RecallFits, IsRecall
        <5>2. a.recall.tick <= t
          BY <1>1, <5>1
        <5> QED
          BY <1>1, <4>1, <5>2 DEF RecallFits
      <4>3. Crossed(h, r, l)
        BY <1>1, <1>9, <2>1, <3>1, <4>1 DEF Crossed
      <4> QED
        BY <4>2, <4>3
    <3>2. CASE steed.state = "Despawned"
      <4>1. IsRecall(r) /\ Away(r) /\ r.tick = t /\ r.lossTick = a.lossTick
        BY <1>7, <2>1, <3>2
      <4> QED
        BY <2>1, <3>2, <4>1 DEF RecallFits, Crossed
    <3> QED
      BY <1>8, <3>1, <3>2
  <2>3. ActorFits(next)
    BY <1>1, <1>5, <1>6, <1>7, <1>9, <1>10, <2>1, <2>2 DEF ActorFits
  <2>4. ~(a.horse.state # "Available" /\ h.state = "Available")
    BY <1>8, <2>1
  <2> QED
    BY <1>6, <1>7, <2>1, <2>3, <2>4 DEF next
<1> QED
  BY <1>12, <1>13

\* No error is returned half way through the kernels.
LEMMA AdvanceSucceeds ==
    ASSUME ActorBounds, NEW a, ActorFits(a), NEW in, in.tick \in Int, in.tick > a.tick
    PROVE  Actor!ActorAdvance(a, in).ok = TRUE
<1> DEFINE t == in.tick
           steed == Actor!HorseAdvanced(a.horse, t)
           gone == Actor!HorseDespawns(a.horse, t)
           bought == BoughtAt(a, in)
           timed == TimedAt(a, t)
           fine == /\ a.tick < t /\ a.horse.tick < t /\ a.spur.tick < t
                   /\ gone => a.lossTick # -1 /\ ~Actor!LoseRefused(a.recall, Despawn(a), a.lossTick)
                   /\ steed.state # "Available" =>
                         /\ a.foot.tick < t
                         /\ a.foot.state = "SpookStunned" => a.foot.stunUntil # -1
                         /\ a.foot.state = "Rolling" => a.foot.rollStart # -1
                   /\ Runs(a, t) => LostAt(a, t).tick < t
                   /\ bought.spend = "Return" =>
                         timed.state \in {"CoolingDown", "Ready"} /\ timed.tick = t
<1>1. Actor!ActorAdvance(a, in).ok = fine
  BY DEF Actor!ActorAdvance, LostAt, Despawn, Runs, TimedAt, BoughtAt, Actor!NoTick
<1>2. a.tick \in Int /\ a.horse.tick = a.tick /\ a.spur.tick = a.tick
  BY DEF ActorFits, HorseFits, SpurFits
<1>3. a.foot.tick < t /\ (a.foot.state = "SpookStunned" => a.foot.stunUntil # -1)
      /\ (a.foot.state = "Rolling" => a.foot.rollStart # -1)
  BY <1>2 DEF ActorFits, FootFits
<1>4. /\ steed.state \in {"Available", "Bolting"} => ~gone /\ ~Runs(a, t)
      /\ steed.state = "Despawned" =>
            /\ timed.tick = t
            /\ Runs(a, t) => LostAt(a, t).tick < t
            /\ gone => a.lossTick # -1 /\ ~Actor!LoseRefused(a.recall, Despawn(a), a.lossTick)
      /\ steed.state \in {"Available", "Bolting", "Despawned"}
  BY RecallIsTimed
<1>5. /\ steed.state \in {"Available", "Bolting"} => bought.spend # "Return"
      /\ steed.state = "Despawned" /\ bought.spend = "Return" =>
            timed.state \in {"CoolingDown", "Ready"}
  BY RecallIsAsked
<1> HIDE DEF steed, gone, bought, timed
<1>6. fine
  BY <1>2, <1>3, <1>4, <1>5
<1> HIDE DEF fine
<1>7. fine = TRUE
  BY <1>6 DEF fine
<1> QED
  BY <1>1, <1>7

LEMMA NewFits == ASSUME ActorBounds PROVE ActorFits(Actor!NewActor)
<1>1. PICK h, f, r, s, p : /\ h = Actor!NewHorse /\ f = Actor!NewFoot /\ r = Actor!NewRecall
                           /\ s = Actor!NewSpur /\ p = Actor!NoPending
  OBVIOUS
<1>2. Actor!NewActor = [tick |-> -1, horse |-> h, foot |-> f, recall |-> r, lossTick |-> -1,
                        pending |-> p, spur |-> s]
  BY <1>1 DEF Actor!NewActor, Actor!NoTick
<1>3. HorseFits(h, -1) /\ h.state = "Available"
  BY <1>1 DEF HorseFits, Actor!NewHorse, Actor!NoTick, Actor!NoId, Now, ActorBounds
<1>4. FootFits(f, -1)
  BY <1>1, NewFootFits
<1>5. RecallFits(r, -1) /\ Home(r)
  BY <1>1 DEF RecallFits, IsRecall, Home, Actor!NewRecall, Actor!NoTick, Actor!NoId, Actor!NoRow, ActorBounds
<1>6. SpurFits(s, -1)
  BY <1>1 DEF SpurFits, Actor!NewSpur, Actor!NoTick, Actor!NoId, ActorBounds
<1>7. Crossed(h, r, -1)
  BY <1>3, <1>5 DEF Crossed
<1> QED
  BY <1>2, <1>3, <1>4, <1>5, <1>6, <1>7 DEF ActorFits

LEMMA RespawnedFits ==
    ASSUME ActorBounds, NEW a, ActorFits(a), a.tick # -1
    PROVE  LET next == Actor!ActorRespawned(a)
           IN  /\ ActorFits(next) /\ next.horse.health = MaxHealth
               /\ next.foot.state = "Standing" /\ next.recall.row = Actor!NoRow
               /\ next.recall.state = "HorsePresent"
<1> DEFINE next == Actor!ActorRespawned(a)
<1>1. PICK n \in Int : n = a.tick /\ n >= 0
  BY DEF ActorFits
<1>2. PICK z, h0, f0, r0 : z = n /\ h0 = Actor!NewHorse /\ f0 = Actor!NewFoot /\ r0 = Actor!NewRecall
  OBVIOUS
<1>3. PICK h, f, r, s, p : /\ h = [h0 EXCEPT !.tick = z] /\ f = [f0 EXCEPT !.tick = z]
                           /\ r = [r0 EXCEPT !.tick = z] /\ s = a.spur /\ p = Actor!NoPending
  OBVIOUS
<1>4. next = [tick |-> z, horse |-> h, foot |-> f, recall |-> r, lossTick |-> -1,
              pending |-> p, spur |-> s]
  <2>1. PICK w, s0 : w = Actor!NewActor /\ s0 = Actor!NewSpur
    OBVIOUS
  <2>2. w = [tick |-> -1, horse |-> h0, foot |-> f0, recall |-> r0, lossTick |-> -1,
             pending |-> p, spur |-> s0]
    BY <1>2, <1>3, <2>1 DEF Actor!NewActor, Actor!NoTick
  <2>3. next = [w EXCEPT !.tick = z, !.horse = [w.horse EXCEPT !.tick = z],
                         !.foot = [w.foot EXCEPT !.tick = z],
                         !.recall = [w.recall EXCEPT !.tick = z], !.spur = s]
    BY <1>1, <1>2, <1>3, <2>1, <2>2 DEF Actor!ActorRespawned
  <2> HIDE DEF next
  <2>4. next = [w EXCEPT !.tick = z, !.horse = h, !.foot = f, !.recall = r, !.spur = s]
    BY <1>3, <2>2, <2>3
  <2> QED
    BY <2>2, <2>4
<1> HIDE DEF next
<1>5. next.tick = n /\ next.horse = h /\ next.foot = f /\ next.recall = r
      /\ next.lossTick = -1 /\ next.spur = s /\ next.pending = p
  BY <1>2, <1>4
<1>6. HorseFits(h, n) /\ h.state = "Available" /\ h.health = MaxHealth
  <2>1. h = [health |-> MaxHealth, state |-> "Available", boltStart |-> -1,
             away |-> "ahead", lastId |-> Actor!NoId, tick |-> z, regen |-> 0]
    BY <1>2, <1>3 DEF Actor!NewHorse, Actor!NoTick
  <2>2. Now(n) = n /\ Actor!NoId[2] = -1
    BY <1>1 DEF Now, Actor!NoId, Actor!NoTick
  <2> QED
    BY <1>1, <1>2, <2>1, <2>2 DEF HorseFits, ActorBounds
<1>7. FootFits(f, n) /\ f.state = "Standing"
  <2>1. PICK m : m = Actor!StaminaFull
    OBVIOUS
  <2>2. f = [tick |-> z, state |-> "Standing", stamina |-> m, crouch |-> FALSE, buffer |-> -1,
             rollStart |-> -1, cooldown |-> 0, rollExit |-> -1, stunUntil |-> -1]
    BY <1>2, <1>3, <2>1 DEF Actor!NewFoot, Actor!NoTick
  <2> QED
    BY <1>1, <1>2, <2>1, <2>2, StaminaIs DEF FootFits
<1>8. r = [state |-> "HorsePresent", tick |-> z, lossTick |-> -1, lostTick |-> -1, enter |-> -1,
           earned |-> 0, remainder |-> 0, credit |-> Actor!NoId, row |-> Actor!NoRow]
  BY <1>2, <1>3 DEF Actor!NewRecall, Actor!NoTick
<1>9. r.row = Actor!NoRow /\ r.state = "HorsePresent" /\ r.tick = n
  BY <1>2, <1>8
<1>10. Home(r)
  <2>1. [r EXCEPT !.tick = -1] = Actor!NewRecall
    BY <1>8 DEF Actor!NewRecall, Actor!NoTick
  <2> QED
    BY <1>9, <2>1 DEF Home
<1>11. IsRecall(r)
  <2>1. Actor!NoId[2] = -1 /\ Actor!NoRow = [lost |-> Actor!NoRow.lost, remount |-> Actor!NoRow.remount]
    BY DEF Actor!NoId, Actor!NoTick, Actor!NoRow
  <2>2. n \in Int /\ z = n /\ 0 < DamageUnit /\ 0 <= BaseRecall - MinRecall
    BY <1>2 DEF ActorBounds
  <2> QED
    BY <1>8, <2>1, <2>2 DEF IsRecall
<1>12. RecallFits(r, n)
  BY <1>9, <1>10, <1>11 DEF RecallFits
<1>13. Crossed(h, r, -1)
  BY <1>6, <1>10 DEF Crossed
<1>14. SpurFits(s, n)
  BY <1>1, <1>3 DEF ActorFits
<1>15. next = [tick |-> next.tick, horse |-> next.horse, foot |-> next.foot, recall |-> next.recall,
               lossTick |-> next.lossTick, pending |-> next.pending, spur |-> next.spur]
  BY <1>4
<1>16. ActorFits(next)
  BY <1>1, <1>5, <1>6, <1>7, <1>12, <1>13, <1>14, <1>15 DEF ActorFits
<1> QED
  BY <1>5, <1>6, <1>7, <1>9, <1>16 DEF next

LEMMA DamagedFits ==
    ASSUME ActorBounds, NEW a, ActorFits(a), NEW id, id[2] = Now(a.tick), NEW amount \in Nat, NEW away,
           Actor!ActorDamageApplies(a, id, amount)
    PROVE  LET next == Actor!ActorDamaged(a, id, amount, away)
           IN  ActorFits(next) /\ a.horse.state = "Available" /\ a.recall.state = "HorsePresent"
<1> DEFINE next == Actor!ActorDamaged(a, id, amount, away)
           steed == Actor!HorseDamaged(a.horse, id, amount, away)
<1>1. PICK n \in Int : n = a.tick /\ n >= -1
  BY DEF ActorFits
<1>2. a.horse.state = "Available"
      /\ (a.horse.health > 0 /\ amount >= a.horse.health => ~Actor!SpookRefused(a.foot, id[2]))
  BY DEF Actor!ActorDamageApplies, Actor!HorseAccepts
<1>3. HorseFits(a.horse, n) /\ FootFits(a.foot, n) /\ RecallFits(a.recall, n) /\ SpurFits(a.spur, n)
      /\ Home(a.recall) /\ a.lossTick = -1
  BY <1>1, <1>2 DEF ActorFits, Crossed
<1>4. /\ HorseFits(steed, n)
      /\ \/ steed.state = "Available"
         \/ /\ steed.state = "Bolting" /\ steed.boltStart = Now(n)
            /\ a.horse.health > 0 /\ amount >= a.horse.health
  BY <1>1, <1>2, <1>3, HorseDamagedFits
<1>5. next = IF steed.state = "Available" THEN [a EXCEPT !.horse = steed]
             ELSE [a EXCEPT !.horse = steed, !.foot = Actor!SpookStunned(@, id[2]),
                            !.lossTick = id[2], !.pending = [id |-> id, away |-> away]]
  BY DEF Actor!ActorDamaged
<1> HIDE DEF next, steed
<1>6. a.recall.state = "HorsePresent"
  BY <1>3 DEF Home
<1>7. CASE steed.state = "Available"
  <2>1. next = [tick |-> a.tick, horse |-> steed, foot |-> a.foot, recall |-> a.recall,
                lossTick |-> a.lossTick, pending |-> a.pending, spur |-> a.spur]
    BY <1>5, <1>7 DEF ActorFits
  <2>2. Crossed(steed, a.recall, a.lossTick)
    BY <1>3, <1>7 DEF Crossed
  <2>3. ActorFits(next)
    BY <1>1, <1>3, <1>4, <2>1, <2>2 DEF ActorFits
  <2> QED
    BY <1>2, <1>6, <2>3 DEF next
<1>8. CASE steed.state # "Available"
  <2>1. PICK f, l, p : f = Actor!SpookStunned(a.foot, Now(n)) /\ l = Now(n) /\ p = [id |-> id, away |-> away]
    OBVIOUS
  <2>2. next = [a EXCEPT !.horse = steed, !.foot = f, !.lossTick = l, !.pending = p]
    BY <1>1, <1>5, <1>8, <2>1 DEF ActorFits
  <2>3. next = [tick |-> a.tick, horse |-> steed, foot |-> f, recall |-> a.recall,
                lossTick |-> l, pending |-> p, spur |-> a.spur]
    BY <2>2 DEF ActorFits
  <2>4. FootFits(f, n)
    BY <1>1, <1>2, <1>3, <1>4, <1>8, <2>1, SpookedFits
  <2>5. Crossed(steed, a.recall, l)
    BY <1>3, <1>4, <1>8, <2>1 DEF Crossed
  <2>6. ActorFits(next)
    BY <1>1, <1>3, <1>4, <2>3, <2>4, <2>5 DEF ActorFits
  <2> QED
    BY <1>2, <1>6, <2>6 DEF next
<1> QED
  BY <1>7, <1>8

\* What fits is what restore_checkpoint accepts, once no fatal effect is pending.
LEMMA FitsIsRestorable ==
    ASSUME ActorBounds, NEW a, ActorFits(a), a.tick # -1, a.pending = Actor!NoPending
    PROVE  Actor!ActorRestorable(a)
<1>1. PICK n \in Int : n = a.tick /\ n >= 0
  BY DEF ActorFits
<1>2. HorseFits(a.horse, n) /\ FootFits(a.foot, n) /\ RecallFits(a.recall, n) /\ SpurFits(a.spur, n)
      /\ Crossed(a.horse, a.recall, a.lossTick) /\ Now(n) = n
  BY <1>1 DEF ActorFits, Now
<1>3. Actor!HorseValid(a.horse)
  <2>1. PICK h : h = a.horse
    OBVIOUS
  <2>2. HorseFits(h, n) /\ h.tick = n /\ BoltTicks \in Nat
    BY <1>2, <2>1 DEF HorseFits, ActorBounds
  <2>3. h.health <= MaxHealth /\ h.regen < TickRate /\ h.lastId[2] <= h.tick /\ h.boltStart <= h.tick
        /\ (h.health = MaxHealth => h.regen = 0)
    BY <1>2, <2>2 DEF HorseFits
  <2>4. \/ h.state = "Available" /\ h.health > 0 /\ h.boltStart = -1
        \/ h.state = "Bolting" /\ h.health = 0 /\ h.boltStart # -1 /\ h.tick - h.boltStart < BoltTicks
        \/ h.state = "Despawned" /\ h.health = 0 /\ h.boltStart # -1
           /\ h.tick - h.boltStart >= BoltTicks
    BY <2>2 DEF HorseFits
  <2> QED
    BY <2>1, <2>3, <2>4 DEF Actor!HorseValid, Actor!NoTick
<1>4. Actor!FootValid(a.foot)
  BY <1>2 DEF FootFits, Actor!FootValid, Actor!NoTick
<1>5. Actor!RecallValid(a.recall)
  <2> DEFINE r == a.recall
  <2>1. IsRecall(r) /\ (Home(r) \/ Away(r))
    BY <1>2 DEF RecallFits
  <2>2. /\ r.earned <= BaseRecall - MinRecall /\ r.remainder < DamageUnit
        /\ r.credit # Actor!NoId =>
              r.lostTick # Actor!NoTick /\ r.lostTick <= r.credit[2] /\ r.credit[2] <= r.tick
    BY <2>1 DEF IsRecall, Actor!NoTick
  <2> HIDE DEF r
  <2>3. CASE Home(r)
    <3>1. r.state = "HorsePresent" /\ Actor!NoTick = -1
      BY <2>3 DEF Home, Actor!NoTick
    <3>2. CASE r.row = Actor!NoRow
      <4>1. r.row.remount = -1
        BY <3>2 DEF Actor!NoRow, Actor!NoTick
      <4>2. ~(r.lostTick >= 0 /\ r.lostTick <= r.row.remount)
        BY <2>1, <4>1 DEF IsRecall
      <4>3. [r EXCEPT !.tick = Actor!NoTick] = Actor!NewRecall
        BY <2>3, <3>1, <4>2 DEF Home
      <4> QED
        BY <2>2, <3>1, <3>2, <4>3 DEF Actor!RecallValid, r
    <3>3. CASE r.row # Actor!NoRow
      <4>1. r.row.lost = r.lossTick /\ r.lostTick >= 0 /\ r.enter = r.row.remount
            /\ r.lostTick <= r.row.remount
        BY <2>3, <3>3 DEF Home
      <4>2. r.lostTick # Actor!NoTick
        BY <2>1, <4>1 DEF IsRecall, Actor!NoTick
      <4> QED
        BY <2>2, <3>1, <3>3, <4>1, <4>2 DEF Actor!RecallValid, r
    <3> QED
      BY <3>2, <3>3
  <2>4. CASE Away(r)
    <3>1. r.state # "HorsePresent"
      BY <2>4 DEF Away, Returning
    <3>2. Actor!NoTick \notin {r.lossTick, r.lostTick, r.enter} /\ r.lossTick <= r.lostTick
          /\ r.lostTick <= r.enter /\ r.enter <= r.tick
      BY <2>1, <2>4 DEF Away, IsRecall, Actor!NoTick, ActorBounds
    <3>3. r.row = [lost |-> r.lossTick, remount |-> Actor!NoTick]
      BY <2>4 DEF Away, Actor!NoTick
    <3> QED
      BY <2>2, <3>1, <3>2, <3>3 DEF Actor!RecallValid, r
  <2> QED
    BY <2>1, <2>3, <2>4
<1>6. Actor!SpurValid(a.spur)
  BY <1>2 DEF SpurFits, Actor!SpurValid, Actor!NoTick
<1>7. a.horse.tick <= a.tick /\ a.foot.tick <= a.tick /\ a.recall.tick <= a.tick /\ a.spur.tick <= a.tick
  BY <1>1, <1>2 DEF HorseFits, FootFits, RecallFits, SpurFits
<1>8. Actor!CrossKernelValid(a)
  <2>1. Away(a.recall) => a.recall.state # "HorsePresent"
    BY DEF Away, Returning
  <2>2. Home(a.recall) => a.recall.state = "HorsePresent"
    BY DEF Home
  <2> QED
    BY <1>2, <2>1, <2>2 DEF Crossed, Actor!CrossKernelValid, Actor!NoTick
<1>9. Actor!PendingValid(a)
  BY DEF Actor!PendingValid
<1> QED
  BY <1>3, <1>4, <1>5, <1>6, <1>7, <1>8, <1>9 DEF Actor!ActorRestorable

Accepted(r, id, damage) ==
    /\ id[2] \in Int /\ damage \in Nat \cup {-1}
    /\ Actor!RecallCreditAccepted(r, id)

LEMMA CreditFits ==
    ASSUME ActorBounds, NEW a, ActorFits(a), NEW id, NEW damage, Accepted(a.recall, id, damage)
    PROVE  /\ ActorFits([a EXCEPT !.recall = Actor!RecallCredited(@, id, damage)])
           /\ [a EXCEPT !.recall = Actor!RecallCredited(@, id, damage)].horse = a.horse
           /\ [a EXCEPT !.recall = Actor!RecallCredited(@, id, damage)].recall.state = a.recall.state
<1>1. PICK r : r = Actor!RecallCredited(a.recall, id, damage)
  OBVIOUS
<1>2. PICK next : next = [a EXCEPT !.recall = r]
  OBVIOUS
<1>3. next = [a EXCEPT !.recall = Actor!RecallCredited(@, id, damage)]
  BY <1>1, <1>2 DEF ActorFits
<1>4. id[2] \in Int /\ damage \in Nat \cup {-1} /\ Actor!RecallCreditAccepted(a.recall, id)
  BY DEF Accepted
<1>5. PICK n \in Int : n = a.tick /\ n >= -1
  BY DEF ActorFits
<1>6. HorseFits(a.horse, n) /\ FootFits(a.foot, n) /\ RecallFits(a.recall, n) /\ SpurFits(a.spur, n)
      /\ Crossed(a.horse, a.recall, a.lossTick)
  BY <1>5 DEF ActorFits
<1>7. next = [tick |-> a.tick, horse |-> a.horse, foot |-> a.foot, recall |-> r,
              lossTick |-> a.lossTick, pending |-> a.pending, spur |-> a.spur]
  BY <1>2 DEF ActorFits
<1>8. IsRecall(a.recall) /\ Away(a.recall)
  BY <1>6, <1>4 DEF RecallFits, Home, Actor!RecallCreditAccepted
<1>9. IsRecall(r) /\ Away(r) /\ r.tick = a.recall.tick /\ r.state = a.recall.state
      /\ r.lossTick = a.recall.lossTick
  BY <1>1, <1>4, <1>8, CreditedIsAway
<1>10. a.horse.state = "Despawned" /\ a.lossTick = a.recall.lossTick
  BY <1>6, <1>4 DEF Crossed, Home, Actor!RecallCreditAccepted
<1>11. RecallFits(r, n) /\ Crossed(a.horse, r, a.lossTick)
  BY <1>6, <1>9, <1>10 DEF RecallFits, Crossed
<1>12. next.horse = a.horse /\ next.recall = r
  BY <1>7
<1>13. ActorFits(next)
  BY <1>5, <1>6, <1>7, <1>11 DEF ActorFits
<1> QED
  BY <1>3, <1>9, <1>12, <1>13

LEMMA IssueFits ==
    ASSUME ActorBounds, NEW a, ActorFits(a), NEW b, NEW kind \in {"Jump", "SaddleDiveElimination"},
           NEW next, next = [a EXCEPT !.spur = Actor!SpurIssued(@, b, a.tick, kind)]
    PROVE  ActorFits(next) /\ next.horse = a.horse /\ next.recall = a.recall
<1>1. PICK n \in Int : n = a.tick /\ n >= -1
  BY DEF ActorFits
<1>2. HorseFits(a.horse, n) /\ FootFits(a.foot, n) /\ RecallFits(a.recall, n) /\ SpurFits(a.spur, n)
      /\ Crossed(a.horse, a.recall, a.lossTick)
  BY <1>1 DEF ActorFits
<1>3. PICK s : s = Actor!SpurIssued(a.spur, b, a.tick, kind)
  OBVIOUS
<1>4. next = [a EXCEPT !.spur = s]
  BY <1>3 DEF ActorFits
<1>5. next = [tick |-> a.tick, horse |-> a.horse, foot |-> a.foot, recall |-> a.recall,
              lossTick |-> a.lossTick, pending |-> a.pending, spur |-> s]
  BY <1>4 DEF ActorFits
<1>6. SpurFits(s, n)
  BY <1>1, <1>2, <1>3, SpurIssuedFits
<1> QED
  BY <1>1, <1>2, <1>5, <1>6 DEF ActorFits

LEMMA AcknowledgeFits ==
    ASSUME ActorBounds, NEW a, ActorFits(a), NEW id, NEW next, next = Actor!ActorAcknowledged(a, id)
    PROVE  ActorFits(next) /\ next.horse = a.horse /\ next.recall = a.recall
<1>1. PICK n \in Int : n = a.tick /\ n >= -1
  BY DEF ActorFits
<1>2. HorseFits(a.horse, n) /\ FootFits(a.foot, n) /\ RecallFits(a.recall, n) /\ SpurFits(a.spur, n)
      /\ Crossed(a.horse, a.recall, a.lossTick)
  BY <1>1 DEF ActorFits
<1>3. PICK p : p = Actor!NoPending
  OBVIOUS
<1>4. CASE next = a
  BY <1>4
<1>5. CASE next = [a EXCEPT !.pending = p]
  <2>1. next = [tick |-> a.tick, horse |-> a.horse, foot |-> a.foot, recall |-> a.recall,
                lossTick |-> a.lossTick, pending |-> p, spur |-> a.spur]
    BY <1>5 DEF ActorFits
  <2> QED
    BY <1>1, <1>2, <2>1 DEF ActorFits
<1> QED
  BY <1>3, <1>4, <1>5 DEF Actor!ActorAcknowledged

LEMMA ActorSteps ==
    ASSUME ActorBounds, ActorInv, [Actor!Next]_Actor!vars
    PROVE  ActorInv' /\ [Actor!RecallFloor /\ Actor!HorseComesBackWhole]_Actor!vars
<1> DEFINE Kept == ActorInv' /\ Actor!RecallFloor /\ Actor!HorseComesBackWhole
<1>1. ActorFits(actor) /\ failed = FALSE /\ actor.tick \in Int
  BY DEF ActorInv, ActorFits
<1>2. ASSUME NEW t \in 0..MaxTick, NEW in \in Actor!Inputs(t), Actor!AdvanceTick(t, in)
      PROVE  Kept
  <2> DEFINE next == Actor!ActorAdvance(actor, in).next
  <2>1. in.tick = t /\ in.tick \in Int /\ in.tick > actor.tick
    BY <1>2 DEF Actor!Inputs, Actor!AdvanceTick, ActorBounds
  <2>2. actor' = next /\ failed' = ~Actor!ActorAdvance(actor, in).ok
    BY <1>2 DEF Actor!AdvanceTick
  <2>3. failed' = FALSE
    BY <1>1, <2>1, <2>2, AdvanceSucceeds
  <2>4. /\ ActorFits(next) /\ next.tick = in.tick /\ next.pending = actor.pending
        /\ actor.recall.state \in {"CoolingDown", "Ready"} /\ next.recall.state = "Hoofbeats" =>
              \/ in.tick >= actor.recall.lostTick + MinRecall
              \/ actor.spur.meter = SpurMax /\ next.spur.meter = 0
        /\ actor.horse.state # "Available" /\ next.horse.state = "Available" =>
              /\ next.horse.health = MaxHealth /\ next.foot.state = "Standing"
              /\ next.recall.row.lost = actor.lossTick
              /\ next.recall.row.remount >= actor.lossTick + BoltTicks + HoofTicks
                                              + DustTicks + GallopTicks - WindowTicks
    BY <1>1, <2>1, AdvanceFits
  <2> HIDE DEF next
  <2> QED
    BY <2>2, <2>3, <2>4 DEF ActorInv, Actor!RecallFloor, Actor!HorseComesBackWhole
<1>3. ASSUME NEW seq, NEW amount \in Damages, NEW away, Actor!ApplyHorseDamage(seq, amount, away)
      PROVE  Kept
  <2>1. PICK id : id = <<epoch, Actor!Max({0, actor.tick}), seq>>
    OBVIOUS
  <2>2. Actor!ActorDamageApplies(actor, id, amount) /\ failed' = failed
        /\ actor' = Actor!ActorDamaged(actor, id, amount, away)
    BY <1>3, <2>1 DEF Actor!ApplyHorseDamage
  <2>3. id[2] = Now(actor.tick)
    <3>1. Actor!Max({0, actor.tick}) = IF 0 >= actor.tick THEN 0 ELSE actor.tick
      BY <1>1, MaxOfTwo
    <3>2. actor.tick >= -1
      BY <1>1 DEF ActorFits
    <3> QED
      BY <1>1, <2>1, <3>1, <3>2 DEF Now
  <2>4. amount \in Nat
    BY DEF ActorBounds
  <2>5. ActorFits(actor') /\ actor.horse.state = "Available" /\ actor.recall.state = "HorsePresent"
    BY <1>1, <2>2, <2>3, <2>4, DamagedFits
  <2> QED
    BY <1>1, <2>2, <2>5 DEF ActorInv, Actor!RecallFloor, Actor!HorseComesBackWhole
<1>4. ASSUME NEW t \in 0..MaxTick, NEW seq, NEW damage \in Credits, Actor!ApplyRecallCredit(t, seq, damage)
      PROVE  Kept
  <2>1. PICK id : id = <<epoch, t, seq>>
    OBVIOUS
  <2>2. Actor!RecallCreditAccepted(actor.recall, id) /\ failed' = failed
        /\ actor' = [actor EXCEPT !.recall = Actor!RecallCredited(@, id, damage)]
    BY <1>4, <2>1 DEF Actor!ApplyRecallCredit
  <2>3. id[2] \in Int /\ damage \in Nat \cup {-1}
    BY <2>1 DEF ActorBounds
  <2>4. ActorFits(actor') /\ actor'.horse = actor.horse /\ actor'.recall.state = actor.recall.state
    <3>1. Accepted(actor.recall, id, damage)
      BY <2>2, <2>3 DEF Accepted
    <3> QED
      BY <1>1, <2>2, <3>1, CreditFits
  <2> QED
    BY <1>1, <2>2, <2>4 DEF ActorInv, Actor!RecallFloor, Actor!HorseComesBackWhole
<1>5. ASSUME NEW id, Actor!AcknowledgeHorseLossEffects(id) PROVE Kept
  <2>1. actor' = Actor!ActorAcknowledged(actor, id) /\ failed' = failed
    BY <1>5 DEF Actor!AcknowledgeHorseLossEffects
  <2>2. ActorFits(actor') /\ actor'.horse = actor.horse /\ actor'.recall = actor.recall
    BY <1>1, <2>1, AcknowledgeFits
  <2> QED
    BY <1>1, <2>1, <2>2 DEF ActorInv, Actor!RecallFloor, Actor!HorseComesBackWhole
<1>6. ASSUME NEW kind \in {"Jump", "SaddleDiveElimination"}, Actor!IssueSpurCredit(kind) PROVE Kept
  <2>1. actor' = [actor EXCEPT !.spur = Actor!SpurIssued(@, epoch, actor.tick, kind)] /\ failed' = failed
    BY <1>6 DEF Actor!IssueSpurCredit
  <2>2. ActorFits(actor') /\ actor'.horse = actor.horse /\ actor'.recall = actor.recall
    BY <1>1, <1>6, <2>1, IssueFits
  <2> QED
    BY <1>1, <2>1, <2>2 DEF ActorInv, Actor!RecallFloor, Actor!HorseComesBackWhole
<1>7. ASSUME Actor!Respawn PROVE Kept
  <2>1. actor' = Actor!ActorRespawned(actor) /\ actor.tick # -1 /\ failed' = failed
    BY <1>7 DEF Actor!Respawn, Actor!NoTick
  <2>2. /\ ActorFits(actor') /\ actor'.horse.health = MaxHealth
        /\ actor'.foot.state = "Standing" /\ actor'.recall.row = Actor!NoRow
        /\ actor'.recall.state = "HorsePresent"
    BY <1>1, <2>1, RespawnedFits
  <2> QED
    BY <1>1, <2>1, <2>2 DEF ActorInv, Actor!RecallFloor, Actor!HorseComesBackWhole
<1>8. ASSUME Actor!RestoreCheckpoint PROVE Kept
  <2>1. actor' = actor /\ failed' = failed
    BY <1>8 DEF Actor!RestoreCheckpoint
  <2> QED
    BY <1>1, <2>1 DEF ActorInv, Actor!RecallFloor, Actor!HorseComesBackWhole
<1>9. CASE Actor!Next
  BY <1>2, <1>3, <1>4, <1>5, <1>6, <1>7, <1>8, <1>9 DEF Actor!Next
<1>10. CASE UNCHANGED Actor!vars
  BY <1>1, <1>10 DEF ActorInv, Actor!vars
<1> QED
  BY <1>9, <1>10

(* A fresh tick succeeds in every kernel and a checkpoint the actor takes of  *)
(* itself is accepted, however bolts, stuns, rolls, recalls, charges and      *)
(* respawns follow each other; no return starts before the recall floor       *)
(* unless a full Spur meter was spent, and a horse that comes back is whole   *)
(* and no earlier than its bolt and the phases of the return take.            *)
THEOREM HorsesReturnWhole ==
    ActorBounds =>
        (Actor!Spec => /\ [](Actor!FreshTickSucceeds /\ Actor!OwnCheckpointRestores)
                       /\ [][Actor!RecallFloor /\ Actor!HorseComesBackWhole]_Actor!vars)
<1> SUFFICES ASSUME ActorBounds
             PROVE  Actor!Spec => /\ [](Actor!FreshTickSucceeds /\ Actor!OwnCheckpointRestores)
                                  /\ [][Actor!RecallFloor /\ Actor!HorseComesBackWhole]_Actor!vars
  OBVIOUS
<1>1. Actor!Init => ActorInv
  BY NewFits DEF Actor!Init, ActorInv
<1>2. ActorInv /\ [Actor!Next]_Actor!vars =>
         ActorInv' /\ [Actor!RecallFloor /\ Actor!HorseComesBackWhole]_Actor!vars
  BY ActorSteps
<1>3. ActorInv => Actor!FreshTickSucceeds /\ Actor!OwnCheckpointRestores
  BY FitsIsRestorable DEF ActorInv, Actor!FreshTickSucceeds, Actor!OwnCheckpointRestores, Actor!NoTick
<1> QED
  BY <1>1, <1>2, <1>3, PTL DEF Actor!Spec

-----------------------------------------------------------------------------
(* The saddle dive.                                                        *)
(*                                                                         *)
(* Together relates the three controllers a frame moves one after the      *)
(* other: the horse is under control exactly while the rider is in the     *)
(* saddle, the rifle's dive context is open, and names the rider's dive,   *)
(* exactly while the rider is in the air, and off the horse the weapon     *)
(* holds the rider's own stance.  The last part is what makes a refused    *)
(* frame harmless: only a rider in the saddle can be refused, and then no  *)
(* horse is running.                                                       *)

CONSTANTS
    Health, BadDamage, ProneTicks, RecoveryTicks, DeathWindow, RunoutTicks, RunoutStep, MaxTravel,
    Magazine, Reserve, ReloadTicks, Cadence, DiveCap, HistoryTicks, LagTicks,
    Loadout, Buttons, LastTick, MaxIncidents, Wounds

VARIABLES dive, runout, rifle, riding, footing, ledger, clock, phase, incidents

Dive == INSTANCE SaddleDive

\* A run-out lasts for some ticks, and distances are counted.
DiveBounds ==
    RunoutTicks \in Nat \ {0} /\ RunoutStep \in Nat /\ MaxTravel \in Nat /\ DeathWindow \in Nat

RowFields ==
    {"launch", "weapon", "landing", "bad", "attempts", "accepted", "resolved", "hits", "taken",
     "counted", "death", "within", "remount", "reason", "final"}

DiveFields ==
    {"state", "tick", "moved", "held", "grounded", "id", "landing", "health", "seen", "watermark",
     "rows", "epoch"}

RifleFields ==
    {"ammo", "weapon", "holstered", "reload", "shotTick", "clock", "index", "riding", "dive"}

\* A row tells the truth about the death in its window, once it has landed.
RowFits(row) ==
    /\ row = [x \in RowFields |-> row[x]]
    /\ row.final \in BOOLEAN /\ row.landing \in Int /\ row.death \in Int
    /\ row.landing # -1 /\ row.death # -1 =>
          (row.within = "yes" <=> row.death <= row.landing + DeathWindow)

\* The rider in the air has a row that has not landed.
DiveFits(d) ==
    /\ d = [x \in DiveFields |-> d[x]] /\ d.tick \in Int
    /\ d.rows \in Seq({d.rows[i] : i \in DOMAIN d.rows})
    /\ \A i \in DOMAIN d.rows : RowFits(d.rows[i])
    /\ d.id \in Nat /\ (d.id # 0 => d.id \in DOMAIN d.rows)
    /\ d.state \in {"Mounted", "SaddleDive", "Prone", "Recovery", "OnFoot"}
    /\ d.state = "SaddleDive" => d.id # 0 /\ d.rows[d.id].landing = -1

RunoutFits(h) ==
    /\ h = [x \in {"state", "launch", "clock", "travel"} |-> h[x]]
    /\ h.state \in {"PlayerControlled", "Runout", "Idle"}
    /\ h.launch \in Int /\ h.travel \in Int /\ h.travel <= MaxTravel

RidingFits(r) == r = [x \in {"stance", "dive", "stumbling", "sprint"} |-> r[x]]

RifleFits(k) ==
    /\ k = [x \in RifleFields |-> k[x]]
    /\ k.dive = [x \in {"id", "weapon", "count", "closed"} |-> k.dive[x]]
    /\ RidingFits(k.riding)

\* The horse is under control exactly while the rider is in the saddle, the rifle knows of
\* the dive exactly while the rider is in the air, and off the horse the weapon believes in
\* the rider's own stance.
Together(d, h, k, r) ==
    /\ d.state = "Mounted" <=> h.state = "PlayerControlled"
    /\ Dive!OpenDive(k) <=> d.state = "SaddleDive"
    /\ Dive!OpenDive(k) => k.dive.id = d.id
    /\ d.state # "Mounted" => r.stance = d.state /\ (r.dive # 0 => r.dive = d.id)

\* Between two frames a running horse has ticks and travel left.
StillRunning ==
    phase = "idle" /\ runout.state = "Runout" =>
        clock < runout.launch + RunoutTicks /\ runout.travel < MaxTravel

DiveInv ==
    /\ DiveFits(dive) /\ RunoutFits(runout) /\ RifleFits(rifle) /\ RidingFits(riding)
    /\ Together(dive, runout, rifle, riding)
    /\ clock \in Int /\ StillRunning

-----------------------------------------------------------------------------
(* Rows.                                                                   *)

\* What has landed and is final stays as it is.
RowsKept(R, Q) ==
    \A i \in DOMAIN R : i \in DOMAIN Q /\ (R[i].final /\ R[i].landing # -1 => Q[i] = R[i])

\* An operation that leaves the rider where it is.
Quiet(g, d) == DiveFits(g) /\ g.state = d.state /\ g.id = d.id /\ RowsKept(d.rows, g.rows)

LEMMA QuietTwice ==
    ASSUME NEW d, NEW g, NEW k, Quiet(g, d), Quiet(k, g) PROVE Quiet(k, d)
BY DEF Quiet, RowsKept

LEMMA RowsSame == ASSUME NEW R PROVE RowsKept(R, R)
BY DEF RowsKept

LEMMA QuietOnce == ASSUME NEW d, DiveFits(d) PROVE Quiet(d, d)
BY DEF Quiet, RowsKept

LEMMA FinalizedFits ==
    ASSUME NEW d, NEW row, RowFits(row)
    PROVE  /\ RowFits(Dive!Finalized(d, row)) /\ (row.final => Dive!Finalized(d, row) = row)
           /\ Dive!Finalized(d, row).landing = row.landing
<1> DEFINE g == Dive!Finalized(d, row)
<1>1. PICK b \in BOOLEAN : b = Dive!ShouldFinalize(d, row) /\ (row.final => b)
  BY DEF Dive!ShouldFinalize
<1>2. g = [row EXCEPT !.final = b]
  BY <1>1 DEF Dive!Finalized
<1> HIDE DEF g
<1>3. g = [x \in RowFields |-> g[x]] /\ g.final = b /\ g.landing = row.landing /\ g.death = row.death
      /\ g.within = row.within
  BY <1>2 DEF RowFits, RowFields
<1>4. RowFits(g)
  BY <1>3 DEF RowFits
<1>5. row.final => g = row
  BY <1>1, <1>2 DEF RowFits, RowFields
<1> QED
  BY <1>3, <1>4, <1>5 DEF g

LEMMA RowsAre ==
    ASSUME NEW d, DiveFits(d)
    PROVE  Len(d.rows) \in Nat /\ DOMAIN d.rows = 1..Len(d.rows)
<1>1. PICK S, R : R \in Seq(S) /\ R = d.rows
  BY DEF DiveFits
<1>2. Len(R) \in Nat /\ DOMAIN R = 1..Len(R)
  BY <1>1
<1> QED
  BY <1>1, <1>2

\* The table after a change of some of its rows: each is the row it was, or was open.
Touched(d, R) ==
    /\ R = [i \in DOMAIN d.rows |-> R[i]]
    /\ \A i \in DOMAIN d.rows :
          \/ R[i] = d.rows[i]
          \/ RowFits(R[i]) /\ (~d.rows[i].final \/ d.rows[i].landing = -1)
             /\ R[i].landing = d.rows[i].landing

SamePlace(g, d) ==
    g = [x \in DiveFields |-> g[x]] /\ g.tick \in Int /\ g.state = d.state /\ g.id = d.id

LEMMA RowsChanged ==
    ASSUME NEW d, DiveFits(d), NEW g, SamePlace(g, d), Touched(d, g.rows)
    PROVE  Quiet(g, d)
<1> DEFINE R == g.rows
<1>a. /\ R = [i \in DOMAIN d.rows |-> R[i]] /\ g = [x \in DiveFields |-> g[x]] /\ g.tick \in Int
      /\ g.state = d.state /\ g.id = d.id
      /\ \A i \in DOMAIN d.rows :
          \/ R[i] = d.rows[i]
          \/ RowFits(R[i]) /\ (~d.rows[i].final \/ d.rows[i].landing = -1)
             /\ R[i].landing = d.rows[i].landing
  BY DEF Touched, SamePlace
<1> HIDE DEF R
<1>1. \E n \in Nat : DOMAIN d.rows = 1..n
  BY RowsAre
<1>2. DOMAIN R = DOMAIN d.rows
  BY <1>a
<1>3. R \in Seq({R[i] : i \in DOMAIN R})
  BY <1>a, <1>1, <1>2
<1>4. \A i \in DOMAIN R : RowFits(R[i])
  BY <1>a, <1>2 DEF DiveFits
<1>5. RowsKept(d.rows, R)
  BY <1>a, <1>2 DEF RowsKept, DiveFits
<1>6. g.state = "SaddleDive" => g.id # 0 /\ g.rows[g.id].landing = -1
  BY <1>a, <1>2 DEF DiveFits, R
<1>7. g.id \in Nat /\ (g.id # 0 => g.id \in DOMAIN g.rows)
      /\ g.state \in {"Mounted", "SaddleDive", "Prone", "Recovery", "OnFoot"}
  BY <1>a, <1>2 DEF DiveFits, R
<1> QED
  BY <1>a, <1>2, <1>3, <1>4, <1>5, <1>6, <1>7 DEF Quiet, DiveFits, R

\* A change of one row that was open or in the air.
LEMMA RowChanged ==
    ASSUME NEW d, DiveFits(d), NEW j, NEW row,
           j \in DOMAIN d.rows =>
              \/ row = d.rows[j]
              \/ RowFits(row) /\ (~d.rows[j].final \/ d.rows[j].landing = -1)
                 /\ row.landing = d.rows[j].landing,
           NEW g, g = [d EXCEPT !.rows[j] = row]
    PROVE  Quiet(g, d)
<1>1. PICK R : R = [d.rows EXCEPT ![j] = row]
  OBVIOUS
<1>2. SamePlace(g, d) /\ g.rows = R
  BY <1>1 DEF DiveFits, DiveFields, SamePlace
<1>3. R = [i \in DOMAIN d.rows |-> R[i]]
  BY <1>1
<1>4. \A i \in DOMAIN d.rows :
         \/ R[i] = d.rows[i]
         \/ RowFits(R[i]) /\ (~d.rows[i].final \/ d.rows[i].landing = -1)
            /\ R[i].landing = d.rows[i].landing
  BY <1>1
<1> QED
  BY <1>2, <1>3, <1>4, RowsChanged DEF Touched

\* A change of a field that is neither the rider's place nor the table.
LEMMA FieldChanged ==
    ASSUME NEW d, DiveFits(d), NEW g, SamePlace(g, d), g.rows = d.rows
    PROVE  Quiet(g, d)
<1>1. d.rows = [i \in DOMAIN d.rows |-> d.rows[i]]
  <2>1. PICK S, R : R \in Seq(S) /\ R = d.rows
    BY DEF DiveFits
  <2> QED
    BY <2>1
<1> QED
  BY <1>1, RowsChanged DEF Touched

\* The rows an operation changes together, each followed by maybe_finalize.
ChangedRows(d, b, C) ==
    [i \in DOMAIN d.rows |-> IF ~d.rows[i].final /\ b[i] THEN Dive!Finalized(d, C[i]) ELSE d.rows[i]]

ChangesFit(d, b, C) ==
    \A i \in DOMAIN d.rows : b[i] => RowFits(C[i]) /\ C[i].landing = d.rows[i].landing

LEMMA OpenRows ==
    ASSUME NEW d, DiveFits(d), NEW b, NEW C, ChangesFit(d, b, C),
           NEW g, g = [d EXCEPT !.rows = ChangedRows(d, b, C)]
    PROVE  Quiet(g, d)
<1>1. PICK R : R = ChangedRows(d, b, C)
  OBVIOUS
<1>2. SamePlace(g, d) /\ g.rows = R
  BY <1>1 DEF DiveFits, DiveFields, SamePlace
<1>3. R = [i \in DOMAIN d.rows |-> R[i]]
  BY <1>1 DEF ChangedRows
<1>4. ASSUME NEW i \in DOMAIN d.rows, R[i] # d.rows[i]
      PROVE  ~d.rows[i].final /\ RowFits(R[i]) /\ R[i].landing = d.rows[i].landing
  <2>1. ~d.rows[i].final /\ b[i] /\ R[i] = Dive!Finalized(d, C[i])
    BY <1>1, <1>4 DEF ChangedRows
  <2>2. RowFits(Dive!Finalized(d, C[i])) /\ Dive!Finalized(d, C[i]).landing = C[i].landing
    BY <2>1, FinalizedFits DEF ChangesFit
  <2> QED
    BY <2>1, <2>2 DEF ChangesFit
<1>5. Touched(d, R)
  BY <1>3, <1>4 DEF Touched
<1> QED
  BY <1>2, <1>5, RowsChanged

LEMMA SettledIsQuiet ==
    ASSUME NEW d, DiveFits(d), NEW t PROVE Quiet(Dive!SettledThrough(d, t), d)
<1> DEFINE e == [d EXCEPT !.watermark = t]
           g == Dive!SettledThrough(d, t)
<1>1. CASE g = d
  BY <1>1, QuietOnce
<1>2. CASE g # d
  <2>1. Quiet(e, d)
    <3>1. SamePlace(e, d) /\ e.rows = d.rows
      BY DEF DiveFits, DiveFields, SamePlace
    <3> QED
      BY <3>1, FieldChanged
  <2>2. DiveFits(e)
    BY <2>1 DEF Quiet
  <2> DEFINE b == [i \in DOMAIN e.rows |-> e.rows[i].within = "unknown" /\ e.rows[i].landing # -1
                                           /\ t >= e.rows[i].landing + DeathWindow]
             C == [i \in DOMAIN e.rows |-> [e.rows[i] EXCEPT !.within = "no"]]
  <2>3. g = [e EXCEPT !.rows = ChangedRows(e, b, C)]
    BY <1>2 DEF Dive!SettledThrough, Dive!OpenRowsChanged, Dive!Unset, ChangedRows
  <2>4. ASSUME NEW i \in DOMAIN e.rows, b[i]
        PROVE  RowFits(C[i]) /\ C[i].landing = e.rows[i].landing
    <3>1. PICK row, c : row = e.rows[i] /\ c = C[i]
      OBVIOUS
    <3>2. RowFits(row) /\ row.within = "unknown" /\ c = [row EXCEPT !.within = "no"]
      BY <2>2, <2>4, <3>1 DEF DiveFits
    <3>3. c = [x \in RowFields |-> c[x]] /\ c.within = "no" /\ c.landing = row.landing
          /\ c.death = row.death /\ c.final = row.final
      BY <3>2 DEF RowFits, RowFields
    <3>4. RowFits(c)
      BY <3>2, <3>3 DEF RowFits
    <3> QED
      BY <3>1, <3>3, <3>4
  <2>5. ChangesFit(e, b, C)
    BY <2>4 DEF ChangesFit
  <2> HIDE DEF e, g, b, C
  <2>6. Quiet(g, e)
    BY <2>2, <2>3, <2>5, OpenRows
  <2> QED
    BY <2>1, <2>6, QuietTwice DEF g
<1> QED
  BY <1>1, <1>2

LEMMA DiedIsQuiet ==
    ASSUME NEW d, DiveFits(d), NEW t \in Int PROVE Quiet(Dive!Died(d, t), d)
<1> DEFINE b == [i \in DOMAIN d.rows |-> d.rows[i].death = -1 /\ t >= d.rows[i].launch]
           C == [i \in DOMAIN d.rows |->
                   [d.rows[i] EXCEPT
                      !.death = t,
                      !.within = IF d.rows[i].landing = -1 THEN @
                                 ELSE IF t <= d.rows[i].landing + DeathWindow THEN "yes" ELSE "no",
                      !.reason = IF d.rows[i].landing = -1 THEN "DiedAirborne"
                                 ELSE IF d.rows[i].remount = -1 \/ t < d.rows[i].remount
                                      THEN "DiedBeforeRemount"
                                 ELSE @]]
           g == Dive!Died(d, t)
<1>1. g = [d EXCEPT !.rows = ChangedRows(d, b, C)]
  BY DEF Dive!Died, Dive!OpenRowsChanged, Dive!Unset, ChangedRows
<1>2. ASSUME NEW i \in DOMAIN d.rows, b[i]
      PROVE  RowFits(C[i]) /\ C[i].landing = d.rows[i].landing
  <2>1. PICK row, c : row = d.rows[i] /\ c = C[i]
    OBVIOUS
  <2>2. PICK w : w = IF row.landing = -1 THEN row.within
                     ELSE IF t <= row.landing + DeathWindow THEN "yes" ELSE "no"
    OBVIOUS
  <2>3. PICK z : c = [row EXCEPT !.death = t, !.within = w, !.reason = z]
    BY <2>1, <2>2
  <2>4. RowFits(row)
    BY <2>1 DEF DiveFits
  <2>5. c = [x \in RowFields |-> c[x]] /\ c.within = w /\ c.landing = row.landing
        /\ c.death = t /\ c.final = row.final
    BY <2>3, <2>4 DEF RowFits, RowFields
  <2>6. RowFits(c)
    BY <2>2, <2>4, <2>5 DEF RowFits
  <2> QED
    BY <2>1, <2>5, <2>6
<1>3. ChangesFit(d, b, C)
  BY <1>2 DEF ChangesFit
<1> HIDE DEF b, C, g
<1>4. Quiet(g, d)
  BY <1>1, <1>3, OpenRows
<1> QED
  BY <1>4 DEF g

LEMMA DeathIsQuiet ==
    ASSUME NEW d, DiveFits(d), NEW t \in Int PROVE Quiet(Dive!ObserveDeath(d, t), d)
<1> DEFINE e == [d EXCEPT !.health = 0]
<1>1. SamePlace(e, d) /\ e.rows = d.rows
  BY DEF DiveFits, DiveFields, SamePlace
<1>2. Dive!ObserveDeath(d, t) = Dive!Died(e, t)
  BY DEF Dive!ObserveDeath
<1> HIDE DEF e
<1>3. Quiet(e, d)
  BY <1>1, FieldChanged
<1>4. Quiet(Dive!Died(e, t), e)
  BY <1>3, DiedIsQuiet DEF Quiet
<1> QED
  BY <1>2, <1>3, <1>4, QuietTwice

LEMMA CensoredIsQuiet ==
    ASSUME NEW d, DiveFits(d), NEW reason PROVE Quiet(Dive!Censored(d, reason), d)
<1> DEFINE b == [i \in DOMAIN d.rows |-> TRUE]
           C == [i \in DOMAIN d.rows |-> [d.rows[i] EXCEPT !.reason = reason]]
           g == Dive!Censored(d, reason)
<1>1. g = [d EXCEPT !.rows = ChangedRows(d, b, C)]
  BY DEF Dive!Censored, Dive!OpenRowsChanged, ChangedRows
<1>2. ASSUME NEW i \in DOMAIN d.rows
      PROVE  RowFits(C[i]) /\ C[i].landing = d.rows[i].landing
  <2>1. PICK row, c : row = d.rows[i] /\ c = C[i]
    OBVIOUS
  <2>2. RowFits(row) /\ c = [row EXCEPT !.reason = reason]
    BY <2>1 DEF DiveFits
  <2>3. RowFits(c) /\ c.landing = row.landing
    BY <2>2 DEF RowFits, RowFields
  <2> QED
    BY <2>1, <2>3
<1>3. ChangesFit(d, b, C)
  BY <1>2 DEF ChangesFit
<1> HIDE DEF b, C, g
<1>4. Quiet(g, d)
  BY <1>1, <1>3, OpenRows
<1> QED
  BY <1>4 DEF g

LEMMA DamageIsQuiet ==
    ASSUME NEW d, DiveFits(d), NEW o, o.tick \in Int PROVE Quiet(Dive!ExternalDamage(d, o), d)
<1> DEFINE g == Dive!ExternalDamage(d, o)
<1> DEFINE hurt == [d EXCEPT !.health = Dive!Max({0, @ - o.amount}), !.seen = @ \cup {o}]
           hit(row) == [row EXCEPT !.taken = @ + o.amount, !.counted = @ \cup {o}]
           R == [i \in DOMAIN d.rows |-> IF ~d.rows[i].final /\ Dive!InWindow(d.rows[i], o.tick)
                                         THEN hit(d.rows[i]) ELSE d.rows[i]]
           counted == [hurt EXCEPT !.rows = R]
<1>2. g \in {d, counted, Dive!Died(counted, o.tick)}
  BY Zenon DEF Dive!ExternalDamage
<1>3. SamePlace(hurt, d)
  <2>1. PICK h, s : hurt = [d EXCEPT !.health = h, !.seen = s]
    OBVIOUS
  <2> HIDE DEF hurt
  <2> QED
    BY <2>1 DEF DiveFits, DiveFields, SamePlace
<1> HIDE DEF hurt
<1>4. SamePlace(counted, d) /\ counted.rows = R
  BY <1>3 DEF DiveFits, DiveFields, SamePlace
<1>5. ASSUME NEW i \in DOMAIN d.rows, R[i] # d.rows[i]
      PROVE  ~d.rows[i].final /\ RowFits(R[i]) /\ R[i].landing = d.rows[i].landing
  <2>1. PICK row, c : row = d.rows[i] /\ c = R[i]
    OBVIOUS
  <2>2. PICK x, y : ~row.final /\ c = [row EXCEPT !.taken = x, !.counted = y]
    BY <1>5, <2>1
  <2>3. RowFits(row)
    BY <2>1 DEF DiveFits
  <2>4. RowFits(c) /\ c.landing = row.landing
    BY <2>2, <2>3 DEF RowFits, RowFields
  <2> QED
    BY <2>1, <2>2, <2>4
<1>6. R = [i \in DOMAIN d.rows |-> R[i]]
  OBVIOUS
<1> HIDE DEF R, counted, g
<1>7. Touched(d, R)
  BY <1>5, <1>6 DEF Touched
<1>8. Quiet(counted, d)
  BY <1>4, <1>7, RowsChanged
<1>9. Quiet(Dive!Died(counted, o.tick), counted)
  BY <1>8, DiedIsQuiet DEF Quiet
<1>10. Quiet(g, d)
  BY <1>2, <1>8, <1>9, QuietOnce, QuietTwice
<1> QED
  BY <1>10 DEF g

LEMMA AttemptIsQuiet ==
    ASSUME NEW d, DiveFits(d), NEW t PROVE Quiet(Dive!ShotAttempted(d, t), d)
<1> DEFINE g == Dive!ShotAttempted(d, t)
<1>1. CASE g = d
  BY <1>1, QuietOnce
<1>2. CASE g # d
  <2>1. PICK row, c : row = d.rows[d.id] /\ c = [row EXCEPT !.attempts = @ \cup {t}]
    OBVIOUS
  <2>2. d.state = "SaddleDive" /\ g = [d EXCEPT !.rows[d.id] = c]
    BY <1>2, <2>1 DEF Dive!ShotAttempted
  <2>3. RowFits(row) /\ row.landing = -1
    BY <2>1, <2>2 DEF DiveFits
  <2>4. RowFits(c) /\ c.landing = row.landing
    BY <2>1, <2>3 DEF RowFits, RowFields
  <2> HIDE DEF g
  <2>5. Quiet(g, d)
    BY <2>1, <2>2, <2>3, <2>4, RowChanged
  <2> QED
    BY <2>5 DEF g
<1> QED
  BY <1>1, <1>2

LEMMA AcceptIsQuiet ==
    ASSUME NEW d, DiveFits(d), NEW shot PROVE Quiet(Dive!ShotAccepted(d, shot), d)
<1> DEFINE g == Dive!ShotAccepted(d, shot)
<1>1. CASE g = d
  BY <1>1, QuietOnce
<1>2. CASE g # d
  <2>1. PICK row, c : row = d.rows[shot.dive] /\ c = [row EXCEPT !.accepted = @ \cup {shot.tick}]
    OBVIOUS
  <2>2. ~row.final /\ g = [d EXCEPT !.rows[shot.dive] = c]
    BY <1>2, <2>1 DEF Dive!ShotAccepted, Dive!AcceptsShot
  <2>3. shot.dive \in DOMAIN d.rows => RowFits(c) /\ c.landing = row.landing
    <3>1. shot.dive \in DOMAIN d.rows => RowFits(row)
      BY <2>1 DEF DiveFits
    <3> QED
      BY <2>1, <3>1 DEF RowFits, RowFields
  <2> HIDE DEF g
  <2>4. Quiet(g, d)
    BY <2>1, <2>2, <2>3, RowChanged
  <2> QED
    BY <2>4 DEF g
<1> QED
  BY <1>1, <1>2

LEMMA ResolvedIsQuiet ==
    ASSUME NEW d, DiveFits(d), NEW shot, NEW hit PROVE Quiet(Dive!ShotResolved(d, shot, hit), d)
<1> DEFINE g == Dive!ShotResolved(d, shot, hit)
<1>1. CASE g = d
  BY <1>1, QuietOnce
<1>2. CASE g # d
  <2>1. PICK row : row = d.rows[shot.dive]
    OBVIOUS
  <2>2. PICK c : c = [row EXCEPT !.resolved = @ \cup {shot.tick},
                                 !.hits = IF hit THEN @ \cup {shot.tick} ELSE @]
    OBVIOUS
  <2>3. ~row.final /\ g = [d EXCEPT !.rows[shot.dive] = Dive!Finalized(d, c)]
    BY <1>2, <2>1, <2>2 DEF Dive!ShotResolved
  <2>4. ASSUME shot.dive \in DOMAIN d.rows
        PROVE  RowFits(Dive!Finalized(d, c)) /\ Dive!Finalized(d, c).landing = row.landing
    <3>1. RowFits(row)
      BY <2>1, <2>4 DEF DiveFits
    <3>2. RowFits(c) /\ c.landing = row.landing
      BY <2>2, <3>1 DEF RowFits, RowFields
    <3> QED
      BY <3>2, FinalizedFits
  <2> HIDE DEF g
  <2>5. Quiet(g, d)
    BY <2>1, <2>3, <2>4, RowChanged
  <2> QED
    BY <2>5 DEF g
<1> QED
  BY <1>1, <1>2

-----------------------------------------------------------------------------
(* The rifle and the weapon controller.                                    *)

\* The rifle's dive context is the one it was.
KeepsDive(g, k) ==
    RifleFits(g) /\ g.dive.id = k.dive.id /\ g.dive.closed = k.dive.closed

\* A rifle whose fields may have changed, except its dive context.
LEMMA RifleChanged ==
    ASSUME NEW k, RifleFits(k), NEW g, g = [x \in RifleFields |-> g[x]], g.dive = k.dive,
           RidingFits(g.riding)
    PROVE  KeepsDive(g, k)
BY DEF KeepsDive, RifleFits

LEMMA KeptTwice ==
    ASSUME NEW k, NEW g, NEW h, KeepsDive(g, k), KeepsDive(h, g) PROVE KeepsDive(h, k)
BY DEF KeepsDive

LEMMA KeptOpen ==
    ASSUME NEW k, NEW g, KeepsDive(g, k) PROVE Dive!OpenDive(g) <=> Dive!OpenDive(k)
BY DEF KeepsDive, Dive!OpenDive

LEMMA HolsterKeeps ==
    ASSUME NEW k, RifleFits(k) PROVE KeepsDive(Dive!Holster(k), k)
<1> DEFINE g == Dive!Holster(k)
<1>1. g = [x \in RifleFields |-> g[x]] /\ g.dive = k.dive /\ g.riding = k.riding
  BY DEF Dive!Holster, RifleFits, RifleFields
<1> HIDE DEF g
<1>2. KeepsDive(g, k)
  BY <1>1, RifleChanged DEF RifleFits
<1> QED
  BY <1>2 DEF g

LEMMA EquipKeeps ==
    ASSUME NEW k, RifleFits(k), NEW w PROVE KeepsDive(Dive!Equip(k, w), k)
<1> DEFINE g == Dive!Equip(k, w)
<1>1. g = [x \in RifleFields |-> g[x]] /\ g.dive = k.dive /\ g.riding = k.riding
  BY DEF Dive!Equip, RifleFits, RifleFields
<1> HIDE DEF g
<1>2. KeepsDive(g, k)
  BY <1>1, RifleChanged DEF RifleFits
<1> QED
  BY <1>2 DEF g

LEMMA ReloadKeeps ==
    ASSUME NEW k, RifleFits(k), NEW n, NEW p PROVE KeepsDive(Dive!ReloadBy(k, n, p), k)
<1> DEFINE g == Dive!ReloadBy(k, n, p)
<1>1. PICK a, m : \/ g = k
                  \/ g = [k EXCEPT !.reload = a]
                  \/ g = [k EXCEPT !.reload = a, !.ammo = m]
  <2>1. PICK a : a = IF p THEN k.reload ELSE k.reload + n
    OBVIOUS
  <2>2. PICK s : s = [mag |-> k.ammo[k.weapon].mag
                               + Dive!Min({Magazine - k.ammo[k.weapon].mag, k.ammo[k.weapon].res}),
                      res |-> k.ammo[k.weapon].res
                               - Dive!Min({Magazine - k.ammo[k.weapon].mag, k.ammo[k.weapon].res})]
    OBVIOUS
  <2>3. \/ g = k
        \/ g = [k EXCEPT !.reload = a]
        \/ g = [k EXCEPT !.reload = -1, !.ammo[k.weapon] = s]
    BY <2>1, <2>2 DEF Dive!ReloadBy, Dive!Never
  <2>4. PICK m : m = [k.ammo EXCEPT ![k.weapon] = s]
    OBVIOUS
  <2>5. [k EXCEPT !.reload = -1, !.ammo[k.weapon] = s] = [k EXCEPT !.reload = -1, !.ammo = m]
    BY <2>4 DEF RifleFits, RifleFields
  <2> QED
    BY <2>3, <2>5
<1> HIDE DEF g
<1>2. g = [x \in RifleFields |-> g[x]] /\ g.dive = k.dive /\ g.riding = k.riding
  BY <1>1 DEF RifleFits, RifleFields
<1>3. KeepsDive(g, k)
  BY <1>2, RifleChanged DEF RifleFits
<1> QED
  BY <1>3 DEF g

LEMMA AdvancedKeeps ==
    ASSUME NEW k, RifleFits(k), NEW t, NEW r, RidingFits(r)
    PROVE  KeepsDive(Dive!RifleAdvanced(k, t, r), k)
<1> DEFINE ridden == [k EXCEPT !.riding = r]
           kept   == IF Dive!CarriesMountedWeapon(r.stance) THEN ridden ELSE Dive!Holster(ridden)
           loaded == Dive!ReloadBy(kept, t - k.clock, r.sprint)
           g      == Dive!RifleAdvanced(k, t, r)
<1>1. g = [loaded EXCEPT !.clock = t]
  BY DEF Dive!RifleAdvanced
<1>2. KeepsDive(ridden, k)
  <2>1. ridden = [x \in RifleFields |-> ridden[x]] /\ ridden.dive = k.dive /\ ridden.riding = r
    BY DEF RifleFits, RifleFields
  <2> HIDE DEF ridden
  <2> QED
    BY <2>1, RifleChanged
<1> HIDE DEF ridden
<1>3. KeepsDive(kept, k)
  <2>1. KeepsDive(Dive!Holster(ridden), ridden)
    BY <1>2, HolsterKeeps DEF KeepsDive
  <2> QED
    BY <1>2, <2>1, KeptTwice
<1> HIDE DEF kept
<1>4. KeepsDive(loaded, kept)
  BY <1>3, ReloadKeeps DEF KeepsDive
<1> HIDE DEF loaded, g
<1>5. KeepsDive(g, loaded)
  <2>1. RifleFits(loaded)
    BY <1>4 DEF KeepsDive
  <2>2. g = [x \in RifleFields |-> g[x]] /\ g.dive = loaded.dive /\ g.riding = loaded.riding
    BY <1>1, <2>1 DEF RifleFits, RifleFields
  <2> QED
    BY <2>1, <2>2, RifleChanged DEF RifleFits
<1>6. KeepsDive(g, k)
  BY <1>3, <1>4, <1>5, KeptTwice
<1> QED
  BY <1>6 DEF g

LEMMA RequestKeeps ==
    ASSUME NEW k, RifleFits(k), NEW t, NEW r, RidingFits(r)
    PROVE  KeepsDive(Dive!RequestReload(k, t, r), k)
<1> DEFINE now == Dive!RifleAdvanced(k, t, r)
           g   == Dive!RequestReload(k, t, r)
<1>1. KeepsDive(now, k)
  BY AdvancedKeeps
<1>2. g \in {k, now, [now EXCEPT !.reload = 0]}
  BY DEF Dive!RequestReload, Dive!BeginReload
<1> HIDE DEF now, g
<1>3. KeepsDive([now EXCEPT !.reload = 0], now)
  <2> DEFINE h == [now EXCEPT !.reload = 0]
  <2>1. RifleFits(now)
    BY <1>1 DEF KeepsDive
  <2>2. h = [x \in RifleFields |-> h[x]] /\ h.dive = now.dive /\ h.riding = now.riding
    BY <2>1 DEF RifleFits, RifleFields
  <2> HIDE DEF h
  <2>3. KeepsDive(h, now)
    BY <2>1, <2>2, RifleChanged DEF RifleFits
  <2> QED
    BY <2>3 DEF h
<1>4. KeepsDive(k, k)
  BY DEF KeepsDive
<1>5. KeepsDive(g, k)
  BY <1>1, <1>2, <1>3, <1>4, KeptTwice
<1> QED
  BY <1>5 DEF g

LEMMA FireKeeps ==
    ASSUME NEW k, RifleFits(k), NEW t, NEW r, RidingFits(r), NEW seed
    PROVE  KeepsDive(Dive!Fire(k, t, r, seed).rifle, k)
<1> DEFINE now   == Dive!RifleAdvanced(k, t, r)
           fired == [now EXCEPT !.ammo[k.weapon].mag = @ - 1, !.shotTick = t, !.index = @ + 1,
                                !.dive.count = IF r.stance = "SaddleDive" THEN @ + 1 ELSE @]
           g     == Dive!Fire(k, t, r, seed).rifle
<1>1. KeepsDive(now, k)
  BY AdvancedKeeps
<1>2. g \in {k, now, fired}
  BY DEF Dive!Fire
<1> HIDE DEF now, g
<1>3. RifleFits(now)
  BY <1>1 DEF KeepsDive
<1>4. KeepsDive(fired, now)
  <2>1. PICK m, i, n : fired = [now EXCEPT !.ammo = m, !.shotTick = t, !.index = i, !.dive = n]
                       /\ n = [now.dive EXCEPT !.count = IF r.stance = "SaddleDive" THEN @ + 1 ELSE @]
    <3>1. PICK m : m = [now.ammo EXCEPT ![k.weapon].mag = @ - 1]
      OBVIOUS
    <3>2. PICK n : n = [now.dive EXCEPT !.count = IF r.stance = "SaddleDive" THEN @ + 1 ELSE @]
      OBVIOUS
    <3>3. fired = [now EXCEPT !.ammo = m, !.shotTick = t, !.index = now.index + 1, !.dive = n]
      BY <1>3, <3>1, <3>2 DEF RifleFits, RifleFields
    <3> QED
      BY <3>2, <3>3
  <2> HIDE DEF fired
  <2>2. fired = [x \in RifleFields |-> fired[x]] /\ fired.dive = n /\ fired.riding = now.riding
    BY <1>3, <2>1 DEF RifleFits, RifleFields
  <2>3. n = [x \in {"id", "weapon", "count", "closed"} |-> n[x]] /\ n.id = now.dive.id
        /\ n.closed = now.dive.closed
    BY <1>3, <2>1 DEF RifleFits
  <2> QED
    BY <1>3, <2>2, <2>3 DEF KeepsDive, RifleFits
<1> HIDE DEF fired
<1>5. KeepsDive(k, k)
  BY DEF KeepsDive
<1>6. KeepsDive(g, k)
  BY <1>1, <1>2, <1>4, <1>5, KeptTwice
<1> QED
  BY <1>6 DEF g

LEMMA BeginOpens ==
    ASSUME NEW k, RifleFits(k), NEW id, NEW t
    PROVE  /\ RifleFits(Dive!BeginDive(k, id, t))
           /\ Dive!BeginDive(k, id, t).dive.id = id /\ ~Dive!BeginDive(k, id, t).dive.closed
<1> DEFINE before == IF t - 1 > k.clock THEN Dive!RifleAdvanced(k, t - 1, k.riding) ELSE k
           n == [id |-> id, weapon |-> k.weapon, count |-> 0, closed |-> FALSE]
           g == Dive!BeginDive(k, id, t)
<1>1. RifleFits(before)
  <2>1. KeepsDive(Dive!RifleAdvanced(k, t - 1, k.riding), k)
    BY AdvancedKeeps DEF RifleFits
  <2> QED
    BY <2>1 DEF KeepsDive
<1>2. g = [before EXCEPT !.reload = -1, !.clock = t, !.riding.stance = "SaddleDive",
                         !.riding.dive = id, !.dive = n]
  BY DEF Dive!BeginDive, Dive!Never
<1> HIDE DEF before, g
<1>3. PICK r : r = [before.riding EXCEPT !.stance = "SaddleDive", !.dive = id]
  OBVIOUS
<1>4. g = [before EXCEPT !.reload = -1, !.clock = t, !.riding = r, !.dive = n]
  BY <1>1, <1>2, <1>3 DEF RifleFits, RifleFields
<1>5. RidingFits(r)
  BY <1>1, <1>3 DEF RifleFits, RidingFits
<1>6. g = [x \in RifleFields |-> g[x]] /\ g.dive = n /\ g.riding = r
  BY <1>1, <1>4 DEF RifleFits, RifleFields
<1>7. n = [x \in {"id", "weapon", "count", "closed"} |-> n[x]]
  OBVIOUS
<1>8. RifleFits(g) /\ g.dive.id = id /\ ~g.dive.closed
  BY <1>5, <1>6, <1>7 DEF RifleFits
<1> QED
  BY <1>8 DEF g

LEMMA FinishCloses ==
    ASSUME NEW k, RifleFits(k), NEW t
    PROVE  RifleFits(Dive!FinishDive(k, t)) /\ ~Dive!OpenDive(Dive!FinishDive(k, t))
<1> DEFINE h == [k EXCEPT !.dive.closed = TRUE, !.clock = t, !.riding.stance = "Prone",
                          !.riding.dive = 0]
           g == Dive!FinishDive(k, t)
<1>1. g = Dive!Holster(h)
  BY DEF Dive!FinishDive
<1>2. PICK r, n : r = [k.riding EXCEPT !.stance = "Prone", !.dive = 0]
                  /\ n = [k.dive EXCEPT !.closed = TRUE]
  OBVIOUS
<1>3. h = [k EXCEPT !.dive = n, !.clock = t, !.riding = r]
  BY <1>2 DEF RifleFits, RifleFields
<1> HIDE DEF g, h
<1>4. RidingFits(r) /\ n = [x \in {"id", "weapon", "count", "closed"} |-> n[x]] /\ n.closed
  BY <1>2 DEF RifleFits, RidingFits
<1>5. h = [x \in RifleFields |-> h[x]] /\ h.dive = n /\ h.riding = r
  BY <1>3 DEF RifleFits, RifleFields
<1>6. RifleFits(h) /\ h.dive.closed
  BY <1>4, <1>5 DEF RifleFits
<1>7. RifleFits(g) /\ g.dive.closed
  BY <1>1, <1>6, HolsterKeeps DEF KeepsDive
<1> QED
  BY <1>7 DEF g, Dive!OpenDive

\* A weapon is a rifle and a stance; Armed says what an operation made of it.
Armed(a, stance, id) ==
    RifleFits(a.rifle) /\ RidingFits(a.riding) /\ a.riding.stance = stance /\ a.riding.dive = id

WeaponFits(w) == RifleFits(w.rifle) /\ RidingFits(w.riding)

LEMMA SyncedIs ==
    ASSUME NEW w, WeaponFits(w), NEW stance
    PROVE  Armed(Dive!Synced(w, stance), stance, 0) /\ KeepsDive(Dive!Synced(w, stance).rifle, w.rifle)
<1> DEFINE r == [w.riding EXCEPT !.stance = stance, !.dive = 0]
           k == Dive!RifleAdvanced(w.rifle, w.rifle.clock, r)
<1>1. RidingFits(r) /\ r.stance = stance /\ r.dive = 0
  BY DEF WeaponFits, RidingFits
<1>2. Dive!Synced(w, stance) = [rifle |-> k, riding |-> r]
  BY DEF Dive!Synced
<1> HIDE DEF r
<1>3. KeepsDive(k, w.rifle)
  BY <1>1, AdvancedKeeps DEF WeaponFits
<1> QED
  BY <1>1, <1>2, <1>3 DEF Armed, KeepsDive

LEMMA LaunchedIs ==
    ASSUME NEW w, WeaponFits(w), NEW id, NEW t
    PROVE  /\ Armed(Dive!WeaponLaunched(w, id, t), "SaddleDive", id)
           /\ Dive!WeaponLaunched(w, id, t).rifle.dive.id = id
           /\ ~Dive!WeaponLaunched(w, id, t).rifle.dive.closed
<1> DEFINE r == [w.riding EXCEPT !.stance = "SaddleDive", !.dive = id]
           k == Dive!BeginDive(w.rifle, id, t)
<1>1. RidingFits(r) /\ r.stance = "SaddleDive" /\ r.dive = id
  BY DEF WeaponFits, RidingFits
<1>2. Dive!WeaponLaunched(w, id, t) = [rifle |-> k, riding |-> r]
  BY DEF Dive!WeaponLaunched
<1> HIDE DEF r
<1>3. RifleFits(k) /\ k.dive.id = id /\ ~k.dive.closed
  BY BeginOpens DEF WeaponFits
<1> QED
  BY <1>1, <1>2, <1>3 DEF Armed

LEMMA LandedIs ==
    ASSUME NEW w, WeaponFits(w), NEW t
    PROVE  /\ Armed(Dive!WeaponLanded(w, t), "Prone", 0)
           /\ ~Dive!OpenDive(Dive!WeaponLanded(w, t).rifle)
<1> DEFINE r == [w.riding EXCEPT !.stance = "Prone", !.dive = 0]
           k == Dive!FinishDive(w.rifle, t)
<1>1. RidingFits(r) /\ r.stance = "Prone" /\ r.dive = 0
  BY DEF WeaponFits, RidingFits
<1>2. Dive!WeaponLanded(w, t) = [rifle |-> k, riding |-> r]
  BY DEF Dive!WeaponLanded
<1> HIDE DEF r
<1>3. RifleFits(k) /\ ~Dive!OpenDive(k)
  BY FinishCloses DEF WeaponFits
<1> QED
  BY <1>1, <1>2, <1>3 DEF Armed

LEMMA RemountedIs ==
    ASSUME NEW w, WeaponFits(w), NEW t
    PROVE  /\ Armed(Dive!WeaponRemounted(w, t), "Mounted", 0)
           /\ ~Dive!OpenDive(Dive!WeaponRemounted(w, t).rifle)
<1> DEFINE closed == IF Dive!OpenDive(w.rifle) THEN Dive!FinishDive(w.rifle, t) ELSE w.rifle
           r   == [w.riding EXCEPT !.stance = "Mounted", !.dive = 0]
           now == Dive!RifleAdvanced(closed, t, r)
           k   == Dive!Equip(now, now.weapon)
<1>1. RidingFits(r) /\ r.stance = "Mounted" /\ r.dive = 0
  BY DEF WeaponFits, RidingFits
<1>2. Dive!WeaponRemounted(w, t) = [rifle |-> k, riding |-> r]
  BY DEF Dive!WeaponRemounted
<1>3. RifleFits(closed) /\ ~Dive!OpenDive(closed)
  BY FinishCloses DEF WeaponFits
<1> HIDE DEF r, closed
<1>4. KeepsDive(now, closed)
  BY <1>1, <1>3, AdvancedKeeps
<1> HIDE DEF now
<1>5. KeepsDive(k, now)
  BY <1>4, EquipKeeps DEF KeepsDive
<1> HIDE DEF k
<1>6. RifleFits(k) /\ ~Dive!OpenDive(k)
  BY <1>3, <1>4, <1>5, KeptOpen DEF KeepsDive
<1> QED
  BY <1>1, <1>2, <1>6 DEF Armed

-----------------------------------------------------------------------------
(* The rider leaves the saddle, lands, recovers and mounts again.          *)

OffHorse == {"Prone", "Recovery", "OnFoot"}

\* Timers lead a rider on the ground from prone to on foot, and nobody else anywhere.
LEMMA RecoveredIs ==
    ASSUME NEW d, DiveFits(d), NEW t
    PROVE  LET g == Dive!RecoveredAt(d, t)
           IN  /\ DiveFits(g) /\ g.id = d.id /\ g.rows = d.rows /\ g.landing = d.landing
               /\ d.state \notin {"Prone", "Recovery"} => g.state = d.state
               /\ d.state \in {"Prone", "Recovery"} => g.state \in OffHorse
<1> DEFINE g == Dive!RecoveredAt(d, t)
<1>1. PICK s : g = [d EXCEPT !.state = s] /\ (d.state \notin {"Prone", "Recovery"} => s = d.state)
               /\ (d.state \in {"Prone", "Recovery"} => s \in OffHorse)
  <2>1. PICK s : s = CASE d.state \in {"Prone", "Recovery"}
                            /\ t >= Dive!ProneEnds(d.landing) + RecoveryTicks -> "OnFoot"
                       [] d.state = "Prone" /\ t >= Dive!ProneEnds(d.landing)
                            /\ t < Dive!ProneEnds(d.landing) + RecoveryTicks -> "Recovery"
                       [] OTHER -> d.state
    OBVIOUS
  <2>2. g = [d EXCEPT !.state = s]
    BY <2>1 DEF Dive!RecoveredAt
  <2>3. s = d.state \/ (d.state \in {"Prone", "Recovery"} /\ s \in {"Recovery", "OnFoot"})
    BY <2>1
  <2> HIDE DEF g
  <2> QED
    BY <2>2, <2>3 DEF OffHorse
<1> HIDE DEF g
<1>2. g = [x \in DiveFields |-> g[x]] /\ g.state = s /\ g.id = d.id /\ g.rows = d.rows
      /\ g.landing = d.landing /\ g.tick \in Int
  BY <1>1 DEF DiveFits, DiveFields
<1>3. s \in {"Mounted", "SaddleDive", "Prone", "Recovery", "OnFoot"}
      /\ (s = "SaddleDive" => d.state = "SaddleDive")
  BY <1>1 DEF DiveFits, OffHorse
<1>4. DiveFits(g)
  BY <1>2, <1>3 DEF DiveFits
<1>5. DiveFits(g) /\ g.id = d.id /\ g.rows = d.rows /\ g.landing = d.landing
      /\ (d.state \notin {"Prone", "Recovery"} => g.state = d.state)
      /\ (d.state \in {"Prone", "Recovery"} => g.state \in OffHorse)
  BY <1>1, <1>2, <1>4
<1> QED
  BY <1>5 DEF g

\* A launch opens a row of its own.
LEMMA LaunchIs ==
    ASSUME NEW d, DiveFits(d), NEW t, NEW w
    PROVE  LET g == Dive!LaunchDive(d, t, w)
           IN  DiveFits(g) /\ g.state = "SaddleDive" /\ RowsKept(d.rows, g.rows)
<1> DEFINE row == Dive!NewDiveRow(t, w)
           n   == Len(d.rows) + 1
           R   == Append(d.rows, row)
           g   == Dive!LaunchDive(d, t, w)
<1>1. PICK l : g = [d EXCEPT !.state = "SaddleDive", !.id = n, !.landing = l, !.rows = R]
  BY DEF Dive!LaunchDive
<1>2. RowFits(row) /\ row.landing = -1
  <2>1. row = [x \in RowFields |-> row[x]] /\ row.landing = -1 /\ row.death = -1 /\ row.final = FALSE
    BY DEF Dive!NewDiveRow, Dive!Unset, RowFields
  <2> HIDE DEF row
  <2> QED
    <3>1. row.landing \in Int /\ row.death \in Int
      BY <2>1
    <3>3. row.final \in BOOLEAN
      BY <2>1, Zenon
    <3>2. ~(row.landing # -1 /\ row.death # -1)
      BY <2>1
    <3> QED
      BY ONLY <2>1, <3>1, <3>2, <3>3 DEF RowFits
<1>3. n \in Nat \ {0} /\ DOMAIN d.rows = 1..(n - 1)
  BY RowsAre
<1>4. DOMAIN R = 1..n /\ R[n] = row /\ (\A i \in DOMAIN d.rows : R[i] = d.rows[i])
      /\ R = [i \in 1..n |-> R[i]]
  <2>1. PICK S, Q : Q \in Seq(S) /\ Q = d.rows
    BY DEF DiveFits
  <2>2. PICK T : T = S \cup {row}
    OBVIOUS
  <2> HIDE DEF row
  <2>3. Q \in Seq(T) /\ row \in T
    BY <2>1, <2>2
  <2>4. Append(Q, row) \in Seq(T) /\ Len(Append(Q, row)) = Len(Q) + 1
        /\ Append(Q, row)[Len(Q) + 1] = row
        /\ \A i \in 1..Len(Q) : Append(Q, row)[i] = Q[i]
    BY <2>3
  <2> QED
    BY <1>3, <2>1, <2>3, <2>4
<1> HIDE DEF g, R, row, n
<1>5. g = [x \in DiveFields |-> g[x]] /\ g.state = "SaddleDive" /\ g.id = n /\ g.rows = R
      /\ g.tick \in Int
  BY <1>1 DEF DiveFits, DiveFields
<1>6. R \in Seq({R[i] : i \in DOMAIN R})
  BY <1>3, <1>4
<1>a. \A i \in DOMAIN R : i = n \/ i \in DOMAIN d.rows
  BY <1>3, <1>4
<1>b. \A i \in DOMAIN d.rows : i \in DOMAIN R
  BY <1>3, <1>4
<1>7. \A i \in DOMAIN R : RowFits(R[i])
  BY <1>2, <1>4, <1>a DEF DiveFits
<1>8. RowsKept(d.rows, R)
  BY <1>4, <1>b DEF RowsKept
<1>9. n # 0 /\ n \in Nat /\ n \in DOMAIN R /\ R[n].landing = -1
  BY <1>2, <1>3, <1>4
<1>10. DiveFits(g)
  BY <1>5, <1>6, <1>7, <1>9 DEF DiveFits
<1> QED
  BY <1>5, <1>8, <1>10 DEF g

LEMMA PlaceChanged ==
    ASSUME NEW d, DiveFits(d), NEW g, g = [x \in DiveFields |-> g[x]], g.tick \in Int,
           g.rows = d.rows, g.id = 0, g.state \in {"Mounted", "OnFoot"}
    PROVE  DiveFits(g) /\ RowsKept(d.rows, g.rows)
<1>1. /\ g.rows \in Seq({g.rows[i] : i \in DOMAIN g.rows})
      /\ \A i \in DOMAIN g.rows : RowFits(g.rows[i])
  BY DEF DiveFits
<1>2. RowsKept(d.rows, g.rows)
  BY RowsSame
<1>3. g.id \in Nat /\ ~(g.id # 0) /\ g.state # "SaddleDive"
      /\ g.state \in {"Mounted", "SaddleDive", "Prone", "Recovery", "OnFoot"}
  OBVIOUS
<1>4. DiveFits(g)
  BY ONLY g = [x \in DiveFields |-> g[x]], g.tick \in Int, <1>1, <1>3 DEF DiveFits
<1> QED
  BY <1>2, <1>4

LEMMA DismountIs ==
    ASSUME NEW d, DiveFits(d)
    PROVE  LET g == Dive!OrdinaryDismount(d)
           IN  DiveFits(g) /\ g.state = "OnFoot" /\ g.id = 0 /\ RowsKept(d.rows, g.rows)
<1> DEFINE g == Dive!OrdinaryDismount(d)
<1>1. g = [x \in DiveFields |-> g[x]] /\ g.state = "OnFoot" /\ g.id = 0 /\ g.rows = d.rows
      /\ g.tick \in Int
  BY DEF Dive!OrdinaryDismount, DiveFits, DiveFields
<1> HIDE DEF g
<1>2. DiveFits(g) /\ RowsKept(d.rows, g.rows)
  BY <1>1, PlaceChanged
<1> QED
  BY <1>1, <1>2 DEF g

LEMMA RemountIs ==
    ASSUME NEW d, DiveFits(d), NEW t, NEW b
    PROVE  LET g == Dive!CompleteRemount(d, t, b)
           IN  DiveFits(g) /\ g.state = "Mounted" /\ g.id = 0 /\ RowsKept(d.rows, g.rows)
<1> DEFINE m == [d EXCEPT !.state = "Mounted", !.id = 0, !.landing = Dive!NoLanding, !.grounded = b]
           row == d.rows[d.id]
           c == IF ~row.final /\ row.remount = -1 THEN [row EXCEPT !.remount = t] ELSE row
           e == Dive!Finalized(d, c)
           g == Dive!CompleteRemount(d, t, b)
<1>1. m = [x \in DiveFields |-> m[x]] /\ m.state = "Mounted" /\ m.id = 0 /\ m.rows = d.rows
      /\ m.tick \in Int
  <2>1. PICK l : m = [d EXCEPT !.state = "Mounted", !.id = 0, !.landing = l, !.grounded = b]
    OBVIOUS
  <2> HIDE DEF m
  <2> QED
    BY <2>1 DEF DiveFits, DiveFields
<1>2. g = IF d.id = 0 THEN m ELSE [m EXCEPT !.rows[d.id] = e]
  <2>1. m.rows[d.id] = d.rows[d.id]
    BY <1>1
  <2> HIDE DEF m
  <2> QED
    BY <2>1 DEF Dive!CompleteRemount, Dive!Unset, m
<1> HIDE DEF m, g
<1>3. DiveFits(m) /\ RowsKept(d.rows, m.rows)
  BY <1>1, PlaceChanged
<1>4. CASE d.id = 0
  BY <1>1, <1>2, <1>3, <1>4 DEF g
<1>5. CASE d.id # 0
  <2>1. RowFits(row) /\ d.id \in DOMAIN m.rows
    BY <1>1, <1>5 DEF DiveFits
  <2>2. RowFits(c) /\ c.landing = row.landing /\ (row.final => c = row)
    <3> HIDE DEF row
    <3> QED
      BY <2>1 DEF RowFits, RowFields
  <2> HIDE DEF c
  <2>3. RowFits(e) /\ e.landing = row.landing /\ (row.final => e = row)
    BY <2>2, FinalizedFits
  <2> HIDE DEF e
  <2>4. e = m.rows[d.id] \/ (RowFits(e) /\ ~m.rows[d.id].final /\ e.landing = m.rows[d.id].landing)
    BY <1>1, <2>3
  <2>5. Quiet(g, m)
    BY <1>2, <1>3, <1>5, <2>4, RowChanged
  <2> QED
    BY <1>1, <1>3, <2>5 DEF Quiet, RowsKept, g
<1> QED
  BY <1>4, <1>5

\* What begin_tick may do with a rider.
LEMMA BegunIs ==
    ASSUME NEW d, DiveFits(d), NEW t \in Int, NEW in, NEW idle, NEW w
    PROVE  LET g == Dive!DiveBegun(d, t, in, idle, w)
               s == Dive!RecoveredAt(d, t).state
           IN  /\ DiveFits(g) /\ RowsKept(d.rows, g.rows)
               /\ \/ g.state = s /\ g.id = d.id
                  \/ d.state = "Mounted" /\ g.state = "SaddleDive"
                  \/ d.state = "Mounted" /\ g.state = "OnFoot" /\ g.id = 0
                  \/ s = "OnFoot" /\ g.state = "Mounted" /\ g.id = 0
<1> DEFINE a == [d EXCEPT !.tick = t, !.moved = FALSE]
           r == Dive!RecoveredAt(a, t)
           timed == [r EXCEPT !.held = in.interact]
           shown == [timed EXCEPT !.grounded = in.grounded]
           s == Dive!RecoveredAt(d, t).state
           g == Dive!DiveBegun(d, t, in, idle, w)
<1>1. Quiet(a, d) /\ a.landing = d.landing
  <2>1. SamePlace(a, d) /\ a.rows = d.rows /\ a.landing = d.landing
    BY DEF DiveFits, DiveFields, SamePlace
  <2> HIDE DEF a
  <2> QED
    BY <2>1, FieldChanged
<1>2. r.state = s
  <2>1. a.state = d.state /\ a.landing = d.landing
    BY <1>1 DEF Quiet
  <2>2. d.state = [d EXCEPT !.state = d.state].state
    BY DEF DiveFits, DiveFields
  <2>3. a = [x \in DiveFields |-> a[x]] /\ d = [x \in DiveFields |-> d[x]]
    BY <1>1 DEF Quiet, DiveFits
  <2> HIDE DEF a
  <2> QED
    BY <2>1, <2>3 DEF Dive!RecoveredAt, DiveFields
<1> HIDE DEF a
<1>3. DiveFits(r) /\ r.id = a.id /\ r.rows = a.rows
  BY <1>1, RecoveredIs DEF Quiet
<1> HIDE DEF r
<1>4. Quiet(timed, r)
  <2>1. SamePlace(timed, r) /\ timed.rows = r.rows
    BY <1>3 DEF DiveFits, DiveFields, SamePlace
  <2> HIDE DEF timed
  <2> QED
    BY <1>3, <2>1, FieldChanged
<1>5. Quiet(shown, timed)
  <2>1. DiveFits(timed)
    BY <1>4 DEF Quiet
  <2> HIDE DEF timed
  <2>2. SamePlace(shown, timed) /\ shown.rows = timed.rows
    BY <2>1 DEF DiveFits, DiveFields, SamePlace
  <2> HIDE DEF shown
  <2> QED
    BY <2>1, <2>2, FieldChanged
<1>6. \/ g = timed
      \/ g = shown
      \/ timed.state = "Mounted" /\ g = Dive!LaunchDive(shown, t, w)
      \/ timed.state = "Mounted" /\ g = Dive!OrdinaryDismount(shown)
      \/ timed.state = "OnFoot" /\ g = Dive!CompleteRemount(timed, t, in.grounded)
  <2> HIDE DEF timed
  <2> QED
    BY Zenon DEF Dive!DiveBegun, timed, a, r
<1>7. RowsKept(d.rows, timed.rows) /\ RowsKept(d.rows, shown.rows)
      /\ DiveFits(timed) /\ DiveFits(shown) /\ timed.state = s /\ shown.state = s
      /\ timed.id = d.id /\ shown.id = d.id
  <2> HIDE DEF timed, shown
  <2>1. RowsKept(d.rows, r.rows) /\ r.id = d.id
    BY <1>1, <1>3 DEF Quiet
  <2>2. RowsKept(d.rows, timed.rows)
    BY <1>4, <2>1 DEF Quiet, RowsKept
  <2>3. RowsKept(d.rows, shown.rows)
    BY <1>5, <2>2 DEF Quiet, RowsKept
  <2> QED
    BY <1>2, <1>4, <1>5, <2>1, <2>2, <2>3 DEF Quiet
<1>8. s = "Mounted" => d.state = "Mounted"
  BY RecoveredIs DEF OffHorse
<1> HIDE DEF timed, shown, g, s
<1> DEFINE Fine == /\ DiveFits(g) /\ RowsKept(d.rows, g.rows)
                   /\ \/ g.state = s /\ g.id = d.id
                      \/ d.state = "Mounted" /\ g.state = "SaddleDive"
                      \/ d.state = "Mounted" /\ g.state = "OnFoot" /\ g.id = 0
                      \/ s = "OnFoot" /\ g.state = "Mounted" /\ g.id = 0
<1>9. ASSUME g = timed \/ g = shown PROVE Fine
  BY <1>7, <1>9
<1>10. ASSUME timed.state = "Mounted" /\ g = Dive!LaunchDive(shown, t, w) PROVE Fine
  <2>1. DiveFits(g) /\ g.state = "SaddleDive" /\ RowsKept(shown.rows, g.rows)
    BY <1>7, <1>10, LaunchIs
  <2>2. RowsKept(d.rows, g.rows)
    BY <1>7, <2>1 DEF RowsKept
  <2> QED
    BY <1>7, <1>8, <1>10, <2>1, <2>2
<1>11. ASSUME timed.state = "Mounted" /\ g = Dive!OrdinaryDismount(shown) PROVE Fine
  <2>1. DiveFits(g) /\ g.state = "OnFoot" /\ g.id = 0 /\ RowsKept(shown.rows, g.rows)
    BY <1>7, <1>11, DismountIs
  <2>2. RowsKept(d.rows, g.rows)
    BY <1>7, <2>1 DEF RowsKept
  <2> QED
    BY <1>7, <1>8, <1>11, <2>1, <2>2
<1>12. ASSUME timed.state = "OnFoot" /\ g = Dive!CompleteRemount(timed, t, in.grounded) PROVE Fine
  <2>1. DiveFits(g) /\ g.state = "Mounted" /\ g.id = 0 /\ RowsKept(timed.rows, g.rows)
    BY <1>7, <1>12, RemountIs
  <2>2. RowsKept(d.rows, g.rows)
    BY <1>7, <2>1 DEF RowsKept
  <2> QED
    BY <1>7, <1>12, <2>1, <2>2
<1>13. Fine
  BY <1>6, <1>9, <1>10, <1>11, <1>12
<1> QED
  BY <1>13 DEF g, s

\* A landing gives the rider's row its landing, and only rows still open or in the air change.
LEMMA LandIs ==
    ASSUME NEW d, DiveFits(d), d.state = "SaddleDive", NEW t \in Int, NEW bad
    PROVE  LET g == Dive!LandDive(d, t, bad)
           IN  DiveFits(g) /\ g.state = "Prone" /\ g.id = d.id /\ RowsKept(d.rows, g.rows)
<1> DEFINE row    == d.rows[d.id]
           landed == [row EXCEPT
                        !.landing = t, !.bad = bad, !.taken = IF bad THEN @ + BadDamage ELSE @,
                        !.within = IF row.death = -1 THEN @
                                   ELSE IF row.death <= t + DeathWindow THEN "yes" ELSE "no",
                        !.reason = IF row.death = -1 THEN @ ELSE "DiedBeforeRemount"]
           late   == IF row.final THEN {} ELSE {o \in d.seen : Dive!InWindow(landed, o.tick)}
           full   == [landed EXCEPT !.counted = @ \cup late,
                                    !.taken = @ + Dive!MapThenSumSet(LAMBDA o : o.amount, late)]
           prone  == [d EXCEPT !.state = "Prone", !.landing = [id |-> d.id, tick |-> t, bad |-> bad],
                               !.rows[d.id] = full]
           hurt   == IF bad THEN [prone EXCEPT !.health = Dive!Max({0, @ - BadDamage})] ELSE prone
           dead   == IF d.health > 0 /\ hurt.health = 0 THEN Dive!Died(hurt, t) ELSE hurt
           g      == Dive!LandDive(d, t, bad)
<1>1. g = [dead EXCEPT !.rows[d.id] = Dive!Finalized(dead, dead.rows[d.id])]
  BY Zenon DEF Dive!LandDive, Dive!Unset
<1>2. RowFits(row) /\ row.landing = -1 /\ d.id \in DOMAIN d.rows /\ d.id # 0 /\ d.id \in Nat
  BY DEF DiveFits
<1> HIDE DEF row, g
<1>3. RowFits(landed)
  <2>1. PICK k, w, z : /\ landed = [row EXCEPT !.landing = t, !.bad = bad, !.taken = k, !.within = w,
                                              !.reason = z]
                       /\ w = IF row.death = -1 THEN row.within
                              ELSE IF row.death <= t + DeathWindow THEN "yes" ELSE "no"
    OBVIOUS
  <2> HIDE DEF landed
  <2>2. landed = [x \in RowFields |-> landed[x]] /\ landed.landing = t /\ landed.death = row.death
        /\ landed.within = w /\ landed.final = row.final
    BY <1>2, <2>1 DEF RowFits, RowFields
  <2>3. row.death # -1 => (w = "yes" <=> row.death <= t + DeathWindow)
    BY <2>1
  <2>4. row.final \in BOOLEAN /\ row.death \in Int
    BY <1>2 DEF RowFits
  <2> QED
    BY <2>2, <2>3, <2>4 DEF RowFits
<1> HIDE DEF landed, late
<1>4. RowFits(full)
  <2>1. PICK k, c : full = [landed EXCEPT !.counted = c, !.taken = k]
    OBVIOUS
  <2> HIDE DEF full
  <2> QED
    BY <1>3, <2>1 DEF RowFits, RowFields
<1> HIDE DEF full
<1>5. DiveFits(prone) /\ prone.state = "Prone" /\ prone.id = d.id /\ RowsKept(d.rows, prone.rows)
  <2>1. PICK R, l : R = [d.rows EXCEPT ![d.id] = full]
                    /\ l = [id |-> d.id, tick |-> t, bad |-> bad]
    OBVIOUS
  <2>2. prone = [x \in DiveFields |-> prone[x]] /\ prone.state = "Prone" /\ prone.id = d.id
        /\ prone.rows = R /\ prone.tick \in Int
    <3>1. prone = [d EXCEPT !.state = "Prone", !.landing = l, !.rows = R]
      BY <2>1 DEF DiveFits, DiveFields
    <3> HIDE DEF prone
    <3> QED
      BY <3>1 DEF DiveFits, DiveFields
  <2> HIDE DEF prone
  <2>3. DOMAIN R = DOMAIN d.rows /\ R = [i \in DOMAIN d.rows |-> R[i]]
        /\ \A i \in DOMAIN d.rows : R[i] = IF i = d.id THEN full ELSE d.rows[i]
    BY <2>1
  <2>4. R \in Seq({R[i] : i \in DOMAIN R})
    <3>1. \E n \in Nat : DOMAIN d.rows = 1..n
      BY RowsAre
    <3> QED
      BY <2>3, <3>1
  <2>5. \A i \in DOMAIN R : RowFits(R[i])
    BY <1>4, <2>3 DEF DiveFits
  <2>6. RowsKept(d.rows, R)
    BY <1>2, <2>3 DEF RowsKept, row
  <2>7. DiveFits(prone)
    <3>1. /\ prone.rows \in Seq({prone.rows[i] : i \in DOMAIN prone.rows})
          /\ \A i \in DOMAIN prone.rows : RowFits(prone.rows[i])
      BY <2>2, <2>4, <2>5
    <3>2. prone.id \in Nat /\ prone.id \in DOMAIN prone.rows /\ prone.state # "SaddleDive"
          /\ prone.state \in {"Mounted", "SaddleDive", "Prone", "Recovery", "OnFoot"}
      BY <1>2, <2>2, <2>3
    <3> QED
      BY ONLY <2>2, <3>1, <3>2 DEF DiveFits
  <2> QED
    BY <2>2, <2>6, <2>7
<1> HIDE DEF prone
<1>6. Quiet(hurt, prone)
  <2>1. hurt = prone \/ \E h : hurt = [prone EXCEPT !.health = h]
    OBVIOUS
  <2> HIDE DEF hurt
  <2>2. SamePlace(hurt, prone) /\ hurt.rows = prone.rows
    BY <1>5, <2>1 DEF DiveFits, DiveFields, SamePlace
  <2> QED
    BY <1>5, <2>2, FieldChanged
<1> HIDE DEF hurt
<1>7. Quiet(dead, hurt)
  <2>1. DiveFits(hurt)
    BY <1>6 DEF Quiet
  <2> QED
    BY <2>1, QuietOnce, DiedIsQuiet
<1> HIDE DEF dead
<1>8. Quiet(g, dead)
  <2>1. DiveFits(dead)
    BY <1>7 DEF Quiet
  <2>2. PICK r, c : r = dead.rows[d.id] /\ c = Dive!Finalized(dead, r)
    OBVIOUS
  <2>3. d.id \in DOMAIN dead.rows => RowFits(r)
    BY <2>1, <2>2 DEF DiveFits
  <2>4. d.id \in DOMAIN dead.rows =>
           RowFits(c) /\ c.landing = r.landing /\ (r.final => c = r) /\ r.final \in BOOLEAN
    BY <2>2, <2>3, FinalizedFits DEF RowFits
  <2>5. d.id \in DOMAIN dead.rows =>
           \/ c = dead.rows[d.id]
           \/ RowFits(c) /\ (~dead.rows[d.id].final \/ dead.rows[d.id].landing = -1)
              /\ c.landing = dead.rows[d.id].landing
    BY <2>2, <2>4
  <2> QED
    BY <1>1, <2>1, <2>2, <2>5, RowChanged
<1>9. Quiet(g, prone)
  BY <1>6, <1>7, <1>8, QuietTwice
<1>10. DiveFits(g) /\ g.state = "Prone" /\ g.id = d.id /\ RowsKept(d.rows, g.rows)
  BY <1>5, <1>9 DEF Quiet, RowsKept
<1> QED
  BY <1>10 DEF g

LEMMA MovedIs ==
    ASSUME NEW d, DiveFits(d), NEW contact
    PROVE  LET g == Dive!DiveMoved(d, contact)
           IN  /\ DiveFits(g) /\ g.id = d.id /\ RowsKept(d.rows, g.rows)
               /\ g.state = d.state \/ (d.state = "SaddleDive" /\ g.state = "Prone")
<1> DEFINE m == [d EXCEPT !.moved = TRUE]
           g == Dive!DiveMoved(d, contact)
<1>1. SamePlace(m, d) /\ m.rows = d.rows
  BY DEF DiveFits, DiveFields, SamePlace
<1>2. g = m \/ (d.state = "SaddleDive" /\ g = Dive!LandDive(m, d.tick, contact = "bad"))
  BY DEF Dive!DiveMoved
<1> HIDE DEF m, g
<1>3. Quiet(m, d)
  BY <1>1, FieldChanged
<1>4. ASSUME d.state = "SaddleDive", g = Dive!LandDive(m, d.tick, contact = "bad")
      PROVE  DiveFits(g) /\ g.id = d.id /\ RowsKept(d.rows, g.rows) /\ g.state = "Prone"
  <2>2. d.tick \in Int
    BY DEF DiveFits
  <2>1. DiveFits(g) /\ g.state = "Prone" /\ g.id = m.id /\ RowsKept(m.rows, g.rows)
    BY <1>3, <1>4, <2>2, LandIs DEF Quiet
  <2> QED
    BY <1>1, <2>1 DEF SamePlace
<1>5. DiveFits(g) /\ g.id = d.id /\ RowsKept(d.rows, g.rows)
      /\ (g.state = d.state \/ (d.state = "SaddleDive" /\ g.state = "Prone"))
  BY <1>2, <1>3, <1>4 DEF Quiet
<1> QED
  BY <1>5 DEF g

LEMMA ResetIs ==
    ASSUME NEW d, DiveFits(d), NEW t \in Int
    PROVE  LET g == Dive!DiveReset(d, t)
           IN  DiveFits(g) /\ g.state = "Mounted" /\ g.id = 0 /\ RowsKept(d.rows, g.rows)
<1> DEFINE e == Dive!Censored(d, "Reset")
           g == Dive!DiveReset(d, t)
<1>1. PICK a, b, c : /\ g = [e EXCEPT !.state = "Mounted", !.tick = a, !.moved = TRUE, !.id = 0,
                                      !.landing = b, !.grounded = TRUE, !.held = FALSE, !.health = c]
                     /\ a = Dive!Max({e.tick, t})
  BY DEF Dive!DiveReset
<1>2. Quiet(e, d)
  BY CensoredIsQuiet
<1> HIDE DEF e, g
<1>3. DiveFits(e) /\ RowsKept(d.rows, e.rows)
  BY <1>2 DEF Quiet
<1>a. a \in Int
  <2>1. PICK n \in Int : n = e.tick
    BY <1>3 DEF DiveFits
  <2>2. PICK x \in {n, t} : \A y \in {n, t} : x >= y
    OBVIOUS
  <2>3. Dive!Max({n, t}) \in {n, t}
    BY <2>2 DEF Dive!Max
  <2> QED
    BY <1>1, <2>1, <2>3
<1>4. g = [x \in DiveFields |-> g[x]] /\ g.state = "Mounted" /\ g.id = 0 /\ g.rows = e.rows
      /\ g.tick \in Int
  BY <1>1, <1>3, <1>a DEF DiveFits, DiveFields
<1>5. DiveFits(g)
  BY <1>3, <1>4, PlaceChanged
<1> QED
  BY <1>3, <1>4, <1>5 DEF g

-----------------------------------------------------------------------------
(* The horse running out.                                                  *)

LEMMA LeastOfTwo ==
    ASSUME NEW a \in Int, NEW b \in Int
    PROVE  Dive!Min({a, b}) \in Int /\ Dive!Min({a, b}) <= a /\ Dive!Min({a, b}) <= b
<1>1. PICK x \in {a, b} : \A y \in {a, b} : x <= y
  OBVIOUS
<1> QED
  BY <1>1 DEF Dive!Min

LEMMA RunoutEnded ==
    ASSUME DiveBounds, NEW h, RunoutFits(h), NEW t \in Int, NEW step \in Int,
           step <= Dive!MaximumStep(Dive!RunoutBegun(h, t))
    PROVE  LET g == Dive!RunoutMoved(Dive!RunoutBegun(h, t), step)
           IN  /\ RunoutFits(g)
               /\ g.state = "PlayerControlled" <=> h.state = "PlayerControlled"
               /\ g.state = "Runout" => t < g.launch + RunoutTicks /\ g.travel < MaxTravel
<1> DEFINE b == Dive!RunoutBegun(h, t)
           g == Dive!RunoutMoved(b, step)
<1>1. PICK s : /\ b = [h EXCEPT !.clock = t, !.state = s]
               /\ s = IF h.state = "Runout" /\ (t >= h.launch + RunoutTicks \/ h.travel >= MaxTravel)
                      THEN "Idle" ELSE h.state
  BY DEF Dive!RunoutBegun
<1>2. step <= Dive!MaximumStep(b)
  OBVIOUS
<1> HIDE DEF b, g
<1>3. b = [x \in {"state", "launch", "clock", "travel"} |-> b[x]] /\ b.state = s /\ b.clock = t
      /\ b.launch = h.launch /\ b.travel = h.travel
  BY <1>1 DEF RunoutFits
<1>4. CASE s # "Runout"
  <2>1. g = b
    BY <1>3, <1>4 DEF Dive!RunoutMoved, g
  <2>2. s \in {"PlayerControlled", "Runout", "Idle"} /\ (s = "PlayerControlled" <=> h.state = "PlayerControlled")
    BY <1>1, <1>4 DEF RunoutFits
  <2>3. RunoutFits(g) /\ (g.state = "PlayerControlled" <=> h.state = "PlayerControlled")
    BY <1>1, <1>3, <2>1, <2>2 DEF RunoutFits
  <2> QED
    BY <1>3, <1>4, <2>1, <2>3 DEF g, b
<1>5. CASE s = "Runout"
  <2>1. h.state = "Runout" /\ t < h.launch + RunoutTicks /\ h.travel < MaxTravel
        /\ h.launch \in Int /\ h.travel \in Int
    BY <1>1, <1>5 DEF RunoutFits, DiveBounds
  <2>2. step <= MaxTravel - h.travel
    <3> DEFINE q == (RunoutStep * (RunoutTicks - (b.clock - b.launch)) + RunoutTicks - 1) \div RunoutTicks
    <3>1. Dive!MaximumStep(b) = Dive!Min({q, MaxTravel - b.travel})
      BY <1>3, <1>5 DEF Dive!MaximumStep
    <3>2. q \in Int
      <4>1. RunoutTicks \in Nat /\ RunoutTicks > 0 /\ RunoutStep \in Int
        BY DEF DiveBounds
      <4>2. PICK p \in Int : p = RunoutStep * (RunoutTicks - (b.clock - b.launch)) + RunoutTicks - 1
        BY <1>3, <2>1, <4>1
      <4> QED
        BY <4>1, <4>2
    <3> HIDE DEF q
    <3>3. MaxTravel - b.travel \in Int /\ b.travel = h.travel
      BY <1>3, <2>1 DEF DiveBounds
    <3>4. Dive!Min({q, MaxTravel - b.travel}) \in Int /\ Dive!Min({q, MaxTravel - b.travel}) <= MaxTravel - b.travel
      BY <3>2, <3>3, LeastOfTwo
    <3> QED
      BY <1>2, <3>1, <3>3, <3>4
  <2>3. PICK z : /\ g = [b EXCEPT !.travel = h.travel + step, !.state = z]
                 /\ z = IF h.travel + step >= MaxTravel THEN "Idle" ELSE "Runout"
    BY <1>3, <1>5 DEF Dive!RunoutMoved, g
  <2>4. g = [x \in {"state", "launch", "clock", "travel"} |-> g[x]] /\ g.state = z
        /\ g.launch = h.launch /\ g.travel = h.travel + step
    BY <1>3, <2>3
  <2>5. g.travel \in Int /\ g.travel <= MaxTravel
    BY <2>1, <2>2, <2>4 DEF DiveBounds
  <2>6. z \in {"Runout", "Idle"} /\ (z = "Runout" => g.travel < MaxTravel)
    BY <2>1, <2>3, <2>4, <2>5 DEF DiveBounds
  <2>7. RunoutFits(g)
    BY <2>1, <2>4, <2>5, <2>6 DEF RunoutFits
  <2> QED
    BY <2>1, <2>4, <2>6, <2>7 DEF g, b
<1> QED
  BY <1>4, <1>5

-----------------------------------------------------------------------------
(* The frame.                                                              *)

LEMMA TogetherKept ==
    ASSUME NEW d, NEW h, NEW k, NEW r, Together(d, h, k, r),
           NEW g, g.state = d.state, g.id = d.id, NEW q, KeepsDive(q, k)
    PROVE  Together(g, h, q, r)
BY KeptOpen DEF Together, KeepsDive

\* The weapon after it followed the rider g.
Follows(a, g) ==
    /\ WeaponFits(a)
    /\ Dive!OpenDive(a.rifle) <=> g.state = "SaddleDive"
    /\ Dive!OpenDive(a.rifle) => a.rifle.dive.id = g.id
    /\ g.state # "Mounted" => a.riding.stance = g.state /\ (a.riding.dive # 0 => a.riding.dive = g.id)

\* The moves begin_tick makes of a rider whose timers have led it to s.
Moves(d, g, s) ==
    \/ g.state = s /\ g.id = d.id
    \/ d.state = "Mounted" /\ g.state = "SaddleDive"
    \/ d.state = "Mounted" /\ g.state = "OnFoot" /\ g.id = 0
    \/ s = "OnFoot" /\ g.state = "Mounted" /\ g.id = 0

LEMMA WeaponFollowsRider ==
    ASSUME NEW d, DiveFits(d), NEW t, NEW g, DiveFits(g), Moves(d, g, Dive!RecoveredAt(d, t).state),
           NEW w, Follows(w, d)
    PROVE  Follows(Dive!WeaponFollows(w, d, g, t), g)
<1> DEFINE s == Dive!RecoveredAt(d, t).state
           c == IF g.state = "Mounted" /\ d.state # "Mounted" THEN Dive!WeaponRemounted(w, t) ELSE w
           a == Dive!WeaponFollows(w, d, g, t)
<1>1. a = IF g.state = "SaddleDive" /\ d.state = "Mounted" THEN Dive!WeaponLaunched(w, g.id, t)
          ELSE IF g.state = "OnFoot" /\ d.state = "Mounted" THEN Dive!Synced(w, "OnFoot")
          ELSE IF s # d.state THEN Dive!Synced(c, s)
          ELSE c
  BY DEF Dive!WeaponFollows
<1>2. (d.state \notin {"Prone", "Recovery"} => s = d.state)
      /\ (d.state \in {"Prone", "Recovery"} => s \in {"Prone", "Recovery", "OnFoot"})
  BY RecoveredIs DEF OffHorse
<1>3. Moves(d, g, s) /\ WeaponFits(w) /\ (Dive!OpenDive(w.rifle) <=> d.state = "SaddleDive")
  BY DEF Follows
<1> HIDE DEF s, a
<1>4. ASSUME d.state = "Mounted", g.state = "SaddleDive" PROVE Follows(a, g)
  <2>1. Armed(a, "SaddleDive", g.id) /\ a.rifle.dive.id = g.id /\ ~a.rifle.dive.closed
    BY <1>1, <1>3, <1>4, LaunchedIs
  <2>2. g.id # 0
    BY <1>4 DEF DiveFits
  <2> QED
    BY <1>4, <2>1, <2>2 DEF Follows, Armed, WeaponFits, Dive!OpenDive
<1>5. ASSUME d.state = "Mounted", g.state = "OnFoot" PROVE Follows(a, g)
  <2>1. Armed(a, "OnFoot", 0) /\ KeepsDive(a.rifle, w.rifle)
    BY <1>1, <1>3, <1>5, SyncedIs
  <2>2. ~Dive!OpenDive(a.rifle)
    BY <1>3, <1>5, <2>1, KeptOpen
  <2> QED
    BY <1>5, <2>1, <2>2 DEF Follows, Armed, WeaponFits
<1>6. ASSUME s = "OnFoot", g.state = "Mounted" PROVE Follows(a, g)
  <2>1. d.state # "Mounted" /\ c = Dive!WeaponRemounted(w, t)
    BY <1>2, <1>6
  <2>2. Armed(c, "Mounted", 0) /\ ~Dive!OpenDive(c.rifle)
    BY <1>3, <2>1, RemountedIs
  <2> HIDE DEF c
  <2>3. WeaponFits(c)
    BY <2>2 DEF Armed, WeaponFits
  <2>4. Armed(Dive!Synced(c, s), s, 0) /\ KeepsDive(Dive!Synced(c, s).rifle, c.rifle)
    BY <2>3, SyncedIs
  <2>5. a = c \/ a = Dive!Synced(c, s)
    BY <1>1, <1>6, <2>1
  <2>6. WeaponFits(a) /\ ~Dive!OpenDive(a.rifle)
    BY <2>2, <2>3, <2>4, <2>5, KeptOpen DEF Armed, WeaponFits
  <2> QED
    BY <1>6, <2>6 DEF Follows
<1>7. ASSUME g.state = s, g.id = d.id PROVE Follows(a, g)
  <2>1. CASE s = d.state
    <3>1. a = w
      BY <1>1, <1>7, <2>1
    <3> QED
      BY <1>7, <2>1, <3>1 DEF Follows
  <2>2. CASE s # d.state
    <3>1. d.state \in {"Prone", "Recovery"} /\ s \in {"Prone", "Recovery", "OnFoot"}
      BY <1>2, <2>2
    <3>2. a = Dive!Synced(w, s)
      BY <1>1, <1>7, <2>2, <3>1
    <3>3. Armed(a, s, 0) /\ KeepsDive(a.rifle, w.rifle)
      BY <1>3, <3>2, SyncedIs
    <3>4. ~Dive!OpenDive(a.rifle)
      BY <1>3, <3>1, <3>3, KeptOpen
    <3> QED
      BY <1>7, <3>1, <3>3, <3>4 DEF Follows, Armed, WeaponFits
  <2> QED
    BY <2>1, <2>2
<1>8. Follows(a, g)
  BY <1>3, <1>4, <1>5, <1>6, <1>7 DEF Moves
<1> QED
  BY <1>8 DEF a

LEMMA HorseFollowsRider ==
    ASSUME DiveBounds, RunoutFits(runout), NEW d, DiveFits(d), NEW t \in Int, NEW g, DiveFits(g),
           Moves(d, g, Dive!RecoveredAt(d, t).state),
           d.state = "Mounted" <=> runout.state = "PlayerControlled"
    PROVE  LET h == Dive!HorseFollows(d, g, t)
           IN  RunoutFits(h) /\ (g.state = "Mounted" <=> h.state = "PlayerControlled")
<1> DEFINE h == Dive!HorseFollows(d, g, t)
           s == Dive!RecoveredAt(d, t).state
           Good == RunoutFits(h) /\ (g.state = "Mounted" <=> h.state = "PlayerControlled")
<1>1. (d.state \notin {"Prone", "Recovery"} => s = d.state)
      /\ (d.state \in {"Prone", "Recovery"} => s \in {"Prone", "Recovery", "OnFoot"})
  BY RecoveredIs DEF OffHorse
<1>2. h = CASE d.state = "Mounted" /\ g.state = "SaddleDive" -> Dive!RunoutStarted(t)
            [] d.state = "Mounted" /\ g.state = "OnFoot" -> Dive!StoppedForDismount
            [] d.state # "Mounted" /\ g.state = "Mounted" -> Dive!RunoutRemounted(runout)
            [] OTHER -> runout
  BY DEF Dive!HorseFollows
<1>3. Moves(d, g, s)
  OBVIOUS
<1> HIDE DEF h, s
<1>4. ASSUME d.state = "Mounted", g.state = "SaddleDive" PROVE Good
  <2>1. h = [state |-> "Runout", launch |-> t, clock |-> -1, travel |-> 0]
    BY <1>2, <1>4 DEF Dive!RunoutStarted, Dive!Unset
  <2> QED
    BY <1>4, <2>1 DEF RunoutFits, DiveBounds
<1>5. ASSUME d.state = "Mounted", g.state = "OnFoot" PROVE Good
  <2>1. h = [state |-> "Idle", launch |-> -1, clock |-> -1, travel |-> 0]
    BY <1>2, <1>5 DEF Dive!StoppedForDismount, Dive!NewRunout, Dive!Unset
  <2> QED
    BY <1>5, <2>1 DEF RunoutFits, DiveBounds
<1>6. ASSUME d.state # "Mounted", g.state = "Mounted" PROVE Good
  <2>1. h = [state |-> "PlayerControlled", launch |-> -1, clock |-> -1, travel |-> runout.travel]
    BY <1>2, <1>6 DEF Dive!RunoutRemounted, Dive!NewRunout, Dive!Unset
  <2> QED
    BY <1>6, <2>1 DEF RunoutFits, DiveBounds
<1>7. ASSUME ~(d.state = "Mounted" /\ g.state = "SaddleDive"),
             ~(d.state = "Mounted" /\ g.state = "OnFoot"), ~(d.state # "Mounted" /\ g.state = "Mounted")
      PROVE  Good
  <2>1. h = runout
    BY <1>2, <1>7
  <2>2. g.state = "Mounted" <=> d.state = "Mounted"
    BY <1>1, <1>3, <1>7 DEF Moves
  <2> QED
    BY <2>1, <2>2
<1>8. Good
  BY <1>4, <1>5, <1>6, <1>7
<1> QED
  BY <1>8 DEF h

\* What a step must keep.
Kept == DiveInv' /\ RowsKept(dive.rows, dive'.rows)

LEMMA DiveBegins ==
    ASSUME DiveBounds, DiveInv, NEW in \in Buttons, Dive!BeginFrame(in) PROVE Kept
<1> DEFINE t     == clock + 1
           given == [rifle |-> rifle, riding |-> [riding EXCEPT !.sprint = in.sprint]]
           w     == IF dive.state # "Mounted" THEN given
                    ELSE Dive!Synced(given, IF in.grounded THEN "Mounted" ELSE "MountedAirborne")
           held  == dive.state = "Mounted" /\ in.interact /\ in.grounded /\ in.fast
                    /\ ~Dive!Launchable(w)
           g     == IF held THEN dive
                    ELSE Dive!DiveBegun(dive, t, in, runout.state = "Idle", rifle.weapon)
           a     == Dive!WeaponFollows(w, dive, g, t)
           s     == Dive!RecoveredAt(dive, t).state
<1>1. /\ clock' = t /\ phase' = "combat" /\ dive' = g /\ runout' = Dive!HorseFollows(dive, g, t)
      /\ riding' = a.riding /\ rifle' = Dive!RifleAdvanced(a.rifle, t, a.riding)
  BY DEF Dive!BeginFrame
<1>2. DiveFits(dive) /\ RunoutFits(runout) /\ RifleFits(rifle) /\ RidingFits(riding)
      /\ Together(dive, runout, rifle, riding) /\ t \in Int
  BY DEF DiveInv
<1>3. Follows(w, dive)
  <2>1. WeaponFits(given) /\ given.rifle = rifle /\ given.riding.stance = riding.stance
        /\ given.riding.dive = riding.dive
    BY <1>2 DEF WeaponFits, RidingFits
  <2>2. KeepsDive(rifle, rifle)
    BY <1>2 DEF KeepsDive
  <2> HIDE DEF given
  <2>3. CASE dive.state # "Mounted"
    <3>1. w = given
      BY <2>3
    <3> QED
      BY <1>2, <2>1, <2>3, <3>1 DEF Follows, Together
  <2>4. CASE dive.state = "Mounted"
    <3>1. PICK z : w = Dive!Synced(given, z)
      BY <2>4
    <3> HIDE DEF w
    <3>2. Armed(w, z, 0) /\ KeepsDive(w.rifle, rifle)
      BY <2>1, <3>1, SyncedIs
    <3>3. ~Dive!OpenDive(w.rifle)
      BY <1>2, <2>4, <3>2, KeptOpen DEF Together
    <3> QED
      BY <2>4, <3>2, <3>3 DEF Follows, Armed, WeaponFits
  <2> QED
    BY <2>3, <2>4
<1>4. DiveFits(g) /\ RowsKept(dive.rows, g.rows) /\ Moves(dive, g, s)
  <2>1. CASE held
    <3>1. g = dive /\ dive.state = "Mounted"
      BY <2>1
    <3>2. s = dive.state
      BY <1>2, <3>1, RecoveredIs
    <3> HIDE DEF g, s, held
    <3> QED
      BY <1>2, <3>1, <3>2, RowsSame DEF Moves
  <2>2. CASE ~held
    <3>1. g = Dive!DiveBegun(dive, t, in, runout.state = "Idle", rifle.weapon)
      BY <2>2
    <3> HIDE DEF g, held, t
    <3> QED
      BY <1>2, <3>1, BegunIs DEF Moves
  <2> QED
    BY <2>1, <2>2
<1> HIDE DEF w, g
<1>5. Follows(a, g)
  BY <1>2, <1>3, <1>4, WeaponFollowsRider
<1>6. RunoutFits(runout') /\ (g.state = "Mounted" <=> runout'.state = "PlayerControlled")
  <2>1. dive.state = "Mounted" <=> runout.state = "PlayerControlled"
    BY <1>2 DEF Together
  <2> HIDE DEF t
  <2> QED
    BY <1>1, <1>2, <1>4, <2>1, HorseFollowsRider
<1> HIDE DEF a
<1>7. KeepsDive(rifle', a.rifle)
  BY <1>1, <1>5, AdvancedKeeps DEF Follows, WeaponFits
<1>8. RifleFits(rifle') /\ RidingFits(riding')
  BY <1>1, <1>5, <1>7 DEF KeepsDive, Follows, WeaponFits
<1>9. Dive!OpenDive(rifle') <=> Dive!OpenDive(a.rifle)
  BY <1>7, KeptOpen
<1>10. Together(dive', runout', rifle', riding')
  BY <1>1, <1>5, <1>6, <1>7, <1>9 DEF Together, Follows, KeepsDive
<1>11. DiveFits(dive') /\ RowsKept(dive.rows, dive'.rows) /\ clock' \in Int /\ phase' = "combat"
  BY <1>1, <1>2, <1>4
<1>12. StillRunning'
  BY <1>11 DEF StillRunning
<1> QED
  BY <1>6, <1>8, <1>10, <1>11, <1>12 DEF Kept, DiveInv

LEMMA DiveRefused ==
    ASSUME DiveBounds, DiveInv, Dive!RefuseFrame PROVE Kept
<1>1. clock' = clock + 1 /\ ~Dive!ContextMatches
      /\ UNCHANGED <<dive, runout, rifle, riding, phase>>
  BY DEF Dive!RefuseFrame
<1>2. dive.state = "Mounted"
  <2>1. SUFFICES ASSUME dive.state # "Mounted" PROVE Dive!ContextMatches
    BY <1>1
  <2>2. riding.stance = dive.state /\ (riding.dive # 0 => riding.dive = dive.id)
    BY <2>1 DEF DiveInv, Together
  <2> QED
    BY <2>1, <2>2 DEF Dive!ContextMatches, Dive!RiderStance
<1>3. runout'.state # "Runout"
  BY <1>1, <1>2 DEF DiveInv, Together
<1>4. clock' \in Int /\ StillRunning'
  BY <1>1, <1>3 DEF DiveInv, StillRunning
<1>5. /\ DiveFits(dive') /\ RunoutFits(runout') /\ RifleFits(rifle') /\ RidingFits(riding')
      /\ Together(dive', runout', rifle', riding')
  BY <1>1 DEF DiveInv
<1>6. RowsKept(dive.rows, dive'.rows)
  BY <1>1, RowsSame
<1> QED
  BY <1>4, <1>5, <1>6 DEF Kept, DiveInv

\* A step that leaves rider, horse and stance where they are and the dive context as it is.
LEMMA DiveStays ==
    ASSUME DiveInv, Quiet(dive', dive), KeepsDive(rifle', rifle),
           UNCHANGED <<runout, riding, clock, phase>>
    PROVE  Kept
<1>1. Together(dive', runout', rifle', riding')
  <2>1. dive'.state = dive.state /\ dive'.id = dive.id /\ Together(dive, runout, rifle, riding)
    BY DEF Quiet, DiveInv
  <2>2. Together(dive', runout, rifle', riding)
    BY <2>1, TogetherKept
  <2> QED
    BY <2>2
<1>2. DiveFits(dive') /\ RifleFits(rifle') /\ RowsKept(dive.rows, dive'.rows)
  BY DEF Quiet, KeepsDive
<1>3. RunoutFits(runout') /\ RidingFits(riding') /\ clock' \in Int /\ StillRunning'
  BY DEF DiveInv, StillRunning
<1> QED
  BY <1>1, <1>2, <1>3 DEF Kept, DiveInv

LEMMA DiveFired ==
    ASSUME DiveInv, Dive!RequestFire PROVE Kept
<1> DEFINE tried == Dive!ShotAttempted(dive, clock)
           shot  == [tick |-> clock, dive |-> riding.dive, weapon |-> rifle.weapon]
           fire  == Dive!Fire(rifle, clock, riding, rifle.index)
<1>1. /\ rifle' = fire.rifle \/ rifle' = rifle
      /\ dive' = tried \/ dive' = Dive!ShotAccepted(tried, shot)
      /\ UNCHANGED <<runout, riding, clock, phase>>
  BY DEF Dive!RequestFire
<1>2. DiveFits(dive) /\ RifleFits(rifle) /\ RidingFits(riding)
  BY DEF DiveInv
<1>3. Quiet(tried, dive)
  BY <1>2, AttemptIsQuiet
<1> HIDE DEF tried
<1>4. Quiet(Dive!ShotAccepted(tried, shot), tried)
  BY <1>3, AcceptIsQuiet DEF Quiet
<1>5. Quiet(dive', dive)
  BY <1>1, <1>3, <1>4, QuietTwice
<1>6. KeepsDive(rifle', rifle)
  BY <1>1, <1>2, FireKeeps DEF KeepsDive
<1> QED
  BY <1>1, <1>5, <1>6, DiveStays

LEMMA DiveEnds ==
    ASSUME DiveBounds, DiveInv, NEW step \in 0..RunoutStep, NEW contact, Dive!EndFrame(step, contact)
    PROVE  Kept
<1> DEFINE h == Dive!RunoutBegun(runout, clock)
           m == Dive!DiveMoved(dive, contact)
           v == [rifle |-> rifle, riding |-> riding]
           landed == dive.state = "SaddleDive" /\ m.state = "Prone"
           a == IF landed THEN Dive!WeaponLanded(v, clock) ELSE v
<1>1. /\ step <= Dive!MaximumStep(h) /\ phase' = "idle" /\ runout' = Dive!RunoutMoved(h, step)
      /\ dive' = Dive!SettledThrough(m, clock) /\ rifle' = a.rifle /\ riding' = a.riding
      /\ clock' = clock
  BY DEF Dive!EndFrame
<1>2. DiveFits(dive) /\ RunoutFits(runout) /\ RifleFits(rifle) /\ RidingFits(riding)
      /\ Together(dive, runout, rifle, riding) /\ clock \in Int /\ step \in Int
  BY DEF DiveInv, DiveBounds
<1>3. DiveFits(m) /\ m.id = dive.id /\ RowsKept(dive.rows, m.rows)
      /\ (m.state = dive.state \/ (dive.state = "SaddleDive" /\ m.state = "Prone"))
  BY <1>2, MovedIs
<1> HIDE DEF m
<1>4. Quiet(dive', m)
  BY <1>1, <1>3, SettledIsQuiet
<1>5. /\ RunoutFits(runout') /\ (runout'.state = "PlayerControlled" <=> runout.state = "PlayerControlled")
      /\ runout'.state = "Runout" => clock < runout'.launch + RunoutTicks /\ runout'.travel < MaxTravel
  BY <1>1, <1>2, RunoutEnded
<1>6. RifleFits(rifle') /\ RidingFits(riding') /\ Together(m, runout', rifle', riding')
  <2>1. CASE landed
    <3>1. WeaponFits(v)
      BY <1>2 DEF WeaponFits
    <3>2. Armed(a, "Prone", 0) /\ ~Dive!OpenDive(a.rifle)
      BY <2>1, <3>1, LandedIs
    <3> HIDE DEF a
    <3>3. m.state = "Prone" /\ runout'.state # "PlayerControlled"
      BY <1>2, <1>5, <2>1 DEF Together
    <3> QED
      BY <1>1, <3>2, <3>3 DEF Armed, Together
  <2>2. CASE ~landed
    <3>1. rifle' = rifle /\ riding' = riding
      BY <1>1, <2>2
    <3>2. m.state = dive.state /\ m.id = dive.id
      BY <1>3, <2>2
    <3> QED
      BY <1>2, <1>5, <3>1, <3>2 DEF Together
  <2> QED
    BY <2>1, <2>2
<1>7. DiveFits(dive') /\ RowsKept(dive.rows, dive'.rows) /\ dive'.state = m.state /\ dive'.id = m.id
  BY <1>3, <1>4 DEF Quiet, RowsKept
<1>8. Together(dive', runout', rifle', riding')
  BY <1>6, <1>7 DEF Together
<1>9. clock' \in Int /\ StillRunning'
  BY <1>1, <1>2, <1>5 DEF StillRunning
<1> QED
  BY <1>5, <1>6, <1>7, <1>8, <1>9 DEF Kept, DiveInv

LEMMA DiveRestarts ==
    ASSUME DiveBounds, DiveInv, Dive!ResetRider PROVE Kept
<1> DEFINE v == [rifle |-> rifle, riding |-> riding]
           f == Dive!WeaponRemounted(v, clock + 1)
           z == IF footing THEN "Mounted" ELSE "MountedAirborne"
           a == IF dive.state \in {"Mounted", "OnFoot"} THEN f ELSE Dive!Synced(f, z)
<1>1. /\ clock' = clock + 1 /\ dive' = Dive!DiveReset(dive, clock + 1) /\ runout' = Dive!NewRunout
      /\ rifle' = a.rifle /\ riding' = a.riding
  BY DEF Dive!ResetRider
<1>2. DiveFits(dive) /\ WeaponFits(v) /\ clock' \in Int
  BY <1>1 DEF DiveInv, WeaponFits
<1>3. DiveFits(dive') /\ dive'.state = "Mounted" /\ dive'.id = 0 /\ RowsKept(dive.rows, dive'.rows)
  BY <1>1, <1>2, ResetIs
<1>4. Armed(f, "Mounted", 0) /\ ~Dive!OpenDive(f.rifle)
  BY <1>2, RemountedIs
<1> HIDE DEF f, z
<1>5. RifleFits(a.rifle) /\ RidingFits(a.riding) /\ ~Dive!OpenDive(a.rifle)
  <2>1. WeaponFits(f)
    BY <1>4 DEF Armed, WeaponFits
  <2>2. Armed(Dive!Synced(f, z), z, 0) /\ KeepsDive(Dive!Synced(f, z).rifle, f.rifle)
    BY <2>1, SyncedIs
  <2>3. ~Dive!OpenDive(Dive!Synced(f, z).rifle)
    BY <1>4, <2>2, KeptOpen
  <2> QED
    BY <1>4, <2>2, <2>3 DEF Armed
<1> HIDE DEF a
<1>6. RunoutFits(runout') /\ runout'.state = "PlayerControlled"
  BY <1>1 DEF Dive!NewRunout, Dive!Unset, RunoutFits, DiveBounds
<1>7. RifleFits(rifle') /\ RidingFits(riding') /\ Together(dive', runout', rifle', riding')
  BY <1>1, <1>3, <1>5, <1>6 DEF Together
<1>8. StillRunning'
  BY <1>6 DEF StillRunning
<1> QED
  BY <1>2, <1>3, <1>6, <1>7, <1>8 DEF Kept, DiveInv

LEMMA DiveStarts == ASSUME DiveBounds, Dive!Init PROVE DiveInv
<1>1. DiveFits(dive)
  <2>1. dive = [x \in DiveFields |-> dive[x]] /\ dive.rows = << >> /\ dive.id = 0
        /\ dive.state = "Mounted" /\ dive.tick = -1
    BY DEF Dive!Init, Dive!NewDive, Dive!Unset, DiveFields
  <2>2. /\ dive.rows \in Seq({dive.rows[i] : i \in DOMAIN dive.rows})
        /\ \A i \in DOMAIN dive.rows : RowFits(dive.rows[i])
    <3>1. \A S : << >> \in Seq(S)
      OBVIOUS
    <3>2. DOMAIN dive.rows = {}
      BY <2>1
    <3>3. dive.rows \in Seq({dive.rows[i] : i \in DOMAIN dive.rows})
      BY <2>1, <3>1
    <3> QED
      BY <3>2, <3>3
  <2>3. dive.id \in Nat /\ dive.state # "SaddleDive" /\ dive.tick \in Int
        /\ dive.state \in {"Mounted", "SaddleDive", "Prone", "Recovery", "OnFoot"}
    BY <2>1
  <2> QED
    BY ONLY <2>1, <2>2, <2>3 DEF DiveFits
<1>2. RunoutFits(runout) /\ runout.state = "PlayerControlled"
  BY DEF Dive!Init, Dive!NewRunout, Dive!Unset, RunoutFits, DiveBounds
<1>3. RidingFits(riding)
  BY DEF Dive!Init, Dive!Riding, RidingFits
<1>4. RifleFits(rifle) /\ ~Dive!OpenDive(rifle)
  <2>1. PICK k, m, w : /\ rifle = [k EXCEPT !.ammo = m]
                       /\ k = Dive!NewRifle(w)
    BY DEF Dive!Init
  <2>2. k = [x \in RifleFields |-> k[x]] /\ k.dive = Dive!NoDive /\ k.riding = Dive!Riding("Mounted", 0)
    BY <2>1 DEF Dive!NewRifle, RifleFields
  <2>3. rifle = [x \in RifleFields |-> rifle[x]] /\ rifle.dive = k.dive /\ rifle.riding = k.riding
    BY <2>1, <2>2 DEF RifleFields
  <2>4. RidingFits(rifle.riding) /\ rifle.dive = [x \in {"id", "weapon", "count", "closed"} |-> rifle.dive[x]]
        /\ rifle.dive.id = 0
    BY <2>2, <2>3 DEF Dive!Riding, RidingFits, Dive!NoDive
  <2> QED
    BY <2>3, <2>4 DEF RifleFits, Dive!OpenDive
<1>5. dive.state = "Mounted" /\ clock \in Int
  BY DEF Dive!Init, Dive!NewDive
<1>6. Together(dive, runout, rifle, riding) /\ StillRunning
  BY <1>2, <1>4, <1>5 DEF Together, StillRunning
<1> QED
  BY <1>1, <1>2, <1>3, <1>4, <1>5, <1>6 DEF DiveInv

LEMMA DiveSteps == ASSUME DiveBounds, DiveInv, [Dive!Next]_Dive!vars PROVE Kept
<1>1. DiveFits(dive) /\ KeepsDive(rifle, rifle) /\ RifleFits(rifle) /\ RidingFits(riding)
  BY DEF DiveInv, KeepsDive
<1>2. ASSUME NEW in \in Buttons, Dive!BeginFrame(in) PROVE Kept
  BY <1>2, DiveBegins
<1>3. CASE Dive!RefuseFrame
  BY <1>3, DiveRefused
<1>4. CASE Dive!RequestFire
  BY <1>4, DiveFired
<1>5. CASE Dive!Reload
  <2>1. KeepsDive(rifle', rifle) /\ dive' = dive /\ UNCHANGED <<runout, riding, clock, phase>>
    BY <1>1, <1>5, RequestKeeps DEF Dive!Reload
  <2> QED
    BY <1>1, <2>1, QuietOnce, DiveStays
<1>6. ASSUME NEW w \in Loadout, Dive!EquipWeapon(w) PROVE Kept
  <2>1. KeepsDive(rifle', rifle) /\ dive' = dive /\ UNCHANGED <<runout, riding, clock, phase>>
    BY <1>1, <1>6, EquipKeeps DEF Dive!EquipWeapon
  <2> QED
    BY <1>1, <2>1, QuietOnce, DiveStays
<1>7. ASSUME NEW step \in 0..RunoutStep, NEW contact, Dive!EndFrame(step, contact) PROVE Kept
  BY <1>7, DiveEnds
<1>8. ASSUME NEW shot, NEW hit, Dive!ResultArrives(shot, hit) PROVE Kept
  <2>1. Quiet(dive', dive) /\ rifle' = rifle /\ UNCHANGED <<runout, riding, clock, phase>>
    BY <1>1, <1>8, ResolvedIsQuiet DEF Dive!ResultArrives
  <2> QED
    BY <1>1, <2>1, DiveStays
<1>9. ASSUME NEW t \in 0..clock, NEW amount, Dive!ApplyExternalDamage(t, amount) PROVE Kept
  <2>2. PICK o : dive' = Dive!ExternalDamage(dive, o) /\ o.tick = t /\ t \in Int
    BY <1>1, <1>9 DEF Dive!ApplyExternalDamage
  <2>1. Quiet(dive', dive) /\ rifle' = rifle /\ UNCHANGED <<runout, riding, clock, phase>>
    BY <1>1, <1>9, <2>2, DamageIsQuiet DEF Dive!ApplyExternalDamage
  <2> QED
    BY <1>1, <2>1, DiveStays
<1>10. ASSUME NEW t \in 0..clock, Dive!RiderDeath(t) PROVE Kept
  <2>1. Quiet(dive', dive) /\ rifle' = rifle /\ UNCHANGED <<runout, riding, clock, phase>>
    BY <1>1, <1>10, DeathIsQuiet DEF Dive!RiderDeath
  <2> QED
    BY <1>1, <2>1, DiveStays
<1>11. CASE Dive!AdvanceAuthorityEpoch
  <2>1. SamePlace(dive', dive) /\ dive'.rows = dive.rows
    BY <1>1, <1>11 DEF Dive!AdvanceAuthorityEpoch, SamePlace, DiveFits, DiveFields
  <2>2. rifle' = rifle /\ UNCHANGED <<runout, riding, clock, phase>>
    BY <1>11 DEF Dive!AdvanceAuthorityEpoch
  <2> QED
    BY <1>1, <2>1, <2>2, FieldChanged, DiveStays
<1>12. CASE Dive!EndMatch
  <2>1. Quiet(dive', dive) /\ rifle' = rifle /\ UNCHANGED <<runout, riding, clock, phase>>
    BY <1>1, <1>12, CensoredIsQuiet DEF Dive!EndMatch
  <2> QED
    BY <1>1, <2>1, DiveStays
<1>13. CASE Dive!ResetRider
  BY <1>13, DiveRestarts
<1>14. CASE UNCHANGED Dive!vars
  <2>1. dive' = dive /\ rifle' = rifle /\ UNCHANGED <<runout, riding, clock, phase>>
    BY <1>14 DEF Dive!vars
  <2> QED
    BY <1>1, <2>1, QuietOnce, DiveStays
<1> QED
  BY <1>2, <1>3, <1>4, <1>5, <1>6, <1>7, <1>8, <1>9, <1>10, <1>11, <1>12, <1>13, <1>14 DEF Dive!Next

\* What SaddleDive promises of the three controllers of a rider: whatever lands, dies, is
\* shot at, reset or refused, the rider is in the saddle exactly while the horse is under
\* control and the rifle's dive is open exactly while the rider is in the air; every landed
\* death is told truly as within the window or not; the horse never runs past its travel and
\* is idle by the end of its run-out; and a landed, final row never changes again
\* (saddle_dive.rs, mounted_weapon.rs, horse.rs and the frame of m2_gameplay.gd).
THEOREM DivesStayTrue ==
    DiveBounds =>
      (Dive!Spec =>
         [](Dive!ControllersFollowRider /\ Dive!DeathWindowIsTrue /\ Dive!RunoutEnds)
         /\ [][Dive!LandedRowsAreFinal]_Dive!vars)
<1> SUFFICES ASSUME DiveBounds
             PROVE  Dive!Spec =>
                      [](Dive!ControllersFollowRider /\ Dive!DeathWindowIsTrue /\ Dive!RunoutEnds)
                      /\ [][Dive!LandedRowsAreFinal]_Dive!vars
  OBVIOUS
<1>1. Dive!Init => DiveInv
  BY DiveStarts
<1>2. DiveInv /\ [Dive!Next]_Dive!vars => DiveInv'
  BY DiveSteps DEF Kept
<1>3. DiveInv => Dive!ControllersFollowRider /\ Dive!DeathWindowIsTrue /\ Dive!RunoutEnds
  <2> SUFFICES ASSUME DiveInv
               PROVE  Dive!ControllersFollowRider /\ Dive!DeathWindowIsTrue /\ Dive!RunoutEnds
    OBVIOUS
  <2>1. Dive!ControllersFollowRider
    BY DEF DiveInv, Together, Dive!ControllersFollowRider, Dive!OpenDive
  <2>2. Dive!DeathWindowIsTrue
    <3>1. SUFFICES ASSUME NEW i \in DOMAIN dive.rows, dive.rows[i].landing # -1,
                          dive.rows[i].death # -1
                   PROVE  (dive.rows[i].within = "yes")
                            = (dive.rows[i].death <= dive.rows[i].landing + DeathWindow)
      BY Zenon DEF Dive!DeathWindowIsTrue, Dive!Unset
    <3>2. dive.rows[i].within = "yes" <=> dive.rows[i].death <= dive.rows[i].landing + DeathWindow
      BY <3>1 DEF DiveInv, DiveFits, RowFits
    <3>3. dive.rows[i].death \in Int /\ dive.rows[i].landing + DeathWindow \in Int
      <4>1. RowFits(dive.rows[i])
        BY DEF DiveInv, DiveFits
      <4> QED
        BY <4>1 DEF RowFits, DiveBounds
    <3> QED
      BY <3>2, <3>3
  <2>3. Dive!RunoutEnds
    BY DEF DiveInv, RunoutFits, StillRunning, Dive!RunoutEnds
  <2> QED
    BY <2>1, <2>2, <2>3
<1>4. DiveInv /\ [Dive!Next]_Dive!vars => [Dive!LandedRowsAreFinal]_Dive!vars
  BY DiveSteps DEF Kept, RowsKept, Dive!LandedRowsAreFinal, Dive!Unset
<1> QED
  BY <1>1, <1>2, <1>3, <1>4, PTL DEF Dive!Spec

=============================================================================
