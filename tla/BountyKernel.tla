---------------------------- MODULE BountyKernel ----------------------------
(* The Bounty Run match of an authority (m5.rs): the clock, the scoreboard, *)
(* Most Wanted reveals, dynamic objectives and respawns.  A match is a       *)
(* record and every method an operator from a match to the match it leaves.  *)
(* Players are numbers, ordered as PlayerId is.  World points (where an      *)
(* objective or a respawn is placed) are left out.                           *)
EXTENDS Integers, Sequences, FiniteSetsExt

CONSTANTS
    Duration,         \* BOUNTY_RUN_DURATION_TICKS
    RespawnDelay,     \* RESPAWN_DELAY_TICKS
    SpeedBuff,        \* RESPAWN_SPEED_BUFF_TICKS
    RevealCadence,    \* MOST_WANTED_CADENCE_TICKS
    RevealTicks,      \* MOST_WANTED_REVEAL_TICKS
    ObjectiveCadence, \* OBJECTIVE_CADENCE_TICKS
    ObjectiveTicks,   \* OBJECTIVE_LIFETIME_TICKS
    AssistWindow,     \* ASSIST_WINDOW_TICKS
    AssistDamage,     \* ASSIST_DAMAGE_THRESHOLD
    LongHitCap,       \* LONG_HIT_BONUS_CAP
    HorseBuff,        \* HORSE_STATION_BUFF_TICKS
    SignalInterval,   \* SIGNAL_TOWER_INTERVAL_TICKS
    MaxScore          \* MAX_BOUNTY_SCORE

NotDue == -1

Categories ==
    {"Elimination", "Assist", "HorseBolt", "SaddleDiveBonus", "MountedLongHit",
     "Objective", "MostWantedElimination", "MostWantedSurvival"}

Kinds == <<"MovingBounty", "SupplyHerd", "AmmoWagon", "SignalTower", "HorseBuffStation">>

CompletionPoints(kind) ==
    CASE kind = "MovingBounty" -> 150 [] kind = "SupplyHerd" -> 100
      [] kind = "AmmoWagon" -> 80 [] OTHER -> 50

(* The kind of the n-th objective, n counted from 1.                         *)
KindAt(seed, n) == Kinds[1 + ((seed + n - 1) % 5)]

NewRow ==
    [score |-> [c \in Categories |-> 0], eliminations |-> 0, assists |-> 0, deaths |-> 0,
     alive |-> TRUE, respawnAt |-> NotDue, speedBuff |-> NotDue, horseBuff |-> NotDue,
     longHit |-> 0]

NoReveal == [player |-> 0, start |-> NotDue, end |-> NotDue, eliminated |-> FALSE]
NoObjective == [id |-> 0, kind |-> "none", start |-> NotDue, end |-> NotDue,
                completed |-> FALSE, paid |-> 0]

(* damage[target][attacker] is what an attacker dealt a target since the     *)
(* target last fell: [damage, last], no damage for an absent entry.          *)
NoDamage == [damage |-> 0, last |-> NotDue]

NewMatch(roster, seed, start) ==
    [seed |-> seed, tick |-> start, start |-> start, end |-> start + Duration,
     players |-> [p \in roster |-> NewRow],
     damage |-> [p \in roster |-> [q \in roster |-> NoDamage]],
     nextReveal |-> start + RevealCadence, reveal |-> NoReveal,
     nextObjective |-> start + ObjectiveCadence, objective |-> NoObjective,
     sequence |-> 0, finished |-> FALSE]
-----------------------------------------------------------------------------
Total(score) ==
    score["Elimination"] + score["Assist"] + score["HorseBolt"] + score["SaddleDiveBonus"]
    + score["MountedLongHit"] + score["Objective"] + score["MostWantedElimination"]
    + score["MostWantedSurvival"]

TotalScore(row) == Total(row.score)

(* The leader: the highest score, the lowest identity among equals.          *)
Winner(players) ==
    CHOOSE p \in DOMAIN players :
        \A q \in DOMAIN players \ {p} :
            \/ TotalScore(players[p]) > TotalScore(players[q])
            \/ TotalScore(players[p]) = TotalScore(players[q]) /\ p < q

Award(b, p, category, points) ==
    [b EXCEPT !.players[p].score[category] = Min({MaxScore, @ + points})]

LiveTick(b, t) == ~b.finished /\ t = b.tick
-----------------------------------------------------------------------------
(* advance_tick.  t is the effective tick, never after the end.              *)

RowAdvanced(row, t) ==
    LET due  == ~row.alive /\ row.respawnAt # NotDue /\ row.respawnAt <= t
        back == [row EXCEPT !.alive = TRUE, !.respawnAt = NotDue,
                            !.speedBuff = row.respawnAt + SpeedBuff]
        now  == IF due THEN back ELSE row
    IN  [now EXCEPT !.speedBuff = IF @ <= t THEN NotDue ELSE @,
                    !.horseBuff = IF @ <= t THEN NotDue ELSE @]

CloseReveal(b, t) ==
    IF b.reveal = NoReveal \/ b.reveal.end > t THEN b
    ELSE LET closed == [b EXCEPT !.reveal = NoReveal]
         IN  IF b.reveal.eliminated THEN closed
             ELSE Award(closed, b.reveal.player, "MostWantedSurvival", 10)

OpenReveal(b) ==
    LET closed == CloseReveal(b, b.nextReveal)
    IN  [closed EXCEPT
            !.reveal = [player |-> Winner(closed.players), start |-> b.nextReveal,
                        end |-> b.nextReveal + RevealTicks, eliminated |-> FALSE],
            !.nextReveal = @ + RevealCadence]

(* How often a timer that fires at next, every cadence ticks and before end,  *)
(* fires up to t.                                                             *)
Firings(next, cadence, t, end) ==
    LET last == Min({t, end - 1})
    IN  IF next > last THEN 0 ELSE 1 + ((last - next) \div cadence)

AdvanceReveals(b, t) ==
    LET opened[n \in 0..b.end] == IF n = 0 THEN b ELSE OpenReveal(opened[n - 1])
    IN  CloseReveal(opened[Firings(b.nextReveal, RevealCadence, t, b.end)], t)

CloseObjective(b, t) ==
    IF b.objective # NoObjective /\ b.objective.end <= t
    THEN [b EXCEPT !.objective = NoObjective] ELSE b

(* Every boundary passed replaces the objective, so that only the last one    *)
(* of several skipped boundaries is seen.                                     *)
AdvanceObjectives(b, t) ==
    LET fired  == Firings(b.nextObjective, ObjectiveCadence, t, b.end)
        start  == b.nextObjective + (fired - 1) * ObjectiveCadence
        id     == b.sequence + fired
        opened == [b EXCEPT
                     !.sequence = id, !.nextObjective = start + ObjectiveCadence,
                     !.objective = [id |-> id, kind |-> KindAt(b.seed, id), start |-> start,
                                    end |-> start + ObjectiveTicks,
                                    completed |-> FALSE, paid |-> 0]]
    IN  CloseObjective(IF fired = 0 THEN b ELSE opened, t)

MatchAdvanced(b, tick) ==
    LET t    == Min({tick, b.end})
        rows == [b EXCEPT !.tick = tick,
                          !.players = [p \in DOMAIN @ |-> RowAdvanced(@[p], t)]]
        now  == AdvanceObjectives(AdvanceReveals(rows, t), t)
    IN  IF tick >= b.end /\ ~b.finished
        THEN [now EXCEPT !.finished = TRUE, !.reveal = NoReveal, !.objective = NoObjective]
        ELSE now

(* respawned_players of that step.                                            *)
RespawnedBy(b, tick) ==
    {p \in DOMAIN b.players : ~b.players[p].alive /\ MatchAdvanced(b, tick).players[p].alive}
-----------------------------------------------------------------------------
DamageAccepted(b, t, attacker, target, damage) ==
    /\ LiveTick(b, t) /\ damage > 0 /\ attacker # target
    /\ attacker \in DOMAIN b.players /\ target \in DOMAIN b.players
    /\ b.players[target].alive

RecordDamage(b, attacker, target, damage) ==
    [b EXCEPT !.damage[target][attacker] = [damage |-> @.damage + damage, last |-> b.tick]]

EliminationAccepted(b, t, killer, target) ==
    /\ LiveTick(b, t) /\ killer # target
    /\ killer \in DOMAIN b.players /\ target \in DOMAIN b.players
    /\ b.players[target].alive

Assistants(b, killer, target) ==
    {q \in DOMAIN b.players \ {killer} :
        /\ b.damage[target][q].damage >= AssistDamage
        /\ b.tick - b.damage[target][q].last < AssistWindow}

RecordElimination(b, killer, target, dive) ==
    LET wanted  == b.reveal.player = target /\ b.tick >= b.reveal.start /\ b.tick < b.reveal.end
        helpers == Assistants(b, killer, target)
        scored  == [p \in DOMAIN b.players |->
                     [b.players[p] EXCEPT
                        !.score = [c \in Categories |->
                          Min({MaxScore, @[c]
                            + (IF p = killer /\ c = "Elimination" THEN 100 ELSE 0)
                            + (IF p = killer /\ c = "SaddleDiveBonus" /\ dive THEN 25 ELSE 0)
                            + (IF p = killer /\ c = "MostWantedElimination" /\ wanted THEN 75 ELSE 0)
                            + (IF p \in helpers /\ c = "Assist" THEN 50 ELSE 0)})],
                        !.eliminations = IF p = killer THEN @ + 1 ELSE @,
                        !.assists = IF p \in helpers THEN @ + 1 ELSE @]]
    IN  [b EXCEPT
            !.reveal.eliminated = @ \/ wanted,
            !.damage[target] = [q \in DOMAIN b.players |-> NoDamage],
            !.players = [scored EXCEPT
                ![target].alive = FALSE, ![target].deaths = @ + 1,
                ![target].respawnAt = b.tick + RespawnDelay, ![target].speedBuff = NotDue]]

HorseBoltAccepted(b, t, attacker, target) ==
    LiveTick(b, t) /\ attacker # target /\ {attacker, target} \subseteq DOMAIN b.players

RecordHorseBolt(b, attacker) == Award(b, attacker, "HorseBolt", 15)

RecordMountedLongHit(b, attacker) ==
    IF b.players[attacker].longHit >= LongHitCap THEN b
    ELSE Award([b EXCEPT !.players[attacker].longHit = @ + 10], attacker, "MountedLongHit", 10)

(* Fault: a completed objective may be completed again. *)
CompletionAcceptedAgain(b, t, p, id) ==
    /\ LiveTick(b, t) /\ p \in DOMAIN b.players
    /\ b.objective # NoObjective /\ b.objective.id = id
    /\ b.objective.kind # "SignalTower" /\ t < b.objective.end

CompletionAccepted(b, t, p, id) ==
    /\ LiveTick(b, t) /\ p \in DOMAIN b.players
    /\ b.objective # NoObjective /\ b.objective.id = id /\ ~b.objective.completed
    /\ b.objective.kind # "SignalTower" /\ t < b.objective.end

CompleteObjective(b, p) ==
    LET done == [b EXCEPT !.objective.completed = TRUE,
                          !.players[p].horseBuff =
                             IF b.objective.kind = "HorseBuffStation" THEN b.tick + HorseBuff ELSE @]
    IN  Award(done, p, "Objective", CompletionPoints(b.objective.kind))

HoldAccepted(b, t, p, id) ==
    /\ LiveTick(b, t) /\ p \in DOMAIN b.players
    /\ b.objective # NoObjective /\ b.objective.id = id
    /\ b.objective.kind = "SignalTower" /\ t < b.objective.end

(* At most one interval is paid per call, whoever holds the tower.            *)
RecordSignalHold(b, p, held) ==
    IF b.objective.completed \/ Min({3, held \div SignalInterval}) <= b.objective.paid THEN b
    ELSE Award([b EXCEPT !.objective.paid = @ + 1,
                         !.objective.completed = b.objective.paid + 1 = 3], p, "Objective", 50)
-----------------------------------------------------------------------------
(* What state_is_valid and is_canonical both ask of a scoreboard row at t.    *)
RowValid(row, t, finished) ==
    /\ TotalScore(row) <= MaxScore /\ row.longHit <= LongHitCap
    /\ row.score["MountedLongHit"] = row.longHit
    /\ row.alive = (row.respawnAt = NotDue)
    /\ row.respawnAt # NotDue /\ ~finished => row.respawnAt > t
    /\ row.speedBuff # NotDue => row.speedBuff > t
    /\ row.horseBuff # NotDue => row.horseBuff > t

EventsValid(b, t) ==
    /\ b.finished = (b.tick >= b.end)
    /\ b.reveal # NoReveal =>
          /\ ~b.finished /\ b.reveal.player \in DOMAIN b.players
          /\ b.reveal.end = b.reveal.start + RevealTicks /\ t < b.reveal.end
    /\ b.objective # NoObjective =>
          /\ ~b.finished /\ b.objective.id > 0
          /\ b.objective.end = b.objective.start + ObjectiveTicks /\ t < b.objective.end

(* state_is_valid compares with the current tick, a checkpoint's condition... *)
MatchValid(b) ==
    /\ b.tick >= b.start /\ b.end = b.start + Duration
    /\ \A p \in DOMAIN b.players : RowValid(b.players[p], b.tick, b.finished)
    /\ \A p, q \in DOMAIN b.players :
          b.damage[p][q] # NoDamage =>
             p # q /\ b.damage[p][q].damage > 0 /\ b.damage[p][q].last <= b.tick
    /\ EventsValid(b, b.tick) /\ b.objective.paid <= 3

(* ...and is_canonical, which a follower asks of a keyframe, with the         *)
(* effective one.                                                             *)
SnapshotCanonical(b) ==
    LET t == Min({b.tick, b.end})
    IN  /\ \A p \in DOMAIN b.players : RowValid(b.players[p], t, b.finished)
        /\ EventsValid(b, t)
-----------------------------------------------------------------------------
(* The routine keyframe of the peer wire, M5MatchStateV2: the scoreboard      *)
(* without the damage book, with each row's breakdown only once the match is  *)
(* over.                                                                      *)
Keyframe(b) ==
    [tick |-> b.tick, end |-> b.end, finished |-> b.finished,
     winner |-> IF b.finished THEN Winner(b.players) ELSE 0,
     reveal |-> b.reveal, objective |-> b.objective,
     rows |-> [p \in DOMAIN b.players |->
                 [score |-> TotalScore(b.players[p]),
                  breakdown |-> IF b.finished THEN {b.players[p].score} ELSE {},
                  alive |-> b.players[p].alive, respawnAt |-> b.players[p].respawnAt,
                  speedBuff |-> b.players[p].speedBuff,
                  horseBuff |-> b.players[p].horseBuff]]]

(* What envelope and the receiving peer ask of it.                            *)
KeyframeCanonical(k) ==
    LET t == Min({k.tick, k.end})
        Leads(p) == \A q \in DOMAIN k.rows \ {p} :
                       \/ k.rows[p].score > k.rows[q].score
                       \/ k.rows[p].score = k.rows[q].score /\ p < q
    IN  /\ k.finished = (k.tick >= k.end)
        /\ \A p \in DOMAIN k.rows :
              LET row == k.rows[p]
              IN  /\ row.score <= MaxScore
                  /\ (row.breakdown # {}) = k.finished
                  /\ \A score \in row.breakdown :
                        row.score = Min({MaxScore, Total(score)})
                  /\ row.alive = (row.respawnAt = NotDue)
                  /\ row.respawnAt # NotDue /\ ~k.finished => row.respawnAt > t
                  /\ row.speedBuff # NotDue => row.speedBuff > t
                  /\ row.horseBuff # NotDue => row.horseBuff > t
        /\ k.reveal # NoReveal =>
              /\ ~k.finished /\ k.reveal.player \in DOMAIN k.rows
              /\ k.reveal.end = k.reveal.start + RevealTicks /\ t < k.reveal.end
        /\ k.objective # NoObjective =>
              /\ ~k.finished /\ k.objective.id > 0
              /\ k.objective.end = k.objective.start + ObjectiveTicks /\ t < k.objective.end
        /\ IF k.finished THEN Leads(k.winner) ELSE k.winner = 0
=============================================================================
