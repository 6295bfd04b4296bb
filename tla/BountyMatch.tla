---------------------------- MODULE BountyMatch ----------------------------
(* A Bounty Run match by itself: every operation of the kernel at every tick *)
(* the bridge may call it, ticks skipped included.                           *)
EXTENDS BountyKernel

CONSTANTS
    Roster,       \* the players
    Seeds,        \* lobby seeds, each a rotation of the objective kinds
    MatchTicks,   \* the last tick a behaviour reaches
    MatchSteps,   \* how far one advance moves the clock
    MatchEvents   \* how many scored events a behaviour has

VARIABLES
    bounty,       \* BountyMatchKernel
    scored        \* how many of them have happened

vars == <<bounty, scored>>

Init == \E seed \in Seeds : bounty = NewMatch(Roster, seed, 0) /\ scored = 0

(* An eliminating step of the bridge records the damage first.               *)
Event == scored < MatchEvents /\ scored' = scored + 1

AdvanceTick(t) ==
    /\ t > bounty.tick
    /\ bounty' = MatchAdvanced(bounty, t) /\ UNCHANGED scored

Damage(p, q, damage) ==
    /\ DamageAccepted(bounty, bounty.tick, p, q, damage)
    /\ bounty' = RecordDamage(bounty, p, q, damage) /\ Event

Eliminate(p, q, dive) ==
    /\ EliminationAccepted(bounty, bounty.tick, p, q)
    /\ bounty' = RecordElimination(bounty, p, q, dive) /\ Event

LongHit(p) ==
    /\ LiveTick(bounty, bounty.tick)
    /\ bounty' = RecordMountedLongHit(bounty, p) /\ Event

Complete(p, id) ==
    /\ CompletionAccepted(bounty, bounty.tick, p, id)
    /\ bounty' = CompleteObjective(bounty, p) /\ Event

Hold(p, id, held) ==
    /\ HoldAccepted(bounty, bounty.tick, p, id)
    /\ bounty' = RecordSignalHold(bounty, p, held) /\ Event

Next ==
    \/ \E n \in MatchSteps : bounty.tick + n <= MatchTicks /\ AdvanceTick(bounty.tick + n)
    \/ \E p, q \in Roster : Damage(p, q, AssistDamage)
    \/ \E p, q \in Roster, dive \in BOOLEAN : Eliminate(p, q, dive)
    \/ \E p \in Roster : LongHit(p)
    \/ \E p \in Roster : Complete(p, bounty.objective.id)
    \/ \E p \in Roster, held \in {SignalInterval, 5 * SignalInterval} :
          Hold(p, bounty.objective.id, held)

Spec == Init /\ [][Next]_vars
-----------------------------------------------------------------------------
(* Every keyframe an authority signs, the last ones of a match included, is  *)
(* one its followers accept: no respawn, buff, reveal or objective outlives   *)
(* the tick it is due at, whatever ticks are skipped.                         *)
KeyframesAreCanonical ==
    SnapshotCanonical(bounty) /\ KeyframeCanonical(Keyframe(bounty))

(* While a match runs its checkpoint passes restore_checkpoint.               *)
ScoreboardMigrates == ~bounty.finished => MatchValid(bounty)

(* The scoreboard adds up: as many eliminations as deaths, a hundred points   *)
(* for each and fifty for each assist; no more assists than there were        *)
(* riders left over at each death.                                            *)
ScoreboardAddsUp ==
    LET Sum(F(_)) == MapThenSumSet(LAMBDA p : F(bounty.players[p]), Roster)
        Deaths(r) == r.deaths
        Kills(r)  == r.eliminations
        Helps(r)  == r.assists
    IN  /\ Sum(Deaths) = Sum(Kills)
        /\ Sum(Helps) <= Sum(Deaths) * (Cardinality(Roster) - 2)
        /\ \A p \in Roster :
              /\ bounty.players[p].score["Elimination"] = 100 * bounty.players[p].eliminations
              /\ bounty.players[p].score["Assist"] = 50 * bounty.players[p].assists

(* No objective is paid twice: what all players together got from objectives  *)
(* is at most one completion, or three tower intervals, for each one opened.  *)
ObjectivesPayOnce ==
    MapThenSumSet(LAMBDA p : bounty.players[p].score["Objective"], Roster)
        <= MapThenSumSet(LAMBDA n : IF KindAt(bounty.seed, n) = "SignalTower" THEN 150
                                    ELSE CompletionPoints(KindAt(bounty.seed, n)),
                         1..bounty.sequence)
=============================================================================
