------------------------------ MODULE Election ------------------------------
(* The authority election of spurfire-protocol/src/election.rs (election_v1) *)
(* and the two places that use it: the lobby service elects over the         *)
(* measurement matrix of the roster, and every wire 2.0 peer derives from    *)
(* the match-start election the order in which it would let others succeed.  *)
(*                                                                           *)
(* A matrix maps players (numbers: ids are compared) to rows                 *)
(*   [sample, major, settled, fresh]: the connectivity report, the major     *)
(*   wire version, whether the player joined 30 s before the election and    *)
(*   whether the report is younger than 60 s.                                *)
EXTENDS Integers, FiniteSets, Sequences, SequencesExt

AtMost(a, b) == IF a < b THEN a ELSE b

AtLeast(a, b) == IF a > b THEN a ELSE b

(* normalize_positive and normalize_inverse: 0 to 1000, clamped first.       *)
NormalizePositive(value, maximum) == (AtMost(value, maximum) * 1000) \div maximum

NormalizeInverse(value, maximum) == ((maximum - AtMost(value, maximum)) * 1000) \div maximum

(* A relay penalty: the share of peers behind relays times its weight.       *)
RelayPenalty(count, weight, peers) == (AtMost(count, peers) * weight) \div peers

(* score_measurement                                                         *)
ScoreMeasurement(s, peers) ==
    LET weighted == (  270 * NormalizePositive(s.direct, peers)
                     + 230 * NormalizeInverse(s.median, 200)
                     + 140 * NormalizeInverse(s.worst, 400)
                     +  90 * NormalizeInverse(s.jitter, 50)
                     +  90 * NormalizeInverse(s.loss, 10000)
                     +  90 * NormalizePositive(s.upload, 20)
                     +  90 * AtMost(s.device, 1000)) \div 1000
    IN  AtLeast(weighted - RelayPenalty(s.derp, 300, peers) - RelayPenalty(s.relay, 150, peers), 0)

(* ConnectivitySample::validate_for_roster                                   *)
ValidateForRoster(s, size) ==
    /\ s.loss <= 10000 /\ s.device <= 1000
    /\ s.direct + s.relay + s.derp = s.observed
    /\ s.observed <= size - 1

(* The first-pass filter: an empty list of ineligibility reasons.            *)
Eligible(row, major) ==
    /\ row.sample.loss <= 5000 /\ row.sample.median <= 150
    /\ row.settled /\ row.major = major
    /\ row.sample.observed # 0

(* Candidates whose row can be scored at all.                                *)
Scored(matrix, size) ==
    {p \in DOMAIN matrix : ValidateForRoster(matrix[p].sample, size) /\ matrix[p].fresh}

NormallyEligible(matrix, major, size) ==
    {p \in Scored(matrix, size) : Eligible(matrix[p], major)}

(* Higher score first, then the smaller id.                                  *)
Precedes(matrix, size, p, q) ==
    LET score(r) == ScoreMeasurement(matrix[r].sample, size - 1)
    IN  score(p) > score(q) \/ (score(p) = score(q) /\ p < q)

Best(matrix, size, players) ==
    CHOOSE p \in players : \A q \in players \ {p} : Precedes(matrix, size, p, q)

(* With nobody eligible the election is degraded: raw scores decide.         *)
Winner(matrix, major, size) ==
    LET eligible == NormallyEligible(matrix, major, size)
    IN  Best(matrix, size, IF eligible = {} THEN Scored(matrix, size) ELSE eligible)

(* The players of a set by score.                                            *)
ByScore(matrix, size, players) ==
    SortSeq(SetToSeq(players), LAMBDA p, q : Precedes(matrix, size, p, q))

(* M3SecureSession::configure_migration_election: the eligible by score,     *)
(* then the others by score, then whoever could not be scored by id.         *)
MigrationOrder(matrix, major, size) ==
    LET eligible == NormallyEligible(matrix, major, size)
        scored   == Scored(matrix, size)
    IN     ByScore(matrix, size, eligible)
        \o ByScore(matrix, size, scored \ eligible)
        \o SortSeq(SetToSeq(DOMAIN matrix \ scored), <)

(* What a peer that bound this order elects among the survivors.             *)
FirstOf(order, survivors) == SelectSeq(order, LAMBDA p : p \in survivors)[1]

Restricted(matrix, players) == [p \in players |-> matrix[p]]
=============================================================================
