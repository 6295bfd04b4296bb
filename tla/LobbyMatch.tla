----------------------------- MODULE LobbyMatch -----------------------------
(* A lobby of the service from its first member to the end of its match:     *)
(* roster, measurements, elections, signed session manifests, start,         *)
(* authority heartbeats and successor claims (service.rs).  Handlers hold    *)
(* the lobby lock from their first read to their last write and are atomic;  *)
(* what a request was authorised for may be out of date by then.  Admission  *)
(* (invitations, credentials) is LobbyAdmission, the network LobbyNetwork.   *)
(* The lobby is a real one: a dry-run lobby starts without a secure session. *)
(*                                                                           *)
(* Time is what the code compares: reports younger than 60 s (fresh),        *)
(* members for 30 s (settled) and an authority silent for 2 s (silent); a     *)
(* registration past its retention is as good as none.                       *)
EXTENDS Election

CONSTANTS
    Player,        \* ids (numbers)
    Sample,        \* the connectivity reports members send
    Formed,        \* rosters a behaviour may start with, joined one after the other
    MaxPlayers,    \* max_players
    ServiceMajor,  \* the major wire version elect_authority compares with
    ClientMajor,   \* the major wire version a join must have
    MaxRevision,   \* bound on joins and leaves
    MaxReports,    \* bound on accepted reports
    MaxEpoch,      \* bound on elections
    MaxGeneration  \* bound on starts and restarts

VARIABLES
    lobby,       \* the stored record
    endpoints,   \* session_endpoints: [Player -> revision registered for, 0: none in retention]
    key,         \* the manifest signing key (memory only)
    unmoved,     \* history: generations a restart failed to move a match on from
    reign,       \* history: the last election installed and its epoch
    manifests    \* history: [generation, key] of the manifests signed for matches

vars == <<lobby, endpoints, key, unmoved, reign, manifests>>

NoElection == [winner |-> 0, matrix |-> <<>>, at |-> 0]
NoReport == [direct |-> 0, relay |-> 0, derp |-> 0, observed |-> 0, median |-> 0, worst |-> 0,
             jitter |-> 0, loss |-> 0, upload |-> 0, device |-> 0]
NoEndpoints == [p \in Player |-> 0]

Init ==
    /\ \E roster \in Formed :
       lobby = [state |-> "Forming", roster |-> roster, revision |-> 1 + Cardinality(roster),
                reports |-> [p \in Player |-> NoReport], measured |-> {}, fresh |-> {},
                settled |-> {}, election |-> NoElection, locked |-> NoElection,
                epoch |-> 0, generation |-> 0, silent |-> FALSE, received |-> 0]
    /\ endpoints = NoEndpoints
    /\ key = 1 /\ unmoved = {}
    /\ reign = [epoch |-> 0, election |-> NoElection] /\ manifests = {}

-----------------------------------------------------------------------------
(* all_measurements_fresh                                                    *)
AllMeasurementsFresh(l) ==
    Cardinality(l.roster) >= 2 /\ l.roster \subseteq l.measured \cap l.fresh

Unelected(l) == [l EXCEPT !.election = NoElection]

(* refresh_freshness_state, run by load_maintained_lobby on every request.   *)
Maintained(l) ==
    IF l.state = "Ready" /\ ~AllMeasurementsFresh(l)
    THEN [Unelected(l) EXCEPT !.state = "Forming"] ELSE l

(* Fault: a lobby that is ready stays so when its election is withdrawn.     *)
UnreadyNever(l) == l

Unready(l) == IF l.state = "Ready" THEN [l EXCEPT !.state = "Forming"] ELSE l

(* roster_changed                                                            *)
RosterChanged(l) ==
    [Unelected(Unready(l)) EXCEPT !.revision = @ + 1, !.measured = {}, !.fresh = {}]

(* authority_candidates at the time of an election                           *)
Matrix(l) ==
    [p \in l.roster |-> [sample |-> l.reports[p], major |-> ClientMajor,
                         settled |-> p \in l.settled, fresh |-> p \in l.fresh]]

(* Fault: only another winner opens another epoch.                           *)
ApplyElectionByWinner(l, e) ==
    LET changed   == l.election.winner # 0 /\ l.election.winner # e.winner
        installed == [l EXCEPT !.election = e, !.epoch = AtLeast(IF changed THEN @ + 1 ELSE @, 1)]
    IN  IF l.state = "Forming" /\ AllMeasurementsFresh(l)
        THEN [installed EXCEPT !.state = "Ready"] ELSE installed

(* apply_election: another winner or another input opens another epoch.      *)
ApplyElection(l, e) ==
    LET changed   == l.election = NoElection \/ l.election # e
        installed == [l EXCEPT !.election = e, !.epoch = IF changed THEN @ + 1 ELSE @]
    IN  IF l.state = "Forming" /\ AllMeasurementsFresh(l)
        THEN [installed EXCEPT !.state = "Ready"] ELSE installed

(* recompute_authority; the hash of an election covers the time it was held. *)
RecomputeAuthority(l) ==
    LET size == Cardinality(l.roster)
        m    == Matrix(l)
    IN  IF ~AllMeasurementsFresh(l) THEN Unelected(l)
        ELSE ApplyElection(l, [winner |-> Winner(m, ServiceMajor, size), matrix |-> m,
                               at |-> l.received])

Recorded(l) ==
    reign' = IF l.election = NoElection THEN reign
             ELSE [epoch |-> l.epoch, election |-> l.election]

(* session_projection: a manifest is signed when every member is projected.  *)
Projected(l, es) == {p \in l.roster : es[p] = l.revision}

Secure(l, es) == l.roster # {} /\ Projected(l, es) = l.roster

Signed(l, es) ==
    manifests' = IF Secure(l, es) /\ l.generation > 0
                 THEN manifests \cup {[generation |-> l.generation, key |-> key]}
                 ELSE manifests

-----------------------------------------------------------------------------
(* join_lobby, once a credential is minted: a new member changes the roster, *)
(* one that enrols again only loses its report.                              *)
Join(p) ==
    LET l == Maintained(lobby)
    IN  /\ l.state \in {"Forming", "Ready"}
        /\ \/ /\ p \notin l.roster /\ Cardinality(l.roster) < MaxPlayers
              /\ l.revision < MaxRevision
              /\ lobby' = [RosterChanged(l) EXCEPT !.roster = @ \cup {p}, !.settled = @ \ {p}]
           \/ /\ p \in l.roster
              /\ lobby' = [Unelected(Unready(l)) EXCEPT !.measured = @ \ {p}, !.fresh = @ \ {p}]
        /\ UNCHANGED <<endpoints, key, unmoved, reign, manifests>>

(* leave_lobby: also in a match, whose election it takes away.               *)
Leave(p) ==
    LET l == Maintained(lobby)
    IN  /\ l.state \in {"Forming", "Ready", "InMatch"} /\ p \in l.roster
        /\ l.revision < MaxRevision
        /\ lobby' = [Unelected(Unready(l)) EXCEPT !.roster = @ \ {p}, !.revision = @ + 1,
                                                  !.measured = {}, !.fresh = {}]
        /\ endpoints' = NoEndpoints
        /\ UNCHANGED <<key, unmoved, reign, manifests>>

(* submit_measurements                                                       *)
SubmitMeasurements(p, s) ==
    LET l       == Maintained(lobby)
        stored  == [Unready(l) EXCEPT !.reports[p] = s, !.measured = @ \cup {p},
                                      !.fresh = @ \cup {p}, !.received = @ + 1]
        elected == IF stored.state = "InMatch" THEN stored ELSE RecomputeAuthority(stored)
    IN  /\ l.state \in {"Forming", "Ready", "InMatch"} /\ p \in l.roster
        /\ l.received < MaxReports /\ elected.epoch <= MaxEpoch
        /\ ValidateForRoster(s, Cardinality(l.roster))
        /\ lobby' = elected /\ Recorded(elected)
        /\ UNCHANGED <<endpoints, key, unmoved, manifests>>

(* authority_handler: an election is held when none is installed.            *)
ElectLobbyAuthority ==
    LET l == Maintained(lobby)
        n == IF l.state # "InMatch" /\ l.election = NoElection THEN RecomputeAuthority(l) ELSE l
    IN  /\ l.state \in {"Forming", "Ready", "InMatch"} /\ n.election # NoElection
        /\ lobby' = n /\ Recorded(n)
        /\ UNCHANGED <<endpoints, key, unmoved, manifests>>

(* register_session_endpoint reads the record as it is, without maintenance; *)
(* a request for another revision, with a sequence already used or a node    *)
(* another member claimed is refused.                                        *)
RegisterSessionEndpoint(p) ==
    /\ lobby.state \in {"Forming", "Ready", "Starting", "InMatch"} /\ p \in lobby.roster
    /\ endpoints' = [endpoints EXCEPT ![p] = lobby.revision]
    /\ Signed(lobby, endpoints')
    /\ UNCHANGED <<lobby, key, unmoved, reign>>

(* get_lobby: maintenance and a projection.                                  *)
GetLobby ==
    LET l == Maintained(lobby)
    IN  /\ lobby' = l /\ UNCHANGED <<endpoints, key, unmoved, reign>>
        /\ Signed(l, endpoints)

(* What start_lobby asks of a maintained record.                             *)
Startable(l) ==
    /\ l.state = "Ready" /\ Cardinality(l.roster) >= 2
    /\ AllMeasurementsFresh(l) /\ l.election # NoElection

(* start_lobby locks the election and opens a session generation, for which  *)
(* everybody registers again.                                                *)
StartLobby ==
    LET l == Maintained(lobby)
    IN  /\ Startable(l)
        /\ Secure(l, endpoints) /\ l.generation < MaxGeneration
        /\ lobby' = [l EXCEPT !.locked = l.election, !.generation = @ + 1, !.state = "Starting",
                              !.silent = FALSE]
        /\ endpoints' = NoEndpoints
        /\ UNCHANGED <<key, unmoved, reign, manifests>>

(* authority_heartbeat by the installed authority: the first one of a match  *)
(* takes it from Starting to InMatch.                                        *)
CurrentHeartbeat ==
    LET l == Maintained(lobby)
    IN  /\ l.state \in {"Starting", "InMatch"} /\ l.election # NoElection
        /\ lobby' = [l EXCEPT !.state = "InMatch", !.silent = FALSE]
        /\ UNCHANGED <<endpoints, key, unmoved, reign, manifests>>

(* What a successor's claim must satisfy before the election over survivors. *)
ClaimAllowed(l, p, survivors) ==
    /\ l.state = "InMatch" /\ l.silent
    /\ p \in survivors /\ survivors \subseteq l.roster
    /\ l.election.winner \notin survivors

(* The locked matrix restricted to the survivors, at the locked time.        *)
SuccessorElection(l, survivors) ==
    LET m == Restricted(l.locked.matrix, survivors)
    IN  [winner |-> Winner(m, ServiceMajor, Cardinality(DOMAIN l.locked.matrix)), matrix |-> m,
         at |-> l.locked.at]

(* authority_heartbeat by a successor: it claims the next epoch.             *)
SuccessorHeartbeat(p) ==
    LET l == Maintained(lobby)
    IN  /\ l.state \in {"Starting", "InMatch"} /\ l.election # NoElection
        /\ \E survivors \in SUBSET DOMAIN l.locked.matrix :
              /\ ClaimAllowed(l, p, survivors)
              /\ \E e \in {SuccessorElection(l, survivors)} :
                    LET n == ApplyElection(l, e)
                    IN  /\ e.winner = p /\ n.epoch = l.epoch + 1 /\ n.epoch <= MaxEpoch
                        /\ lobby' = [n EXCEPT !.silent = FALSE] /\ Recorded(n)
        /\ UNCHANGED <<endpoints, key, unmoved, manifests>>

(* validate_results: a score for every member, and co-signers among those    *)
(* who did not submit.                                                       *)
ValidateResults(l, scored, signers) ==
    scored = l.roster /\ signers \subseteq l.roster \ {l.election.winner}

(* submit_results by the last authority, which ends the match.               *)
SubmitResults ==
    LET l == Maintained(lobby)
    IN  /\ l.state = "InMatch" /\ l.election # NoElection
        /\ \E scored, signers \in SUBSET Player : ValidateResults(l, scored, signers)
        /\ lobby' = [l EXCEPT !.state = "Closed"]
        /\ UNCHANGED <<endpoints, key, unmoved, reign, manifests>>

(* delete_lobby forgets registrations and the signing key with the lobby.    *)
DeleteLobby ==
    /\ lobby.state # "Closed"
    /\ lobby' = [Maintained(lobby) EXCEPT !.state = "Closed"]
    /\ endpoints' = NoEndpoints /\ key' = key + 1
    /\ UNCHANGED <<unmoved, reign, manifests>>

(* apply_time_transitions: idle, absolute or start deadline.                 *)
TimeOut ==
    /\ lobby.state # "Closed"
    /\ lobby' = [Unelected(lobby) EXCEPT !.state = "Closed"]
    /\ UNCHANGED <<endpoints, key, unmoved, reign, manifests>>

-----------------------------------------------------------------------------
(* Fault: the generation of a running match survives the key.                *)
RestartedGenerationKept(l) == l

(* reconcile_startup: a running match moves to another session generation,   *)
(* because the key that signed the last one is gone.                         *)
RestartedGeneration(l) ==
    IF l.generation > 0 /\ l.state \in {"Starting", "InMatch"}
    THEN [l EXCEPT !.generation = @ + 1] ELSE l

(* The process restarts; the new generation may fail to be stored.  Then     *)
(* reconcile_startup answers FALSE and real creation stays closed, but main  *)
(* ignores the answer and the match goes on in the generation it was in.     *)
Restart(saved) ==
    /\ lobby.state # "Closed" /\ key < MaxGeneration /\ lobby.generation < MaxGeneration
    /\ lobby' = IF saved THEN RestartedGeneration(lobby) ELSE lobby
    /\ ~saved => RestartedGeneration(lobby) # lobby
    /\ unmoved' = IF saved THEN unmoved ELSE unmoved \cup {lobby.generation}
    /\ endpoints' = NoEndpoints /\ key' = key + 1
    /\ UNCHANGED <<reign, manifests>>

(* Time passes: a report, the members, the registrations or the authority    *)
(* age.  Nothing reads the age of a report once the match started.           *)
GoStale(p) ==
    /\ p \in lobby.fresh /\ lobby.state \in {"Forming", "Ready"}
    /\ lobby' = [lobby EXCEPT !.fresh = @ \ {p}]
    /\ UNCHANGED <<endpoints, key, unmoved, reign, manifests>>

Settle ==
    /\ lobby.roster \ lobby.settled # {} /\ lobby.state \in {"Forming", "Ready"}
    /\ lobby' = [lobby EXCEPT !.settled = @ \cup lobby.roster]
    /\ UNCHANGED <<endpoints, key, unmoved, reign, manifests>>

RegistrationsExpire ==
    /\ endpoints # NoEndpoints /\ lobby.state # "Closed"
    /\ endpoints' = NoEndpoints
    /\ UNCHANGED <<lobby, key, unmoved, reign, manifests>>

FallSilent ==
    /\ lobby.state \in {"Starting", "InMatch"} /\ ~lobby.silent
    /\ lobby' = [lobby EXCEPT !.silent = TRUE]
    /\ UNCHANGED <<endpoints, key, unmoved, reign, manifests>>

Next ==
    \/ \E p \in Player :
          \/ Join(p) \/ Leave(p) \/ RegisterSessionEndpoint(p)
          \/ GoStale(p) \/ SuccessorHeartbeat(p)
          \/ \E s \in Sample : SubmitMeasurements(p, s)
    \/ GetLobby \/ ElectLobbyAuthority \/ StartLobby
    \/ CurrentHeartbeat \/ SubmitResults \/ DeleteLobby \/ TimeOut
    \/ \E saved \in BOOLEAN : Restart(saved)
    \/ Settle \/ RegistrationsExpire \/ FallSilent

Spec == Init /\ [][Next]_vars
-----------------------------------------------------------------------------
(* An authority epoch names one election, the same winner from the same      *)
(* input, whatever joins, leaves, stale reports and successions come between *)
(* two elections.                                                            *)
EpochNamesOneElection == reign' # reign => reign'.epoch > reign.epoch

(* A lobby that is READY has an election over exactly its current roster and *)
(* the reports it holds.                                                     *)
ReadyIsElected ==
    lobby.state = "Ready" =>
        /\ lobby.election.winner \in lobby.roster
        /\ DOMAIN lobby.election.matrix = lobby.roster
        /\ lobby.roster \subseteq lobby.measured
        /\ \A p \in lobby.roster : lobby.election.matrix[p].sample = lobby.reports[p]

(* In a match the authority was a candidate of the match-start election and  *)
(* nobody is in the roster who was not.                                      *)
MatchKeepsItsMatrix ==
    lobby.state \in {"Starting", "InMatch"} =>
        /\ lobby.roster \subseteq DOMAIN lobby.locked.matrix
        /\ lobby.election # NoElection =>
              lobby.election.winner \in DOMAIN lobby.locked.matrix \cap lobby.roster

(* The order each peer binds from the match-start election elects, of any    *)
(* survivors, the successor the service would accept (the locked election    *)
(* does not change after the start).                                         *)
PeersElectAsTheService ==
    lobby.state = "Starting" =>
        LET m     == lobby.locked.matrix
            order == MigrationOrder(m, ServiceMajor, Cardinality(DOMAIN m))
        IN  \A s \in SUBSET DOMAIN m \ {{}} :
               FirstOf(order, s) = SuccessorElection(lobby, s).winner

(* "A process restart must therefore move every active signed session into a *)
(* fresh replay domain before a new key can be pinned": the manifests of any *)
(* generation, past or current, are signed by one key, through starts,       *)
(* restarts, deletions and registrations.  The one exception the code makes: *)
(* a restart that could not store the move leaves the match where it was and *)
(* goes on serving it, so that this generation gets another key.             *)
OneKeyPerGeneration ==
    \A m, n \in manifests : m.generation = n.generation /\ m.key # n.key
                            => m.generation \in unmoved

(* Within a match the authority changes only after its silence, to a member  *)
(* of the roster, in the next epoch.                                         *)
SuccessionAfterSilence ==
    lobby.state = "InMatch" /\ lobby'.state = "InMatch"
    /\ lobby'.election.winner \notin {0, lobby.election.winner}
    => lobby.silent /\ lobby'.epoch = lobby.epoch + 1
       /\ lobby'.election.winner \in lobby'.roster
=============================================================================
