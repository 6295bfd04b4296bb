--------------------------- MODULE LobbyInspection --------------------------
(* A lobby under inspection (service.rs): participants read its network view *)
(* without the lobby lock while requests change the record, a worker polls   *)
(* the provider for the devices enrolled and a teardown invalidates what was *)
(* observed before it.  The record's states are those LobbyNetwork derives;  *)
(* here each write appears with the times it stores.                         *)
EXTENDS NetworkView

CONSTANTS
    Member,     \* players
    Mode,       \* provisioning modes: "dedicated", "shared", "dry"
    Report,     \* [direct, relay, derp]: the routes a participant reports
    Failure,    \* how a refresh may fail: "permission_denied", "timeout", ...
    MaxClock    \* bound on time

VARIABLES
    stored,     \* the record
    cache,      \* provider_observations
    waiting,    \* refreshes that wait for the observation lock, by the time they read
    poll,       \* the refresh that holds it
    teardown,   \* cleanup_resources holds it
    clock

vars == <<stored, cache, waiting, poll, teardown, clock>>

NoSample == [direct |-> 0, relay |-> 0, derp |-> 0, at |-> None]
NoObservation == [count |-> 0, succeeded |-> None, failed |-> None, failure |-> "none",
                  asked |-> None, taken |-> None]
NoPoll == [began |-> None, asked |-> None, answer |-> "none", taken |-> None]

Init ==
    /\ \E mode \in Mode :
       stored = [mode |-> mode, lifecycle |-> IF mode = "dry" THEN "Simulated" ELSE "Reserved",
                 identity |-> None, requested |-> None, acknowledged |-> None, absent |-> None,
                 roster |-> Member, reports |-> [p \in Member |-> NoSample],
                 election |-> None, heartbeat |-> None, gated |-> FALSE, abandoned |-> FALSE]
    /\ cache = NoObservation /\ waiting = {} /\ poll = NoPoll /\ teardown = FALSE /\ clock = 1

Writes(r) == stored' = r /\ UNCHANGED <<cache, waiting, poll, teardown, clock>>

Or(at) == IF at = None THEN clock ELSE at

-----------------------------------------------------------------------------
(* The writes of create_lobby_impl.                                          *)
CreateLobby ==
    \/ stored.lifecycle = "Reserved" /\ Writes([stored EXCEPT !.lifecycle = "Creating"])
    \/ /\ stored.lifecycle = "Creating"
       /\ \E r \in {[stored EXCEPT !.lifecycle = "Active", !.identity = clock],
                    [stored EXCEPT !.lifecycle = "CreateRejected"],
                    [stored EXCEPT !.lifecycle = "CreateUnknown"],
                    [stored EXCEPT !.lifecycle = "ManualRemediation", !.identity = clock],
                    [stored EXCEPT !.lifecycle = "CleanupPending", !.identity = clock,
                                   !.requested = clock],
                    [stored EXCEPT !.lifecycle = "VerifyingAbsence", !.identity = clock,
                                   !.requested = clock, !.acknowledged = clock]} :
             (stored.mode = "shared" => r.lifecycle \in {"Active", "CreateRejected"}) /\ Writes(r)

Playing == stored.lifecycle \in {"Active", "Simulated"}

(* join_lobby when the provider cannot mint: cleanup is pending, and only a  *)
(* failed policy gate says since when.                                       *)
MintFails ==
    /\ stored.lifecycle = "Active"
    /\ \E r \in {[stored EXCEPT !.lifecycle = "CleanupPending", !.abandoned = TRUE],
                 [stored EXCEPT !.lifecycle = "CleanupPending", !.requested = clock, !.gated = TRUE],
                 [stored EXCEPT !.lifecycle = "VerifyingAbsence", !.requested = clock,
                                !.acknowledged = clock, !.gated = TRUE],
                 [stored EXCEPT !.lifecycle = "ManualRemediation"]} :
          (stored.mode = "shared" => ~r.gated) /\ Writes(r)

(* submit_measurements: validated against the size of the roster.            *)
SubmitMeasurements(p, s) ==
    /\ Playing /\ p \in stored.roster
    /\ s.direct + s.relay + s.derp < Cardinality(stored.roster)
    /\ Writes([stored EXCEPT !.reports[p] = [s EXCEPT !.at = clock], !.election = clock])

(* leave_lobby: what was measured between the members is void.               *)
Left(r, p) ==
    [r EXCEPT !.roster = @ \ {p}, !.reports = [q \in Member |-> NoSample], !.election = None]

LeaveLobby(p) == Playing /\ p \in stored.roster /\ Writes(Left(stored, p))

Heartbeat == Playing /\ stored.election # None /\ Writes([stored EXCEPT !.heartbeat = clock])

(* load_maintained_lobby and reconcile_startup: the child secret is gone.    *)
AccessLost ==
    /\ stored.mode = "dedicated"
    /\ stored.lifecycle \in {"Creating", "Active", "CleanupRequested", "CleanupPending"}
    /\ Writes([stored EXCEPT !.lifecycle = "ManualRemediation"])

-----------------------------------------------------------------------------
(* Fault: the observations stay.                                             *)
ForgottenNever(r, o) == o

(* The first cleanup forgets every observation and report from before it.    *)
Forgotten(r, o) == IF r.requested = None THEN NoObservation ELSE o

Voided(r) == IF r.requested = None THEN [r EXCEPT !.reports = [p \in Member |-> NoSample]] ELSE r

(* cleanup_resources up to the provider call, under the observation lock.  A *)
(* simulated lobby has nothing to delete; an operator's lobby stays one; any *)
(* other record, a rejected creation included, writes its intent.            *)
BeginCleanup ==
    /\ ~teardown /\ poll = NoPoll
    /\ stored.lifecycle \notin {"DedicatedAbsent", "SharedResourcesClean", "VerifyingAbsence"}
    /\ cache' = Forgotten(stored, cache)
    /\ \/ /\ stored.mode = "dry"
          /\ stored' = Voided(stored) /\ UNCHANGED teardown
       \/ /\ stored.mode = "dedicated"
          /\ stored.lifecycle \in {"CreateUnknown", "ManualRemediation"}
          /\ stored' = [Voided(stored) EXCEPT !.lifecycle = "ManualRemediation"]
          /\ UNCHANGED teardown
       \/ /\ stored.mode # "dry"
          /\ ~(stored.mode = "dedicated" /\ stored.lifecycle \in {"CreateUnknown", "ManualRemediation"})
          /\ stored' = [Voided(stored) EXCEPT !.lifecycle = "CleanupRequested", !.requested = Or(@)]
          /\ teardown' = TRUE
    /\ UNCHANGED <<waiting, poll, clock>>

(* The provider's answer to the deletion, or the failed write of the intent, *)
(* apply_cleanup_result and the last write of the handler.                   *)
FinishCleanup ==
    /\ teardown /\ teardown' = FALSE
    /\ stored' \in
          {[stored EXCEPT !.lifecycle = "CleanupPending"],
           [stored EXCEPT !.lifecycle = "ManualRemediation"]} \cup
          IF stored.mode = "shared" THEN {[stored EXCEPT !.lifecycle = "SharedResourcesClean"]}
          ELSE {[stored EXCEPT !.lifecycle = "VerifyingAbsence", !.acknowledged = Or(@)]}
    /\ UNCHANGED <<cache, waiting, poll, clock>>

(* reconcile_dedicated_absence: the confirmed absence is stored first, the   *)
(* child secret erased next, and only then the lifecycle follows; a listing  *)
(* that shows the tailnet again, or a restart, takes the confirmation back.  *)
ReconcileAbsence ==
    /\ ~teardown /\ poll = NoPoll /\ stored.lifecycle = "VerifyingAbsence"
    /\ \/ stored.absent = None /\ Writes([stored EXCEPT !.absent = clock])
       \/ stored.absent # None /\ Writes([stored EXCEPT !.lifecycle = "DedicatedAbsent"])
       \/ stored.absent # None /\ Writes([stored EXCEPT !.absent = None])
       \/ Writes([stored EXCEPT !.lifecycle = "ManualRemediation"])

-----------------------------------------------------------------------------
(* refresh_network_observation reads the clock and then waits for the lock:  *)
(* a teardown, or a refresh called later, may come first.                    *)
Refresh ==
    /\ waiting' = waiting \cup {clock}
    /\ UNCHANGED <<stored, cache, poll, teardown, clock>>

(* refresh_network_observation_at has the lock: it returns where there is    *)
(* nothing to observe, and asks the provider otherwise.                      *)
BeginPoll(began) ==
    /\ began \in waiting /\ poll = NoPoll /\ ~teardown
    /\ waiting' = waiting \ {began}
    /\ poll' = IF stored.mode # "dry" /\ stored.lifecycle \in Cleaning /\ stored.identity # None
               THEN [began |-> began, asked |-> clock, answer |-> "none", taken |-> None]
               ELSE NoPoll
    /\ UNCHANGED <<stored, cache, teardown, clock>>

(* observe_network answers, fails (observation_failure) or times out.        *)
ProviderAnswers ==
    /\ poll # NoPoll /\ poll.answer = "none"
    /\ \E a \in {"count"} \cup Failure :
          poll' = [poll EXCEPT !.answer = a, !.taken = clock]
    /\ UNCHANGED <<stored, cache, waiting, teardown, clock>>

(* CachedProviderObservation::success and ::failed, stamped with the time    *)
(* the refresh was called.                                                   *)
Success(p) ==
    [count |-> 1, succeeded |-> p.began, failed |-> None, failure |-> "none",
     asked |-> p.asked, taken |-> p.taken]

Failed(o, p) == [o EXCEPT !.failed = p.began, !.failure = p.answer]

(* The record is read again before anything is cached.                       *)
CacheObservation ==
    /\ poll # NoPoll /\ poll.answer # "none" /\ poll' = NoPoll
    /\ cache' = CASE stored.lifecycle \notin Cleaning -> cache
                  [] stored.lifecycle \in Cleaning /\ poll.answer = "count" -> Success(poll)
                  [] OTHER -> Failed(cache, poll)
    /\ UNCHANGED <<stored, waiting, teardown, clock>>

Tick ==
    /\ clock < MaxClock /\ clock' = clock + 1
    /\ UNCHANGED <<stored, cache, waiting, poll, teardown>>

Next ==
    \/ CreateLobby \/ MintFails \/ Heartbeat \/ AccessLost
    \/ \E p \in Member : LeaveLobby(p) \/ \E s \in Report : SubmitMeasurements(p, s)
    \/ BeginCleanup \/ FinishCleanup \/ ReconcileAbsence
    \/ Refresh \/ (\E began \in waiting : BeginPoll(began))
    \/ ProviderAnswers \/ CacheObservation \/ Tick

Spec == Init /\ [][Next]_vars
-----------------------------------------------------------------------------
(* get_lobby_network_inner reads its clock first, then the record and the    *)
(* cache, and answers with a view that is valid.                             *)
Answers(now) == Buildable(stored, now) /\ ValidView(BuildView(stored, cache, now))

(* A GET is answered from every state of the record, whatever it races with, *)
(* except: a write between its clock and its read was stamped with a later   *)
(* time; a join that could not mint left a cleanup that nobody requested; or *)
(* an absence is confirmed and the secret not erased yet.                    *)
InspectionAnswers ==
    \A now \in 1 .. clock :
        \/ \E at \in {stored.identity, stored.election, stored.heartbeat,
                     cache.succeeded, cache.failed} : at > now
        \/ stored.abandoned /\ stored.requested = None
        \/ stored.lifecycle = "VerifyingAbsence" /\ stored.absent # None
        \/ Answers(now)

(* A device count shown as fresh was taken at the provider within the        *)
(* freshness window, however long its refresh waited for the lock, for the   *)
(* provider and behind other refreshes.  (Freshness is said to use the time  *)
(* the poll completed; the code uses the time the refresh was called, so a   *)
(* count is never older than it is shown to be.)                             *)
FreshCountIsRecent ==
    EnrollmentFact(cache, clock).freshness = "fresh" => clock - cache.taken < DeviceWindow

(* "A poll that started before teardown cannot repopulate the cache          *)
(* afterward": a device count on record for a network being torn down was    *)
(* asked of the provider after the request, whatever time it is stamped      *)
(* with, unless a policy gate requested the teardown.                        *)
NothingOutlivesTeardown ==
    stored.requested # None /\ cache.succeeded # None
    => stored.gated \/ cache.asked >= stored.requested
=============================================================================
