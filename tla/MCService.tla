------------------------------ MODULE MCService ------------------------------
(***************************************************************************)
(* The components around the peer session, each on a small instance of its *)
(* own: the lobby service (match, admission, store, inspection, request    *)
(* budget), the native client, the custody of child credentials, the       *)
(* protected broker, the replication of riders, the binding of a session   *)
(* to its lobby and the mounted horse.  They share no state here: a        *)
(* behaviour picks one component and runs it in the variables v1..v10, and *)
(* a property speaks about the component it names.                         *)
(***************************************************************************)
EXTENDS Integers

CONSTANT Components   \* the components explored

VARIABLES component, v1, v2, v3, v4, v5, v6, v7, v8, v9, v10

vars == <<component, v1, v2, v3, v4, v5, v6, v7, v8, v9, v10>>

-----------------------------------------------------------------------------
\* The data of the instances.

Relayed == [direct |-> 0, relay |-> 1, derp |-> 0, observed |-> 1, median |-> 100, worst |-> 200,
            jitter |-> 5, loss |-> 0, upload |-> 10, device |-> 500]
Lossy == [Relayed EXCEPT !.direct = 1, !.relay = 0, !.loss = 6000]

Direct == [direct |-> 1, relay |-> 0, derp |-> 0, at |-> 0]

Caller(ip, actor) == [ip |-> ip, actor |-> actor]

Wide == [wide |-> TRUE, lobby |-> 0, generation |-> 0]
Scoped == [wide |-> FALSE, lobby |-> 1, generation |-> 1]

Riding == [pose |-> 1, health |-> 1, horse |-> "Available", recall |-> "HorsePresent", ready |-> 0]
OnFoot == [pose |-> 2, health |-> 0, horse |-> "Despawned", recall |-> "CoolingDown", ready |-> 1]

Mustang == [walk |-> 2, trot |-> 3, gallop |-> 4, sprint |-> 5, accel |-> 2, brake |-> 2,
            hardBrake |-> 3, coast |-> 1, reverse |-> 1, sidestep |-> 1, floor |-> <<1, 2, 3>>]
Rows == [Mustang |-> Mustang,
         Warhorse |-> [Mustang EXCEPT !.trot = 2, !.gallop = 3, !.sprint = 4, !.hardBrake = 2]]
Still == [throttle |-> 0, back |-> "up", steer |-> 0, hard |-> FALSE, gait |-> "none",
          jump |-> FALSE, reset |-> FALSE]
Inputs == {Still, [Still EXCEPT !.throttle = 1], [Still EXCEPT !.steer = 1],
           [Still EXCEPT !.back = "press"], [Still EXCEPT !.hard = TRUE, !.steer = 1],
           [Still EXCEPT !.throttle = 1, !.jump = TRUE], [Still EXCEPT !.reset = TRUE]}
Level == [steep |-> FALSE, camber |-> FALSE, downhill |-> 0, percent |-> 100, slope |-> "level"]
Grounds == {Level, [Level EXCEPT !.camber = TRUE, !.percent = 50, !.slope = "down"],
            [Level EXCEPT !.steep = TRUE, !.camber = TRUE, !.downhill = -1, !.slope = "up"]}

-----------------------------------------------------------------------------
\* The components.

Match == INSTANCE LobbyMatch
    WITH lobby <- v1, endpoints <- v2, key <- v3, unmoved <- v4, reign <- v5,
         manifests <- v6,
         Player <- {1, 2, 3}, Formed <- {{1, 2}, {1, 2, 3}}, Sample <- {Relayed, Lossy}, MaxPlayers <- 3,
         ServiceMajor <- 1, ClientMajor <- 2, MaxRevision <- 3, MaxReports <- 3, MaxEpoch <- 2,
         MaxGeneration <- 2

Admission == INSTANCE LobbyAdmission
    WITH admission <- v1, join <- v2, issued <- v3, keys <- v4, dead <- v5, spent <- v6,
         leaving <- v7, dropped <- v8, lapsed <- v9,
         Rider <- {1, 2}, Invitation <- {1, 2}, Capacity <- 2, AttemptLimit <- 2, MaxIssued <- 2

\* One rider that comes again and again.
Rejoin == INSTANCE LobbyAdmission
    WITH admission <- v1, join <- v2, issued <- v3, keys <- v4, dead <- v5, spent <- v6,
         leaving <- v7, dropped <- v8, lapsed <- v9,
         Rider <- {1}, Invitation <- {1, 2, 3}, Capacity <- 1, AttemptLimit <- 2, MaxIssued <- 3

Store == INSTANCE LobbyStore
    WITH memory <- v1, disk <- v2, up <- v3, made <- v4, work <- v5, reached <- v6,
         Key <- {1, 2}, Grant <- {1}, MaxMade <- 2

Inspection == INSTANCE LobbyInspection
    WITH stored <- v1, cache <- v2, poll <- v3, teardown <- v4, clock <- v5, waiting <- v6,
         Member <- {1, 2}, Mode <- {"dedicated", "shared", "dry"}, Failure <- {"timeout"},
         Report <- {Direct}, ReportWindow <- 1, DeviceWindow <- 1, ElectionWindow <- 1,
         MaxClock <- 2

Budget == INSTANCE RequestBudget
    WITH wall <- v1, time <- v2, charged <- v3, accepted <- v4,
         Callers <- {Caller(1, 1), Caller(2, 1), Caller(2, 2)}, GlobalLimit <- 3, CallerLimit <- 2,
         RouteLimit <- 1, Window <- 2, RouteWindow <- 3, MaxTime <- 4, MaxRequests <- 4

(* The client's lobbies and codes with one worker, and its workers with joins only. *)
Client == INSTANCE NativeClient
    WITH main <- v1, shell <- v2, lobby <- v3, clipboard <- v4, unreliable <- v5,
         requests <- v6, channel <- v7, peer <- v8, workers <- v9, counts <- v10,
         MaxGeneration <- 2, MaxRequests <- 2, MaxLobbies <- 1, MaxCodes <- 1, MaxWorkers <- 1,
         MaxFrames <- 0, MaxEvents <- 1

Peers == INSTANCE NativeClient
    WITH main <- v1, shell <- v2, lobby <- v3, clipboard <- v4, unreliable <- v5,
         requests <- v6, channel <- v7, peer <- v8, workers <- v9, counts <- v10,
         MaxGeneration <- 2, MaxRequests <- 2, MaxLobbies <- 0, MaxCodes <- 0, MaxWorkers <- 2,
         MaxFrames <- 1, MaxEvents <- 1

Custody == INSTANCE ChildCustody
    WITH gate <- v1, file <- v2, image <- v3, cache <- v4, calls <- v5, reads <- v6,
         tailnets <- v7, known <- v8, erased <- v9,
         Lobby <- {1, 2}, Generation <- {1, 2}, Gates <- {Wide, Scoped}, MaxTailnets <- 2

Broker == INSTANCE ProtectedBroker
    WITH clock <- v1, lease <- v2, worker <- v3, calls <- v4, broker <- v5, handlers <- v6,
         effects <- v7, runs <- v8, clean <- v9,
         InitialEpoch <- 1, MaxCalls <- 2, MaxOpen <- 2, MaxRestarts <- 1

Replication == INSTANCE ActorReplication
    WITH sources <- v1, net <- v2, truth <- v3, follower <- v4, rider <- v5, projections <- v6,
         Snapshot <- {Riding, OnFoot}, FragmentCount <- 2, KeyframeTicks <- 3,
         InterpolationTicks <- 1, MaxExtrapolationTicks <- 2, SnapTicks <- 0, Capacity <- 2,
         MaxTick <- 2, MaxEpoch <- 2, MaxReprojections <- 1, MaxEnvelopes <- 4

Binding == INSTANCE SessionBinding
    WITH service <- v1, requests <- v2, answers <- v3, shell <- v4, peer <- v5, keys <- v6,
         latest <- v7, Roster <- {{1, 2}, {1, 2, 3}}, MaxGeneration <- 3, MaxRevision <- 2, MaxKeys <- 4,
         MaxAnswers <- 2, MaxSequence <- 3, MaxRegistrations <- 2

Horse == INSTANCE HorseLocomotion
    WITH horse <- v1, setup <- v2, body <- v3, control <- v4, seen <- v5,
         Row <- Rows, Input <- Inputs, Ground <- Grounds, Buff <- [respawn |-> 125, station |-> 110],
         Coyote <- 2, Buffer <- 2, Recovery <- 2, ReverseHold <- 2, DownshiftDelay <- 2,
         TapWindow <- 2, SidestepLimit <- 1, SlideSpeed <- 1, DownhillBonus <- 20,
         UphillPercent <- 50, MaxTicks <- 3, MaxChanges <- 1

-----------------------------------------------------------------------------
\* A component uses the first variables; the others stay 0.

Init ==
    \/ component = "match" /\ component \in Components /\ Match!Init
       /\ v7 = 0 /\ v8 = 0 /\ v9 = 0 /\ v10 = 0
    \/ component = "admission" /\ component \in Components /\ Admission!Init
       /\ v10 = 0
    \/ component = "rejoin" /\ component \in Components /\ Rejoin!Init
       /\ v10 = 0
    \/ component = "store" /\ component \in Components /\ Store!Init
       /\ v7 = 0 /\ v8 = 0 /\ v9 = 0 /\ v10 = 0
    \/ component = "inspection" /\ component \in Components /\ Inspection!Init
       /\ v7 = 0 /\ v8 = 0 /\ v9 = 0 /\ v10 = 0
    \/ component = "budget" /\ component \in Components /\ Budget!Init
       /\ v5 = 0 /\ v6 = 0 /\ v7 = 0 /\ v8 = 0 /\ v9 = 0 /\ v10 = 0
    \/ component = "client" /\ component \in Components /\ Client!Init
    \/ component = "peers" /\ component \in Components /\ Peers!Init
    \/ component = "custody" /\ component \in Components /\ Custody!Init
       /\ v10 = 0
    \/ component = "broker" /\ component \in Components /\ Broker!Init
       /\ v10 = 0
    \/ component = "replication" /\ component \in Components /\ Replication!Init
       /\ v7 = 0 /\ v8 = 0 /\ v9 = 0 /\ v10 = 0
    \/ component = "binding" /\ component \in Components /\ Binding!Init
       /\ v8 = 0 /\ v9 = 0 /\ v10 = 0
    \/ component = "horse" /\ component \in Components /\ Horse!Init
       /\ v6 = 0 /\ v7 = 0 /\ v8 = 0 /\ v9 = 0 /\ v10 = 0

Next ==
    /\ UNCHANGED component
    /\ \/ component = "match" /\ Match!Next /\ UNCHANGED <<v7, v8, v9, v10>>
       \/ component = "admission" /\ Admission!Next /\ UNCHANGED v10
       \/ component = "rejoin" /\ Rejoin!Next /\ UNCHANGED v10
       \/ component = "store" /\ Store!Next /\ UNCHANGED <<v7, v8, v9, v10>>
       \/ component = "inspection" /\ Inspection!Next /\ UNCHANGED <<v7, v8, v9, v10>>
       \/ component = "budget" /\ Budget!Next /\ UNCHANGED <<v5, v6, v7, v8, v9, v10>>
       \/ component = "client" /\ Client!Next
       \/ component = "peers" /\ Peers!Next
       \/ component = "custody" /\ Custody!Next /\ UNCHANGED <<v10>>
       \/ component = "broker" /\ Broker!Next /\ UNCHANGED <<v10>>
       \/ component = "replication" /\ Replication!Next /\ UNCHANGED <<v7, v8, v9, v10>>
       \/ component = "binding" /\ Binding!Next /\ UNCHANGED <<v8, v9, v10>>
       \/ component = "horse" /\ Horse!Next /\ UNCHANGED <<v6, v7, v8, v9, v10>>

Spec == Init /\ [][Next]_vars

-----------------------------------------------------------------------------
\* The properties, each of its component.

(* The authority a lobby names follows from what its peers measured: a       *)
(* lobby that is READY has an election over exactly its roster and the       *)
(* reports it holds; in a match the authority was a candidate of the         *)
(* match-start election and nobody is in the roster who was not; and the     *)
(* order each peer binds from that election elects, of any survivors, the    *)
(* successor the service would accept (recompute_authority, start_lobby).    *)
MatchFollowsElection ==
    component = "match" =>
        /\ Match!ReadyIsElected /\ Match!MatchKeepsItsMatrix
        /\ Match!PeersElectAsTheService

(* "A process restart must therefore move every active signed session into a *)
(* fresh replay domain before a new key can be pinned": the manifests of any *)
(* generation are signed by one key, through starts, restarts, deletions and *)
(* registrations, except for a generation a restart could not move the match *)
(* on from, its write having failed: that match is served on, under a second *)
(* key (reconcile_startup, session_projection).                              *)
OneKeyPerGeneration == component = "match" => Match!OneKeyPerGeneration

(* An authority epoch names one election, the same winner from the same      *)
(* input, whatever joins, leaves, stale reports and successions come between *)
(* two elections; within a match the authority changes only after its        *)
(* silence, to a member of the roster, in the next epoch.                    *)
AuthorityMovesOn ==
    [][component = "match" =>
          Match!EpochNamesOneElection /\ Match!SuccessionAfterSilence]_vars

(* "A prior credential issuance has an ambiguous outcome; retry after its    *)
(* expiry": through hang-ups, crashes and timeouts between reservation and   *)
(* record a player holds at most one live key whose record stands, and       *)
(* beside it at most one that outlasts its record, the provider counting the *)
(* key's life from a later instant; only a player that left with an issuance *)
(* in doubt may hold more.  A one-use invitation pays for one issuance,      *)
(* whatever becomes of it.  Every live key is the credential of a member, an *)
(* issuance on record as in doubt, one that outlasts its record, or belongs  *)
(* to a lobby with cleanup pending (join_lobby, leave_lobby).                *)
KeysAreAccountedFor ==
    /\ component = "admission" => Admission!KeysAreAccountedFor
    /\ component = "rejoin" => Rejoin!KeysAreAccountedFor

(* Through retries, purges, lost writes and restarts of the store: a grant   *)
(* or a receipt pays for one creation at the provider; whoever has no        *)
(* release proof holds the lease, unless real creation is quarantined; of    *)
(* one idempotency key no second lobby is made within 24 hours while the     *)
(* first is on record; and reopening any image left behind quarantines       *)
(* nothing, since the lease on file is the one the records call for.         *)
StoreKeepsAdmission == component = "store" => Store!StoreKeepsAdmission

(* What GET network shows is true whatever it races with.  It is answered    *)
(* from every state of the record, except: a write between its clock and its *)
(* read was stamped with a later time; a join that could not mint left a     *)
(* cleanup that nobody requested; or an absence is confirmed and the secret  *)
(* not erased yet.  A device count shown as fresh was taken at the provider  *)
(* within the freshness window, however long its refresh waited.  "A poll    *)
(* that started before teardown cannot repopulate the cache afterward",      *)
(* unless a policy gate requested the teardown.                              *)
InspectionIsTrue ==
    component = "inspection" =>
        /\ Inspection!InspectionAnswers /\ Inspection!FreshCountIsRecent
        /\ Inspection!NothingOutlivesTeardown

(* However the clock is set back, no window of real time holds more accepted *)
(* requests than the budget of the deployment, of a client address or of an  *)
(* actor allows, and none of creations or joins more than its route's.       *)
BudgetHolds == component = "budget" => Budget!BudgetHolds

(* Nothing of a cancelled session takes part in the next one: capabilities,  *)
(* remembered codes and, outside a reset, workers are of this generation,    *)
(* except a worker that was replaced; two embedded peers may overlap, but    *)
(* only the newest, the one a reset waits for, is sent frames and heard;     *)
(* "connected" means that the current worker runs or that the event of its   *)
(* end is still to be polled, unless the OS refused a thread since; and a    *)
(* one-use code stays on the clipboard only while the client remembers it,   *)
(* unless a helper process failed (cancel, poll_events, _on_joined).         *)
SessionsDoNotMix ==
    /\ component = "client" =>
          /\ Client!SessionsDoNotMix /\ Client!OneWorker
          /\ Client!ConnectionIsTrue /\ Client!CodesAreTracked
    /\ component = "peers" =>
          /\ Peers!SessionsDoNotMix /\ Peers!OneWorker
          /\ Peers!ConnectionIsTrue /\ Peers!CodesAreTracked

(* A tailnet that was handed to the service stays reachable: after any       *)
(* failed write, and after a restart at any point, the vault holds the exact *)
(* secret or the exact receipt of its erasure, never neither, and a cached   *)
(* client is the one in the file or the one erased there; a live tailnet is  *)
(* never reported as child_secret_unavailable.  An acknowledged erasure is   *)
(* final: no later write brings the secret back into the file or the image   *)
(* in memory, and a client that an observation caches late is of a tailnet   *)
(* that is gone (put_if_absent, delete_cas, child_access).                   *)
CustodyIsKept ==
    component = "custody" =>
        Custody!CustodyIsKept /\ Custody!ErasureIsFinal /\ Custody!CacheIsCustody

(* The Lease fences the provider, whatever was cancelled, lost or restarted  *)
(* meanwhile: every provider mutation has a lease epoch of its own, reserved *)
(* before it is made, so no frame is carried out twice; as long as every     *)
(* call was answered and none is open, the worker's number and its view of   *)
(* the Lease are the broker's; and once the Lease is released the provider   *)
(* is left alone, also by a frame that was on its way before.                *)
EffectsAreFenced ==
    [][component = "broker" =>
          /\ Broker!EffectsHaveTheirEpoch' /\ Broker!ChannelAgrees'
          /\ Broker!ReleasedIsQuiet]_vars

(* Whatever was lost, repeated, overtaken or projected anew, the actor a     *)
(* follower shows is one its authority published at that tick: a delta is    *)
(* never put on another keyframe, nor on one of another epoch.  Within an    *)
(* epoch neither the actor nor the score goes back in time.  The stance      *)
(* shown is that of the newest snapshot at or before the render tick, and    *)
(* the render clock never runs away from the snapshots, in either direction  *)
(* (accept_authenticated, M3ActorSnapshotDelta::apply, SnapshotBuffer).      *)
RidersAreShownAsPublished ==
    [][component = "replication" =>
          /\ Replication!SnapshotIsPublished' /\ Replication!StanceIsDiscrete'
          /\ Replication!RenderStaysNear' /\ Replication!NothingRewinds]_vars

(* However late the answers are, an installed session is the one the rider   *)
(* can sign for: its manifest names the key the client holds, for the        *)
(* generation the key was drawn for, and the roster the match runs with.  An *)
(* answer overtaken by a restart or a start never brings back a session of   *)
(* an earlier generation than was ever installed, although the client        *)
(* follows its generation back and forth.  A further projection of the       *)
(* installed manifest leaves the replay state alone: no sequence number is   *)
(* signed twice, none accepted twice (generate_session_key,                  *)
(* configure_secure_session).                                                *)
SessionsAreBound ==
    [][component = "binding" =>
          /\ Binding!InstalledIsBound'
          /\ Binding!GenerationMovesOn /\ Binding!ProjectionKeepsReplay]_vars

(* A jump answers a press of its own no older than the buffer and leaves a   *)
(* floor contact (or a respawn) of its own no older than the coyote time,    *)
(* however presses, bumps and respawns interleave; a sidestep starts only    *)
(* when the horse has stood for the landing recovery.  The horse is never    *)
(* faster than some cap in force since its last change of archetype, and     *)
(* while sideways speed settles it gains no forward speed except by sliding  *)
(* downhill (HorseKernel::step, resolve_motion).                             *)
MotionIsEarned ==
    [][component = "horse" =>
          /\ Horse!JumpsAreEarned' /\ Horse!SpeedIsEarned'
          /\ Horse!NoDiagonalLaunch]_vars
==============================================================================
