---------------------------- MODULE LobbyNetwork ----------------------------
(***************************************************************************)
(* The network of a real lobby, from its reservation to the proof that it  *)
(* is gone (spurfire-server/src/service.rs, store.rs, provider.rs): the    *)
(* lobby record and the singleton lease in the JSON store, the handlers    *)
(* that create, close and clean up under the lobby's lock, the provider's  *)
(* tailnet and the vault's child secret, crashes, cancelled requests and   *)
(* failed writes.                                                          *)
(*                                                                         *)
(* Two deployments build this state.  AppState::new wraps the provider     *)
(* itself.  The protected alpha worker (Brokered) reaches it through the   *)
(* broker, which keeps the cause of an error to itself; it serves one      *)
(* lobby, and a launcher tells it when to clean up.                        *)
(***************************************************************************)
EXTENDS Naturals, FiniteSets

CONSTANTS
    Lobby,      \* lobby ids, each with the grant or receipt that admits it once
    NoLobby,    \* nobody holds the lease
    Deployment, \* how a process may reach the provider: "direct" or "fresh", a new
                \* channel to the protected broker
    MaxFaults   \* bound on crashes, failed writes, failed calls, lost clients

ASSUME LobbyAssumption == NoLobby \notin Lobby
ASSUME DeploymentAssumption == Deployment \subseteq {"direct", "fresh"} /\ Lobby # {}
ASSUME NetworkFaultAssumption == MaxFaults \in Nat

VARIABLES
    mem, disk,   \* StoreData in memory, and the last image renamed into place
    job,         \* per lobby: the handler that holds its lock
    anchor,      \* absence_observation_starts: the monotonic clock of the process
    net, vault,  \* the provider's tailnet and the vault's record, per lobby
    up,          \* the server process runs
    broker,      \* the worker's channel to the broker, "direct" without one
    signal, over,  \* the launcher's cleanup byte, and whether it was the deadline's
    faults

vars == <<mem, disk, job, anchor, net, vault, up, broker, signal, over, faults>>

store == <<mem, disk>>
world == <<net, vault>>
process == <<up, signal, over>>

-----------------------------------------------------------------------------
(* Records.  "Open" stands for Forming, Ready, Starting and InMatch.       *)

Open == {"Provisioning", "Open"}
Ended == {"Failed", "Expired", "Destroyed"}

Record ==
    [state : Open \cup Ended \cup {"None", "Closing"},
     lifecycle : {"Reserved", "Creating", "Active", "CreateRejected", "CreateUnknown",
                  "CleanupRequested", "CleanupPending", "VerifyingAbsence",
                  "DedicatedAbsent", "ManualRemediation"},
     identity : BOOLEAN,   \* network_identity, once the provider has named it
     pending : BOOLEAN,    \* cleanup_pending
     requested : BOOLEAN, acked : BOOLEAN, first : BOOLEAN,  \* the cleanup evidence
     confirmed : BOOLEAN, erased : BOOLEAN]

NewRecord ==
    [state |-> "Provisioning", lifecycle |-> "Reserved", identity |-> FALSE,
     pending |-> FALSE, requested |-> FALSE, acked |-> FALSE, first |-> FALSE,
     confirmed |-> FALSE, erased |-> FALSE]

NoRecord == [NewRecord EXCEPT !.state = "None"]

StoreData ==
    [rec : [Lobby -> Record], lease : Lobby \cup {NoLobby},
     quarantined : BOOLEAN, used : SUBSET Lobby]

Idle ==
    [pc |-> "idle", rec |-> NoRecord, finalize |-> FALSE, http |-> FALSE,
     then |-> "end", answer |-> "none"]

Job ==
    [pc : {"idle", "reserve", "prepare", "prepared", "mint", "maintain", "close", "intent",
           "delete", "reset", "observe", "present", "first", "second", "erase", "final"},
     rec : Record, finalize : BOOLEAN, http : BOOLEAN,
     then : {"end", "close", "handled"},
     answer : {"none", "ok", "blocked", "rejected", "refused", "unknown", "gated",
               "deleted"}]

TypeOK ==
    /\ mem \in StoreData /\ disk \in StoreData
    /\ job \in [Lobby -> Job]
    /\ anchor \in [Lobby -> {"none", "fresh", "elapsed"}]
    /\ net \in [Lobby -> {"none", "coming", "present", "deleting", "absent"}]
    /\ vault \in [Lobby -> {"none", "held", "erased"}]
    /\ up \in BOOLEAN /\ over \in BOOLEAN
    /\ broker \in {"direct", "fresh", "used", "broken"}
    /\ signal \in {"none", "sent", "handled", "checked", "released"}
    /\ faults \in 0 .. MaxFaults

Init ==
    /\ mem = [rec |-> [l \in Lobby |-> NoRecord], lease |-> NoLobby,
              quarantined |-> FALSE, used |-> {}]
    /\ disk = mem
    /\ job = [l \in Lobby |-> Idle]
    /\ anchor = [l \in Lobby |-> "none"]
    /\ net = [l \in Lobby |-> "none"] /\ vault = [l \in Lobby |-> "none"]
    /\ up = TRUE /\ broker \in Deployment /\ signal = "none" /\ over = FALSE
    /\ faults = 0

\* The one lobby an alpha worker serves.
Served == CHOOSE l \in Lobby : TRUE

Fault == faults < MaxFaults /\ faults' = faults + 1

\* The worker's channel: the first mutation moves the external Lease past the
\* receipt's epoch, and after a call that failed, client and broker no longer
\* agree on the next sequence number.
Brokered == broker # "direct"
Channel == broker # "broken"
Becomes(b) == broker' = IF Brokered THEN b ELSE broker

-----------------------------------------------------------------------------
(* The store.                                                              *)

\* has_release_proof.
Releases(r) ==
    \/ r.lifecycle = "CreateRejected" /\ ~r.identity
    \/ /\ r.lifecycle = "DedicatedAbsent" /\ ~r.pending
       /\ r.identity /\ r.requested /\ r.acked /\ r.erased /\ r.first /\ r.confirmed

ReleaseLifecycle(r) == r.lifecycle \in {"CreateRejected", "DedicatedAbsent"}

\* replace_in_data: the lease follows the record it belongs to; a real record
\* without its lease closes real creation.
Replace(s, l, r) ==
    [s EXCEPT
        !.rec[l] = r,
        !.lease = IF s.lease = l /\ Releases(r) THEN NoLobby ELSE s.lease,
        !.quarantined = \/ s.quarantined
                        \/ s.lease = l /\ ReleaseLifecycle(r) /\ ~Releases(r)
                        \/ s.lease # l /\ ~Releases(r)]

\* purge_retained may forget an ended record that has lost its lease; how old
\* it must be is left open.
Purgeable(s) == {l \in Lobby : s.rec[l].state \in Ended /\ s.lease # l}

Purged(s, gone) ==
    [s EXCEPT !.rec = [l \in Lobby |-> IF l \in gone THEN NoRecord ELSE s.rec[l]]]

\* normalize_loaded_store: the records that still need a lease decide who holds it.
Normalized(s) ==
    LET real == {l \in Lobby : s.rec[l].state # "None" /\ ~Releases(s.rec[l])}
    IN  [s EXCEPT
            !.lease = IF s.lease = NoLobby /\ real # {}
                      THEN CHOOSE l \in real : TRUE ELSE s.lease,
            !.quarantined = \/ s.quarantined
                            \/ s.lease = NoLobby /\ Cardinality(real) > 1
                            \/ s.lease # NoLobby /\ real # {s.lease}]

Commit(s) == mem' = s /\ disk' = s

\* The write fails, before the rename or after it: memory keeps the old image.
Lose(s) == disk' \in {disk, s} /\ mem' = mem /\ Fault

\* The job writes r and goes on as ok or, when the write fails, as bad; a
\* request may be dropped while it writes.  A purged record is not written.
Write(l, r, ok, bad) ==
    IF mem.rec[l].state = "None"
    THEN job' = [job EXCEPT ![l] = bad] /\ UNCHANGED <<store, faults>>
    ELSE \/ Commit(Replace(mem, l, r)) /\ job' = [job EXCEPT ![l] = ok] /\ UNCHANGED faults
         \/ /\ Lose(Replace(mem, l, r))
            /\ \E j \in {bad} \cup (IF job[l].http THEN {Idle} ELSE {}) :
                  job' = [job EXCEPT ![l] = j]

-----------------------------------------------------------------------------
(* Creation: reserve and lease in one transaction, then Creating, then the *)
(* provider, then what it answered.                                        *)

CreateLobby(l) ==
    /\ up /\ job[l] = Idle /\ (Brokered => ~over /\ l = Served)
    /\ \E gone \in SUBSET Purgeable(mem) :
          LET s == Purged(mem, gone) IN
          /\ s.rec[l].state = "None" /\ l \notin s.used
          /\ s.lease = NoLobby /\ ~s.quarantined
          /\ LET t == [s EXCEPT !.rec[l] = NewRecord, !.lease = l, !.used = @ \cup {l}] IN
             \/ /\ Commit(t) /\ UNCHANGED faults
                /\ job' = [job EXCEPT ![l] = [Idle EXCEPT !.pc = "reserve", !.http = TRUE,
                                                          !.rec = NewRecord]]
             \/ Lose(t) /\ UNCHANGED job
    /\ UNCHANGED <<anchor, world, process, broker>>

WriteCreating(l) ==
    LET r == [job[l].rec EXCEPT !.lifecycle = "Creating"] IN
    /\ job[l].pc = "reserve"
    /\ Write(l, r, [job[l] EXCEPT !.pc = "prepare", !.rec = r], Idle)
    /\ UNCHANGED <<anchor, world, process, broker>>

\* prepare_lobby: the tailnet is created, then the secret is stored, then the
\* policy is applied.  An error or a timeout may come before or after each, and a
\* request that timed out may still arrive; a policy that cannot be verified
\* deletes the tailnet again, acknowledged or not.  A probe may have withdrawn the
\* capability meanwhile.
PrepareOutcomes ==
    {<<"ok", "present", "held">>, <<"rejected", "none", "none">>}
    \cup (IF Brokered THEN {} ELSE {<<"blocked", "present", "held">>})
    \cup {"refused"} \X {"none", "present"} \X {"none"}
    \cup {"unknown"} \X {"none", "coming", "present"} \X {"none"}
    \cup {<<"unknown", "present", "held">>, <<"gated", "present", "held">>,
          <<"gated", "deleting", "held">>, <<"deleted", "deleting", "held">>}

Prepare(l) ==
    /\ job[l].pc = "prepare"
    /\ \E o \in PrepareOutcomes :
          /\ IF o[1] = "ok" \/ (o[1] = "rejected" /\ ~Brokered)
             THEN UNCHANGED faults ELSE Fault
          /\ net' = [net EXCEPT ![l] = o[2]]
          /\ vault' = [vault EXCEPT ![l] = o[3]]
          /\ Becomes(IF o[1] = "ok" THEN "used" ELSE "broken")
          /\ job' = [job EXCEPT ![l].pc = "prepared",
                                ![l].answer = IF Brokered /\ o[1] # "ok"
                                              THEN "unknown" ELSE o[1]]
    /\ UNCHANGED <<store, anchor, process>>

\* What create_lobby_impl makes of the answer.
Answered(r, answer) ==
    CASE answer = "ok" ->
            [r EXCEPT !.state = "Open", !.lifecycle = "Active", !.identity = TRUE]
      [] answer = "rejected" ->
            [r EXCEPT !.state = "Failed", !.lifecycle = "CreateRejected"]
      [] answer = "unknown" ->
            [r EXCEPT !.state = "Failed", !.lifecycle = "CreateUnknown", !.pending = TRUE]
      [] answer \in {"refused", "blocked"} ->
            [r EXCEPT !.state = "Failed", !.lifecycle = "ManualRemediation", !.pending = TRUE,
                      !.identity = (answer = "blocked")]
      [] answer = "gated" ->
            [r EXCEPT !.state = "Failed", !.lifecycle = "CleanupPending", !.pending = TRUE,
                      !.identity = TRUE, !.requested = TRUE]
      [] answer = "deleted" ->
            [r EXCEPT !.state = "Failed", !.lifecycle = "VerifyingAbsence", !.pending = TRUE,
                      !.identity = TRUE, !.requested = TRUE, !.acked = TRUE]

FinishCreate(l) ==
    /\ job[l].pc = "prepared"
    /\ Write(l, Answered(job[l].rec, job[l].answer), Idle, Idle)
    /\ UNCHANGED <<anchor, world, process, broker>>

-----------------------------------------------------------------------------
(* cleanup_resources.                                                      *)

Manual(r) == [r EXCEPT !.lifecycle = "ManualRemediation", !.pending = TRUE]

\* clear_absence_proof.
Unproven(r) == [r EXCEPT !.first = FALSE, !.confirmed = FALSE]

At(j, pc, r) == [j EXCEPT !.pc = pc, !.rec = r]

\* Fault: a first observation from before a restart counts as long ago.
VerifyByWallClock(j, a) ==
    IF j.rec.first /\ a = "fresh" THEN At(j, "final", [j.rec EXCEPT !.pending = TRUE])
    ELSE At(j, "observe", j.rec)

\* reconcile_dedicated_absence up to its provider call: the first observation
\* counts only with its anchor, and only once the separation has passed.
Verify(j, a) ==
    CASE ~j.rec.identity -> At(j, "final", Manual(j.rec))
      [] j.rec.identity /\ j.rec.first /\ a = "none" -> At(j, "reset", Unproven(j.rec))
      [] j.rec.identity /\ j.rec.first /\ a = "fresh" ->
            At(j, "final", [j.rec EXCEPT !.pending = TRUE])
      [] OTHER -> At(j, "observe", j.rec)

\* The job's way into cleanup_resources.
Clean(j, a) ==
    CASE j.rec.lifecycle = "VerifyingAbsence" -> Verify(j, a)
      [] j.rec.lifecycle = "DedicatedAbsent" -> At(j, "final", j.rec)
      [] j.rec.lifecycle \in {"CreateUnknown", "ManualRemediation"} ->
            At(j, "final", Manual(j.rec))
      [] OTHER -> At(j, "intent", [j.rec EXCEPT !.lifecycle = "CleanupRequested",
                                                !.requested = TRUE, !.pending = TRUE])

\* No destructive call before the intent is durable.
WriteIntent(l) ==
    /\ job[l].pc = "intent"
    /\ Write(l, job[l].rec, At(job[l], "delete", job[l].rec),
                            At(job[l], "final", Manual(job[l].rec)))
    /\ UNCHANGED <<anchor, world, process, broker>>

\* apply_cleanup_result: an acknowledged deletion is to be verified; a missing
\* identity or secret is for an operator, unless the broker hid the reason.
Delete(l) ==
    LET r == job[l].rec IN
    /\ job[l].pc = "delete"
    /\ \/ /\ Channel /\ r.identity /\ vault[l] = "held"
          /\ Becomes("used") /\ UNCHANGED faults
          /\ net' = [net EXCEPT ![l] = IF @ = "present" THEN "deleting" ELSE @]
          /\ job' = [job EXCEPT ![l] = At(@, "final",
                        [r EXCEPT !.lifecycle = "VerifyingAbsence", !.acked = TRUE])]
       \/ /\ Channel /\ r.identity /\ vault[l] = "held"
          /\ Becomes("broken") /\ Fault
          /\ net' \in {net, [net EXCEPT ![l] = IF @ = "present" THEN "deleting" ELSE @]}
          /\ job' = [job EXCEPT ![l] = At(@, "final", [r EXCEPT !.lifecycle = "CleanupPending"])]
       \/ /\ ~(Channel /\ r.identity /\ vault[l] = "held")
          /\ Becomes("broken") /\ UNCHANGED <<faults, net>>
          /\ job' = [job EXCEPT ![l] = At(@, "final",
                        IF Brokered THEN [r EXCEPT !.lifecycle = "CleanupPending"] ELSE Manual(r))]
    /\ UNCHANGED <<store, anchor, vault, process>>

WriteReset(l) ==
    /\ job[l].pc = "reset"
    /\ Write(l, job[l].rec, At(job[l], "observe", job[l].rec),
                            At(job[l], "final", Manual(job[l].rec)))
    /\ UNCHANGED <<anchor, world, process, broker>>

\* tailnet_present: while the provider deletes, a listing may show it or not.
Listed(l) == IF net[l] = "deleting" THEN BOOLEAN ELSE {net[l] = "present"}

\* The three answers, each with its evidence; the anchor is set after the first
\* absence and dropped when the tailnet is listed again.
Observe(l) ==
    LET r == job[l].rec IN
    /\ job[l].pc = "observe"
    /\ \/ /\ Channel /\ UNCHANGED <<broker, faults>>
          /\ \E listed \in Listed(l) :
                \/ /\ listed
                   /\ anchor' = [anchor EXCEPT ![l] = "none"]
                   /\ job' = [job EXCEPT ![l] = At(@, "present", [Unproven(r) EXCEPT !.pending = TRUE])]
                \/ /\ ~listed /\ ~r.first
                   /\ anchor' = [anchor EXCEPT ![l] = "fresh"]
                   /\ job' = [job EXCEPT ![l] = At(@, "first",
                                 [r EXCEPT !.first = TRUE, !.confirmed = FALSE, !.pending = TRUE])]
                \/ /\ ~listed /\ r.first
                   /\ UNCHANGED anchor
                   /\ job' = [job EXCEPT ![l] = At(@, "second",
                                 [r EXCEPT !.confirmed = TRUE, !.pending = TRUE])]
       \/ /\ IF Channel THEN Fault ELSE UNCHANGED faults
          /\ Becomes("broken")
          /\ job' = [job EXCEPT ![l] = At(@, "final", [r EXCEPT !.pending = TRUE])]
          /\ UNCHANGED anchor
    /\ UNCHANGED <<store, world, process>>

\* The evidence is written before anything is made of it.
WritePresent(l) ==
    /\ job[l].pc = "present"
    /\ Write(l, job[l].rec, At(job[l], "final", job[l].rec),
                            At(job[l], "final", Manual(job[l].rec)))
    /\ UNCHANGED <<anchor, world, process, broker>>

WriteFirst(l) ==
    /\ job[l].pc = "first"
    /\ Write(l, job[l].rec, At(job[l], "final", job[l].rec),
                            At(job[l], "final", Manual(Unproven(job[l].rec))))
    /\ anchor' = [anchor EXCEPT ![l] = IF job'[l].pc = "final" /\ ~job'[l].rec.first
                                       THEN "none" ELSE @]
    /\ UNCHANGED <<world, process, broker>>

WriteSecond(l) ==
    /\ job[l].pc = "second"
    /\ Write(l, job[l].rec, At(job[l], "erase", job[l].rec),
                            At(job[l], "final", [Manual(job[l].rec) EXCEPT !.confirmed = FALSE]))
    /\ UNCHANGED <<anchor, world, process, broker>>

\* erase_child_secret: an exact record is erased, an erasure receipt is enough.
Erase(l) ==
    LET r == job[l].rec IN
    /\ job[l].pc = "erase"
    /\ \/ /\ Channel /\ vault[l] # "none"
          /\ Becomes("used") /\ UNCHANGED faults
          /\ vault' = [vault EXCEPT ![l] = "erased"]
          /\ anchor' = [anchor EXCEPT ![l] = "none"]
          /\ job' = [job EXCEPT ![l] = At(@, "final",
                        [r EXCEPT !.lifecycle = "DedicatedAbsent", !.pending = FALSE, !.erased = TRUE])]
       \/ /\ IF Channel /\ vault[l] # "none"
             THEN Fault /\ vault' \in {vault, [vault EXCEPT ![l] = "erased"]}
             ELSE UNCHANGED <<faults, vault>>
          /\ Becomes("broken")
          /\ job' = [job EXCEPT ![l] = At(@, "final", r)]
          /\ UNCHANGED anchor
    /\ UNCHANGED <<store, net, process>>

\* Fault: Closing is not among the states that may be destroyed.
FinalizedEnded(j) ==
    IF j.finalize /\ j.rec.state \in {"Failed", "Expired"}
    THEN [j.rec EXCEPT !.state = "Destroyed"] ELSE j.rec

\* finalize_lobby_cleanup.
Finalized(j) ==
    IF j.finalize /\ j.rec.state \in {"Closing", "Failed", "Expired"}
    THEN [j.rec EXCEPT !.state = "Destroyed"] ELSE j.rec

\* delete_lobby after its maintenance, and submit_results: an open lobby is
\* Closing, durably, before its cleanup; one that is gone is left alone.
Closed(j, a) ==
    CASE j.rec.state = "Destroyed" /\ ~j.rec.pending -> Idle
      [] j.rec.state \in Open -> At(j, "close", [j.rec EXCEPT !.state = "Closing"])
      [] OTHER -> Clean([j EXCEPT !.finalize = TRUE, !.then = "end"], a)

WriteClosing(l) ==
    /\ job[l].pc = "close"
    /\ Write(l, job[l].rec,
             Clean([job[l] EXCEPT !.finalize = TRUE, !.then = "end"], anchor[l]), Idle)
    /\ UNCHANGED <<anchor, world, process, broker>>

\* The job's last write; then it ends, goes on to close, or reports the signal
\* as handled.
Final(l) ==
    LET j == [job[l] EXCEPT !.rec = Finalized(job[l])] IN
    /\ job[l].pc = "final"
    /\ Write(l, j.rec, IF j.then = "close" THEN Closed(j, anchor[l]) ELSE Idle, Idle)
    /\ signal' = IF j.then = "handled" THEN "handled" ELSE signal
    /\ UNCHANGED <<anchor, world, up, over, broker>>

-----------------------------------------------------------------------------
(* Who takes the lock: requests, the reaper, the launcher's signal.        *)

\* lobby_access_error: the vault has nothing for a lifecycle that needs it.
AccessError(l, r) ==
    /\ ~Brokered /\ vault[l] # "held"
    /\ r.pending \/ r.state \notin Ended
    /\ r.lifecycle \notin {"VerifyingAbsence", "DedicatedAbsent", "CreateRejected"}

Denied(r) == [Manual(r) EXCEPT !.state = IF @ \in Open THEN "Failed" ELSE @]

\* apply_time_transitions, at a time of its own choosing.
TimedOut(r) ==
    CASE r.state = "Provisioning" -> {[r EXCEPT !.state = "Failed", !.pending = TRUE]}
      [] r.state = "Open" -> {[r EXCEPT !.state = s, !.pending = TRUE] : s \in {"Failed", "Expired"}}
      [] OTHER -> {}

\* load_maintained_lobby at the head of every lobby request; a deletion goes on
\* to close the lobby.
Request(l, then) ==
    LET r == mem.rec[l]
        start == [Idle EXCEPT !.http = TRUE, !.then = then]
    IN  /\ up /\ job[l] = Idle /\ r.state # "None"
        /\ \/ \E m \in IF AccessError(l, r) THEN {Denied(r)} ELSE TimedOut(r) :
                 job' = [job EXCEPT ![l] = At(start, "maintain", m)]
           \/ /\ ~AccessError(l, r) /\ then = "close"
              /\ job' = [job EXCEPT ![l] = Closed(At(start, "idle", r), anchor[l])]
        /\ UNCHANGED <<store, anchor, world, process, broker, faults>>

\* join_lobby of an open lobby, up to the provider: its reservation leaves alone
\* what is kept of the record here.
Join(l) ==
    LET r == mem.rec[l] IN
    /\ up /\ job[l] = Idle /\ (Brokered => ~over)
    /\ r.state = "Open" /\ ~AccessError(l, r)
    /\ job' = [job EXCEPT ![l] = At([Idle EXCEPT !.http = TRUE], "mint", r)]
    /\ UNCHANGED <<store, anchor, world, process, broker, faults>>

\* What join_lobby makes of an error of mint_credential.
MintFailed(r, answer) ==
    [r EXCEPT !.state = "Failed", !.pending = TRUE,
              !.lifecycle = IF answer = "deleted" THEN "VerifyingAbsence" ELSE "CleanupPending",
              !.requested = @ \/ answer # "unknown", !.acked = @ \/ answer = "deleted"]

\* mint_credential.  gate_child_policy_or_cleanup deletes the tailnet of a policy
\* it cannot verify, acknowledged or not, while the record says Active: what
\* became of it is written only with the answer.  A tailnet that is gone has no
\* policy to verify.
Mint(l) ==
    /\ job[l].pc = "mint"
    /\ \/ /\ Channel /\ net[l] # "absent"
          /\ Becomes("used") /\ UNCHANGED <<faults, net>>
          /\ job' = [job EXCEPT ![l] = Idle]
       \/ /\ Channel /\ Becomes("broken")
          /\ IF net[l] = "present" THEN Fault ELSE UNCHANGED faults
          /\ \E answer \in {"unknown", "gated", "deleted"}, deletes \in BOOLEAN :
                /\ answer = "deleted" => deletes
                /\ net' = IF deletes /\ net[l] = "present"
                          THEN [net EXCEPT ![l] = "deleting"] ELSE net
                /\ job' = [job EXCEPT ![l] = At(@, "final",
                              MintFailed(@.rec, IF Brokered THEN "unknown" ELSE answer))]
       \/ /\ ~Channel /\ UNCHANGED <<broker, faults, net>>
          /\ job' = [job EXCEPT ![l] = At(@, "final", MintFailed(@.rec, "unknown"))]
    /\ UNCHANGED <<store, anchor, vault, process>>

WriteMaintained(l) ==
    /\ job[l].pc = "maintain"
    /\ Write(l, job[l].rec, Clean(job[l], anchor[l]), Idle)
    /\ UNCHANGED <<anchor, world, process, broker>>

\* The client is gone and its handler is dropped where it waits.
Cancel(l) ==
    /\ job[l].http /\ Fault
    /\ job' = [job EXCEPT ![l] = Idle]
    /\ UNCHANGED <<store, anchor, world, process, broker>>

\* Fault: the reaper looks at lobbies that close and forgets those that ended.
ReapClosing(l) ==
    LET r == mem.rec[l] IN
    /\ up /\ job[l] = Idle /\ r.state = "Closing"
    /\ job' = [job EXCEPT ![l] = Clean([Idle EXCEPT !.rec = r, !.finalize = TRUE], anchor[l])]
    /\ UNCHANGED <<store, anchor, world, process, broker, faults>>

\* cleanup_expired_at for one lobby.
Reap(l) ==
    LET r == mem.rec[l] IN
    /\ up /\ job[l] = Idle
    /\ \E m \in TimedOut(r) \cup
                (IF r.state = "Closing" \/ (r.pending /\ r.state \in Ended) THEN {r} ELSE {}) :
          job' = [job EXCEPT ![l] = Clean([Idle EXCEPT !.rec = m,
                                                       !.finalize = (m.state = "Closing")],
                                          anchor[l])]
    /\ UNCHANGED <<store, anchor, world, process, broker, faults>>

\* The launcher writes its byte, at the play deadline or on SIGTERM before it.
CleanupSignal ==
    /\ Brokered /\ up /\ signal = "none"
    /\ signal' = "sent" /\ over' \in BOOLEAN
    /\ UNCHANGED <<store, job, anchor, world, up, broker, faults>>

\* begin_protected_cleanup: the record is Closing and CleanupRequested, whatever
\* it was.
BeginProtectedCleanup(l) ==
    LET r == [mem.rec[l] EXCEPT !.state = "Closing", !.pending = TRUE,
                                !.lifecycle = "CleanupRequested"] IN
    /\ up /\ signal = "sent" /\ job[l] = Idle /\ l = Served
    /\ IF mem.rec[l].state = "None"
       THEN signal' = "handled" /\ UNCHANGED job
       ELSE /\ job' = [job EXCEPT ![l] = Clean([Idle EXCEPT !.rec = r, !.finalize = TRUE,
                                                            !.then = "handled"], anchor[l])]
            /\ UNCHANGED signal
    /\ UNCHANGED <<store, anchor, world, up, over, broker, faults>>

\* The worker's loop after the signal reads the record, and then releases the
\* external Lease and exits; a refused release is tried again.
CheckRelease(l) ==
    /\ up /\ signal = "handled" /\ l = Served
    /\ mem.rec[l].state = "None" \/ (mem.rec[l].state = "Destroyed" /\ ~mem.rec[l].pending)
    /\ signal' = "checked"
    /\ UNCHANGED <<store, job, anchor, world, up, over, broker, faults>>

ReleaseLease ==
    /\ up /\ signal = "checked"
    /\ IF Channel
       THEN /\ signal' = "released" /\ up' = FALSE
            /\ job' = [l \in Lobby |-> Idle]
       ELSE signal' = "handled" /\ UNCHANGED <<up, job>>
    /\ UNCHANGED <<store, anchor, world, over, broker, faults>>

-----------------------------------------------------------------------------
(* Crash and startup.                                                      *)

Crash ==
    /\ up /\ Fault
    /\ up' = FALSE
    /\ mem' = disk
    /\ job' = [l \in Lobby |-> Idle]
    /\ anchor' = [l \in Lobby |-> "none"]
    /\ signal' = "none" /\ over' = over
    /\ UNCHANGED <<disk, world, broker>>

\* reconcile_startup: a record whose identity or custody is gone is for an operator.
Unaccountable(l, r) ==
    \/ ~r.identity /\ r.lifecycle \notin {"Reserved", "CreateRejected"}
    \/ /\ ~Brokered /\ vault[l] # "held"
       /\ r.lifecycle \notin {"VerifyingAbsence", "DedicatedAbsent", "CreateRejected"}
    \/ /\ ~Brokered /\ vault[l] = "none"
       /\ r.lifecycle \notin {"Reserved", "DedicatedAbsent", "CreateRejected"}

Suspects(s) == {l \in Lobby : s.rec[l].state # "None" /\ Unaccountable(l, s.rec[l])}

\* reconcile_upstream_identities: every expected tailnet is listed and no other is.
UpstreamMatches(s, listed) ==
    listed = {l \in Lobby \ Suspects(s) :
                /\ s.rec[l].state # "None" /\ s.rec[l].identity
                /\ s.rec[l].lifecycle \in {"Active", "CleanupRequested", "CleanupPending"}}

Reconciled(s, listed) ==
    [s EXCEPT
        !.rec = [l \in Lobby |-> IF l \in Suspects(s) THEN Manual(s.rec[l]) ELSE s.rec[l]],
        !.quarantined = \/ s.quarantined
                        \/ \E l \in Suspects(s) : s.lease # l
                        \/ ~Brokered /\ ~UpstreamMatches(s, listed)]

\* The store is opened and reconciled.  The protected worker comes back only to
\* clean up: for a lease its receipt holds, with a Lease still at the receipt's
\* epoch, and with nothing for an operator to do.  It begins its cleanup at startup
\* and again on the launcher's byte; that is one pass here, as nothing exists yet.
Restart ==
    LET s == Normalized(disk) IN
    /\ ~up /\ signal # "released"
    /\ Brokered => s.lease # NoLobby /\ broker = "fresh"
    /\ \E listed \in SUBSET Lobby :
          /\ \A l \in Lobby : (l \in listed) \in Listed(l)
          /\ Commit(Reconciled(s, listed))
    /\ up' = (Brokered => Suspects(s) = {})
    /\ signal' = IF Brokered /\ Suspects(s) = {} THEN "sent" ELSE signal
    /\ UNCHANGED <<job, anchor, world, broker, over, faults>>

-----------------------------------------------------------------------------
(* The provider and the clock.                                             *)

\* A create request that was given up arrives, or is lost.
Arrive(l) ==
    /\ net[l] = "coming"
    /\ net' \in {[net EXCEPT ![l] = "present"], [net EXCEPT ![l] = "none"]}
    /\ UNCHANGED <<store, job, anchor, vault, process, broker, faults>>

Settle(l) ==
    /\ net[l] = "deleting"
    /\ net' = [net EXCEPT ![l] = "absent"]
    /\ UNCHANGED <<store, job, anchor, vault, process, broker, faults>>

\* CLEANUP_ABSENCE_MIN_SEPARATION_MS passes on the monotonic clock.  Assumed of
\* the provider: a deletion that has begun to hide the tailnet is done by then.
Elapse(l) ==
    /\ up /\ anchor[l] = "fresh" /\ net[l] # "deleting"
    /\ anchor' = [anchor EXCEPT ![l] = "elapsed"]
    /\ UNCHANGED <<store, job, world, process, broker, faults>>

-----------------------------------------------------------------------------
JobStep(l) ==
    \/ WriteCreating(l) \/ Prepare(l) \/ FinishCreate(l)
    \/ Mint(l) \/ WriteMaintained(l) \/ WriteClosing(l) \/ WriteIntent(l) \/ Delete(l)
    \/ WriteReset(l) \/ Observe(l) \/ WritePresent(l) \/ WriteFirst(l) \/ WriteSecond(l)
    \/ Erase(l) \/ Final(l)

Next ==
    \/ \E l \in Lobby :
          \/ CreateLobby(l) \/ JobStep(l) \/ Cancel(l)
          \/ Request(l, "end") \/ Request(l, "close") \/ Join(l) \/ Reap(l)
          \/ BeginProtectedCleanup(l) \/ CheckRelease(l)
          \/ Arrive(l) \/ Settle(l) \/ Elapse(l)
    \/ CleanupSignal \/ ReleaseLease
    \/ Crash \/ Restart

Spec == Init /\ [][Next]_vars

\* Handlers run on, the reaper comes round, the launcher keeps its deadline, the
\* supervisor restarts the process, the provider finishes deletions.
Fairness ==
    /\ \A l \in Lobby :
          /\ WF_vars(JobStep(l)) /\ WF_vars(Reap(l)) /\ WF_vars(BeginProtectedCleanup(l))
          /\ WF_vars(CheckRelease(l)) /\ WF_vars(Arrive(l)) /\ WF_vars(Settle(l))
          /\ WF_vars(Elapse(l))
    /\ WF_vars(CleanupSignal) /\ WF_vars(ReleaseLease) /\ WF_vars(Restart)

LiveSpec == Spec /\ Fairness

-----------------------------------------------------------------------------
(* Properties.                                                             *)

Exists(l) == net[l] \in {"coming", "present", "deleting"}

\* The singleton lease covers whatever a creation may have left in the world, a
\* tailnet or its secret, in memory and in the image a crash would load: nothing
\* survives a release, and so no second creation is admitted beside it.
LeaseCoversNetwork ==
    \A s \in {mem, disk}, l \in Lobby :
        s.lease # l => ~Exists(l) /\ vault[l] # "held"

\* The child secret, the only means to delete the tailnet, is erased only after
\* the tailnet is gone, whatever restarts and listings came between the two
\* observations of its absence.
SecretOutlivesNetwork ==
    \A l \in Lobby : vault[l] = "erased" => net[l] = "absent"

\* A record that says Active names its tailnet and has the secret to delete it,
\* also where a join's policy gate has deleted that tailnet already and the join
\* was lost before it could say so: the cleanup to come finds all it needs.
ActiveIsDeletable ==
    \A s \in {mem, disk}, l \in Lobby :
        s.rec[l].state # "None" /\ s.rec[l].lifecycle = "Active"
            => /\ s.rec[l].identity /\ vault[l] = "held"
               /\ net[l] \in {"present", "deleting", "absent"}

\* A lobby that has ended gives up its lease in the end, or an operator is told,
\* where no broken channel to the broker stands in between.
NetworkCleanupEnds ==
    \A l \in Lobby :
        (~Brokered /\ mem.lease = l /\ mem.rec[l].state \in Ended \cup {"Closing"})
            ~> (mem.lease # l \/ mem.rec[l].lifecycle = "ManualRemediation")

\* Protected cleanup releases the external Lease in the end.
LeaseIsReleased == (signal = "sent") ~> (signal = "released")

\* A protected cleanup that begins while the lobby's secret is still held deletes
\* the tailnet, proves it absent, erases the secret and releases the external
\* Lease, whatever requests and reaper passes come between, as long as no call
\* fails.  (Begun on a lobby already cleaned up, it does not: LeaseIsReleased.)
ProtectedCleanupEnds ==
    \A l \in Lobby :
        job[l].then = "handled" /\ vault[l] = "held" ~> signal = "released" \/ faults > 0

\* Of a cleanup begun at the deadline the external Lease is the last thing to go:
\* when the worker has released it, no tailnet and no secret is left.
LeaseIsReleasedLast ==
    signal = "released" /\ over => \A l \in Lobby : ~Exists(l) /\ vault[l] # "held"

\* Nothing a creation left in the world is ever out of reach: it is covered by
\* the lease, deletable with its secret, within reach of an Active record, and
\* gone when the external Lease is released.
NothingIsStranded ==
    LeaseCoversNetwork /\ SecretOutlivesNetwork /\ ActiveIsDeletable /\ LeaseIsReleasedLast
=============================================================================
