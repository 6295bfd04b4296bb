----------------------------- MODULE LobbyStore -----------------------------
(* The durable store behind the lobby service (store.rs): creation with an   *)
(* idempotency key and a one-use grant or receipt, the singleton lease of    *)
(* real networks, retention, and the file the whole image is written to.     *)
(*                                                                           *)
(* A write changes a copy, persists it and only then replaces the image in   *)
(* memory.  It may fail before the file was renamed, or after it (the        *)
(* directory could not be synced, or the request was dropped): then the file *)
(* is ahead of the memory until the next write.                              *)
(*                                                                           *)
(* Ages are what the code compares: a terminal record 15 minutes or 24 hours *)
(* after its end, a replay 24 hours after the creation.                      *)
EXTENDS Naturals, FiniteSets, Functions

CONSTANTS
    Key,        \* idempotency keys of creation requests
    Grant,      \* operator grants
    MaxMade     \* bound on records created

VARIABLES
    memory,    \* StoreData in memory
    disk,      \* the file
    up,        \* the store is open
    made,      \* ids given out; the receipt's lobby has id 0
    work,      \* created records whose request goes on to the provider
    reached    \* history: <<grant, lobby>> of creations that reached the provider

vars == <<memory, disk, up, made, work, reached>>

Empty == [lobbies |-> <<>>, lease |-> {}, quarantined |-> FALSE, grants |-> {}, used |-> {},
          replays |-> <<>>, receipt |-> "none"]

Init ==
    /\ memory = Empty /\ disk = Empty /\ up = TRUE /\ made = 0 /\ work = {} /\ reached = {}

Stored(d) == DOMAIN d.lobbies

Put(f, x, v) == [y \in DOMAIN f \cup {x} |-> IF y = x THEN v ELSE f[y]]

(* A real record without proof that its network is gone.                     *)
ActiveReal(d) == {l \in Stored(d) : d.lobbies[l].real /\ d.lobbies[l].proof = "none"}

-----------------------------------------------------------------------------
(* A replay is kept for 24 hours and only with its lobby.                    *)
ReplaysKept(d, lobbies) ==
    {k \in DOMAIN d.replays : d.replays[k] \in DOMAIN lobbies /\ ~lobbies[d.replays[k]].old}

(* Fault: retention forgets to look at the lease.                            *)
ExpiredIgnoringLease(d) ==
    {l \in Stored(d) : \/ d.lobbies[l].state = "Failed" /\ d.lobbies[l].since >= 1
                       \/ d.lobbies[l].state = "Destroyed" /\ d.lobbies[l].since >= 2}

(* Terminal records past their retention; never the holder of the lease.     *)
Expired(d) ==
    {l \in Stored(d) : /\ l \notin d.lease
                       /\ \/ d.lobbies[l].state = "Failed" /\ d.lobbies[l].since >= 1
                          \/ d.lobbies[l].state = "Destroyed" /\ d.lobbies[l].since >= 2}

(* purge_retained                                                            *)
Purged(d) ==
    LET lobbies == Restrict(d.lobbies, Stored(d) \ Expired(d))
    IN  [d EXCEPT !.lobbies = lobbies, !.replays = Restrict(@, ReplaysKept(d, lobbies))]

(* A write: it succeeds, fails before the rename or fails after it.          *)
Commit(next) ==
    \/ memory' = next /\ disk' = next
    \/ UNCHANGED memory /\ disk' \in {disk, next}

Committed(next) == memory' = next /\ disk' = next

-----------------------------------------------------------------------------
(* issue_real_create_grant                                                   *)
IssueGrant(g) ==
    /\ up /\ g \notin memory.grants
    /\ Commit([memory EXCEPT !.grants = @ \cup {g}])
    /\ UNCHANGED <<up, made, work, reached>>

(* install_rehearsal_in_data and install_alpha_in_data: one receipt, and     *)
(* only in a store that never held a real lobby.                             *)
InstallReceipt ==
    /\ up /\ memory.receipt = "none" /\ memory.lease = {} /\ ~memory.quarantined
    /\ \A l \in Stored(memory) : ~memory.lobbies[l].real
    /\ Commit([memory EXCEPT !.receipt = "installed"])
    /\ UNCHANGED <<up, made, work, reached>>

(* What create_in_data asks before a real creation.                          *)
RealAllowed(d, g) ==
    /\ ~d.quarantined /\ d.lease = {}
    /\ IF d.receipt = "none" THEN g \in d.grants \ d.used ELSE d.receipt = "installed"

(* What the service stores before it goes to the provider.                   *)
NewRecord(k, real) ==
    [real |-> real, key |-> k, state |-> "Provisioning", since |-> 0, old |-> FALSE,
     proof |-> "none"]

(* A service with a receipt creates the receipt's lobby; any other creation  *)
(* gets an id of its own.                                                    *)
LobbyIdFor(d, real) == IF real /\ d.receipt # "none" THEN 0 ELSE made + 1

(* The record, its replay, the lease and the spent grant, in one write.      *)
Created(d, k, l, real, g) ==
    [d EXCEPT !.replays = Put(@, k, l), !.lease = IF real THEN {l} ELSE @,
              !.used = IF real /\ d.receipt = "none" THEN @ \cup {g} ELSE @,
              !.receipt = IF real /\ @ = "installed" THEN "consumed" ELSE @,
              !.lobbies = Put(@, l, NewRecord(k, real))]

(* create_in_data with a key that no replay answers; a replay is answered    *)
(* from the record, before anything else is asked.  The service then goes to *)
(* the provider, if the write succeeded.                                     *)
Create(k, real, g) ==
    LET d == Purged(memory)
        l == LobbyIdFor(d, real)
    IN  /\ up /\ made < MaxMade /\ k \notin DOMAIN d.replays /\ l \notin Stored(d)
        /\ real => RealAllowed(d, g)
        /\ made' = made + 1
        /\ \/ /\ Committed(Created(d, k, l, real, g))
              /\ work' = work \cup {l}
              /\ reached' = IF real THEN reached \cup {<<IF l = 0 THEN 0 ELSE g, made + 1>>} ELSE reached
           \/ /\ UNCHANGED <<memory, work, reached>>
              /\ disk' \in {disk, Created(d, k, l, real, g)}
        /\ UNCHANGED up

(* replace_in_data: the lease goes with a proof of release; a real record    *)
(* that has neither lease nor proof quarantines real creation.               *)
Replaced(d, l, r) ==
    [d EXCEPT !.lobbies[l] = r,
              !.lease = IF r.proof # "none" THEN @ \ {l} ELSE @,
              !.quarantined = @ \/ (l \notin d.lease /\ r.real /\ r.proof = "none")]

Replace(l, r) ==
    /\ up /\ l \in Stored(memory) /\ Commit(Replaced(memory, l, r))
    /\ UNCHANGED <<up, made, reached>>

(* The provider's answer to a creation: a network, a refusal, or nobody      *)
(* knows.  The refusal of a real network is its own release proof.           *)
FinishCreate(l) ==
    LET r == memory.lobbies[l]
    IN  /\ l \in work /\ work' = work \ {l}
        /\ \E done \in {[r EXCEPT !.state = "Forming"], [r EXCEPT !.state = "Failed"],
                        [r EXCEPT !.state = "Failed", !.proof = IF r.real THEN "rejected" ELSE @]} :
              Replace(l, done)

(* delete_lobby: the record ends, its cleanup begins.  A rejected creation   *)
(* has nothing to clean up, but loses its proof over the attempt.            *)
Delete(l) ==
    LET r == memory.lobbies[l]
    IN  /\ l \in Stored(memory) \ work /\ r.state # "Destroyed"
        /\ Replace(l, [r EXCEPT !.state = "Destroyed", !.since = 0,
                                !.proof = IF @ = "absent" THEN @ ELSE "none"])
        /\ UNCHANGED work

(* A later cleanup proves the network of a terminal record gone.             *)
Release(l) ==
    /\ l \notin work /\ l \in memory.lease /\ memory.lobbies[l].state \in {"Failed", "Destroyed"}
    /\ Replace(l, [memory.lobbies[l] EXCEPT !.proof = "absent"]) /\ UNCHANGED work

(* quarantine_real_creation, when startup finds something unexpected.        *)
QuarantineRealCreation ==
    /\ up /\ ~memory.quarantined /\ Commit([memory EXCEPT !.quarantined = TRUE])
    /\ UNCHANGED <<up, made, work, reached>>

(* cleanup_in_data: retention and deadlines of open records.                 *)
Overdue(d, late) ==
    [d EXCEPT !.lobbies = [l \in DOMAIN @ |->
        IF l \in late /\ @[l].state \in {"Provisioning", "Forming"}
        THEN [@[l] EXCEPT !.state = "Failed", !.since = 0] ELSE @[l]]]

CleanupExpired ==
    /\ up
    /\ \E late \in SUBSET (Stored(memory) \ work) : Commit(Overdue(Purged(memory), late))
    /\ UNCHANGED <<up, made, work, reached>>

-----------------------------------------------------------------------------
(* The process ends; every request in flight ends with it.                   *)
Crash ==
    /\ up /\ up' = FALSE /\ work' = {} /\ UNCHANGED <<memory, disk, made, reached>>

(* normalize_loaded_store: a lease that is missing is made up for, one that  *)
(* does not fit the records quarantines real creation.                       *)
Normalized(d) ==
    IF d.lease = {} /\ Cardinality(ActiveReal(d)) = 1 THEN [d EXCEPT !.lease = ActiveReal(d)]
    ELSE IF d.lease = ActiveReal(d) THEN d
    ELSE [d EXCEPT !.quarantined = TRUE,
                   !.lease = IF @ = {} THEN {CHOOSE l \in ActiveReal(d) : TRUE} ELSE @]

(* JsonFileStore::open                                                       *)
Open ==
    /\ ~up /\ up' = TRUE
    /\ memory' = Normalized(disk) /\ disk' = Normalized(disk)
    /\ UNCHANGED <<made, work, reached>>

(* Time passes for every record: a quarter of an hour, or a day.             *)
QuarterHourLater(d) ==
    [d EXCEPT !.lobbies = [l \in DOMAIN @ |->
        IF @[l].state \in {"Failed", "Destroyed"} /\ @[l].since = 0
        THEN [@[l] EXCEPT !.since = 1] ELSE @[l]]]

DayLater(d) ==
    [d EXCEPT !.lobbies = [l \in DOMAIN @ |->
        [@[l] EXCEPT !.old = TRUE,
                     !.since = IF d.lobbies[l].state \in {"Failed", "Destroyed"} THEN 2
                               ELSE d.lobbies[l].since]]]

TimePasses ==
    /\ up /\ work = {}
    /\ \/ memory' = QuarterHourLater(memory) /\ disk' = QuarterHourLater(disk)
       \/ memory' = DayLater(memory) /\ disk' = DayLater(disk)
    /\ UNCHANGED <<up, made, work, reached>>

Next ==
    \/ \E g \in Grant : IssueGrant(g) \/ \E k \in Key, real \in BOOLEAN : Create(k, real, g)
    \/ InstallReceipt \/ QuarantineRealCreation \/ CleanupExpired \/ Crash \/ Open \/ TimePasses
    \/ \E l \in 0..MaxMade : FinishCreate(l) \/ Delete(l) \/ Release(l)

Spec == Init /\ [][Next]_vars
-----------------------------------------------------------------------------
(* A grant or a receipt pays for one creation at the provider, through       *)
(* retries, purges, lost writes and restarts.                                *)
GrantReachesProviderOnce == \A c, d \in reached : c[1] = d[1] => c = d

(* Real networks exist one at a time: whoever has no release proof holds the *)
(* lease, unless real creation is quarantined.                               *)
LeaseCoversRealRecords ==
    up /\ ~memory.quarantined => memory.lease = ActiveReal(memory)

(* Of one idempotency key no second lobby is made within 24 hours, as long   *)
(* as the first one is on record.                                            *)
RetryFindsItsLobby ==
    \A l, m \in Stored(memory) :
        l # m /\ memory.lobbies[l].key = memory.lobbies[m].key
        => memory.lobbies[l].old \/ memory.lobbies[m].old

(* Reopening any image the store may have left behind quarantines nothing:   *)
(* the lease on file is the one the records call for.                        *)
ReopenKeepsAdmission == disk.quarantined = Normalized(disk).quarantined

(* What the store promises to admission, all of it.                          *)
StoreKeepsAdmission ==
    /\ GrantReachesProviderOnce /\ LeaseCoversRealRecords
    /\ RetryFindsItsLobby /\ ReopenKeepsAdmission
=============================================================================
