# Spurfire: verification project

TLA+ models of Spurfire's distributed core, the TLC configurations that check
them and TLAPS proofs about them. `PROJECT.json` names, for every definition,
the source lines it models; paths below are relative to the repository.

- [1. Inventory](#1-inventory)
- [2. Modules and how they correspond to the code](#2-modules-and-how-they-correspond-to-the-code)
- [3. Runs](#3-runs)
- [4. Where code and documents disagree](#4-where-code-and-documents-disagree)
- [5. Proofs](#5-proofs)
- [6. Not modelled](#6-not-modelled)
- [7. Plan](#7-plan)

## 1. Inventory

Spurfire is a small peer-to-peer multiplayer game. A control service creates a
lobby and, for each lobby, a private network (tailnet); the players of the lobby
then talk to each other directly over UDP. One player is the *authority*: it
resolves shots and movement for all. When it is lost, the others elect a
successor, which hands over a signed checkpoint in the next *authority epoch*.

| Component | State it keeps | Operations | Talks to |
|---|---|---|---|
| Peer session, wire 1.2 (`spurfire-net/src/lib.rs`, `SessionState`, `SecureSession`) | authority, epoch, own sequence, per peer: replay floor, last-seen time, connected flag | accept, envelope, expire_and_migrate | peers by UDP; driven by the native node |
| Peer session, wire 2.0 (`spurfire-net/src/v2.rs`, `M3SecureSession`) | the above, a pending handoff reassembly, pending match-state keyframes | accept of fragments, checkpoints, keyframes | the same |
| Native session node (`spurfire-gdext/src/peer_session.rs`) | session, simulation tick, combat receipts, applied results, gameplay bank (combat authority, bounty kernel) | poll_migration, resolve commands, apply results, build and restore checkpoints | session library, Godot bridge |
| Lobby bridge (`game/scripts/lobby_peer_bridge.gd`) | peers, endpoint bindings, timers | 250 ms poll, sends, leave, shutdown | native node, lobby client |
| Lobby service (`spurfire-server/src/service.rs`) | per-lobby locks, provider state of each lobby | create, join, register, ready, start, heartbeat, results, leave, delete, expiry, startup reconciliation | store, provider, vault, clients by HTTP |
| Lobby store (`store.rs`, `spurfire-protocol/src/state.rs`) | lobby records with generations, idempotency receipts, the singleton real-network lease, one JSON file | create, replace, purge, load | service |
| Provider, broker, vault, lease authority (`provider.rs`, `protected_broker.rs`, `vault.rs`, `lease_authority.rs`) | remote networks, sealed child secret, fenced lease | prepare, delete, observe, erase, claim, release | tailnet API, each other |
| Rehearsal supervisor (`supervision.rs`) | hash-chained ledger in two files, progress of a cleanup | load, claim_recovery, run_cleanup | broker, vault, lease |
| Combat, horse, dive, stance, bounty, objective kernels (`spurfire-protocol/src/combat*`, `m3.rs`, `m4.rs`, `m5.rs`, `saddle_dive.rs`, `stance.rs`) | per-actor phase, ammunition, cooldowns, receipts; match clock, score, ownership | tick and admit a command; deterministic | native node |
| Election (`election.rs`) | none | score a measurement matrix | service, session |
| Rider replication (`replication.rs`, `multiplayer_replication.gd`) | presentation ring, delta base | push, sample | native node |
| Lobby client (`lobby_client.rs`, `lobby_shell.gd`, worker of `peer_session.rs`) | session generation, capabilities, copied code, request threads, the embedded peer | create, join, poll, leave, cancel, connect, bind a session | service, native node |
| Control client, CLI | none | requests | service |
| Horse, weapon and dive controllers (`locomotion.rs`, `horse_controller.rs`, `mounted_weapon_controller.rs`, `saddle_dive_controller.rs`) | gait, timers, velocity; the rider context of the rifle | physics ticks, callbacks between them | kernels, engine body |
| Presentation (scenes, HUD, effects) | engine objects | callbacks | native node |

Hard behaviours, and what correctness means there:

- **Elections without coordination.** Each follower decides alone, from its own
  clock and its own view of who is silent, that the authority is gone. Wanted: a
  live authority is never deposed, nobody reigns twice, an epoch has one
  authority, the survivors converge.
- **Datagrams.** Anything may be lost, duplicated or overtaken, across epochs.
  Wanted: no result is applied twice, no fresh envelope is refused as a replay.
- **Handoffs in fragments.** Two candidates may send at once and the reassembly
  has a timeout. Wanted: what is installed is one whole checkpoint of one author,
  and session, combat authority and bounty kernel agree on the epoch.
- **Cleanup over crashes.** Network, secret and lease are separate systems and
  every answer can be lost. Wanted: the lease goes last, every effect has its
  durable intent, a quarantine is final, and the cleanup ends.
- **Lobby life cycle.** HTTP handlers, the reaper, recovery and lost provider
  answers meet at one record. Wanted: no network is forgotten, the lease is
  released only with proof, retries are idempotent, every credential is accounted
  for, what an inspection shows is true of the network it names.
- **Two views of one fact.** Client and service, worker and broker, vault file and
  memory, kernel and controller, sender and follower each keep a copy. Wanted: the
  copies agree whenever the code relies on it, and a stale one is harmless.
- **Kernels that must migrate.** Every state a match can be in must survive being
  checkpointed and validated by another player. Wanted: it restores, and nothing
  is paid, fired or counted twice because of it.

The list `hazards` in `PROJECT.json` gives each of them at the line where it
bites, with the properties that cover it, or the reason why none does yet.

## 2. Modules and how they correspond to the code

```
SessionState ─┬─ PeerSession ─┬─ MCPeerSession
              │               └─ PeerSessionProofs
              └─ M3Session ───┬─ MCM3Session
                              └─ M3SessionProofs       also proves ActorReplication
AuthorityLineage        implemented by PeerSession and by M3Session
CleanupSupervisor ── CleanupSupervisorProofs
LobbyNetwork ─────── LobbyNetworkProofs      two deployments: direct and Brokered;
                                             also proves LobbyAdmission

ActorKernel ─┬─ ActorGameplay ─┐
             └──────┬──────────┤
BountyKernel ─┬─────│─ BountyMatch
              └─ M3Match ──────┼─ MCGameplay
CombatKernel ─┬─────┘          │
DiveKernel ───┴─ SaddleDive ───┘

Election ── LobbyMatch ────────┐
NetworkView ── LobbyInspection ┤
LobbyAdmission, LobbyStore, RequestBudget ─┤
NativeClient, SessionBinding ──┼─ MCService
ChildCustody, ProtectedBroker ─┤
ActorReplication, HorseLocomotion ─┘

ChildCustody ───── ChildCustodyProofs
ProtectedBroker ── ProtectedBrokerProofs
HorseLocomotion ── HorseLocomotionProofs     also proves ActorGameplay and SaddleDive
LobbyStore, SessionBinding, LobbyMatch,
LobbyInspection, NativeClient, RequestBudget ── ServiceProofs
```

The `...Kernel` modules, `Election` and `NetworkView` hold operators only: the pure
functions of the kernels as functions of their state. The modules to their right
hold the state and the actions.

Operators whose comment begins with "Fault:" are not used by the
specifications: each is the plausible bug that the property named for it under
`mutants` in `PROJECT.json` must catch when it replaces the definition after it.

### SessionState

The part of `SessionState` that both wire versions share. The code compares
`now_ms - last_seen_ms` with `HEARTBEAT_TIMEOUT_MS` (2000) and with nothing else,
so a clock is reduced to `silent[p]`, the peers past the timeout at `p`:
`Lapse` adds one and `Heard`, the effect of an accepted envelope, removes it.
`Survivors`, `Successor` and `AuthorityClaimIsCoherent` are the freshness test of
`expire_and_migrate`, `deterministic_successor` and
`authority_claim_is_coherent`. `Preference` is the order
`configure_migration_preference` binds; it is empty on wire 1.2, where nothing
binds one and the lowest surviving id succeeds. Player ids are numbers because
the code compares them.

### PeerSession (wire 1.2)

One action per handler of the native node: `Heartbeat` stands for hello,
heartbeat, probe and input (ordinary traffic, no role check); `FireAsFollower`,
`FireAsAuthority`, `ResolveCommand` and `AcceptResult` for the two ends of a shot;
`Leave`, `Crash`; `FallSilent` for the passing of the timeout; `AcceptMigration`
for a handoff; `PollQuietly` and `PollAndMigrate` for `poll_migration`. Handlers
run to completion on one thread, so they are atomic. `net` is the set of all
envelopes ever sent: receiving does not remove, so loss, duplication and
reordering need no action of their own. An envelope that is refused changes
nothing and is a stuttering step.

The combat kernel may refuse a command (`IgnoreCommand` is enabled on the
authority too); a shot is a (shooter, tick) pair and is fired at most once
because the tick moves on. `hits` counts the results handed to the scene and is
history. The bridge keeps a further set of applied results; it is left out, and
`NoDoubleHit` holds without it. The bridge stops polling when it knows no peers;
the model polls on, which only adds behaviours. Signatures, endpoint bindings and
roster hashes are assumed to hold of every envelope, as `SecureSession` checks
them first.

### M3Session (wire 2.0)

The same session where a handoff is `FragmentCount` signed fragments.
`AcceptFragment` and `CompleteCheckpoint` are `accept_migration_fragment`;
`pending` and `overdue` are `pending_migration` and its timeout. The gameplay
bank is reduced to its epoch and tick, which is what decides whether
`build_m3_checkpoint` yields a canonical checkpoint (`CheckpointBuilds`). A poll
works on a copy of the session that is stored only when a migration comes of it,
so there is no quiet poll. `FixtureTick` chooses the driver. 0 is the bridge, which
advances the bank on the authority alone. A positive number is `migration_smoke`: it
calls `expire_and_migrate` directly, sends one constant checkpoint of that tick
whoever is elected, and runs no kernels, so that its bank never moves. A whole
checkpoint is assumed installable.

### AuthorityLineage

The abstract promise of both wires about authority and epoch. A follower moves
one epoch ahead, or to a lower id inside its epoch; a player that reigns stays.
The refinement mapping is the identity on the two variables.

### CleanupSupervisor

`LedgerStore::persist` is two actions, `ReplaceLedger` and `ReplaceHead`, with
`IoError` before, between and after them (the directory fsync of the second
file). Because the ledger is a hash chain, an entry's hash stands for the prefix
it ends, and both files are sequences of entries. `pc` is the statement
`load`, `claim_recovery` or `run_cleanup` executes next. Between any two of them
the process may crash, and an older ledger file may be put back. The world is
three cells (`network`, `vault`, `lease`); a call's answer may be lost whether or
not it took effect, and an accepted deletion takes effect later (`Vanish`). Who
calls `run_cleanup` again after an error is outside the module's source:
`Rerun` (same process) and `Exit` (new process) are both allowed.

`claim_recovery` appends its entry in memory and writes nothing (`Claim`). The next
durable transition would be two entries ahead of the head, which `persist` refuses, so a
claimed process gets no further; one that loads and goes on without a claim does
(`Resume`). A claim therefore counts as a fault.

### LobbyNetwork

The tailnet of a real lobby between four places that do not change together: the
store's image in memory (`mem`) and on disk (`disk`), the provider (`net`) and the
vault (`vault`). A store image is the lobby records, the holder of the singleton
real-network lease, the quarantine flag and the admissions already used up.

- A handler holds its lobby's lock from its first read to its last write; `job[l]`
  is the handler that holds the lock of `l`, with the statement it is at and the
  copy of the record it works on. `CreateLobby` to `FinishCreate` are
  `create_lobby_impl`; `Request` is `load_maintained_lobby` at the head of every
  request, followed for a deletion or for results by the close of the lobby;
  `Reap` is `cleanup_expired_at`; `WriteIntent` to `Final` are
  `cleanup_resources`, `reconcile_dedicated_absence` and
  `finalize_lobby_cleanup`.
- `Join` and `Mint` are `join_lobby` as far as the network is concerned: the policy gate
  at the head of `mint_credential` deletes the tailnet of a record that is still
  Active, and the cleanup is written only afterwards (`MintFailed`), if that write
  succeeds.
- `Write` is `LobbyStore::replace`: the lease follows the record
  (`Replace`), and a failed write leaves either image on disk and the old one in
  memory. A request may be dropped where it waits (`Cancel`) or while it writes.
- `anchor[l]` is the process-local monotonic time of the first observation of
  absence: none, younger or older than the required separation.
- A call to the provider may fail before or after it takes effect, and a creation
  that was given up may still arrive (`Arrive`). `Listed`: while the provider
  deletes, a listing may show the tailnet or not. Assumed of the provider
  (`Elapse`): a deletion that has begun to hide the tailnet is done when the
  separation has passed.
- `Crash` keeps the disk image; `Restart` is `normalize_loaded_store`,
  `reconcile_startup` and `reconcile_upstream_identities`.
- `Brokered` is the protected alpha: one lobby, the provider behind the broker,
  which hides why a call failed, a channel that is out of step for good after a
  failed call (`broker`), the launcher's byte (`signal`; `over` when it came at
  the play deadline), `begin_protected_cleanup` and the worker's release loop.

The states Forming to InMatch are one (`"Open"`), and record times are left open:
`TimedOut` and `Purgeable` may happen whenever the state allows. The deadline
check and the reservation of a creation are one step.

### ActorKernel, ActorGameplay

One actor's horse (health, bolt, regeneration), rider on foot (stamina, roll), recall
and return, and Spur meter, as `ActorGameplayKernel` composes them: a tick runs the
three kernels one after the other and fails as a whole when one refuses. The two
adapters (`m3_gameplay_controller.rs` and the lobby's bank) differ in the keys they
pass. `failed` records that a fresh tick was refused half way. Poses are left out; the
tick constants are scaled down so that every phase has an inside and two ends.

### BountyKernel, BountyMatch

`BountyMatchKernel`: clock, respawns, buffs, reveals, objectives, damage credit, awards.
Ticks may be skipped. `Keyframe`, `SnapshotCanonical` and `MatchValid` are the
validations a follower and a successor apply.

### CombatKernel, M3Match

Rifle, reload, cadence, dive context, and the match of `m3_combat.rs` as the
authority's frame drives it: advance actors, shooters and registry, resolve commands
of the past within the rewind window, award damage, respawn, hand over. Whether a
ray hits is a choice.

`stances` is what the registry shows of each rider (`stance_id`). The bridge and the
rider's own controller change it apart from the actor's mode (`Posed`), and
`is_bounded_and_canonical` refuses a checkpoint in which the two do not fit
(`StanceFits`, part of `Restorable`). `RunningMatchMigrates` therefore names what may
stop a running match: a horse-loss effect not delivered yet, a horse just shot down under
a rider still shown mounted, a rider shown on foot beside its horse.

### DiveKernel, SaddleDive

The dive from launch to remount with its telemetry row, the run-out of the riderless
horse and the three controllers. `phase` is the place in the frame of
`m2_gameplay.gd`, so that callbacks between two controllers interleave as the engine
runs them. `footing` is whether the horse last stood on the ground: a reset replays the
transition out of a dive, prone or recovery (`ResetRider`) and takes the weapon's stance
from it. Damage is delivered any number of times; the incidents already seen are
remembered by the kernel.

### Election, LobbyMatch

Eligibility, scores and the two orders (`election.rs`, and what a peer binds from it)
over a small measurement matrix, and the lobby from its first member to the end of
its match: joins, leaves, reports, ready, start, heartbeats, successor claims,
results, restarts. Handlers hold the lobby lock and are atomic; what a request was
authorised for may be out of date when it runs. `reign`, `manifests` and `unmoved` are
history; `unmoved` is the generations that a restart could not move the match on from,
because its write failed. Such a match is served on.

### LobbyAdmission, LobbyStore

`join_lobby` in its steps (reserve, mint, record), with hang-ups, crashes, timeouts
and late keys; `leave_lobby` and revocation. The record of an issuance lapses five
minutes after the request's first reading of the clock, the key three hundred seconds
after the provider made it: `RecordLapses` comes before `KeyExpires`, and a rejoin
between the two mints a second key. `spent` is the history of reservations, each with
the keys that outlasted their record when it was made (`Outlasting`). The store: creation with its replay,
grant and lease in one write, retention, quarantine, a file that may be ahead of the
memory, reopening.

### NetworkView, LobbyInspection, RequestBudget

The projection and validation of `GET network`, fact by fact, and the writers it races
with: provider refreshes, reports, teardowns. A refresh reads the clock when it is called
(`Refresh`), waits for the observation lock (`waiting`), reads the record (`BeginPoll`)
and asks; it is stamped with the time of the call, and `asked` and `taken` keep, as
history, when the provider was asked and answered. The abuse windows, over a wall clock that
may be set back while `time` goes on; `Callers` are the addresses and actors that ask,
`accepted` is the history of what was let through, and a window holds as many requests as
there are positions of that history in it.

### NativeClient, SessionBinding

The Godot thread, the request threads and the peer's worker, with the places at which a
reset blocks. A capability is named by the generation that asked for it, a code by its
number. `OnJoined` has the error exits of `_on_joined`, which leave a worker running and
the buttons enabled; the next join is refused while the command sender is held, and
replaces the worker once a leave has dropped it, so that two embedded peers overlap.
SessionBinding follows answers that overtake each other into the session keys,
the pinned manifest key and the installed session of one rider; `latest`, the highest
generation ever installed, is history.

### ChildCustody, ProtectedBroker

The child credential in the vault file, the vault's image and the provider's cache, with
writes that fail before or after the rename and restarts between any two awaits. An
observation takes three locks one after the other (`ObserveCache`, `ObserveVault`,
`ObserveFill`; `reads` is where each stands) and holds no lobby lock, so that an erasure
may fall in between and a client of the erased tailnet enter the cache. An
erasure whose record is no longer the image's exact one is refused (`DeleteCas`). The
broker channel: numbered calls, one Lease with a resource version, epoch and phase,
cancelled calls whose frame is still on its way, restarts of either process.

### ActorReplication, HorseLocomotion

Actor deltas against keyframes and match states in fragments, over a network that keeps
every envelope, and the render clock of one remote rider. The mounted horse in whole
units of speed and ticks; the engine may take speed away, push sideways and take or give
the floor.

### MCGameplay, MCService

The instances. A behaviour picks one component and runs it; the others stay as they are.
The components share no state there, so this is a union of state spaces and not a
composition; compositions are `M3Match` (four kernels), `SaddleDive` (three controllers)
and `LobbyNetwork` (service, store, provider, vault, broker).

## 3. Runs

All passing runs explore their whole bounded state space. `CHECK_DEADLOCK FALSE`
is used throughout because the bounds, a match whose players are gone and a
finished cleanup all may stop.

| Run | Checks | Bounds |
|---|---|---|
| `peer_session` | `TypeOK`, `SingleReign`, `NoDoubleHit`, `NextEnvelopeIsFresh`, `LiveAuthorityIsNotDeposed`, `OrderlySuccession`, `ImplementsLineage` | 3 players, 1 shot, 1 heartbeat, 3 epochs, 1 loss, packet loss (1.2 M states) |
| `peer_session_converge` | `Convergence` | 3 players, 5 epochs, 1 loss, no packet loss (23 k) |
| `split` (violated) | `OneAuthorityPerEpoch` | as `peer_session` |
| `m3_session_four` | `SingleReign`, `WholeCheckpoint` | 4 players, 2 fragments, 2 epochs, packet loss, the constant checkpoint of `migration_smoke` (364 k) |
| `m3_one_lost` | `TypeOK`, `BankFitsReign`, `NextEnvelopeIsFresh`, `AuthorityLossIsSurvived` | 3 players, 1 loss, the constant checkpoint of `migration_smoke` (67 k) |
| `m3_live` (violated) | `AuthorityLossIsSurvived` | the same with the bridge's bank |
| `cleanup_supervisor` | `CleanupInOrder`, `QuarantineIsFinal`, `CleanupEnds` | 2 faults (146 k) |
| `lobby_network` | `NothingIsStranded`, `NetworkCleanupEnds`, `ProtectedCleanupEnds` | direct and brokered, 2 lobbies, 2 faults (257 k) |
| `early` (violated) | `LeaseIsReleased` | brokered, no fault |
| `gameplay` | `FreshTickSucceeds`, `CheckpointsRestore`, `ScoresAddUp`, `KernelsAgree`, `ShotsAreEarned`, `HorsesComeBackInTime`, `DivesAreTrue` | four components, the dive twice, 3 to 8 ticks each (586 k) |
| `dive_context` (violated) | `FrameContextAccepted` | the dive component of `gameplay`, until the first incident |
| `service` | `MatchFollowsElection`, `OneKeyPerGeneration`, `AuthorityMovesOn`, `KeysAreAccountedFor`, `StoreKeepsAdmission`, `InspectionIsTrue`, `BudgetHolds`, `SessionsDoNotMix`, `CustodyIsKept`, `EffectsAreFenced`, `RidersAreShownAsPublished`, `SessionsAreBound`, `MotionIsEarned` | eleven components, admission and client twice (2.9 M) |

A property of the last two rows is a conjunction of facts about one component, named and
commented where the component is specified.

Why the bounds are enough for the cases of interest:

- Three players suffice for a split election, a second election and a shot that is
  resolved by one authority and reported after the next came; four are needed for
  a follower to watch two candidates claim the same epoch.
- The first authority is the highest id on wire 1.2, so that every other player
  precedes it, and heads the order on wire 2.0, as the match-start election makes it.
- One heartbeat is enough to move one replay floor or to revive one silent peer at
  any point; two fragments are the fewest that can be mixed.
- Two faults cover, in the supervisor, a crash inside a persist followed by a
  restored file or by an I/O error of the recovery, and in the lobby a lost
  provider answer followed by a crash or by a failed write of what was learned.
- Two lobbies let a second creation compete for the lease the first one holds. The
  protected worker serves one.
- Gameplay: a match of four ticks with two riders and two shots holds a kill, a
  respawn, a reload, an objective and a handoff in many orders; three riders are needed
  for an assist. The dive has four ticks, one more than launch, landing and remount; a
  second instance has three, and two incidents that may fall into one window, each
  delivered again and again.
- Match: three players, so that a successor may be chosen from two; two reports that
  differ in kind; two epochs and two generations, the fewest that can be confused.
- Admission and store: two riders, two invitations and two issuances, the second while
  the first is in doubt, and one rider with three of each, so that two keys may outlast
  their records in turn; two records, one of which meets the lease of the other.
- Client: two generations, once with a lobby, a code and one worker, once with joins only
  and two workers, so that one ends while the next runs; broker: two
  calls open at once and one restart; custody: two lobbies, two generations and two
  tailnets, one of each lobby or two of one whose creation was repeated.
- Replication: two snapshots that differ in every part that is replicated on its own,
  two epochs, one re-projection. Horse: seven inputs, three grounds, three ticks and
  a call between them, with every timer two ticks long.

Fairness. `Poll` is weakly fair because the bridge polls every 250 ms.
`FallSilent` is weakly fair without packet loss only: the clock of a running
player reaches the timeout of a peer it accepts nothing from. A handoff that
stays acceptable is assumed to arrive; the convergence runs are about the
protocol, not about a network that drops everything. Heartbeats, shots, crashes
and leaves are never fair. In `CleanupSupervisor` the supervisor is sequential
code that its caller restarts, five seconds pass, and an accepted deletion takes
effect; answers, crashes and faults are not fair, and faults are finitely many. In
`LobbyNetwork` handlers run on, the reaper comes round every second, the launcher
keeps its deadline, the process is restarted and the provider finishes what it
accepted; requests, creations and every fault are not fair. `gameplay` and `service`
check safety only and assume no fairness.

What the runs show:

- Whatever the network does, a player that reigns is deposed by nothing it
  receives or observes, and all it ever signed as authority belongs to the one
  epoch it reigns in; no result reaches a scene twice, although the receipts of a
  handoff are incomplete (section 4), because the sequence floor of each sender
  survives elections.
- Epochs advance one at a time and only over a lost authority, on both wires.
- With one loss and no packet loss the survivors agree in the end. With packet
  loss they need not (section 4), nor with two losses: every election costs an
  epoch, so a survivor that first elected a player who is dead too is an epoch
  ahead of one that did not, and neither accepts the other's traffic again.
- A checkpoint is installed whole or not at all, also with two authors in one
  epoch and a reassembly that times out half way.
- No crash, I/O error, lost answer, rerun or restored file lets the supervisor
  release the lease early, act without a durable intent or under a quarantine,
  and once faults and claims stop the cleanup ends.
- A tailnet that a join's policy gate deletes stays covered although its record says
  Active: a record that says so can still be deleted (`ActiveIsDeletable`).
- Whatever fails, is dropped or restarts, the service never gives up the
  singleton lease while a tailnet or its secret may be left, never erases the
  secret before the tailnet is gone, and leaves no ended lobby without either a
  released lease or a call for an operator. Behind the broker the release of the
  external Lease comes last, and comes, when no call fails; with a failed call, an
  early end or a restart it may not (section 4).
- With the checkpoint of `migration_smoke` the survivors of a loss agree; it says nothing
  of the bridge, where none migrates (section 4).
- No tick of an actor fails half way, every running match can be checkpointed and
  restored except in the three situations that `RunningMatchMigrates` names, and no
  handoff, late command, damage delivered twice or skipped tick pays, fires or counts
  anything twice.
- Elections of the service name one winner per epoch, and the order that peers bind
  elects the successor the service accepts. A generation is signed with one key unless
  its restart's write failed. A player holds one live key whose record stands and at most
  one more that outlasts its record, unless it left with one in doubt, and every live key
  is on record, outlasts its record or is in a lobby that asks for cleanup. Through lost writes and restarts a creation is not repeated and the lease
  stays with whoever has no proof of release.
- Late answers, cancelled sessions and stale polls do not leak into the session that
  follows; a worker that was replaced may still run beside it, closing, sent nothing and
  heard by nobody. A session that is installed is one its rider can sign for.
- A child secret is in the vault, or the receipt of its erasure is, at every point of
  every call; each provider mutation has an epoch of its own.

Observed while modelling, and not contradicted by a document (so no run of its own):

- The service elects for wire 1.2 while joins require wire 2.0 (`election.rs:413`,
  `service.rs:1767`): no member is eligible and every election is degraded.
- After a failed or cancelled call the broker channel stays out of step
  (`protected_broker.rs:252`), and a restarted worker presents the epoch of its receipt
  (`spurfire-alpha-worker.rs:72`) and is refused.
- `claim_recovery` is never persisted (`supervision.rs:360`), so a supervisor that claimed
  cannot write its next entry; only a restart without a claim goes on.
- A join's policy gate deletes the tailnet under an Active record (`provider.rs:1057`);
  when the write that follows fails, the record stays Active until the lobby expires or
  is deleted.
- A key outlasts its record (`provider.rs:1456`, `service.rs:1877`): a rejoin in between
  gives its player two live keys.
- An observation that read the vault before an erasure fills the cache after it
  (`provider.rs:1002`): the client of a deleted tailnet stays until the process ends.
- A join whose lobby cannot be shown leaves its worker and enables the buttons again
  (`lobby_shell.gd:193`): after a leave a second worker starts while the first closes.
- A rider shown on foot beside its horse (`lobby_peer_bridge.gd:1922`) makes the
  authority's checkpoint refusable (`spurfire-net/src/lib.rs:207`).
- A reset out of a dive with the horse last in the air leaves the weapon
  `MountedAirborne` (`saddle_dive_controller.rs:356`) and the frames after it are refused.
- The launcher still holds the exclusive lock of the state store
  (`spurfire-alpha-launcher.rs:87`) when the worker opens it
  (`spurfire-alpha-worker.rs:102`).
- `combat_receipts` is written by the authority alone (`peer_session.rs:2634`): a
  successor hands over none of the shots resolved in the epoch it leaves. The replay
  floors keep `NoDoubleHit` nevertheless.
- `leave_lobby` forgets an issuance in doubt, so that a player who leaves and returns
  may hold two live keys (`service.rs:2291`).
- `GET network` answers 500 in three short situations, the exceptions in the comment of
  `InspectionIsTrue`.
- A lobby projection with an older roster drops the session; the same manifest then
  starts from fresh counters and the rider's next envelopes are taken for replays
  (`peer_session.rs:889`).
- A delta is refused from a lost keyframe to the next one (`v2.rs:1377`); after a
  succession, snapshots are refused until the new authority has passed the tick last
  shown (`replication.rs:60`).
- A request refused by its route's budget has been charged to the mutation budget
  already (`service.rs:3032`).
- A horse that slides down a steep slope keeps its `reverse_hold_time`
  (`locomotion.rs:1156`).

Two more are at odds with what is written, and named as exceptions in the property concerned:

- "A process restart must therefore move every active signed session into a fresh replay
  domain before a new key can be pinned" (`service.rs:584-586`): when the write of the new
  generation fails, the match is served on (`service.rs:594-596`, `main.rs:77`) and its
  generation signed with a second key (`OneKeyPerGeneration`, `unmoved`).
- Freshness of a device count is documented as counted from the completion of the poll
  (`spurfire-protocol/src/network_inspection.rs:278-293`, `docs/architecture.md:122`,
  `docs/control-plane-network-view.md:185`); the code counts from the call
  (`service.rs:507`, `538`). That is no later than the answer of the provider, which is why
  `InspectionIsTrue` can say that a fresh count was taken within the window; a count that
  waited is shown as fresh for a shorter time than documented.

## 4. Where code and documents disagree

| Run | Document | Code |
|---|---|---|
| `split` | `docs/prototype-plan.md:425` "Split-brain prevented by construction + existing epochs." | Two followers that do not hear each other elect themselves in the same epoch. Each then refuses the other's claim for good: an authority is never silent to itself. |
| `m3_live` | `docs/p2p-networking.md:28`, `game/scripts/lobby_peer_bridge.gd:255-256` | `poll_m3_migration` needs a canonical checkpoint before it elects, and the bridge advances a follower's tick and not its bank, so no follower ever migrates. |
| `early` | `docs/protected-alpha.md:37` "erases the exact vault version by CAS and readback, then releases the Lease" | `begin_protected_cleanup` makes any record `Closing` and `CleanupRequested`. A lobby that was already cleaned up is deleted again; its secret is erased, so the deletion fails for ever and the Lease is never released. |
| `dive_context` | `game/scripts/m2_gameplay.gd:97-98` "while combat still holds the previous authoritative stance" | When the remount is pressed in the tick in which the recovery ends, the weapon is mounted and then put back on foot by the replayed transition; the next frame's combat context is refused. |

## 5. Proofs

For every value of the constants: roster, election order, set of shots, number of
fragments, of lobbies, generations, tailnets, riders, invitations, calls, restarts
and faults; limits, windows, design rows, tick lengths and inputs.

| Theorem | Module | States |
|---|---|---|
| `TypeCorrect` | `PeerSessionProofs` | `Spec => []TypeOK` |
| `LiveAuthorityHolds` | `PeerSessionProofs` | `Spec => LiveAuthorityIsNotDeposed` |
| `ReignsOnce` | `PeerSessionProofs` | `Spec => []SingleReign` |
| `ShotsHitOnce` | `PeerSessionProofs` | `Spec => []NoDoubleHit` |
| `SuccessionIsOrderly` | `PeerSessionProofs` | `Spec => OrderlySuccession` |
| `EnvelopesStayFresh` | `PeerSessionProofs` | `Spec => []NextEnvelopeIsFresh` |
| `SessionKeepsLineage` | `PeerSessionProofs` | `Spec => ImplementsLineage` |
| `M3ReignsOnce` | `M3SessionProofs` | `Spec => []SingleReign` |
| `M3KeepsLineage` | `M3SessionProofs` | `Spec => ImplementsLineage` |
| `M3TypeCorrect` | `M3SessionProofs` | `Spec => []TypeOK` |
| `CheckpointsAreWhole` | `M3SessionProofs` | `Spec => []WholeCheckpoint` |
| `M3EnvelopesStayFresh` | `M3SessionProofs` | `Spec => []NextEnvelopeIsFresh` |
| `BankFollowsReign` | `M3SessionProofs` | `Spec => []BankFitsReign` |
| `CleanupKeepsOrder` | `CleanupSupervisorProofs` | `Spec => []CleanupInOrder` |
| `QuarantineHolds` | `CleanupSupervisorProofs` | `Spec => QuarantineIsFinal` |
| `NetworkIsCovered` | `LobbyNetworkProofs` | `Spec => []NothingIsStranded` |
| `CustodyHolds` | `ChildCustodyProofs` | `Spec => [](CustodyIsKept /\ ErasureIsFinal /\ CacheIsCustody)` |
| `BrokerIsFenced` | `ProtectedBrokerProofs` | `Bounds => (Spec => EffectsAreFenced)` |

The following are about a component that its run instantiates. Each has the
component's bounds as hypothesis and the component's own `Spec` as premise.

| Theorem | Module | Component | States |
|---|---|---|---|
| `AdmissionIsAccounted` | `LobbyNetworkProofs` | `LobbyAdmission` | `[]KeysAreAccountedFor` |
| `StoreIsSound` | `ServiceProofs` | `LobbyStore` | `[]StoreKeepsAdmission` |
| `SessionsStayBound` | `ServiceProofs` | `SessionBinding` | `SessionsAreBound` |
| `ReadinessIsElected` | `ServiceProofs` | `LobbyMatch` | `[](ReadyIsElected /\ MatchKeepsItsMatrix)` |
| `GenerationHasOneKey` | `ServiceProofs` | `LobbyMatch` | `[]OneKeyPerGeneration` |
| `EpochsMoveOn` | `ServiceProofs` | `LobbyMatch` | `[][EpochNamesOneElection /\ SuccessionAfterSilence]` |
| `CountsAreTrue` | `ServiceProofs` | `LobbyInspection` | `[](FreshCountIsRecent /\ NothingOutlivesTeardown)` |
| `SessionsStayApart` | `ServiceProofs` | `NativeClient` | `[](SessionsDoNotMix /\ OneWorker /\ ConnectionIsTrue /\ CodesAreTracked)` |
| `BudgetsHold` | `ServiceProofs` | `RequestBudget` | `[]BudgetHolds` |
| `RidersAreShown` | `M3SessionProofs` | `ActorReplication` | `[](SnapshotIsPublished /\ StanceIsDiscrete /\ RenderStaysNear)`, `[][NothingRewinds]` |
| `MotionStaysEarned` | `HorseLocomotionProofs` | `HorseLocomotion` | `[](JumpsAreEarned /\ SpeedIsEarned)`, `[][NoDiagonalLaunch]` |
| `HorsesReturnWhole` | `HorseLocomotionProofs` | `ActorGameplay` | `[](FreshTickSucceeds /\ OwnCheckpointRestores)`, `[][RecallFloor /\ HorseComesBackWhole]` |
| `DivesStayTrue` | `HorseLocomotionProofs` | `SaddleDive` | `[](ControllersFollowRider /\ DeathWindowIsTrue /\ RunoutEnds)`, `[][LandedRowsAreFinal]` |

Every inductive invariant below was checked by TLC, on the instance of the
component's run or on a larger one, before it was proved.

### Assumptions

Players are finitely many numbers and the first authority is one of them
(`PlayerAssumption`); a non-empty election order names every player
(`PreferenceAssumption`); shots are (player, tick) pairs and the bounds are numbers
(`ShotAssumption`); a checkpoint has at least one fragment (`M3Assumption`). `NoLobby`
is no lobby, there is at least one lobby, a deployment is direct or fresh, and the
fault bound is a number (`LobbyAssumption`, `DeploymentAssumption`,
`NetworkFaultAssumption`). TLC evaluates them in every run of the module concerned.

The theorems about components that `MCService` and `MCGameplay` instantiate carry
theirs as a hypothesis. The custody and the binding theorem need none.

| Hypothesis | Says |
|---|---|
| `Bounds` (broker) | bounds and first epoch are numbers |
| `AdmissionBounds` | issuances are counted, and 0, which stands for nobody, names no rider |
| `StoreBounds` | 0, which stands for no grant, is no grant; creations are counted |
| `MatchBounds` | players are finitely many positive numbers, a report is a measurement |
| `InspectionBounds` | the window is a number; a failure is neither "none" nor a count |
| `ClientBounds` | workers are counted |
| `BudgetBounds` | limits and windows are numbers |
| `ReplicationBounds` | snapshots have the same fields; lengths are numbers, the ring holds an entry, there is an epoch |
| `HorseBounds` | rows, percentages and times are numbers, there is a Mustang, and coyote time and buffer are at least a tick |
| `ActorBounds` | health, meters and times are numbers; a horse has health; what lasts, lasts a tick; the shortest recall is no longer than the usual one, the mount window no longer than the gallop |
| `DiveBounds` | a run-out takes a tick or more, distances and the death window are numbers |

### The peer sessions

1. `LeastIsMember` and `SuccessorSurvives`: an election over a non-empty set of
   survivors returns one of them.
2. `ReignerRefusesClaims`: no claim is coherent to a player that is its own
   authority. `AuthorityMoves`: whatever step is taken, authority and epoch of `p`
   change only if `p` is a follower, and `p` becomes its own authority only in the
   next epoch. `LiveAuthorityHolds` follows at once; `SuccessionIsOrderly` from the two
   ways an authority moves, a claim the receiver finds coherent and a migration after
   silence.
3. `NewEnvelope` lists the steps that can send each kind of envelope; a result or
   a handoff is signed by a player that reigns, in the epoch it reigns in, and by
   step 2 it stays there: `ReignsOnce`.
4. `NoDoubleHit` alone is not inductive: nothing in a bare count tells why the next
   result must be refused. `IInv` adds `OneCommandPerShot` (the envelopes about one
   shot are of one epoch, and there is at most one command) and `HitEvidence` (a
   player that was handed a result either accepted it, in an epoch before any it
   reigns in, and its applied set shows it, or resolved it itself, still reigns, and
   the command is behind its replay floor). A second result of the same shot would
   be of the same epoch and is refused by the applied set; a second resolution would
   need the one command above that floor, or a reign in an epoch already left.
   `ShotsHitOnce` follows.
5. `NextEnvelopeIsFresh` needs `SentBefore`: a floor moves up to the sequence of an
   envelope that is in the network, and every envelope there was numbered below its
   sender's counter, which only grows. On wire 2.0 a floor also jumps to the last
   fragment of a checkpoint, which is in the network too.
6. The refinement. With the types of step 1, a winning claim and a migration by
   timeout are each one step of `AuthorityLineage`, and every other action leaves
   authority and epoch alone: `SessionKeepsLineage`. On wire 2.0 a coherent claim is
   installed also when it names the authority the receiver already has, which is a
   stuttering step (`HandoffSucceeds`). There the lineage comes first and the reign
   follows from it: `RInv` is the part of the types a step needs (`RosterOK`) and
   `SingleReign`; a player that reigns has no step of the lineage (`ReignerStays`), and
   new fragments are signed by a player that has just come to reign (`NewFragment`).
   The refinement of wire 2.0 is proved and not run.
7. `WholeCheckpoint` needs `AllGathered`: the fragments a player has gathered are of one
   author, epoch and tick, and no two have one index; so when as many are gathered as a
   checkpoint has, every index is there. That last step is the one about cardinalities.

### The cleanup supervisor

`CInv`. `Ready` says what run_cleanup may rely on at each step: which entries its
ledger has, and which facts about tailnet and vault they stand for. The ledger in
memory is the committed one in the middle of a run (`Synced`), and between the two
files of a durable transition the entry on its way extends the head or repeats it
(`HalfWritten`): without the two, a crash between the files or a restored snapshot would
leave `Ready` a statement about a ledger nobody committed. A claim leaves memory one entry
ahead of the head; nothing is written or done from there.

### The lobby's network

`NetworkInv`. A record may be in three places: memory, the image on disk, which a
failed write leaves ahead of memory, and the handler that holds the lock. `Agrees`
says what a record in any of them implies about tailnet and secret, `Knows` what a
handler knows at each stage (the second observation found the tailnet absent; a
creation has left nothing yet), `Covers` that both images hold a creation under way
with its lease and show no Active record while a secret is erased (a deletion may be
under way, by the gate of a join: an Active record has its identity and its secret, and
that is what keeps it deletable), `Anchored` that
the first absence was seen of a tailnet being deleted. `NothingIsStranded` is not
inductive without them: a lease is given up on the word of a record, and the record was
written by a handler from what it was told before. The release of the external
Lease needs that the worker creates only the lobby it serves (`BrokerFits`) and creates
nothing after the deadline (`ReleaseFits`). One lemma covers every write: it commits, is
lost before or after the rename, or finds the record purged (`WriteCovers`).

### Custody, broker, admission

- `CustodyInv`: how far the file may be ahead of the vault's image, for one lobby
  (`Drift`); cache, service, calls and observations under way name the identity the image
  fits, a receipt of its erasure included (`Named`); erasures
  come after the deletion (`GoneBefore`); an acknowledged erasure is in both
  (`Settled`). One lobby's verification replaces the whole image by the file, so each
  part must hold for all lobbies at once.
- `FenceInv` and `LockStep`: last_sequence is a lock (`OneHolds`); whoever holds it knows
  the Lease as it is until its own swap, and after the swap every earlier effect is
  below the epoch it reserved (`Knows`). As long as every call was answered, the one
  handler there may be belongs to the one call sent.
- `KeysInv`: a live key is the recorded credential, the issuance in doubt or one that
  outlasted its record when a later one was reserved (`OnRecord`); while one is in doubt
  the credential before it is dead or outlasted (`OneInDoubt`). A reservation knows every
  live key made before it (`Overtaken`), and these are gone before its own record lapses
  (`LateGone`): so at most one is ever outlasting beside the one on record. The request
  that holds the lock is the newest issuance (`JoinFits`).

### Store, session, match

- `StoreInv`: both images, memory and disk, cover every unproved record with the lease and
  answer every key that is within its day; what the provider was paid with is marked
  as used in both (`Paid`). A lost write may leave disk ahead of memory and a restart makes
  it memory, so nothing may hold of memory alone.
- `BindingInv`: an answer under way that names the rider's present key is of no earlier
  generation than the one installed (`AnswersFollow`). `GenerationMovesOn` compares two
  sessions with any number of drops between them; it is inductive with the history
  variable `latest` only.
- `MatchInv`: what the lobby holds fits its state (`Fit`), the history of elections names
  one per epoch (`Reigns`), and every manifest of the current generation was signed by the
  key held, or a restart could not move the match on, or the lobby is closed
  (`SignedOnce`). That an election has a winner is the
  existence of a least element of a finite set of players ordered by score and id.

### Inspection, client, budget

- `InspectionInv`: a refresh was called before it asked and asked before it was answered
  (`WaitersAreEarlier`, `PollIsLater`), the same holds of what the cache keeps
  (`CacheIsOrdered`), and a lobby that was not created yet has neither (`Unborn`). It asks
  under the lock after it read the record, hence after any teardown the record tells of,
  whenever it was called.
- `ClientInv`: the lobby's half, in which no request, event or capability is ahead of the
  generation, and the peer's half: a worker that runs is the one whose thread is held, or
  was replaced and is sent nothing and heard by nobody (`Owned`); the one held was
  enrolled for this generation outside a reset (`Enrolled`); a worker that ended leaves
  that as its last event (`Ending`, `Connection`).
- `BudgetInv`: the window of a route is a subsequence of the accepted history, and
  everything it has dropped is older, in real time, than the window is long (`Kept`): a
  clock that is set back only makes entries stay longer. The bound follows by counting:
  accepted requests within the window inject into what the window held.

### Replication, horse, actor, dive

- `ReplicationInv`: at most one snapshot is published per epoch and tick (`Chronicle`), so
  that the base a delta names is one snapshot; sequence numbers grow with ticks
  (`Ordered`); what a session holds as base, or has shown, is of the history (`Session`).
- `HorseInv`: coyote time, jump buffer and recovery timer against the ages of the last floor
  contact, press and landing (`Timers`); kernel and engine body agree on the forward speed
  (`Paced`). The bound on the speed is the largest cap since the archetype changed.
- `ActorInv`: where the vitality kernel has the horse is where the recall kernel says it
  is, and both know one tick of its loss (`RecallFits`, with `Home` and `Away`). A phase of
  the return begins no earlier than the phases before it take: the proof goes through
  the boundaries of `PhaseAt`. No tick fails half way because the three kernels have
  always crossed the same ticks (`Crossed`).
- `DiveInv`: `Together` relates three controllers that a frame moves one after the other;
  off the horse the weapon holds the rider's own stance, so that only a frame of a rider
  in the saddle can be refused (section 4), when no horse runs. A row is open, or in the
  air, whenever anything but the landing changes it (`Touched`).

### Only model-checked

- Liveness (`Convergence`, `AuthorityLossIsSurvived`, `CleanupEnds`,
  `NetworkCleanupEnds`, `ProtectedCleanupEnds`) is beyond the prover.
- What compares a sum, a sort or a filter with a reference needs induction over data,
  which the provers here cannot do: `PeersElectAsTheService` (two sorts),
  `InspectionAnswers` (sums of observed paths), `ScoreboardAddsUp`,
  `WindowDamageCountedOnce`.
- `BountyMatch` and `M3Match`: `ScoresAddUp`, `ShotsAreEarned`, the match and bounty parts
  of `CheckpointsRestore` and the match part of `KernelsAgree`. Their steps fold a kernel
  over a roster or over skipped ticks. `DiveShotsAgree`, the other part of `KernelsAgree`
  about dives, counts rounds.
- `TypeOK` of `LobbyNetwork` documents its state and is not run; the proof has the part
  it needs (`Types`).

## 6. Not modelled

- Bytes: codecs, signatures, hashes, canonical JSON, roster and credential
  documents. The models assume what the checks establish.
- Fixed-point and floating-point motion, hit geometry, engine callbacks, scenes,
  HUD: no control that TLC could explore.
- Launchers, proof binaries, charts, the control client and the CLI's printing; the
  vendored tunnel.
- Turning, positions and collision of the horse; quantized dive trajectories; spread,
  recoil and rewind interpolation: their outcome is a choice.
- Of the lobby service: HTTP parsing, CORS, the reserved loopback lobby. Its modules meet
  in the record and are checked one at a time: a join that races a network cleanup is in
  `LobbyAdmission` as the closing of the lobby, not as the steps of `LobbyNetwork`.
- Size limits of the store, the vault and the ledger; schema upgrades of old files. A
  cleanup without a bound identity adds entries at every restart; `CleanupEnds` excludes
  it, and a caller that claims again and again.
- A power loss after a failed fsync of a directory: a rename that was seen stays.
- A quarantine of real creation is reached and not forbidden: the DELETE of a
  rejected creation overwrites its release proof and quarantines the store without
  any restart. It is the safe side (`service.rs:4280`).

## 7. Plan

The modules of the plan are written, and every component has a theorem except the bounty
match and the composed match. What is left, in this order:

1. `DiveShotsAgree`: the rounds of a dive are the shots on its row. It needs `DiveInv` with
   the ledger, and a count that grows by one element at a time.
2. `ObjectivesPayOnce` and `ScoreboardMigrates` of `BountyMatch`: both are about the state
   and not about a sequence of inputs, once one skipped tick is a lemma of its own.
3. `HealthAgrees` of `M3Match`: actors, registry and match on who is hurt, step by step of
   the authority's frame.

A run answers one question; where two components can share a run they should, and
the whole project should stay checkable in minutes.
