--------------------------- MODULE SessionBinding ---------------------------
(***************************************************************************)
(* How one rider's client binds its secure session to what the lobby       *)
(* service projects: the session key and pinned manifest key of            *)
(* PeerSession (spurfire-gdext/src/peer_session.rs), the roster binding of *)
(* lobby_peer_bridge.gd and the handlers of lobby_shell.gd that drive      *)
(* them.                                                                   *)
(*                                                                         *)
(* The service side is what LobbyMatch models, reduced to what an answer   *)
(* carries.  Every request runs on a thread of its own, so the answers     *)
(* arrive in any order, and an old one may be applied after a newer one.   *)
(* The other riders are one bit: whether all of them are registered.       *)
(***************************************************************************)
EXTENDS Integers, FiniteSets

CONSTANTS
    Roster,         \* the rosters this rider may be in
    MaxGeneration, MaxRevision, MaxKeys, MaxAnswers, MaxSequence,
    MaxRegistrations  \* bounds

VARIABLES
    service,   \* the lobby as the service keeps it
    requests,  \* registrations under way
    answers,   \* answers under way
    shell,     \* what lobby_shell.gd remembers of the projections
    peer,      \* keys and session of PeerSession
    keys,      \* session keys generated so far
    latest     \* history: the generation of the session installed last

vars == <<service, requests, answers, shell, peer, keys, latest>>

NoKey == 0
NoSession == [generation |-> 0]

\* One roster at the start; the service signs with its first manifest key and
\* the rider has joined: _on_joined has bound both keys for generation 1.
Init ==
    \E r \in Roster :
        /\ service = [generation |-> 1, revision |-> 1, roster |-> r, signer |-> 1,
                      key |-> NoKey, keyRevision |-> 0, sequence |-> 0, others |-> FALSE]
        /\ requests = {}
        /\ answers = {}
        /\ shell = [generation |-> 1, signer |-> 1, revision |-> 1, registered |-> FALSE,
                    registeredRevision |-> 0, sequence |-> 0, leaving |-> FALSE]
        /\ peer = [key |-> 1, keyGeneration |-> 1, pinned |-> [generation |-> 1, signer |-> 1],
                   allowed |-> r, session |-> NoSession, next |-> 1, last |-> 0]
        /\ keys = 1 /\ latest = 0

-----------------------------------------------------------------------------
\* session_projection: secure once every member is registered at the current
\* revision.  The manifest names the rider's own key, the others by its
\* revision and generation.

Secure(s) == s.others /\ s.key # NoKey /\ s.keyRevision = s.revision

Projection(s) ==
    [generation |-> s.generation, revision |-> s.revision, roster |-> s.roster,
     signer |-> s.signer, secure |-> Secure(s), key |-> s.key]

Answer(kind, s) == [kind |-> kind, is |-> Projection(s)]

Room == Cardinality(answers) + Cardinality(requests) < MaxAnswers

\* api.poll_lobby, once a second.
Poll ==
    /\ Room /\ ~shell.leaving
    /\ answers' = answers \cup {Answer("Lobby", service)}
    /\ UNCHANGED <<service, requests, shell, peer, keys, latest>>

\* A rider joins or leaves.  Registrations of the former revision are no
\* longer projected.
RosterChanges ==
    \E r \in Roster \ {service.roster} :
        /\ service.revision < MaxRevision
        /\ service' = [service EXCEPT !.roster = r, !.revision = @ + 1, !.others = FALSE]
        /\ UNCHANGED <<requests, answers, shell, peer, keys, latest>>

OthersRegister ==
    /\ ~service.others
    /\ service' = [service EXCEPT !.others = TRUE]
    /\ UNCHANGED <<requests, answers, shell, peer, keys, latest>>

\* start_lobby, by this rider or by another: a new session generation without
\* registrations.  Only the one who pressed start gets the answer.
StartLobby(pressed) ==
    /\ Secure(service) /\ service.generation < MaxGeneration
    /\ pressed => Room /\ ~shell.leaving
    /\ service' = [service EXCEPT !.generation = @ + 1, !.key = NoKey, !.keyRevision = 0,
                                  !.sequence = 0, !.others = FALSE]
    /\ answers' = IF pressed THEN answers \cup {Answer("Started", service')} ELSE answers
    /\ UNCHANGED <<requests, shell, peer, keys, latest>>

\* The service restarts: manifest key and registrations lived in memory.
Restart ==
    /\ service.generation < MaxGeneration
    /\ service' = [service EXCEPT !.generation = @ + 1, !.signer = @ + 1, !.key = NoKey,
                                  !.keyRevision = 0, !.sequence = 0, !.others = FALSE]
    /\ UNCHANGED <<requests, answers, shell, peer, keys, latest>>

\* register_session_endpoint: the key is checked against the revision, not
\* against the session generation, and replaces an older registration.
RegisterEndpoint(r) ==
    /\ r \in requests
    /\ requests' = requests \ {r}
    /\ IF r.revision = service.revision /\ r.sequence > service.sequence
       THEN /\ service' = [service EXCEPT !.key = r.key, !.keyRevision = r.revision,
                                          !.sequence = r.sequence]
            /\ answers' = answers \cup {Answer("Registered", service')}
       ELSE UNCHANGED <<service, answers>>
    /\ UNCHANGED <<shell, peer, keys, latest>>

-----------------------------------------------------------------------------
\* PeerSession.  Each operator is the state it leaves behind.

\* generate_session_key: one key per generation, drawn when the generation
\* changes; sessions of the former key are dropped.
NeedsKey(p, generation) == p.keyGeneration # generation

Generate(p, generation) ==
    IF NeedsKey(p, generation)
    THEN [p EXCEPT !.key = keys + 1, !.keyGeneration = generation, !.session = NoSession]
    ELSE p

\* bind_manifest_key: a changed key needs a newer generation while a secure
\* session is installed.
MayBind(p, signer, generation) ==
    \/ signer = p.pinned.signer
    \/ generation > p.pinned.generation
    \/ p.session = NoSession

Bind(p, signer, generation) ==
    [p EXCEPT !.pinned = [generation |-> generation, signer |-> signer]]

Rebind(p, signer, generation) == Generate(Bind(p, signer, generation), generation)

\* configure_roster_session and activate_m3_wire: a new roster starts from an
\* unsecured session.
ConfigureRoster(p, roster) ==
    IF roster = p.allowed THEN p
    ELSE [p EXCEPT !.allowed = roster, !.session = NoSession]

\* Fault: neither the generation nor the key of the manifest is compared with
\* the rider's own.
InstallableByRoster(p, a) ==
    /\ a.secure
    /\ a.generation = p.pinned.generation /\ a.signer = p.pinned.signer
    /\ a.roster = p.allowed

\* configure_secure_session: the manifest must be of the generation of the
\* key and of the pin, signed by the pinned key, for the allowed roster, and
\* name the rider's own key.
Installable(p, a) ==
    /\ a.secure
    /\ a.generation = p.keyGeneration
    /\ a.generation = p.pinned.generation /\ a.signer = p.pinned.signer
    /\ a.roster = p.allowed
    /\ a.key = p.key

Manifest(a) ==
    [generation |-> a.generation, revision |-> a.revision, roster |-> a.roster,
     signer |-> a.signer, key |-> a.key]

\* The replay state is kept when the manifest is the installed one.
ConfigureSecure(p, a) ==
    IF ~Installable(p, a) THEN p
    ELSE IF p.session = Manifest(a) THEN p
    ELSE [p EXCEPT !.session = Manifest(a), !.next = 1, !.last = 0]

ApplyProjection(p, a) == ConfigureSecure(ConfigureRoster(p, a.roster), a)

\* _try_register_endpoint
Registers(sh, p, forced) ==
    IF (sh.registered /\ ~forced) \/ sh.leaving THEN {}
    ELSE {[key |-> p.key, revision |-> sh.revision, sequence |-> sh.sequence + 1]}

Send(sh, p, forced) ==
    /\ sh.sequence + Cardinality(Registers(sh, p, forced)) <= MaxRegistrations
    /\ requests' = requests \cup Registers(sh, p, forced)
    /\ shell' = [sh EXCEPT !.sequence = @ + Cardinality(Registers(sh, p, forced))]
    /\ peer' = p
    /\ keys' = IF p.key > keys THEN p.key ELSE keys

KeyBound(p, generation) == NeedsKey(p, generation) => keys < MaxKeys

\* _on_lobby_updated
LobbyUpdated(a) ==
    LET changed == a.generation # shell.generation \/ a.signer # shell.signer
        bound == IF changed THEN Rebind(peer, a.signer, a.generation) ELSE peer
        seen == [shell EXCEPT !.generation = a.generation, !.signer = a.signer,
                              !.registered = @ /\ ~changed]
        counted == IF a.revision = seen.revision THEN seen
                   ELSE [seen EXCEPT !.revision = a.revision,
                                     !.registered = seen.registeredRevision = a.revision]
    IN /\ KeyBound(peer, a.generation)
       /\ IF changed /\ ~MayBind(peer, a.signer, a.generation)
          THEN /\ shell' = [shell EXCEPT !.leaving = TRUE]
               /\ UNCHANGED <<requests, peer, keys>>
          ELSE Send(counted, ApplyProjection(bound, a), FALSE)

\* _on_started
Started(a) ==
    /\ KeyBound(peer, a.generation)
    /\ IF a.generation <= shell.generation \/ ~MayBind(peer, shell.signer, a.generation)
       THEN /\ shell' = [shell EXCEPT !.leaving = TRUE]
            /\ UNCHANGED <<requests, peer, keys>>
       ELSE Send([shell EXCEPT !.generation = a.generation, !.registered = FALSE],
                 Rebind(peer, shell.signer, a.generation), TRUE)

\* _on_endpoint_registered
Registered(a) ==
    /\ shell' = [shell EXCEPT !.registered = TRUE, !.registeredRevision = a.revision]
    /\ peer' = ApplyProjection(peer, a)
    /\ UNCHANGED <<requests, keys>>

Receive(answer) ==
    /\ answer \in answers /\ ~shell.leaving
    /\ answers' = answers \ {answer}
    /\ \/ answer.kind = "Lobby" /\ LobbyUpdated(answer.is)
       \/ answer.kind = "Started" /\ Started(answer.is)
       \/ answer.kind = "Registered" /\ Registered(answer.is)
    /\ latest' = IF peer'.session = NoSession THEN latest ELSE peer'.session.generation
    /\ UNCHANGED service

\* Every thirty seconds the registration is renewed.
Renew ==
    /\ Room /\ ~shell.leaving
    /\ Send(shell, peer, TRUE)
    /\ UNCHANGED <<service, answers, latest>>

\* A signed envelope goes out; one of the others' comes in.
Exchange ==
    /\ peer.session # NoSession /\ peer.next < MaxSequence
    /\ peer' = [peer EXCEPT !.next = @ + 1, !.last = @ + 1]
    /\ UNCHANGED <<service, requests, answers, shell, keys, latest>>

Next ==
    \/ Poll \/ RosterChanges \/ OthersRegister \/ Restart \/ Renew \/ Exchange
    \/ \E pressed \in BOOLEAN : StartLobby(pressed)
    \/ \E r \in requests : RegisterEndpoint(r)
    \/ \E answer \in answers : Receive(answer)

Spec == Init /\ [][Next]_vars

-----------------------------------------------------------------------------
\* However late the answers are, an installed session is the one the rider can
\* sign for: its manifest names the key the client holds, for the generation
\* the key was drawn for, and the roster the match runs with
\* (generate_session_key, configure_secure_session).
InstalledIsBound ==
    peer.session # NoSession =>
        /\ peer.session.key = peer.key
        /\ peer.session.generation = peer.keyGeneration
        /\ peer.session.roster = peer.allowed

\* An answer overtaken by a restart or a start never brings back a session of
\* an earlier generation, not even after the session was dropped: the key it
\* names is gone, even though the client follows the stale answer's generation
\* back and forth (_on_lobby_updated, configure_secure_session).
GenerationMovesOn ==
    peer'.session # NoSession => peer'.session.generation >= latest

\* A further projection of the installed manifest leaves the replay state
\* alone: no sequence number is signed twice, none accepted twice
\* (existing_state in configure_secure_session).
ProjectionKeepsReplay ==
    peer.session # NoSession /\ peer'.session = peer.session =>
        peer'.next >= peer.next /\ peer'.last >= peer.last

\* The three together, of every step.
SessionsAreBound == [][InstalledIsBound' /\ GenerationMovesOn /\ ProjectionKeepsReplay]_vars
=============================================================================
