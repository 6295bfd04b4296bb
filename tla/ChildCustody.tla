---------------------------- MODULE ChildCustody ----------------------------
(* TailscaleProvider in tailnet_per_lobby mode with its encrypted vault: who *)
(* holds the OAuth client of a lobby's tailnet, on disk, in the vault's      *)
(* memory image and in the provider's cache of child clients.  Every write   *)
(* of the vault may fail before or after its rename, and the process may     *)
(* stop between any two awaits; it then starts again from the file.  The     *)
(* service runs at most one mutating call per lobby (its lobby lock);        *)
(* observations run beside it.  A tailnet is modelled by a number, a vault   *)
(* identity by the network generation and the tailnet, ciphertext by the     *)
(* identity it is bound to.                                                  *)
EXTENDS Naturals, FiniteSets

CONSTANTS
    Lobby,            \* lobby ids
    Generation,       \* network generations requested
    Gates,            \* MutationAuthorizations: deployment-wide, or one exact lobby
    MaxTailnets       \* tailnets created

VARIABLES
    gate,             \* MutationGatedProvider.authorization, never changed
    file,             \* the vault file
    image,            \* EncryptedChildVault.image
    cache,            \* TailscaleProvider.child_vault
    calls,            \* the mutating call of each lobby
    reads,            \* the child_access of each lobby's observation
    tailnets,         \* the organization's tailnets, by number
    known,            \* identities that prepare_lobby returned to the service
    erased            \* lobbies whose erasure was acknowledged

vars == <<gate, file, image, cache, calls, reads, tailnets, known, erased>>

None == [generation |-> 0, tailnet |-> 0]
Identity == [generation : Generation, tailnet : 1..MaxTailnets]

Idle == [op |-> "idle", id |-> None]

EmptyImage == [records |-> [l \in Lobby |-> None], erasures |-> [l \in Lobby |-> None]]

(* TailscaleProvider::new over a vault without a file. *)
Init ==
    /\ gate \in Gates
    /\ file = EmptyImage /\ image = EmptyImage
    /\ cache = [l \in Lobby |-> None]
    /\ calls = [l \in Lobby |-> Idle]
    /\ reads = [l \in Lobby |-> Idle]
    /\ tailnets = [t \in 1..MaxTailnets |-> "none"]
    /\ known = [l \in Lobby |-> None]
    /\ erased = {}
-----------------------------------------------------------------------------
(* EncryptedChildVault.                                                      *)

(* persist: the temporary file is written and synced, renamed over the vault *)
(* file, and the directory is synced.  Each can fail. *)
Persist(next, ok) ==
    \/ ~ok /\ file' \in {file, next}
    \/ ok /\ file' = next

(* put_if_absent, from the image in memory. *)

PutConflicts(l, id) ==
    \/ image.records[l] \notin {None, id}
    \/ image.records[l] = None /\ image.erasures[l] # None

(* Fault: memory is ahead of a write that fails. *)
PutInMemoryFirst(l, id, ok) ==
    IF PutConflicts(l, id) THEN ~ok /\ UNCHANGED <<file, image>>
    ELSE IF image.records[l] = id THEN ok /\ UNCHANGED <<file, image>>
    ELSE LET next == [image EXCEPT !.records[l] = id]
         IN  Persist(next, ok) /\ image' = next

Put(l, id, ok) ==
    IF PutConflicts(l, id) THEN ~ok /\ UNCHANGED <<file, image>>
    ELSE IF image.records[l] = id THEN ok /\ UNCHANGED <<file, image>>
    ELSE LET next == [image EXCEPT !.records[l] = id]
         IN  Persist(next, ok) /\ image' = IF ok THEN next ELSE image

(* get_exact: the authenticated data binds the ciphertext to the identity.   *)
GetExact(vault, l, id) == vault.records[l] = id

(* delete_cas: refused when the exact record is gone meanwhile; the receipt  *)
(* replaces the record, and memory takes over what is read back; the read    *)
(* may fail after the write succeeded.                                       *)
DeleteCas(l, id, ok) ==
    IF image.records[l] # id THEN ~ok /\ UNCHANGED <<file, image>>
    ELSE LET next == [records |-> [image.records EXCEPT ![l] = None],
                      erasures |-> [image.erasures EXCEPT ![l] = id]]
         IN  Persist(next, ok) /\ image' = IF ok THEN next ELSE image

(* verify_erased: the file, not the image, proves it. *)
Erased(l, id) == file.records[l] = None /\ file.erasures[l] = id
VerifyErased(l, id) ==
    /\ Erased(l, id)
    /\ image' = file

HasErasureReceipt(vault, l, id) == vault.records[l] = None /\ vault.erasures[l] = id
-----------------------------------------------------------------------------
(* TailscaleProvider.                                                        *)

(* child_access: the cached client when it is the exact tuple's; else the    *)
(* one of the vault, which is then cached.  A mutating call holds the lobby  *)
(* lock throughout: only an observation can come between its three locks,    *)
(* and that one files the same client.                                       *)
Access(l, id) ==
    \/ cache[l] = id /\ UNCHANGED cache
    \/ /\ cache[l] = None /\ GetExact(image, l, id)
       /\ cache' = [cache EXCEPT ![l] = id]

Begin(l, op, id) == calls' = [calls EXCEPT ![l] = [op |-> op, id |-> id]]
Return(l) == calls' = [calls EXCEPT ![l] = Idle]
Answered(l, id) == known' = [known EXCEPT ![l] = id]

(* delete_tailnet: refused, done, or done with the answer lost. *)
Deleted(t) == tailnets' \in {tailnets, [tailnets EXCEPT ![t] = "gone"]}

(* MutationGatedProvider::require_exact, in front of every mutating call; an *)
(* observation passes. *)
Authorized(l, g) == gate.wide \/ (gate.lobby = l /\ gate.generation = g)

(* prepare_lobby under child_create_lock, up to its first await: a client    *)
(* that the cache or the vault holds is used again. *)
Creating == \E l \in Lobby : calls[l].op \in {"create", "put", "gate"}
Prepare(l, g) ==
    /\ calls[l] = Idle /\ ~Creating /\ Authorized(l, g)
    /\ \/ /\ cache[l] # None /\ cache[l].generation = g
          /\ Begin(l, "gate", cache[l]) /\ UNCHANGED cache
       \/ /\ cache[l] = None /\ image.records[l] # None /\ image.records[l].generation = g
          /\ cache' = [cache EXCEPT ![l] = image.records[l]]
          /\ Begin(l, "gate", image.records[l])
       \/ /\ cache[l] = None /\ image.records[l] = None
          /\ Begin(l, "create", [generation |-> g, tailnet |-> 0]) /\ UNCHANGED cache
    /\ UNCHANGED <<gate, file, image, tailnets, known, erased, reads>>

(* create_tailnet: the answer may be lost after the tailnet was created. *)
CreateTailnet(l) ==
    /\ calls[l].op = "create"
    /\ \E t \in 1..MaxTailnets :
           /\ tailnets[t] = "none" /\ \A s \in 1..(t - 1) : tailnets[s] # "none"
           /\ \/ /\ tailnets' = [tailnets EXCEPT ![t] = "live"]
                 /\ \/ Begin(l, "put", [calls[l].id EXCEPT !.tailnet = t])
                    \/ Return(l)
              \/ UNCHANGED tailnets /\ Return(l)
    /\ UNCHANGED <<gate, file, image, cache, known, erased, reads>>

(* The vault first, then the cache. *)
StoreSecret(l) ==
    /\ calls[l].op = "put"
    /\ \E ok \in BOOLEAN :
           /\ Put(l, calls[l].id, ok)
           /\ cache' = IF ok THEN [cache EXCEPT ![l] = calls[l].id] ELSE cache
           /\ IF ok THEN Begin(l, "gate", calls[l].id) ELSE Return(l)
    /\ UNCHANGED <<gate, tailnets, known, erased, reads>>

(* gate_child_policy_or_cleanup: a policy that is not verified deletes the   *)
(* tailnet; either answer carries the identity, and custody is kept. *)
GatePolicy(l) ==
    /\ calls[l].op \in {"gate", "mint_gate"}
    /\ \/ /\ tailnets[calls[l].id.tailnet] = "live" /\ UNCHANGED tailnets
          /\ IF calls[l].op = "gate" THEN Return(l) ELSE Begin(l, "key", calls[l].id)
       \/ Deleted(calls[l].id.tailnet) /\ Return(l)
    /\ IF calls[l].op = "gate" THEN Answered(l, calls[l].id) ELSE UNCHANGED known
    /\ UNCHANGED <<gate, file, image, cache, erased, reads>>

(* mint_credential: access, the policy again, then the key. *)
Mint(l) ==
    /\ calls[l] = Idle /\ known[l] # None /\ Authorized(l, known[l].generation)
    /\ Access(l, known[l]) /\ Begin(l, "mint_gate", known[l])
    /\ UNCHANGED <<gate, file, image, tailnets, known, erased, reads>>

CreateAuthKey(l) ==
    /\ calls[l].op = "key" /\ Return(l)
    /\ UNCHANGED <<gate, file, image, cache, tailnets, known, erased, reads>>

(* cleanup_child_tailnet with its devices. *)
Cleanup(l) ==
    /\ calls[l] = Idle /\ known[l] # None /\ Authorized(l, known[l].generation)
    /\ Access(l, known[l]) /\ Begin(l, "delete", known[l])
    /\ UNCHANGED <<gate, file, image, tailnets, known, erased, reads>>

DeleteTailnet(l) ==
    /\ calls[l].op = "delete"
    /\ Deleted(calls[l].id.tailnet) /\ Return(l)
    /\ UNCHANGED <<gate, file, image, cache, known, erased, reads>>

(* observe_network holds the lobby's observation lock and not the lobby      *)
(* lock: a mutating call may run between the three locks of its child_access. *)
Look(l, op, id) == reads' = [reads EXCEPT ![l] = [op |-> op, id |-> id]]

(* The cache holds no client of the lobby. *)
ObserveCache(l) ==
    /\ reads[l] = Idle /\ known[l] # None /\ cache[l] = None
    /\ Look(l, "missed", known[l])
    /\ UNCHANGED <<gate, file, image, cache, calls, tailnets, known, erased>>

ObserveVault(l) ==
    /\ reads[l].op = "missed"
    /\ IF GetExact(image, l, reads[l].id)
       THEN Look(l, "fetched", reads[l].id)
       ELSE reads' = [reads EXCEPT ![l] = Idle]
    /\ UNCHANGED <<gate, file, image, cache, calls, tailnets, known, erased>>

(* What was read is cached, whatever became of it meanwhile. *)
ObserveFill(l) ==
    /\ reads[l].op = "fetched"
    /\ cache' = [cache EXCEPT ![l] = reads[l].id]
    /\ reads' = [reads EXCEPT ![l] = Idle]
    /\ UNCHANGED <<gate, file, image, calls, tailnets, known, erased>>

(* erase_child_secret, once the service saw the tailnet absent. *)
EraseChildSecret(l) ==
    /\ calls[l] = Idle /\ known[l] # None /\ Authorized(l, known[l].generation)
    /\ tailnets[known[l].tailnet] = "gone"
    /\ cache[l] \in {None, known[l]}
    /\ \/ GetExact(image, l, known[l]) /\ Begin(l, "erase", known[l])
       \/ image.records[l] = None /\ Begin(l, "verify", known[l])
    /\ UNCHANGED <<gate, file, image, cache, tailnets, known, erased, reads>>

EraseRecord(l) ==
    /\ calls[l].op = "erase"
    /\ \E ok \in BOOLEAN :
           /\ DeleteCas(l, calls[l].id, ok)
           /\ IF ok THEN Begin(l, "verify", calls[l].id) ELSE Return(l)
    /\ UNCHANGED <<gate, cache, tailnets, known, erased, reads>>

(* The cached client is dropped last. *)
VerifyErasure(l) ==
    /\ calls[l].op = "verify" /\ Return(l)
    /\ \/ /\ VerifyErased(l, calls[l].id)
          /\ cache' = [cache EXCEPT ![l] = None]
          /\ erased' = erased \cup {l}
       \/ UNCHANGED <<image, cache, erased>>
    /\ UNCHANGED <<gate, file, tailnets, known, reads>>

(* The process stops and opens the vault again. *)
Restart ==
    /\ image' = file
    /\ cache' = [l \in Lobby |-> None]
    /\ calls' = [l \in Lobby |-> Idle]
    /\ reads' = [l \in Lobby |-> Idle]
    /\ UNCHANGED <<gate, file, tailnets, known, erased>>

Next ==
    \/ \E l \in Lobby :
        \/ \E g \in Generation : Prepare(l, g)
        \/ CreateTailnet(l) \/ StoreSecret(l) \/ GatePolicy(l) \/ Mint(l) \/ CreateAuthKey(l)
        \/ Cleanup(l) \/ DeleteTailnet(l)
        \/ ObserveCache(l) \/ ObserveVault(l) \/ ObserveFill(l)
        \/ EraseChildSecret(l) \/ EraseRecord(l) \/ VerifyErasure(l)
    \/ Restart

Spec == Init /\ [][Next]_vars
-----------------------------------------------------------------------------
(* What the service asks of custody at startup and before new work. *)

(* lobby_access_error. *)
HasAccess(l) == cache[l] # None \/ image.records[l] # None

(* validate_child_custody, on an image. *)
ValidChildCustody(vault, l, id) == GetExact(vault, l, id) \/ HasErasureReceipt(vault, l, id)

(* A tailnet that was handed to the service stays reachable: after any       *)
(* failed write, and after a restart at any point, the vault holds the exact *)
(* secret or the exact receipt of its erasure, never neither; and a live one *)
(* is never reported as child_secret_unavailable.                            *)
CustodyIsKept ==
    \A l \in Lobby : known[l] # None =>
        /\ \A vault \in {file, image} : ValidChildCustody(vault, l, known[l])
        /\ tailnets[known[l].tailnet] = "live" => HasAccess(l)

(* An acknowledged erasure is final: no later write brings the secret back   *)
(* into the file or the image.  An observation that had read the vault may   *)
(* still cache the client afterwards, but only one whose tailnet is gone.    *)
ErasureIsFinal ==
    \A l \in erased :
        /\ file.records[l] = None /\ image.records[l] = None
        /\ cache[l] # None => tailnets[cache[l].tailnet] = "gone"

(* A cached client is the one in the file, or the file already holds the     *)
(* receipt of exactly its erasure: a restart never loses what was in use.    *)
CacheIsCustody ==
    \A l \in Lobby : cache[l] # None =>
        file.records[l] = cache[l] \/ file.erasures[l] = cache[l]
=============================================================================
