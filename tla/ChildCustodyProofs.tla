-------------------------- MODULE ChildCustodyProofs --------------------------
(* Custody of a lobby's OAuth client, for any number of lobbies, generations *)
(* and tailnets.  The vault's image and its file drift apart at every write  *)
(* that fails after its rename, and one lobby's verify_erased replaces the   *)
(* whole image by the file.  The invariant says how far they may drift for   *)
(* one lobby, and that the cache, the calls on their way and the service's   *)
(* records all name the identity that the image holds or has a receipt of.   *)
EXTENDS ChildCustody, TLAPS

Slot == Identity \cup {None}
Vault == [records : [Lobby -> Slot], erasures : [Lobby -> Slot]]

(* Calls that carry the identity of a tailnet. *)
Bound == {"put", "gate", "mint_gate", "key", "delete", "erase", "verify"}
Call == [op : {"idle"}, id : {None}]
        \cup [op : {"create"}, id : [generation : Generation, tailnet : {0}]]
        \cup [op : Bound, id : Identity]
Reading == [op : {"idle"}, id : {None}] \cup [op : {"missed", "fetched"}, id : Identity]

TypeOK ==
    /\ file \in Vault /\ image \in Vault
    /\ cache \in [Lobby -> Slot]
    /\ calls \in [Lobby -> Call]
    /\ reads \in [Lobby -> Reading]
    /\ tailnets \in [1..MaxTailnets -> {"none", "live", "gone"}]
    /\ known \in [Lobby -> Slot]
    /\ erased \subseteq Lobby

(* The vault holds the identity's secret, or the receipt of its erasure. *)
Holds(vault, l, id) == vault.records[l] = id /\ vault.erasures[l] = None
HasReceipt(vault, l, id) == vault.records[l] = None /\ vault.erasures[l] = id
Fits(vault, l, id) == Holds(vault, l, id) \/ HasReceipt(vault, l, id)

(* How far the file may be ahead of the image: a put or an erasure of the    *)
(* same identity.  The image is never ahead of the file. *)
Drift(l) ==
    /\ image.records[l] # None =>
           image.erasures[l] = None /\ Fits(file, l, image.records[l])
    /\ image.records[l] = None /\ image.erasures[l] # None =>
           HasReceipt(file, l, image.erasures[l])
    /\ image.records[l] = None /\ image.erasures[l] = None =>
           file.erasures[l] = None

(* Whoever uses a client, or was told of its tailnet, names the identity the *)
(* image fits. *)
Named(l) ==
    /\ cache[l] # None => Fits(image, l, cache[l])
    /\ known[l] # None => Fits(image, l, known[l])
    /\ calls[l].op = "gate" => Fits(image, l, calls[l].id)
    /\ reads[l].op # "idle" => Fits(image, l, reads[l].id)

(* A secret is erased only after its tailnet is gone. *)
GoneBefore(l) ==
    /\ \A vault \in {file, image} :
           vault.erasures[l] # None => tailnets[vault.erasures[l].tailnet] = "gone"
    /\ calls[l].op = "erase" => tailnets[calls[l].id.tailnet] = "gone"

(* After the acknowledgement image and file hold the same receipt. *)
Settled(l) ==
    l \in erased => image.records[l] = None /\ image.erasures[l] # None

CustodyInv ==
    /\ TypeOK
    /\ \A l \in Lobby : Drift(l) /\ Named(l) /\ GoneBefore(l) /\ Settled(l)
-----------------------------------------------------------------------------
LEMMA NoneIsNoIdentity == None \notin Identity
BY DEF None, Identity

(* The calls of one lobby move from Call to Call. *)
LEMMA CallsStep ==
    ASSUME NEW l \in Lobby, calls \in [Lobby -> Call],
           \/ \E op \in Bound, id \in Identity : Begin(l, op, id)
           \/ \E g \in Generation : Begin(l, "create", [generation |-> g, tailnet |-> 0])
           \/ Return(l)
           \/ UNCHANGED calls
    PROVE  /\ calls' \in [Lobby -> Call]
           /\ \A m \in Lobby \ {l} : calls'[m] = calls[m]
BY DEF Begin, Return, Idle, Call, None

(* delete_tailnet and create_tailnet leave a tailnet that is gone alone. *)
LEMMA GoneStays ==
    ASSUME TypeOK, NEW t \in 1..MaxTailnets,
           \/ Deleted(t)
           \/ tailnets[t] = "none" /\ tailnets' = [tailnets EXCEPT ![t] = "live"]
           \/ UNCHANGED tailnets
    PROVE  /\ tailnets' \in [1..MaxTailnets -> {"none", "live", "gone"}]
           /\ \A s \in 1..MaxTailnets : tailnets[s] = "gone" => tailnets'[s] = "gone"
BY DEF TypeOK, Deleted

LEMMA CustodyInit == Init => CustodyInv
BY NoneIsNoIdentity
   DEF Init, CustodyInv, TypeOK, Drift, Named, GoneBefore, Settled, EmptyImage, Vault, Slot,
       Call, Reading, Idle, None

(* The actions that leave the vault alone. *)
LEMMA VaultAlone ==
    ASSUME CustodyInv, NEW l \in Lobby,
           UNCHANGED <<file, image>>,
           cache' \in [Lobby -> Slot], calls' \in [Lobby -> Call],
           tailnets' \in [1..MaxTailnets -> {"none", "live", "gone"}],
           known' \in [Lobby -> Slot], UNCHANGED erased,
           \/ UNCHANGED reads
           \/ /\ reads' \in [Lobby -> Reading] /\ \A m \in Lobby \ {l} : reads'[m] = reads[m]
              /\ reads'[l].op # "idle" => Fits(image, l, reads'[l].id),
           \A m \in Lobby \ {l} :
               calls'[m] = calls[m] /\ cache'[m] = cache[m] /\ known'[m] = known[m],
           \A s \in 1..MaxTailnets : tailnets[s] = "gone" => tailnets'[s] = "gone",
           \/ cache'[l] \in {cache[l], image.records[l]}
           \/ reads[l].op # "idle" /\ cache'[l] = reads[l].id,
           known'[l] # known[l] => calls[l].op = "gate" /\ known'[l] = calls[l].id,
           calls'[l].op = "gate" => Fits(image, l, calls'[l].id),
           calls'[l].op = "erase" => tailnets'[calls'[l].id.tailnet] = "gone"
    PROVE  CustodyInv'
<1>1. TypeOK'
  BY DEF CustodyInv, TypeOK
<1>2. ASSUME NEW m \in Lobby
      PROVE  Drift(m)' /\ Settled(m)'
  <2>1. Drift(m)'
    BY DEF CustodyInv, Drift, Fits, Holds, HasReceipt
  <2>2. Settled(m)'
    <3>1. CASE m = l
      BY <3>1 DEF CustodyInv, Settled
    <3>2. CASE m # l
      BY <3>2 DEF CustodyInv, Settled
    <3> QED BY <3>1, <3>2
  <2> QED BY <2>1, <2>2
<1>3. ASSUME NEW m \in Lobby
      PROVE  Named(m)'
  <2>1. CASE m = l
    <3>1. cache'[l] # None => Fits(image, l, cache'[l])
      BY DEF CustodyInv, Drift, Named, Fits, Holds
    <3>2. known'[l] # None => Fits(image, l, known'[l])
      BY DEF CustodyInv, Named
    <3>3. reads'[l].op # "idle" => Fits(image, l, reads'[l].id)
      BY DEF CustodyInv, Named
    <3> QED BY <2>1, <3>1, <3>2, <3>3 DEF Named, Fits, Holds, HasReceipt
  <2>2. CASE m # l
    BY <2>2 DEF CustodyInv, Named, Fits, Holds, HasReceipt
  <2> QED BY <2>1, <2>2
<1>4. ASSUME NEW m \in Lobby
      PROVE  GoneBefore(m)'
  <2>0. /\ file.erasures[m] \in Slot /\ image.erasures[m] \in Slot
        /\ calls[m].op = "erase" => calls[m].id \in Identity
    BY DEF CustodyInv, TypeOK, Vault, Call, Bound
  <2>1. \A id \in Identity : id.tailnet \in 1..MaxTailnets
    BY DEF Identity
  <2>2. CASE m = l
    BY <2>0, <2>1, <2>2 DEF CustodyInv, GoneBefore, Slot
  <2>3. CASE m # l
    BY <2>0, <2>1, <2>3 DEF CustodyInv, GoneBefore, Slot
  <2> QED BY <2>2, <2>3
<1> QED BY <1>1, <1>2, <1>3, <1>4 DEF CustodyInv

(* A lobby whose record another lobby's write took from the image, or        *)
(* another's read took from the file, or that only a restart touched. *)
Same(v, w, m) == v.records[m] = w.records[m] /\ v.erasures[m] = w.erasures[m]

LEMMA OtherLobby ==
    ASSUME CustodyInv, NEW m \in Lobby,
           cache'[m] \in {cache[m], None}, calls'[m] \in {calls[m], Idle},
           reads'[m] \in {reads[m], Idle},
           UNCHANGED <<known, tailnets>>, m \in erased' => m \in erased,
           \/ Same(image', image, m) /\ (Same(file', file, m) \/ Same(file', image, m))
           \/ Same(image', file, m) /\ Same(file', file, m)
    PROVE  Drift(m)' /\ Named(m)' /\ GoneBefore(m)' /\ Settled(m)'
<1>0. Drift(m) /\ Named(m) /\ GoneBefore(m) /\ Settled(m)
  BY DEF CustodyInv
<1>1. \A id \in Identity : id # None
  BY NoneIsNoIdentity
<1>2. /\ file.records[m] \in Slot /\ file.erasures[m] \in Slot
      /\ image.records[m] \in Slot /\ image.erasures[m] \in Slot
  BY DEF CustodyInv, TypeOK, Vault
<1>3. Drift(m)'
  BY <1>0, <1>2 DEF Drift, Fits, Holds, HasReceipt, Same
<1>4. ASSUME NEW id, id # None, Fits(image, m, id)
      PROVE  Fits(image', m, id)
  BY <1>0, <1>4 DEF Drift, Fits, Holds, HasReceipt, Same
<1>5. Named(m)'
  <2>1. calls[m].op = "gate" => calls[m].id # None
    BY <1>1 DEF CustodyInv, TypeOK, Call
  <2>2. /\ calls'[m].op = "gate" => calls'[m] = calls[m]
        /\ reads'[m].op # "idle" => reads'[m] = reads[m]
        /\ reads[m].op # "idle" => reads[m].id # None
    BY <1>1 DEF Idle, CustodyInv, TypeOK, Reading
  <2>3. cache'[m] # None => cache'[m] = cache[m]
    OBVIOUS
  <2> DEFINE F(id) == Fits(image', m, id)
  <2>4. \A id : id # None /\ Fits(image, m, id) => F(id)
    BY <1>4
  <2>5. /\ cache'[m] # None => F(cache'[m])
        /\ known'[m] # None => F(known'[m])
        /\ calls'[m].op = "gate" => F(calls'[m].id)
        /\ reads'[m].op # "idle" => F(reads'[m].id)
    <3> HIDE DEF F
    <3> QED BY <1>0, <2>1, <2>2, <2>3, <2>4 DEF Named
  <2> QED BY <2>5 DEF Named, Fits, Holds, HasReceipt
<1>6. GoneBefore(m)'
  BY <1>0 DEF GoneBefore, Idle, Same
<1>7. Settled(m)'
  BY <1>0 DEF Settled, Drift, HasReceipt, Same
<1> QED BY <1>3, <1>5, <1>6, <1>7

(* The identities that are in hand. *)
LEMMA Facts ==
    ASSUME CustodyInv, NEW l \in Lobby
    PROVE  /\ cache[l] # None => cache[l] \in Identity
           /\ known[l] # None => known[l] \in Identity
           /\ image.records[l] # None => image.records[l] \in Identity
           /\ calls[l].op \in Bound => calls[l].id \in Identity
           /\ reads[l].op # "idle" => reads[l].id \in Identity
           /\ calls[l].op = "create" => calls[l].id \in [generation : Generation, tailnet : {0}]
           /\ \A id \in Identity : id # None /\ id.tailnet \in 1..MaxTailnets
<1>1. /\ cache[l] \in Slot /\ known[l] \in Slot /\ image.records[l] \in Slot /\ calls[l] \in Call
      /\ reads[l] \in Reading
  BY DEF CustodyInv, TypeOK, Vault
<1>2. \A id \in Identity : id # None /\ id.tailnet \in 1..MaxTailnets
  BY NoneIsNoIdentity DEF Identity
<1> QED BY <1>1, <1>2 DEF Slot, Call, Reading, Bound

LEMMA PrepareKeeps ==
    ASSUME CustodyInv, NEW l \in Lobby, NEW g \in Generation, Prepare(l, g)
    PROVE  CustodyInv'
<1>0. /\ TypeOK /\ Drift(l) /\ Named(l)
  BY DEF CustodyInv
<1>1. \/ \E id \in Identity : Begin(l, "gate", id) /\ Fits(image, l, id)
      \/ Begin(l, "create", [generation |-> g, tailnet |-> 0])
  BY <1>0, Facts DEF Prepare, Named, Drift, Fits, Holds
<1>2. /\ calls' \in [Lobby -> Call]
      /\ \A m \in Lobby \ {l} : calls'[m] = calls[m]
  <2>1. calls \in [Lobby -> Call] /\ "gate" \in Bound
    BY <1>0 DEF TypeOK, Bound
  <2> QED BY <1>1, <2>1, CallsStep
<1>3. /\ cache' \in [Lobby -> Slot]
      /\ \A m \in Lobby \ {l} : cache'[m] = cache[m]
      /\ cache'[l] \in {cache[l], image.records[l]}
  BY <1>0 DEF Prepare, TypeOK, Vault
<1>4. /\ calls'[l].op = "gate" => Fits(image, l, calls'[l].id)
      /\ calls'[l].op # "erase"
  BY <1>0, <1>1 DEF Begin, TypeOK
<1> QED BY <1>0, <1>2, <1>3, <1>4, VaultAlone DEF Prepare, TypeOK

LEMMA CreateKeeps ==
    ASSUME CustodyInv, NEW l \in Lobby, CreateTailnet(l)
    PROVE  CustodyInv'
<1>0. TypeOK
  BY DEF CustodyInv
<1>1. PICK t \in 1..MaxTailnets :
          /\ tailnets[t] = "none"
          /\ \/ /\ tailnets' = [tailnets EXCEPT ![t] = "live"]
                /\ \/ Begin(l, "put", [calls[l].id EXCEPT !.tailnet = t])
                   \/ Return(l)
             \/ UNCHANGED tailnets /\ Return(l)
  BY DEF CreateTailnet
<1>2. [calls[l].id EXCEPT !.tailnet = t] \in Identity
  BY Facts DEF CreateTailnet, Identity
<1>3. /\ calls' \in [Lobby -> Call]
      /\ \A m \in Lobby \ {l} : calls'[m] = calls[m]
      /\ calls'[l].op \in {"put", "idle"}
  <2>1. calls \in [Lobby -> Call] /\ "put" \in Bound
    BY <1>0 DEF TypeOK, Bound
  <2>2. /\ calls' \in [Lobby -> Call]
        /\ \A m \in Lobby \ {l} : calls'[m] = calls[m]
    BY <1>1, <1>2, <2>1, CallsStep
  <2> QED BY <1>1, <2>1, <2>2 DEF Begin, Return, Idle
<1>4. /\ tailnets' \in [1..MaxTailnets -> {"none", "live", "gone"}]
      /\ \A s \in 1..MaxTailnets : tailnets[s] = "gone" => tailnets'[s] = "gone"
  BY <1>0, <1>1, GoneStays
<1> QED BY <1>0, <1>3, <1>4, VaultAlone DEF CreateTailnet, TypeOK

LEMMA GatePolicyKeeps ==
    ASSUME CustodyInv, NEW l \in Lobby, GatePolicy(l)
    PROVE  CustodyInv'
<1>0. TypeOK
  BY DEF CustodyInv
<1>1. calls[l].id \in Identity /\ calls[l].id.tailnet \in 1..MaxTailnets
  BY Facts DEF GatePolicy, Bound
<1>2. /\ calls' \in [Lobby -> Call]
      /\ \A m \in Lobby \ {l} : calls'[m] = calls[m]
      /\ calls'[l].op \in {"key", "idle"}
  <2>1. calls \in [Lobby -> Call] /\ "key" \in Bound
    BY <1>0 DEF TypeOK, Bound
  <2>2. /\ calls' \in [Lobby -> Call]
        /\ \A m \in Lobby \ {l} : calls'[m] = calls[m]
    BY <1>1, <2>1, CallsStep DEF GatePolicy
  <2> QED BY <2>1, <2>2 DEF GatePolicy, Begin, Return, Idle
<1>3. /\ tailnets' \in [1..MaxTailnets -> {"none", "live", "gone"}]
      /\ \A s \in 1..MaxTailnets : tailnets[s] = "gone" => tailnets'[s] = "gone"
  BY <1>0, <1>1, GoneStays DEF GatePolicy
<1>4. /\ known' \in [Lobby -> Slot]
      /\ \A m \in Lobby \ {l} : known'[m] = known[m]
      /\ known'[l] # known[l] => calls[l].op = "gate" /\ known'[l] = calls[l].id
  BY <1>0, <1>1 DEF GatePolicy, Answered, TypeOK, Slot
<1> QED BY <1>0, <1>2, <1>3, <1>4, VaultAlone DEF GatePolicy, TypeOK

(* child_access caches the client the image holds. *)
LEMMA AccessStep ==
    ASSUME CustodyInv, NEW l \in Lobby, known[l] # None, Access(l, known[l])
    PROVE  /\ cache' \in [Lobby -> Slot]
           /\ \A m \in Lobby \ {l} : cache'[m] = cache[m]
           /\ cache'[l] \in {cache[l], image.records[l]}
BY DEF Access, GetExact, CustodyInv, TypeOK, Vault

LEMMA ServeKeeps ==
    ASSUME CustodyInv, NEW l \in Lobby,
           Mint(l) \/ CreateAuthKey(l) \/ Cleanup(l) \/ DeleteTailnet(l)
    PROVE  CustodyInv'
<1>0. TypeOK /\ Named(l) /\ GoneBefore(l)
  BY DEF CustodyInv
<1>1. calls \in [Lobby -> Call] /\ {"mint_gate", "delete"} \subseteq Bound
  BY <1>0 DEF TypeOK, Bound
<1>2. CASE Mint(l)
  <2>1. Begin(l, "mint_gate", known[l]) /\ known[l] \in Identity
    BY <1>2, Facts DEF Mint
  <2>2. /\ calls' \in [Lobby -> Call]
        /\ \A m \in Lobby \ {l} : calls'[m] = calls[m]
        /\ calls'[l].op = "mint_gate"
    BY <1>1, <2>1, CallsStep DEF Begin
  <2> QED BY <1>0, <1>2, <2>2, AccessStep, VaultAlone DEF Mint, TypeOK
<1>3. CASE CreateAuthKey(l)
  <2>1. /\ calls' \in [Lobby -> Call]
        /\ \A m \in Lobby \ {l} : calls'[m] = calls[m]
        /\ calls'[l].op = "idle"
    BY <1>1, <1>3, CallsStep DEF CreateAuthKey, Return, Idle
  <2> QED BY <1>0, <1>3, <2>1, VaultAlone DEF CreateAuthKey, TypeOK
<1>4. CASE Cleanup(l)
  <2>1. Begin(l, "delete", known[l]) /\ known[l] \in Identity
    BY <1>4, Facts DEF Cleanup
  <2>2. /\ calls' \in [Lobby -> Call]
        /\ \A m \in Lobby \ {l} : calls'[m] = calls[m]
        /\ calls'[l].op = "delete"
    BY <1>1, <2>1, CallsStep DEF Begin
  <2> QED BY <1>0, <1>4, <2>2, AccessStep, VaultAlone DEF Cleanup, TypeOK
<1>5. CASE DeleteTailnet(l)
  <2>1. calls[l].id.tailnet \in 1..MaxTailnets
    BY <1>5, Facts DEF DeleteTailnet, Bound
  <2>2. /\ calls' \in [Lobby -> Call]
        /\ \A m \in Lobby \ {l} : calls'[m] = calls[m]
        /\ calls'[l].op = "idle"
    BY <1>1, <1>5, CallsStep DEF DeleteTailnet, Return, Idle
  <2>3. /\ tailnets' \in [1..MaxTailnets -> {"none", "live", "gone"}]
        /\ \A s \in 1..MaxTailnets : tailnets[s] = "gone" => tailnets'[s] = "gone"
    BY <1>0, <1>5, <2>1, GoneStays DEF DeleteTailnet
  <2> QED BY <1>0, <1>5, <2>2, <2>3, VaultAlone DEF DeleteTailnet, TypeOK
<1> QED BY <1>2, <1>3, <1>4, <1>5

(* An observation reads the vault and files what it read. *)
LEMMA ObserveKeeps ==
    ASSUME CustodyInv, NEW l \in Lobby, ObserveCache(l) \/ ObserveVault(l) \/ ObserveFill(l)
    PROVE  CustodyInv'
<1>0. TypeOK /\ Named(l)
  BY DEF CustodyInv
<1>1. /\ calls[l].op = "gate" => Fits(image, l, calls[l].id)
      /\ calls[l].op = "erase" => tailnets[calls[l].id.tailnet] = "gone"
  BY DEF CustodyInv, Named, GoneBefore
<1>2. /\ reads' \in [Lobby -> Reading] /\ \A m \in Lobby \ {l} : reads'[m] = reads[m]
      /\ reads'[l].op # "idle" => Fits(image, l, reads'[l].id)
  <2>1. CASE ObserveCache(l)
    <3>1. /\ reads' = [reads EXCEPT ![l] = [op |-> "missed", id |-> known[l]]]
          /\ known[l] \in Identity /\ Fits(image, l, known[l])
      BY <1>0, <2>1, Facts DEF ObserveCache, Look, Named
    <3>2. [op |-> "missed", id |-> known[l]] \in Reading
      BY <3>1 DEF Reading
    <3> QED BY <1>0, <3>1, <3>2 DEF TypeOK
  <2>2. CASE ObserveVault(l)
    <3>1. reads[l].id \in Identity /\ Fits(image, l, reads[l].id)
      BY <1>0, <2>2, Facts DEF ObserveVault, Named
    <3>2. [op |-> "fetched", id |-> reads[l].id] \in Reading /\ Idle \in Reading
      BY <3>1 DEF Reading, Idle
    <3>3. \/ reads' = [reads EXCEPT ![l] = [op |-> "fetched", id |-> reads[l].id]]
          \/ reads' = [reads EXCEPT ![l] = Idle]
      BY <2>2 DEF ObserveVault, Look
    <3> QED BY <1>0, <3>1, <3>2, <3>3 DEF TypeOK, Idle
  <2>3. CASE ObserveFill(l)
    <3>1. Idle \in Reading /\ Idle.op = "idle" /\ reads' = [reads EXCEPT ![l] = Idle]
      BY <2>3 DEF ObserveFill, Reading, Idle
    <3> QED BY <1>0, <3>1 DEF TypeOK
  <2> QED BY <2>1, <2>2, <2>3
<1>3. /\ cache' \in [Lobby -> Slot]
      /\ \A m \in Lobby \ {l} : cache'[m] = cache[m]
      /\ \/ cache'[l] = cache[l]
         \/ reads[l].op # "idle" /\ cache'[l] = reads[l].id
  BY <1>0, Facts DEF ObserveCache, ObserveVault, ObserveFill, TypeOK, Slot
<1> QED BY <1>0, <1>1, <1>2, <1>3, VaultAlone DEF ObserveCache, ObserveVault, ObserveFill, TypeOK

LEMMA EraseChildSecretKeeps ==
    ASSUME CustodyInv, NEW l \in Lobby, EraseChildSecret(l)
    PROVE  CustodyInv'
<1>0. TypeOK /\ known[l] \in Identity
  BY Facts DEF CustodyInv, EraseChildSecret
<1>1. /\ Begin(l, "erase", known[l]) \/ Begin(l, "verify", known[l])
      /\ tailnets[known[l].tailnet] = "gone"
  BY DEF EraseChildSecret
<1>2. /\ calls' \in [Lobby -> Call]
      /\ \A m \in Lobby \ {l} : calls'[m] = calls[m]
      /\ calls'[l].op \in {"erase", "verify"} /\ calls'[l].id = known[l]
  <2>1. calls \in [Lobby -> Call] /\ {"erase", "verify"} \subseteq Bound
    BY <1>0 DEF TypeOK, Bound
  <2>2. /\ calls' \in [Lobby -> Call]
        /\ \A m \in Lobby \ {l} : calls'[m] = calls[m]
    BY <1>0, <1>1, <2>1, CallsStep
  <2> QED BY <1>1, <2>1, <2>2 DEF Begin
<1> QED BY <1>0, <1>1, <1>2, VaultAlone DEF EraseChildSecret, TypeOK

(* put_if_absent: the write is of the image with one record more. *)
LEMMA StoreSecretKeeps ==
    ASSUME CustodyInv, NEW l \in Lobby, StoreSecret(l)
    PROVE  CustodyInv'
<1> DEFINE id == calls[l].id
<1> DEFINE next == [image EXCEPT !.records[l] = id]
<1>0. TypeOK /\ Drift(l) /\ Named(l) /\ GoneBefore(l) /\ Settled(l)
  BY DEF CustodyInv
<1>1. /\ id \in Identity /\ id # None
  BY Facts DEF StoreSecret, Bound
<1>2. PICK ok \in BOOLEAN :
          /\ Put(l, id, ok)
          /\ cache' = IF ok THEN [cache EXCEPT ![l] = id] ELSE cache
          /\ IF ok THEN Begin(l, "gate", id) ELSE Return(l)
  BY DEF StoreSecret
<1>3. /\ calls' \in [Lobby -> Call]
      /\ \A m \in Lobby \ {l} : calls'[m] = calls[m]
      /\ calls'[l] = IF ok THEN [op |-> "gate", id |-> id] ELSE Idle
  <2>1. calls \in [Lobby -> Call] /\ "gate" \in Bound
    BY <1>0 DEF TypeOK, Bound
  <2>2. /\ calls' \in [Lobby -> Call]
        /\ \A m \in Lobby \ {l} : calls'[m] = calls[m]
    BY <1>1, <1>2, <2>1, CallsStep
  <2> QED BY <1>2, <2>1, <2>2 DEF Begin, Return
<1>4. /\ cache' \in [Lobby -> Slot]
      /\ \A m \in Lobby \ {l} : cache'[m] = cache[m]
      /\ cache'[l] = IF ok THEN id ELSE cache[l]
  BY <1>0, <1>1, <1>2 DEF TypeOK, Slot
<1>5. /\ next \in Vault
      /\ next.records[l] = id /\ next.erasures = image.erasures
      /\ \A m \in Lobby \ {l} : next.records[m] = image.records[m]
  BY <1>0, <1>1 DEF TypeOK, Vault, Slot
<1>6. CASE UNCHANGED <<file, image>>
  <2>1. ok => image.records[l] = id
    BY <1>1, <1>2, <1>5, <1>6 DEF Put, PutConflicts
  <2>2. ok => Fits(image, l, id)
    BY <1>0, <1>1, <2>1 DEF Drift, Fits, Holds
  <2> QED BY <1>0, <1>3, <1>4, <1>6, <2>1, <2>2, VaultAlone DEF StoreSecret, TypeOK, Idle
<1>7. CASE ~UNCHANGED <<file, image>>
  <2>1. /\ image.records[l] = None /\ image.erasures[l] = None
        /\ file' \in {file, next} /\ (ok => file' = next)
        /\ image' = IF ok THEN next ELSE image
    BY <1>1, <1>2, <1>7 DEF Put, PutConflicts, Persist
  <2>2. TypeOK'
    BY <1>0, <1>3, <1>4, <1>5, <2>1 DEF TypeOK, StoreSecret
  <2>3. ASSUME NEW m \in Lobby, m # l
        PROVE  Drift(m)' /\ Named(m)' /\ GoneBefore(m)' /\ Settled(m)'
    <3>1. /\ Same(image', image, m)
          /\ Same(file', file, m) \/ Same(file', image, m)
      BY <1>5, <2>1, <2>3 DEF Same
    <3> QED BY <1>3, <1>4, <2>3, <3>1, OtherLobby DEF StoreSecret
  <2>4. /\ cache[l] = None /\ known[l] = None /\ l \notin erased /\ reads[l].op = "idle"
    BY <1>0, <2>1, Facts DEF Named, Settled, Fits, Holds, HasReceipt
  <2>5. /\ file.erasures[l] = None /\ file'.erasures[l] = None /\ image'.erasures[l] = None
        /\ ok => image'.records[l] = id /\ file'.records[l] = id
        /\ ~ok => image'.records[l] = None
    BY <1>0, <1>5, <2>1 DEF Drift
  <2>6. Drift(l)' /\ Settled(l)'
    BY <1>1, <2>4, <2>5 DEF Drift, Settled, StoreSecret, Fits, Holds
  <2>7. Named(l)'
    BY <1>1, <1>3, <1>4, <2>4, <2>5 DEF Named, StoreSecret, Idle, Fits, Holds
  <2>8. GoneBefore(l)'
    BY <1>3, <2>5 DEF GoneBefore, Idle
  <2> QED BY <2>2, <2>3, <2>6, <2>7, <2>8 DEF CustodyInv
<1> QED BY <1>6, <1>7

(* delete_cas: the write is of the image with the receipt for the record. *)
LEMMA EraseRecordKeeps ==
    ASSUME CustodyInv, NEW l \in Lobby, EraseRecord(l)
    PROVE  CustodyInv'
<1> DEFINE id == calls[l].id
<1> DEFINE next == [records |-> [image.records EXCEPT ![l] = None],
                    erasures |-> [image.erasures EXCEPT ![l] = id]]
<1>0. TypeOK /\ Drift(l) /\ Named(l) /\ GoneBefore(l) /\ Settled(l)
  BY DEF CustodyInv
<1>1. /\ id \in Identity /\ id # None /\ tailnets[id.tailnet] = "gone"
  BY <1>0, Facts DEF EraseRecord, Bound, GoneBefore
<1>2. PICK ok \in BOOLEAN :
          /\ DeleteCas(l, id, ok)
          /\ IF ok THEN Begin(l, "verify", id) ELSE Return(l)
  BY DEF EraseRecord
<1>3. /\ calls' \in [Lobby -> Call]
      /\ \A m \in Lobby \ {l} : calls'[m] = calls[m]
      /\ calls'[l].op \in {"verify", "idle"}
  <2>1. calls \in [Lobby -> Call] /\ "verify" \in Bound
    BY <1>0 DEF TypeOK, Bound
  <2>2. /\ calls' \in [Lobby -> Call]
        /\ \A m \in Lobby \ {l} : calls'[m] = calls[m]
    BY <1>1, <1>2, <2>1, CallsStep
  <2> QED BY <1>2, <2>1, <2>2 DEF Begin, Return, Idle
<1>5. /\ next \in Vault
      /\ next.records[l] = None /\ next.erasures[l] = id
      /\ \A m \in Lobby \ {l} : /\ next.records[m] = image.records[m]
                                /\ next.erasures[m] = image.erasures[m]
  BY <1>0, <1>1 DEF TypeOK, Vault, Slot
<1>6. CASE UNCHANGED <<file, image>>
  BY <1>0, <1>3, <1>6, VaultAlone DEF EraseRecord, TypeOK
<1>7. CASE ~UNCHANGED <<file, image>>
  <2>1. /\ image.records[l] = id
        /\ file' \in {file, next} /\ (ok => file' = next)
        /\ image' = IF ok THEN next ELSE image
    BY <1>2, <1>7 DEF DeleteCas, Persist
  <2>2. TypeOK'
    BY <1>0, <1>3, <1>5, <2>1 DEF TypeOK, EraseRecord
  <2>3. ASSUME NEW m \in Lobby, m # l
        PROVE  Drift(m)' /\ Named(m)' /\ GoneBefore(m)' /\ Settled(m)'
    <3>1. /\ Same(image', image, m)
          /\ Same(file', file, m) \/ Same(file', image, m)
      BY <1>5, <2>1, <2>3 DEF Same
    <3> QED BY <1>3, <2>3, <3>1, OtherLobby DEF EraseRecord
  <2>4. Holds(image, l, id) /\ Fits(file, l, id)
    BY <1>0, <1>1, <2>1 DEF Drift, Holds
  <2>5. /\ Fits(file', l, id)
        /\ Holds(image', l, id) \/ (HasReceipt(image', l, id) /\ HasReceipt(file', l, id))
    <3> HIDE DEF id, next
    <3>1. HasReceipt(next, l, id)
      BY <1>5 DEF HasReceipt
    <3>2. CASE ok
      BY <2>1, <3>1, <3>2 DEF Fits
    <3>3. CASE ~ok
      BY <2>1, <2>4, <3>1, <3>3 DEF Fits
    <3> QED BY <3>2, <3>3
  <2>6. /\ cache[l] \in {None, id} /\ known[l] \in {None, id} /\ l \notin erased
        /\ reads[l].op # "idle" => reads[l].id = id
    BY <1>0, <1>1, <2>4 DEF Named, Settled, Fits, Holds, HasReceipt
  <2>7. Drift(l)'
    BY <1>1, <2>5 DEF Drift, Fits, Holds, HasReceipt
  <2>8. Settled(l)'
    BY <2>6 DEF Settled, EraseRecord
  <2>9. Named(l)'
    BY <1>3, <2>5, <2>6 DEF Named, EraseRecord, Fits, Holds, HasReceipt
  <2>10. GoneBefore(l)'
    BY <1>1, <1>3, <2>5 DEF GoneBefore, EraseRecord, Fits, Holds, HasReceipt
  <2> QED BY <2>2, <2>3, <2>7, <2>8, <2>9, <2>10 DEF CustodyInv
<1> QED BY <1>6, <1>7

(* verify_erased: every lobby's record in the image becomes the file's. *)
LEMMA VerifyErasureKeeps ==
    ASSUME CustodyInv, NEW l \in Lobby, VerifyErasure(l)
    PROVE  CustodyInv'
<1>0. TypeOK /\ calls[l].id \in Identity /\ calls[l].id # None
  BY Facts DEF CustodyInv, VerifyErasure, Bound
<1>1. /\ calls' \in [Lobby -> Call]
      /\ \A m \in Lobby \ {l} : calls'[m] = calls[m]
      /\ calls'[l] = Idle
  <2>1. calls \in [Lobby -> Call]
    BY <1>0 DEF TypeOK
  <2>2. /\ calls' \in [Lobby -> Call]
        /\ \A m \in Lobby \ {l} : calls'[m] = calls[m]
    BY <2>1, CallsStep DEF VerifyErasure
  <2> QED BY <2>1, <2>2 DEF VerifyErasure, Return
<1>2. CASE UNCHANGED <<image, cache, erased>>
  BY <1>0, <1>1, <1>2, VaultAlone DEF VerifyErasure, TypeOK, Idle
<1>3. CASE /\ VerifyErased(l, calls[l].id)
           /\ cache' = [cache EXCEPT ![l] = None]
           /\ erased' = erased \cup {l}
  <2>1. TypeOK'
    BY <1>0, <1>1, <1>3 DEF TypeOK, VerifyErasure, VerifyErased, Slot
  <2>2. \A m \in Lobby : cache'[m] \in {cache[m], None} /\ (m # l => (m \in erased' => m \in erased))
    BY <1>0, <1>3 DEF TypeOK
  <2>3. \A m \in Lobby : Same(image', file, m) /\ Same(file', file, m)
    BY <1>3 DEF Same, VerifyErased, VerifyErasure
  <2>4. ASSUME NEW m \in Lobby, m # l
        PROVE  Drift(m)' /\ Named(m)' /\ GoneBefore(m)' /\ Settled(m)'
    BY <1>1, <2>2, <2>3, <2>4, OtherLobby DEF VerifyErasure
  <2>5. HasReceipt(image', l, calls[l].id) /\ HasReceipt(file', l, calls[l].id) /\ cache'[l] = None
    BY <1>0, <1>3 DEF VerifyErased, Erased, VerifyErasure, HasReceipt, TypeOK
  <2>6. Drift(l)' /\ Settled(l)'
    BY <1>0, <2>5 DEF Drift, Settled, HasReceipt
  <2>7. Named(l)'
    <3>1. /\ known[l] # None => known[l] = calls[l].id
          /\ reads[l].op # "idle" => reads[l].id = calls[l].id
      BY <1>0, <1>3 DEF CustodyInv, Named, Drift, Fits, Holds, HasReceipt, VerifyErased, Erased
    <3> QED BY <1>1, <2>5, <3>1 DEF Named, VerifyErasure, Idle, Fits, HasReceipt
  <2>8. GoneBefore(l)'
    BY <1>1, <1>3 DEF CustodyInv, GoneBefore, VerifyErased, VerifyErasure, Idle
  <2> QED BY <2>1, <2>4, <2>6, <2>7, <2>8 DEF CustodyInv
<1> QED BY <1>2, <1>3 DEF VerifyErasure

LEMMA RestartKeeps ==
    ASSUME CustodyInv, Restart
    PROVE  CustodyInv'
<1>1. TypeOK'
  BY DEF CustodyInv, TypeOK, Restart, Slot, Call, Reading, Idle
<1>2. ASSUME NEW m \in Lobby
      PROVE  Drift(m)' /\ Named(m)' /\ GoneBefore(m)' /\ Settled(m)'
  <2>1. /\ cache'[m] = None /\ calls'[m] = Idle /\ reads'[m] = Idle
        /\ Same(image', file, m) /\ Same(file', file, m)
    BY DEF Restart, Same
  <2> QED BY <2>1, OtherLobby DEF Restart
<1> QED BY <1>1, <1>2 DEF CustodyInv

LEMMA CustodyStep == CustodyInv /\ [Next]_vars => CustodyInv'
<1> SUFFICES ASSUME CustodyInv, [Next]_vars
             PROVE  CustodyInv'
  OBVIOUS
<1>1. CASE UNCHANGED vars
  BY <1>1 DEF vars, CustodyInv, TypeOK, Drift, Named, GoneBefore, Settled, Fits, Holds, HasReceipt
<1>2. ASSUME NEW l \in Lobby, NEW g \in Generation, Prepare(l, g)
      PROVE  CustodyInv'
  BY <1>2, PrepareKeeps
<1>3. ASSUME NEW l \in Lobby,
             \/ CreateTailnet(l) \/ StoreSecret(l) \/ GatePolicy(l) \/ Mint(l) \/ CreateAuthKey(l)
             \/ Cleanup(l) \/ DeleteTailnet(l)
             \/ ObserveCache(l) \/ ObserveVault(l) \/ ObserveFill(l)
             \/ EraseChildSecret(l) \/ EraseRecord(l) \/ VerifyErasure(l)
      PROVE  CustodyInv'
  BY <1>3, CreateKeeps, StoreSecretKeeps, GatePolicyKeeps, ServeKeeps, ObserveKeeps, EraseChildSecretKeeps,
     EraseRecordKeeps, VerifyErasureKeeps
<1>4. CASE Restart
  BY <1>4, RestartKeeps
<1> QED BY <1>1, <1>2, <1>3, <1>4 DEF Next

LEMMA InvImpliesCustody ==
    CustodyInv => CustodyIsKept /\ ErasureIsFinal /\ CacheIsCustody
<1> SUFFICES ASSUME CustodyInv
             PROVE  CustodyIsKept /\ ErasureIsFinal /\ CacheIsCustody
  OBVIOUS
<1>1. ASSUME NEW l \in Lobby
      PROVE  Drift(l) /\ Named(l) /\ GoneBefore(l) /\ Settled(l)
  BY DEF CustodyInv
<1>2. ASSUME NEW l \in Lobby, NEW id, id # None, Fits(image, l, id)
      PROVE  Fits(file, l, id)
  BY <1>1, <1>2 DEF Drift, Fits, Holds, HasReceipt
<1>3. CustodyIsKept
  <2> SUFFICES ASSUME NEW l \in Lobby, known[l] # None
               PROVE  /\ \A vault \in {file, image} : ValidChildCustody(vault, l, known[l])
                      /\ tailnets[known[l].tailnet] = "live" => HasAccess(l)
    BY DEF CustodyIsKept
  <2>1. Fits(image, l, known[l]) /\ Fits(file, l, known[l])
    BY <1>1, <1>2 DEF Named
  <2>2. \A vault \in {file, image} : ValidChildCustody(vault, l, known[l])
    BY <2>1 DEF ValidChildCustody, GetExact, HasErasureReceipt, Fits, Holds, HasReceipt
  <2>3. tailnets[known[l].tailnet] = "live" => HasAccess(l)
    BY <1>1, <2>1 DEF GoneBefore, HasAccess, Fits, Holds, HasReceipt
  <2> QED BY <2>2, <2>3
<1>4. ErasureIsFinal
  <2> SUFFICES ASSUME NEW l \in erased
               PROVE  /\ file.records[l] = None /\ image.records[l] = None
                      /\ cache[l] # None => tailnets[cache[l].tailnet] = "gone"
    BY DEF ErasureIsFinal
  <2>1. l \in Lobby
    BY DEF CustodyInv, TypeOK
  <2>2. /\ image.records[l] = None /\ file.records[l] = None
        /\ cache[l] # None => image.erasures[l] = cache[l]
    BY <1>1, <2>1 DEF Settled, Drift, Named, Fits, Holds, HasReceipt
  <2> QED BY <1>1, <2>1, <2>2 DEF GoneBefore
<1>5. CacheIsCustody
  BY <1>1, <1>2 DEF CacheIsCustody, Named, Fits, Holds, HasReceipt
<1> QED BY <1>3, <1>4, <1>5

(* Whatever write fails, at whichever step the process stops, and however    *)
(* the calls of several lobbies interleave over the one vault: a tailnet the *)
(* service was told of stays reachable by its exact secret until the exact   *)
(* receipt replaces it, an acknowledged erasure is never undone, a client    *)
(* that an observation caches after it is of a tailnet that is gone, and     *)
(* what a client in use needs is on disk (put_if_absent, delete_cas,         *)
(* verify_erased, and the provider's calls over them).                       *)
THEOREM CustodyHolds == Spec => [](CustodyIsKept /\ ErasureIsFinal /\ CacheIsCustody)
<1>1. CustodyInv => CustodyIsKept /\ ErasureIsFinal /\ CacheIsCustody
  BY InvImpliesCustody
<1> QED BY <1>1, CustodyInit, CustodyStep, PTL DEF Spec
=============================================================================
